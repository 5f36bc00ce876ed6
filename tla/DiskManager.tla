---------------------------- MODULE DiskManager -----------------------------
(***************************************************************************)
(* diskmanager.cpp: the pages of one file, page 0 the header, the freed    *)
(* pages chained through their first word.  One process at a time has the  *)
(* file open; it may be closed, killed, or lose its power at any instant   *)
(* between two calls, and seeks, writes, flushes and fsync may fail.       *)
(* A page gets to the file and to the disk whole or not at all, and an     *)
(* fsync that succeeds is taken at its word.                               *)
(*                                                                         *)
(* A page is its first word and the rest.  Words are those of a machine    *)
(* with WordSize values, the code's 2^32: page ids, counts and the first   *)
(* word of a page.  A caller keeps to the pages it owns.                   *)
(*                                                                         *)
(* The constructor never calls LoadOrInitHeader.  HeaderLoaded = FALSE is  *)
(* the code as it stands; TRUE is the manager that routine was written     *)
(* for, which is what the free list can be judged by.                      *)
(***************************************************************************)
EXTENDS Integers, FiniteSets, Functions

CONSTANTS
    LastPage,      \* bound: the last page of the file
    WordSize,      \* the number of values of a 32-bit word
    Data,          \* what callers write: a set of pages
    HeaderLoaded,  \* whether opening the file runs LoadOrInitHeader
    WriteMayFail,  \* whether seeks, fwrite, fflush and fsync may fail
    MaxVersions,   \* bound: how many versions of its pages a power loss may choose from
    GoesOnLost     \* bound: whether a behaviour goes on once the list or a flush was lost

HEADER_PAGE_ID == 0
INVALID_PAGE_ID == WordSize - 1
SEDB_MAGIC == WordSize - 2     \* no id of a page the model has

PageIds == 0..LastPage
Words   == 0..WordSize - 1

ASSUME SizeAssumption == /\ LastPage \in Nat \ {0} /\ WordSize \in Nat
                         /\ LastPage < SEDB_MAGIC /\ MaxVersions \in Nat
ASSUME ModeAssumption == HeaderLoaded \in BOOLEAN /\ WriteMayFail \in BOOLEAN /\ GoesOnLost \in BOOLEAN

VARIABLES
    file,        \* the pages as the operating system has them; NoPage: past the end
    disk,        \* the versions of each page that a power loss may leave
    header,      \* m_Header
    dirty,       \* m_HeaderDirty
    status,      \* "closed", "open", or "refused": it is not a database
    owned,       \* the pages callers hold
    lost,        \* what was lost: "list", "data", "flush", "end"
    atRisk,      \* what would lose the list: "none", "power" alone, or any "end"
    setRoot,     \* the root set last, or found when the file was opened
    unsynced,    \* the roots set since the last Sync, and the one at it
    rootInDoubt  \* whether setting the last root threw, or power was lost since

rootVars == <<setRoot, unsynced, rootInDoubt>>
vars == <<file, disk, header, dirty, status, owned, lost, atRisk, rootVars>>

NoHeader == [magic |-> 0, pageCount |-> 0, freeListHead |-> 0, rootPageId |-> 0,
             numFreePages |-> 0]
Word(w)  == [first |-> w, rest |-> "zeros", header |-> NoHeader]
ZeroPage == Word(0)
NoPage   == [ZeroPage EXCEPT !.rest = "no page"]

Headers   == [magic : Words, pageCount : Words, freeListHead : Words, rootPageId : Words,
              numFreePages : Words]
DiskPages == [first : Words, rest : {"zeros", "header", "data", "no page"}, header : Headers]

ASSUME DataAssumption == Data \subseteq DiskPages \ {NoPage}

\* EncodeHeader and DecodeHeader: a page that holds no header decodes to zeros but for
\* its first word.
EncodeHeader(h) == [first |-> h.magic, rest |-> "header", header |-> h]
DecodeHeader(page) == [page.header EXCEPT !.magic = page.first]

\* The number of pages in the file, which has no holes at its end.
NumPages(f) == Cardinality({p \in PageIds : f[p] # NoPage})

\* ReadPage: past the end fread is short, and the caller's buffer stays as it was.
ReadPage(p, buffer) == IF p \in PageIds /\ file[p] # NoPage THEN file[p] ELSE buffer

\* A page on its way to the file, the hole before it zeroed.
Written(f, p, page) == [q \in PageIds |-> CASE q = p -> page
                                            [] q < p /\ f[q] = NoPage -> ZeroPage
                                            [] OTHER -> f[q]]
\* WritePage returns with the page in the file, or, as nobody looks at what fflush returns,
\* without.  What stays in the C library's buffer then goes out with the next seek, before
\* anything is read, as if the flush had worked, or it never does.
WritePage(p, page) ==
    \/ file' = Written(file, p, page) /\ UNCHANGED lost
    \/ WriteMayFail /\ lost' = lost \cup {"flush"} /\ UNCHANGED file
\* It throws when it cannot seek, or not write the whole page: none of it is in the file.
WritePageThrows == WriteMayFail /\ UNCHANGED <<file, lost>>

\* What a power loss may leave of the file, with fsync and without.
Synced(f) == [p \in PageIds |-> {f[p]}]
FSync   == disk' = Synced(file')
NoFSync == /\ disk' = [p \in PageIds |-> disk[p] \cup {file'[p]}]
           /\ Cardinality(UNION {{p} \X disk'[p] : p \in PageIds}) <= MaxVersions

\* While nothing is lost but data.  What is lost is never found again, so that a model with
\* GoesOnLost = FALSE leaves out only states of which nothing is promised.
Intact == lost \subseteq {"data"}
GoesOn == Intact \/ GoesOnLost

\* After AllocatePage has run off its end there is nothing left to say in any case.
Usable == status = "open" /\ "end" \notin lost

-----------------------------------------------------------------------------
(* The header. *)

FreshHeader == [magic |-> SEDB_MAGIC, pageCount |-> 1, freeListHead |-> INVALID_PAGE_ID,
                rootPageId |-> INVALID_PAGE_ID, numFreePages |-> 0]

\* A database whose pages are all in use and whose root is page 1.
FullFile == [p \in PageIds |->
               IF p = HEADER_PAGE_ID
                 THEN EncodeHeader([FreshHeader EXCEPT !.pageCount = LastPage + 1, !.rootPageId = 1])
                 ELSE ZeroPage]
NewFile == [p \in PageIds |-> NoPage]
AlienFile == Written(NewFile, 0, ZeroPage)

\* The constructor as it stands: the header stays all zeros.
OpenWithoutHeader == /\ status' = "open"
                     /\ header' = NoHeader
                     /\ dirty' = FALSE
                     /\ UNCHANGED <<file, disk, lost, atRisk, rootVars>>

\* The root is what it is from here on, on the disk too, or as far as one can read.
RootIsSynced == /\ setRoot' = header'.rootPageId
                /\ unsynced' = {setRoot'}
                /\ rootInDoubt' = FALSE
RootIsFound  == /\ setRoot' = header'.rootPageId
                /\ rootInDoubt' = FALSE
                /\ UNCHANGED unsynced

\* LoadOrInitHeader on a new file: write the header and sync it at once, or throw.
InitHeader == /\ NumPages(file) = 0
              /\ header' = FreshHeader
              /\ WritePage(HEADER_PAGE_ID, EncodeHeader(FreshHeader))
              /\ FSync
              /\ status' = "open"
              /\ atRisk' = "none"
              /\ RootIsSynced
              /\ UNCHANGED dirty
InitHeaderThrows == /\ WriteMayFail /\ NumPages(file) = 0
                    /\ \/ WritePageThrows
                       \/ WritePage(HEADER_PAGE_ID, EncodeHeader(FreshHeader))
                    /\ NoFSync
                    /\ UNCHANGED <<header, dirty, status, atRisk, rootVars>>

\* On an existing one: believe the header but for a page count above what the file has.
LoadHeader ==
    /\ NumPages(file) > 0
    /\ LET found == DecodeHeader(file[HEADER_PAGE_ID])
           actual == NumPages(file) IN
         IF found.magic # SEDB_MAGIC
           THEN /\ status' = "refused"
                /\ UNCHANGED <<header, dirty, rootVars>>
           ELSE /\ header' = [found EXCEPT !.pageCount = IF @ > actual THEN actual ELSE @]
                /\ dirty' = (found.pageCount > actual)
                /\ status' = "open"
                /\ RootIsFound
    /\ UNCHANGED <<file, disk, lost, atRisk>>

LoadOrInitHeader == InitHeader \/ InitHeaderThrows \/ LoadHeader

Open == /\ status = "closed"
        /\ IF HeaderLoaded THEN LoadOrInitHeader ELSE OpenWithoutHeader
        /\ UNCHANGED owned

\* FlushHeader, and whether it throws.
FlushHeader == IF dirty THEN WritePage(HEADER_PAGE_ID, EncodeHeader(header))
                        ELSE UNCHANGED <<file, lost>>
FlushHeaderThrows == dirty /\ WritePageThrows

Sync == /\ Usable
        /\ FlushHeader
        /\ FSync
        /\ dirty' = FALSE
        /\ atRisk' = "none"
        /\ UNCHANGED <<header, status, owned>>
        /\ RootIsSynced

\* The header cannot be written, or it is and fsync fails.
SyncThrows == /\ Usable
              /\ \/ FlushHeaderThrows /\ UNCHANGED <<dirty, atRisk>>
                 \/ /\ WriteMayFail /\ FlushHeader
                    /\ dirty' = FALSE
                    /\ atRisk' = IF dirty THEN "power" ELSE atRisk
              /\ NoFSync
              /\ UNCHANGED <<header, status, owned, rootVars>>

\* Mutant: the root waits for the next Sync.
SetRootPageIdLater(p) ==
    /\ Usable /\ p \in owned
    /\ header' = [header EXCEPT !.rootPageId = p]
    /\ dirty' = TRUE
    /\ setRoot' = p /\ unsynced' = unsynced \cup {p} /\ rootInDoubt' = FALSE
    /\ UNCHANGED <<file, disk, status, owned, lost, atRisk>>

\* SetRootPageId: written through to the operating system, not synced.  When it throws, the
\* root is set in memory and will get to the file with the next Sync.
SetRootPageId(p) ==
    /\ Usable /\ p \in owned
    /\ header' = [header EXCEPT !.rootPageId = p]
    /\ unsynced' = unsynced \cup {p}
    /\ \/ /\ WritePage(HEADER_PAGE_ID, EncodeHeader(header'))
          /\ dirty' = FALSE
          /\ atRisk' = IF dirty THEN "power" ELSE atRisk
          /\ setRoot' = p /\ rootInDoubt' = FALSE
       \/ /\ WritePageThrows
          /\ dirty' = TRUE /\ rootInDoubt' = TRUE
          /\ UNCHANGED <<atRisk, setRoot>>
    /\ NoFSync
    /\ UNCHANGED <<status, owned>>

-----------------------------------------------------------------------------
(* Allocation. *)

\* The header once the head of the free list, with the word next on it, is taken.
Popped(next) == [header EXCEPT !.freeListHead = next,
                               !.numFreePages = (@ + WordSize - 1) % WordSize]

\* Mutant: the page is handed out with its link still on it.
AllocatePageUncleaned ==
    /\ Usable /\ header.freeListHead \in PageIds
    /\ LET id == header.freeListHead IN
         /\ header' = Popped(ReadPage(id, ZeroPage).first)
         /\ owned' = owned \cup {id}
    /\ dirty' = TRUE /\ atRisk' = "end"
    /\ UNCHANGED <<file, disk, status, lost, rootVars>>

\* Mutant: the head stays where it was.
AllocatePageKeepHead ==
    /\ Usable /\ header.freeListHead \in PageIds
    /\ LET id == header.freeListHead IN
         /\ header' = [Popped(0) EXCEPT !.freeListHead = id]
         /\ WritePage(id, ZeroPage)
         /\ owned' = owned \cup {id}
    /\ dirty' = TRUE /\ atRisk' = "end"
    /\ NoFSync
    /\ UNCHANGED <<status, rootVars>>

\* The head of the list, zeroed.  Its link is what the local page held before when the
\* read is short.  A write that throws leaves the page in neither list.  Bound: a list that
\* was lost may lead past the pages the model has.
AllocatePage ==
    /\ Usable /\ header.freeListHead \in PageIds
    /\ LET id == header.freeListHead IN
         /\ \E garbage \in Words : header' = Popped(ReadPage(id, Word(garbage)).first)
         /\ \/ WritePage(id, ZeroPage) /\ owned' = owned \cup {id} /\ atRisk' = "end"
            \/ WritePageThrows /\ UNCHANGED <<owned, atRisk>>
    /\ dirty' = TRUE
    /\ NoFSync
    /\ UNCHANGED <<status, rootVars>>

\* With nothing free the function ends without a return: the caller may get any number
\* at all, and nothing can be said of its pages any more.
AllocateNothing ==
    /\ Usable /\ header.freeListHead = INVALID_PAGE_ID
    /\ lost' = lost \cup {"end"}
    /\ UNCHANGED <<file, disk, header, dirty, status, owned, atRisk, rootVars>>

\* The link is written before the header changes, so that a throw leaves the list alone.
DeallocatePage(p) ==
    /\ Usable /\ p \in owned
    /\ p \notin {HEADER_PAGE_ID, INVALID_PAGE_ID} /\ p < header.pageCount
    /\ \/ /\ WritePage(p, Word(header.freeListHead))
          /\ header' = [header EXCEPT !.freeListHead = p,
                                      !.numFreePages = (@ + 1) % WordSize]
          /\ dirty' = TRUE
          /\ owned' = owned \ {p}
       \/ /\ WritePageThrows
          /\ UNCHANGED <<header, dirty, owned>>
    /\ NoFSync
    /\ UNCHANGED <<status, atRisk, rootVars>>

\* WritePage, by a caller on a page of its own.
WriteData(p, page) ==
    /\ Usable /\ p \in owned
    /\ WritePage(p, page) \/ WritePageThrows
    /\ NoFSync
    /\ UNCHANGED <<header, dirty, status, owned, atRisk, rootVars>>

-----------------------------------------------------------------------------
(* The disk, and the end of a process. *)

\* The destructor and a kill are the same: it flushes what WritePage has already flushed,
\* and never the header.  Frees that the header in the file does not know of are only
\* leaked; it may still list a page that was allocated.
Close == /\ status = "open"
         /\ status' = "closed"
         /\ header' = NoHeader /\ dirty' = FALSE
         /\ lost' = lost \cup IF atRisk = "end" THEN {"list"} ELSE {}
         /\ UNCHANGED <<file, disk, owned, atRisk, rootVars>>

\* A power loss, also of a file that nobody has open, leaves one version of each page.
PowerLoss ==
    /\ status \in {"open", "closed"}
    /\ status' = "closed"
    /\ file' \in {f \in [PageIds -> UNION {disk[p] : p \in PageIds}] : \A p \in PageIds : f[p] \in disk[p]}
    /\ FSync
    /\ header' = NoHeader /\ dirty' = FALSE
    /\ lost' = lost \cup (IF atRisk # "none" THEN {"list"} ELSE {})
                    \cup (IF \E p \in owned : disk[p] # {file[p]} THEN {"data"} ELSE {})
    /\ atRisk' = "none"
    /\ rootInDoubt' = TRUE
    /\ UNCHANGED <<owned, setRoot, unsynced>>

Init == /\ \/ file = FullFile /\ owned = 1..LastPage /\ setRoot = 1
           \/ file = NewFile /\ owned = {} /\ setRoot = INVALID_PAGE_ID
           \/ file = AlienFile /\ owned = {} /\ setRoot = INVALID_PAGE_ID
        /\ disk = Synced(file)
        /\ header = NoHeader
        /\ dirty = FALSE
        /\ status = "closed"
        /\ lost = {} /\ atRisk = "none"
        /\ unsynced = {setRoot} /\ rootInDoubt = FALSE

Next == /\ GoesOn
        /\ \/ Open \/ Sync \/ SyncThrows \/ Close \/ PowerLoss
           \/ AllocatePage \/ AllocateNothing
           \/ \E p \in PageIds : \/ SetRootPageId(p)
                                 \/ DeallocatePage(p)
                                 \/ \E page \in Data : WriteData(p, page)

Spec == Init /\ [][Next]_vars

-----------------------------------------------------------------------------
(* Properties. *)

\* The pages the free list visits, by position, while it stays within the file.
Chain[i \in 0..LastPage + 1] ==
    IF i = 0 THEN header.freeListHead
    ELSE IF Chain[i - 1] \in PageIds THEN file[Chain[i - 1]].first ELSE INVALID_PAGE_ID

\* DeallocatePage and AllocatePage over any history of calls that throw or not, of closings
\* and of power losses, as long as no allocation was lost and no failed flush ignored: the
\* list visits numFreePages different pages, none of them the header, past the count, or
\* in a caller's hands, and then ends.  Losing frees does it no harm.
FreeListSound ==
    status = "open" /\ HeaderLoaded /\ Intact =>
      LET visited == {i \in DOMAIN Chain : Chain[i] # INVALID_PAGE_ID} IN
        /\ visited = 0..header.numFreePages - 1
        /\ \A i \in visited : Chain[i] \in 1..header.pageCount - 1 \ owned
        /\ \A i, j \in visited : Chain[i] = Chain[j] => i = j

\* "The worst case is a slightly larger file" when the head of the list is stale (storage
\* lesson 04, on keeping it in memory): no page is handed out while a caller has it.
NeverHandedOutTwice ==
    [][\A p \in PageIds : AllocatePage /\ p = header.freeListHead => p \notin owned]_vars

\* SetRootPageId, Sync and the destructor: whoever opens the file after a close or a kill
\* finds the root that was set last; after a power loss, or when setting it threw, one that
\* was set since the last Sync, or the one at it.  The list must not be lost, as it can
\* lead AllocatePage to the header's page.
RootSurvives ==
    [][Open /\ status' = "open" /\ HeaderLoaded /\ Intact =>
         \/ header'.rootPageId = setRoot
         \/ rootInDoubt /\ header'.rootPageId \in unsynced]_vars

Pool == INSTANCE PagePool WITH Pages <- 1..LastPage, Clean <- ZeroPage,
                               contents <- [p \in owned |-> file[p]], givenUp <- (lost # {})

\* "Hand back a clean page": what callers see of AllocatePage, DeallocatePage and WritePage
\* is a pool of pages, through exceptions and every end of the process that loses neither
\* an allocation nor data, as long as no failed flush is ignored.
ImplementsPagePool == Pool!PoolSpec
=============================================================================
