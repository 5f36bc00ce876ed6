-------------------------- MODULE DiskManager_proofs --------------------------
(***************************************************************************)
(* The pages of the file, over any history of calls that throw or not, of  *)
(* closings, kills and power losses, for any number of pages.  Everything  *)
(* here is about a manager that runs LoadOrInitHeader when it opens a file.*)
(***************************************************************************)
EXTENDS DiskManager, FiniteSetTheorems, WellFoundedInduction, TLAPS

-----------------------------------------------------------------------------
(* The invariant. *)

DiskTypes ==
  /\ file \in [PageIds -> DiskPages] /\ disk \in [PageIds -> SUBSET DiskPages]
  /\ \A p \in PageIds : file[p] \in disk[p]
  /\ header \in Headers
  /\ dirty \in BOOLEAN /\ rootInDoubt \in BOOLEAN
  /\ owned \subseteq 1 .. LastPage

\* The header in the file.
IsHeader(page) == page.first = SEDB_MAGIC
Stored == DecodeHeader(file[0])

\* An open file has a header in it, the one in memory unless that is dirty, which it is
\* while the list has lost a page that the file still lists.
HeaderKept ==
  /\ status = "open" => /\ header.magic = SEDB_MAGIC /\ IsHeader(file[0])
                        /\ ~dirty => Stored = header
                        /\ atRisk = "end" => dirty
  /\ status = "closed" => atRisk # "end"
  /\ ~IsHeader(file[0]) => disk[0] = {file[0]}

\* The root in memory and in the file is the one set last; in doubt, and on the disk, it is
\* one of those that were set since the last Sync.  A file without a page has none.
RootKept ==
  /\ status = "open" => header.rootPageId \in unsynced /\ (~rootInDoubt => header.rootPageId = setRoot)
  /\ IsHeader(file[0]) /\ ~rootInDoubt => Stored.rootPageId = setRoot
  /\ file[0] = NoPage /\ ~rootInDoubt => setRoot = INVALID_PAGE_ID
  /\ \A v \in disk[0] : /\ IsHeader(v) => DecodeHeader(v).rootPageId \in unsynced
                        /\ v = NoPage => INVALID_PAGE_ID \in unsynced

\* The free list of a header is the n pages of list: in the file, below the count, in no
\* caller's hands, no page twice, each with the next in its first word.
Linked(list, n, f, h, held) ==
  /\ h.numFreePages = n /\ h.freeListHead = list[0] /\ list[n] = INVALID_PAGE_ID
  /\ \A i \in 0 .. n - 1 : /\ list[i] \in (1 .. h.pageCount - 1) \ held
                           /\ f[list[i]].first = list[i + 1]
  /\ \A i, j \in 0 .. n - 1 : list[i] = list[j] => i = j
HasList(f, h, held) == \E n \in Nat : \E list \in [0 .. n -> Words] : Linked(list, n, f, h, held)

\* A header has its list in a file, and the pages it counts are there.
Sound(f, h) == /\ h.pageCount \in 1 .. LastPage + 1
               /\ HasList(f, h, owned)
               /\ \A p \in 1 .. h.pageCount - 1 : f[p] # NoPage

\* What a power loss may leave of the file, and headers that differ in the root alone.
Possible(f) == f \in [PageIds -> DiskPages] /\ \A p \in PageIds : f[p] \in disk[p]
SameList(h, k) == /\ h.freeListHead = k.freeListHead /\ h.numFreePages = k.numFreePages
                  /\ h.pageCount = k.pageCount

\* The header in memory has its list; so has the one in the file, unless a page of it was
\* handed out since; and it has it in whatever a power loss leaves, unless since the last
\* Sync a page was handed out or another list got to the file.
ListsKept ==
  /\ status = "open" => Sound(file, header)
  /\ IsHeader(file[0]) /\ atRisk # "end" => Sound(file, Stored)
  /\ IsHeader(file[0]) /\ atRisk = "none" =>
       \A f : Possible(f) => /\ Sound(f, Stored)
                             /\ IsHeader(f[0]) => SameList(DecodeHeader(f[0]), Stored)

DiskKept == DiskTypes /\ HeaderKept /\ RootKept /\ ListsKept
DiskInv  == HeaderLoaded /\ Intact => DiskKept

-----------------------------------------------------------------------------
(* Words, headers and pages. *)

\* The page ids are words, and neither INVALID_PAGE_ID nor SEDB_MAGIC is one of a page.
LEMMA Constants ==
  /\ LastPage \in Nat \ {0} /\ WordSize \in Nat /\ LastPage + 1 \in Words /\ LastPage + 2 < WordSize
  /\ PageIds \subseteq Words /\ 0 \in PageIds /\ 0 \in Words /\ 1 \in Words /\ HEADER_PAGE_ID = 0
  /\ INVALID_PAGE_ID \in Words /\ SEDB_MAGIC \in Words /\ INVALID_PAGE_ID \notin PageIds
  /\ SEDB_MAGIC # 0 /\ INVALID_PAGE_ID \in Nat
  BY SizeAssumption DEF PageIds, Words, HEADER_PAGE_ID, INVALID_PAGE_ID, SEDB_MAGIC

\* A header comes back from its page as it was put there.
LEMMA HeaderCoding ==
  ASSUME NEW h \in Headers
  PROVE  /\ EncodeHeader(h) \in DiskPages /\ EncodeHeader(h) # NoPage
         /\ EncodeHeader(h).first = h.magic /\ DecodeHeader(EncodeHeader(h)) = h
  <1>1. h.magic \in Words
    BY DEF Headers
  <1>2. /\ EncodeHeader(h) = [first |-> h.magic, rest |-> "header", header |-> h]
        /\ EncodeHeader(h).first = h.magic /\ EncodeHeader(h).header = h
    BY DEF EncodeHeader
  <1>3. NoPage.rest = "no page" /\ EncodeHeader(h).rest = "header"
    BY DEF NoPage, ZeroPage, Word, EncodeHeader
  <1>4. [h EXCEPT !.magic = h.magic] = h
    BY DEF Headers
  <1>5. EncodeHeader(h) \in DiskPages
    <2>1. \A w \in Words : [first |-> w, rest |-> "header", header |-> h] \in DiskPages
      BY DEF DiskPages
    <2> QED BY <1>1, <1>2, <2>1
  <1> QED BY <1>2, <1>3, <1>4, <1>5 DEF DecodeHeader

\* Any page decodes to some header.
LEMMA HeaderDecoding ==
  ASSUME NEW page \in DiskPages
  PROVE  DecodeHeader(page) \in Headers /\ DecodeHeader(page).magic = page.first
  BY DEF DiskPages, DecodeHeader, Headers

\* The pages that hold a word and zeros.
LEMMA BlankPages ==
  /\ \A w \in Words : Word(w) \in DiskPages /\ Word(w) # NoPage /\ Word(w).first = w
  /\ ZeroPage \in DiskPages /\ ZeroPage # NoPage
  /\ NoPage \in DiskPages /\ NoPage.first = 0
  /\ NoHeader \in Headers
  <1>1. NoHeader \in Headers
    BY Constants DEF NoHeader, Headers
  <1>2. \A w \in Words : /\ Word(w) \in DiskPages
                          /\ Word(w).rest = "zeros" /\ Word(w).first = w
    BY <1>1 DEF Word, DiskPages
  <1>3. ZeroPage \in DiskPages /\ ZeroPage.first = 0
    BY <1>2, Constants DEF ZeroPage
  <1> HIDE DEF ZeroPage
  <1>4. NoPage \in DiskPages /\ NoPage.first = 0 /\ NoPage.rest = "no page"
    BY <1>3 DEF NoPage, DiskPages
  <1>5. \A w \in Words : Word(w) # NoPage
    BY <1>2, <1>4
  <1> QED BY <1>1, <1>2, <1>3, <1>4, <1>5, Constants DEF ZeroPage

\* WritePage changes the page it is given, and of the others only holes before it.
LEMMA WrittenPages ==
  ASSUME NEW f \in [PageIds -> DiskPages], NEW p \in PageIds,
         NEW page \in DiskPages, page # NoPage
  PROVE  /\ Written(f, p, page) \in [PageIds -> DiskPages]
         /\ Written(f, p, page)[p] = page
         /\ \A q \in PageIds : f[q] # NoPage => Written(f, p, page)[q] # NoPage
         /\ \A q \in PageIds \ {p} : f[q] # NoPage => Written(f, p, page)[q] = f[q]
         /\ p = 0 => \A q \in PageIds \ {p} : Written(f, p, page)[q] = f[q]
  <1> DEFINE put(q) == CASE q = p -> page
                         [] q < p /\ f[q] = NoPage -> ZeroPage
                         [] OTHER -> f[q]
  <1>1. Written(f, p, page) = [q \in PageIds |-> put(q)]
    BY DEF Written
  <1>2. put(p) = page /\ \A q \in PageIds \ {p} : f[q] # NoPage => put(q) = f[q]
    BY DEF PageIds
  <1>3. \A q \in PageIds : put(q) \in DiskPages
    BY BlankPages
  <1>4. ASSUME p = 0, NEW q \in PageIds \ {p} PROVE put(q) = f[q]
    <2>1. ~(q < p)
      BY <1>4 DEF PageIds
    <2> QED BY <2>1
  <1> HIDE DEF put
  <1>5. Written(f, p, page) \in [PageIds -> DiskPages]
    BY <1>1, <1>3
  <1>6. \A q \in PageIds : Written(f, p, page)[q] = put(q)
    BY <1>1
  <1> QED BY <1>2, <1>4, <1>5, <1>6

-----------------------------------------------------------------------------
(* The free list. *)

\* A list visits no more pages than the file has: its length fits a word.
LEMMA ListLength ==
  ASSUME NEW n \in Nat, NEW list \in [0 .. n -> Words], NEW f, NEW h, NEW held,
         h.pageCount \in 1 .. LastPage + 1, Linked(list, n, f, h, held)
  PROVE  n <= LastPage
  <1> DEFINE at == [i \in 0 .. n - 1 |-> list[i]]
  <1>1. \A i \in 0 .. n - 1 : list[i] \in (1 .. h.pageCount - 1) \ held
    BY DEF Linked
  <1>2. \A q \in 1 .. h.pageCount - 1 : q \in 1 .. LastPage
    BY Constants
  <1>3. at \in [0 .. n - 1 -> 1 .. LastPage]
    BY <1>1, <1>2
  <1>4. \A i, j \in 0 .. n - 1 : list[i] = list[j] => i = j
    BY DEF Linked
  <1>5. at \in Injection(0 .. n - 1, 1 .. LastPage)
    BY <1>3, <1>4 DEF Injection, IsInjective
  <1> HIDE DEF at
  <1>6. IsFiniteSet(1 .. LastPage) /\ Cardinality(1 .. LastPage) = LastPage
    BY Constants, FS_Interval
  <1>7. Cardinality(0 .. n - 1) = n
    <2>1. 0 \in Int /\ n - 1 \in Int
      OBVIOUS
    <2>2. Cardinality(0 .. n - 1) = IF 0 > n - 1 THEN 0 ELSE (n - 1) - 0 + 1
      BY <2>1, FS_Interval
    <2> QED BY <2>2
  <1>8. Cardinality(0 .. n - 1) <= Cardinality(1 .. LastPage)
    BY <1>5, <1>6, FS_Injection
  <1> QED BY <1>6, <1>7, <1>8

\* A list stays one when no page on it changes its first word.
LEMMA ListKept ==
  ASSUME NEW f, NEW g, NEW h, NEW k, NEW held, NEW heldNow,
         HasList(f, h, held),
         k.numFreePages = h.numFreePages, k.freeListHead = h.freeListHead,
         k.pageCount = h.pageCount,
         \A q \in 1 .. h.pageCount - 1 :
           q \notin held => q \notin heldNow /\ g[q].first = f[q].first
  PROVE  HasList(g, k, heldNow)
  <1>0. PICK n \in Nat : \E list \in [0 .. n -> Words] : Linked(list, n, f, h, held)
    BY DEF HasList
  <1>1. PICK list \in [0 .. n -> Words] : Linked(list, n, f, h, held)
    BY <1>0
  <1>2. Linked(list, n, g, k, heldNow)
    BY <1>1 DEF Linked
  <1> QED BY <1>2 DEF HasList

\* The empty list.
LEMMA ListEmpty ==
  ASSUME NEW f, NEW h, NEW held, h.numFreePages = 0, h.freeListHead = INVALID_PAGE_ID
  PROVE  HasList(f, h, held)
  <1> DEFINE list == [i \in 0 .. 0 |-> INVALID_PAGE_ID]
  <1>1. list \in [0 .. 0 -> Words] /\ list[0] = INVALID_PAGE_ID
    BY Constants
  <1> HIDE DEF list
  <1>2. \A i \in 0 .. 0 - 1 : FALSE
    OBVIOUS
  <1>3. Linked(list, 0, f, h, held)
    BY <1>1, <1>2 DEF Linked
  <1> SUFFICES \E n \in Nat : \E l \in [0 .. n -> Words] : Linked(l, n, f, h, held)
    BY DEF HasList
  <1> USE <1>1
  <1> WITNESS 0 \in Nat
  <1> WITNESS list \in [0 .. 0 -> Words]
  <1> QED BY <1>3

\* DeallocatePage: a page some caller held, its first word now the head, goes in front.
LEMMA ListPushed ==
  ASSUME NEW f, NEW g, NEW h \in Headers, NEW held, NEW p \in held,
         HasList(f, h, held), h.pageCount \in 1 .. LastPage + 1,
         p \in 1 .. h.pageCount - 1, g[p].first = h.freeListHead,
         \A q \in 1 .. h.pageCount - 1 : q \notin held => g[q].first = f[q].first
  PROVE  HasList(g, [h EXCEPT !.freeListHead = p, !.numFreePages = (@ + 1) % WordSize],
                 held \ {p})
  <1>0. PICK n \in Nat : \E list \in [0 .. n -> Words] : Linked(list, n, f, h, held)
    BY DEF HasList
  <1>1. PICK list \in [0 .. n -> Words] : Linked(list, n, f, h, held)
    BY <1>0
  <1> DEFINE new == [i \in 0 .. n + 1 |-> IF i = 0 THEN p ELSE list[i - 1]]
             count == h.pageCount
             after == [h EXCEPT !.freeListHead = p, !.numFreePages = (@ + 1) % WordSize]
  <1>2. /\ h.numFreePages = n /\ h.freeListHead = list[0] /\ list[n] = INVALID_PAGE_ID
        /\ \A i \in 0 .. n - 1 : list[i] \in (1 .. count - 1) \ held /\ f[list[i]].first = list[i + 1]
        /\ \A i, j \in 0 .. n - 1 : list[i] = list[j] => i = j
    BY <1>1 DEF Linked
  <1>3. /\ after.freeListHead = p /\ after.pageCount = count
        /\ after.numFreePages = (n + 1) % WordSize
    BY <1>2 DEF Headers
  <1>4. p \in Words /\ p \in 1 .. count - 1 /\ g[p].first = list[0]
    BY <1>2, Constants DEF Words
  <1> HIDE DEF count, after
  <1>5. new \in [0 .. n + 1 -> Words]
    <2>1. \A i \in 0 .. n + 1 : i # 0 => i - 1 \in 0 .. n
      OBVIOUS
    <2> QED BY <1>4, <2>1
  <1>6. /\ new[0] = p /\ new[n + 1] = INVALID_PAGE_ID
        /\ \A i \in 0 .. n : new[i + 1] = list[i]
    <2>1. \A i \in 0 .. n : i + 1 \in 0 .. n + 1 /\ i + 1 # 0 /\ (i + 1) - 1 = i
      OBVIOUS
    <2>2. n \in 0 .. n /\ 0 \in 0 .. n + 1
      OBVIOUS
    <2> QED BY <1>2, <2>1, <2>2
  <1> HIDE DEF new
  <1>7. \A i \in 0 .. n : i # 0 => i - 1 \in 0 .. n - 1 /\ (i - 1) + 1 = i
    OBVIOUS
  <1>8. \A i \in 0 .. n : /\ new[i] \in (1 .. count - 1) \ (held \ {p})
                          /\ g[new[i]].first = new[i + 1]
                          /\ i # 0 => new[i] = list[i - 1] /\ new[i] \notin held
    <2> TAKE i \in 0 .. n
    <2>1. CASE i = 0
      BY <1>4, <1>6, <2>1
    <2>2. CASE i # 0
      <3>1. new[i] = list[i - 1] /\ new[i + 1] = list[i] /\ list[(i - 1) + 1] = list[i]
        <4>1. i - 1 \in 0 .. n /\ (i - 1) + 1 = i
          BY <2>2
        <4> QED BY <1>6, <4>1
      <3>2. list[i - 1] \in (1 .. count - 1) \ held /\ f[list[i - 1]].first = list[(i - 1) + 1]
        BY <1>2, <1>7, <2>2
      <3>3. g[list[i - 1]].first = f[list[i - 1]].first
        BY <3>2 DEF count
      <3> QED BY <3>1, <3>2, <3>3
    <2> QED BY <2>1, <2>2
  <1>9. \A i, j \in 0 .. n : new[i] = new[j] => i = j
    <2> SUFFICES ASSUME NEW i \in 0 .. n, NEW j \in 0 .. n, new[i] = new[j] PROVE i = j
      OBVIOUS
    <2>1. CASE i = 0 \/ j = 0
      BY <1>6, <1>8, <2>1
    <2>2. CASE i # 0 /\ j # 0
      <3>1. list[i - 1] = list[j - 1]
        BY <1>8, <2>2
      <3>2. i - 1 = j - 1
        BY <1>2, <1>7, <2>2, <3>1
      <3> QED BY <3>2
    <2> QED BY <2>1, <2>2
  <1>10. (n + 1) % WordSize = n + 1
    <2>1. n <= LastPage
      BY <1>1, ListLength
    <2>2. n + 1 \in Nat /\ n + 1 < WordSize /\ WordSize \in Nat
      BY <2>1, Constants
    <2> QED BY <2>2
  <1>11. Linked(new, n + 1, g, after, held \ {p})
    <2>1. (n + 1) - 1 = n
      OBVIOUS
    <2> QED BY <1>3, <1>6, <1>8, <1>9, <1>10, <2>1 DEF Linked
  <1>12. HasList(g, after, held \ {p})
    <2>1. n + 1 \in Nat
      OBVIOUS
    <2> QED BY <1>5, <1>11, <2>1 DEF HasList
  <1> QED BY <1>12 DEF after

\* AllocatePage: the head comes off the list, and some caller may hold it now.
LEMMA ListPopped ==
  ASSUME NEW f, NEW g, NEW h \in Headers, NEW held, NEW heldNow,
         HasList(f, h, held), h.pageCount \in 1 .. LastPage + 1, h.freeListHead \in PageIds,
         heldNow \subseteq held \cup {h.freeListHead},
         \A q \in 1 .. h.pageCount - 1 :
           q \notin held \cup {h.freeListHead} => g[q].first = f[q].first
  PROVE  /\ h.freeListHead \in (1 .. h.pageCount - 1) \ held
         /\ f[h.freeListHead].first \in Words
         /\ HasList(g, [h EXCEPT !.freeListHead = f[h.freeListHead].first,
                                 !.numFreePages = (@ + WordSize - 1) % WordSize], heldNow)
  <1>0. PICK n \in Nat : \E list \in [0 .. n -> Words] : Linked(list, n, f, h, held)
    BY DEF HasList
  <1>1. PICK list \in [0 .. n -> Words] : Linked(list, n, f, h, held)
    BY <1>0
  <1> DEFINE new == [i \in 0 .. n - 1 |-> list[i + 1]]
             count == h.pageCount
             id == h.freeListHead
             after == [h EXCEPT !.freeListHead = f[id].first,
                                !.numFreePages = (@ + WordSize - 1) % WordSize]
  <1>2. /\ h.numFreePages = n /\ id = list[0] /\ list[n] = INVALID_PAGE_ID
        /\ \A i \in 0 .. n - 1 : list[i] \in (1 .. count - 1) \ held /\ f[list[i]].first = list[i + 1]
        /\ \A i, j \in 0 .. n - 1 : list[i] = list[j] => i = j
    BY <1>1 DEF Linked
  <1>3. n # 0 /\ n - 1 \in Nat
    <2>1. n # 0
      BY <1>2, Constants
    <2> QED BY <2>1
  <1>4. id \in (1 .. count - 1) \ held /\ f[id].first = list[1]
    <2>1. 0 \in 0 .. n - 1 /\ 0 + 1 = 1
      BY <1>3
    <2> QED BY <1>2, <2>1
  <1>5. /\ after.freeListHead = list[1] /\ after.pageCount = count
        /\ after.numFreePages = (n + WordSize - 1) % WordSize
    BY <1>2, <1>4 DEF Headers
  <1>6. (n + WordSize - 1) % WordSize = n - 1
    <2>1. n <= LastPage
      BY <1>1, ListLength
    <2>2. n - 1 \in Nat /\ n - 1 < WordSize /\ WordSize \in Nat /\ n + WordSize - 1 = (n - 1) + WordSize
      BY <1>3, <2>1, Constants
    <2> QED BY <2>2
  <1> HIDE DEF count, after
  <1>7. \A i \in 0 .. n - 1 : i + 1 \in 0 .. n
    OBVIOUS
  <1>8. new \in [0 .. n - 1 -> Words] /\ \A i \in 0 .. n - 1 : new[i] = list[i + 1]
    BY <1>7
  <1> HIDE DEF new, id
  <1>9. new[0] = list[1] /\ new[n - 1] = INVALID_PAGE_ID
    <2>1. 0 \in 0 .. n - 1 /\ 0 + 1 = 1 /\ n - 1 \in 0 .. n - 1 /\ (n - 1) + 1 = n
      BY <1>3
    <2> QED BY <1>2, <1>8, <2>1
  <1>10. \A i \in 0 .. (n - 1) - 1 : /\ i \in 0 .. n - 1 /\ i + 1 \in 0 .. n - 1 /\ i + 1 # 0
    OBVIOUS
  <1>11. \A i \in 0 .. (n - 1) - 1 : /\ new[i] \in (1 .. count - 1) \ heldNow
                                   /\ g[new[i]].first = new[i + 1]
    <2> TAKE i \in 0 .. (n - 1) - 1
    <2>1. i \in 0 .. n - 1 /\ i + 1 \in 0 .. n - 1 /\ i + 1 # 0 /\ 0 \in 0 .. n - 1
      BY <1>3, <1>10
    <2>2. new[i] = list[i + 1] /\ new[i + 1] = list[(i + 1) + 1]
      BY <1>8, <2>1
    <2>3. list[i + 1] \in (1 .. count - 1) \ held /\ f[list[i + 1]].first = list[(i + 1) + 1]
      BY <1>2, <2>1
    <2>4. list[i + 1] # id
      BY <1>2, <2>1
    <2>5. list[i + 1] \notin heldNow /\ g[list[i + 1]].first = f[list[i + 1]].first
      BY <2>3, <2>4 DEF id, count
    <2> QED BY <2>2, <2>3, <2>5
  <1>12. \A i, j \in 0 .. (n - 1) - 1 : new[i] = new[j] => i = j
    <2> SUFFICES ASSUME NEW i \in 0 .. (n - 1) - 1, NEW j \in 0 .. (n - 1) - 1, new[i] = new[j]
                 PROVE  i = j
      OBVIOUS
    <2>1. list[i + 1] = list[j + 1] /\ i + 1 \in 0 .. n - 1 /\ j + 1 \in 0 .. n - 1
      BY <1>8, <1>10
    <2>2. i + 1 = j + 1
      BY <1>2, <2>1
    <2> QED BY <2>2
  <1>13. Linked(new, n - 1, g, after, heldNow)
    BY <1>5, <1>6, <1>9, <1>11, <1>12 DEF Linked
  <1>14. HasList(g, after, heldNow)
    BY <1>3, <1>8, <1>13 DEF HasList
  <1>15. list[1] \in Words
    <2>1. 1 \in 0 .. n
      BY <1>3
    <2> QED BY <2>1
  <1> QED BY <1>4, <1>14, <1>15 DEF after, id, count

-----------------------------------------------------------------------------
(* Counting the pages of a file. *)

\* A file of no pages has no page; one with the first c pages has at least c.
LEMMA PagesCounted ==
  ASSUME NEW f \in [PageIds -> DiskPages]
  PROVE  /\ NumPages(f) \in 0 .. LastPage + 1
         /\ NumPages(f) = 0 => \A p \in PageIds : f[p] = NoPage
         /\ \A c \in 1 .. LastPage + 1 :
              (\A p \in 0 .. c - 1 : f[p] # NoPage) => NumPages(f) >= c
  <1> DEFINE there == {p \in PageIds : f[p] # NoPage}
  <1>1. IsFiniteSet(PageIds) /\ Cardinality(PageIds) = LastPage + 1
    <2>1. 0 \in Int /\ LastPage \in Int /\ LastPage \in Nat
      BY Constants
    <2>2. /\ IsFiniteSet(0 .. LastPage)
          /\ Cardinality(0 .. LastPage) = IF 0 > LastPage THEN 0 ELSE LastPage - 0 + 1
      BY <2>1, FS_Interval
    <2> QED BY <2>1, <2>2 DEF PageIds
  <1>2. there \subseteq PageIds /\ NumPages(f) = Cardinality(there)
    BY DEF NumPages
  <1>3. IsFiniteSet(there) /\ Cardinality(there) <= LastPage + 1 /\ Cardinality(there) \in Nat
    BY <1>1, <1>2, FS_Subset, FS_CardinalityType
  <1>4. NumPages(f) = 0 => \A p \in PageIds : f[p] = NoPage
    BY <1>2, <1>3, FS_EmptySet
  <1>5. ASSUME NEW c \in 1 .. LastPage + 1, \A p \in 0 .. c - 1 : f[p] # NoPage
        PROVE  NumPages(f) >= c
    <2>1. c \in Nat /\ c # 0 /\ 0 .. c - 1 \subseteq PageIds
      BY Constants DEF PageIds
    <2>2. 0 .. c - 1 \subseteq there
      BY <1>5, <2>1
    <2>3. Cardinality(0 .. c - 1) = c
      <3>1. 0 \in Int /\ c - 1 \in Int
        BY <2>1
      <3>2. Cardinality(0 .. c - 1) = IF 0 > c - 1 THEN 0 ELSE (c - 1) - 0 + 1
        BY <3>1, FS_Interval
      <3> QED BY <2>1, <3>2
    <2>4. Cardinality(0 .. c - 1) <= Cardinality(there)
      BY <1>3, <2>2, FS_Subset
    <2> QED BY <1>2, <1>3, <2>1, <2>3, <2>4
  <1> HIDE DEF there
  <1>6. NumPages(f) \in 0 .. LastPage + 1
    BY <1>2, <1>3, Constants
  <1> QED BY <1>4, <1>5, <1>6

-----------------------------------------------------------------------------
(* Writing pages, with and without an fsync. *)

\* The fresh header.
LEMMA FreshHeaderIs ==
  /\ FreshHeader \in Headers /\ FreshHeader.magic = SEDB_MAGIC
  /\ FreshHeader.rootPageId = INVALID_PAGE_ID /\ FreshHeader.pageCount = 1
  /\ FreshHeader.freeListHead = INVALID_PAGE_ID /\ FreshHeader.numFreePages = 0
  BY Constants DEF FreshHeader, Headers

\* A header's page is a page and no hole.
LEMMA HeaderIsThere ==
  ASSUME NEW page \in DiskPages, IsHeader(page)
  PROVE  page # NoPage /\ DecodeHeader(page).magic = SEDB_MAGIC /\ DecodeHeader(page) \in Headers
  BY BlankPages, HeaderDecoding, Constants DEF IsHeader

\* While nothing but data is lost a write that returns has put its page into the file.
LEMMA WriteDelivers ==
  ASSUME NEW p, NEW page, WritePage(p, page), Intact'
  PROVE  file' = Written(file, p, page) /\ lost' = lost
  <1>1. "flush" # "data"
    OBVIOUS
  <1> QED BY <1>1 DEF WritePage, Intact

\* The same for the header, when it is dirty.
LEMMA FlushDelivers ==
  ASSUME FlushHeader, Intact'
  PROVE  /\ lost' = lost
         /\ dirty => file' = Written(file, 0, EncodeHeader(header))
         /\ ~dirty => file' = file
  BY WriteDelivers, Constants DEF FlushHeader

\* Nothing lost is ever found again.
LEMMA IntactBefore ==
  ASSUME [Next]_vars, Intact'
  PROVE  Intact
  <1>1. lost \subseteq lost'
    <2>1. \A p, page : WritePage(p, page) => lost \subseteq lost'
      BY DEF WritePage
    <2>2. WritePageThrows => lost \subseteq lost'
      BY DEF WritePageThrows
    <2>3. FlushHeader => lost \subseteq lost'
      BY <2>1 DEF FlushHeader
    <2>4. Open => lost \subseteq lost'
      BY <2>1, <2>2 DEF Open, LoadOrInitHeader, InitHeader, InitHeaderThrows, LoadHeader,
                        OpenWithoutHeader
    <2>5. Sync \/ SyncThrows => lost \subseteq lost'
      BY <2>2, <2>3 DEF Sync, SyncThrows, FlushHeaderThrows
    <2>6. Close \/ PowerLoss \/ AllocateNothing => lost \subseteq lost'
      BY DEF Close, PowerLoss, AllocateNothing
    <2>7. AllocatePage => lost \subseteq lost'
      BY <2>1, <2>2 DEF AllocatePage
    <2>8. \A p \in PageIds : SetRootPageId(p) \/ DeallocatePage(p) => lost \subseteq lost'
      BY <2>1, <2>2 DEF SetRootPageId, DeallocatePage
    <2>9. \A p \in PageIds, page \in Data : WriteData(p, page) => lost \subseteq lost'
      BY <2>1, <2>2 DEF WriteData
    <2>10. UNCHANGED vars => lost \subseteq lost'
      BY DEF vars
    <2> QED BY <2>4, <2>5, <2>6, <2>7, <2>8, <2>9, <2>10 DEF Next
  <1> QED BY <1>1 DEF Intact

\* Without an fsync a power loss may leave what it might have left before, or the new page.
Grown == disk' = [p \in PageIds |-> disk[p] \cup {file'[p]}]

LEMMA DiskGrown ==
  ASSUME DiskTypes, file' \in [PageIds -> DiskPages], Grown
  PROVE  /\ disk' \in [PageIds -> SUBSET DiskPages] /\ \A p \in PageIds : file'[p] \in disk'[p]
         /\ \A p \in PageIds : disk[p] \subseteq disk'[p] /\ disk'[p] \subseteq disk[p] \cup {file'[p]}
         /\ \A p \in PageIds : file'[p] = file[p] => disk'[p] = disk[p]
  BY DEF DiskTypes, Grown

\* Where nothing changes that is so, too.
LEMMA NothingGrown ==
  ASSUME DiskTypes, UNCHANGED <<file, disk>>
  PROVE  Grown
  <1>1. \A p \in PageIds : disk[p] = disk[p] \cup {file'[p]}
    BY DEF DiskTypes
  <1>2. disk = [p \in PageIds |-> disk[p]]
    BY DEF DiskTypes
  <1>3. disk' = [p \in PageIds |-> disk[p] \cup {file'[p]}]
    BY <1>1, <1>2
  <1> QED BY <1>3 DEF Grown

\* After an fsync the file is all a power loss can leave.
LEMMA DiskSynced ==
  ASSUME file' \in [PageIds -> DiskPages], FSync
  PROVE  /\ disk' \in [PageIds -> SUBSET DiskPages]
         /\ \A p \in PageIds : disk'[p] = {file'[p]}
         /\ \A f : Possible(f)' => f = file'
  BY DEF FSync, Synced, Possible

\* The file that was possible before, where only new pages differ.
LEMMA PossibleBefore ==
  ASSUME DiskTypes, file' \in [PageIds -> DiskPages], Grown, NEW f, Possible(f)'
  PROVE  \E g : Possible(g) /\ \A q \in PageIds : file'[q] = file[q] => g[q] = f[q]
  <1> DEFINE g == [q \in PageIds |-> IF f[q] \in disk[q] THEN f[q] ELSE file[q]]
  <1>1. f \in [PageIds -> DiskPages] /\ \A q \in PageIds : f[q] \in disk'[q]
    BY DEF Possible
  <1>2. g \in [PageIds -> DiskPages] /\ \A q \in PageIds : g[q] \in disk[q]
    BY <1>1 DEF DiskTypes
  <1>3. \A q \in PageIds : file'[q] = file[q] => g[q] = f[q]
    BY <1>1, DiskGrown
  <1> HIDE DEF g
  <1> QED BY <1>2, <1>3 DEF Possible

\* A call that leaves the header in the file, and every page that no caller holds.
LEMMA StoredKept ==
  ASSUME DiskKept, file' \in [PageIds -> DiskPages], Grown, owned' \subseteq owned, atRisk' = atRisk,
         file'[0] = file[0],
         \A q \in PageIds \ owned : file[q] # NoPage => file'[q] = file[q],
         \A q \in PageIds : file[q] # NoPage => file'[q] # NoPage
  PROVE  /\ Stored' = Stored /\ disk'[0] = disk[0]
         /\ IsHeader(file[0]) /\ atRisk # "end" => Sound(file, Stored)'
         /\ IsHeader(file[0]) /\ atRisk = "none" =>
              \A f : Possible(f)' => /\ Sound(f, Stored)'
                                     /\ IsHeader(f[0]) => SameList(DecodeHeader(f[0]), Stored)
  <1>0. Stored' = Stored /\ disk'[0] = disk[0] /\ DiskTypes /\ ListsKept
    BY DiskGrown, Constants DEF Stored, DiskKept
  <1>1. ASSUME IsHeader(file[0]), atRisk # "end" PROVE Sound(file, Stored)'
    <2>1. Sound(file, Stored)
      BY <1>0, <1>1 DEF ListsKept
    <2>2. \A q \in 1 .. Stored.pageCount - 1 : q \in PageIds
      BY <2>1, Constants DEF Sound, PageIds
    <2>3. HasList(file', Stored, owned')
      BY <2>1, <2>2, ListKept DEF Sound
    <2> QED BY <1>0, <2>1, <2>2, <2>3 DEF Sound
  <1>2. ASSUME IsHeader(file[0]), atRisk = "none", NEW f, Possible(f)'
        PROVE  Sound(f, Stored)' /\ (IsHeader(f[0]) => SameList(DecodeHeader(f[0]), Stored))
    <2>1. PICK g : Possible(g) /\ \A q \in PageIds : file'[q] = file[q] => g[q] = f[q]
      BY <1>0, <1>2, PossibleBefore
    <2>2. Sound(g, Stored) /\ (IsHeader(g[0]) => SameList(DecodeHeader(g[0]), Stored))
      BY <1>0, <1>2, <2>1 DEF ListsKept
    <2>3. Sound(file, Stored)
      BY <1>0, <1>2 DEF ListsKept
    <2>4. \A q \in 1 .. Stored.pageCount - 1 : q \in PageIds /\ file[q] # NoPage
      BY <2>3, Constants DEF Sound, PageIds
    <2>5. \A q \in 1 .. Stored.pageCount - 1 : q \notin owned => g[q] = f[q]
      BY <2>1, <2>4
    <2>6. HasList(f, Stored, owned')
      BY <2>2, <2>5, ListKept DEF Sound
    <2>7. f[0] = g[0]
      BY <2>1, Constants
    <2>8. \A q \in 1 .. Stored.pageCount - 1 : f[q] # NoPage
      <3> TAKE q \in 1 .. Stored.pageCount - 1
      <3>1. q \in PageIds /\ f[q] \in disk'[q] /\ disk'[q] \subseteq disk[q] \cup {file'[q]}
        BY <1>0, <1>2, <2>4, DiskGrown DEF Possible
      <3>2. CASE f[q] = file'[q]
        BY <2>4, <3>1, <3>2
      <3>3. CASE f[q] \in disk[q]
        <4> DEFINE k == [g EXCEPT ![q] = f[q]]
        <4>1. Possible(k) /\ k[q] = f[q]
          <5>1. g \in [PageIds -> DiskPages] /\ \A p \in PageIds : g[p] \in disk[p]
            BY <2>1 DEF Possible
          <5>2. f[q] \in DiskPages
            BY <1>2, <3>1 DEF Possible
          <5>3. k \in [PageIds -> DiskPages] /\ k[q] = f[q] /\ \A p \in PageIds : k[p] \in disk[p]
            BY <3>1, <3>3, <5>1, <5>2
          <5> QED BY <5>3 DEF Possible
        <4>2. Sound(k, Stored)
          BY <1>0, <1>2, <4>1 DEF ListsKept
        <4> QED BY <4>1, <4>2 DEF Sound
      <3> QED BY <3>1, <3>2, <3>3
    <2>9. Sound(f, Stored)'
      BY <1>0, <2>2, <2>6, <2>8 DEF Sound
    <2> QED BY <2>2, <2>7, <2>9
  <1> QED BY <1>0, <1>1, <1>2

\* A call that writes no page of the header, and so the root and the header it finds there.
LEMMA Frame ==
  ASSUME DiskKept, file' \in [PageIds -> DiskPages], Grown, file'[0] = file[0],
         UNCHANGED rootVars, header' \in Headers, header'.rootPageId = header.rootPageId,
         status' = "open" => status = "open"
  PROVE  RootKept' /\ (~IsHeader(file'[0]) => disk'[0] = {file'[0]})
  <1>1. Stored' = Stored /\ disk'[0] = disk[0]
    BY DiskGrown, Constants DEF Stored, DiskKept
  <1> QED BY <1>1 DEF DiskKept, HeaderKept, RootKept, rootVars

-----------------------------------------------------------------------------
(* The invariant holds at first, and every action keeps it. *)

\* A file is created full, empty, or by someone else.
LEMMA InitKept == Init => DiskKept
  <1> SUFFICES ASSUME Init PROVE DiskKept
    OBVIOUS
  <1>1. /\ disk = Synced(file) /\ header = NoHeader /\ dirty = FALSE /\ status = "closed"
        /\ atRisk = "none" /\ header \in Headers /\ unsynced = {setRoot} /\ rootInDoubt = FALSE
    BY BlankPages DEF Init
  <1> DEFINE full == [FreshHeader EXCEPT !.pageCount = LastPage + 1, !.rootPageId = 1]
  <1>2. ASSUME file \in [PageIds -> DiskPages]
        PROVE  /\ disk \in [PageIds -> SUBSET DiskPages]
               /\ \A p \in PageIds : disk[p] = {file[p]}
               /\ \A f : Possible(f) => f = file
    <2>1. disk = [p \in PageIds |-> {file[p]}]
      BY <1>1 DEF Synced
    <2>2. ASSUME NEW f, Possible(f) PROVE f = file
      BY <1>2, <2>1, <2>2 DEF Possible
    <2> QED BY <1>2, <2>1, <2>2
  <1>3. CASE file = FullFile /\ owned = 1..LastPage /\ setRoot = 1
    <2>2. /\ full \in Headers /\ full.magic = SEDB_MAGIC /\ full.rootPageId = 1
          /\ full.pageCount = LastPage + 1 /\ full.numFreePages = 0
          /\ full.freeListHead = INVALID_PAGE_ID
      BY FreshHeaderIs, Constants DEF Headers
    <2> HIDE DEF full
    <2>3. /\ file \in [PageIds -> DiskPages] /\ file[0] = EncodeHeader(full)
          /\ \A q \in PageIds : file[q] # NoPage
      BY <1>3, <2>2, HeaderCoding, BlankPages, Constants DEF FullFile, full
    <2>4. DiskTypes
      BY <1>1, <1>2, <1>3, <2>3, Constants DEF DiskTypes
    <2>5. Stored = full /\ IsHeader(file[0])
      BY <2>2, <2>3, HeaderCoding DEF IsHeader, Stored
    <2>6. HeaderKept
      BY <1>1, <2>5 DEF HeaderKept
    <2>7. RootKept
      BY <1>1, <1>2, <1>3, <2>2, <2>3, <2>5, Constants DEF RootKept, Stored
    <2>8. HasList(file, full, owned)
      BY <2>2, ListEmpty
    <2>9. \A q \in 1 .. full.pageCount - 1 : q \in PageIds
      BY <2>2, Constants DEF PageIds
    <2>10. Sound(file, full)
      <3>1. full.pageCount \in 1 .. LastPage + 1
        BY <2>2, Constants
      <3> QED BY <2>3, <2>8, <2>9, <3>1 DEF Sound
    <2>11. ListsKept
      BY <1>1, <1>2, <2>3, <2>5, <2>10 DEF ListsKept, SameList, Stored
    <2> QED BY <2>4, <2>6, <2>7, <2>11 DEF DiskKept
  <1>4. CASE (file = NewFile \/ file = AlienFile) /\ owned = {} /\ setRoot = INVALID_PAGE_ID
    <2>1. NewFile \in [PageIds -> DiskPages] /\ NewFile[0] = NoPage
      BY BlankPages, Constants DEF NewFile
    <2>2. AlienFile \in [PageIds -> DiskPages] /\ AlienFile[0] = ZeroPage
      BY <2>1, BlankPages, Constants, WrittenPages DEF AlienFile
    <2>3. file \in [PageIds -> DiskPages] /\ ~IsHeader(file[0])
      BY <1>4, <2>1, <2>2, BlankPages, Constants DEF IsHeader, ZeroPage
    <2>4. DiskTypes
      BY <1>1, <1>2, <1>4, <2>3, Constants DEF DiskTypes
    <2>5. HeaderKept /\ RootKept /\ ListsKept
      BY <1>1, <1>2, <1>4, <2>3, Constants DEF HeaderKept, RootKept, ListsKept
    <2> QED BY <2>4, <2>5 DEF DiskKept
  <1> QED BY <1>3, <1>4 DEF Init

\* What a file has that is open.
LEMMA WhileOpen ==
  ASSUME DiskKept, status = "open"
  PROVE  /\ file \in [PageIds -> DiskPages] /\ header \in Headers /\ owned \subseteq 1 .. LastPage
         /\ header.magic = SEDB_MAGIC /\ IsHeader(file[0]) /\ file[0] # NoPage
         /\ ~dirty => Stored = header
         /\ Sound(file, header)
         /\ \A q \in 0 .. header.pageCount - 1 : q \in PageIds /\ file[q] # NoPage
         /\ \A q \in owned : q \in PageIds \ {0}
         /\ header.freeListHead \in Words
  <1>1. /\ file \in [PageIds -> DiskPages] /\ header \in Headers /\ owned \subseteq 1 .. LastPage
        /\ header.magic = SEDB_MAGIC /\ IsHeader(file[0]) /\ (~dirty => Stored = header)
        /\ Sound(file, header)
    BY DEF DiskKept, DiskTypes, HeaderKept, ListsKept
  <1>2. file[0] # NoPage
    BY <1>1, HeaderIsThere, Constants
  <1>3. \A q \in 0 .. header.pageCount - 1 : q \in PageIds /\ (q = 0 \/ q \in 1 .. header.pageCount - 1)
    BY <1>1, Constants DEF PageIds, Sound
  <1>4. \A q \in 0 .. header.pageCount - 1 : q \in PageIds /\ file[q] # NoPage
    BY <1>1, <1>2, <1>3 DEF Sound
  <1>5. \A q \in owned : q \in PageIds \ {0}
    BY <1>1, Constants DEF PageIds
  <1>6. header.freeListHead \in Words
    BY <1>1 DEF Headers
  <1> QED BY <1>1, <1>2, <1>4, <1>5, <1>6

\* A call that keeps the header in the file, and the one in memory unless it closes the
\* file, and every page that no caller holds.
LEMMA QuietKept ==
  ASSUME DiskKept, file' \in [PageIds -> DiskPages], Grown, file'[0] = file[0],
         UNCHANGED <<owned, atRisk, rootVars>>, header' \in Headers, dirty' \in BOOLEAN,
         \/ status = "open" /\ UNCHANGED <<header, dirty, status>>
         \/ status' = "closed" /\ atRisk # "end",
         \A q \in PageIds \ owned : file[q] # NoPage => file'[q] = file[q],
         \A q \in PageIds : file[q] # NoPage => file'[q] # NoPage
  PROVE  DiskKept'
  <1>1. /\ Stored' = Stored /\ disk'[0] = disk[0]
        /\ IsHeader(file[0]) /\ atRisk # "end" => Sound(file, Stored)'
        /\ IsHeader(file[0]) /\ atRisk = "none" =>
             \A f : Possible(f)' => /\ Sound(f, Stored)'
                                    /\ IsHeader(f[0]) => SameList(DecodeHeader(f[0]), Stored)
    BY StoredKept
  <1>2. DiskTypes'
    BY DiskGrown DEF DiskKept, DiskTypes, rootVars
  <1>3. HeaderKept'
    BY <1>1 DEF DiskKept, HeaderKept
  <1>4. RootKept'
    BY <1>1 DEF DiskKept, RootKept, rootVars
  <1>5. ASSUME status' = "open" PROVE Sound(file, header)'
    <2>1. status = "open" /\ header' = header
      BY <1>5
    <2>2. Sound(file, header) /\ \A q \in 0 .. header.pageCount - 1 : q \in PageIds /\ file[q] # NoPage
      BY <2>1, WhileOpen
    <2>3. \A q \in 1 .. header.pageCount - 1 : q \in PageIds
      BY <2>2
    <2>4. HasList(file', header, owned')
      BY <2>2, <2>3, ListKept DEF Sound
    <2> QED BY <2>1, <2>2, <2>3, <2>4 DEF Sound
  <1>6. ListsKept'
    BY <1>1, <1>5 DEF ListsKept
  <1> QED BY <1>2, <1>3, <1>4, <1>6 DEF DiskKept

\* The header is written to its page, with the list it had: by Sync, and by SetRootPageId.
LEMMA HeaderWritten ==
  ASSUME DiskKept, status = "open", UNCHANGED <<status, owned>>, dirty' = FALSE,
         header' \in Headers, header'.magic = header.magic, SameList(header', header),
         \/ file' = Written(file, 0, EncodeHeader(header'))
         \/ file' = file /\ ~dirty /\ header' = header,
         FSync \/ Grown, atRisk' # "end",
         Grown /\ ~FSync /\ atRisk' = "none" => ~dirty /\ atRisk = "none"
  PROVE  /\ file' \in [PageIds -> DiskPages] /\ disk' \in [PageIds -> SUBSET DiskPages]
         /\ \A p \in PageIds : file'[p] \in disk'[p] /\ disk'[p] \subseteq disk[p] \cup {file'[p]}
         /\ IsHeader(file'[0]) /\ Stored' = header'
         /\ ListsKept' /\ HeaderKept'
  <1>1. /\ file \in [PageIds -> DiskPages] /\ header \in Headers /\ header.magic = SEDB_MAGIC
        /\ IsHeader(file[0]) /\ (~dirty => Stored = header) /\ Sound(file, header) /\ DiskTypes
        /\ \A q \in 0 .. header.pageCount - 1 : q \in PageIds /\ file[q] # NoPage
    BY WhileOpen DEF DiskKept
  <1>2. /\ file' \in [PageIds -> DiskPages]
        /\ \A q \in PageIds \ {0} : file'[q] = file[q]
        /\ IsHeader(file'[0]) /\ Stored' = header'
    <2>1. CASE file' = file /\ ~dirty /\ header' = header
      BY <1>1, <2>1 DEF Stored
    <2>2. CASE file' = Written(file, 0, EncodeHeader(header'))
      <3>1. /\ EncodeHeader(header') \in DiskPages /\ EncodeHeader(header') # NoPage
            /\ EncodeHeader(header').first = SEDB_MAGIC
            /\ DecodeHeader(EncodeHeader(header')) = header'
        BY <1>1, HeaderCoding
      <3>2. /\ file' \in [PageIds -> DiskPages] /\ file'[0] = EncodeHeader(header')
            /\ \A q \in PageIds \ {0} : file'[q] = file[q]
        BY <1>1, <2>2, <3>1, WrittenPages, Constants
      <3> QED BY <3>1, <3>2 DEF IsHeader, Stored
    <2> QED BY <2>1, <2>2
  <1>3. /\ disk' \in [PageIds -> SUBSET DiskPages]
        /\ \A p \in PageIds : file'[p] \in disk'[p] /\ disk'[p] \subseteq disk[p] \cup {file'[p]}
    BY <1>1, <1>2, DiskGrown, DiskSynced
  <1>4. \A q \in 1 .. header.pageCount - 1 : q \in PageIds \ {0} /\ file[q] # NoPage
    BY <1>1
  <1>5. Sound(file, header)' /\ header'.pageCount = header.pageCount
    <2>1. header'.pageCount = header.pageCount
      BY DEF SameList
    <2>2. HasList(file', header', owned')
      BY <1>1, <1>2, <1>4, ListKept DEF Sound, SameList
    <2> QED BY <1>1, <1>2, <1>4, <2>1, <2>2 DEF Sound
  <1>6. ASSUME atRisk' = "none", NEW f, Possible(f)'
        PROVE  Sound(f, Stored)' /\ (IsHeader(f[0]) => SameList(DecodeHeader(f[0]), header'))
    <2>1. CASE FSync
      <3>1. f = file'
        BY <1>2, <1>6, <2>1, DiskSynced
      <3> QED BY <1>2, <1>5, <3>1 DEF SameList, Stored
    <2>2. CASE ~FSync
      <3>1. ~dirty /\ atRisk = "none" /\ Grown /\ Stored = header
        BY <1>1, <1>6, <2>2
      <3>2. PICK g : Possible(g) /\ \A q \in PageIds : file'[q] = file[q] => g[q] = f[q]
        BY <1>1, <1>2, <1>6, <3>1, PossibleBefore
      <3>3. Sound(g, header) /\ (IsHeader(g[0]) => SameList(DecodeHeader(g[0]), header))
        BY <1>1, <3>1, <3>2 DEF DiskKept, ListsKept
      <3>4. \A q \in 1 .. header.pageCount - 1 : g[q] = f[q]
        BY <1>2, <1>4, <3>2
      <3>5. HasList(f, header', owned')
        BY <3>3, <3>4, ListKept DEF Sound, SameList
      <3>6. Sound(f, Stored)'
        BY <1>2, <1>5, <3>3, <3>4, <3>5 DEF Sound
      <3>7. ASSUME IsHeader(f[0]) PROVE SameList(DecodeHeader(f[0]), header')
        <4>1. CASE f[0] = file'[0]
          BY <1>2, <4>1 DEF Stored, SameList
        <4>2. CASE f[0] # file'[0]
          <5>1. f[0] \in disk[0]
            BY <1>3, <1>6, <4>2, Constants DEF Possible
          <5> DEFINE k == [g EXCEPT ![0] = f[0]]
          <5>2. Possible(k) /\ k[0] = f[0]
            <6>1. g \in [PageIds -> DiskPages] /\ (\A p \in PageIds : g[p] \in disk[p]) /\ f[0] \in DiskPages
              BY <1>6, <3>2, Constants DEF Possible
            <6>2. k \in [PageIds -> DiskPages] /\ k[0] = f[0] /\ \A p \in PageIds : k[p] \in disk[p]
              BY <5>1, <6>1, Constants
            <6> QED BY <6>2 DEF Possible
          <5>3. SameList(DecodeHeader(f[0]), header)
            BY <1>1, <3>1, <3>7, <5>2 DEF DiskKept, ListsKept
          <5> QED BY <5>3 DEF SameList
        <4> QED BY <4>1, <4>2
      <3> QED BY <3>6, <3>7
    <2> QED BY <2>1, <2>2
  <1>7. ListsKept'
    BY <1>2, <1>5, <1>6 DEF ListsKept
  <1>8. HeaderKept'
    BY <1>1, <1>2 DEF HeaderKept
  <1> QED BY <1>2, <1>3, <1>7, <1>8

\* LoadOrInitHeader on a new file: the list is empty and there is no root.
LEMMA InitHeaderKept ==
  ASSUME DiskKept, status = "closed", Intact', UNCHANGED owned, InitHeader \/ InitHeaderThrows
  PROVE  DiskKept'
  <1>1. /\ file \in [PageIds -> DiskPages] /\ file[0] = NoPage /\ ~IsHeader(file[0])
        /\ disk[0] = {NoPage} /\ INVALID_PAGE_ID \in unsynced
        /\ ~rootInDoubt => setRoot = INVALID_PAGE_ID
        /\ atRisk # "end" /\ DiskTypes /\ dirty \in BOOLEAN
    <2>1. file \in [PageIds -> DiskPages] /\ NumPages(file) = 0
      BY DEF DiskKept, DiskTypes, InitHeader, InitHeaderThrows
    <2>2. file[0] = NoPage
      BY <2>1, PagesCounted, Constants
    <2>3. ~IsHeader(file[0])
      BY <2>2, BlankPages, Constants DEF IsHeader
    <2> QED BY <2>1, <2>2, <2>3 DEF DiskKept, DiskTypes, HeaderKept, RootKept
  <1> DEFINE new == Written(file, 0, EncodeHeader(FreshHeader))
  <1>2. /\ new \in [PageIds -> DiskPages] /\ new[0] = EncodeHeader(FreshHeader)
        /\ IsHeader(new[0]) /\ DecodeHeader(new[0]) = FreshHeader
    <2>1. /\ EncodeHeader(FreshHeader) \in DiskPages /\ EncodeHeader(FreshHeader) # NoPage
          /\ EncodeHeader(FreshHeader).first = SEDB_MAGIC
          /\ DecodeHeader(EncodeHeader(FreshHeader)) = FreshHeader
      BY FreshHeaderIs, HeaderCoding
    <2>2. new \in [PageIds -> DiskPages] /\ new[0] = EncodeHeader(FreshHeader)
      BY <1>1, <2>1, WrittenPages, Constants
    <2> QED BY <2>1, <2>2 DEF IsHeader
  <1>3. \A f : Sound(f, FreshHeader)'
    <2>1. \A f : HasList(f, FreshHeader, owned')
      BY FreshHeaderIs, ListEmpty
    <2>2. 1 \in 1 .. LastPage + 1 /\ \A q \in 1 .. 1 - 1 : FALSE
      BY Constants
    <2> QED BY <2>1, <2>2, FreshHeaderIs DEF Sound
  <1> HIDE DEF new
  <1>4. CASE InitHeader
    <2>1. /\ header' = FreshHeader /\ file' = new /\ FSync /\ status' = "open"
          /\ atRisk' = "none" /\ RootIsSynced /\ UNCHANGED dirty
      BY <1>4, WriteDelivers DEF InitHeader, new, HEADER_PAGE_ID
    <2>2. Stored' = FreshHeader /\ IsHeader(file'[0])
      BY <1>2, <2>1 DEF Stored
    <2>3. /\ disk' \in [PageIds -> SUBSET DiskPages] /\ \A p \in PageIds : disk'[p] = {file'[p]}
          /\ \A f : Possible(f)' => f = file'
      BY <1>2, <2>1, DiskSynced
    <2>4. /\ setRoot' = INVALID_PAGE_ID /\ unsynced' = {INVALID_PAGE_ID} /\ rootInDoubt' = FALSE
      BY <2>1, FreshHeaderIs DEF RootIsSynced
    <2>5. DiskTypes'
      BY <1>1, <1>2, <2>1, <2>3, <2>4, FreshHeaderIs DEF DiskTypes
    <2>6. HeaderKept'
      BY <2>1, <2>2, FreshHeaderIs DEF HeaderKept
    <2>7. RootKept'
      BY <2>1, <2>2, <2>3, <2>4, FreshHeaderIs, Constants DEF RootKept, Stored
    <2>8. ListsKept'
      BY <1>3, <2>1, <2>2, <2>3 DEF ListsKept, SameList, Stored
    <2> QED BY <2>5, <2>6, <2>7, <2>8 DEF DiskKept
  <1>5. CASE InitHeaderThrows
    <2>1. UNCHANGED <<header, dirty, status, atRisk, rootVars>> /\ (file' = file \/ file' = new) /\ Grown
      BY <1>5, WriteDelivers DEF InitHeaderThrows, WritePageThrows, new, HEADER_PAGE_ID, NoFSync, Grown
    <2>2. CASE file' = file
      <3>1. UNCHANGED <<setRoot, unsynced, rootInDoubt>> /\ status' = "closed" /\ status' # "open"
        BY <2>1 DEF rootVars
      <3> QED BY <1>1, <2>1, <2>2, <3>1, QuietKept DEF DiskTypes
    <2>3. CASE file' = new
      <3>1. Stored' = FreshHeader /\ IsHeader(file'[0]) /\ file' \in [PageIds -> DiskPages]
        BY <1>2, <2>3 DEF Stored
      <3>2. /\ disk' \in [PageIds -> SUBSET DiskPages] /\ \A p \in PageIds : file'[p] \in disk'[p]
            /\ disk'[0] \subseteq {NoPage, file'[0]}
        BY <1>1, <2>1, <3>1, DiskGrown, Constants
      <3>3. UNCHANGED <<setRoot, unsynced, rootInDoubt>> /\ status' = "closed" /\ status' # "open"
        BY <2>1 DEF rootVars
      <3>4. DiskTypes'
        BY <1>1, <2>1, <3>1, <3>2, <3>3 DEF DiskTypes
      <3>5. HeaderKept'
        BY <1>1, <2>1, <3>1, <3>3 DEF HeaderKept
      <3>6. \A v \in disk'[0] : v = NoPage \/ DecodeHeader(v) = FreshHeader
        BY <3>1, <3>2 DEF Stored
      <3>7. ~IsHeader(NoPage)
        BY <1>1
      <3>8. RootKept'
        BY <1>1, <3>1, <3>3, <3>6, <3>7, FreshHeaderIs, HeaderIsThere, Constants DEF RootKept
      <3>9. ASSUME NEW f, Possible(f)', IsHeader(f[0]) PROVE SameList(DecodeHeader(f[0]), FreshHeader)
        BY <3>6, <3>7, <3>9, Constants DEF Possible, SameList
      <3>10. ListsKept'
        BY <1>3, <3>1, <3>3, <3>9 DEF ListsKept
      <3> QED BY <3>4, <3>5, <3>8, <3>10 DEF DiskKept
    <2> QED BY <2>1, <2>2, <2>3
  <1> QED BY <1>4, <1>5

\* LoadOrInitHeader on an existing file: the count it finds is no more than the file has.
LEMMA LoadHeaderKept ==
  ASSUME DiskKept, status = "closed", UNCHANGED owned, LoadHeader
  PROVE  DiskKept'
  <1> DEFINE actual == NumPages(file)
  <1>1. /\ file \in [PageIds -> DiskPages] /\ file[0] \in DiskPages /\ atRisk # "end"
        /\ DiskTypes /\ ListsKept /\ HeaderKept /\ RootKept
    BY Constants DEF DiskKept, DiskTypes, HeaderKept
  <1>2. /\ UNCHANGED <<file, disk, lost, atRisk>>
        /\ Stored.magic # SEDB_MAGIC => status' = "refused" /\ UNCHANGED <<header, dirty, rootVars>>
        /\ Stored.magic = SEDB_MAGIC =>
             /\ header' = [Stored EXCEPT !.pageCount = IF @ > actual THEN actual ELSE @]
             /\ dirty' = (Stored.pageCount > actual)
             /\ status' = "open"
             /\ RootIsFound
    BY Constants DEF LoadHeader, Stored
  <1>3. Stored \in Headers /\ Stored.magic = file[0].first /\ Stored' = Stored
    BY <1>1, <1>2, HeaderDecoding DEF Stored
  <1>4. \A f : (Possible(f)' <=> Possible(f)) /\ Sound(f, Stored)' = Sound(f, Stored)
    BY <1>2, <1>3 DEF Possible, Sound
  <1>5. CASE Stored.magic # SEDB_MAGIC
    <2>1. status' = "refused" /\ UNCHANGED <<header, dirty, setRoot, unsynced, rootInDoubt>>
      BY <1>2, <1>5 DEF rootVars
    <2>2. status' # "open" /\ status' # "closed"
      BY <2>1
    <2>3. DiskTypes' /\ HeaderKept' /\ RootKept'
      BY <1>1, <1>2, <1>3, <2>1, <2>2 DEF DiskTypes, HeaderKept, RootKept
    <2>4. ListsKept'
      BY <1>1, <1>2, <1>3, <1>5, <2>2 DEF ListsKept, IsHeader
    <2> QED BY <2>3, <2>4 DEF DiskKept
  <1>6. CASE Stored.magic = SEDB_MAGIC
    <2>1. IsHeader(file[0]) /\ Sound(file, Stored) /\ file[0] # NoPage
      BY <1>1, <1>3, <1>6, HeaderIsThere DEF IsHeader, ListsKept
    <2>2. actual >= Stored.pageCount /\ actual \in Nat
      <3>1. \A q \in 0 .. Stored.pageCount - 1 : q = 0 \/ q \in 1 .. Stored.pageCount - 1
        OBVIOUS
      <3>2. \A q \in 0 .. Stored.pageCount - 1 : file[q] # NoPage
        BY <2>1, <3>1 DEF Sound
      <3> QED BY <1>1, <2>1, <3>2, PagesCounted, Constants DEF Sound
    <2>3. Stored.pageCount \in Nat
      BY <2>1, Constants DEF Sound
    <2> HIDE DEF actual
    <2>4. header' = Stored /\ dirty' = FALSE
      <3>1. ~(Stored.pageCount > actual)
        BY <2>2, <2>3
      <3>2. header' = [Stored EXCEPT !.pageCount = Stored.pageCount]
        BY <1>2, <1>6, <3>1
      <3>3. header' = Stored
        BY <1>3, <3>2 DEF Headers
      <3>4. dirty' = (Stored.pageCount > actual)
        BY <1>2, <1>6
      <3>5. (Stored.pageCount > actual) = FALSE
        BY <2>2, <2>3
      <3> QED BY <3>3, <3>4, <3>5
    <2>5. /\ setRoot' = Stored.rootPageId /\ unsynced' = unsynced /\ rootInDoubt' = FALSE
          /\ status' = "open" /\ UNCHANGED <<file, disk, atRisk>>
      BY <1>2, <1>6, <2>4 DEF RootIsFound
    <2>6. DiskTypes'
      BY <1>1, <1>3, <2>4, <2>5 DEF DiskTypes
    <2>7. HeaderKept'
      BY <1>1, <1>3, <1>6, <2>1, <2>4, <2>5 DEF HeaderKept
    <2>8. RootKept'
      <3>1. Stored.rootPageId \in unsynced
        BY <1>1, <2>1, Constants DEF DiskTypes, RootKept, Stored
      <3> QED BY <1>1, <1>3, <2>1, <2>4, <2>5, <3>1 DEF RootKept
    <2>9. ListsKept'
      BY <1>1, <1>3, <1>4, <2>1, <2>4, <2>5 DEF ListsKept
    <2> QED BY <2>6, <2>7, <2>8, <2>9 DEF DiskKept
  <1> QED BY <1>5, <1>6

\* The constructor.
LEMMA OpenKept ==
  ASSUME DiskKept, HeaderLoaded, Intact', Open
  PROVE  DiskKept'
  BY InitHeaderKept, LoadHeaderKept DEF Open, LoadOrInitHeader

\* Sync and SetRootPageId, whether they throw or not.
LEMMA SyncKept ==
  ASSUME DiskKept, Intact', Sync \/ SyncThrows
  PROVE  DiskKept'
  <1>1. /\ status = "open" /\ status' = "open" /\ UNCHANGED <<header, status, owned>>
        /\ DiskTypes /\ file \in [PageIds -> DiskPages] /\ header \in Headers
        /\ header.magic = SEDB_MAGIC /\ header.rootPageId \in unsynced
        /\ ~rootInDoubt => header.rootPageId = setRoot
    BY WhileOpen DEF Sync, SyncThrows, Usable, DiskKept, DiskTypes, RootKept
  <1>2. SameList(header', header)
    BY <1>1 DEF SameList
  <1>3. EncodeHeader(header') = EncodeHeader(header)
    BY <1>1
  <1>4. CASE Sync
    <2>1. /\ FlushHeader /\ FSync /\ dirty' = FALSE /\ atRisk' = "none" /\ RootIsSynced
          /\ dirty \in BOOLEAN
      BY <1>1, <1>4 DEF Sync, DiskTypes
    <2>2. \/ file' = Written(file, 0, EncodeHeader(header'))
          \/ file' = file /\ ~dirty /\ header' = header
      BY <1>1, <1>3, <2>1, FlushDelivers
    <2>3. /\ file' \in [PageIds -> DiskPages] /\ disk' \in [PageIds -> SUBSET DiskPages]
          /\ \A p \in PageIds : file'[p] \in disk'[p]
          /\ IsHeader(file'[0]) /\ Stored' = header' /\ ListsKept' /\ HeaderKept'
      BY <1>1, <1>2, <2>1, <2>2, HeaderWritten
    <2>4. disk'[0] = {file'[0]}
      BY <2>1, <2>3, DiskSynced, Constants
    <2>5. setRoot' = header'.rootPageId /\ unsynced' = {header'.rootPageId} /\ rootInDoubt' = FALSE
      BY <2>1 DEF RootIsSynced
    <2>6. file'[0] # NoPage
      BY <2>3, HeaderIsThere, Constants
    <2>7. DiskTypes' /\ RootKept'
      BY <1>1, <2>1, <2>3, <2>4, <2>5, <2>6 DEF DiskTypes, RootKept, Stored
    <2> QED BY <2>3, <2>7 DEF DiskKept
  <1>5. CASE SyncThrows
    <2>1. UNCHANGED <<setRoot, unsynced, rootInDoubt>> /\ Grown /\ UNCHANGED rootVars
      BY <1>5 DEF SyncThrows, NoFSync, Grown, rootVars
    <2>2. CASE FlushHeaderThrows /\ UNCHANGED <<dirty, atRisk>>
      <3>1. file' = file
        BY <2>2 DEF FlushHeaderThrows, WritePageThrows
      <3> QED BY <1>1, <2>1, <2>2, <3>1, QuietKept DEF DiskTypes
    <2>3. CASE FlushHeader /\ dirty' = FALSE /\ atRisk' = IF dirty THEN "power" ELSE atRisk
      <3>1. \/ file' = Written(file, 0, EncodeHeader(header'))
            \/ file' = file /\ ~dirty /\ header' = header
        BY <1>1, <1>3, <2>3, FlushDelivers DEF DiskTypes
      <3>2. atRisk' # "end" /\ (atRisk' = "none" => ~dirty /\ atRisk = "none")
        BY <1>1, <2>3 DEF DiskKept, HeaderKept
      <3>3. /\ file' \in [PageIds -> DiskPages] /\ disk' \in [PageIds -> SUBSET DiskPages]
            /\ \A p \in PageIds : file'[p] \in disk'[p] /\ disk'[p] \subseteq disk[p] \cup {file'[p]}
            /\ IsHeader(file'[0]) /\ Stored' = header' /\ ListsKept' /\ HeaderKept'
        BY <1>1, <1>2, <2>1, <2>3, <3>1, <3>2, HeaderWritten
      <3>4. file'[0] # NoPage /\ disk'[0] \subseteq disk[0] \cup {file'[0]}
        BY <3>3, HeaderIsThere, Constants
      <3>5. DiskTypes'
        BY <1>1, <2>1, <2>3, <3>3 DEF DiskTypes
      <3>6. RootKept'
        BY <1>1, <2>1, <3>3, <3>4 DEF RootKept, Stored, DiskKept
      <3> QED BY <3>3, <3>5, <3>6 DEF DiskKept
    <2> QED BY <1>5, <2>2, <2>3 DEF SyncThrows
  <1> QED BY <1>4, <1>5

LEMMA SetRootKept ==
  ASSUME DiskKept, Intact', NEW p \in PageIds, SetRootPageId(p)
  PROVE  DiskKept'
  <1>1. /\ status = "open" /\ status' = "open" /\ UNCHANGED <<status, owned>>
        /\ DiskTypes /\ file \in [PageIds -> DiskPages] /\ header \in Headers
        /\ header.magic = SEDB_MAGIC /\ IsHeader(file[0]) /\ p \in Words
        /\ header' = [header EXCEPT !.rootPageId = p]
        /\ unsynced' = unsynced \cup {p} /\ Grown
    BY WhileOpen, Constants DEF SetRootPageId, Usable, DiskKept, NoFSync, Grown
  <1>2. /\ header' \in Headers /\ header'.magic = SEDB_MAGIC /\ header'.rootPageId = p
        /\ SameList(header', header)
    BY <1>1 DEF Headers, SameList
  <1>3. CASE /\ WritePage(0, EncodeHeader(header')) /\ dirty' = FALSE
             /\ atRisk' = IF dirty THEN "power" ELSE atRisk
             /\ setRoot' = p /\ rootInDoubt' = FALSE
    <2>1. file' = Written(file, 0, EncodeHeader(header'))
      BY <1>3, WriteDelivers
    <2>2. atRisk' # "end" /\ (atRisk' = "none" => ~dirty /\ atRisk = "none")
      BY <1>1, <1>3 DEF DiskKept, HeaderKept
    <2>3. /\ file' \in [PageIds -> DiskPages] /\ disk' \in [PageIds -> SUBSET DiskPages]
          /\ \A q \in PageIds : file'[q] \in disk'[q] /\ disk'[q] \subseteq disk[q] \cup {file'[q]}
          /\ IsHeader(file'[0]) /\ Stored' = header' /\ ListsKept' /\ HeaderKept'
      BY <1>1, <1>2, <1>3, <2>1, <2>2, HeaderWritten
    <2>4. file'[0] # NoPage /\ disk'[0] \subseteq disk[0] \cup {file'[0]}
      BY <2>3, HeaderIsThere, Constants
    <2>5. DiskTypes'
      BY <1>1, <1>2, <1>3, <2>3 DEF DiskTypes
    <2>6. RootKept'
      BY <1>1, <1>2, <1>3, <2>3, <2>4 DEF RootKept, Stored, DiskKept
    <2> QED BY <2>3, <2>5, <2>6 DEF DiskKept
  <1>4. CASE /\ WritePageThrows /\ dirty' = TRUE /\ rootInDoubt' = TRUE
             /\ UNCHANGED <<atRisk, setRoot>>
    <2>1. file' = file
      BY <1>4 DEF WritePageThrows
    <2>2. /\ Stored' = Stored /\ disk'[0] = disk[0]
          /\ atRisk # "end" => Sound(file, Stored)'
          /\ atRisk = "none" =>
               \A f : Possible(f)' => /\ Sound(f, Stored)'
                                      /\ IsHeader(f[0]) => SameList(DecodeHeader(f[0]), Stored)
      BY <1>1, <1>4, <2>1, StoredKept
    <2>3. DiskTypes'
      BY <1>1, <1>2, <1>4, <2>1, DiskGrown DEF DiskTypes
    <2>4. HeaderKept'
      BY <1>1, <1>2, <1>4, <2>1 DEF HeaderKept
    <2>5. RootKept'
      BY <1>1, <1>2, <1>4, <2>1, <2>2 DEF RootKept, DiskKept
    <2>6. Sound(file, header)'
      <3>1. Sound(file, header)
        BY <1>1, WhileOpen
      <3>2. HasList(file', header', owned')
        BY <1>1, <1>2, <2>1, <3>1, ListKept DEF Sound, SameList
      <3> QED BY <1>2, <2>1, <3>1, <3>2 DEF Sound, SameList
    <2>7. ListsKept'
      BY <1>1, <1>4, <2>1, <2>2, <2>6 DEF ListsKept
    <2> QED BY <2>3, <2>4, <2>5, <2>7 DEF DiskKept
  <1> QED BY <1>3, <1>4 DEF SetRootPageId, HEADER_PAGE_ID

\* AllocatePage: the page it takes is in the file and in no caller's hands; when it throws
\* the page is in neither list, and the file as it was.
LEMMA AllocateKept ==
  ASSUME DiskKept, Intact', AllocatePage
  PROVE  DiskKept'
  <1> DEFINE id == header.freeListHead
  <1>1. /\ status = "open" /\ id \in PageIds /\ dirty' = TRUE /\ Grown
        /\ UNCHANGED <<status, setRoot, unsynced, rootInDoubt>> /\ UNCHANGED rootVars
    BY DEF AllocatePage, Usable, NoFSync, Grown, rootVars
  <1>2. /\ file \in [PageIds -> DiskPages] /\ header \in Headers /\ owned \subseteq 1 .. LastPage
        /\ header.magic = SEDB_MAGIC /\ IsHeader(file[0]) /\ Sound(file, header) /\ DiskTypes
        /\ \A q \in 0 .. header.pageCount - 1 : q \in PageIds /\ file[q] # NoPage
        /\ file[0] # NoPage
    BY <1>1, WhileOpen DEF DiskKept
  <1>3. id \in (1 .. header.pageCount - 1) \ owned /\ file[id].first \in Words
    BY <1>1, <1>2, ListPopped DEF Sound
  <1>4. id \in (1 .. LastPage) \ owned /\ id # 0 /\ file[id] # NoPage
    BY <1>2, <1>3, Constants DEF Sound
  <1>5. header' = Popped(file[id].first)
    BY <1>1, <1>4 DEF AllocatePage, ReadPage
  <1>6. header' = [header EXCEPT !.freeListHead = file[id].first,
                                 !.numFreePages = (@ + WordSize - 1) % WordSize]
    BY <1>5 DEF Popped
  <1>7. \/ owned' = owned /\ file' = file /\ atRisk' = atRisk
        \/ owned' = owned \cup {id} /\ file' = Written(file, id, ZeroPage) /\ atRisk' = "end"
    <2>1. CASE WritePage(id, ZeroPage) /\ owned' = owned \cup {id} /\ atRisk' = "end"
      BY <2>1, WriteDelivers
    <2>2. CASE WritePageThrows /\ UNCHANGED <<owned, atRisk>>
      BY <2>2 DEF WritePageThrows
    <2> QED BY <2>1, <2>2 DEF AllocatePage
  <1>8. /\ file' \in [PageIds -> DiskPages]
        /\ \A q \in PageIds : file[q] # NoPage => file'[q] # NoPage
        /\ \A q \in PageIds \ {id} : file[q] # NoPage => file'[q] = file[q]
    BY <1>1, <1>2, <1>7, BlankPages, WrittenPages
  <1>9. file'[0] = file[0]
    BY <1>2, <1>4, <1>8, Constants
  <1>10. /\ header' \in Headers /\ header'.magic = header.magic
         /\ header'.rootPageId = header.rootPageId /\ header'.pageCount = header.pageCount
    <2>1. (header.numFreePages + WordSize - 1) % WordSize \in Words
      <3>1. header.numFreePages \in Words /\ WordSize \in Nat \ {0}
        BY <1>2, Constants DEF Headers
      <3> QED BY <3>1 DEF Words
    <2> QED BY <1>2, <1>3, <1>6, <2>1 DEF Headers
  <1>11. Sound(file, header)'
    <2>1. \A q \in 1 .. header.pageCount - 1 : q \in PageIds /\ file[q] # NoPage
      BY <1>2
    <2>2. \A q \in 1 .. header.pageCount - 1 : q \notin owned \cup {id} => file'[q].first = file[q].first
      BY <1>8, <2>1
    <2>3. owned' \subseteq owned \cup {id}
      BY <1>7
    <2>4. HasList(file', header', owned')
      BY <1>1, <1>2, <1>6, <2>2, <2>3, ListPopped DEF Sound
    <2> QED BY <1>2, <1>8, <1>10, <2>1, <2>4 DEF Sound
  <1>12. DiskTypes'
    <2>1. owned' \subseteq 1 .. LastPage
      BY <1>2, <1>4, <1>7
    <2> QED BY <1>1, <1>2, <1>8, <1>10, <2>1, DiskGrown DEF DiskTypes
  <1> HIDE DEF id
  <1>13. RootKept' /\ (~IsHeader(file'[0]) => disk'[0] = {file'[0]})
    BY <1>1, <1>8, <1>9, <1>10, Frame
  <1>14. HeaderKept'
    BY <1>1, <1>2, <1>9, <1>10, <1>13 DEF HeaderKept
  <1>15. CASE atRisk' = "end"
    <2>1. ListsKept'
      BY <1>11, <1>15 DEF ListsKept
    <2> QED BY <1>12, <1>13, <1>14, <2>1 DEF DiskKept
  <1>16. CASE owned' = owned /\ file' = file /\ atRisk' = atRisk
    <2>1. /\ Stored' = Stored /\ disk'[0] = disk[0]
          /\ atRisk # "end" => Sound(file, Stored)'
          /\ atRisk = "none" =>
               \A f : Possible(f)' => /\ Sound(f, Stored)'
                                      /\ IsHeader(f[0]) => SameList(DecodeHeader(f[0]), Stored)
      BY <1>1, <1>2, <1>16, StoredKept
    <2>2. ListsKept'
      BY <1>11, <1>16, <2>1 DEF ListsKept
    <2> QED BY <1>12, <1>13, <1>14, <2>2 DEF DiskKept
  <1> QED BY <1>7, <1>15, <1>16

\* DeallocatePage: the page goes in front of the list; when it throws, nothing changes.
LEMMA DeallocateKept ==
  ASSUME DiskKept, Intact', NEW p \in PageIds, DeallocatePage(p)
  PROVE  DiskKept'
  <1>1. /\ status = "open" /\ p \in owned /\ p # 0 /\ p < header.pageCount /\ Grown
        /\ UNCHANGED <<status, atRisk, setRoot, unsynced, rootInDoubt>> /\ UNCHANGED rootVars
    BY DEF DeallocatePage, Usable, NoFSync, Grown, rootVars, HEADER_PAGE_ID
  <1>2. /\ file \in [PageIds -> DiskPages] /\ header \in Headers /\ owned \subseteq 1 .. LastPage
        /\ header.magic = SEDB_MAGIC /\ IsHeader(file[0]) /\ Sound(file, header) /\ DiskTypes
        /\ \A q \in 0 .. header.pageCount - 1 : q \in PageIds /\ file[q] # NoPage
        /\ file[0] # NoPage /\ header.freeListHead \in Words
    BY <1>1, WhileOpen DEF DiskKept
  <1>3. CASE WritePageThrows /\ UNCHANGED <<header, dirty, owned>>
    <2>1. file' = file
      BY <1>3 DEF WritePageThrows
    <2> QED BY <1>1, <1>2, <1>3, <2>1, QuietKept DEF DiskTypes
  <1>4. CASE /\ WritePage(p, Word(header.freeListHead))
             /\ header' = [header EXCEPT !.freeListHead = p,
                                         !.numFreePages = (@ + 1) % WordSize]
             /\ dirty' = TRUE
             /\ owned' = owned \ {p}
    <2> DEFINE new == Word(header.freeListHead)
    <2>1. new \in DiskPages /\ new # NoPage /\ new.first = header.freeListHead
      BY <1>2, BlankPages
    <2> HIDE DEF new
    <2>2. file' = Written(file, p, new)
      BY <1>4, WriteDelivers DEF new
    <2>3. /\ file' \in [PageIds -> DiskPages] /\ file'[p] = new
          /\ \A q \in PageIds : file[q] # NoPage => file'[q] # NoPage
          /\ \A q \in PageIds \ {p} : file[q] # NoPage => file'[q] = file[q]
      BY <1>2, <2>1, <2>2, WrittenPages
    <2>4. file'[0] = file[0]
      BY <1>1, <1>2, <2>3, Constants
    <2>5. /\ header' \in Headers /\ header'.magic = header.magic
          /\ header'.rootPageId = header.rootPageId /\ header'.pageCount = header.pageCount
      <3>1. (header.numFreePages + 1) % WordSize \in Words /\ p \in Words
        <4>1. header.numFreePages \in Words /\ WordSize \in Nat \ {0}
          BY <1>2, Constants DEF Headers
        <4> QED BY <4>1, Constants DEF Words
      <3> QED BY <1>2, <1>4, <3>1 DEF Headers
    <2>6. p \in 1 .. header.pageCount - 1 /\ header.pageCount \in 1 .. LastPage + 1
      BY <1>1, <1>2, Constants DEF PageIds, Sound
    <2>7. \A q \in 1 .. header.pageCount - 1 : q \in PageIds /\ file[q] # NoPage
      BY <1>2
    <2>8. Sound(file, header)'
      <3>1. \A q \in 1 .. header.pageCount - 1 : q \notin owned => file'[q].first = file[q].first
        BY <1>1, <2>3, <2>7
      <3>2. file'[p].first = header.freeListHead
        BY <2>1, <2>3
      <3>3. HasList(file, header, owned)
        BY <1>2 DEF Sound
      <3>4. HasList(file', header', owned')
        BY <1>1, <1>2, <1>4, <2>6, <3>1, <3>2, <3>3, ListPushed
      <3> QED BY <2>3, <2>5, <2>6, <2>7, <3>4 DEF Sound
    <2>9. DiskTypes'
      BY <1>1, <1>2, <1>4, <2>3, <2>5, DiskGrown DEF DiskTypes
    <2>10. RootKept' /\ (~IsHeader(file'[0]) => disk'[0] = {file'[0]})
      BY <1>1, <2>3, <2>4, <2>5, Frame
    <2>11. HeaderKept'
      BY <1>1, <1>2, <1>4, <2>4, <2>5, <2>10 DEF HeaderKept
    <2>12. /\ Stored' = Stored /\ disk'[0] = disk[0]
           /\ atRisk # "end" => Sound(file, Stored)'
           /\ atRisk = "none" =>
                \A f : Possible(f)' => /\ Sound(f, Stored)'
                                       /\ IsHeader(f[0]) => SameList(DecodeHeader(f[0]), Stored)
      BY <1>1, <1>2, <1>4, <2>3, <2>4, StoredKept
    <2>13. ListsKept'
      BY <1>1, <2>8, <2>12 DEF ListsKept
    <2> QED BY <2>9, <2>10, <2>11, <2>13 DEF DiskKept
  <1> QED BY <1>3, <1>4 DEF DeallocatePage

\* A caller's write to a page of its own.
LEMMA WriteDataKept ==
  ASSUME DiskKept, Intact', NEW p \in PageIds, NEW page \in Data, WriteData(p, page)
  PROVE  DiskKept'
  <1>1. /\ status = "open" /\ p \in owned /\ Grown
        /\ UNCHANGED <<header, dirty, status, owned, atRisk, rootVars>>
    BY DEF WriteData, Usable, NoFSync, Grown
  <1>2. /\ file \in [PageIds -> DiskPages] /\ header \in Headers /\ file[0] # NoPage /\ DiskTypes
        /\ p # 0
    BY <1>1, WhileOpen DEF DiskKept
  <1>3. page \in DiskPages /\ page # NoPage
    BY DataAssumption
  <1>4. /\ file' \in [PageIds -> DiskPages]
        /\ \A q \in PageIds : file[q] # NoPage => file'[q] # NoPage
        /\ \A q \in PageIds \ {p} : file[q] # NoPage => file'[q] = file[q]
    <2>1. CASE WritePage(p, page)
      <3>1. file' = Written(file, p, page)
        BY <2>1, WriteDelivers
      <3> QED BY <1>2, <1>3, <3>1, WrittenPages
    <2>2. CASE WritePageThrows
      BY <1>2, <2>2 DEF WritePageThrows
    <2> QED BY <2>1, <2>2 DEF WriteData
  <1>5. file'[0] = file[0] /\ dirty' \in BOOLEAN
    BY <1>1, <1>2, <1>4, Constants DEF DiskTypes
  <1>6. \A q \in PageIds \ owned : file[q] # NoPage => file'[q] = file[q]
    BY <1>1, <1>4
  <1> QED BY <1>1, <1>2, <1>4, <1>5, <1>6, QuietKept

\* The end of a process that loses nothing but frees.
LEMMA CloseKept ==
  ASSUME DiskKept, Intact', Close
  PROVE  DiskKept'
  <1>1. /\ UNCHANGED <<file, disk, owned, atRisk, rootVars>> /\ status' = "closed"
        /\ header' = NoHeader /\ dirty' = FALSE /\ DiskTypes
    BY DEF Close, DiskKept
  <1>2. atRisk # "end"
    <2>1. "list" # "data"
      OBVIOUS
    <2> QED BY <2>1 DEF Close, Intact
  <1>3. Grown /\ file \in [PageIds -> DiskPages] /\ NoHeader \in Headers
    BY <1>1, NothingGrown, BlankPages DEF DiskTypes
  <1> QED BY <1>1, <1>2, <1>3, QuietKept

\* A power loss that loses nothing but frees and data.
LEMMA PowerLossKept ==
  ASSUME DiskKept, Intact', PowerLoss
  PROVE  DiskKept'
  <1>1. /\ status' = "closed" /\ header' = NoHeader /\ dirty' = FALSE /\ atRisk' = "none"
        /\ rootInDoubt' = TRUE /\ UNCHANGED <<owned, setRoot, unsynced>> /\ FSync
        /\ NoHeader \in Headers
    BY BlankPages DEF PowerLoss
  <1>2. atRisk = "none"
    <2>1. "list" # "data"
      OBVIOUS
    <2> QED BY <2>1 DEF PowerLoss, Intact
  <1>3. Possible(file') /\ DiskTypes
    <2>1. /\ file' \in [PageIds -> UNION {disk[p] : p \in PageIds}]
          /\ \A p \in PageIds : file'[p] \in disk[p]
      BY DEF PowerLoss
    <2>2. \A p \in PageIds : file'[p] \in DiskPages
      BY <2>1 DEF DiskKept, DiskTypes
    <2>3. file' \in [PageIds -> DiskPages]
      BY <2>1, <2>2
    <2> QED BY <2>1, <2>3 DEF Possible, DiskKept
  <1>4. file' \in [PageIds -> DiskPages] /\ file'[0] \in disk[0] /\ file'[0] \in DiskPages
    BY <1>3, Constants DEF Possible
  <1>5. /\ disk' \in [PageIds -> SUBSET DiskPages] /\ \A p \in PageIds : disk'[p] = {file'[p]}
        /\ \A f : Possible(f)' => f = file'
    BY <1>1, <1>4, DiskSynced
  <1>6. DiskTypes'
    BY <1>1, <1>3, <1>4, <1>5 DEF DiskTypes
  <1>7. HeaderKept'
    BY <1>1, <1>5, Constants DEF HeaderKept
  <1>8. RootKept'
    BY <1>1, <1>4, <1>5, Constants DEF DiskKept, RootKept
  <1>9. ASSUME IsHeader(file'[0]) PROVE Sound(file, Stored)'
    <2>1. IsHeader(file[0])
      BY <1>4, <1>9 DEF DiskKept, HeaderKept
    <2>2. Sound(file', Stored) /\ SameList(Stored', Stored)
      BY <1>2, <1>3, <1>9, <2>1 DEF DiskKept, ListsKept, Stored
    <2>3. HasList(file', Stored', owned')
      BY <1>1, <2>2, ListKept DEF Sound, SameList
    <2> QED BY <2>2, <2>3 DEF Sound, SameList
  <1>10. ListsKept'
    BY <1>1, <1>5, <1>9 DEF ListsKept, SameList, Stored
  <1> QED BY <1>6, <1>7, <1>8, <1>10 DEF DiskKept

\* Every step.
LEMMA NextKept ==
  ASSUME DiskKept, HeaderLoaded, Intact', [Next]_vars
  PROVE  DiskKept'
  <1>1. CASE Next
    <2>1. ~AllocateNothing
      <3>1. "end" # "data"
        OBVIOUS
      <3> QED BY <3>1 DEF AllocateNothing, Intact
    <2> QED BY <1>1, <2>1, OpenKept, SyncKept, SetRootKept, AllocateKept, DeallocateKept,
               WriteDataKept, CloseKept, PowerLossKept DEF Next
  <1>2. CASE UNCHANGED vars
    BY <1>2 DEF vars, rootVars, DiskKept, DiskTypes, HeaderKept, RootKept, ListsKept, Sound,
                Possible, Stored
  <1> QED BY <1>1, <1>2

\* The same, with the header loaded or not, and while nothing but data is lost.
LEMMA DiskInvKept ==
  /\ Init => DiskInv
  /\ DiskInv /\ [Next]_vars => DiskInv'
  BY InitKept, NextKept, IntactBefore DEF DiskInv

-----------------------------------------------------------------------------
(* The free list as FreeListSound walks it. *)

\* A set of numbers has a least one.
LEMMA LeastNumber ==
  ASSUME NEW T, T \subseteq Nat, T # {}
  PROVE  \E i \in T : \A j \in T : i <= j
  <1>1. PICK i \in T : \A j \in T : <<j, i>> \notin OpToRel(<, Nat)
    BY NatLessThanWellFounded, WFMin
  <1>2. \A j \in T : i <= j
    <2> TAKE j \in T
    <2>1. <<j, i>> \in Nat \X Nat /\ i \in Nat /\ j \in Nat
      OBVIOUS
    <2>2. ~(<<j, i>>[1] < <<j, i>>[2])
      BY <1>1, <2>1, Zenon DEF OpToRel
    <2>3. ~(j < i)
      BY <2>2
    <2> QED BY <2>1, <2>3
  <1> QED BY <1>2

\* The walk along the first words visits the list, and then ends.
LEMMA ChainIsTheList ==
  ASSUME NEW n \in Nat, NEW list \in [0 .. n -> Words],
         Linked(list, n, file, header, owned), header.pageCount \in 1 .. LastPage + 1
  PROVE  Chain = [i \in 0 .. LastPage + 1 |-> IF i <= n THEN list[i] ELSE INVALID_PAGE_ID]
  <1> DEFINE steps == 0 .. LastPage + 1
             next(walk, i) == IF i = 0 THEN header.freeListHead
                              ELSE IF walk[i - 1] \in PageIds THEN file[walk[i - 1]].first
                                   ELSE INVALID_PAGE_ID
             whole == [i \in steps |-> IF i <= n THEN list[i] ELSE INVALID_PAGE_ID]
  <1>1. /\ header.freeListHead = list[0] /\ list[n] = INVALID_PAGE_ID
        /\ \A i \in 0 .. n - 1 : /\ list[i] \in 1 .. header.pageCount - 1
                                /\ file[list[i]].first = list[i + 1]
    BY DEF Linked
  <1>2. \A i \in 0 .. n - 1 : list[i] \in PageIds
    BY <1>1, Constants DEF PageIds
  <1>3. \A i \in steps : i # 0 => i - 1 \in steps /\ i \in Nat /\ i - 1 \in Nat
    BY Constants
  <1>4. \A i \in steps : whole[i] = next(whole, i)
    <2> TAKE i \in steps
    <2>1. CASE i = 0
      BY <1>1, <2>1
    <2>2. CASE i # 0 /\ i <= n
      <3>1. i - 1 \in 0 .. n - 1 /\ (i - 1) + 1 = i /\ i - 1 \in steps /\ i - 1 <= n
        BY <1>3, <2>2
      <3>2. whole[i - 1] = list[i - 1] /\ whole[i] = list[i]
        BY <2>2, <3>1
      <3>3. file[list[i - 1]].first = list[i] /\ list[i - 1] \in PageIds
        BY <1>1, <1>2, <3>1
      <3> QED BY <2>2, <3>2, <3>3
    <2>3. CASE i # 0 /\ ~(i <= n)
      <3>1. i - 1 \in steps /\ (i - 1 <= n => i - 1 = n)
        BY <1>3, <2>3
      <3>2. whole[i - 1] = INVALID_PAGE_ID /\ whole[i] = INVALID_PAGE_ID
        BY <1>1, <2>3, <3>1
      <3> QED BY <2>3, <3>2, Constants
    <2> QED BY <2>1, <2>2, <2>3
  <1>5. whole = [i \in steps |-> next(whole, i)]
    BY <1>4
  <1>6. Chain = [i \in steps |-> next(Chain, i)]
    <2>1. Chain = CHOOSE walk : walk = [i \in steps |-> next(walk, i)]
      BY DEF Chain
    <2>2. \E walk : walk = [i \in steps |-> next(walk, i)]
      BY <1>5
    <2> QED BY <2>1, <2>2
  <1> HIDE DEF whole
  <1>7. \A i \in steps : Chain[i] = whole[i]
    <2> DEFINE wrong == {i \in steps : Chain[i] # whole[i]}
    <2>1. SUFFICES ASSUME wrong # {} PROVE FALSE
      OBVIOUS
    <2>2. PICK i \in wrong : \A j \in wrong : i <= j
      <3>1. wrong \subseteq Nat
        BY Constants
      <3> QED BY <2>1, <3>1, LeastNumber
    <2>3. i \in steps /\ Chain[i] # whole[i] /\ Chain[i] = next(Chain, i) /\ whole[i] = next(whole, i)
      BY <1>4, <1>6
    <2>4. CASE i = 0
      BY <2>3, <2>4
    <2>5. CASE i # 0
      <3>1. i - 1 \in steps /\ ~(i <= i - 1)
        BY <1>3, <2>3, <2>5
      <3>2. Chain[i - 1] = whole[i - 1]
        BY <2>2, <3>1
      <3> QED BY <2>3, <2>5, <3>2
    <2> QED BY <2>4, <2>5
  <1>8. Chain = whole
    BY <1>5, <1>6, <1>7
  <1> QED BY <1>8 DEF whole

-----------------------------------------------------------------------------
(* The theorems. *)

\* Over any history of calls that throw or not, of closings and of power losses, the free
\* list visits numFreePages different pages, each below the count and in no caller's
\* hands, and then ends, until the process ends with a page handed out that the list in
\* the file still has, or a failed flush is ignored: for any number of pages and whatever
\* callers write.
THEOREM DiskFreeListSound == Spec => []FreeListSound
  <1>1. DiskInv => FreeListSound
    <2> SUFFICES ASSUME DiskKept, status = "open" PROVE
          LET visited == {i \in DOMAIN Chain : Chain[i] # INVALID_PAGE_ID} IN
            /\ visited = 0 .. header.numFreePages - 1
            /\ \A i \in visited : Chain[i] \in 1 .. header.pageCount - 1 \ owned
            /\ \A i, j \in visited : Chain[i] = Chain[j] => i = j
      BY DEF DiskInv, FreeListSound
    <2>1. HasList(file, header, owned) /\ header.pageCount \in 1 .. LastPage + 1
      BY WhileOpen DEF Sound
    <2>2. PICK n \in Nat : \E list \in [0 .. n -> Words] : Linked(list, n, file, header, owned)
      BY <2>1 DEF HasList
    <2>3. PICK list \in [0 .. n -> Words] : Linked(list, n, file, header, owned)
      BY <2>2
    <2>4. /\ header.numFreePages = n /\ list[n] = INVALID_PAGE_ID
          /\ \A i \in 0 .. n - 1 : list[i] \in (1 .. header.pageCount - 1) \ owned
          /\ \A i, j \in 0 .. n - 1 : list[i] = list[j] => i = j
      BY <2>3 DEF Linked
    <2>5. Chain = [i \in 0 .. LastPage + 1 |-> IF i <= n THEN list[i] ELSE INVALID_PAGE_ID]
      BY <2>1, <2>3, ChainIsTheList
    <2>6. n <= LastPage
      BY <2>1, <2>3, ListLength
    <2>7. \A i \in 0 .. n - 1 : /\ i \in 0 .. LastPage + 1 /\ i <= n
                              /\ Chain[i] = list[i] /\ list[i] # INVALID_PAGE_ID
      <3>1. \A i \in 0 .. n - 1 : i \in 0 .. LastPage + 1 /\ i <= n
        BY <2>6, Constants
      <3>2. \A i \in 0 .. n - 1 : list[i] \in PageIds
        BY <2>1, <2>4, Constants DEF PageIds
      <3> QED BY <2>5, <3>1, <3>2, Constants
    <2>8. \A i \in 0 .. LastPage + 1 : i \notin 0 .. n - 1 => Chain[i] = INVALID_PAGE_ID
      <3> TAKE i \in 0 .. LastPage + 1
      <3> HAVE i \notin 0 .. n - 1
      <3>1. i <= n => i = n
        OBVIOUS
      <3> QED BY <2>4, <2>5, <3>1
    <2> DEFINE visited == {i \in DOMAIN Chain : Chain[i] # INVALID_PAGE_ID}
    <2>9. visited = 0 .. n - 1
      <3>1. DOMAIN Chain = 0 .. LastPage + 1
        BY <2>5
      <3> QED BY <2>7, <2>8, <3>1
    <2> HIDE DEF visited
    <2>10. /\ visited = 0 .. header.numFreePages - 1
           /\ \A i \in visited : Chain[i] \in 1 .. header.pageCount - 1 \ owned
           /\ \A i, j \in visited : Chain[i] = Chain[j] => i = j
      BY <2>4, <2>7, <2>9
    <2> QED BY <2>10 DEF visited
  <1> QED BY <1>1, DiskInvKept, PTL DEF Spec

\* Whoever opens the file after a close or a kill finds the root that was set last; after a
\* power loss, or a SetRootPageId that threw, one that was set since the last Sync or the
\* one at it: through the same histories.
THEOREM DiskRootSurvives == Spec => RootSurvives
  <1>1. DiskInv /\ [Next]_vars =>
          [Open /\ status' = "open" /\ HeaderLoaded /\ Intact =>
             \/ header'.rootPageId = setRoot
             \/ rootInDoubt /\ header'.rootPageId \in unsynced]_vars
    <2> SUFFICES ASSUME DiskKept, Open, status' = "open", HeaderLoaded
                 PROVE  \/ header'.rootPageId = setRoot
                        \/ rootInDoubt /\ header'.rootPageId \in unsynced
      BY DEF DiskInv
    <2>1. file \in [PageIds -> DiskPages] /\ file[0] \in DiskPages /\ file[0] \in disk[0] /\ RootKept
      BY Constants DEF DiskKept, DiskTypes
    <2>2. CASE InitHeader
      <3>1. file[0] = NoPage
        BY <2>1, <2>2, PagesCounted, Constants DEF InitHeader
      <3> QED BY <2>1, <2>2, <3>1, FreshHeaderIs DEF InitHeader, RootKept
    <2>3. CASE LoadHeader
      <3>1. Stored \in Headers /\ Stored.magic = file[0].first
        BY <2>1, HeaderDecoding DEF Stored
      <3>2. Stored.magic = SEDB_MAGIC /\ header'.rootPageId = Stored.rootPageId
        BY <2>3, <3>1, Constants DEF LoadHeader, Stored, Headers
      <3> QED BY <2>1, <3>1, <3>2 DEF RootKept, IsHeader, Stored
    <2>4. ~InitHeaderThrows
      BY DEF Open, InitHeaderThrows
    <2> QED BY <2>2, <2>3, <2>4 DEF Open, LoadOrInitHeader
  <1> QED BY <1>1, DiskInvKept, PTL DEF Spec, RootSurvives
=============================================================================
