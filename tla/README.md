# Becoming-An-Elite-Engineer: a TLA+ verification project

The repository is a collection: contest solutions, C++ lesson exercises, an
object store in its beginnings and one program with real concurrency, the
search engine under `src/searchengine`. That program is the main subject of this
project; the smaller parts that have behaviour of their own stand beside it. It indexes a directory of text files with a pipeline of threads and
bounded queues, under a lifecycle that starts, waits for, and stops five
subsystems, and then answers queries at the terminal.

## 1. Inventory

### The search engine

| part | state | operations | where |
|---|---|---|---|
| `RingBuffer<T,SIZE>` | two 64-bit indices, the slots, a mutex, two condition variables | `push_blocking`, `pop_blocking`; lock-free `push`, `pop` | `internal/kernal/core/datastructures/ringbuffer.hpp` |
| three queues | `dirQueue`, `lineQueue`, `parserQueue`, ring buffers of 1024 | | `cmd/main.cpp:36-43` |
| DirectoryReader | `running_`, one thread | list the corpus into `dirQueue`, end with an empty path | `internal/directoryreader/` |
| Lexer | `running_`, `activeWorkers_`, `downstreamClosed_`, a coordinator and two workers | files to lines (`Run`), lines to tokens (`Worker`), close the parser's queue once | `internal/lexer/` |
| Parser | `running_`, the tree, the count, a promise | tokens into a binary search tree, then settle the promise | `internal/parser/` |
| Engine | `running_`, one thread | prompt, search, repeat | `internal/engine/` |
| Store | the index and `hasSearchIndex` | read at start to tell a warm boot from a cold one | `internal/store/` |
| Kernal, `Subsystem`, `main` | `state_` of each subsystem, `g_shutdown` | `InitAll`, `StartAll`, `AwaitIndexing_`, `StopAll`, the signal handler | `internal/kernal/`, `cmd/main.cpp` |
| BSTree | nodes | insert, search, remove | `internal/kernal/core/datastructures/` |
| BPlusTree | `m_Root`, `m_Size`, the nodes with their parent and leaf chain pointers | insert, remove, update, clear, search, range search, validate | `internal/kernal/core/datastructures/bplustree/` |
| DiskManager | header page, free list, pages of a file | read, write, sync, allocate, deallocate | `internal/kernal/core/storage/` |
| StopWords | a constant set, hashed and compared without case | `isStopWord` | `internal/kernal/core/utils/` |

How they interact:

```
 main --InitAll/StartAll/StopAll--> Store, DirectoryReader, Lexer, Parser, Engine

 directory --> DirectoryReader --dirQueue--> Lexer coordinator --lineQueue-->
     Lexer workers (2) --parserQueue--> Parser --promise/future--> main
```

A stage tells the next that it has finished by sending an *empty* element (a
pill): one empty path, one empty line per worker, one empty token. `Stop` uses
the same pill to free a thread that waits on an empty queue. `main` starts the
stages one after the other, waits for the Parser's future (testing the shutdown
flag between two waits of at most a heartbeat), and only then starts the Engine.

What is hard about it:

* the end of the stream is found by threads in a race: two workers leave in any
  order, `activeWorkers_` and `downstreamClosed_` decide who sends the pill, and
  the catch block of `Lexer::OnStart` and `Lexer::OnStop` may send it as well;
* blocking calls with bounded queues: a stage can be stopped while it is blocked
  on the stage after it, and the order in which `StopAll` clears flags, pushes
  pills and joins decides whether it ever returns;
* a start that fails half way, with threads already running;
* a signal or a deadline at any instant of the boot;
* in the B+ tree, repairs that climb from a leaf to the root, each of which has to keep
  separators, parent pointers and the leaf chain in agreement, with a `new` or the growth of
  a vector between two of them, which may throw;
* inside the ring buffer, the lost wake-up, the spurious wake-up and a
  notification sent after the mutex is released.

What makes each part correct:

* RingBuffer: first in first out, nothing overwritten, nothing read twice; a call
  that can return does.
* Lexer: every token of every readable line reaches the Parser once, the pill comes
  once and last, each worker gets a pill.
* Parser: the promise is settled once, for the whole corpus or with the error of an
  empty one.
* Kernal: the query loop starts only over a complete index; whatever was started is
  joined before the queues disappear; a failure or a signal makes `main` return.
* Trees: a map from keys to values; for the B+ tree also the shape `Validate` tests, no
  node leaked, and searches that agree whether they descend or walk the leaves.
* DiskManager: a page has one owner; a page handed out is clean; the root found at a start is
  one that was set.

### The rest of the repository

| part | state | operations | where |
|---|---|---|---|
| upload server | two `unordered_map`s shared by Crow's threads without a lock, a key generator per thread | `POST /upload`, `POST /upload/<key>/chunk` | `objectstorage/cmd/main.cpp` |
| its Store, DiskManager, PlacementManager, crypto | the sessions of the Store (not yet wired to the handlers) | `TryInsertNewSession`, `CreateRootDir`, `FolderPlacement`, `make_object_id`, `secure_compare`; `PutObject` and others are stubs | `objectstorage/internal/` |
| FileManager of the lesson, FileManager of the drills | a descriptor with its position | `Put`, `Read`; `Write`, `WriteAt` | `core-lesson/master-file-manager`, `core-lesson/modern-cpp-algorithms/notes/drills` |
| contest solutions | none | 48 of 49 programs, each a function of its input | `CodeForces/` |

What is hard about them: handlers that meet inside a map; an exception between the two
insertions of a session; chunks for sessions of a process that has died; a write that takes part of
its bytes, a signal in the middle of it; page links, pages and header that get to the disk at
different times; and in the functions, the ends of lines, months, indices and words.

What makes them correct: data of a session goes to the user who opened it; what a client was told is
there; a write that returned is in the file, whole, where it was
asked to be; each function gives what its caller, or the problem it solves, asks for (one does not:
`year_unanswered` in section 6).

The remaining exercises are TODO markers for the learner; they are listed with the other parts in
`PROJECT.json`.

## 2. Modules

| module | models |
|---|---|
| `BoundedQueue` | what the blocking calls promise: a bounded first-in first-out queue |
| `RingBuffer` | `push_blocking` and `pop_blocking` step by step, any number of producers and consumers |
| `RingBuffer_proofs` | its inductive invariant and the refinement of `BoundedQueue`, proved |
| `Channels` | the corpus, the three queues, the pills |
| `DirectoryReader`, `Lexer`, `Parser`, `Engine` | one subsystem each: what its `OnStart` and `OnStop` do, and its threads' steps |
| `Kernal` | `main`, `InitAll`, `StartAll`, the wait, `StopAll`, the signal; composes the four above |
| `Kernal_proofs` | the invariant of the boot, of the ends of both queues and of the joins, proved |
| `IndexJob` | what a cold boot promises: every token once, then the verdict |
| `IndexingJob` | `Kernal` mapped to `IndexJob`, and the properties that count tokens |
| `IndexingJob_proofs` | every token is indexed or in one place on the way; the boot implements the job: proved |
| `PostingMap` | what the B+ tree promises: a map from keys to lists of records |
| `BPlusTree` | the tree on an explicit heap, one action per helper that changes it |
| `BPlusTreeHeap_proofs` | the inductive invariant of the tree, what each change to the heap keeps of it, and half of the steps |
| `BPlusTree_proofs` | borrowing, merging and exceptions, and the theorems: a tree, valid, without leaks, a map, searched by range, for every order, and what of it is left after an exception: proved |
| `SpscRing` | the lock-free `push` and `pop`, load by load, with indices that wrap |
| `Parts_proofs` | the lock-free ring is a queue, the search tree a set of words, a file what was written to it: proved |
| `WordSet`, `BSTree` | a set of words; the binary search tree on an explicit heap, which implements it |
| `PagePool`, `DiskManager` | what a page store promises its callers; the pages of one file over closings, kills and power losses |
| `DiskManager_proofs` | the free list and the root, for any number of pages: proved |
| `UploadServer` | the object store's `main` and its two handlers, step by step, on several threads |
| `UploadServer_proofs` | a session key never stands next to two users; what was told is stored: proved |
| `FileManager` | the write loops of both file managers and the read loop of one |
| `Conversions` | tokens of a file, stop words, the lookup, placement by weekday, server key, hex, comparison, session insertion: as functions, each next to what it is for |
| `ContestWords`, `ContestNumbers`, `ContestLists` | the contest programs as functions, each next to what its problem asks |
| `MCRingBuffer`, `MCKernal`, `MCBPlusTree`, `MCDiskManager`, `MCParts` | small instances for TLC; `MCParts` puts the parts that stand alone side by side |

**Two grains.** `RingBuffer` splits a call into lock, test, park, slot, index, unlock
and notify. `Channels` makes it one step on a sequence: that is what the refinement of
`BoundedQueue` (and `EveryCallReturns` of the same run) justifies. Inside `Kernal` a step
of a thread is what lies between two accesses to shared state: a loop test
on `running_`, one blocking call, one `fetch_sub`, one `compare_exchange`.

**Correspondence.** A subsystem's variables carry the names of the members
(`lexerRunning` is `Lexer::running_`). `xxxPc` is where a thread is: `none` before it
exists, `done` once its function has returned, which is what a join waits for. `mainPc`
names the call of `main` in progress; `Starting` and `Stopping` are the labels inside
`StartAll` and `StopAll`. `state` is `Subsystem::state_`. The states a thread
cannot be interrupted in (an `OnInit`, the counting of a catch block before the first pill)
are one step.

**What the data is.** A path is a model value. A line is the sequence of its words,
those that lie between two spaces, and `Cleaned` is what the lexer makes of a word:
the lower-case string without punctuation, maybe empty. A stop word or an empty
result is not emitted. The tree is the set of its values, because
`BSTree::insert` ignores duplicates. The last path read, the timings and the messages are
left out.

**The B+ tree.** `node` maps addresses to the fields of `LeafNode` and `InternalNode`; address 0 is
`nullptr`, `new` takes a free address and `delete` removes one, so a leak or a dangling
pointer is visible. The tree has one thread; its operations are still several steps,
because `SplitLeaf`, `InsertIntoParent`, `SplitInternal` and `FixUnderflow` call each other up the tree:
`todo` is the stack of calls not yet made, and no operation of the caller starts before it is
empty. `Update` leaves its insertion on that stack while its removal is repaired.
`ContainsKey` and `RemoveRecord` are `Contains` and `Remove`. Keys are integers, as the code
only compares them.

Memory may run out wherever the tree asks for some, at each `new` and at each growth of a vector. One
call of a vector does its work or throws with nothing done; what the code had changed before that
call stays changed. `Throws(heap)` is such an end: the heap as it is left, the stack of calls
abandoned, the behaviour over. A throw between the two growths of a leaf leaves a key without its list, one
between those of an internal node a separator without its child (`InsertThrows`, `InsertIntoParentThrows`,
`BorrowThrows`, `LeavesThrow`, `InternalsThrow`): such a tree is `Torn`. Where nothing is torn, a half of a split may be
on the leaf chain but under no parent, a merge may not have happened, and an `Update` may have removed and
not inserted. A new node that only the abandoned call knew is lost with it, and is not in `node`.

**Pages.** A page of `DiskManager` is its first word (where the free list keeps its link) and the rest.
`file` is what the operating system has. `disk` is what a power loss may leave of it, for each page a set of
versions: `fsync` makes that the version in the file, every write adds one (`MaxVersions` bounds how many).
`Close` stands for the destructor and for a kill, as neither writes the header. Seeks, writes,
flushes and `fsync` may fail, in every call that makes one. A failed seek or write throws, and so
does a failed `fsync`; a failed `fflush` is ignored at `diskmanager.cpp:88`, the call returns, and what it wrote may never get to
the file.

`lost` says what can no longer be promised: `"list"`, an allocation of which the header in the file (or on the disk) does not know when
the process ends (or power is lost); `"data"`, a caller's page that power took back to an
older version; `"flush"`, a failed flush nobody looked at; `"end"`, an `AllocatePage` off the end of its list. Nothing else is
exempt: a close or a power loss with frees that were not synced only leaks them, and one after a `SetRootPageId` may go back to any root
set since the last `Sync`, or to the one at it. `atRisk` says what end would lose the list, `unsynced` and
`rootInDoubt` which roots may be found. Nothing calls `LoadOrInitHeader`: `HeaderLoaded = FALSE` is the program as it
stands, and `TRUE` the manager that routine was written for. No code makes a file grow either, so
`TRUE` starts from a new file, a foreign one, or a database whose pages are all in use. A local
`Page` is not initialised: what a short read leaves in it is any word. The callers, who do not
exist yet, use only pages they own.

**Uploads.** A handler is where it stands between two accesses to a map. Two threads
inside one map, at least one writing, have raced. From then on an insertion may lose any entries, its own or
others' (`LeftOf`), a lookup may miss, a call may go round a chain for ever (`NeverReturns`), and the process may die (`Die`
is possible at any time anyway). What a race does not do is damage a node: it is linked only when it is complete, and nothing is
ever erased. The keys are fresh by construction of `time_generator_v7`: a start, a thread and a counter. A digest is an injective
function of the session, and may fail. `PutObject` is recorded with the user it was given. Clients outlive the process: a key
that an earlier one told is sent to a later one, and `announced` and `puts` are of all starts.

**Functions.** A program without state is an operator `Solve_X` (or the name of the function), and
next to it `Right_X(in, out)` says what it is for, in terms as far from the code's as
possible: the least number of stones rather than a count of neighbours, all days before a date
rather than a table. Characters are ASCII codes. What the models make visible: a tab does not end
a token and is then removed, which joins two words; a line of more than 455 characters is cut;
a key of the index with a capital is never found, as the query is in small letters; 271A prints
nothing for a year with a digit twice. Two of the `Right_` say less than one might wish: `Right_Searched` asks for
what is found among the keys as they are stored, so that a key with a capital is not missed, and `Right_Lexed` accepts that a
word over the cut at `Width` is two. In `parts` 271A is given the years whose digits all differ; `year_unanswered` gives it all
years. Bytes of value 0 inside a line are not modelled.

**Ends.** An exception nobody catches (a `std::thread` that cannot be created in
`DirectoryReader::OnStart` or `Engine::OnStart`, or a `filesystem_error` out of the scan in the reader's thread)
is `mainPc = "aborted"`; returning from
`main` is `"exited"`. Nothing moves after either. The promise is a member of the Parser,
which outlives every wait on its future, so a broken promise is never observed.

## 3. Runs

| run | instance | question and answer |
|---|---|---|
| `ring_buffer` | 2 producers, 2 consumers, 2 slots, 2 calls each, 2 items | do the steps inside the blocking calls, in every interleaving and with spurious wake-ups, amount to a bounded FIFO? yes (`ImplementsBoundedQueue`); nothing is overwritten (`NoOverrun`, with the invariant of the proof, `IndInv`); no wake-up is lost (`EveryCallReturns`) |
| `cold_boot` | 4 entries: two files, a directory, an unreadable file; queues of 1; 2 workers; warm and cold | does a boot index each token once, give each worker its pill, serve only a complete index, and always get to the query loop? yes; and no deadlock is reachable |
| `boot_ends` | one file, which may vanish before it is opened; every creation of a thread may fail, the corpus may be missing, its scan may throw; a signal and the deadline at any instant; queues that never fill | does the stream end once and last, is a partial index never served, is what was started joined, and does `main` decide and return? yes, or the process aborts: a thread refused in `DirectoryReader` or `Engine` and a scan that throws are no start that anybody is told of |
| `shutdown_hangs` | queues of 1 | does a signal make `main` return when a queue can fill? **no** |
| `partial_success` | signal during indexing | is a value in the promise a complete index? **no** |
| `bplustree_order_3` | order 3, 6 keys, any `new` and any growth of a vector may throw | is the tree valid after each operation, without leaks, a map, and do descents and scans agree? yes. After an exception, is a posting lost? only what an `Update` had removed, or else the tree is torn, and then still no node is under two parents |
| `bplustree_postings` | order 4, 4 keys, 2 records, lists of 2, the same exceptions | do posting lists follow their keys, and does a scan find them all in a tree left half done? yes, short of a torn one |
| `pages` | the header and 2 pages, words of 7 values, a content for callers to write, every write, flush and `fsync` may fail, a power loss at any time, header loaded | does the free list stay sound, does the root survive, do callers see a pool of clean pages? yes, until an allocation or a flush is lost |
| `handed_out_twice` | the same without failures, going on when the list is lost | is a page ever handed out while it is in use? **yes** |
| `pages_as_built` | as `pages`, header not loaded | and as the constructor is written? **no** |
| `parts` | BSTree on 4 words; the ring on 2 slots with 8 index values and 9 pushes; files of at most 5 bytes; the upload server with 2 threads, 2 users, 4 requests, 2 starts; the functions on the inputs `MCParts` lists | is the tree sound and a set, the ring a queue, a file what was written, each function right; does a chunk reach the user who opened its session, and is what was told stored? yes; storage only until two threads meet in a map |
| `year_unanswered` | 271A on 743 years, those with a digit twice too | does every year get its answer? **no** |

The runs with an answer in bold expect a violation; what the repository says of each and what the code
does is in section 6. `boot_ends` puts the empty corpus, the failed start and the interrupted boot in one
instance, where they meet each other too: a signal while the catch block of a failed start is joining.

**Bounds.** Queues of one element make every blocking call block in some behaviour, and put
the full and the empty queue next to each other; with 4 elements and one file of one line
no queue ever fills, which separates "an order went wrong" from "nobody drains the queue". A signal while
a queue is full has no passing run of its own: that `main` may then hang is `shutdown_hangs`, and the safety
properties of `boot_ends` and `cold_boot` are proved for every capacity and every moment of the signal (section 4).
Two workers are `KWorkerCount`. Two files give one that follows a file
being read, and a stage that is behind. The corpora have an empty line, a word that cleans to
nothing, a stop word, a repeated word and a blank file, the inputs on which a pill could be
mistaken or missed. In the ring buffer, two calls each over two slots wrap both indices and
let two threads wait on each condition variable. In the B+ tree six keys at order 3 are
the fewest with which every helper takes each of its branches: a fifth leaf, and so an internal node with a
child to lend, needs a sixth key. Order 4 is the other parity, where a leaf
and an internal node have different minima. `MaxPostings` bounds the posting lists.

Two pages besides the header give a free list with a head and an end, a page taken while another is on the list, and a root
that moves from one to the other; words of 7 values leave
room for ids past the file, `INVALID_PAGE_ID` and the magic. `MaxVersions` (7, of three pages) lets one page have five versions since the last
`fsync`, or all of them two or three; more writes than that must wait for one. `GoesOnLost = FALSE` ends a behaviour where the list
or a flush is lost: nothing is promised from there on, and no step makes it good (`lost` only grows). Of the upload server two threads are what a race takes, and four requests
let chunks of two users meet the race of their uploads, or of the next start; `MaxRequests` and `MaxStarts` are the only bounds.
Four words are enough for every case of a removal, the successor two steps down or the right child with a child of its own; nine pushes go once around eight index values and one further.
`MaxLength` (5) is above the longest write and leaves a hole before the largest offset; one chunk is empty, and then no loop
is entered. In `Conversions`, `Width` 3
stands for 455, so that lines of every length around the cut occur; bytes of 6 bits and a day of one or
three milliseconds let every date from 1970 up to 1981, over leap years and ends of months, come out of two
bytes of time stamp; two buffer sizes (`HashValues`, `Buckets`) make hashes wrap and collide.
Nothing else is bounded: `tokensIndexed` and `pillsDue` are bounded by the corpus and the workers.

**Symmetry** is not used: the instances are small without it, and most runs check temporal properties or refinement, for
which it is not sound.

**Deadlock** is checked except where the program may really stop: in `shutdown_hangs` and `partial_success`
a full queue can block everybody, which is what they are about; in the page
runs a foreign file is refused, and `MaxVersions` is reached; in `parts` a function has run, the ring has
no more pushes to make, the file is full, or the requests are used up. In the tree an exception ends the behaviour, and `MCBPlusTree` lets
exactly that state stutter: a call on the stack that no action makes would be reported.

**Fairness.** `FairSpec` gives weak fairness to each thread: the
operating system schedules every thread that can run, and a blocking call that
can proceed does. No thread is favoured when several can take the
mutex or be notified, so weak fairness is for the union of a thread's actions. Spurious
wake-ups are allowed, but not for ever: with an endless supply of them no condition variable
guarantees anything. `AttendedSpec` adds that the user
answers the prompt: `Engine::OnStop` joins a thread inside `getline`, which a signal does not
interrupt, so a user who walks away keeps the process alive. The signal and the deadline are never promised. The other modules claim no liveness and assume no fairness.

**Mutants.** `PROJECT.json` pairs each property of a passing run with a bug a careless
edit could introduce (an operator next to the definition it replaces, commented
`Mutant`), and TLC finds the property violated under the same configuration.

## 4. What is proved

TLAPS checks every leaf; the constants are arbitrary within their assumptions
(capacities and `Size` at least one, words that are ordered like integers, a finite non-empty set of workers, a finite corpus
directory with the files inside it, and contents of pages that are pages). Some are conditional, and say so. The theorems about the whole indexing job are for
corpora out of which no file vanishes (`Vanishing = {}`) between its listing and its opening: such a file is skipped by
the Lexer, and its tokens are in no index. Those about pages are for a manager that loads its header (`HeaderLoaded`, section 6 has what
happens otherwise) and for as long as neither an allocation nor a flush is lost (`Intact`); those about the tree
except what an exception has torn (`Torn`).

**`RingBuffer_proofs`.** `IndInv` is inductive (`RingBufferInvariant`). `NoOverrun` alone is
not: it needs to know that only the holder of the mutex is inside a call, and, for each
program point between a slot access and the move of its index, what that slot and
the caller's `item` hold (`InTransit`). From it follow `RingBufferNoOverrun` and
`RingBufferRefinesQueue`: moving `write_index` is the `Put` of `BoundedQueue`, moving
`read_index` its `Get`, everything else a stutter.

**`Kernal_proofs`.** `EndOfStreamIsLast` (no token behind the pill of the parser's queue)
is not inductive: whether a worker may still push depends on a counter that other threads decrease.
`KernalInv` adds why:

* `CountCovers`: `activeWorkers_` is at least the number of workers that may still
  push or leave, the ones not yet spawned included. At least, not exactly: the catch
  block of `Lexer::OnStart` recounts while a worker may already have left, and then nobody
  reaches zero and `main` closes the queue instead;
* `ClosedWhenDone`: nobody is closing, or has closed, while such a worker exists;
* `OneHolder`: whoever changed `downstreamClosed_` is alone between that and its push,
  and the pill is not yet in the queue;
* `PillLast`: the pill, once pushed, is the last element, until the Parser takes it and
  finds its queue empty;
* `BootPhases`: what has run when `main` is at a given call (no worker before
  `Lexer::OnStart`, every worker joined when `main` closes the queue, ...).

`KernalInvariant` proves it inductive, one lemma per thread for the types and one for the
closing order; `ClosingFrame` is the lemma for all the steps that touch none of it.
`KernalTypes` and `KernalEndOfStreamIsLast` follow. Three more conjuncts carry two more theorems:

* `Lifecycle`: `StopAll` takes the subsystems in the reverse order of their start, and
  where `main` is between the flag and the last join of one of them, and a `STOPPED` subsystem has
  no thread. From it `KernalNoThreadOutlives`, with the failed start of the Lexer and its own joins;
* `NoPillYet`: as long as the Lexer runs and its coordinator has not ended its loop, there
  is no pill in `lineQueue` and every worker is at work. That is where the count starts:
  `Workers` pills due, `Workers` still to leave;
* `OnePillPerWorker` is then inductive: a push turns a pill due into a pill queued, a
  worker that takes one is one less of both. `PillsPushed` and `PillsPopped` count the pills of a queue.

The order of the end of stream is a promise about a
Parser that has not been told to stop: after `Parser::OnStop` the pill of `Stop` may
be anywhere, and the properties say so (`Fed`).

**`IndexingJob_proofs`.** `IndexingServesCompleteIndex` and `IndexingImplementsIndexJob` are the
whole program: four subsystems, three queues, `main`. A token is counted where it occurs: `InFlight` adds the
occurrences in the directory not yet listed, the path at hand, `dirQueue`, the rest of the open
file, `lineQueue`, the lines in the workers and `parserQueue`. `Count` is the cardinality of a set of pairs of
a place and an occurrence, not a recursive sum, so that a step that moves an element is a bijection between such sets; one
lemma per kind of step (`ReaderMoves` and its neighbours) says that what leaves a place arrives at the
next. `JobInv` adds to `KernalInv`:

* `Conserved`: until the boot is given up, the tokens indexed and those in flight make the corpus, and
  a word of the vocabulary is in the tree or `Somewhere` on the way. The second half is not implied by
  the first: the tree drops duplicates, so it cannot be counted;
* `PathsEnd`: the pill of `dirQueue` is behind every path, and the coordinator leaves its loop with the
  directory exhausted;
* `LinesEnd`: a thread holds tokens only where it works on them, and once a worker has taken a pill
  there are only pills left in `lineQueue`;
* `Onward`: what has been started when `main` is at a given call, and that the promise is set once.

`NothingLeft` is the point of it: when the Parser takes the pill of its queue, nothing is in flight. Its pill was
sent by a worker that was the last to leave; so every worker took a pill, so the coordinator is at its
pills, so it had taken the reader's, which is behind every path; and the parser's queue is empty by
`PillLast`. `StepOfTheJob` maps a step of the program to `IndexOne`, `Decide`, `DropTokens` or `CancelJob` of
`IndexJob`, or to a stutter. TLC checked `JobInv` on the instances of `cold_boot` and
`boot_ends` before it was proved.

**`Parts_proofs`.** `SpscRingFifo` is for every `SIZE` and every number of index values that
`SIZE` divides, from twice `SIZE` on. `RingInv` says that the indices are the numbers of pushes and pops reduced to a machine word, that
each item between them is in its slot, and that what a side has loaded of the other's index may be old
but only on the safe side: the producer sees too few places, the consumer too few items. A pop that refuses
a buffer with items is possible once the write index has wrapped, and only then (`Refusals`).

`BSTreeIsSound` and `BSTreeImplementsWordSet` are for any values and any history of `insert`, `remove` and the destructor.
`TreeIsSound` says it with recursive functions (`Below`, and the descents of `GetNodeRef` and `FindMin`). The invariant
(`TreeInv`) does not: there *is* a set of nodes below each pointer (`IsTree`), each node in the sets of its own pointer
and of those above, everything below the root, a node never below its own children (`Shape`), less on the left, greater
on the right (`Sorted`). What is below a pointer is a finite set that gets smaller with each step down, so its size is the rank by
which a descent ends. `DescentExists` shows that such a descent is a function at all, and `DescentStays` that what holds at its start and
is kept by each step holds at its end; both are proved with the least element of a set of numbers instead of an
induction. `SearchEnds` and `LeastEnds` apply them: the search ends at the value or at the one free place for it, the
walk to the left at the least node. An insertion grows the shape by a node (`ShapeGrown`), every removal cuts out one node with at
most one child (`ShapeCut`), which for a node with two children is the successor whose value has moved up
(`SortedMoved`). The values the nodes hold (`Held`) are what search finds, and each call changes them as the set of words.

`FileManagerFileHolds` (the same module) is for any chunks, offsets and cuts of a write into parts.
`FileInv` follows a call half way: what a write has handed over lies in the file from where it
began (`WriteSoFar`), what a `Read` has collected is the beginning of the file (`ReadSoFar`), and between two reads
the lesson's descriptor is at the end (`AtTheEnd`), unless a `Read` has thrown.

**`DiskManager_proofs`.** `DiskFreeListSound` and `DiskRootSurvives` (an action property)
are over any number of pages and versions of them, and any history of calls that return or throw, of closings, kills and power losses. `FreeListSound`
walks the chain with a recursive function. The invariant does not: `HasList` says that there *is* a list of
`numFreePages` different pages, free, below the count, each with the next in its first word. One lemma (`ChainIsTheList`) says that
the walk visits that list, by taking the first place where they would differ. `DiskKept` has four parts: types (`DiskTypes`), and

* `HeaderKept`: an open file has a header in it, the one in memory unless that is dirty;
* `ListsKept`, the list in three places. The header in memory always has its list. The one in the file has a list too, an older one maybe,
  unless a page of it was handed out since: `DeallocatePage` writes the link of a page before any header can name it, and a page that is
  on an older list stays on it untouched while nobody owns it. And so has the header in *every* file a power
  loss can put together (`Possible`), one version of each page, unless a page was handed out since the last `Sync`, or another list got to the file;
* `RootKept`: the root in memory, in the file, and in every version of the header on the disk is the one set last, or one of
  those set since the last `Sync`.

**`BPlusTreeHeap_proofs`, `BPlusTree_proofs`.** Everything TLC checks of the tree on order 3 and 4
is proved for every order from 3 on, any keys and records, posting lists up to any bound, any
history of `Insert`, `Remove`, `Update` and `Clear`, and a throw at any `new` and any growth of a vector. The only assumptions are `OrderAssumption`,
`KeysAssumption` (keys are integers: the code only compares them) and `BoundAssumption`.

None of the properties is inductive, and most of them hold only at rest, while the program gets from one rest to the next in
steps that leave the tree out of order. `IInv` says what is true at every step: there *are*

* a height `h` for each node (leaves have 0, a child one less than its parent), so that all leaves are at one depth and
  every descent has a rank by which it ends;
* an interval from `lo` to `hi` for each node, of which its keys are part, cut by its separators into those of its children;
  intervals of one height do not overlap, and the chain of leaves goes from each to the one that begins where it ends. The
  outer ends are not fixed by any key, so the interval of the root can be widened for a new key (`Widen`);
* at most one node `over` its bound, or one `short` of it, or one pair `left`, `right` of halves of which the right has no parent
  yet: then `left` still stands for both below its parent;
* and the stack of calls fits (`Stack`): its top is `SplitLeaf` or `SplitInternal` of the node over its bound, `FixUnderflow` of the short one,
  or `InsertIntoParent` of the two halves with the separator at which the right one's interval begins; below that there is at most the
  insertion of an `Update`.

Each step is proved in two halves. The first says what the code's assignments make of every field of every node (`Split`, `Attached`,
`Grown`, `Merged`, `Shifted`, `Promoted`, `Edited`); the second that such a change keeps the tree (`SplitKeeps`, `AttachKeeps`, `GrowKeeps`,
`MergeKeeps`, `ShiftKeeps`, `ShrinkKeeps`, `EditKeeps`), with new witnesses. An exception either keeps `IInv`, the
debt just stays, and every leaf but one that is short has a key (`LeavesHold`); or it leaves a tree `InPieces`: torn, with its types, and
no node under two parents, as a child is put below its new parent by the last growth of the call, after which nothing can
throw. `TreeAlways` is the sum (`TreeInv`, that is `IInv` or `InPieces`); from it:

* `TypesAlways`, `OneNodeInDebtAlways`, `NothingLeaksAlways`: the last as everything the recursion of `Below` reaches is
  everything allocated (a node of greatest height that is not reached would have a parent that is not either);
* `DeletedOnceAlways`: in a whole tree by the heights and intervals, in a torn one because `InPieces` says it;
* `RestructuringAlwaysInvisible`: each helper keeps the set of pairs of a key and its list (`SamePostings`), and a walk along the chain sees
  that set, in every state but a torn one (`ChainMatches`), as the leaves between the leftmost and the end of the chain are all leaves;
* `AlwaysImplementsPostingMap`: with `FindLeaf` ending at the leaf whose interval has the key (`Found`) and the
  bisections at its place (`UpperBoundIsExact`, `LowerBoundIsExact`), every call is one step of `PostingMap`, and an
  exception its last: the map as it was left (`"threw"`, for an `Update` maybe without the record it had removed), or none any more (`"torn"`);
* `AlwaysValidAtRest`: `Validate` as the code computes it. It is a recursion over nodes with the window their keys must keep; that window
  contains the node's interval in every call, and the call of least height that did not return its depth would have one below it;
* `RangeAlwaysAgrees` and `ScanAlwaysExact`: the *sequence* that `RangeSearch` returns, not just what is in it. `Rests` is a function that has, for each
  number, the lists from there up to `upper` one after the other, and `Coming` the first key that is still to come at a place of the walk.
  The walk returns the rest at what is coming there (`WalkGives`), as each step brings the place nearer the end of the chain (`Ahead`) and
  passes only numbers with no list. It is left to show that nothing is passed before the walk starts. At rest the descent ends at the leaf whose
  interval has `lower` (`DescentArrives`). After an exception
  that has not torn the tree it may end a leaf early, but not for the smallest key: each leaf has a key, so
  every separator on the left edge of the tree is above the smallest (`LeftEdge`), and the descent goes down that edge (`DescendsLeft`).

`LeafSplitFits`, `InternalSplitFits` and `MergeFits` are the arithmetic of `MaxKeys`, `MinLeafKeys` and `MinInternalKeys` behind it.
`SplitLeafKeepsPostings` and `MergeLeavesKeepsPostings` say of the two actions alone, on any heap of well-typed nodes, that the sequences of keys and
lists before and after are the same, cut in two or put together.

Recursive functions (`FindLeaf`, `Leftmost`, `Below`, the bisections, `ChainedLeaves`, `ValidateNode`) are never reasoned about by induction on data:
where one is defined on a set with a rank, its existence is shown by a witness that is not recursive, and what it returns by taking
the argument of least rank for which it would return something else (`LeastRank`).

**`UploadServer_proofs`.** `ChunksGoToTheMinter` speaks of what clients were told and what `PutObject`
got; a key travels through a handler, two maps and a client in between. `Bound` is the set of all pairs of a key and a user
in any of these places, and `BindingInv` says that it is a function whose keys have all been
minted: `NewKey` is fresh because a start, a thread and that thread's counter are in it. Keys told by earlier processes
stay in `Bound`, and a later one makes no key that begins with their start (`KeysAreOfAStart`). Losing entries, missing a
lookup or never returning only makes `Bound` smaller, so the theorem (`UploadChunksGoToTheMinter`) holds
through every race. `ToldIsStored` is about what the present process has told, as the maps end with it, and needs `StoredInv`: a handler between its two insertions has its session in the
first map, and `try_emplace` never changes an entry that is there; it is a promise only until a race.
Both hold for any number of threads, users, requests and starts.

## 5. What is only model-checked

Liveness (`EveryCallReturns`, `BootDecides`, `ShutdownCompletes`, `StartFailureReturns`)
is out of the prover's reach; `BootDecides` counts a process that aborts as one that has decided. `ImplementsPagePool` is checked on two pages and
not proved. The functions of `Conversions` and the contest
modules (`ConversionsAgree`, `SolutionsAgree`) are folds and recursion over their inputs; they are checked on
bounded ones. `ServesCompleteIndex` with a file that vanishes is not claimed: the property is about corpora that stay.

## 6. Findings

1. **`shutdown_hangs`.** `Parser::OnStop` clears `running_` and then pushes a pill on a
   `parserQueue` that may be full (`parser.cpp:28-31`); the Parser leaves its loop on the flag
   without popping again, so `main` waits in `push_blocking` for ever.
   `Lexer::OnStop` does the same with `dirQueue` (`lexer.cpp:64`). The lesson notes promise that
   Ctrl+C during a large cold boot exits "within a second or two, no hang"
   (`cpp-promise-and-future.md:1732`). They tell of one such deadlock themselves (1752-1762), a
   coordinator blocked on a `lineQueue` whose workers have left, and not of these two.
2. **`partial_success`.** A Parser parked on an empty queue takes the pill of its own
   `OnStop` for the end of the stream and sets a value. The comment at `parser.cpp:63-65` says that
   an abort is not a completion. The Kernal never sees this value (it has stopped waiting):
   `ServesCompleteIndex` holds.
3. **`pages_as_built`.** The constructor opens the file and never calls `LoadOrInitHeader`, so the header in memory is
   zeros and page 0 is the head of the free list. `AllocatePage` then zeroes the file's header page and hands
   it out, as often as it is asked, where `diskmanager.cpp:161` says that page 0 is the header.
4. **`handed_out_twice`.** `AllocatePage` moves the head of the free list in memory, and neither the destructor
   (`diskmanager.cpp:28`) nor a kill writes the header. After a `Sync`, an allocation and the end of the process the
   header in the file lists a page that is in use, and the next process hands it out again. The lesson
   (`storage/04-diskmanager-allocation.md:374`) calls a head of the list that is stale after a crash
   "**Benign**", a leak of freed pages; it is one after a lost free, and the opposite after a lost allocation. The same lesson asks (477) to
   "Call `Sync()` in the destructor too", which would leave the crash.
5. **`year_unanswered`.** For a year with a digit twice `271A.cpp:43-50` counts up to the next year without one and returns
   before it prints it. `271A.md:12` wants a single integer and guarantees that there is one.

Some disagreements are told here without a run of their own; the properties have them as conditions or as outcomes.

* `ownership-and-lifecycle-part4.md:306` says of a subsystem that fails to start that those before it "are stopped in reverse
  order". A thread refused in `DirectoryReader::OnStart` (`directoryreader.cpp:32`) or `Engine::OnStart` (`engine.cpp:18`) is no failure to
  start there but an exception nobody catches, and the process aborts; so it does when the
  scan throws in the reader's thread (`directoryreader.cpp:54`). `StartFailureReturns` lets `aborted` be an
  end. And after a failed `Lexer::OnStart` nobody drains `dirQueue`, while `DirectoryReader::OnStop` only joins
  a thread that may be blocked on it (`directoryreader.cpp:66`): with a queue that can fill, a failed start does not
  return. `boot_ends` has queues that do not fill.
* A `new` or a growth that throws in the middle of a split leaves the new half on the leaf chain and under no parent
  (`BPlusTree.hpp:434`, 448-449), where P10 of `INSERTION_SPEC.md` (323-327) excludes a half-split state; D.9 (670-674) admits only a
  leaf that is over-full. In `InsertIntoLeaf` the key goes in before its list (390-391), and a throw between the two leaves
  them out of step, against I3 (193-195).
* `InsertIntoLeaf` appends a record to the list of an existing key without a look (386), where
  I20 (256-257) wants a sorted list with one entry per document, and G.5.4 a duplicate ignored.
* `m_Size` counts keys (392), and `Validate` checks that, where I23 wants `(key, RecordID)` pairs.

No caller uses the tree yet; the model follows the code, not `INSERTION_SPEC.md`.

One limit the models show is not a defect anybody can reach: `pop` compares the indices where `push` subtracts
them, and after 2^64 pushes it takes a buffer with items for an empty one. `LockFreeFifo` says
exactly this, on words of eight values. A `Read` of the lesson's file manager that throws half way leaves the
descriptor in the middle of the file, and the next `Put` overwrites what is there (`readFailed`).

## 7. Not modelled, and the plan

Left out of modelled parts: the moves of a whole B+ tree and the printing of both trees; logging and timing;
`bad_alloc` inside the Parser's tree; the setters and getters of `Store` that no stage calls. Of the B+ tree also: what a caller
might still do with it after an exception; the node that an unwound call allocated and leaks; keys whose copies throw. Of the pages: a page
torn by a power loss, an `fsync` that reports success after one that failed had dropped what was written, and data that
stays in the C library's buffer after a failed flush and goes out after other calls have read. Of the
memory model: the lock-free ring is checked with loads and stores that are sequentially consistent.
Not modelled at all: the benchmarks (they measure), `generate_inventory.py` and `getTestCases.py` (they
produce files), 200B (a mean in floating point), the exercises (their bodies are for the learner to write, so there is no
behaviour to be faithful to), and the stubs of the object store (`PutObject`, `RemoveObject`,
`IsRootDirCreated`, `GetObjectPath`).

What the plan has left:

1. the mix of lock-free and blocking calls on one ring buffer, as soon as a caller has both;
2. the object store's sessions with their expiry, once `main` uses its `Store`, and `PutObject` once it stores;
3. the B+ tree over pages, once the tree is stored in `DiskManager`.
