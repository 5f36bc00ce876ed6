----------------------------- MODULE BPlusTree ------------------------------
(***************************************************************************)
(* BPlusTree<KeyType> of the search engine's core data structures, on an   *)
(* explicit heap: node maps the address of every allocated node to its     *)
(* fields, and a null pointer is address 0.  An operation of the caller is *)
(* one action; every helper it calls that changes the tree (SplitLeaf,     *)
(* InsertIntoParent, SplitInternal, FixUnderflow and what it chooses) is   *)
(* one more, run from the stack of pending calls, todo.  The tree is       *)
(* single-threaded: no operation starts before todo is empty.              *)
(*                                                                         *)
(* Every new, and every growth of a vector, may throw; the calls under way *)
(* are then abandoned where they are and the behaviour ends there.  One    *)
(* call of a vector either does its work or throws and does nothing.  A    *)
(* node that only the abandoned call knows is lost and is not in node.     *)
(*                                                                         *)
(* Vectors are indexed from 0 in the code and from 1 here; an index that a *)
(* function returns keeps the value it has in the code.                    *)
(***************************************************************************)
EXTENDS Integers, FiniteSets, Sequences, SequencesExt

CONSTANTS
    Order,          \* m_Order: the most children of an internal node
    Keys, Records,  \* what callers insert
    MaxPostings,    \* bound: the longest posting list a caller builds
    AllocationFails \* whether memory may run out

ASSUME OrderAssumption == Order \in Nat /\ Order >= 3
ASSUME KeysAssumption == Keys \subseteq Int
ASSUME BoundAssumption == MaxPostings \in Nat \ {0} /\ AllocationFails \in BOOLEAN

VARIABLES
    root,  \* m_Root
    size,  \* m_Size
    node,  \* the heap: address -> fields of the node there
    todo   \* the calls still to be made by the operation under way

vars == <<root, size, node, todo>>

Null == 0

MaxKeys         == Order - 1
MinLeafKeys     == Order \div 2
MinInternalKeys == (Order + 1) \div 2 - 1
Minimum(a) == IF node[a].leaf THEN MinLeafKeys ELSE MinInternalKeys

NewLeaf == [leaf |-> TRUE, keys |-> << >>, values |-> << >>, children |-> << >>,
            parent |-> Null, next |-> Null, previous |-> Null]
NewInternal == [NewLeaf EXCEPT !.leaf = FALSE]

\* The address new returns: which one it is makes no difference.
Fresh == CHOOSE a \in 1..Cardinality(DOMAIN node) + 1 : a \notin DOMAIN node

\* The heap with one node more.
Allocate(fields, heap) ==
    [a \in DOMAIN heap \cup {Fresh} |-> IF a = Fresh THEN fields ELSE heap[a]]

\* s without its first n elements.
Drop(s, n) == SubSeq(s, n + 1, Len(s))

-----------------------------------------------------------------------------
(* Searching.                                                              *)

\* The number of keys not above key, by bisection.
UpperBoundIndex(keys, key) ==
    LET bisect[bounds \in (0..Len(keys)) \X (-1..Len(keys) - 1)] ==
            LET left  == bounds[1]
                right == bounds[2]
                mid   == left + (right - left) \div 2
            IN  IF left > right THEN left
                ELSE IF key < keys[mid + 1] THEN bisect[<<left, mid - 1>>]
                ELSE bisect[<<mid + 1, right>>]
    IN  bisect[<<0, Len(keys) - 1>>]

\* The number of keys below key, by bisection.
LowerBoundIndex(keys, key) ==
    LET bisect[bounds \in (0..Len(keys)) \X (-1..Len(keys) - 1)] ==
            LET left  == bounds[1]
                right == bounds[2]
                mid   == left + (right - left) \div 2
            IN  IF left > right THEN left
                ELSE IF keys[mid + 1] < key THEN bisect[<<mid + 1, right>>]
                ELSE bisect[<<left, mid - 1>>]
    IN  bisect[<<0, Len(keys) - 1>>]

FindLeaf(key) ==
    LET descend[a \in DOMAIN node] ==
            IF node[a].leaf THEN a
            ELSE descend[node[a].children[UpperBoundIndex(node[a].keys, key) + 1]]
    IN  IF root = Null THEN Null ELSE descend[root]

\* Where key is, or belongs, in a leaf.
Place(leaf, key) == LowerBoundIndex(node[leaf].keys, key) + 1

\* What is posted under key: nothing when the key is not there.
Search(key) ==
    LET leaf == FindLeaf(key)
        at   == Place(leaf, key)
    IN  IF leaf = Null THEN << >>
        ELSE IF at > Len(node[leaf].keys) \/ key < node[leaf].keys[at] THEN << >>
        ELSE node[leaf].values[at]

ContainsKey(key) ==
    LET leaf == FindLeaf(key)
        at   == Place(leaf, key)
    IN  leaf # Null /\ at <= Len(node[leaf].keys) /\ ~(key < node[leaf].keys[at])

\* Where key is, or belongs, in the leaf that FindLeaf gives for it.
Slot(key) == Place(FindLeaf(key), key)

\* Where a walk along the leaf chain can be: in a leaf, or past the last one, and at an index.
Places == ({Null} \cup {a \in DOMAIN node : node[a].leaf}) \X (Nat \ {0})

\* Mutant: index is not reset to 0 in the next leaf.
RangeSearchKeepsIndex(lower, upper) ==
    LET walk[place \in Places] ==
            LET leaf  == place[1]
                index == place[2]
            IN  IF leaf = Null THEN << >>
                ELSE IF index > Len(node[leaf].keys) THEN walk[<<node[leaf].next, index>>]
                ELSE IF upper < node[leaf].keys[index] THEN << >>
                ELSE node[leaf].values[index] \o walk[<<leaf, index + 1>>]
    IN  IF root = Null \/ upper < lower THEN << >>
        ELSE walk[<<FindLeaf(lower), Slot(lower)>>]

\* One descent, then along the leaf chain until a key is past upper.
RangeSearch(lower, upper) ==
    LET walk[place \in Places] ==
            LET leaf  == place[1]
                index == place[2]
            IN  IF leaf = Null THEN << >>
                ELSE IF index > Len(node[leaf].keys) THEN walk[<<node[leaf].next, 1>>]
                ELSE IF upper < node[leaf].keys[index] THEN << >>
                ELSE node[leaf].values[index] \o walk[<<leaf, index + 1>>]
    IN  IF root = Null \/ upper < lower THEN << >>
        ELSE walk[<<FindLeaf(lower), Slot(lower)>>]

\* The position of child among its parent's children, as in the code from 0.
ChildIndex(parent, child) ==
    LET at == SelectInSeq(node[parent].children, LAMBDA c : c = child)
    IN  IF at = 0 THEN Len(node[parent].children) ELSE at - 1

-----------------------------------------------------------------------------
(* The stack of calls.                                                     *)

SplitLeafOf(a)     == [call |-> "SplitLeaf", node |-> a]
SplitInternalOf(a) == [call |-> "SplitInternal", node |-> a]
FixUnderflowOf(a)  == [call |-> "FixUnderflow", node |-> a]
ParentGains(left, key, right) ==
    [call |-> "InsertIntoParent", node |-> left, key |-> key, right |-> right]
InsertLater(key, record) == [call |-> "Insert", key |-> key, record |-> record]
Threw == [call |-> "Threw"]

Idle == todo = << >>
Called(name) == todo # << >> /\ Head(todo).call = name
Callee == Head(todo).node
Rest == Tail(todo)

-----------------------------------------------------------------------------
\* Memory runs out: heap is what has been done to the nodes by then.
Throws(heap) ==
    /\ AllocationFails
    /\ node' = heap
    /\ todo' = <<Threw>>
    /\ UNCHANGED <<root, size>>

Init == /\ root = Null
        /\ size = 0
        /\ node = << >>
        /\ todo = << >>

-----------------------------------------------------------------------------
(* Insert, and what overflows.                                             *)

InsertFirst(key, record, after) ==
    /\ root = Null
    /\ node' = Allocate([NewLeaf EXCEPT !.keys = <<key>>, !.values = << <<record>> >>],
                        node)
    /\ root' = Fresh
    /\ size' = size + 1
    /\ todo' = after

AppendPosting(key, record, after) ==
    /\ ContainsKey(key)
    /\ node' = [node EXCEPT ![FindLeaf(key)].values[Slot(key)] = Append(@, record)]
    /\ todo' = after
    /\ UNCHANGED <<root, size>>

\* Mutant: a leaf of m_Order keys is not split yet.
InsertKeyLateSplit(key, record, after) ==
    /\ root # Null
    /\ ~ContainsKey(key)
    /\ LET leaf == FindLeaf(key)
       IN  /\ node' = [node EXCEPT ![leaf].keys = InsertAt(@, Slot(key), key),
                                   ![leaf].values = InsertAt(@, Slot(key), <<record>>)]
           /\ todo' = (IF Len(node[leaf].keys) > MaxKeys
                       THEN <<SplitLeafOf(leaf)>> ELSE << >>) \o after
    /\ size' = size + 1
    /\ UNCHANGED root

\* Mutant: the posting list goes to the end of values, not beside its key.
InsertKeyPushBack(key, record, after) ==
    /\ root # Null
    /\ ~ContainsKey(key)
    /\ LET leaf == FindLeaf(key)
       IN  /\ node' = [node EXCEPT ![leaf].keys = InsertAt(@, Slot(key), key),
                                   ![leaf].values = Append(@, <<record>>)]
           /\ todo' = (IF Len(node[leaf].keys) + 1 > MaxKeys
                       THEN <<SplitLeafOf(leaf)>> ELSE << >>) \o after
    /\ size' = size + 1
    /\ UNCHANGED root

InsertKey(key, record, after) ==
    /\ root # Null
    /\ ~ContainsKey(key)
    /\ LET leaf == FindLeaf(key)
       IN  /\ node' = [node EXCEPT ![leaf].keys = InsertAt(@, Slot(key), key),
                                   ![leaf].values = InsertAt(@, Slot(key), <<record>>)]
           /\ todo' = (IF Len(node[leaf].keys) + 1 > MaxKeys
                       THEN <<SplitLeafOf(leaf)>> ELSE << >>) \o after
    /\ size' = size + 1
    /\ UNCHANGED root

InsertThen(key, record, after) ==
    \/ InsertFirst(key, record, after)
    \/ AppendPosting(key, record, after)
    \/ InsertKey(key, record, after)

Insert(key, record) ==
    /\ Idle
    /\ Len(Search(key)) < MaxPostings
    /\ InsertThen(key, record, << >>)

\* The new leaf, a longer list or more room for keys is refused: nothing has been
\* inserted.  Room for the lists is refused: the key is in the leaf without one.
InsertThrows(key) ==
    \/ Throws(node)
    \/ /\ root # Null
       /\ ~ContainsKey(key)
       /\ Throws([node EXCEPT ![FindLeaf(key)].keys = InsertAt(@, Slot(key), key)])

\* How many keys, of n, a split leaves to the left half of a leaf and of an
\* internal node.
LeafSplitPoint(n)     == (n + 1) \div 2
InternalSplitPoint(n) == n \div 2

\* Mutant: leaf->next is not set to the new leaf.
SplitLeafNoSplice ==
    /\ Called("SplitLeaf")
    /\ LET old   == node[Callee]
           point == LeafSplitPoint(Len(old.keys))
           right == [NewLeaf EXCEPT !.keys = Drop(old.keys, point),
                                    !.values = Drop(old.values, point),
                                    !.next = old.next,
                                    !.previous = Callee]
       IN  /\ node' = Allocate(right, [node EXCEPT ![Callee].keys = SubSeq(@, 1, point),
                                                   ![Callee].values = SubSeq(@, 1, point)])
           /\ todo' = <<ParentGains(Callee, right.keys[1], Fresh)>> \o Rest
    /\ UNCHANGED <<root, size>>

\* The upper part of the leaf moves to a new leaf, spliced in to its right; the
\* first key of the new leaf is copied up.
SplitLeaf ==
    /\ Called("SplitLeaf")
    /\ LET old   == node[Callee]
           point == LeafSplitPoint(Len(old.keys))
           right == [NewLeaf EXCEPT !.keys = Drop(old.keys, point),
                                    !.values = Drop(old.values, point),
                                    !.next = old.next,
                                    !.previous = Callee]
           left  == [old EXCEPT !.keys = SubSeq(@, 1, point),
                                !.values = SubSeq(@, 1, point),
                                !.next = Fresh]
       IN  /\ node' = Allocate(right,
                         [a \in DOMAIN node |->
                             CASE a = Callee   -> left
                               [] a = old.next -> [node[a] EXCEPT !.previous = Fresh]
                               [] OTHER        -> node[a]])
           /\ todo' = <<ParentGains(Callee, right.keys[1], Fresh)>> \o Rest
    /\ UNCHANGED <<root, size>>

\* The root was split: a new root above the two halves.
GrowRoot ==
    /\ Called("InsertIntoParent")
    /\ Callee = root
    /\ LET right == Head(todo).right
       IN  /\ node' = Allocate([NewInternal EXCEPT !.keys = <<Head(todo).key>>,
                                                   !.children = <<root, right>>],
                               [node EXCEPT ![root].parent = Fresh, ![right].parent = Fresh])
           /\ root' = Fresh
    /\ todo' = Rest
    /\ UNCHANGED size

InsertIntoParent ==
    /\ Called("InsertIntoParent")
    /\ Callee # root
    /\ LET right  == Head(todo).right
           parent == node[Callee].parent
           index  == ChildIndex(parent, Callee)
       IN  /\ node' = [node EXCEPT ![parent].keys = InsertAt(@, index + 1, Head(todo).key),
                                   ![parent].children = InsertAt(@, index + 2, right),
                                   ![right].parent = parent]
           /\ todo' = (IF Len(node[parent].keys) + 1 > MaxKeys
                       THEN <<SplitInternalOf(parent)>> ELSE << >>) \o Rest
    /\ UNCHANGED <<root, size>>

\* Unlike a leaf's, the key in the middle moves up: neither half keeps it.
SplitInternal ==
    /\ Called("SplitInternal")
    /\ LET old   == node[Callee]
           mid   == InternalSplitPoint(Len(old.keys))
           moved == Drop(old.children, mid + 1)
           right == [NewInternal EXCEPT !.keys = Drop(old.keys, mid + 1),
                                        !.children = moved]
           left  == [old EXCEPT !.keys = SubSeq(@, 1, mid),
                                !.children = SubSeq(@, 1, mid + 1)]
       IN  /\ node' = Allocate(right,
                         [a \in DOMAIN node |->
                             CASE a = Callee         -> left
                               [] a \in ToSet(moved) -> [node[a] EXCEPT !.parent = Fresh]
                               [] OTHER              -> node[a]])
           /\ todo' = <<ParentGains(Callee, old.keys[mid + 1], Fresh)>> \o Rest
    /\ UNCHANGED <<root, size>>

\* No memory for the new half, or for the new root: nothing has been moved.
SplitThrows ==
    /\ \/ Called("SplitLeaf")
       \/ Called("SplitInternal")
       \/ Called("InsertIntoParent") /\ Callee = root
    /\ Throws(node)

\* No room in the parent for the separator, or after it none for the child.
InsertIntoParentThrows ==
    /\ Called("InsertIntoParent")
    /\ Callee # root
    /\ LET parent == node[Callee].parent
           index  == ChildIndex(parent, Callee)
       IN  \/ Throws(node)
           \/ Throws([node EXCEPT ![parent].keys = InsertAt(@, index + 1, Head(todo).key)])

-----------------------------------------------------------------------------
(* Remove, and what underflows.                                            *)

RemoveNothing(key) ==
    /\ ~ContainsKey(key)
    /\ UNCHANGED vars

\* Mutant: the key is kept with an empty list.
RemovePostingOnly(key, record, after) ==
    /\ ContainsKey(key)
    /\ node' = [node EXCEPT ![FindLeaf(key)].values[Slot(key)] = RemoveFirst(@, record)]
    /\ todo' = after
    /\ UNCHANGED <<root, size>>

\* The record leaves the list (if it is there) and the key stays.
RemovePosting(key, record, after) ==
    /\ RemoveFirst(Search(key), record) # << >>
    /\ node' = [node EXCEPT ![FindLeaf(key)].values[Slot(key)] = RemoveFirst(@, record)]
    /\ todo' = after
    /\ UNCHANGED <<root, size>>

\* Mutant: pop_back instead of an erase at the index.
RemoveLastKey(key, record, after) ==
    /\ ContainsKey(key)
    /\ RemoveFirst(Search(key), record) = << >>
    /\ LET leaf == FindLeaf(key)
       IN  /\ node' = [node EXCEPT ![leaf].keys = Front(@), ![leaf].values = Front(@)]
           /\ todo' = <<FixUnderflowOf(leaf)>> \o after
    /\ size' = size - 1
    /\ UNCHANGED root

RemoveKey(key, record, after) ==
    /\ ContainsKey(key)
    /\ RemoveFirst(Search(key), record) = << >>
    /\ LET leaf == FindLeaf(key)
       IN  /\ node' = [node EXCEPT ![leaf].keys = RemoveAt(@, Slot(key)),
                                   ![leaf].values = RemoveAt(@, Slot(key))]
           /\ todo' = <<FixUnderflowOf(leaf)>> \o after
    /\ size' = size - 1
    /\ UNCHANGED root

RemoveThen(key, record, after) ==
    \/ RemovePosting(key, record, after)
    \/ RemoveKey(key, record, after)

RemoveRecord(key, record) ==
    /\ Idle
    /\ RemoveNothing(key) \/ RemoveThen(key, record, << >>)

\* Mutant: the old root is not deleted.
ShrinkRootNoDelete ==
    /\ Called("FixUnderflow")
    /\ Callee = root
    /\ IF node[root].keys # << >> THEN UNCHANGED <<root, node>>
       ELSE /\ root' = IF node[root].leaf THEN Null ELSE node[root].children[1]
            /\ node' = [a \in DOMAIN node |->
                           IF a = root' THEN [node[a] EXCEPT !.parent = Null] ELSE node[a]]
    /\ todo' = Rest
    /\ UNCHANGED size

\* Without keys the root goes: the tree is empty, or the only child takes over.
ShrinkRoot ==
    /\ Called("FixUnderflow")
    /\ Callee = root
    /\ IF node[root].keys # << >> THEN UNCHANGED <<root, node>>
       ELSE /\ root' = IF node[root].leaf THEN Null ELSE node[root].children[1]
            /\ node' = [a \in DOMAIN node \ {root} |->
                           IF a = root' THEN [node[a] EXCEPT !.parent = Null] ELSE node[a]]
    /\ todo' = Rest
    /\ UNCHANGED size

EnoughKeys ==
    /\ Called("FixUnderflow")
    /\ Callee # root
    /\ Len(node[Callee].keys) >= Minimum(Callee)
    /\ todo' = Rest
    /\ UNCHANGED <<root, size, node>>

Underflow == /\ Called("FixUnderflow")
             /\ Callee # root
             /\ Len(node[Callee].keys) < Minimum(Callee)

\* Where the node that underflows stands, and its siblings there.
Parent == node[Callee].parent
Index  == ChildIndex(Parent, Callee)
LeftSibling  == IF Index > 0 THEN node[Parent].children[Index] ELSE Null
RightSibling == IF Index + 1 < Len(node[Parent].children)
                THEN node[Parent].children[Index + 2] ELSE Null

CanSpare(sibling) == sibling # Null /\ Len(node[sibling].keys) > Minimum(Callee)

\* A leaf's own first key becomes the separator; between internal nodes the
\* separator comes down and the sibling's last key goes up.
BorrowFromLeft ==
    /\ Underflow
    /\ CanSpare(LeftSibling)
    /\ LET source == node[LeftSibling]
           key    == Last(source.keys)
       IN  IF node[Callee].leaf
           THEN node' = [node EXCEPT ![Callee].keys = <<key>> \o @,
                                     ![Callee].values = <<Last(source.values)>> \o @,
                                     ![LeftSibling].keys = Front(@),
                                     ![LeftSibling].values = Front(@),
                                     ![Parent].keys[Index] = key]
           ELSE node' = [node EXCEPT ![Callee].keys = <<node[Parent].keys[Index]>> \o @,
                                     ![Callee].children = <<Last(source.children)>> \o @,
                                     ![Last(source.children)].parent = Callee,
                                     ![LeftSibling].keys = Front(@),
                                     ![LeftSibling].children = Front(@),
                                     ![Parent].keys[Index] = key]
    /\ todo' = Rest
    /\ UNCHANGED <<root, size>>

\* Mutant: the separator in the parent is not replaced.
BorrowFromRightStale ==
    /\ Underflow
    /\ ~CanSpare(LeftSibling)
    /\ CanSpare(RightSibling)
    /\ node[Callee].leaf
    /\ LET source == node[RightSibling]
       IN  node' = [node EXCEPT ![Callee].keys = Append(@, Head(source.keys)),
                                ![Callee].values = Append(@, Head(source.values)),
                                ![RightSibling].keys = Tail(@),
                                ![RightSibling].values = Tail(@)]
    /\ todo' = Rest
    /\ UNCHANGED <<root, size>>

BorrowFromRight ==
    /\ Underflow
    /\ ~CanSpare(LeftSibling)
    /\ CanSpare(RightSibling)
    /\ LET source == node[RightSibling]
           child  == Head(source.children)
       IN  IF node[Callee].leaf
           THEN node' = [node EXCEPT ![Callee].keys = Append(@, Head(source.keys)),
                                     ![Callee].values = Append(@, Head(source.values)),
                                     ![RightSibling].keys = Tail(@),
                                     ![RightSibling].values = Tail(@),
                                     ![Parent].keys[Index + 1] = source.keys[2]]
           ELSE node' = [node EXCEPT ![Callee].keys = Append(@, node[Parent].keys[Index + 1]),
                                     ![Callee].children = Append(@, child),
                                     ![child].parent = Callee,
                                     ![RightSibling].keys = Tail(@),
                                     ![RightSibling].children = Tail(@),
                                     ![Parent].keys[Index + 1] = Head(source.keys)]
    /\ todo' = Rest
    /\ UNCHANGED <<root, size>>

\* A node that is short has room for one more of what its vectors hold, but a
\* posting list is copied: the copy is refused when its key is in the leaf already.
BorrowThrows ==
    /\ Underflow
    /\ node[Callee].leaf
    /\ \/ /\ CanSpare(LeftSibling)
          /\ Throws([node EXCEPT ![Callee].keys = <<Last(node[LeftSibling].keys)>> \o @])
       \/ /\ ~CanSpare(LeftSibling)
          /\ CanSpare(RightSibling)
          /\ Throws([node EXCEPT ![Callee].keys = Append(@, Head(node[RightSibling].keys))])

\* right is folded into left, its neighbour, and deleted with the separator
\* between them, which internal nodes take down.
MergeNodes(left, right) ==
    LET l == node[left]
        r == node[right]
        rightIndex == ChildIndex(l.parent, right)
        merged == IF l.leaf
                  THEN [l EXCEPT !.keys = @ \o r.keys,
                                 !.values = @ \o r.values,
                                 !.next = r.next]
                  ELSE [l EXCEPT !.keys = @ \o <<node[l.parent].keys[rightIndex]>> \o r.keys,
                                 !.children = @ \o r.children]
        Survivor(a) ==
            CASE a = left     -> merged
              [] a = l.parent -> [node[a] EXCEPT !.keys = RemoveAt(@, rightIndex),
                                                 !.children = RemoveAt(@, rightIndex + 1)]
              [] a = r.next   -> [node[a] EXCEPT !.previous = left]
              [] a \in ToSet(r.children) -> [node[a] EXCEPT !.parent = left]
              [] OTHER -> node[a]
    IN  node' = [a \in DOMAIN node \ {right} |-> Survivor(a)]

\* Neither sibling can spare a key: the parent loses one and may underflow too.
Merge ==
    /\ Underflow
    /\ ~CanSpare(LeftSibling)
    /\ ~CanSpare(RightSibling)
    /\ IF LeftSibling # Null THEN MergeNodes(LeftSibling, Callee)
       ELSE MergeNodes(Callee, RightSibling)
    /\ todo' = <<FixUnderflowOf(Parent)>> \o Rest
    /\ UNCHANGED <<root, size>>

\* left has no room, for keys of right or, with those in it, for what goes with
\* them.  (When it is left that is short, one key finds room.)
LeavesThrow(left, right) ==
    LET moved == node[right].keys
    IN  /\ moved # << >>
        /\ \/ (left = Callee => Len(moved) > 1) /\ Throws(node)
           \/ Throws([node EXCEPT ![left].keys = @ \o moved])

\* Mutant: the children are moved before the keys that go with them.
InternalsThrowChildrenFirst(left, right) ==
    Throws([node EXCEPT ![left].children = @ \o node[right].children])

InternalsThrow(left, right) ==
    LET moved     == node[right].keys
        parent    == node[left].parent
        separator == node[parent].keys[ChildIndex(parent, right)]
    IN  \/ left # Callee /\ Throws(node)
        \/ moved # << >> /\ Throws([node EXCEPT ![left].keys = Append(@, separator)])
        \/ Throws([node EXCEPT ![left].keys = Append(@, separator) \o moved])

MergeThrows ==
    /\ Underflow
    /\ ~CanSpare(LeftSibling)
    /\ ~CanSpare(RightSibling)
    /\ LET left  == IF LeftSibling # Null THEN LeftSibling ELSE Callee
           right == IF LeftSibling # Null THEN Callee ELSE RightSibling
       IN  IF node[Callee].leaf THEN LeavesThrow(left, right) ELSE InternalsThrow(left, right)

-----------------------------------------------------------------------------
\* Bound: the list the record is added to has room after it is removed.
RoomAfter(oldKey, newKey, record) ==
    \/ Len(Search(newKey)) < MaxPostings
    \/ oldKey = newKey /\ record \in ToSet(Search(oldKey))

Update(oldKey, newKey, record) ==
    /\ Idle
    /\ ContainsKey(oldKey)
    /\ RoomAfter(oldKey, newKey, record)
    /\ RemoveThen(oldKey, record, <<InsertLater(newKey, record)>>)

UpdateInserts ==
    /\ Called("Insert")
    /\ InsertThen(Head(todo).key, Head(todo).record, Rest)

\* An insertion of the caller's throws, or the one that ends an Update.
InsertionThrows ==
    \/ Idle /\ \E k \in Keys : InsertThrows(k)
    \/ Called("Insert") /\ InsertThrows(Head(todo).key)

\* The nodes at and below address a.
Below(a) ==
    LET under[x \in {Null} \cup DOMAIN node] ==
            IF x = Null THEN {}
            ELSE {x} \cup UNION {under[c] : c \in ToSet(node[x].children)}
    IN  under[a]

\* Mutant: m_Root is not reset.
ClearKeepsRoot ==
    /\ Idle
    /\ node' = [a \in DOMAIN node \ Below(root) |-> node[a]]
    /\ size' = 0
    /\ UNCHANGED <<root, todo>>

\* DestroyTree deletes what the root reaches.
Clear ==
    /\ Idle
    /\ node' = [a \in DOMAIN node \ Below(root) |-> node[a]]
    /\ root' = Null
    /\ size' = 0
    /\ UNCHANGED todo

Next ==
    \/ \E k \in Keys, r \in Records : Insert(k, r)
    \/ \E k \in Keys, r \in Records : RemoveRecord(k, r)
    \/ \E k, l \in Keys, r \in Records : Update(k, l, r)
    \/ Clear
    \/ SplitLeaf \/ GrowRoot \/ InsertIntoParent \/ SplitInternal
    \/ ShrinkRoot \/ EnoughKeys \/ BorrowFromLeft \/ BorrowFromRight \/ Merge
    \/ UpdateInserts
    \/ InsertionThrows \/ SplitThrows \/ InsertIntoParentThrows \/ BorrowThrows \/ MergeThrows

Spec == Init /\ [][Next]_vars

-----------------------------------------------------------------------------
(* Validate, as the code computes it.                                      *)

\* The leaf below a on the left.
Leftmost(a) ==
    LET down[x \in DOMAIN node] ==
            IF node[x].leaf THEN x ELSE down[node[x].children[1]]
    IN  down[a]

\* The keys a child may hold: at least the separator on its left and below the
\* one on its right, within what its parent may hold.
Window(a, i, window) ==
    {k \in window : /\ i > 1 => node[a].keys[i - 1] <= k
                    /\ i <= Len(node[a].keys) => k < node[a].keys[i]}

\* What ValidateNode tests of one node, whose keys have to be allowed.
WellFormed(x, allowed) ==
    LET n == node[x] IN
    /\ \A i \in 2..Len(n.keys) : n.keys[i - 1] < n.keys[i]
    /\ ToSet(n.keys) \subseteq allowed
    /\ Len(n.keys) <= MaxKeys
    /\ n.leaf => /\ Len(n.keys) = Len(n.values)
                 /\ << >> \notin ToSet(n.values)
                 /\ x # root => Len(n.keys) >= MinLeafKeys
    /\ ~n.leaf => /\ Len(n.children) = Len(n.keys) + 1
                  /\ IF x = root THEN Len(n.children) >= 2
                     ELSE Len(n.keys) >= MinInternalKeys
                  /\ \A c \in ToSet(n.children) : c # Null /\ node[c].parent = x

\* The depths of the leaves under a when it is well formed, and {-1} otherwise.
ValidateNode(a, window) ==
    LET depths[at \in (DOMAIN node) \X (SUBSET window) \X Nat] ==
            LET x       == at[1]
                allowed == at[2]
                depth   == at[3]
            IN  IF ~WellFormed(x, allowed) THEN {-1}
                ELSE IF node[x].leaf THEN {depth}
                ELSE UNION {depths[<<node[x].children[i], Window(x, i, allowed), depth + 1>>] :
                                i \in DOMAIN node[x].children}
    IN  depths[<<a, window, 1>>]

ValidateLeafChain ==
    LET agree[a \in DOMAIN node] ==
            LET next == node[a].next IN
            \/ next = Null
            \/ /\ node[next].previous = a
               /\ node[a].keys # << >> /\ node[next].keys # << >>
               /\ Last(node[a].keys) < Head(node[next].keys)
               /\ agree[next]
    IN  /\ node[Leftmost(root)].previous = Null
        /\ agree[Leftmost(root)]

KeysBelow(a) == UNION {ToSet(node[x].keys) : x \in {x \in Below(a) : node[x].leaf}}

Validate ==
    IF root = Null THEN size = 0
    ELSE /\ node[root].parent = Null
         /\ LET depths == ValidateNode(root, Keys)
            IN  -1 \notin depths /\ Cardinality(depths) = 1
         /\ size = Cardinality(KeysBelow(root))
         /\ ValidateLeafChain

-----------------------------------------------------------------------------
(* Properties.                                                             *)

Calls ==
    [call : {"SplitLeaf", "SplitInternal", "FixUnderflow"}, node : DOMAIN node]
    \cup [call : {"InsertIntoParent"}, node : DOMAIN node, key : Keys, right : DOMAIN node]
    \cup [call : {"Insert"}, key : Keys, record : Records]
    \cup {Threw}

\* Types, and how many calls can be pending: one helper, and Update's insert.
TypeOK ==
    /\ root \in {Null} \cup DOMAIN node
    /\ size \in Nat
    /\ \A a \in DOMAIN node :
          /\ a \in Nat \ {Null}
          /\ node[a].leaf \in BOOLEAN
          /\ ToSet(node[a].keys) \subseteq Keys
          /\ node[a].values \in Seq(Seq(Records))
          /\ ToSet(node[a].children) \subseteq DOMAIN node
          /\ {node[a].parent, node[a].next, node[a].previous} \subseteq {Null} \cup DOMAIN node
    /\ Len(todo) <= 2
    /\ ToSet(todo) \subseteq Calls

\* What Validate tests holds whenever an operation has returned: keys in order
\* and within their separators, every node but the root filled between its
\* bounds, all leaves equally deep, parent pointers and both directions of the
\* leaf chain in agreement, m_Size the number of keys (BPlusTree.hpp:257).
ValidAtRest == Idle => Validate

\* The lists of the keys from lower to upper, one after the other.
Joined(lists, lower, upper) ==
    LET from[k \in lower..upper + 1] == IF k > upper THEN << >> ELSE lists[k] \o from[k + 1]
    IN  IF upper < lower THEN << >> ELSE from[lower]

\* A descent from the root and a walk along the leaf chain find the same: a
\* range search returns, in order, what searching for each key of the range
\* returns.
RangeAgreesWithSearch ==
    Idle => \A lower, upper \in Keys :
        RangeSearch(lower, upper) =
            Joined([k \in Int |-> IF k \in Keys THEN Search(k) ELSE << >>], lower, upper)

\* The tree owns its nodes: every node allocated and not yet deleted can be
\* reached from the root, so that merging, shrinking and Clear leak nothing.
NothingLeaks == Idle => DOMAIN node = Below(root)

\* In the middle of an operation at most one node of the tree is out of its
\* bounds, by one key, and it is the one the next call is going to repair.
OneNodeInDebt ==
    (todo # <<Threw>>) => \A a \in Below(root) :
        /\ Len(node[a].keys) > MaxKeys =>
              /\ Len(node[a].keys) = MaxKeys + 1
              /\ todo # << >> /\ Head(todo) \in {SplitLeafOf(a), SplitInternalOf(a)}
        /\ a # root /\ Len(node[a].keys) < Minimum(a) =>
              /\ Len(node[a].keys) = Minimum(a) - 1
              /\ todo # << >> /\ Head(todo) = FixUnderflowOf(a)

\* The leaves found along the next pointers, from the leftmost.
ChainedLeaves ==
    LET walk[a \in {Null} \cup DOMAIN node] ==
            IF a = Null THEN {} ELSE {a} \cup walk[node[a].next]
    IN  IF root = Null THEN {} ELSE walk[Leftmost(root)]

\* The map that the leaf chain holds.
Postings ==
    LET leaves == ChainedLeaves
    IN  [k \in UNION {ToSet(node[a].keys) : a \in leaves} |->
            LET a == CHOOSE a \in leaves : k \in ToSet(node[a].keys)
            IN  node[a].values[CHOOSE i \in DOMAIN node[a].keys : node[a].keys[i] = k]]

\* An exception has left a key without its list or a separator without its child.
Torn == \E a \in DOMAIN node :
    IF node[a].leaf THEN Len(node[a].values) < Len(node[a].keys)
    ELSE Len(node[a].children) < Len(node[a].keys) + 1

\* The map the caller has: none any more when the tree is torn.
MapPostings == IF Torn THEN << >> ELSE Postings

\* What Update has removed and not yet inserted, or how the exception left the tree.
MapPending ==
    IF Torn THEN <<"torn">>
    ELSE IF todo = <<Threw>> THEN <<"threw">>
    ELSE IF todo # << >> /\ Last(todo).call = "Insert"
    THEN <<Last(todo).key, Last(todo).record>> ELSE << >>

\* Seen through the leaf chain the tree is a map from keys to posting lists:
\* every operation of the caller is one operation of the map.  One that throws
\* leaves the map as the steps it made have left it, or a torn tree, which is no
\* map any more (BPlusTree.hpp:390).
Map == INSTANCE PostingMap WITH postings <- MapPostings, pending <- MapPending
ImplementsPostingMap == Map!Spec

\* Splitting, borrowing, merging and shrinking never show in the leaf chain, not
\* even for the length of one call: they move postings and lose or copy none,
\* also when they throw, unless the tree is torn then (BPlusTree.hpp:539).
RestructuringIsInvisible ==
    [][Idle \/ Called("Insert") \/ Torn' \/ UNCHANGED Postings]_vars

\* Even after an exception that has left a split or a merge half done, a scan from
\* the smallest key is exact unless the tree is torn: a half that no parent knows
\* yet is reached from its left neighbour.  (From a key of that half it would
\* start one leaf early.)
ScanIsExact ==
    Idle \/ (todo = <<Threw>> /\ ~Torn) =>
        \A lower, upper \in Keys :
            (\A k \in Keys : lower <= k) =>
                RangeSearch(lower, upper) =
                    Joined([k \in Int |-> IF k \in DOMAIN Postings THEN Postings[k] ELSE << >>],
                           lower, upper)

\* No node is under two parents or twice under one, not even in a tree that an
\* exception has torn: DestroyTree deletes no node twice (BPlusTree.hpp:668).
DeletedOnce ==
    \A a, b \in DOMAIN node :
        \A i \in DOMAIN node[a].children, j \in DOMAIN node[b].children :
            /\ node[a].children[i] = node[b].children[j] => a = b /\ i = j
            /\ node[a].children[i] # root
=============================================================================
