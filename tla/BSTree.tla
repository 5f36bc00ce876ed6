------------------------------- MODULE BSTree -------------------------------
(***************************************************************************)
(* bstree.hpp: the binary search tree the Parser fills and the Engine      *)
(* searches, on an explicit heap.  A reference to a pointer (TreeNode*&)   *)
(* is the place the pointer is stored in: the root, or one side of a node. *)
(* Strings are compared only, so a word is a number here.                  *)
(***************************************************************************)
EXTENDS Integers, FiniteSets

CONSTANT Values
ASSUME ValuesAssumption == Values \subseteq Int

VARIABLES root, node      \* the root pointer; address -> [value, left, right]

treeVars == <<root, node>>

Null == 0
RootRef == <<Null, "root">>
Refs == {RootRef} \cup ((DOMAIN node) \X {"left", "right"})

\* The pointer stored at a reference, and the tree with p stored there.
At(ref) == IF ref = RootRef THEN root
           ELSE IF ref[2] = "left" THEN node[ref[1]].left ELSE node[ref[1]].right
PointAt(ref, p, heap) ==
    IF ref = RootRef
      THEN root' = p /\ node' = heap
      ELSE /\ root' = root
           /\ node' = IF ref[2] = "left" THEN [heap EXCEPT ![ref[1]].left = p]
                                         ELSE [heap EXCEPT ![ref[1]].right = p]

\* The descent of recurseInsertion, recurseSearch and getNodeRef: to the node with the
\* value, or to the null pointer where it would be.
GetNodeRef(value) ==
    LET descend[ref \in Refs] ==
          LET a == At(ref) IN
          IF a = Null THEN ref
          ELSE IF node[a].value = value THEN ref
          ELSE descend[<<a, IF value < node[a].value THEN "left" ELSE "right">>]
    IN descend[RootRef]

FindMin(from) ==
    LET descend[ref \in {ref \in Refs : At(ref) # Null}] ==
          IF node[At(ref)].left = Null THEN ref ELSE descend[<<At(ref), "left">>]
    IN descend[from]

Search(value) == At(GetNodeRef(value)) # Null

\* The nodes below a pointer, it included: what clear deletes.
Below(pointer) ==
    LET under[a \in {Null} \cup DOMAIN node] ==
          IF a = Null THEN {} ELSE {a} \cup under[node[a].left] \cup under[node[a].right]
    IN under[pointer]

-----------------------------------------------------------------------------
TreeInit == root = Null /\ node = [a \in {} |-> Null]

Fresh == CHOOSE a \in 1..Cardinality(DOMAIN node) + 1 : a \notin DOMAIN node
Without(a) == [b \in DOMAIN node \ {a} |-> node[b]]

Insert(value) ==
    LET ref == GetNodeRef(value) IN
    IF At(ref) # Null THEN UNCHANGED treeVars
    ELSE PointAt(ref, Fresh, [a \in DOMAIN node \cup {Fresh} |->
                                IF a = Fresh THEN [value |-> value, left |-> Null, right |-> Null]
                                             ELSE node[a]])

\* Mutant: the successor's right child is dropped with the successor.
RemoveTwoChildrenShort(target) ==
    LET successor == FindMin(<<At(target), "right">>)
        s == At(successor)
        heap == [Without(s) EXCEPT ![At(target)].value = node[s].value] IN
    PointAt(successor, Null, heap)

\* The value of the least node on the right moves up, and that node goes.
RemoveTwoChildren(target) ==
    LET successor == FindMin(<<At(target), "right">>)
        s == At(successor)
        heap == [Without(s) EXCEPT ![At(target)].value = node[s].value] IN
    PointAt(successor, node[s].right, heap)

\* Mutant: a node with a single child is unlinked but not deleted.
RemoveNoDelete(value) ==
    LET target == GetNodeRef(value)
        a == At(target) IN
    IF a = Null THEN UNCHANGED treeVars
    ELSE IF node[a].left # Null /\ node[a].right # Null THEN RemoveTwoChildren(target)
    ELSE PointAt(target, IF node[a].left = Null THEN node[a].right ELSE node[a].left, node)

\* recurseRemove: a leaf, one child on either side, or two children.
Remove(value) ==
    LET target == GetNodeRef(value)
        a == At(target) IN
    IF a = Null THEN UNCHANGED treeVars
    ELSE IF node[a].left # Null /\ node[a].right # Null THEN RemoveTwoChildren(target)
    ELSE PointAt(target, IF node[a].left = Null THEN node[a].right ELSE node[a].left, Without(a))

\* The destructor, and a new tree.
Destroy == /\ node' = [a \in DOMAIN node \ Below(root) |-> node[a]]
           /\ root' = Null

TreeNext == (\E value \in Values : Insert(value) \/ Remove(value)) \/ Destroy

-----------------------------------------------------------------------------
\* Over any history of calls: every node allocated and not deleted is reached from the
\* root, by one pointer, and a walk in order meets the values in ascending order.
TreeIsSound ==
    /\ Below(root) = DOMAIN node
    /\ \A r, s \in Refs : At(r) = At(s) /\ At(r) # Null => r = s
    /\ \A a \in DOMAIN node :
         /\ \A b \in Below(node[a].left)  : node[b].value < node[a].value
         /\ \A b \in Below(node[a].right) : node[b].value > node[a].value

\* What search finds is the set of the values inserted and not removed since.
AsSet == INSTANCE WordSet WITH Vocabulary <- Values,
                               words <- {value \in Values : Search(value)}
ImplementsWordSet == AsSet!WordSetSpec
=============================================================================
