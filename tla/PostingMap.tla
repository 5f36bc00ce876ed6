----------------------------- MODULE PostingMap -----------------------------
(***************************************************************************)
(* What a BPlusTree promises its caller: an ordered map from keys to the   *)
(* list of the records posted under each key.  A key is in the map exactly *)
(* while its list is not empty.  Update is a Remove and then an Insert, in *)
(* two steps: between them the record is under neither key.  A call that   *)
(* runs out of memory ends the promise: before or after it has changed the *)
(* map (an Update may have lost the record), or with the map torn apart.   *)
(***************************************************************************)
EXTENDS Sequences, SequencesExt, Functions

CONSTANTS Keys, Records

VARIABLES
    postings,  \* the lists, a function whose domain is the keys present
    pending    \* << >>, the << key, record >> an Update has still to insert, or
               \* << "threw" >> or << "torn" >> once memory has run out

vars == <<postings, pending>>

ListOf(k) == IF k \in DOMAIN postings THEN postings[k] ELSE << >>

TypeOK ==
    /\ DOMAIN postings \subseteq Keys
    /\ \A k \in DOMAIN postings : postings[k] \in Seq(Records) \ {<< >>}
    /\ pending \in {<< >>, <<"threw">>, <<"torn">>} \cup (Keys \X Records)

Init == /\ postings = << >>
        /\ pending = << >>

\* f with k given the value v, whether or not k was in its domain.
Assigned(f, k, v) == [x \in DOMAIN f \cup {k} |-> IF x = k THEN v ELSE f[x]]

Put(k, r) == postings' = Assigned(postings, k, Append(ListOf(k), r))

Drop(k, r) ==
    LET kept == RemoveFirst(ListOf(k), r)
    IN  postings' = IF kept = << >> THEN Restrict(postings, DOMAIN postings \ {k})
                    ELSE Assigned(postings, k, kept)

Insert(k, r) == pending = << >> /\ UNCHANGED pending /\ Put(k, r)

RemoveRecord(k, r) == pending = << >> /\ UNCHANGED pending /\ Drop(k, r)

\* Update tests that the old key is present, not that the record is under it.
Update(old, new, r) ==
    /\ pending = << >>
    /\ old \in DOMAIN postings
    /\ pending' = <<new, r>>
    /\ Drop(old, r)

FinishUpdate ==
    /\ pending \in Keys \X Records
    /\ Put(pending[1], pending[2])
    /\ pending' = << >>

Throw == /\ pending \in {<< >>} \cup (Keys \X Records)
         /\ pending' = <<"threw">>
         /\ UNCHANGED postings

Tear == /\ pending \in {<< >>} \cup (Keys \X Records)
        /\ pending' = <<"torn">>
        /\ postings' = << >>

Clear == pending = << >> /\ postings' = << >> /\ UNCHANGED pending

Next == \/ \E k \in Keys, r \in Records : RemoveRecord(k, r)
        \/ \E k \in Keys, r \in Records : Insert(k, r)
        \/ \E old, new \in Keys, r \in Records : Update(old, new, r)
        \/ FinishUpdate
        \/ Clear \/ Throw \/ Tear

Spec == Init /\ [][Next]_vars
=============================================================================
