------------------------------ MODULE PagePool ------------------------------
(***************************************************************************)
(* What a page store promises its callers: a page handed out is clean and  *)
(* nobody else's, and it holds what its owner wrote last, over restarts    *)
(* too.  Once the promise is given up, anything may happen.                *)
(***************************************************************************)
CONSTANTS Pages,      \* the pages callers may own
          Clean       \* what a page holds when it is handed out

VARIABLES contents,   \* the pages in use, each with what it holds
          givenUp     \* whether the promise still stands

poolVars == <<contents, givenUp>>

InUse == DOMAIN contents

PoolInit == InUse \subseteq Pages /\ givenUp = FALSE

Take(p) == /\ p \in Pages \ InUse
           /\ contents' = [q \in InUse \cup {p} |-> IF q = p THEN Clean ELSE contents[q]]

Return(p) == contents' = [q \in InUse \ {p} |-> contents[q]]

Store(p) == /\ DOMAIN contents' = InUse
            /\ \A q \in InUse \ {p} : contents'[q] = contents[q]

GiveUp == givenUp' = TRUE

PoolNext == \/ /\ \/ \E p \in Pages : Take(p)
                  \/ \E p \in InUse : Return(p) \/ Store(p)
               /\ UNCHANGED givenUp
            \/ GiveUp

PoolSpec == PoolInit /\ [][PoolNext]_poolVars
=============================================================================
