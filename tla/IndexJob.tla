------------------------------ MODULE IndexJob ------------------------------
(***************************************************************************)
(* What a cold boot promises the Kernal, as if one thread did it: every    *)
(* token of the corpus is indexed exactly once, then the verdict is given, *)
(* a value or, when there was nothing to index, an exception.  Only a      *)
(* cancelled job may drop tokens or give its verdict early.                *)
(***************************************************************************)
EXTENDS Naturals

CONSTANT Total       \* the tokens of the corpus

VARIABLES outstanding, indexed, verdict, cancelled

jobVars == <<outstanding, indexed, verdict, cancelled>>

JobInit == /\ outstanding = Total
           /\ indexed = 0
           /\ verdict = "unset"
           /\ cancelled = FALSE

IndexOne == /\ verdict = "unset" /\ outstanding > 0
            /\ outstanding' = outstanding - 1
            /\ indexed' = indexed + 1
            /\ UNCHANGED <<verdict, cancelled>>

Decide == /\ verdict = "unset"
          /\ outstanding = 0 \/ cancelled
          /\ verdict' = IF indexed = 0 THEN "exception" ELSE "value"
          /\ UNCHANGED <<outstanding, indexed, cancelled>>

CancelJob == /\ ~cancelled /\ cancelled' = TRUE
             /\ UNCHANGED <<outstanding, indexed, verdict>>

DropTokens == /\ cancelled
              /\ outstanding' \in 0 .. outstanding - 1
              /\ UNCHANGED <<indexed, verdict, cancelled>>

JobNext == IndexOne \/ Decide \/ CancelJob \/ DropTokens

JobSpec == JobInit /\ [][JobNext]_jobVars
=============================================================================
