------------------------------- MODULE WordSet ------------------------------
(* What the Parser and the Engine take the BSTree for: a set of words.       *)
CONSTANT Vocabulary
VARIABLE words

AddWord(w)    == words' = words \cup {w}
RemoveWord(w) == words' = words \ {w}
EmptySet      == words' = {}

WordSetSpec == /\ words = {}
               /\ [][(\E w \in Vocabulary : AddWord(w) \/ RemoveWord(w)) \/ EmptySet]_words
=============================================================================
