------------------------------ MODULE MCKernal ------------------------------
(***************************************************************************)
(* Small corpora for TLC.  "The" is a stop word once cleaned, "--" cleans  *)
(* to nothing, one line of "a" and of "c" is empty, "sub" is a directory   *)
(* and fopen refuses "locked".                                            *)
(***************************************************************************)
EXTENDS IndexingJob

MCWords   == {"The", "cat", "Dog.", "--"}
MCCleaned == [w \in MCWords |-> CASE w = "The"  -> "the"
                                  [] w = "cat"  -> "cat"
                                  [] w = "Dog." -> "dog"
                                  [] w = "--"   -> ""]
MCStopWords == {"the"}

MCCorpus == [entry \in Entries |->
               CASE entry = "a" -> << <<"The", "cat", "Dog.">>, <<>> >>
                 [] entry = "b" -> << <<"cat", "--">> >>
                 [] entry = "c" -> << <<>>, <<"Dog.">> >>
                 [] entry = "blank" -> << <<"--">> >>
                 [] OTHER -> << >>]
=============================================================================
