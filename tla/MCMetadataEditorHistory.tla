----------------------- MODULE MCMetadataEditorHistory ----------------------
(* Small instances of the metadata editor with history for TLC. *)
EXTENDS MetadataEditorHistory, TLC

CONSTANTS i1, i2, e1, o1, t1, t2

MCInitial ==
    {[form |-> "hand", doc |-> [i \in Ids |-> [edit |-> None,
        org |-> IF i = i1 THEN o1 ELSE None]]]}
MCOperator ==
    {[form |-> "hand", doc |-> [i \in Ids |-> [edit |-> e1, org |-> None]]]}
MCShown == {[i \in Ids |-> t1]}
MCCatalogs == [Ids -> Targets \cup {None}]

Symmetry == Permutations(Procs) \cup Permutations(Clients) \cup Permutations(Keys)
=============================================================================
