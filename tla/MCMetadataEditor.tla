-------------------------- MODULE MCMetadataEditor --------------------------
(* Small instances of the metadata editor for TLC. *)
EXTENDS MetadataEditorRegister, TLC

CONSTANTS i1, i2, e1, o1, t1, t2

\* The deployed file: written by hand, organized, with nothing edited yet.
MCInitial ==
    {[form |-> "hand", doc |-> [i \in Ids |-> [edit |-> None,
        org |-> IF i = i1 THEN o1 ELSE None]]]}

\* A hand edit that also gives i1 the edit a form could have given it.
MCOperator ==
    {[form |-> "hand", doc |-> [i \in Ids |-> [edit |-> e1, org |-> None]]]}

\* Both hosts shown; and every way to show, hide and retarget them.
MCShown == {[i \in Ids |-> t1]}
MCCatalogs == [Ids -> Targets \cup {None}]

Symmetry == Permutations(Procs) \cup Permutations(Clients) \cup Permutations(Keys)
=============================================================================
