----------------------- MODULE MetadataEditorRegister -----------------------
(***************************************************************************)
(* The editor implements the register when the operator edits offline: a   *)
(* save takes effect at Renameat and is confirmed by the directory sync.   *)
(***************************************************************************)
EXTENDS MetadataEditor

\* One entry's name, url and icon differ; the rest of the document is kept.
EntryEdits ==
    {vw \in Bytes \X Bytes :
        /\ vw[2].form = "v3"
        /\ \E id \in Ids : \A i \in Ids :
              /\ vw[2].doc[i].org = vw[1].doc[i].org
              /\ i # id => vw[2].doc[i] = vw[1].doc[i]}

Undecided == {c \in Clients : stage[c] = "renamed"}

Register == INSTANCE MetadataRegister WITH
    Users     <- Clients,
    Values    <- Bytes,
    EditPairs <- EntryEdits,
    Unread    <- None,
    value     <- file.bytes,
    possible  <- {e.bytes : e \in durable} \cup
                 (IF \A e \in durable : e.synced THEN {} ELSE {Torn}),
    seen      <- [c \in Clients |-> IF form[c] = None THEN None ELSE form[c].seen],
    saver     <- IF Undecided = {} THEN None ELSE CHOOSE c \in Undecided : TRUE

\* Every behaviour of the editor is one of the register: forms show settled
\* documents, saves are compare-and-swaps of one entry, and "saved" is said
\* only of what no crash can take back.
ImplementsRegister == Register!Spec
=============================================================================
