---------------------------- MODULE ProposalFile -----------------------------
(***************************************************************************)
(* Creating the proposal file: writeHostnameSuggestionProposal.  Several   *)
(* commands may be given one output path, and an operator may come between *)
(* any two steps.                                                          *)
(*                                                                         *)
(* A file is named by the command that wrote it.  Temporary names are      *)
(* unique and read by nobody, so they are left out.                        *)
(***************************************************************************)
EXTENDS FiniteSets

CONSTANTS
    Commands,  \* runs of the command
    Nobody,    \* no file
    Foreign    \* any file of the operator's

ASSUME ProposalFileAssumption == {Nobody, Foreign} \cap Commands = {} /\ Nobody # Foreign

VARIABLES
    output,    \* the file at the output path
    durable,   \* what a power loss may leave there
    active,    \* the output path is that of the active metadata file
    at,        \* where each command is
    content,   \* what is in each command's file
    synced,    \* whether that is on disk
    taken      \* history: commands whose file the operator removed or replaced

fileVars == <<output, durable, active, at, content, synced, taken>>
onDisk == <<content, synced>>

Working == {"inspect", "create", "write", "sync", "link", "unlink", "syncdir", "undo"}

Moves(c, s) == at' = [at EXCEPT ![c] = s]
Names(f) == output' = f /\ durable' = durable \cup {f}

-----------------------------------------------------------------------------

Begin(c) ==
    /\ at[c] = "ready"
    /\ Moves(c, "inspect")
    /\ UNCHANGED <<output, durable, active, onDisk, taken>>

\* Both paths are compared with the symbolic links of their directories resolved.
Inspect(c) ==
    /\ at[c] = "inspect"
    /\ Moves(c, IF active \/ output # Nobody THEN "refused" ELSE "create")
    /\ UNCHANGED <<output, durable, active, onDisk, taken>>

CreateTemp(c) ==
    /\ at[c] = "create"
    /\ Moves(c, "write")
    /\ content' = [content EXCEPT ![c] = "empty"]
    /\ UNCHANGED <<output, durable, active, synced, taken>>

WriteTemp(c) ==
    /\ at[c] = "write"
    /\ Moves(c, "sync")
    /\ content' = [content EXCEPT ![c] = "whole"]
    /\ UNCHANGED <<output, durable, active, synced, taken>>

\* Wrong: not written through.
FaultySyncTemp(c) ==
    /\ at[c] = "sync"
    /\ Moves(c, "link")
    /\ UNCHANGED <<output, durable, active, content, synced, taken>>

\* Sync and Close.
SyncTemp(c) ==
    /\ at[c] = "sync"
    /\ Moves(c, "link")
    /\ synced' = [synced EXCEPT ![c] = TRUE]
    /\ UNCHANGED <<output, durable, active, content, taken>>

\* Wrong: a rename, which replaces what is there.
FaultyLink(c) ==
    /\ at[c] = "link"
    /\ Names(c) /\ Moves(c, "unlink")
    /\ UNCHANGED <<active, onDisk, taken>>

\* A link is never made over a file.
Link(c) ==
    /\ at[c] = "link"
    /\ IF output = Nobody THEN Names(c) /\ Moves(c, "unlink")
       ELSE Moves(c, "refused") /\ UNCHANGED <<output, durable>>
    /\ UNCHANGED <<active, onDisk, taken>>

Unlink(c) ==
    /\ at[c] = "unlink"
    /\ Moves(c, "syncdir")
    /\ UNCHANGED <<output, durable, active, onDisk, taken>>

\* The directory is opened, synced and closed.
SyncDirectory(c) ==
    /\ at[c] = "syncdir"
    /\ durable' = {output}
    /\ Moves(c, "created")
    /\ UNCHANGED <<output, active, onDisk, taken>>

\* Any of the calls may fail; once there is a link, it is to go.  The
\* directory may have reached the disk before the call that fails.
Fails(c) ==
    /\ at[c] \in Working \ {"undo"}
    /\ IF at[c] \in {"unlink", "syncdir"} THEN Moves(c, "undo") ELSE Moves(c, "refused")
    /\ durable' \in {durable} \cup (IF at[c] = "syncdir" THEN {{output}} ELSE {})
    /\ UNCHANGED <<output, active, onDisk, taken>>

\* The output path is removed, whatever it names by now; or that fails too.
Undo(c) ==
    /\ at[c] = "undo"
    /\ Names(Nobody) \/ UNCHANGED <<output, durable>>
    /\ Moves(c, "refused")
    /\ UNCHANGED <<active, onDisk, taken>>

\* The operator puts a file there, replaces one or moves one away.
OperatorActs(f) ==
    /\ f \in {Nobody, Foreign} \ {output}
    /\ Names(f)
    /\ taken' = taken \cup ({output} \cap Commands)
    /\ UNCHANGED <<active, at, onDisk>>

Flush ==
    /\ durable # {output}
    /\ durable' = {output}
    /\ UNCHANGED <<output, active, at, onDisk, taken>>

\* What was not synced may be lost or torn.
PowerLoss ==
    /\ \E f \in durable : output' = f /\ durable' = {f}
    /\ content' \in [Commands -> {"empty", "torn", "whole"}]
    /\ \A c \in Commands :
        IF synced[c] THEN content'[c] = content[c] ELSE content'[c] = "empty" \/ content[c] = "whole"
    /\ synced' = [c \in Commands |-> TRUE]
    /\ at' = [c \in Commands |-> IF at[c] \in Working THEN "lost" ELSE at[c]]
    /\ UNCHANGED <<active, taken>>

ProposalFileInit ==
    /\ output \in {Nobody, Foreign} /\ durable = {output}
    /\ active \in BOOLEAN
    /\ at = [c \in Commands |-> "ready"]
    /\ content = [c \in Commands |-> "empty"]
    /\ synced = [c \in Commands |-> FALSE]
    /\ taken = {}

CommandStep(c) ==
    \/ Begin(c) \/ Inspect(c) \/ CreateTemp(c) \/ WriteTemp(c) \/ SyncTemp(c) \/ Link(c)
    \/ Unlink(c) \/ SyncDirectory(c) \/ Fails(c) \/ Undo(c)

SurroundingStep == Flush \/ PowerLoss \/ \E f \in {Nobody, Foreign} : OperatorActs(f)

FileStep == SurroundingStep \/ \E c \in Commands : CommandStep(c)
FileSpec == ProposalFileInit /\ [][FileStep]_fileVars

-----------------------------------------------------------------------------

\* A command's file at the path is whole, reported or not, after a power loss
\* too.  Once it is reported created it stays there over any power loss, while
\* other commands try the same path, fail at any step and clean up; unless the
\* operator takes files away meanwhile (writeHostnameSuggestionProposal).
CreatedProposalStays ==
    /\ \A c \in (durable \cup {output}) \cap Commands : content[c] = "whole" /\ synced[c]
    /\ taken = {} => \A c \in Commands : at[c] = "created" => durable = {c}

\* A command replaces nothing, never puts a file where the active metadata
\* belongs, and removes no file but its own; only once the operator took a
\* command's file away may a removal hit another one
\* (the two checks before the temporary file, Link, and the removals after it).
OthersFilesStay ==
    [][\A c \in Commands : at'[c] # at[c] /\ at'[c] # "lost" /\ output' # output =>
        IF output' = c THEN output = Nobody /\ ~active
        ELSE output' = Nobody /\ (output = c \/ taken # {})]_fileVars
=============================================================================
