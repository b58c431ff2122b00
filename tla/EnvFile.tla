------------------------------- MODULE EnvFile -------------------------------
(***************************************************************************)
(* The environment file and the commands that replace it (envfile.go,      *)
(* setup.go, setup_service_editor.go and the end of proxy_observer.go).    *)
(*                                                                         *)
(* A file is what it sets: two texts with the same settings are one, and   *)
(* what else the wizard asks for goes with the provider.  An operator      *)
(* edits it by hand, honouring no lock.  The rename is not followed by a   *)
(* sync of the directory, so after a power loss the path may name any file *)
(* since the directory last reached the disk.                              *)
(***************************************************************************)
EXTENDS Naturals

CONSTANTS
    Wizards,    \* processes of `setup`
    Editors,    \* processes of `setup service-editor`
    Observer,   \* the process of `setup observe-proxy`
    Sources,    \* exact CIDRs of proxies
    Lists,      \* values of PORTAL_EDITORS and PORTAL_PUBLIC_ORIGIN
    Notes,      \* values of the keys no command sets
    None, Absent, Broken, Torn,
    Files,      \* what the path may name at first
    MaxStarts,  \* bound: commands started
    MaxEdits    \* bound: edits by hand

Commands == Wizards \cup Editors \cup {Observer}
Families == {"headscale", "tailscale"}

\* families: whose credentials the file holds.
Settings == [provider : Families \cup {None}, families : SUBSET Families,
             trusted : Sources \cup {None}, editors : Lists \cup {None}, other : Notes \cup {None}]
NoSettings == [provider |-> None, families |-> {}, trusted |-> None, editors |-> None, other |-> None]
\* A file that does not parse is Broken, one whose bytes are lost in part is Torn.
Contents == Settings \cup {Absent, Broken, Torn}

ASSUME EnvFileAssumption ==
    /\ Wizards \cap Editors = {} /\ Observer \notin Wizards \cup Editors
    /\ None \notin Families \cup Sources \cup Lists \cup Notes
    /\ None \notin Commands
    /\ {Absent, Broken, Torn} \cap Settings = {}
    /\ Absent # Broken /\ Torn \notin {Absent, Broken}
    /\ Files \subseteq Contents \ {Torn}
    /\ MaxStarts \in Nat /\ MaxEdits \in Nat

VARIABLES
    file,      \* what the path names
    durable,   \* what it may name after a power loss
    lock,      \* who holds the lock of the directory
    stage,     \* what each command does next
    snapshot,  \* envFileSnapshot of each
    values,    \* the settings each has read and edited
    synced,    \* whether a temporary file is on the disk
    starts, edits

envVars == <<file, durable, lock, stage, snapshot, values, synced, starts, edits>>

-----------------------------------------------------------------------------
(* What each command makes of the settings. *)

\* A provider that is not named is told from the credentials.
ExistingProvider(v) ==
    IF v.provider # None THEN v.provider
    ELSE IF "headscale" \in v.families THEN "headscale"
    ELSE IF "tailscale" \in v.families THEN "tailscale" ELSE None

\* Switching removes the credentials of the other provider.
WizardEdits(v) ==
    {[v EXCEPT !.provider = p,
               !.families = (IF ExistingProvider(v) \in {p, None} THEN @ ELSE {}) \cup {p}] :
        p \in Families}

\* With --disable both keys go.
EditorEdits(v) == {[v EXCEPT !.editors = e] : e \in Lists \cup {None}}

ObserverEdits(v, source) == {[v EXCEPT !.trusted = source]}

Edits(c, v, source) ==
    CASE c \in Wizards -> WizardEdits(v)
      [] c \in Editors -> EditorEdits(v)
      [] OTHER         -> ObserverEdits(v, source)

-----------------------------------------------------------------------------
(* The commands. *)

Goto(c, s) == stage' = [stage EXCEPT ![c] = s]

\* The observer looks for the file first and locks it only at the end.
Start(c) ==
    /\ stage[c] = "idle" /\ starts < MaxStarts
    /\ c = Observer => file # Absent
    /\ starts' = starts + 1
    /\ Goto(c, IF c = Observer THEN "observe" ELSE "lock")
    /\ UNCHANGED <<file, durable, lock, snapshot, values, synced, edits>>

\* flock with LOCK_NB: a command that finds it held leaves.
Lock(c) ==
    /\ stage[c] = "lock" /\ lock = None
    /\ lock' = c
    /\ Goto(c, "capture")
    /\ UNCHANGED <<file, durable, snapshot, values, synced, starts, edits>>

Capture(c) ==
    /\ stage[c] = "capture"
    /\ snapshot' = [snapshot EXCEPT ![c] = file]
    /\ Goto(c, "read")
    /\ UNCHANGED <<file, durable, lock, values, synced, starts, edits>>

\* Wrong: a file that does not parse is gone on with.
FaultyRead(c) ==
    /\ stage[c] = "read" /\ file # Absent
    /\ values' = [values EXCEPT ![c] = file]
    /\ Goto(c, "edit")
    /\ UNCHANGED <<file, durable, lock, snapshot, synced, starts, edits>>

\* A second read of the file; only the wizard starts from nothing.
Read(c) ==
    /\ stage[c] = "read"
    /\ \/ file \in Settings
          /\ values' = [values EXCEPT ![c] = file]
          /\ Goto(c, "edit")
       \/ file = Absent /\ c \in Wizards
          /\ values' = [values EXCEPT ![c] = NoSettings]
          /\ Goto(c, "edit")
       \/ file \notin Settings /\ ~(file = Absent /\ c \in Wizards)
          /\ Goto(c, "close")
          /\ UNCHANGED values
    /\ UNCHANGED <<file, durable, lock, snapshot, synced, starts, edits>>

Edit(c, source) ==
    /\ stage[c] = "edit"
    /\ \E v \in Edits(c, values[c], source) : values' = [values EXCEPT ![c] = v]
    /\ Goto(c, "write")
    /\ UNCHANGED <<file, durable, lock, snapshot, synced, starts, edits>>

WriteTemp(c) ==
    /\ stage[c] = "write"
    /\ synced' = [synced EXCEPT ![c] = FALSE]
    /\ Goto(c, "sync")
    /\ UNCHANGED <<file, durable, lock, snapshot, values, starts, edits>>

\* Wrong: the temporary file is left to the kernel.
HastySync(c) ==
    /\ stage[c] = "sync"
    /\ Goto(c, "compare")
    /\ UNCHANGED <<file, durable, lock, snapshot, values, synced, starts, edits>>

SyncTemp(c) ==
    /\ stage[c] = "sync"
    /\ synced' = [synced EXCEPT ![c] = TRUE]
    /\ Goto(c, "compare")
    /\ UNCHANGED <<file, durable, lock, snapshot, values, starts, edits>>

\* Wrong: only the existence of the file is compared.
FaultyCompare(c) ==
    /\ stage[c] = "compare"
    /\ Goto(c, IF (file = Absent) = (snapshot[c] = Absent) THEN "rename" ELSE "close")
    /\ UNCHANGED <<file, durable, lock, snapshot, values, synced, starts, edits>>

Compare(c) ==
    /\ stage[c] = "compare"
    /\ Goto(c, IF file = snapshot[c] THEN "rename" ELSE "close")
    /\ UNCHANGED <<file, durable, lock, snapshot, values, synced, starts, edits>>

Rename(c) ==
    /\ stage[c] = "rename"
    /\ file' = values[c]
    /\ durable' = durable \cup {IF synced[c] THEN values[c] ELSE Torn}
    /\ Goto(c, "close")
    /\ UNCHANGED <<lock, snapshot, values, synced, starts, edits>>

\* An answer the wizard refuses, end of input, or a failing call.
Fails(c) ==
    /\ stage[c] \in {"capture", "read", "edit", "write", "sync", "compare", "rename"}
    /\ Goto(c, "close")
    /\ UNCHANGED <<file, durable, lock, snapshot, values, synced, starts, edits>>

\* However the process ends, the lock goes with it.
Exit(c) ==
    /\ stage[c] # "idle"
    /\ Goto(c, "idle")
    /\ lock' = IF lock = c THEN None ELSE lock
    /\ snapshot' = [snapshot EXCEPT ![c] = Absent]
    /\ values' = [values EXCEPT ![c] = NoSettings]
    /\ synced' = [synced EXCEPT ![c] = FALSE]
    /\ UNCHANGED <<file, durable, starts, edits>>

-----------------------------------------------------------------------------
(* The surroundings. *)

HandEdit ==
    /\ edits < MaxEdits
    /\ edits' = edits + 1
    /\ file' \in (IF file \in Settings
                  THEN {[file EXCEPT !.other = n] : n \in Notes} \cup {[file EXCEPT !.trusted = None]}
                  ELSE {[NoSettings EXCEPT !.other = n] : n \in Notes})
                 \cup {Broken}
    /\ file' # file
    /\ durable' = durable \cup {file'}
    /\ UNCHANGED <<lock, stage, snapshot, values, synced, starts>>

\* The directory reaches the disk at some time.
Flush ==
    /\ durable # {file}
    /\ durable' = {file}
    /\ UNCHANGED <<file, lock, stage, snapshot, values, synced, starts, edits>>

PowerLoss ==
    /\ file' \in durable
    /\ durable' = {file'}
    /\ lock' = None
    /\ stage' = [c \in Commands |-> "idle"]
    /\ snapshot' = [c \in Commands |-> Absent]
    /\ values' = [c \in Commands |-> NoSettings]
    /\ synced' = [c \in Commands |-> FALSE]
    /\ UNCHANGED <<starts, edits>>

EnvInit ==
    /\ file \in Files
    /\ durable = {file}
    /\ lock = None
    /\ stage = [c \in Commands |-> "idle"]
    /\ snapshot = [c \in Commands |-> Absent]
    /\ values = [c \in Commands |-> NoSettings]
    /\ synced = [c \in Commands |-> FALSE]
    /\ starts = 0
    /\ edits = 0
=============================================================================
