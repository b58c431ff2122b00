-------------------------------- MODULE Setup --------------------------------
(***************************************************************************)
(* The setup commands on one environment file: wizards, editors' settings  *)
(* and the proxy observer, which goes on to write what it observed.  Any   *)
(* of them may be killed, and the machine may lose power.                  *)
(***************************************************************************)
EXTENDS EnvFile, ProxyObserver

VARIABLE disturbed  \* history: an edit by hand the holder cannot notice

vars == <<envVars, observerVars, disturbed>>

ASSUME SetupAssumption ==
    /\ \A r \in Requests : Source[r] \in Sources
    /\ {"none", "failed"} \cap (Sources \cup {None}) = {}

-----------------------------------------------------------------------------

Starts(c) ==
    /\ Start(c)
    /\ IF c = Observer THEN Listen ELSE UNCHANGED observerVars
    /\ UNCHANGED disturbed

Observes ==
    /\ stage[Observer] # "idle"
    /\ ObserverStep
    /\ UNCHANGED <<envVars, disturbed>>

\* The operator says yes to the source shown.
Confirm ==
    /\ stage[Observer] = "observe" /\ phase = "ended" /\ outcome # "failed"
    /\ Goto(Observer, "lock")
    /\ UNCHANGED <<file, durable, lock, snapshot, values, synced, starts, edits>>
    /\ UNCHANGED <<observerVars, disturbed>>

Locks(c) ==
    /\ Lock(c)
    /\ disturbed' = FALSE
    /\ UNCHANGED observerVars

Updates(c) ==
    /\ \/ Capture(c) \/ Read(c) \/ Edit(c, outcome)
       \/ WriteTemp(c) \/ SyncTemp(c) \/ Compare(c) \/ Rename(c)
       \/ Fails(c)
    /\ UNCHANGED <<observerVars, disturbed>>

\* A return, or a kill at any moment; the observation goes with its process.
Leaves(c) ==
    /\ Exit(c)
    /\ IF c = Observer THEN Gone ELSE UNCHANGED observerVars
    /\ UNCHANGED disturbed

LosesPower == PowerLoss /\ Gone /\ UNCHANGED disturbed

\* The snapshot and the settings are two reads, the comparison and the rename
\* two steps.
EditsByHand ==
    /\ HandEdit
    /\ disturbed' = (disturbed \/ \E c \in Commands : stage[c] \in {"read", "rename"})
    /\ UNCHANGED observerVars

Flushes == Flush /\ UNCHANGED <<observerVars, disturbed>>

Init == EnvInit /\ ObserverInit /\ disturbed = FALSE

Next ==
    \/ \E c \in Commands : Starts(c) \/ Locks(c) \/ Updates(c) \/ Leaves(c)
    \/ Observes \/ Confirm
    \/ EditsByHand \/ Flushes \/ LosesPower

Spec == Init /\ [][Next]_vars

-----------------------------------------------------------------------------

\* Every variable has its type.
TypeOK ==
    /\ file \in Contents /\ durable \subseteq Contents /\ durable # {}
    /\ lock \in Commands \cup {None}
    /\ stage \in [Commands -> {"idle", "observe", "lock", "capture", "read", "edit", "write",
                               "sync", "compare", "rename", "close"}]
    /\ snapshot \in [Commands -> Contents]
    /\ values \in [Commands -> Settings]
    /\ synced \in [Commands -> BOOLEAN]
    /\ starts \in 0..MaxStarts /\ edits \in 0..MaxEdits
    /\ phase \in {"off", "listening", "stopping", "ended"}
    /\ claimed \in BOOLEAN
    /\ channel \in Sources \cup {"none"}
    /\ outcome \in Sources \cup {"none", "failed"}
    /\ request \in [Requests -> {"none", "accepted", "claimed", "delivered", "told", "ended"}]
    /\ disturbed \in BOOLEAN

Before == IF file = Absent THEN NoSettings ELSE file

\* The settings a command is not to touch.
Foreign(c, v) ==
    CASE c \in Wizards -> <<v.trusted, v.editors, v.other>>
      [] c \in Editors -> <<v.provider, v.families, v.trusted, v.other>>
      [] OTHER         -> <<v.provider, v.families, v.editors, v.other>>

\* A command that replaces the file keeps every setting of the file it
\* replaces that is not its own: nothing another command or an operator wrote
\* meanwhile is lost, unless it was written in one of the two gaps the
\* comparison does not cover (writeEnvFileWithSnapshot, the lock and the
\* snapshot of the four commands).
OwnKeysOnly ==
    [][\A c \in Commands :
        stage[c] = "rename" /\ file' # file /\ stage'[c] = "close" /\ ~disturbed
        => /\ Before \in Settings
           /\ Foreign(c, file') = Foreign(c, Before)]_vars

\* No reader, and no power loss, finds a file of which part is missing
\* (writeEnvFileWithSnapshot syncs the temporary file before the rename).
WholeFile == Torn \notin durable \cup {file}

Told == {r \in Requests : request[r] = "told"}

\* From the confirmation on, the source that becomes TRUSTED_PROXY_CIDR is the
\* peer of the one request that was told it was observed, with no request
\* still being served (observeProxySource, ServeHTTP).
TrustedWasObserved ==
    stage[Observer] \notin {"idle", "observe"} =>
        /\ Active = {}
        /\ \E r \in Requests \ Malformed : Told = {r} /\ Source[r] = outcome
        /\ stage[Observer] \in {"write", "sync", "compare", "rename"} =>
               values[Observer].trusted = outcome
=============================================================================
