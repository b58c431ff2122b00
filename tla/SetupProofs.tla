----------------------------- MODULE SetupProofs ------------------------------
(***************************************************************************)
(* Proofs about the setup commands on one environment file, for any number *)
(* of commands, edits by hand, requests and proxies.                       *)
(***************************************************************************)
EXTENDS Setup, TLAPS

Locked  == {"capture", "read", "edit", "write", "sync", "compare", "rename", "close"}
Edited  == {"write", "sync", "compare", "rename"}
Claimed == {"claimed", "delivered", "told"}

\* One command has the lock of the directory; only the observer observes.
LockInv == \A c \in Commands :
    /\ stage[c] \in Locked => lock = c
    /\ stage[c] = "observe" => c = Observer

\* A temporary file is on the disk before it gets a name.
DiskInv ==
    /\ Torn \notin durable \cup {file}
    /\ \A c \in Commands : stage[c] \in {"compare", "rename"} => synced[c] = TRUE

\* What a command works on is the file it compares with, but for its own keys.
Base(f) == IF f = Absent THEN NoSettings ELSE f
KeysOf(c) ==
    /\ stage[c] = "read" => snapshot[c] = file
    /\ stage[c] = "edit" => snapshot[c] \in Settings \cup {Absent} /\ values[c] = Base(snapshot[c])
    /\ stage[c] \in Edited => /\ snapshot[c] \in Settings \cup {Absent}
                              /\ Foreign(c, values[c]) = Foreign(c, Base(snapshot[c]))
    /\ stage[c] = "rename" => snapshot[c] = file
KeysInv == ~disturbed => \A c \in Commands : KeysOf(c)

\* One request gets through, and what is in the channel or observed is its peer.
ClaimInv ==
    /\ ~claimed => \A r \in Requests : request[r] \notin Claimed
    /\ \A r \in Requests : request[r] \in Claimed => r \notin Malformed
    /\ \A r, s \in Requests : request[r] \in Claimed /\ request[s] \in Claimed => r = s
    /\ \A x \in {channel, outcome} \cap Sources :
           \E r \in Requests : request[r] \in {"delivered", "told"} /\ Source[r] = x

\* The listener ends with a source only when no request is being served.
EndInv ==
    /\ phase \in {"off", "listening"} => outcome = "none"
    /\ phase \in {"stopping", "ended"} => outcome # "none"
    /\ phase = "ended" /\ outcome # "failed" => Active = {}

\* The observer goes on with a source it has observed, and writes that one.
ConfirmInv ==
    /\ stage[Observer] \notin {"idle", "observe"} => phase = "ended" /\ outcome # "failed"
    /\ stage[Observer] \in Edited => values[Observer].trusted = outcome

SetupInv == TypeOK /\ LockInv /\ DiskInv /\ KeysInv /\ ClaimInv /\ EndInv /\ ConfirmInv

-----------------------------------------------------------------------------
(* Settings. *)

LEMMA NoSettingsAreSettings == NoSettings \in Settings
BY DEF NoSettings, Settings

LEMMA Kinds ==
    /\ Absent \notin Settings /\ Broken \notin Settings /\ Torn \notin Settings
    /\ Absent # Broken /\ Torn # Absent /\ Torn # Broken
    /\ None \notin Commands
    /\ Observer \in Commands /\ Observer \notin Wizards /\ Observer \notin Editors
    /\ Wizards \cap Editors = {}
BY EnvFileAssumption DEF Commands

\* A command changes none but its own keys, and what it makes are settings.
LEMMA EditsKeepForeign ==
    ASSUME NEW c \in Commands, NEW v \in Settings, NEW source,
           c = Observer => source \in Sources,
           NEW w \in Edits(c, v, source)
    PROVE  /\ w \in Settings
           /\ Foreign(c, w) = Foreign(c, v)
           /\ c = Observer => w.trusted = source
<1>1. CASE c \in Wizards
  <2>1. PICK p \in Families :
          w = [v EXCEPT !.provider = p,
                        !.families = (IF ExistingProvider(v) \in {p, None} THEN @ ELSE {}) \cup {p}]
    <3>1. Edits(c, v, source) = WizardEdits(v)
      BY <1>1, Kinds DEF Edits
    <3>2. QED
      BY <3>1 DEF WizardEdits
  <2>2. DEFINE f == (IF ExistingProvider(v) \in {p, None} THEN v.families ELSE {}) \cup {p}
  <2>3. f \in SUBSET Families
    BY DEF Settings
  <2>4. w = [v EXCEPT !.provider = p, !.families = f]
    BY <2>1
  <2>5. HIDE DEF f
  <2>6. w \in Settings /\ w.trusted = v.trusted /\ w.editors = v.editors /\ w.other = v.other
    BY <2>3, <2>4 DEF Settings
  <2>7. QED
    BY <1>1, <2>6, Kinds DEF Foreign
<1>2. CASE c \in Editors
  <2>1. PICK e \in Lists \cup {None} : w = [v EXCEPT !.editors = e]
    BY <1>2, Kinds DEF Edits, EditorEdits
  <2>2. /\ w \in Settings /\ w.provider = v.provider /\ w.families = v.families
        /\ w.trusted = v.trusted /\ w.other = v.other
    BY <2>1 DEF Settings
  <2>3. QED
    BY <1>2, <2>2, Kinds DEF Foreign
<1>3. CASE c = Observer
  <2>1. w = [v EXCEPT !.trusted = source]
    BY <1>3, Kinds DEF Edits, ObserverEdits
  <2>2. /\ w \in Settings /\ w.provider = v.provider /\ w.families = v.families
        /\ w.editors = v.editors /\ w.other = v.other /\ w.trusted = source
    BY <1>3, <2>1 DEF Settings
  <2>3. QED
    BY <1>3, <2>2, Kinds DEF Foreign
<1>4. QED
  BY <1>1, <1>2, <1>3 DEF Commands

\* The types of what the commands keep.
LEMMA Typing ==
    ASSUME TypeOK
    PROVE  /\ file \in Contents /\ durable \subseteq Contents
           /\ \A c \in Commands : snapshot[c] \in Contents /\ values[c] \in Settings
BY DEF TypeOK

\* Whoever has the lock is alone with the file.
LEMMA OneLocked ==
    ASSUME SetupInv, NEW c \in Commands, stage[c] \in Locked, NEW d \in Commands \ {c}
    PROVE  stage[d] \notin Locked
BY DEF SetupInv, LockInv

\* A command is not concerned by what others do, unless they replace a file
\* it is comparing with.
LEMMA OtherKeys ==
    ASSUME NEW d \in Commands, KeysOf(d),
           stage'[d] = stage[d], snapshot'[d] = snapshot[d], values'[d] = values[d],
           file' = file \/ stage[d] \notin {"read", "rename"}
    PROVE  KeysOf(d)'
<1>1. /\ stage'[d] = "read" => snapshot'[d] = file'
      /\ stage'[d] = "rename" => snapshot'[d] = file'
  BY DEF KeysOf
<1>2. stage'[d] = "edit" => snapshot'[d] \in Settings \cup {Absent} /\ values'[d] = Base(snapshot'[d])
  BY DEF KeysOf
<1>3. stage'[d] \in Edited => /\ snapshot'[d] \in Settings \cup {Absent}
                              /\ Foreign(d, values'[d]) = Foreign(d, Base(snapshot'[d]))
  BY DEF KeysOf
<1>4. QED
  BY <1>1, <1>2, <1>3 DEF KeysOf

LEMMA InitSetupInv == Init => SetupInv
<1>1. SUFFICES ASSUME Init PROVE SetupInv
  OBVIOUS
<1>2. TypeOK
  <2>1. file \in Contents /\ durable \subseteq Contents /\ durable # {}
    BY <1>1, EnvFileAssumption DEF Init, EnvInit
  <2>2. /\ stage \in [Commands -> {"idle"}] /\ snapshot \in [Commands -> {Absent}]
        /\ values \in [Commands -> {NoSettings}] /\ synced \in [Commands -> {FALSE}]
        /\ lock = None
    BY <1>1 DEF Init, EnvInit
  <2>3. snapshot \in [Commands -> Contents] /\ values \in [Commands -> Settings]
    BY <2>2, NoSettingsAreSettings DEF Contents
  <2>4. starts \in 0..MaxStarts /\ edits \in 0..MaxEdits
    BY <1>1, EnvFileAssumption DEF Init, EnvInit
  <2>5. QED
    BY <1>1, <2>1, <2>2, <2>3, <2>4 DEF Init, ObserverInit, TypeOK
<1>3. LockInv /\ DiskInv
  BY <1>1, EnvFileAssumption DEF Init, EnvInit, LockInv, DiskInv, Locked
<1>4. KeysInv
  BY <1>1 DEF Init, EnvInit, KeysInv, KeysOf, Edited
<1>5. ClaimInv /\ EndInv
  BY <1>1, SetupAssumption DEF Init, ObserverInit, ClaimInv, EndInv, Claimed, Active
<1>6. ConfirmInv
  BY <1>1, Kinds DEF Init, EnvInit, ConfirmInv, Edited
<1>7. QED
  BY <1>2, <1>3, <1>4, <1>5, <1>6 DEF SetupInv

-----------------------------------------------------------------------------
(* The commands preserve the invariant. *)

\* While a command works, nothing changes about the observation.
LEMMA ObservationStays ==
    ASSUME SetupInv, UNCHANGED observerVars,
           stage'[Observer] \notin {"idle", "observe"} => stage[Observer] \notin {"idle", "observe"},
           stage'[Observer] \in Edited => values'[Observer].trusted = outcome
    PROVE  ClaimInv' /\ EndInv' /\ ConfirmInv'
<1>1. UNCHANGED <<phase, claimed, channel, outcome, request>>
  BY DEF observerVars
<1>2. ClaimInv'
  BY <1>1 DEF SetupInv, ClaimInv
<1>3. EndInv'
  BY <1>1 DEF SetupInv, EndInv, Active
<1>4. ConfirmInv'
  BY <1>1 DEF SetupInv, ConfirmInv
<1>5. QED
  BY <1>2, <1>3, <1>4

\* A command that moves within the lock and leaves the file alone.
LEMMA LockedStep ==
    ASSUME SetupInv, NEW c \in Commands, stage[c] \in Locked,
           NEW t \in Locked, stage' = [stage EXCEPT ![c] = t],
           snapshot' \in [Commands -> Contents], values' \in [Commands -> Settings],
           synced' \in [Commands -> BOOLEAN],
           \A d \in Commands \ {c} : /\ snapshot'[d] = snapshot[d] /\ values'[d] = values[d]
                                    /\ synced'[d] = synced[d],
           t \in {"compare", "rename"} => synced'[c] = TRUE,
           ~disturbed => KeysOf(c)',
           t \in Edited /\ c = Observer => values'[c].trusted = outcome,
           UNCHANGED <<file, durable, lock, starts, edits, observerVars, disturbed>>
    PROVE  SetupInv'
<1>1. stage \in [Commands -> {"idle", "observe", "lock", "capture", "read", "edit", "write",
                               "sync", "compare", "rename", "close"}]
  BY DEF SetupInv, TypeOK
<1>2. TypeOK'
  BY <1>1 DEF SetupInv, TypeOK, observerVars, Locked
<1>3. LockInv'
  BY <1>1 DEF SetupInv, LockInv, Locked
<1>4. DiskInv'
  BY <1>1 DEF SetupInv, DiskInv
<1>5. KeysInv'
  <2>1. SUFFICES ASSUME ~disturbed, NEW d \in Commands PROVE KeysOf(d)'
    BY DEF KeysInv
  <2>2. CASE d = c
    BY <2>1, <2>2
  <2>3. CASE d # c
    <3>1. KeysOf(d)
      BY <2>1 DEF SetupInv, KeysInv
    <3>2. QED
      BY <1>1, <2>3, <3>1, OtherKeys
  <2>4. QED
    BY <2>2, <2>3
<1>6. ClaimInv' /\ EndInv' /\ ConfirmInv'
  <2>1. stage'[Observer] \in Edited => values'[Observer].trusted = outcome
    BY <1>1, Kinds DEF SetupInv, ConfirmInv
  <2>2. stage'[Observer] \notin {"idle", "observe"} => stage[Observer] \notin {"idle", "observe"}
    BY <1>1, Kinds DEF Locked
  <2>3. QED
    BY <2>1, <2>2, ObservationStays
<1>7. QED
  BY <1>2, <1>3, <1>4, <1>5, <1>6 DEF SetupInv

LEMMA CaptureKeeps ==
    ASSUME SetupInv, NEW c \in Commands, Capture(c), UNCHANGED <<observerVars, disturbed>>
    PROVE  SetupInv'
<1>1. /\ stage[c] = "capture" /\ stage' = [stage EXCEPT ![c] = "read"]
      /\ snapshot' = [snapshot EXCEPT ![c] = file]
      /\ UNCHANGED <<file, durable, lock, values, synced, starts, edits>>
      /\ stage \in [Commands -> {"idle", "observe", "lock", "capture", "read", "edit", "write",
                                  "sync", "compare", "rename", "close"}]
      /\ snapshot \in [Commands -> Contents] /\ values \in [Commands -> Settings]
      /\ synced \in [Commands -> BOOLEAN] /\ file \in Contents
  BY DEF Capture, Goto, SetupInv, TypeOK
<1>2. KeysOf(c)'
  BY <1>1 DEF KeysOf, Edited
<1>3. "capture" \in Locked /\ "read" \in Locked /\ "read" \notin Edited
  BY DEF Locked, Edited
<1>4. QED
  BY <1>1, <1>2, <1>3, LockedStep

LEMMA ReadKeeps ==
    ASSUME SetupInv, NEW c \in Commands, Read(c), UNCHANGED <<observerVars, disturbed>>
    PROVE  SetupInv'
<1>1. /\ stage[c] = "read" /\ UNCHANGED <<file, durable, lock, snapshot, synced, starts, edits>>
      /\ stage \in [Commands -> {"idle", "observe", "lock", "capture", "read", "edit", "write",
                                  "sync", "compare", "rename", "close"}]
      /\ snapshot \in [Commands -> Contents] /\ values \in [Commands -> Settings]
      /\ synced \in [Commands -> BOOLEAN]
  BY DEF Read, SetupInv, TypeOK
<1>2. "read" \in Locked /\ "edit" \in Locked /\ "close" \in Locked
      /\ "edit" \notin Edited /\ "close" \notin Edited
  BY DEF Locked, Edited
<1>3. CASE stage' = [stage EXCEPT ![c] = "close"] /\ values' = values
  <2>1. KeysOf(c)'
    BY <1>1, <1>3 DEF KeysOf, Edited
  <2>2. QED
    BY <1>1, <1>2, <1>3, <2>1, LockedStep
<1>4. CASE /\ stage' = [stage EXCEPT ![c] = "edit"]
           /\ file \in Settings \cup {Absent} /\ values' = [values EXCEPT ![c] = Base(file)]
  <2>1. values' \in [Commands -> Settings]
    BY <1>1, <1>4, NoSettingsAreSettings DEF Base
  <2>2. ~disturbed => snapshot[c] = file
    BY <1>1 DEF SetupInv, KeysInv, KeysOf
  <2>3. ~disturbed => KeysOf(c)'
    BY <1>1, <1>4, <2>2 DEF KeysOf, Base, Edited
  <2>4. QED
    BY <1>1, <1>2, <1>4, <2>1, <2>3, LockedStep
<1>5. QED
  <2>1. file \in Settings => Base(file) = file
    BY Kinds DEF Base
  <2>2. file = Absent => Base(file) = NoSettings
    BY DEF Base
  <2>3. QED
    BY <1>3, <1>4, <2>1, <2>2 DEF Read, Goto

LEMMA EditKeeps ==
    ASSUME SetupInv, NEW c \in Commands, Edit(c, outcome), UNCHANGED <<observerVars, disturbed>>
    PROVE  SetupInv'
<1>1. /\ stage[c] = "edit" /\ stage' = [stage EXCEPT ![c] = "write"]
      /\ UNCHANGED <<file, durable, lock, snapshot, synced, starts, edits>>
      /\ stage \in [Commands -> {"idle", "observe", "lock", "capture", "read", "edit", "write",
                                  "sync", "compare", "rename", "close"}]
      /\ snapshot \in [Commands -> Contents] /\ values \in [Commands -> Settings]
      /\ synced \in [Commands -> BOOLEAN]
  BY DEF Edit, Goto, SetupInv, TypeOK
<1>2. PICK w \in Edits(c, values[c], outcome) : values' = [values EXCEPT ![c] = w]
  BY DEF Edit
<1>3. c = Observer => outcome \in Sources
  BY <1>1 DEF SetupInv, TypeOK, ConfirmInv, EndInv
<1>4. w \in Settings /\ Foreign(c, w) = Foreign(c, values[c]) /\ (c = Observer => w.trusted = outcome)
  BY <1>1, <1>3, EditsKeepForeign
<1>5. ~disturbed => snapshot[c] \in Settings \cup {Absent} /\ values[c] = Base(snapshot[c])
  BY <1>1 DEF SetupInv, KeysInv, KeysOf
<1>6. values' \in [Commands -> Settings] /\ values'[c] = w
  BY <1>1, <1>2, <1>4
<1>7. ~disturbed => KeysOf(c)'
  <2>1. SUFFICES ASSUME ~disturbed PROVE KeysOf(c)'
    OBVIOUS
  <2>2. stage'[c] = "write" /\ snapshot'[c] = snapshot[c]
    BY <1>1
  <2>3. Foreign(c, values'[c]) = Foreign(c, Base(snapshot[c]))
    BY <1>4, <1>5, <1>6, <2>1
  <2>4. QED
    BY <1>5, <2>1, <2>2, <2>3 DEF KeysOf
<1>8. "edit" \in Locked /\ "write" \in Locked
  BY DEF Locked
<1>9. QED
  BY <1>1, <1>2, <1>4, <1>6, <1>7, <1>8, LockedStep

LEMMA TemporaryFileKeeps ==
    ASSUME SetupInv, NEW c \in Commands, UNCHANGED <<observerVars, disturbed>>,
           WriteTemp(c) \/ SyncTemp(c) \/ Compare(c) \/ Fails(c)
    PROVE  SetupInv'
<1>1. /\ stage \in [Commands -> {"idle", "observe", "lock", "capture", "read", "edit", "write",
                                  "sync", "compare", "rename", "close"}]
      /\ snapshot \in [Commands -> Contents] /\ values \in [Commands -> Settings]
      /\ synced \in [Commands -> BOOLEAN]
      /\ UNCHANGED <<file, durable, lock, snapshot, values, starts, edits>>
  BY DEF WriteTemp, SyncTemp, Compare, Fails, SetupInv, TypeOK
<1>2. /\ ~disturbed => KeysOf(c)
      /\ stage[c] \in Edited /\ c = Observer => values[c].trusted = outcome
      /\ stage[c] \in {"compare", "rename"} => synced[c] = TRUE
  BY DEF SetupInv, KeysInv, ConfirmInv, DiskInv
<1>3. PICK t \in {"sync", "compare", "rename", "close"} :
        /\ stage[c] \in Locked /\ t \in Locked /\ stage' = [stage EXCEPT ![c] = t]
        /\ t \in Edited => stage[c] \in Edited
        /\ t = "rename" => file = snapshot[c]
        /\ synced' \in [Commands -> BOOLEAN] /\ \A d \in Commands \ {c} : synced'[d] = synced[d]
        /\ t \in {"compare", "rename"} => synced'[c] = TRUE
  BY <1>1, <1>2 DEF WriteTemp, SyncTemp, Compare, Fails, Goto, Locked, Edited
<1>4. ~disturbed => KeysOf(c)'
  BY <1>1, <1>2, <1>3 DEF KeysOf
<1>5. t \in Edited /\ c = Observer => values'[c].trusted = outcome
  BY <1>1, <1>2, <1>3
<1>6. QED
  BY <1>1, <1>3, <1>4, <1>5, LockedStep

LEMMA RenameKeeps ==
    ASSUME SetupInv, NEW c \in Commands, Rename(c), UNCHANGED <<observerVars, disturbed>>
    PROVE  SetupInv'
<1>1. /\ stage[c] = "rename" /\ stage' = [stage EXCEPT ![c] = "close"]
      /\ file' = values[c] /\ durable' = durable \cup {values[c]}
      /\ UNCHANGED <<lock, snapshot, values, synced, starts, edits>>
      /\ stage \in [Commands -> {"idle", "observe", "lock", "capture", "read", "edit", "write",
                                  "sync", "compare", "rename", "close"}]
  BY DEF Rename, Goto, SetupInv, TypeOK, DiskInv
<1>2. values[c] \in Settings /\ values[c] # Torn
  BY Typing, Kinds DEF SetupInv
<1>3. TypeOK'
  BY <1>1, <1>2 DEF SetupInv, TypeOK, Contents, observerVars
<1>4. LockInv'
  BY <1>1 DEF SetupInv, LockInv, Locked
<1>5. DiskInv'
  BY <1>1, <1>2 DEF SetupInv, DiskInv
<1>6. KeysInv'
  <2>1. SUFFICES ASSUME ~disturbed, NEW d \in Commands PROVE KeysOf(d)'
    BY DEF KeysInv
  <2>2. CASE d = c
    BY <1>1, <2>2 DEF KeysOf, Edited
  <2>3. CASE d # c
    <3>1. stage[d] \notin {"read", "rename"} /\ KeysOf(d)
      BY <1>1, <2>1, <2>3, OneLocked DEF Locked, SetupInv, KeysInv
    <3>2. QED
      BY <1>1, <2>3, <3>1, OtherKeys
  <2>4. QED
    BY <2>2, <2>3
<1>7. ClaimInv' /\ EndInv' /\ ConfirmInv'
  BY <1>1, Kinds, ObservationStays DEF SetupInv, ConfirmInv, Edited
<1>8. QED
  BY <1>3, <1>4, <1>5, <1>6, <1>7 DEF SetupInv

LEMMA LocksKeeps == ASSUME SetupInv, NEW c \in Commands, Locks(c) PROVE SetupInv'
<1>1. /\ stage[c] = "lock" /\ stage' = [stage EXCEPT ![c] = "capture"]
      /\ lock = None /\ lock' = c /\ disturbed' = FALSE
      /\ UNCHANGED <<file, durable, snapshot, values, synced, starts, edits, observerVars>>
      /\ stage \in [Commands -> {"idle", "observe", "lock", "capture", "read", "edit", "write",
                                  "sync", "compare", "rename", "close"}]
  BY DEF Locks, Lock, Goto, SetupInv, TypeOK
<1>2. \A d \in Commands : stage[d] \notin Locked
  BY <1>1, Kinds DEF SetupInv, LockInv
<1>3. TypeOK'
  BY <1>1 DEF SetupInv, TypeOK, observerVars
<1>4. LockInv'
  BY <1>1, <1>2 DEF SetupInv, LockInv
<1>5. DiskInv'
  BY <1>1 DEF SetupInv, DiskInv
<1>6. KeysInv'
  BY <1>1, <1>2 DEF KeysInv, KeysOf, Locked, Edited
<1>7. ClaimInv' /\ EndInv' /\ ConfirmInv'
  BY <1>1, Kinds, ObservationStays DEF SetupInv, ConfirmInv, Edited
<1>8. QED
  BY <1>3, <1>4, <1>5, <1>6, <1>7 DEF SetupInv

\* A file changed by hand is not a torn one, and the comparison notices it.
LEMMA EditsByHandKeeps == ASSUME SetupInv, EditsByHand PROVE SetupInv'
<1>1. /\ durable' = durable \cup {file'} /\ edits < MaxEdits /\ edits' = edits + 1
      /\ disturbed' = (disturbed \/ \E c \in Commands : stage[c] \in {"read", "rename"})
      /\ UNCHANGED <<lock, stage, snapshot, values, synced, starts, observerVars>>
  BY DEF EditsByHand, HandEdit
<1>2. file' \in Settings \cup {Broken}
  <2>1. CASE file \in Settings
    <3>1. \A n \in Notes : [file EXCEPT !.other = n] \in Settings
      BY <2>1 DEF Settings
    <3>2. [file EXCEPT !.trusted = None] \in Settings
      BY <2>1 DEF Settings
    <3>3. QED
      BY <2>1, <3>1, <3>2 DEF EditsByHand, HandEdit
  <2>2. CASE file \notin Settings
    <3>1. \A n \in Notes : [NoSettings EXCEPT !.other = n] \in Settings
      BY DEF NoSettings, Settings
    <3>2. QED
      BY <2>2, <3>1 DEF EditsByHand, HandEdit
  <2>3. QED
    BY <2>1, <2>2
<1>3. file' # Torn /\ file' \in Contents
  BY <1>2, Kinds DEF Contents
<1>4. edits' \in 0..MaxEdits
  BY <1>1, EnvFileAssumption DEF SetupInv, TypeOK
<1>5. disturbed' \in BOOLEAN
  BY <1>1
<1>6. TypeOK'
  BY <1>1, <1>3, <1>4, <1>5 DEF SetupInv, TypeOK, observerVars
<1>7. LockInv'
  BY <1>1 DEF SetupInv, LockInv
<1>8. DiskInv'
  BY <1>1, <1>3 DEF SetupInv, DiskInv
<1>9. KeysInv'
  <2>1. SUFFICES ASSUME ~disturbed', NEW d \in Commands PROVE KeysOf(d)'
    BY DEF KeysInv
  <2>2. ~disturbed /\ stage[d] \notin {"read", "rename"}
    BY <1>1, <2>1
  <2>3. KeysOf(d)
    BY <2>2 DEF SetupInv, KeysInv
  <2>4. QED
    BY <1>1, <2>2, <2>3, OtherKeys
<1>10. ClaimInv' /\ EndInv' /\ ConfirmInv'
  BY <1>1, ObservationStays DEF SetupInv, ConfirmInv
<1>11. QED
  BY <1>6, <1>7, <1>8, <1>9, <1>10 DEF SetupInv

LEMMA FlushesKeeps == ASSUME SetupInv, Flushes PROVE SetupInv'
<1>1. durable' = {file}
      /\ UNCHANGED <<file, lock, stage, snapshot, values, synced, starts, edits, observerVars, disturbed>>
  BY DEF Flushes, Flush
<1>2. TypeOK' /\ LockInv' /\ DiskInv'
  BY <1>1 DEF SetupInv, TypeOK, LockInv, DiskInv, observerVars
<1>3. KeysInv'
  BY <1>1, OtherKeys DEF SetupInv, KeysInv
<1>4. ClaimInv' /\ EndInv' /\ ConfirmInv'
  BY <1>1, ObservationStays DEF SetupInv, ConfirmInv
<1>5. QED
  BY <1>2, <1>3, <1>4 DEF SetupInv

-----------------------------------------------------------------------------
(* Commands come and go. *)

\* Nothing is left of an observation whose process is gone.
LEMMA GoneObservation ==
    ASSUME Gone
    PROVE  /\ ClaimInv' /\ EndInv'
           /\ phase' \in {"off", "listening", "stopping", "ended"} /\ claimed' \in BOOLEAN
           /\ channel' \in Sources \cup {"none"} /\ outcome' \in Sources \cup {"none", "failed"}
           /\ request' \in [Requests -> {"none", "accepted", "claimed", "delivered", "told", "ended"}]
BY SetupAssumption DEF Gone, ClaimInv, EndInv, Claimed, Active

LEMMA StartsKeeps == ASSUME SetupInv, NEW c \in Commands, Starts(c) PROVE SetupInv'
<1>1. PICK t \in {"observe", "lock"} :
        /\ stage[c] = "idle" /\ stage' = [stage EXCEPT ![c] = t]
        /\ t = "observe" <=> c = Observer
        /\ starts < MaxStarts /\ starts' = starts + 1
        /\ UNCHANGED <<file, durable, lock, snapshot, values, synced, edits, disturbed>>
        /\ stage \in [Commands -> {"idle", "observe", "lock", "capture", "read", "edit", "write",
                                    "sync", "compare", "rename", "close"}]
  BY DEF Starts, Start, Goto, SetupInv, TypeOK
<1>2. starts' \in 0..MaxStarts
  BY <1>1, EnvFileAssumption DEF SetupInv, TypeOK
<1>3. /\ claimed' = claimed /\ channel' = channel /\ outcome' = outcome /\ request' = request
      /\ phase' = phase \/ (c = Observer /\ phase = "off" /\ phase' = "listening")
  BY DEF Starts, Listen, observerVars
<1>4. TypeOK'
  BY <1>1, <1>2, <1>3 DEF SetupInv, TypeOK
<1>5. LockInv' /\ DiskInv'
  BY <1>1 DEF SetupInv, LockInv, DiskInv, Locked
<1>6. KeysInv'
  <2>1. SUFFICES ASSUME ~disturbed, NEW d \in Commands PROVE KeysOf(d)'
    BY <1>1 DEF KeysInv
  <2>2. CASE d = c
    BY <1>1, <2>2 DEF KeysOf, Edited
  <2>3. CASE d # c
    <3>1. KeysOf(d)
      BY <2>1 DEF SetupInv, KeysInv
    <3>2. QED
      BY <1>1, <2>3, <3>1, OtherKeys
  <2>4. QED
    BY <2>2, <2>3
<1>7. ClaimInv'
  BY <1>3 DEF SetupInv, ClaimInv
<1>8. EndInv'
  BY <1>3 DEF SetupInv, EndInv, Active
<1>9. ConfirmInv'
  <2>1. CASE c = Observer
    BY <1>1, <2>1 DEF ConfirmInv, Edited
  <2>2. CASE c # Observer
    BY <1>1, <1>3, <2>2, Kinds DEF SetupInv, ConfirmInv
  <2>3. QED
    BY <2>1, <2>2
<1>10. QED
  BY <1>4, <1>5, <1>6, <1>7, <1>8, <1>9 DEF SetupInv

LEMMA LeavesKeeps == ASSUME SetupInv, NEW c \in Commands, Leaves(c) PROVE SetupInv'
<1>1. /\ stage' = [stage EXCEPT ![c] = "idle"]
      /\ lock' = (IF lock = c THEN None ELSE lock)
      /\ snapshot' = [snapshot EXCEPT ![c] = Absent] /\ values' = [values EXCEPT ![c] = NoSettings]
      /\ synced' = [synced EXCEPT ![c] = FALSE]
      /\ UNCHANGED <<file, durable, starts, edits, disturbed>>
      /\ stage \in [Commands -> {"idle", "observe", "lock", "capture", "read", "edit", "write",
                                  "sync", "compare", "rename", "close"}]
      /\ snapshot \in [Commands -> Contents] /\ values \in [Commands -> Settings]
      /\ synced \in [Commands -> BOOLEAN]
  BY DEF Leaves, Exit, Goto, SetupInv, TypeOK
<1>2. \/ c = Observer /\ Gone
      \/ c # Observer /\ UNCHANGED observerVars
  BY DEF Leaves
<1>3. TypeOK'
  <2>1. snapshot' \in [Commands -> Contents] /\ values' \in [Commands -> Settings]
    BY <1>1, NoSettingsAreSettings DEF Contents
  <2>2. /\ stage' \in [Commands -> {"idle", "observe", "lock", "capture", "read", "edit", "write",
                                     "sync", "compare", "rename", "close"}]
        /\ synced' \in [Commands -> BOOLEAN] /\ lock' \in Commands \cup {None}
    BY <1>1 DEF SetupInv, TypeOK
  <2>3. CASE c = Observer
    BY <1>1, <1>2, <2>1, <2>2, <2>3, GoneObservation DEF SetupInv, TypeOK
  <2>4. CASE c # Observer
    BY <1>1, <1>2, <2>1, <2>2, <2>4 DEF SetupInv, TypeOK, observerVars
  <2>5. QED
    BY <2>3, <2>4
<1>4. LockInv' /\ DiskInv'
  BY <1>1 DEF SetupInv, LockInv, DiskInv, Locked
<1>5. KeysInv'
  <2>1. SUFFICES ASSUME ~disturbed, NEW d \in Commands PROVE KeysOf(d)'
    BY <1>1 DEF KeysInv
  <2>2. CASE d = c
    BY <1>1, <2>2 DEF KeysOf, Edited
  <2>3. CASE d # c
    <3>1. KeysOf(d)
      BY <2>1 DEF SetupInv, KeysInv
    <3>2. QED
      BY <1>1, <2>3, <3>1, OtherKeys
  <2>4. QED
    BY <2>2, <2>3
<1>6. ClaimInv' /\ EndInv' /\ ConfirmInv'
  <2>1. CASE c = Observer
    BY <1>1, <1>2, <2>1, GoneObservation DEF ConfirmInv, Edited
  <2>2. CASE c # Observer
    BY <1>1, <1>2, <2>2, Kinds, ObservationStays DEF SetupInv, ConfirmInv
  <2>3. QED
    BY <2>1, <2>2
<1>7. QED
  BY <1>3, <1>4, <1>5, <1>6 DEF SetupInv

LEMMA LosesPowerKeeps == ASSUME SetupInv, LosesPower PROVE SetupInv'
<1>1. /\ file' \in durable /\ durable' = {file'} /\ lock' = None
      /\ stage' = [c \in Commands |-> "idle"] /\ snapshot' = [c \in Commands |-> Absent]
      /\ values' = [c \in Commands |-> NoSettings] /\ synced' = [c \in Commands |-> FALSE]
      /\ UNCHANGED <<starts, edits, disturbed>> /\ Gone
  BY DEF LosesPower, PowerLoss
<1>2. TypeOK'
  <2>1. snapshot' \in [Commands -> Contents] /\ values' \in [Commands -> Settings]
    BY <1>1, NoSettingsAreSettings DEF Contents
  <2>2. file' \in Contents /\ durable' \subseteq Contents /\ durable' # {}
    BY <1>1 DEF SetupInv, TypeOK
  <2>3. QED
    BY <1>1, <2>1, <2>2, GoneObservation DEF SetupInv, TypeOK
<1>3. LockInv' /\ DiskInv'
  BY <1>1 DEF SetupInv, LockInv, DiskInv, Locked
<1>4. KeysInv'
  BY <1>1 DEF KeysInv, KeysOf, Edited
<1>5. ClaimInv' /\ EndInv' /\ ConfirmInv'
  BY <1>1, Kinds, GoneObservation DEF ConfirmInv, Edited
<1>6. QED
  BY <1>2, <1>3, <1>4, <1>5 DEF SetupInv

-----------------------------------------------------------------------------
(* The observation. *)

LEMMA ConfirmKeeps == ASSUME SetupInv, Confirm PROVE SetupInv'
<1>1. /\ stage[Observer] = "observe" /\ stage' = [stage EXCEPT ![Observer] = "lock"]
      /\ phase = "ended" /\ outcome # "failed"
      /\ UNCHANGED <<file, durable, lock, snapshot, values, synced, starts, edits, observerVars, disturbed>>
      /\ stage \in [Commands -> {"idle", "observe", "lock", "capture", "read", "edit", "write",
                                  "sync", "compare", "rename", "close"}]
  BY DEF Confirm, Goto, SetupInv, TypeOK
<1>2. TypeOK'
  BY <1>1 DEF SetupInv, TypeOK, observerVars
<1>3. LockInv' /\ DiskInv'
  BY <1>1 DEF SetupInv, LockInv, DiskInv, Locked
<1>4. KeysInv'
  <2>1. SUFFICES ASSUME ~disturbed, NEW d \in Commands PROVE KeysOf(d)'
    BY <1>1 DEF KeysInv
  <2>2. CASE d = Observer
    BY <1>1, <2>2 DEF KeysOf, Edited
  <2>3. CASE d # Observer
    <3>1. KeysOf(d)
      BY <2>1 DEF SetupInv, KeysInv
    <3>2. QED
      BY <1>1, <2>3, <3>1, OtherKeys
  <2>4. QED
    BY <2>2, <2>3
<1>5. UNCHANGED <<phase, claimed, channel, outcome, request>>
  BY <1>1 DEF observerVars
<1>6. ClaimInv' /\ EndInv'
  BY <1>5 DEF SetupInv, ClaimInv, EndInv, Active
<1>7. ConfirmInv'
  BY <1>1, <1>5, Kinds DEF ConfirmInv, Edited
<1>8. QED
  BY <1>2, <1>3, <1>4, <1>6, <1>7 DEF SetupInv

RequestStep(r) ==
    Accept(r) \/ Leave(r) \/ BadSource(r) \/ Claim(r) \/ AlreadyUsed(r) \/ Deliver(r) \/ Answer(r)
ListenerStep == Observe \/ TimesOut \/ ServerFails \/ ShutDown \/ ShutdownTimesOut

\* Once the listener has ended with a source, nothing moves any more.
LEMMA EndedObservation ==
    ASSUME SetupInv, phase = "ended", outcome # "failed"
    PROVE  ~ObserverStep
<1>1. Active = {}
  BY DEF SetupInv, EndInv
<1>2. \A r \in Requests : request[r] \notin {"accepted", "claimed", "delivered"}
  BY <1>1 DEF Active
<1>3. \A r \in Requests : ~RequestStep(r)
  BY <1>2 DEF RequestStep, Accept, Leave, BadSource, Claim, AlreadyUsed, Deliver, Answer
<1>4. ~ListenerStep
  BY DEF ListenerStep, Observe, TimesOut, ServerFails, ShutDown, ShutdownTimesOut
<1>5. QED
  BY <1>3, <1>4 DEF ObserverStep, RequestStep, ListenerStep

LEMMA RequestStepKeeps ==
    ASSUME SetupInv, NEW r \in Requests, RequestStep(r)
    PROVE  /\ ClaimInv' /\ EndInv'
           /\ phase' = phase /\ outcome' = outcome /\ claimed' \in BOOLEAN
           /\ channel' \in Sources \cup {"none"}
           /\ request' \in [Requests -> {"none", "accepted", "claimed", "delivered", "told", "ended"}]
<1>1. /\ request \in [Requests -> {"none", "accepted", "claimed", "delivered", "told", "ended"}]
      /\ channel \in Sources \cup {"none"} /\ outcome \in Sources \cup {"none", "failed"}
      /\ claimed \in BOOLEAN
  BY DEF SetupInv, TypeOK
<1>2. phase' = phase /\ outcome' = outcome
  BY DEF RequestStep, Accept, Leave, BadSource, Claim, AlreadyUsed, Deliver, Answer
<1>3. ASSUME Accept(r) \/ Leave(r) \/ BadSource(r) \/ AlreadyUsed(r)
      PROVE  /\ ClaimInv' /\ claimed' \in BOOLEAN /\ channel' \in Sources \cup {"none"}
             /\ request' \in [Requests -> {"none", "accepted", "claimed", "delivered", "told", "ended"}]
  <2>1. PICK s \in {"accepted", "ended"} :
          /\ request' = [request EXCEPT ![r] = s] /\ request[r] \in {"none", "accepted"}
          /\ claimed' = claimed /\ channel' = channel
    BY <1>3 DEF Accept, Leave, BadSource, AlreadyUsed, Step
  <2>2. ClaimInv'
    BY <1>1, <1>2, <2>1 DEF SetupInv, ClaimInv, Claimed
  <2>3. QED
    BY <1>1, <2>1, <2>2
<1>4. ASSUME Claim(r)
      PROVE  /\ ClaimInv' /\ claimed' \in BOOLEAN /\ channel' \in Sources \cup {"none"}
             /\ request' \in [Requests -> {"none", "accepted", "claimed", "delivered", "told", "ended"}]
  <2>1. /\ request' = [request EXCEPT ![r] = "claimed"] /\ request[r] = "accepted"
        /\ claimed' = TRUE /\ channel' = channel /\ ~claimed /\ r \notin Malformed
    BY <1>4 DEF Claim, Step
  <2>2. \A q \in Requests : request[q] \notin Claimed
    BY <2>1 DEF SetupInv, ClaimInv
  <2>3. ClaimInv'
    BY <1>1, <1>2, <2>1, <2>2 DEF SetupInv, ClaimInv, Claimed
  <2>4. QED
    BY <1>1, <2>1, <2>3
<1>5. ASSUME Deliver(r)
      PROVE  /\ ClaimInv' /\ claimed' \in BOOLEAN /\ channel' \in Sources \cup {"none"}
             /\ request' \in [Requests -> {"none", "accepted", "claimed", "delivered", "told", "ended"}]
  <2>1. /\ request' = [request EXCEPT ![r] = "delivered"] /\ request[r] = "claimed"
        /\ claimed' = claimed /\ channel' = Source[r]
    BY <1>5 DEF Deliver, Step
  <2>2. Source[r] \in Sources
    BY SetupAssumption
  <2>3. ClaimInv'
    BY <1>1, <1>2, <2>1, <2>2 DEF SetupInv, ClaimInv, Claimed
  <2>4. QED
    BY <1>1, <2>1, <2>2, <2>3
<1>6. ASSUME Answer(r)
      PROVE  /\ ClaimInv' /\ claimed' \in BOOLEAN /\ channel' \in Sources \cup {"none"}
             /\ request' \in [Requests -> {"none", "accepted", "claimed", "delivered", "told", "ended"}]
  <2>1. /\ request' = [request EXCEPT ![r] = "told"] /\ request[r] = "delivered"
        /\ claimed' = claimed /\ channel' = channel
    BY <1>6 DEF Answer, Step
  <2>2. ClaimInv'
    BY <1>1, <1>2, <2>1 DEF SetupInv, ClaimInv, Claimed
  <2>3. QED
    BY <1>1, <2>1, <2>2
<1>7. EndInv'
  <2>1. ~(phase = "ended" /\ outcome # "failed")
    BY EndedObservation DEF RequestStep, ObserverStep
  <2>2. QED
    BY <1>2, <2>1 DEF SetupInv, EndInv
<1>8. QED
  BY <1>2, <1>3, <1>4, <1>5, <1>6, <1>7 DEF RequestStep

LEMMA ListenerStepKeeps ==
    ASSUME SetupInv, ListenerStep
    PROVE  /\ ClaimInv' /\ EndInv'
           /\ phase' \in {"off", "listening", "stopping", "ended"} /\ claimed' = claimed
           /\ channel' \in Sources \cup {"none"} /\ outcome' \in Sources \cup {"none", "failed"}
           /\ request' = request
<1>1. channel \in Sources \cup {"none"} /\ outcome \in Sources \cup {"none", "failed"}
  BY DEF SetupInv, TypeOK
<1>2. "none" \notin Sources /\ "failed" \notin Sources
  BY SetupAssumption
<1>3. /\ claimed' = claimed /\ request' = request /\ channel' \in {channel, "none"}
      /\ outcome' \in {outcome, channel, "failed"}
      /\ phase' \in {"stopping", "ended"}
  BY DEF ListenerStep, Observe, TimesOut, ServerFails, ShutDown, ShutdownTimesOut
<1>4. ClaimInv'
  <2>1. {channel', outcome'} \cap Sources \subseteq {channel, outcome} \cap Sources
    BY <1>2, <1>3
  <2>2. QED
    BY <1>3, <2>1 DEF SetupInv, ClaimInv
<1>5. EndInv'
  <2>1. outcome' # "none"
    BY <1>1, <1>2 DEF ListenerStep, Observe, TimesOut, ServerFails, ShutDown, ShutdownTimesOut,
       SetupInv, EndInv
  <2>2. phase' = "ended" /\ outcome' # "failed" => Active' = {}
    BY <1>3 DEF ListenerStep, Observe, TimesOut, ServerFails, ShutDown, ShutdownTimesOut, Active
  <2>3. QED
    BY <1>3, <2>1, <2>2 DEF EndInv
<1>6. QED
  BY <1>1, <1>3, <1>4, <1>5

LEMMA ObservesKeeps == ASSUME SetupInv, Observes PROVE SetupInv'
<1>1. ObserverStep /\ UNCHANGED <<file, durable, lock, stage, snapshot, values, synced, starts, edits, disturbed>>
  BY DEF Observes, envVars
<1>2. (\E r \in Requests : RequestStep(r)) \/ ListenerStep
  BY <1>1 DEF ObserverStep, RequestStep, ListenerStep
<1>3. /\ ClaimInv' /\ EndInv'
      /\ phase' \in {"off", "listening", "stopping", "ended"} /\ claimed' \in BOOLEAN
      /\ channel' \in Sources \cup {"none"} /\ outcome' \in Sources \cup {"none", "failed"}
      /\ request' \in [Requests -> {"none", "accepted", "claimed", "delivered", "told", "ended"}]
  <2>1. TypeOK
    BY DEF SetupInv
  <2>2. CASE \E r \in Requests : RequestStep(r)
    BY <2>1, <2>2, RequestStepKeeps DEF TypeOK
  <2>3. CASE ListenerStep
    BY <2>1, <2>3, ListenerStepKeeps DEF TypeOK
  <2>4. QED
    BY <1>2, <2>2, <2>3
<1>4. TypeOK'
  BY <1>1, <1>3 DEF SetupInv, TypeOK
<1>5. LockInv' /\ DiskInv'
  BY <1>1 DEF SetupInv, LockInv, DiskInv
<1>6. KeysInv'
  BY <1>1, OtherKeys DEF SetupInv, KeysInv
<1>7. ConfirmInv'
  <2>1. stage[Observer] \in {"idle", "observe"}
    BY <1>1, EndedObservation DEF SetupInv, ConfirmInv
  <2>2. QED
    BY <1>1, <2>1 DEF ConfirmInv, Edited
<1>8. QED
  BY <1>3, <1>4, <1>5, <1>6, <1>7 DEF SetupInv

LEMMA StepKeepsSetupInv == SetupInv /\ [Next]_vars => SetupInv'
<1>1. SUFFICES ASSUME SetupInv, [Next]_vars PROVE SetupInv'
  OBVIOUS
<1>2. ASSUME NEW c \in Commands, Starts(c) \/ Locks(c) \/ Updates(c) \/ Leaves(c) PROVE SetupInv'
  <2>1. CASE Updates(c)
    BY <1>1, <2>1, CaptureKeeps, ReadKeeps, EditKeeps, TemporaryFileKeeps, RenameKeeps DEF Updates
  <2>2. QED
    BY <1>1, <1>2, <2>1, StartsKeeps, LocksKeeps, LeavesKeeps
<1>3. CASE Observes \/ Confirm
  BY <1>1, <1>3, ObservesKeeps, ConfirmKeeps
<1>4. CASE EditsByHand \/ Flushes \/ LosesPower
  BY <1>1, <1>4, EditsByHandKeeps, FlushesKeeps, LosesPowerKeeps
<1>5. CASE UNCHANGED vars
  <2>1. UNCHANGED <<file, durable, lock, stage, snapshot, values, synced, starts, edits, observerVars, disturbed>>
    BY <1>5 DEF vars, envVars
  <2>2. TypeOK' /\ LockInv' /\ DiskInv'
    BY <1>1, <2>1 DEF SetupInv, TypeOK, LockInv, DiskInv, observerVars
  <2>3. KeysInv'
    BY <1>1, <2>1, OtherKeys DEF SetupInv, KeysInv
  <2>4. ClaimInv' /\ EndInv' /\ ConfirmInv'
    BY <1>1, <2>1, ObservationStays DEF SetupInv, ConfirmInv
  <2>5. QED
    BY <2>2, <2>3, <2>4 DEF SetupInv
<1>6. QED
  BY <1>1, <1>2, <1>3, <1>4, <1>5 DEF Next

\* The inductive invariant of the setup commands.
THEOREM SetupInvHolds == Spec => []SetupInv
<1>1. QED
  BY InitSetupInv, StepKeepsSetupInv, PTL DEF Spec

-----------------------------------------------------------------------------
(* What it implies. *)

\* Every variable keeps its type: the settings a command writes are settings.
THEOREM SetupTypes == Spec => []TypeOK
<1>1. SetupInv => TypeOK
  BY DEF SetupInv
<1>2. QED
  BY <1>1, SetupInvHolds, PTL

\* No reader and no power loss finds a torn environment file.
THEOREM FilesAreWhole == Spec => []WholeFile
<1>1. SetupInv => WholeFile
  BY DEF SetupInv, DiskInv, WholeFile
<1>2. QED
  BY <1>1, SetupInvHolds, PTL

\* What becomes the trusted proxy is the peer of the one request that was told
\* so, for any number of requests racing for the path and its deadlines.
THEOREM TrustedIsObserved == Spec => []TrustedWasObserved
<1>1. SetupInv => TrustedWasObserved
  <2>1. SUFFICES ASSUME SetupInv, stage[Observer] \notin {"idle", "observe"}
                 PROVE  /\ Active = {}
                        /\ \E r \in Requests \ Malformed : Told = {r} /\ Source[r] = outcome
                        /\ stage[Observer] \in {"write", "sync", "compare", "rename"} =>
                               values[Observer].trusted = outcome
    BY DEF TrustedWasObserved
  <2>2. phase = "ended" /\ outcome # "failed" /\ outcome # "none" /\ Active = {}
    BY <2>1 DEF SetupInv, ConfirmInv, EndInv
  <2>3. outcome \in Sources
    BY <2>1, <2>2 DEF SetupInv, TypeOK
  <2>4. PICK r \in Requests : request[r] \in {"delivered", "told"} /\ Source[r] = outcome
    BY <2>1, <2>3 DEF SetupInv, ClaimInv
  <2>5. request[r] = "told"
    BY <2>2, <2>4 DEF Active
  <2>6. r \notin Malformed /\ \A q \in Requests : request[q] = "told" => q = r
    BY <2>1, <2>5 DEF SetupInv, ClaimInv, Claimed
  <2>7. Told = {r}
    BY <2>5, <2>6 DEF Told
  <2>8. QED
    BY <2>1, <2>2, <2>4, <2>6, <2>7 DEF SetupInv, ConfirmInv, Edited
<1>2. QED
  BY <1>1, SetupInvHolds, PTL

\* A command that replaces the file changes its own keys only, whatever the
\* other commands and the operator did to the file since it read it.
THEOREM CommandsKeepForeignKeys == Spec => OwnKeysOnly
<1>1. SetupInv /\ [Next]_vars =>
        \A c \in Commands :
            stage[c] = "rename" /\ file' # file /\ stage'[c] = "close" /\ ~disturbed
            => /\ Before \in Settings
               /\ Foreign(c, file') = Foreign(c, Before)
  <2>1. SUFFICES ASSUME SetupInv, [Next]_vars, NEW c \in Commands,
                        stage[c] = "rename", file' # file, stage'[c] = "close", ~disturbed
                 PROVE  Before \in Settings /\ Foreign(c, file') = Foreign(c, Before)
    OBVIOUS
  <2>2. stage \in [Commands -> {"idle", "observe", "lock", "capture", "read", "edit", "write",
                                "sync", "compare", "rename", "close"}]
    BY <2>1 DEF SetupInv, TypeOK
  <2>3. \E d \in Commands : Rename(d)
    BY <2>1, <2>2 DEF Next, vars, envVars, Starts, Start, Locks, Lock, Updates, Capture, Read, Edit,
       WriteTemp, SyncTemp, Compare, Fails, Leaves, Exit, Observes, Confirm, EditsByHand, HandEdit,
       Flushes, Flush, LosesPower, PowerLoss
  <2>4. PICK d \in Commands : Rename(d)
    BY <2>3
  <2>5. d = c
    BY <2>1, <2>2, <2>4 DEF Rename, Goto
  <2>6. KeysOf(c)
    BY <2>1 DEF SetupInv, KeysInv
  <2>7. snapshot[c] = file /\ snapshot[c] \in Settings \cup {Absent}
        /\ Foreign(c, values[c]) = Foreign(c, Base(snapshot[c]))
    BY <2>1, <2>6 DEF KeysOf, Edited
  <2>8. Before = Base(file)
    BY DEF Before, Base
  <2>9. file' = values[c]
    BY <2>4, <2>5 DEF Rename
  <2>10. Before \in Settings
    BY <2>7, <2>8, NoSettingsAreSettings DEF Base
  <2>11. Foreign(c, file') = Foreign(c, Before)
    BY <2>7, <2>8, <2>9
  <2>12. QED
    BY <2>10, <2>11
<1>2. SetupInv /\ [Next]_vars =>
        [\A c \in Commands :
            stage[c] = "rename" /\ file' # file /\ stage'[c] = "close" /\ ~disturbed
            => /\ Before \in Settings
               /\ Foreign(c, file') = Foreign(c, Before)]_vars
  BY <1>1
<1>3. QED
  BY <1>2, SetupInvHolds, PTL DEF Spec, OwnKeysOnly
=============================================================================
