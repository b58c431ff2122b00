--------------------------- MODULE MetadataEditor ---------------------------
(***************************************************************************)
(* The service metadata editor: service_metadata_editor.go (the one file,  *)
(* its lifetime lock, the save protocol) and the request handler of        *)
(* service_metadata_editor_http.go (form, save, final check).              *)
(*                                                                         *)
(* Several server processes may be started against one metadata file.      *)
(* Each runs newServiceMetadataEditor, serves forms and saves under e.mu,  *)
(* and may crash, lose power or be closed between any two steps.  An       *)
(* operator edits the file by hand: only while no process holds the lock,  *)
(* as the documentation asks, or at any time when LiveOperator.            *)
(*                                                                         *)
(* A power loss may undo directory changes that no directory sync has      *)
(* confirmed, and tear a file that was never fsynced.                      *)
(***************************************************************************)
EXTENDS Naturals, FiniteSets

CONSTANTS
    Procs,          \* server processes that may run over the metadata file
    Clients,        \* browser tabs of configured editors
    Ids,            \* proxy host IDs a metadata entry may name
    Edits,          \* non-blank bundles of name, url and icon
    Orgs,           \* category and order, which the form never carries
    Targets,        \* ID, domains, scheme, host, port, enabled of a host
    Catalogs,       \* what a snapshot may show an editor: IDs with targets
    Keys,           \* values of the random per-process HMAC key
    None,           \* the absent value
    InitialFiles,   \* valid files the deployment may start with
    SlowTabs,       \* tabs that may stay open past the CSRF token's lifetime
    OperatorFiles,  \* files the operator may put in place
    LiveOperator    \* the operator writes while a process holds the lock

-----------------------------------------------------------------------------
(* Documents and files. *)

\* An entry with neither part is the same as no entry: mutateServiceMetadata
\* drops it.
Entry == [edit : Edits \cup {None}, org : Orgs \cup {None}]
Document == [Ids -> Entry]

\* What a file holds.  A document written by the editor has one form, the
\* deterministic v3 serialization; one written by hand has other bytes.
Bytes == [form : {"v3", "hand", "torn"}, doc : Document]
NoDocument == [i \in Ids |-> [edit |-> None, org |-> None]]
Torn == [form |-> "torn", doc |-> NoDocument]
Parses(b) == b.form # "torn"

Serialize(d) == [form |-> "v3", doc |-> d]

MistypedMutate(d, id, e) == [d EXCEPT ![id] = e]
FaultyMutate(d, id, e) == [d EXCEPT ![id] = [edit |-> e, org |-> None]]
\* The selected entry's name, url and icon are replaced (None: reset or all
\* blank), its category and order and every other entry are kept.
Mutate(d, id, e) == [d EXCEPT ![id].edit = e]

\* A directory entry's inode: what it holds and whether it was fsynced.
Inode == [bytes : Bytes, synced : BOOLEAN]

\* The revision is the HMAC of the whole file under the process's key, the
\* target revision that of the host: both are equal exactly when key and
\* content are.  The CSRF token is bound to the same key.
Form == [id : Ids, key : Keys, seen : Bytes, target : Targets]

ASSUME EditorAssumption ==
    /\ InitialFiles \subseteq {b \in Bytes : Parses(b)}
    /\ InitialFiles # {}
    /\ OperatorFiles \subseteq Bytes
    /\ SlowTabs \subseteq Clients
    /\ Catalogs \subseteq [Ids -> Targets \cup {None}]
    /\ LiveOperator \in BOOLEAN
    /\ None \notin Procs \cup Clients \cup Edits \cup Orgs \cup Targets \cup Keys
    /\ None \notin Form

-----------------------------------------------------------------------------
VARIABLES
    file,       \* the inode the metadata path names now
    durable,    \* the inodes the path may name after a power loss
    lockOwner,  \* process holding the flock on the adjacent lock file
    phase,      \* how far each process is in its life
    view,       \* bytes of e.view, the confirmed document in memory
    key,        \* e.key
    disabled,   \* e.disabled
    snap,       \* the authorization snapshot visibleHost reads
    stage,      \* how far each tab's form or save is
    at,         \* the process serving the tab's save
    form,       \* the form the tab last received
    edit,       \* what the tab's save asks for
    temp,       \* the save's temporary file
    answer,     \* the last answer the tab received
    expired     \* tabs whose CSRF token is older than its lifetime

diskVars == <<file, durable>>
procVars == <<lockOwner, phase, view, key, disabled>>
tabVars  == <<stage, at, form, edit, temp, answer, expired>>
vars     == <<diskVars, procVars, snap, tabVars>>

Phases == {"down", "validated", "locked", "synced", "reread", "live", "closed"}

\* A save between taking and releasing e.mu, by the last step it completed.
Saving == {"vetted", "written", "rechecked", "authorised", "renamed"}
Stages == {"idle", "form", "sent"} \cup Saving
\* What a tab was told of its last save.  The answers of respondError that say
\* the file was left alone, and no answer, are one: "none".
Answers == {"none", "saved", "uncertain"}

TypeOK ==
    /\ file \in Inode
    /\ durable \in SUBSET Inode
    /\ lockOwner \in Procs \cup {None}
    /\ phase \in [Procs -> Phases]
    /\ view \in [Procs -> Bytes]
    /\ key \in [Procs -> Keys \cup {None}]
    /\ disabled \in [Procs -> BOOLEAN]
    /\ snap \in [fresh : BOOLEAN, target : [Ids -> Targets \cup {None}]]
    /\ stage \in [Clients -> Stages]
    /\ at \in [Clients -> Procs \cup {None}]
    /\ form \in [Clients -> Form \cup {None}]
    /\ edit \in [Clients -> Edits \cup {None}]
    /\ temp \in [Clients -> Inode \cup {None}]
    /\ answer \in [Clients -> Answers]
    /\ expired \in SUBSET Clients

Init ==
    /\ \E b \in InitialFiles : file = [bytes |-> b, synced |-> TRUE]
    /\ durable = {file}
    /\ lockOwner = None
    /\ phase = [p \in Procs |-> "down"]
    /\ view = [p \in Procs |-> Torn]
    /\ key = [p \in Procs |-> None]
    /\ disabled = [p \in Procs |-> FALSE]
    /\ snap = [fresh |-> FALSE, target |-> [i \in Ids |-> None]]
    /\ stage = [c \in Clients |-> "idle"]
    /\ at = [c \in Clients |-> None]
    /\ form = [c \in Clients |-> None]
    /\ edit = [c \in Clients |-> None]
    /\ temp = [c \in Clients |-> None]
    /\ answer = [c \in Clients |-> "none"]
    /\ expired = {}

-----------------------------------------------------------------------------
(* Startup: newServiceMetadataEditor. *)

Advance(p, from, to) ==
    /\ phase[p] = from
    /\ phase' = [phase EXCEPT ![p] = to]

\* fsync of the inode the path names.
SyncFile ==
    /\ file' = [file EXCEPT !.synced = TRUE]
    /\ durable' = (durable \ {file}) \cup {file'}

\* fsync of the directory: the entry survives a power loss from here on.
SyncDirectory == durable' = {file} /\ UNCHANGED file

\* The existing file is validated and synced before the lock file is touched.
Validate(p) ==
    /\ Advance(p, "down", "validated")
    /\ Parses(file.bytes)
    /\ SyncFile
    /\ UNCHANGED <<lockOwner, view, key, disabled, snap, tabVars>>

FaultyLockFree(p) == TRUE
LockFree(p) == lockOwner = None

\* flock(LOCK_EX|LOCK_NB): a process that does not get it exits (Stop).
Lock(p) ==
    /\ Advance(p, "validated", "locked")
    /\ LockFree(p)
    /\ lockOwner' = p
    /\ UNCHANGED <<diskVars, view, key, disabled, snap, tabVars>>

SyncBeforeReread(p) ==
    /\ Advance(p, "locked", "synced")
    /\ SyncDirectory
    /\ UNCHANGED <<lockOwner, view, key, disabled, snap, tabVars>>

\* Read again under the lock: a cooperating writer may have finished since.
Reread(p) ==
    /\ Advance(p, "synced", "reread")
    /\ Parses(file.bytes)
    /\ view' = [view EXCEPT ![p] = file.bytes]
    /\ SyncFile
    /\ UNCHANGED <<lockOwner, key, disabled, snap, tabVars>>

\* The key is random, so it is none that is in use or held in an open form.
FreshKeys == Keys \ ({key[p] : p \in Procs} \cup
                     {form[c].key : c \in {d \in Clients : form[d] # None}})

\* The last directory sync, then the view is published and serving starts;
\* a new process's cache holds no snapshot yet.
Publish(p) ==
    /\ Advance(p, "reread", "live")
    /\ \E k \in FreshKeys : key' = [key EXCEPT ![p] = k]
    /\ SyncDirectory
    /\ snap' = [fresh |-> FALSE, target |-> [i \in Ids |-> None]]
    /\ UNCHANGED <<lockOwner, view, disabled, tabVars>>

-----------------------------------------------------------------------------
(* Requests. *)

FaultyMutexFree(p) == \A c \in Clients : ~(at[c] = p /\ stage[c] \in Saving \cup {"sent"})
\* sync.Mutex e.mu of process p, held from a save's first step to its answer.
MutexFree(p) == \A c \in Clients : ~(at[c] = p /\ stage[c] \in Saving)

\* visibleHost: the snapshot must be fresh, show exactly this host to the
\* editor, and show it with the target the form was made for.
HostVisible(id, target) == snap.fresh /\ snap.target[id] = target

ValidCSRF(c, p) == form[c].key = key[p] /\ c \notin expired

\* GET: a form for a visible host, made under e.mu from the confirmed view,
\* refused while the process is disabled or the disk differs from the view.
Get(c, p, id) ==
    /\ stage[c] \in {"idle", "form"}
    /\ phase[p] = "live" /\ ~disabled[p] /\ MutexFree(p)
    /\ snap.fresh /\ snap.target[id] # None
    /\ file.bytes = view[p]
    /\ form' = [form EXCEPT ![c] = [id |-> id, key |-> key[p], seen |-> view[p],
                                    target |-> snap.target[id]]]
    /\ stage' = [stage EXCEPT ![c] = "form"]
    /\ answer' = [answer EXCEPT ![c] = "none"]
    /\ expired' = expired \ {c}
    /\ UNCHANGED <<diskVars, procVars, snap, at, edit, temp>>

\* The answer reaches the tab, which keeps its form and may send it again.
\* Deferred calls of commit and save remove the temporary file, release e.mu.
Respond(c, a) ==
    /\ stage' = [stage EXCEPT ![c] = "form"]
    /\ at' = [at EXCEPT ![c] = None]
    /\ edit' = [edit EXCEPT ![c] = None]
    /\ temp' = [temp EXCEPT ![c] = None]
    /\ answer' = [answer EXCEPT ![c] = a]
    /\ UNCHANGED <<form, expired>>

Reach(c, s) ==
    /\ stage' = [stage EXCEPT ![c] = s]
    /\ UNCHANGED <<at, form, edit, temp, answer, expired>>

\* POST: the CSRF token is checked before the handler asks for e.mu.
Post(c, p, e) ==
    /\ stage[c] = "form" /\ phase[p] = "live"
    /\ UNCHANGED <<diskVars, procVars, snap>>
    /\ \/ /\ ValidCSRF(c, p)
          /\ stage' = [stage EXCEPT ![c] = "sent"]
          /\ at' = [at EXCEPT ![c] = p]
          /\ edit' = [edit EXCEPT ![c] = e]
          /\ answer' = [answer EXCEPT ![c] = "none"]
          /\ UNCHANGED <<form, temp, expired>>
       \/ ~ValidCSRF(c, p) /\ Respond(c, "none")

FaultyRevisionCurrent(c, p) == form[c].key = key[p]
RevisionCurrent(c, p) == form[c].key = key[p] /\ form[c].seen = view[p]

FaultyDiskUnchanged(p) == TRUE
\* checkDisk: the file still holds the bytes of the confirmed view.
DiskUnchanged(p) == file.bytes = view[p]

\* save, up to commit's first disk check.
Save(c) ==
    LET p == at[c]
        eligible == /\ HostVisible(form[c].id, form[c].target)
                    /\ RevisionCurrent(c, p) /\ DiskUnchanged(p)
    IN  /\ stage[c] = "sent" /\ MutexFree(p)
        /\ \/ disabled[p] /\ Respond(c, "uncertain")
           \/ ~disabled[p] /\ ~eligible /\ Respond(c, "none")
           \/ ~disabled[p] /\ eligible /\ Reach(c, "vetted")
        /\ UNCHANGED <<diskVars, procVars, snap>>

FaultyTempFile(c) ==
    [bytes |-> Serialize(Mutate(view[at[c]].doc, form[c].id, edit[c])), synced |-> FALSE]
\* The new document, serialized, written to a temporary file and fsynced.
TempFile(c) ==
    [bytes |-> Serialize(Mutate(view[at[c]].doc, form[c].id, edit[c])), synced |-> TRUE]

WriteTemp(c) ==
    /\ stage[c] = "vetted"
    /\ stage' = [stage EXCEPT ![c] = "written"]
    /\ temp' = [temp EXCEPT ![c] = TempFile(c)]
    /\ UNCHANGED <<diskVars, procVars, snap, at, form, edit, answer, expired>>

\* Reading the disk, creating, writing, syncing, closing or renaming fails.
StorageFails(c) ==
    /\ stage[c] \in {"vetted", "written", "authorised"}
    /\ Respond(c, "none")
    /\ UNCHANGED <<diskVars, procVars, snap>>

RecheckDisk(c) ==
    /\ stage[c] = "written"
    /\ IF DiskUnchanged(at[c]) THEN Reach(c, "rechecked") ELSE Respond(c, "none")
    /\ UNCHANGED <<diskVars, procVars, snap>>

FaultyStillEligible(c) == ValidCSRF(c, at[c])
StillEligible(c) == ValidCSRF(c, at[c]) /\ HostVisible(form[c].id, form[c].target)

\* finalCheck, on the clock and the snapshot in memory just before the rename.
FinalCheck(c) ==
    /\ stage[c] = "rechecked"
    /\ IF StillEligible(c) THEN Reach(c, "authorised") ELSE Respond(c, "none")
    /\ UNCHANGED <<diskVars, procVars, snap>>

Rename(c) ==
    /\ stage[c] = "authorised"
    /\ file' = temp[c]
    /\ durable' = durable \cup {temp[c]}
    /\ Reach(c, "renamed")
    /\ UNCHANGED <<procVars, snap>>

FaultyConfirm(c) ==
    /\ view' = [view EXCEPT ![at[c]] = temp[c].bytes]
    /\ UNCHANGED diskVars
\* The directory is synced, then the written document becomes the view.
Confirm(c) ==
    /\ view' = [view EXCEPT ![at[c]] = temp[c].bytes]
    /\ SyncDirectory

DirectorySync(c) ==
    /\ stage[c] = "renamed"
    /\ Confirm(c)
    /\ Respond(c, "saved")
    /\ UNCHANGED <<lockOwner, phase, key, disabled, snap>>

\* The rename happened but may not survive: no further write until restart,
\* and the view stays the last confirmed one.
DirectorySyncFails(c) ==
    /\ stage[c] = "renamed"
    /\ disabled' = [disabled EXCEPT ![at[c]] = TRUE]
    /\ Respond(c, "uncertain")
    /\ UNCHANGED <<diskVars, lockOwner, phase, view, key, snap>>

-----------------------------------------------------------------------------
(* The surroundings: cache refreshes, time, the operator, crashes. *)

\* cache.refresh stores a new complete snapshot.
Refresh ==
    /\ snap' \in [fresh : {TRUE}, target : Catalogs]
    /\ UNCHANGED <<diskVars, procVars, tabVars>>

\* No refresh succeeded for three poll intervals.
SnapshotStale ==
    /\ snap.fresh
    /\ snap' = [snap EXCEPT !.fresh = FALSE]
    /\ UNCHANGED <<diskVars, procVars, tabVars>>

CSRFExpires(c) ==
    /\ c \in SlowTabs \ expired /\ stage[c] # "idle"
    /\ expired' = expired \cup {c}
    /\ UNCHANGED <<diskVars, procVars, snap, stage, at, form, edit, temp, answer>>

\* A hand edit replaces the file; nothing says the operator's tool syncs it.
OperatorWrites(b) ==
    /\ LiveOperator \/ lockOwner = None
    /\ file' = [bytes |-> b, synced |-> FALSE]
    /\ durable' = durable \cup {file'}
    /\ UNCHANGED <<procVars, snap, tabVars>>

\* A tab loses its request together with the process that served it.
Drop(P) ==
    LET lost == {c \in Clients : at[c] \in P}
    IN  /\ stage' = [c \in Clients |-> IF c \in lost THEN "form" ELSE stage[c]]
        /\ at' = [c \in Clients |-> IF c \in lost THEN None ELSE at[c]]
        /\ edit' = [c \in Clients |-> IF c \in lost THEN None ELSE edit[c]]
        /\ temp' = [c \in Clients |-> IF c \in lost THEN None ELSE temp[c]]
        /\ answer' = [c \in Clients |-> IF c \in lost THEN "none" ELSE answer[c]]
        /\ UNCHANGED <<form, expired>>

Halt(P) ==
    /\ phase' = [p \in Procs |-> IF p \in P THEN "down" ELSE phase[p]]
    /\ view' = [p \in Procs |-> IF p \in P THEN Torn ELSE view[p]]
    /\ key' = [p \in Procs |-> IF p \in P THEN None ELSE key[p]]
    /\ disabled' = [p \in Procs |-> IF p \in P THEN FALSE ELSE disabled[p]]
    /\ lockOwner' = IF lockOwner \in P THEN None ELSE lockOwner
    /\ Drop(P)
    /\ UNCHANGED snap

\* A process exits: a startup error, the end of main, or a crash.  The kernel
\* releases its flock; the file system is as the process left it.
Stop(p) ==
    /\ phase[p] # "down"
    /\ Halt({p})
    /\ UNCHANGED diskVars

\* Power loss: every process is gone and the path names one of the inodes
\* that were not yet ruled out, torn if it was never fsynced.
PowerLoss ==
    /\ \E p \in Procs : phase[p] # "down"
    /\ Halt(Procs)
    /\ \E e \in durable :
          \/ file' = [e EXCEPT !.synced = TRUE]
          \/ ~e.synced /\ file' = [bytes |-> Torn, synced |-> TRUE]
    /\ durable' = {file'}

\* editor.Close on the way out of runServer: under e.mu, writes are disabled
\* and the lock is released.  A save still waiting for e.mu is answered.
Close(p) ==
    /\ Advance(p, "live", "closed")
    /\ MutexFree(p)
    /\ disabled' = [disabled EXCEPT ![p] = TRUE]
    /\ lockOwner' = IF lockOwner = p THEN None ELSE lockOwner
    /\ UNCHANGED <<diskVars, view, key, snap, tabVars>>

-----------------------------------------------------------------------------
Boot(p) == Validate(p) \/ Lock(p) \/ SyncBeforeReread(p) \/ Reread(p) \/ Publish(p)

\* The steps of a save that the server itself takes.
Handle(c) ==
    \/ Save(c) \/ WriteTemp(c) \/ StorageFails(c) \/ RecheckDisk(c)
    \/ FinalCheck(c) \/ Rename(c) \/ DirectorySync(c) \/ DirectorySyncFails(c)

Next ==
    \/ \E p \in Procs : Boot(p) \/ Stop(p) \/ Close(p)
    \/ \E c \in Clients : Handle(c) \/ CSRFExpires(c)
    \/ \E c \in Clients, p \in Procs, id \in Ids : Get(c, p, id)
    \/ \E c \in Clients, p \in Procs, e \in Edits \cup {None} : Post(c, p, e)
    \/ \E b \in OperatorFiles : OperatorWrites(b)
    \/ Refresh \/ SnapshotStale \/ PowerLoss

Spec == Init /\ [][Next]_vars

\* Go's scheduler runs every handler, and sync.Mutex starves no waiter.
Fairness == \A c \in Clients : WF_vars(Handle(c)) /\ SF_vars(Save(c))
FairSpec == Spec /\ Fairness

-----------------------------------------------------------------------------
(* Properties. *)

Holders == {"locked", "synced", "reread", "live"}

\* At most one process has passed the lock, and only it works on a save: the
\* kernel's flock, taken before the second read and kept until exit, is what
\* makes the byte comparisons of checkDisk a compare-and-swap.
OneWriter ==
    /\ \A p \in Procs : phase[p] \in Holders => lockOwner = p
    /\ \A c \in Clients : stage[c] \in Saving => phase[at[c]] = "live"

\* With a cooperating operator, what a serving process shows is exactly what
\* every power loss would leave, except between a rename and its directory
\* sync.  A view published before the sync, or a file renamed before its
\* fsync, breaks this.
ConfirmedViewIsDurable ==
    \A p \in Procs :
        (/\ phase[p] = "live" /\ ~disabled[p]
         /\ \A c \in Clients : at[c] = p => stage[c] # "renamed")
        => durable = {[bytes |-> view[p], synced |-> TRUE]}

\* A power loss decides between the confirmed document and at most one
\* unconfirmed save, both whole: saves never pile up on an uncertain one, also
\* after directory.Sync failed and the editor disabled itself.
OneUnsettledSave ==
    \A p \in Procs : phase[p] = "live" =>
        \A e \in durable : e.synced /\ e.bytes \in {view[p], file.bytes}

\* No lost update: a save replaces exactly the bytes its form was made from,
\* whatever happened to other tabs, other processes, crashes and (offline)
\* hand edits between the form and the rename.
NoLostUpdate == [][\A c \in Clients : Rename(c) => file.bytes = form[c].seen]_vars

\* A save changes one entry's name, url and icon and nothing else of the
\* document the user saw: category, order and unrelated entries survive.
SaveKeepsTheRest ==
    [][\A c \in Clients : Rename(c) =>
          \A i \in Ids :
              /\ file'.bytes.doc[i].org = form[c].seen.doc[i].org
              /\ i # form[c].id => file'.bytes.doc[i] = form[c].seen.doc[i]]_vars

\* Every save the server accepted is answered, or its process is gone: no path
\* through commit keeps e.mu.
SaveIsAnswered == \A c \in Clients : stage[c] = "sent" ~> stage[c] = "form"
=============================================================================
