------------------------ MODULE MetadataEditorProofs ------------------------
(***************************************************************************)
(* Proofs about the metadata editor, for any number of processes, tabs,    *)
(* hosts, edits and keys.                                                  *)
(***************************************************************************)
EXTENDS MetadataEditorHistory, MetadataEditorRegister, TLAPS

Serving == {"live", "closed"}
Busy == Saving \cup {"sent"}
WithTemp == {"written", "rechecked", "authorised", "renamed"}

\* Which process serves a save, and what that process is doing.
ServedInv ==
    \A c \in Clients :
        /\ stage[c] # "idle" => form[c] \in Form
        /\ stage[c] \in Busy => at[c] \in Procs /\ phase[at[c]] \in Serving
        /\ stage[c] \notin Busy => at[c] = None
        /\ stage[c] \in Saving => phase[at[c]] = "live" /\ ~disabled[at[c]]

LockInv == \A p \in Procs : phase[p] \in Holders => lockOwner = p

\* e.mu: one save at a time in a process.
MutexInv ==
    \A c, d \in Clients :
        stage[c] \in Saving /\ stage[d] \in Saving /\ at[c] = at[d] => c = d

\* A save works from the view its form showed, on a synced temporary file.
SaveInv ==
    \A c \in Clients :
        /\ stage[c] \in Saving => form[c].seen = view[at[c]]
        /\ stage[c] \in WithTemp =>
              temp[c] = [bytes |-> Serialize(Mutate(form[c].seen.doc, form[c].id, edit[c])),
                         synced |-> TRUE]

\* A serving process has a key; none is disabled before it serves, and one that
\* closed the editor is.
ProcessInv ==
    \A p \in Procs :
        /\ phase[p] \in Serving => key[p] \in Keys
        /\ phase[p] \notin Serving => ~disabled[p]
        /\ phase[p] = "closed" => disabled[p]

\* What holds whatever the operator does.
BaseInv == TypeOK /\ ServedInv /\ LockInv /\ MutexInv /\ SaveInv /\ ProcessInv

\* What the lock holder's view says about the disk.
DiskInv ==
    /\ file \in durable
    /\ \A c \in Clients : stage[c] = "renamed" => file = temp[c]
    /\ \A p \in Procs :
          /\ phase[p] = "reread" => file = [bytes |-> view[p], synced |-> TRUE]
          /\ phase[p] = "live" => \A e \in durable : e.synced /\ e.bytes \in {view[p], file.bytes}
          /\ (/\ phase[p] = "live" /\ ~disabled[p]
              /\ \A c \in Clients : at[c] = p => stage[c] # "renamed") => file.bytes = view[p]

\* With an operator who writes only while no process holds the lock.
IInv == BaseInv /\ DiskInv

-----------------------------------------------------------------------------
(* Operators. *)

\* A torn file is a file.
LEMMA TornType == Torn \in Bytes
BY DEF Torn, Bytes, NoDocument, Document, Entry

\* mutateServiceMetadata turns documents into documents.
LEMMA MutateType ==
    ASSUME NEW d \in Document, NEW id \in Ids, NEW e \in Edits \cup {None}
    PROVE  Mutate(d, id, e) \in Document
BY DEF Mutate, Document, Entry

\* Only the selected entry's name, url and icon change.
LEMMA MutateKeeps ==
    ASSUME NEW d \in Document, NEW id \in Ids, NEW e \in Edits \cup {None},
           NEW i \in Ids
    PROVE  /\ Mutate(d, id, e)[i].org = d[i].org
           /\ i # id => Mutate(d, id, e)[i] = d[i]
BY DEF Mutate, Document, Entry

-----------------------------------------------------------------------------
(* Types. *)

\* The editor starts with well-typed state.
LEMMA TypeInit == Init => TypeOK
<1>1. SUFFICES ASSUME Init PROVE TypeOK
  OBVIOUS
<1>2. file \in Inode
  BY <1>1, EditorAssumption DEF Init, Inode
<1>3. QED
  BY <1>1, <1>2, TornType DEF Init, TypeOK, Phases, Stages, Answers

\* The temporary file of a save under way is an inode with a document in it.
LEMMA TempType ==
    ASSUME BaseInv, NEW c \in Clients, stage[c] \in WithTemp
    PROVE  temp[c] \in Inode
<1>1. form[c] \in Form /\ edit[c] \in Edits \cup {None}
  BY DEF BaseInv, ServedInv, TypeOK, WithTemp
<1>2. Mutate(form[c].seen.doc, form[c].id, edit[c]) \in Document
  BY <1>1, MutateType DEF Form, Bytes
<1>3. temp[c] = [bytes |-> Serialize(Mutate(form[c].seen.doc, form[c].id, edit[c])),
                 synced |-> TRUE]
  BY DEF BaseInv, SaveInv
<1>4. Serialize(Mutate(form[c].seen.doc, form[c].id, edit[c])) \in Bytes
  BY <1>2 DEF Serialize, Bytes
<1>5. QED
  BY <1>3, <1>4 DEF Inode

\* Every step of the editor keeps the types.
LEMMA TypeStep == BaseInv /\ [Next]_vars => TypeOK'
<1> SUFFICES ASSUME BaseInv, [Next]_vars PROVE TypeOK'
  OBVIOUS
<1> USE DEF TypeOK, BaseInv
<1>1. ASSUME NEW p \in Procs, Validate(p) PROVE TypeOK'
  BY <1>1 DEF Validate, Advance, SyncFile, Inode, Phases, tabVars
<1>2. ASSUME NEW p \in Procs, Lock(p) PROVE TypeOK'
  BY <1>2 DEF Lock, Advance, Phases, tabVars, diskVars
<1>3. ASSUME NEW p \in Procs, SyncBeforeReread(p) PROVE TypeOK'
  BY <1>3 DEF SyncBeforeReread, Advance, SyncDirectory, Phases, tabVars
<1>4. ASSUME NEW p \in Procs, Reread(p) PROVE TypeOK'
  BY <1>4 DEF Reread, Advance, SyncFile, Inode, Phases, tabVars
<1>5. ASSUME NEW p \in Procs, Publish(p) PROVE TypeOK'
  BY <1>5 DEF Publish, Advance, SyncDirectory, Phases, tabVars, FreshKeys
<1>6. ASSUME NEW P \in SUBSET Procs, Halt(P)
      PROVE  TypeOK' \/ ~(file' \in Inode /\ durable' \in SUBSET Inode)
  BY <1>6, TornType DEF Halt, Drop, Phases, Stages, Answers
<1>7. ASSUME NEW p \in Procs, Stop(p) PROVE TypeOK'
  BY <1>6, <1>7 DEF Stop, diskVars
<1>8. ASSUME NEW p \in Procs, Close(p) PROVE TypeOK'
  BY <1>8 DEF Close, Advance, Phases, tabVars, diskVars
<1>9. CASE PowerLoss
  <2>1. file' \in Inode
    <3>1. PICK e \in durable : \/ file' = [e EXCEPT !.synced = TRUE]
                                \/ file' = [bytes |-> Torn, synced |-> TRUE]
      BY <1>9 DEF PowerLoss
    <3>2. e.bytes \in Bytes
      BY <3>1 DEF Inode
    <3>3. CASE file' = [e EXCEPT !.synced = TRUE]
      <4>1. e \in [bytes : Bytes, synced : BOOLEAN]
        BY <3>1 DEF Inode
      <4>2. [e EXCEPT !.synced = TRUE] \in [bytes : Bytes, synced : BOOLEAN]
        BY <4>1
      <4>3. QED
        BY <3>3, <4>2 DEF Inode
    <3>4. CASE file' = [bytes |-> Torn, synced |-> TRUE]
      BY <3>4, TornType DEF Inode
    <3>5. QED
      BY <3>1, <3>3, <3>4
  <2>2. QED
    BY <1>6, <1>9, <2>1 DEF PowerLoss
<1>10. ASSUME NEW c \in Clients, Save(c) PROVE TypeOK'
  BY <1>10 DEF Save, Respond, Reach, Stages, Saving, Answers, diskVars, procVars
<1>11. ASSUME NEW c \in Clients, WriteTemp(c) PROVE TypeOK'
  <2>1. /\ form[c] \in Form /\ at[c] \in Procs
    BY <1>11 DEF WriteTemp, ServedInv, Busy, Saving
  <2>2. Mutate(view[at[c]].doc, form[c].id, edit[c]) \in Document
    BY <2>1, MutateType DEF Form, Bytes
  <2>3. TempFile(c) \in Inode
    BY <2>2 DEF TempFile, Serialize, Inode, Bytes
  <2>4. QED
    BY <1>11, <2>3 DEF WriteTemp, Stages, Saving, diskVars, procVars
<1>12. ASSUME NEW c \in Clients, StorageFails(c) PROVE TypeOK'
  BY <1>12 DEF StorageFails, Respond, Stages, Answers, diskVars, procVars
<1>13. ASSUME NEW c \in Clients, RecheckDisk(c) PROVE TypeOK'
  BY <1>13 DEF RecheckDisk, Respond, Reach, Stages, Saving, Answers, diskVars, procVars
<1>14. ASSUME NEW c \in Clients, FinalCheck(c) PROVE TypeOK'
  BY <1>14 DEF FinalCheck, Respond, Reach, Stages, Saving, Answers, diskVars, procVars
<1>15. ASSUME NEW c \in Clients, Rename(c) PROVE TypeOK'
  <2>1. temp[c] \in Inode
    BY <1>15, TempType DEF Rename, WithTemp
  <2>2. QED
    BY <1>15, <2>1 DEF Rename, Reach, Stages, Saving, procVars
<1>16. ASSUME NEW c \in Clients, DirectorySync(c) PROVE TypeOK'
  <2>1. temp[c].bytes \in Bytes
    BY <1>16, TempType DEF DirectorySync, WithTemp, Inode
  <2>2. QED
    BY <1>16, <2>1 DEF DirectorySync, Confirm, SyncDirectory, Respond, Stages, Answers
<1>17. ASSUME NEW c \in Clients, DirectorySyncFails(c) PROVE TypeOK'
  BY <1>17 DEF DirectorySyncFails, Respond, Stages, Answers, diskVars
<1>18. ASSUME NEW c \in Clients, CSRFExpires(c) PROVE TypeOK'
  BY <1>18 DEF CSRFExpires, diskVars, procVars
<1>19. ASSUME NEW c \in Clients, NEW p \in Procs, NEW id \in Ids, Get(c, p, id) PROVE TypeOK'
  <2>1. [id |-> id, key |-> key[p], seen |-> view[p], target |-> snap.target[id]] \in Form
    BY <1>19 DEF Get, Form, ProcessInv, Serving
  <2>2. QED
    BY <1>19, <2>1 DEF Get, Stages, Answers, diskVars, procVars
<1>20. ASSUME NEW c \in Clients, NEW p \in Procs, NEW e \in Edits \cup {None}, Post(c, p, e)
       PROVE TypeOK'
  BY <1>20 DEF Post, Respond, Stages, Answers, diskVars, procVars
<1>21. ASSUME NEW b \in OperatorFiles, OperatorWrites(b) PROVE TypeOK'
  <2>1. [bytes |-> b, synced |-> FALSE] \in Inode
    BY <1>21, EditorAssumption DEF Inode
  <2>2. QED
    BY <1>21, <2>1 DEF OperatorWrites, procVars, tabVars
<1>22. CASE Refresh
  BY <1>22, EditorAssumption DEF Refresh, diskVars, procVars, tabVars
<1>23. CASE SnapshotStale
  BY <1>23 DEF SnapshotStale, diskVars, procVars, tabVars
<1>24. CASE UNCHANGED vars
  BY <1>24 DEF vars, diskVars, procVars, tabVars
<1>25. QED
  BY <1>1, <1>2, <1>3, <1>4, <1>5, <1>7, <1>8, <1>9, <1>10, <1>11, <1>12, <1>13, <1>14,
     <1>15, <1>16, <1>17, <1>18, <1>19, <1>20, <1>21, <1>22, <1>23, <1>24
     DEF Next, Boot, Handle

-----------------------------------------------------------------------------
(* Which process serves which save. *)

\* Startup steps leave requests alone, and none of them is taken by a process
\* that serves.
LEMMA BootServed ==
    ASSUME BaseInv, NEW p \in Procs, Boot(p)
    PROVE  ServedInv'
<1> USE DEF BaseInv, ServedInv, TypeOK, Serving, Advance, tabVars, diskVars
<1>1. CASE Validate(p)
  BY <1>1 DEF Validate
<1>2. CASE Lock(p)
  BY <1>2 DEF Lock
<1>3. CASE SyncBeforeReread(p)
  BY <1>3 DEF SyncBeforeReread
<1>4. CASE Reread(p)
  BY <1>4 DEF Reread
<1>5. CASE Publish(p)
  BY <1>5 DEF Publish
<1>6. QED
  BY <1>1, <1>2, <1>3, <1>4, <1>5 DEF Boot

\* When processes halt, the requests they served are gone with them.
LEMMA HaltServed ==
    ASSUME BaseInv, NEW P \in SUBSET Procs, Halt(P)
    PROVE  ServedInv'
<1> SUFFICES ASSUME NEW c \in Clients
             PROVE  /\ stage'[c] # "idle" => form'[c] \in Form
                    /\ stage'[c] \in Busy => at'[c] \in Procs /\ phase'[at'[c]] \in Serving
                    /\ stage'[c] \notin Busy => at'[c] = None
                    /\ stage'[c] \in Saving => phase'[at'[c]] = "live" /\ ~disabled'[at'[c]]
  BY DEF ServedInv
<1> USE DEF BaseInv, ServedInv, TypeOK, Busy, Saving
<1>1. CASE at[c] \in P
  BY <1>1, EditorAssumption DEF Halt, Drop
<1>2. CASE at[c] \notin P
  BY <1>2 DEF Halt, Drop
<1>3. QED
  BY <1>1, <1>2

\* A save is served by one serving process, and worked on by one that is live
\* and may still write.
LEMMA ServedStep == BaseInv /\ [Next]_vars => ServedInv'
<1> SUFFICES ASSUME BaseInv, [Next]_vars PROVE ServedInv'
  OBVIOUS
<1> USE DEF BaseInv, TypeOK, ServedInv, Busy, Saving, Serving
<1>1. ASSUME NEW p \in Procs, Boot(p) PROVE ServedInv'
  BY <1>1, BootServed
<1>2. ASSUME NEW p \in Procs, Stop(p) PROVE ServedInv'
  BY <1>2, HaltServed DEF Stop
<1>3. ASSUME NEW p \in Procs, Close(p) PROVE ServedInv'
  BY <1>3 DEF Close, Advance, MutexFree, tabVars
<1>4. CASE PowerLoss
  BY <1>4, HaltServed DEF PowerLoss
<1>5. ASSUME NEW c \in Clients, Save(c) PROVE ServedInv'
  <2>1. phase[at[c]] = "live" \/ disabled[at[c]]
    BY <1>5 DEF ProcessInv, Save
  <2>2. QED
    BY <1>5, <2>1 DEF Save, Respond, Reach, procVars
<1>6. ASSUME NEW c \in Clients, WriteTemp(c) PROVE ServedInv'
  BY <1>6 DEF WriteTemp, procVars
<1>7. ASSUME NEW c \in Clients, StorageFails(c) PROVE ServedInv'
  BY <1>7 DEF StorageFails, Respond, procVars
<1>8. ASSUME NEW c \in Clients, RecheckDisk(c) PROVE ServedInv'
  BY <1>8 DEF RecheckDisk, Respond, Reach, procVars
<1>9. ASSUME NEW c \in Clients, FinalCheck(c) PROVE ServedInv'
  BY <1>9 DEF FinalCheck, Respond, Reach, procVars
<1>10. ASSUME NEW c \in Clients, Rename(c) PROVE ServedInv'
  BY <1>10 DEF Rename, Reach, procVars
<1>11. ASSUME NEW c \in Clients, DirectorySync(c) PROVE ServedInv'
  BY <1>11 DEF DirectorySync, Respond
<1>12. ASSUME NEW c \in Clients, DirectorySyncFails(c) PROVE ServedInv'
  BY <1>12 DEF DirectorySyncFails, Respond, MutexInv
<1>13. ASSUME NEW c \in Clients, CSRFExpires(c) PROVE ServedInv'
  BY <1>13 DEF CSRFExpires, procVars
<1>14. ASSUME NEW c \in Clients, NEW p \in Procs, NEW id \in Ids, Get(c, p, id) PROVE ServedInv'
  <2>1. [id |-> id, key |-> key[p], seen |-> view[p], target |-> snap.target[id]] \in Form
    BY <1>14 DEF Get, Form, ProcessInv
  <2>2. QED
    BY <1>14, <2>1 DEF Get, procVars
<1>15. ASSUME NEW c \in Clients, NEW p \in Procs, NEW e \in Edits \cup {None}, Post(c, p, e)
       PROVE ServedInv'
  BY <1>15 DEF Post, Respond, procVars
<1>16. ASSUME NEW b \in OperatorFiles, OperatorWrites(b) PROVE ServedInv'
  BY <1>16 DEF OperatorWrites, procVars, tabVars
<1>17. CASE Refresh \/ SnapshotStale \/ UNCHANGED vars
  BY <1>17 DEF Refresh, SnapshotStale, vars, procVars, tabVars
<1>18. QED
  BY <1>1, <1>2, <1>3, <1>4, <1>5, <1>6, <1>7, <1>8, <1>9, <1>10, <1>11, <1>12, <1>13,
     <1>14, <1>15, <1>16, <1>17
     DEF Next, Handle

-----------------------------------------------------------------------------
(* The lock, e.mu and the save. *)

\* A process passes the lock only by taking it, and loses it only on its way
\* out.
LEMMA LockStep == BaseInv /\ [Next]_vars => LockInv'
<1> SUFFICES ASSUME BaseInv, [Next]_vars PROVE LockInv'
  OBVIOUS
<1> USE DEF BaseInv, TypeOK, LockInv, Holders
<1>1. ASSUME NEW p \in Procs, Boot(p) PROVE LockInv'
  <2>1. CASE Validate(p)
    BY <2>1 DEF Validate, Advance
  <2>2. CASE Lock(p)
    BY <2>2, EditorAssumption DEF Lock, LockFree, Advance
  <2>3. CASE SyncBeforeReread(p) \/ Reread(p) \/ Publish(p)
    BY <2>3 DEF SyncBeforeReread, Reread, Publish, Advance
  <2>4. QED
    BY <1>1, <2>1, <2>2, <2>3 DEF Boot
<1>2. ASSUME NEW P \in SUBSET Procs, Halt(P) PROVE LockInv'
  BY <1>2 DEF Halt
<1>3. ASSUME NEW p \in Procs, Close(p) PROVE LockInv'
  BY <1>3 DEF Close, Advance
<1>4. CASE UNCHANGED <<phase, lockOwner>>
  BY <1>4
<1>5. ASSUME NEW c \in Clients, Handle(c) PROVE UNCHANGED <<phase, lockOwner>>
  BY <1>5 DEF Handle, Save, WriteTemp, StorageFails, RecheckDisk, FinalCheck, Rename,
              DirectorySync, DirectorySyncFails, procVars
<1>6. QED
  BY <1>1, <1>2, <1>3, <1>4, <1>5
     DEF Next, Stop, PowerLoss, CSRFExpires, Get, Post, OperatorWrites, Refresh, SnapshotStale,
         vars, procVars

\* A save under way after a step was under way before it, or was just let in:
\* either way tab, process and request are the same.
LEMMA SavingStep ==
    ASSUME BaseInv, [Next]_vars, NEW c \in Clients, stage'[c] \in Saving
    PROVE  /\ at'[c] = at[c] /\ form'[c] = form[c] /\ edit'[c] = edit[c]
           /\ \/ Save(c) /\ stage'[c] = "vetted"
              \/ WriteTemp(c)
              \/ RecheckDisk(c) /\ stage'[c] = "rechecked" /\ temp' = temp
              \/ FinalCheck(c) /\ stage'[c] = "authorised" /\ temp' = temp
              \/ Rename(c)
              \/ stage'[c] = stage[c] /\ temp'[c] = temp[c]
<1> DEFINE Goal == /\ at'[c] = at[c] /\ form'[c] = form[c] /\ edit'[c] = edit[c]
                   /\ \/ Save(c) /\ stage'[c] = "vetted"
                      \/ WriteTemp(c)
                      \/ RecheckDisk(c) /\ stage'[c] = "rechecked" /\ temp' = temp
                      \/ FinalCheck(c) /\ stage'[c] = "authorised" /\ temp' = temp
                      \/ Rename(c)
                      \/ stage'[c] = stage[c] /\ temp'[c] = temp[c]
<1> USE DEF BaseInv, TypeOK, Saving
<1>1. ASSUME NEW p \in Procs, Boot(p) \/ Close(p) PROVE Goal
  BY <1>1 DEF Boot, Validate, Lock, SyncBeforeReread, Reread, Publish, Close, tabVars
<1>2. ASSUME NEW P \in SUBSET Procs, Halt(P) PROVE Goal
  BY <1>2 DEF Halt, Drop
<1>3. ASSUME NEW d \in Clients \ {c}, Handle(d) PROVE Goal
  BY <1>3 DEF Handle, Save, WriteTemp, StorageFails, RecheckDisk, FinalCheck, Rename,
              DirectorySync, DirectorySyncFails, Respond, Reach
<1>4. ASSUME Handle(c) PROVE Goal
  <2>1. CASE Save(c) \/ WriteTemp(c) \/ Rename(c)
    BY <2>1 DEF Save, WriteTemp, Rename, Respond, Reach
  <2>2. CASE RecheckDisk(c) \/ FinalCheck(c)
    BY <2>2 DEF RecheckDisk, FinalCheck, Respond, Reach
  <2>3. CASE StorageFails(c) \/ DirectorySync(c) \/ DirectorySyncFails(c)
    BY <2>3 DEF StorageFails, DirectorySync, DirectorySyncFails, Respond
  <2>4. QED
    BY <1>4, <2>1, <2>2, <2>3 DEF Handle
<1>5. ASSUME NEW d \in Clients, NEW p \in Procs,
             \/ CSRFExpires(d)
             \/ \E id \in Ids : Get(d, p, id)
             \/ \E e \in Edits \cup {None} : Post(d, p, e)
      PROVE  Goal
  BY <1>5 DEF CSRFExpires, Get, Post, Respond
<1>6. ASSUME \/ \E b \in OperatorFiles : OperatorWrites(b)
             \/ Refresh \/ SnapshotStale \/ UNCHANGED vars
      PROVE  Goal
  BY <1>6 DEF OperatorWrites, Refresh, SnapshotStale, vars, tabVars
<1>7. ASSUME NEW d \in Clients, CSRFExpires(d) PROVE Goal
  BY <1>7 DEF CSRFExpires
<1>8. QED
  BY <1>1, <1>2, <1>3, <1>4, <1>5, <1>6, <1>7 DEF Next, Stop, PowerLoss

\* e.mu admits one save of a process at a time.
LEMMA MutexStep == BaseInv /\ [Next]_vars => MutexInv'
<1> SUFFICES ASSUME BaseInv, [Next]_vars, NEW c \in Clients, NEW d \in Clients,
                    stage'[c] \in Saving, stage'[d] \in Saving, at'[c] = at'[d], c # d
             PROVE  FALSE
  BY DEF MutexInv
<1>1. /\ stage[c] \in Saving \/ Save(c)
      /\ stage[d] \in Saving \/ Save(d)
      /\ at[c] = at[d]
  BY SavingStep DEF Saving, WriteTemp, RecheckDisk, FinalCheck, Rename
<1>2. ASSUME NEW e \in Clients, NEW f \in Clients, e # f, Save(e),
             stage'[f] \in Saving, at[e] = at[f]
      PROVE  FALSE
  <2>1. stage'[f] = stage[f]
    BY <1>2 DEF Save, Respond, Reach, BaseInv, TypeOK
  <2>2. QED
    BY <1>2, <2>1 DEF Save, MutexFree, Saving
<1>3. QED
  BY <1>1, <1>2 DEF BaseInv, MutexInv

\* While a process works on a save, its view does not change.
LEMMA ViewStep ==
    ASSUME BaseInv, [Next]_vars, NEW c \in Clients, stage'[c] \in Saving
    PROVE  view'[at[c]] = view[at[c]]
<1> USE DEF BaseInv, TypeOK
<1>1. /\ at[c] \in Procs /\ phase[at[c]] \in Serving
      /\ stage[c] \in Busy /\ at'[c] = at[c]
  BY SavingStep DEF ServedInv, Busy, Saving, Save, WriteTemp, RecheckDisk, FinalCheck, Rename
<1>2. ASSUME NEW p \in Procs, Boot(p) \/ Close(p) PROVE view'[at[c]] = view[at[c]]
  BY <1>1, <1>2 DEF Boot, Validate, Lock, SyncBeforeReread, Reread, Publish, Close, Advance, Serving
<1>3. ASSUME NEW P \in SUBSET Procs, Halt(P) PROVE view'[at[c]] = view[at[c]]
  <2>1. at[c] \notin P
    BY <1>1, <1>3, EditorAssumption DEF Halt, Drop, Saving
  <2>2. QED
    BY <1>1, <1>3, <2>1 DEF Halt
<1>4. ASSUME NEW d \in Clients, DirectorySync(d) PROVE view'[at[c]] = view[at[c]]
  <2>1. c # d /\ stage[c] \in Saving
    BY <1>4 DEF DirectorySync, Respond, Saving
  <2>2. at[c] # at[d]
    BY <1>4, <2>1 DEF DirectorySync, MutexInv, Saving
  <2>3. QED
    BY <1>1, <1>4, <2>2 DEF DirectorySync, Confirm
<1>5. ASSUME NEW d \in Clients, Handle(d), ~DirectorySync(d) PROVE view' = view
  BY <1>5 DEF Handle, Save, WriteTemp, StorageFails, RecheckDisk, FinalCheck, Rename,
              DirectorySyncFails, procVars
<1>6. ASSUME \/ Refresh \/ SnapshotStale \/ UNCHANGED vars
             \/ \E b \in OperatorFiles : OperatorWrites(b)
             \/ \E d \in Clients : CSRFExpires(d)
             \/ \E d \in Clients, p \in Procs, id \in Ids : Get(d, p, id)
             \/ \E d \in Clients, p \in Procs, e \in Edits \cup {None} : Post(d, p, e)
      PROVE  view' = view
  BY <1>6 DEF OperatorWrites, CSRFExpires, Get, Post, Refresh, SnapshotStale, vars, procVars
<1>7. QED
  BY <1>2, <1>3, <1>4, <1>5, <1>6 DEF Next, Stop, PowerLoss

\* From its first check to its rename a save works on the document its form
\* showed, and what it puts in place is that document with the one edit.
LEMMA SaveStep == BaseInv /\ [Next]_vars => SaveInv'
<1> SUFFICES ASSUME BaseInv, [Next]_vars, NEW c \in Clients, stage'[c] \in Saving
             PROVE  /\ form'[c].seen = view'[at'[c]]
                    /\ stage'[c] \in WithTemp =>
                          temp'[c] = [bytes |-> Serialize(Mutate(form'[c].seen.doc, form'[c].id,
                                                                 edit'[c])),
                                      synced |-> TRUE]
  BY DEF SaveInv, WithTemp, Saving
<1> USE DEF BaseInv, SaveInv
<1>1. form'[c].seen = view'[at'[c]]
  <2>1. at'[c] = at[c] /\ form'[c] = form[c] /\ view'[at[c]] = view[at[c]]
    BY SavingStep, ViewStep
  <2>2. stage[c] \in Saving \/ (Save(c) /\ stage'[c] = "vetted")
    BY SavingStep DEF Saving, WriteTemp, RecheckDisk, FinalCheck, Rename
  <2>3. CASE Save(c) /\ stage'[c] = "vetted"
    BY <2>3, <2>1 DEF Save, Respond, RevisionCurrent, TypeOK
  <2>4. QED
    BY <2>1, <2>2, <2>3
<1>2. ASSUME stage'[c] \in WithTemp
      PROVE  temp'[c] = [bytes |-> Serialize(Mutate(form'[c].seen.doc, form'[c].id, edit'[c])),
                         synced |-> TRUE]
  <2>1. form'[c] = form[c] /\ edit'[c] = edit[c]
    BY SavingStep
  <2>2. CASE WriteTemp(c)
    BY <2>1, <2>2 DEF WriteTemp, TempFile, Saving, TypeOK
  <2>3. CASE ~WriteTemp(c)
    <3>1. stage[c] \in WithTemp /\ temp'[c] = temp[c]
      BY <1>2, <2>3, SavingStep DEF WithTemp, RecheckDisk, FinalCheck, Rename, Reach
    <3>2. QED
      BY <2>1, <3>1
  <2>4. QED
    BY <2>2, <2>3
<1>3. QED
  BY <1>1, <1>2

\* A process gets its key before it serves and is disabled only while it does.
LEMMA ProcessStep == BaseInv /\ [Next]_vars => ProcessInv'
<1> SUFFICES ASSUME BaseInv, [Next]_vars PROVE ProcessInv'
  OBVIOUS
<1> USE DEF BaseInv, TypeOK, ProcessInv, Serving
<1>1. ASSUME NEW p \in Procs, Boot(p) \/ Close(p) PROVE ProcessInv'
  BY <1>1 DEF Boot, Validate, Lock, SyncBeforeReread, Reread, Publish, Close, Advance, FreshKeys
<1>2. ASSUME NEW P \in SUBSET Procs, Halt(P) PROVE ProcessInv'
  BY <1>2 DEF Halt
<1>3. ASSUME NEW c \in Clients, DirectorySyncFails(c) PROVE ProcessInv'
  BY <1>3 DEF DirectorySyncFails, ServedInv, Saving
<1>4. ASSUME NEW c \in Clients, Handle(c), ~DirectorySyncFails(c)
      PROVE  UNCHANGED <<phase, key, disabled>>
  BY <1>4 DEF Handle, Save, WriteTemp, StorageFails, RecheckDisk, FinalCheck, Rename,
              DirectorySync, procVars
<1>5. CASE UNCHANGED <<phase, key, disabled>>
  BY <1>5
<1>6. QED
  BY <1>1, <1>2, <1>3, <1>4, <1>5
     DEF Next, Stop, PowerLoss, CSRFExpires, Get, Post, OperatorWrites, Refresh, SnapshotStale,
         vars, procVars

\* The invariant holds whatever the operator does.
LEMMA Base == Spec => []BaseInv
<1>1. Init => BaseInv
  <2>1. ASSUME Init PROVE ServedInv /\ LockInv /\ MutexInv /\ SaveInv /\ ProcessInv
    BY <2>1 DEF Init, ServedInv, LockInv, MutexInv, SaveInv, ProcessInv, Busy, Saving, WithTemp,
                Holders, Serving
  <2>2. QED
    BY <2>1, TypeInit DEF BaseInv
<1>2. BaseInv /\ [Next]_vars => BaseInv'
  BY TypeStep, ServedStep, LockStep, MutexStep, SaveStep, ProcessStep DEF BaseInv
<1>3. QED
  BY <1>1, <1>2, PTL DEF Spec

\* Every variable keeps its type: among other things no step puts a document
\* that is not one in place, or a form in front of a user without a key.
THEOREM TypeCorrect == Spec => []TypeOK
<1>1. BaseInv => TypeOK
  BY DEF BaseInv
<1>2. QED
  BY <1>1, Base, PTL

\* One process at a time is past the lock, and every save under way is its.
THEOREM OneWriterHolds == Spec => []OneWriter
<1>1. BaseInv => OneWriter
  BY DEF BaseInv, LockInv, ServedInv, OneWriter
<1>2. QED
  BY <1>1, Base, PTL

-----------------------------------------------------------------------------
(* The disk, with an operator who keeps to the documentation. *)

\* Only one process is past the lock: what it does to the disk no other sees
\* half done.
LEMMA Alone ==
    ASSUME BaseInv, NEW p \in Procs, NEW q \in Procs,
           phase[p] \in Holders, phase[q] \in Holders
    PROVE  p = q
BY DEF BaseInv, LockInv

\* Startup synchronises the disk before the view is published.
LEMMA BootDisk ==
    ASSUME IInv, NEW p \in Procs, Boot(p)
    PROVE  DiskInv'
<1> USE DEF IInv, BaseInv, TypeOK, Holders, Advance, tabVars
<1>1. CASE Validate(p)
  <2>1. /\ file' = [bytes |-> file.bytes, synced |-> TRUE]
        /\ file.synced => file' = file
        /\ durable' = (durable \ {file}) \cup {file'}
    BY <1>1 DEF Validate, SyncFile, Inode
  <2>2. \A q \in Procs : phase'[q] \in {"reread", "live"} => phase[q] = phase'[q]
    BY <1>1 DEF Validate
  <2>3. \A c \in Clients : stage[c] = "renamed" => file.synced
    BY DEF DiskInv, SaveInv, WithTemp
  <2>4. UNCHANGED <<view, disabled, stage, at, temp>>
    BY <1>1 DEF Validate
  <2>5. \A c \in Clients : stage'[c] = "renamed" => file' = temp'[c]
    BY <2>1, <2>3, <2>4 DEF DiskInv
  <2>6. ASSUME NEW q \in Procs
        PROVE  /\ phase'[q] = "reread" => file' = [bytes |-> view'[q], synced |-> TRUE]
               /\ phase'[q] = "live" =>
                     \A e \in durable' : e.synced /\ e.bytes \in {view'[q], file'.bytes}
    <3>1. ASSUME phase'[q] = "reread"
          PROVE  file' = [bytes |-> view'[q], synced |-> TRUE]
      <4>1. file = [bytes |-> view[q], synced |-> TRUE]
        BY <2>2, <3>1 DEF DiskInv
      <4>2. file.bytes = view[q]
        BY <4>1
      <4>3. QED
        BY <2>1, <2>4, <4>2
    <3>2. ASSUME phase'[q] = "live", NEW e \in durable'
          PROVE  e.synced /\ e.bytes \in {view'[q], file'.bytes}
      <4>1. \A f \in durable : f.synced /\ f.bytes \in {view[q], file.bytes}
        BY <2>2, <3>2 DEF DiskInv
      <4>2. QED
        BY <2>1, <2>4, <4>1
    <3>3. QED
      BY <3>1, <3>2
  <2>7. ASSUME NEW q \in Procs, phase'[q] = "live", ~disabled'[q],
               \A c \in Clients : at'[c] = q => stage'[c] # "renamed"
        PROVE  file'.bytes = view'[q]
    BY <2>1, <2>2, <2>4, <2>7 DEF DiskInv
  <2>8. QED
    BY <2>1, <2>5, <2>6, <2>7 DEF DiskInv
<1>2. CASE Lock(p)
  BY <1>2 DEF Lock, DiskInv, diskVars
<1>3. ASSUME NEW q \in Procs, q # p, phase[p] \in Holders PROVE phase[q] \notin Holders
  BY <1>3, Alone
<1>4. CASE SyncBeforeReread(p)
  BY <1>3, <1>4 DEF SyncBeforeReread, SyncDirectory, DiskInv
<1>5. CASE Reread(p)
  <2>1. file' = [bytes |-> file.bytes, synced |-> TRUE] /\ file' \in durable'
    BY <1>5 DEF Reread, SyncFile, Inode
  <2>2. \A q \in Procs : phase'[q] \in {"reread", "live"} => q = p /\ phase'[q] = "reread"
    BY <1>3, <1>5 DEF Reread
  <2>3. view'[p] = file.bytes
    BY <1>5 DEF Reread
  <2>4. \A c \in Clients : stage'[c] # "renamed"
    <3>1. SUFFICES ASSUME NEW c \in Clients, stage[c] = "renamed" PROVE FALSE
      BY <1>5 DEF Reread
    <3>2. at[c] \in Procs /\ phase[at[c]] = "live"
      BY <3>1 DEF ServedInv, Busy, Saving
    <3>3. QED
      BY <1>3, <1>5, <3>2 DEF Reread
  <2>5. QED
    BY <2>1, <2>2, <2>3, <2>4 DEF DiskInv
<1>6. CASE Publish(p)
  BY <1>3, <1>6 DEF Publish, SyncDirectory, DiskInv
<1>7. QED
  BY <1>1, <1>2, <1>4, <1>5, <1>6 DEF Boot

\* A save changes the disk in two steps, and its process the view in between
\* and after as the disk demands.
LEMMA HandleDisk ==
    ASSUME IInv, NEW c \in Clients, Handle(c)
    PROVE  DiskInv'
<1> USE DEF IInv, BaseInv, TypeOK
<1>1. CASE Save(c) \/ WriteTemp(c) \/ StorageFails(c) \/ RecheckDisk(c) \/ FinalCheck(c)
  <2>1. /\ UNCHANGED <<file, durable, phase, view, disabled>>
        /\ stage[c] # "renamed" /\ stage'[c] # "renamed"
        /\ \A d \in Clients \ {c} : stage'[d] = stage[d] /\ at'[d] = at[d] /\ temp'[d] = temp[d]
    BY <1>1 DEF Save, WriteTemp, StorageFails, RecheckDisk, FinalCheck, Respond, Reach,
                diskVars, procVars
  <2>2. ASSUME NEW p \in Procs, \A d \in Clients : at'[d] = p => stage'[d] # "renamed"
        PROVE  \A d \in Clients : at[d] = p => stage[d] # "renamed"
    BY <2>1, <2>2
  <2>3. QED
    BY <2>1, <2>2 DEF DiskInv
<1>2. ASSUME stage[c] \in {"authorised", "renamed"}
      PROVE  /\ at[c] \in Procs /\ phase[at[c]] = "live" /\ ~disabled[at[c]]
             /\ \A q \in Procs \ {at[c]} : phase[q] \notin Holders
             /\ \A d \in Clients \ {c} : stage[d] \notin Saving
  <2>1. at[c] \in Procs /\ phase[at[c]] = "live" /\ ~disabled[at[c]]
    BY <1>2 DEF ServedInv, Busy, Saving
  <2>2. \A q \in Procs \ {at[c]} : phase[q] \notin Holders
    BY <2>1, Alone DEF Holders
  <2>3. ASSUME NEW d \in Clients, stage[d] \in Saving PROVE d = c
    <3>1. at[d] \in Procs /\ phase[at[d]] = "live"
      BY <2>3 DEF ServedInv, Busy
    <3>2. at[d] = at[c]
      BY <2>2, <3>1 DEF Holders
    <3>3. QED
      BY <1>2, <2>3, <3>2 DEF MutexInv, Saving
  <2>4. QED
    BY <2>1, <2>2, <2>3
<1>3. ASSUME stage[c] \in WithTemp PROVE temp[c] \in Inode /\ temp[c].synced
  BY <1>3, TempType DEF SaveInv
<1>4. CASE Rename(c)
  <2>1. file.bytes = view[at[c]] /\ \A e \in durable : e.synced /\ e.bytes = view[at[c]]
    BY <1>2, <1>4 DEF Rename, DiskInv, Saving
  <2>2. file' = temp[c] /\ temp[c].synced /\ durable' = durable \cup {temp[c]}
    BY <1>3, <1>4 DEF Rename, WithTemp
  <2>3. stage'[c] = "renamed" /\ \A d \in Clients \ {c} : stage'[d] # "renamed"
    BY <1>2, <1>4 DEF Rename, Reach, Saving
  <2>4. QED
    BY <1>2, <1>4, <2>1, <2>2, <2>3 DEF Rename, Reach, DiskInv, Holders, procVars
<1>5. CASE DirectorySync(c)
  <2>1. file = temp[c] /\ file.synced /\ durable' = {file} /\ file' = file
    BY <1>3, <1>5 DEF DirectorySync, Confirm, SyncDirectory, WithTemp, DiskInv
  <2>2. view'[at[c]] = file.bytes
    BY <1>2, <1>5, <2>1 DEF DirectorySync, Confirm
  <2>3. \A d \in Clients : stage'[d] # "renamed"
    BY <1>2, <1>5 DEF DirectorySync, Respond, Saving
  <2>4. QED
    BY <1>2, <1>5, <2>1, <2>2, <2>3 DEF DirectorySync, DiskInv, Holders
<1>6. CASE DirectorySyncFails(c)
  <2>1. \A d \in Clients : stage'[d] # "renamed"
    BY <1>2, <1>6 DEF DirectorySyncFails, Respond, Saving
  <2>2. QED
    BY <1>2, <1>6, <2>1 DEF DirectorySyncFails, DiskInv, Holders, diskVars
<1>7. QED
  BY <1>1, <1>4, <1>5, <1>6 DEF Handle

\* When processes halt the disk stays as they left it, and no one is left who
\* would take it for something else.
LEMMA HaltDisk ==
    ASSUME IInv, NEW P \in SUBSET Procs, Halt(P), UNCHANGED diskVars
    PROVE  DiskInv'
<1> USE DEF IInv, BaseInv, TypeOK
<1>1. \A q \in Procs : phase'[q] # "down" =>
          q \notin P /\ phase'[q] = phase[q] /\ view'[q] = view[q] /\ disabled'[q] = disabled[q]
  BY DEF Halt
<1>2. \A c \in Clients : stage'[c] = "renamed" => stage[c] = "renamed" /\ temp'[c] = temp[c]
  BY DEF Halt, Drop
<1>3. ASSUME NEW q \in Procs \ P, \A c \in Clients : at'[c] = q => stage'[c] # "renamed"
      PROVE  \A c \in Clients : at[c] = q => stage[c] # "renamed"
  BY <1>3 DEF Halt, Drop
<1>4. QED
  BY <1>1, <1>2, <1>3 DEF DiskInv, diskVars

\* After a power loss the path names something, and nobody is up to see it.
LEMMA PowerLossDisk ==
    ASSUME IInv, PowerLoss
    PROVE  DiskInv'
<1> USE DEF IInv, BaseInv, TypeOK
<1>1. \A q \in Procs : phase'[q] = "down"
  BY DEF PowerLoss, Halt
<1>2. ASSUME NEW c \in Clients PROVE stage'[c] # "renamed"
  BY DEF PowerLoss, Halt, Drop, ServedInv, Busy, Saving
<1>3. QED
  BY <1>1, <1>2 DEF PowerLoss, DiskInv

\* Without the operator's help nothing but the lock holder's save changes what
\* the disk holds, or what it may hold after a power loss.
LEMMA DiskStep ==
    ASSUME ~LiveOperator, IInv, [Next]_vars
    PROVE  DiskInv'
<1> USE DEF IInv, BaseInv, TypeOK
<1>1. ASSUME NEW p \in Procs, Stop(p) PROVE DiskInv'
  BY <1>1, HaltDisk DEF Stop
<1>2. ASSUME NEW p \in Procs, Close(p) PROVE DiskInv'
  BY <1>2 DEF Close, Advance, DiskInv, diskVars, tabVars
<1>3. ASSUME NEW b \in OperatorFiles, OperatorWrites(b) PROVE DiskInv'
  <2>1. \A p \in Procs : phase'[p] \notin Holders
    BY <1>3, EditorAssumption DEF OperatorWrites, LockInv, procVars
  <2>2. \A c \in Clients : stage'[c] # "renamed"
    BY <1>3, <2>1 DEF OperatorWrites, ServedInv, Busy, Saving, Holders, procVars, tabVars
  <2>3. QED
    BY <1>3, <2>1, <2>2 DEF OperatorWrites, DiskInv, Holders
<1>4. ASSUME NEW c \in Clients, NEW p \in Procs,
             \/ CSRFExpires(c)
             \/ \E id \in Ids : Get(c, p, id)
             \/ \E e \in Edits \cup {None} : Post(c, p, e)
      PROVE  DiskInv'
  <2>1. /\ UNCHANGED <<file, durable, phase, view, disabled>>
        /\ \A d \in Clients \ {c} : stage'[d] = stage[d] /\ at'[d] = at[d] /\ temp'[d] = temp[d]
        /\ \/ stage'[c] = stage[c] /\ at'[c] = at[c] /\ temp'[c] = temp[c]
           \/ stage[c] # "renamed" /\ stage'[c] # "renamed"
    BY <1>4 DEF CSRFExpires, Get, Post, Respond, diskVars, procVars, ServedInv, Busy, Saving
  <2>2. \A d \in Clients : stage'[d] = "renamed" => stage[d] = "renamed" /\ temp'[d] = temp[d]
    BY <2>1
  <2>3. ASSUME NEW q \in Procs, \A d \in Clients : at'[d] = q => stage'[d] # "renamed"
        PROVE  \A d \in Clients : at[d] = q => stage[d] # "renamed"
    BY <2>1, <2>3
  <2>4. QED
    BY <2>1, <2>2, <2>3 DEF DiskInv
<1>5. CASE Refresh \/ SnapshotStale \/ UNCHANGED vars
  <2>1. UNCHANGED <<file, durable, phase, view, disabled, stage, at, temp>>
    BY <1>5 DEF Refresh, SnapshotStale, vars, diskVars, procVars, tabVars
  <2>2. QED
    BY <2>1 DEF DiskInv
<1>6. ASSUME NEW c \in Clients, CSRFExpires(c) PROVE DiskInv'
  BY <1>6 DEF CSRFExpires, DiskInv, diskVars, procVars
<1>7. QED
  BY <1>1, <1>2, <1>3, <1>4, <1>5, <1>6, BootDisk, HandleDisk, PowerLossDisk DEF Next

-----------------------------------------------------------------------------
(* Theorems. *)

\* With an operator who stops the server before editing the file, the whole
\* invariant holds.
LEMMA Inductive == ASSUME ~LiveOperator PROVE Spec => []IInv
<1>1. Init => DiskInv
  BY DEF Init, DiskInv
<1>2. BaseInv /\ DiskInv /\ [Next]_vars => DiskInv'
  BY DiskStep DEF IInv
<1>3. QED
  BY <1>1, <1>2, Base, PTL DEF Spec, IInv

\* What a serving process shows is exactly what a power loss would leave,
\* except between a rename and its directory sync.
THEOREM ViewIsDurable == ASSUME ~LiveOperator PROVE Spec => []ConfirmedViewIsDurable
<1>1. ASSUME IInv, NEW p \in Procs, phase[p] = "live", ~disabled[p],
             \A c \in Clients : at[c] = p => stage[c] # "renamed"
      PROVE  durable = {[bytes |-> view[p], synced |-> TRUE]}
  <2>1. file \in durable /\ file.bytes = view[p]
    BY <1>1 DEF IInv, DiskInv
  <2>2. \A e \in durable : e.synced /\ e.bytes = view[p]
    BY <1>1, <2>1 DEF IInv, DiskInv
  <2>3. \A e \in durable : e = [bytes |-> e.bytes, synced |-> e.synced]
    BY <1>1 DEF IInv, BaseInv, TypeOK, Inode
  <2>4. \A e \in durable : e = [bytes |-> view[p], synced |-> TRUE]
    BY <1>1, <2>2, <2>3 DEF IInv, BaseInv, TypeOK, Inode
  <2>5. QED
    BY <2>1, <2>4
<1>2. IInv => ConfirmedViewIsDurable
  BY <1>1 DEF ConfirmedViewIsDurable
<1>3. QED
  BY <1>2, Inductive, PTL

\* A power loss decides between the confirmed document and one save.
THEOREM SavesDoNotPileUp == ASSUME ~LiveOperator PROVE Spec => []OneUnsettledSave
<1>1. IInv => OneUnsettledSave
  BY DEF IInv, DiskInv, OneUnsettledSave
<1>2. QED
  BY <1>1, Inductive, PTL

\* A save replaces the bytes its form was made from, and no others.
THEOREM UpdatesAreNotLost == ASSUME ~LiveOperator PROVE Spec => NoLostUpdate
<1>1. ASSUME IInv, NEW c \in Clients, Rename(c) PROVE file.bytes = form[c].seen
  <2>1. at[c] \in Procs /\ phase[at[c]] = "live" /\ ~disabled[at[c]]
        /\ form[c].seen = view[at[c]]
    BY <1>1 DEF IInv, BaseInv, ServedInv, SaveInv, Rename, Busy, Saving
  <2>2. \A d \in Clients : at[d] = at[c] => stage[d] # "renamed"
    BY <1>1, <2>1 DEF IInv, BaseInv, MutexInv, ServedInv, Rename, Busy, Saving
  <2>3. QED
    BY <1>1, <2>1, <2>2 DEF IInv, DiskInv
<1>2. IInv => (\A c \in Clients : Rename(c) => file.bytes = form[c].seen)
  BY <1>1
<1>3. QED
  BY <1>2, Inductive, PTL DEF NoLostUpdate

\* Whatever the operator does, a save puts in place the document its user saw
\* with one entry's name, url and icon replaced, and nothing else changed.
THEOREM OneEntryChanges == Spec => SaveKeepsTheRest
<1>1. ASSUME BaseInv, NEW c \in Clients, Rename(c), NEW i \in Ids
      PROVE  /\ file'.bytes.doc[i].org = form[c].seen.doc[i].org
             /\ i # form[c].id => file'.bytes.doc[i] = form[c].seen.doc[i]
  <2>1. form[c] \in Form /\ edit[c] \in Edits \cup {None}
    BY <1>1 DEF BaseInv, ServedInv, TypeOK, Rename
  <2>2. file'.bytes.doc = Mutate(form[c].seen.doc, form[c].id, edit[c])
    <3>1. file' = [bytes |-> Serialize(Mutate(form[c].seen.doc, form[c].id, edit[c])),
                   synced |-> TRUE]
      BY <1>1 DEF BaseInv, SaveInv, Rename, WithTemp
    <3>2. QED
      BY <3>1 DEF Serialize
  <2>3. form[c].seen.doc \in Document /\ form[c].id \in Ids
    BY <2>1 DEF Form, Bytes
  <2>4. /\ Mutate(form[c].seen.doc, form[c].id, edit[c])[i].org = form[c].seen.doc[i].org
        /\ i # form[c].id =>
              Mutate(form[c].seen.doc, form[c].id, edit[c])[i] = form[c].seen.doc[i]
    BY <2>1, <2>3, MutateKeeps
  <2>5. QED
    BY <2>2, <2>4
<1>2. BaseInv => \A c \in Clients : Rename(c) =>
          \A i \in Ids : /\ file'.bytes.doc[i].org = form[c].seen.doc[i].org
                         /\ i # form[c].id => file'.bytes.doc[i] = form[c].seen.doc[i]
  BY <1>1
<1>3. QED
  BY <1>2, Base, PTL DEF SaveKeepsTheRest

-----------------------------------------------------------------------------
(* A save and what happened meanwhile, whatever the operator does. *)

\* What the checks found still holds for the saves nothing overtook.
OvertakenInv ==
    /\ \A c \in Clients \ raced :
          stage[c] \in {"rechecked", "authorised"} => file.bytes = form[c].seen
    /\ RevokedSaveNeverLands

\* History variables take no step away from the editor.
LEMMA HistoryKeeps == HistorySpec => Spec
<1>1. HistoryInit => Init
  BY DEF HistoryInit
<1>2. [HistoryNext]_HistoryVars => [Next]_vars
  BY DEF HistoryNext, HistoryVars
<1>3. QED
  BY <1>1, <1>2, PTL DEF HistorySpec, Spec

\* A process that serves a save keeps its key to the end of it.
LEMMA KeyStep ==
    ASSUME BaseInv, [Next]_vars, NEW c \in Clients, stage'[c] \in Saving, stage[c] \in Saving
    PROVE  key'[at[c]] = key[at[c]]
<1>1. at'[c] = at[c] /\ at[c] \in Procs /\ phase[at[c]] = "live"
  BY SavingStep DEF BaseInv, ServedInv, Busy
<1>2. ASSUME NEW p \in Procs, Publish(p) PROVE key'[at[c]] = key[at[c]]
  BY <1>1, <1>2 DEF Publish, Advance, BaseInv, TypeOK
<1>3. ASSUME NEW P \in SUBSET Procs, Halt(P) PROVE key'[at[c]] = key[at[c]]
  <2>1. at[c] \notin P
    BY <1>3 DEF Halt, Drop, Saving
  <2>2. QED
    BY <1>1, <1>3, <2>1 DEF Halt
<1>4. ASSUME NEW p \in Procs, Boot(p), ~Publish(p) PROVE key' = key
  BY <1>4 DEF Boot, Validate, Lock, SyncBeforeReread, Reread
<1>5. ASSUME NEW d \in Clients, Handle(d) PROVE key' = key
  BY <1>5 DEF Handle, Save, WriteTemp, StorageFails, RecheckDisk, FinalCheck, Rename,
              DirectorySync, DirectorySyncFails, procVars
<1>6. QED
  BY <1>2, <1>3, <1>4, <1>5
     DEF Next, Stop, Close, PowerLoss, CSRFExpires, Get, Post, OperatorWrites, Refresh, SnapshotStale,
         vars, procVars

LEMMA OvertakenStep ==
    ASSUME BaseInv, OvertakenInv, [HistoryNext]_HistoryVars
    PROVE  OvertakenInv'
<1>1. CASE UNCHANGED HistoryVars
  BY <1>1 DEF OvertakenInv, RevokedSaveNeverLands, HostVisible, ValidCSRF, HistoryVars, vars,
              diskVars, procVars, tabVars
<1>2. ASSUME HistoryNext PROVE OvertakenInv'
  <2>1. [Next]_vars
    BY <1>2 DEF HistoryNext
  <2>2. ASSUME NEW c \in Clients, c \notin raced', stage'[c] \in {"rechecked", "authorised"}
        PROVE  file'.bytes = form'[c].seen
    <3>1. /\ at'[c] = at[c] /\ form'[c] = form[c]
          /\ \/ RecheckDisk(c) /\ stage'[c] = "rechecked"
             \/ FinalCheck(c) /\ stage'[c] = "authorised"
             \/ stage'[c] = stage[c]
      BY <2>1, <2>2, SavingStep DEF Saving, Save, WriteTemp, Rename, Reach, BaseInv, TypeOK
    <3>2. c \notin raced /\ (stage'[c] = stage[c] => file' = file)
      BY <1>2, <2>2 DEF HistoryNext
    <3>3. CASE RecheckDisk(c) /\ stage'[c] = "rechecked"
      <4>1. file' = file /\ DiskUnchanged(at[c])
        BY <3>3 DEF RecheckDisk, Respond, diskVars, BaseInv, TypeOK
      <4>2. form[c].seen = view[at[c]]
        BY <3>3 DEF RecheckDisk, BaseInv, SaveInv, Saving
      <4>3. QED
        BY <3>1, <4>1, <4>2 DEF DiskUnchanged
    <3>4. CASE FinalCheck(c)
      <4>1. file' = file /\ stage[c] = "rechecked"
        BY <3>4 DEF FinalCheck, diskVars
      <4>2. QED
        BY <3>1, <3>2, <4>1 DEF OvertakenInv
    <3>5. CASE stage'[c] = stage[c]
      BY <2>2, <3>1, <3>2, <3>5 DEF OvertakenInv
    <3>6. QED
      BY <3>1, <3>3, <3>4, <3>5
  <2>3. ASSUME NEW c \in Clients, c \notin moved', stage'[c] \in {"authorised", "renamed"}
        PROVE  HostVisible(form[c].id, form[c].target)' /\ ValidCSRF(c, at[c])'
    <3>1. /\ at'[c] = at[c] /\ form'[c] = form[c]
          /\ \/ FinalCheck(c) /\ stage'[c] = "authorised"
             \/ stage[c] \in {"authorised", "renamed"}
      BY <2>1, <2>3, SavingStep DEF Saving, Save, WriteTemp, Rename, Reach, BaseInv, TypeOK
    <3>2. c \notin moved /\ snap' = snap /\ expired' = expired
      BY <1>2, <2>3 DEF HistoryNext
    <3>3. key'[at[c]] = key[at[c]]
      BY <2>1, <2>3, <3>1, KeyStep DEF Saving, FinalCheck
    <3>4. HostVisible(form[c].id, form[c].target) /\ ValidCSRF(c, at[c])
      <4>1. CASE FinalCheck(c) /\ stage'[c] = "authorised"
        BY <4>1 DEF FinalCheck, StillEligible, Respond, BaseInv, TypeOK
      <4>2. CASE stage[c] \in {"authorised", "renamed"}
        BY <3>2, <4>2 DEF OvertakenInv, RevokedSaveNeverLands
      <4>3. QED
        BY <3>1, <4>1, <4>2
    <3>5. QED
      BY <3>1, <3>2, <3>3, <3>4 DEF HostVisible, ValidCSRF
  <2>4. QED
    BY <2>2, <2>3 DEF OvertakenInv, RevokedSaveNeverLands
<1>3. QED
  BY <1>1, <1>2

LEMMA Overtaken == HistorySpec => [](BaseInv /\ OvertakenInv)
<1>1. HistoryInit => OvertakenInv
  BY DEF HistoryInit, Init, OvertakenInv, RevokedSaveNeverLands
<1>2. BaseInv /\ OvertakenInv /\ [HistoryNext]_HistoryVars => OvertakenInv'
  BY OvertakenStep
<1>3. QED
  BY <1>1, <1>2, Base, HistoryKeeps, PTL DEF HistorySpec

\* What is renamed was allowed by the newest snapshot the final check could
\* read: a host hidden before it, or a token expired, stops the save.
THEOREM RevocationStopsSaves == HistorySpec => []RevokedSaveNeverLands
<1>1. OvertakenInv => RevokedSaveNeverLands
  BY DEF OvertakenInv
<1>2. QED
  BY <1>1, Overtaken, PTL

\* A hand edit that was finished before the second disk check is never
\* overwritten, even by an operator who edits under a running server.
THEOREM HandEditsSurvive == HistorySpec => FinishedHandEditSurvives
<1>1. OvertakenInv => \A c \in Clients : Rename(c) /\ c \notin raced => file.bytes = form[c].seen
  BY DEF OvertakenInv, Rename
<1>2. QED
  BY <1>1, Overtaken, PTL DEF FinishedHandEditSurvives

-----------------------------------------------------------------------------
(* The editor implements the register. *)

\* A tab that waits for an answer has none.
AnswerInv == \A c \in Clients : stage[c] \in Busy => answer[c] = "none"

\* The register's state in terms of the editor's.
Possible == {e.bytes : e \in durable} \cup (IF \A e \in durable : e.synced THEN {} ELSE {Torn})
Seen == [c \in Clients |-> IF form[c] = None THEN None ELSE form[c].seen]
Saver == IF Undecided = {} THEN None ELSE CHOOSE c \in Undecided : TRUE

RegisterInv == IInv /\ AnswerInv

LEMMA AnswerStep == ASSUME BaseInv, AnswerInv, [Next]_vars PROVE AnswerInv'
<1>1. ASSUME NEW c \in Clients, stage'[c] \in Busy PROVE answer'[c] = "none"
  <2> USE DEF BaseInv, TypeOK, AnswerInv, Busy, Saving
  <2>1. ASSUME NEW d \in Clients, Handle(d) PROVE answer'[c] = "none"
    BY <1>1, <2>1 DEF Handle, Save, WriteTemp, StorageFails, RecheckDisk, FinalCheck, Rename,
                      DirectorySync, DirectorySyncFails, Respond, Reach
  <2>2. ASSUME NEW d \in Clients, NEW p \in Procs, \E id \in Ids : Get(d, p, id) PROVE answer'[c] = "none"
    BY <1>1, <2>2 DEF Get
  <2>3. ASSUME NEW d \in Clients, NEW p \in Procs, \E e \in Edits \cup {None} : Post(d, p, e)
        PROVE  answer'[c] = "none"
    BY <1>1, <2>3 DEF Post, Respond
  <2>4. ASSUME NEW P \in SUBSET Procs, Halt(P) PROVE answer'[c] = "none"
    BY <1>1, <2>4 DEF Halt, Drop
  <2>5. ASSUME UNCHANGED <<stage, answer>> PROVE answer'[c] = "none"
    BY <1>1, <2>5
  <2>6. ASSUME NEW p \in Procs, Boot(p) PROVE UNCHANGED <<stage, answer>>
    BY <2>6 DEF Boot, Validate, Lock, SyncBeforeReread, Reread, Publish, tabVars
  <2>7. QED
    BY <2>1, <2>2, <2>3, <2>4, <2>5, <2>6
       DEF Next, Stop, Close, PowerLoss, CSRFExpires, OperatorWrites, Refresh, SnapshotStale, vars, tabVars
<1>2. QED
  BY <1>1 DEF AnswerInv

\* At most one save is between its rename and the directory sync.
LEMMA OneUndecided ==
    ASSUME BaseInv, NEW c \in Clients, stage[c] \in {"authorised", "renamed"}
    PROVE  /\ at[c] \in Procs /\ phase[at[c]] = "live" /\ ~disabled[at[c]]
           /\ form[c] \in Form /\ form[c].seen = view[at[c]]
           /\ \A d \in Clients : stage[d] = "renamed" => d = c
           /\ stage[c] = "renamed" => Undecided = {c} /\ Saver = c
           /\ stage[c] = "authorised" => Undecided = {} /\ Saver = None
<1>1. /\ at[c] \in Procs /\ phase[at[c]] = "live" /\ ~disabled[at[c]]
      /\ form[c] \in Form /\ form[c].seen = view[at[c]]
  BY DEF BaseInv, ServedInv, SaveInv, Busy, Saving
<1>2. ASSUME NEW d \in Clients, stage[d] = "renamed" PROVE d = c
  <2>1. at[d] \in Procs /\ phase[at[d]] = "live"
    BY <1>2 DEF BaseInv, ServedInv, Busy, Saving
  <2>2. at[d] = at[c]
    BY <1>1, <2>1, Alone DEF Holders
  <2>3. QED
    BY <1>2, <2>2 DEF BaseInv, MutexInv, Saving
<1>3. stage[c] = "renamed" => Undecided = {c} /\ Saver = c
  BY <1>2 DEF Undecided, Saver
<1>4. stage[c] = "authorised" => Undecided = {} /\ Saver = None
  BY <1>2 DEF Undecided, Saver
<1>5. QED
  BY <1>1, <1>2, <1>3, <1>4

LEMMA SomeSaver ==
    ASSUME BaseInv, NEW c \in Clients
    PROVE  Saver = c <=> stage[c] = "renamed"
<1>1. CASE stage[c] = "renamed"
  BY <1>1, OneUndecided
<1>2. CASE stage[c] # "renamed"
  BY <1>2, EditorAssumption DEF Saver, Undecided
<1>3. QED
  BY <1>1, <1>2

\* What a power loss may leave is what is now there, when all of it is synced.
LEMMA SettledDisk ==
    ASSUME IInv, \A e \in durable : e.synced /\ e.bytes = file.bytes
    PROVE  Possible = {file.bytes}
BY DEF IInv, DiskInv, Possible

\* Syncing the file or its directory rules outcomes out and adds none.
LEMMA SyncSettles ==
    ASSUME IInv, \/ SyncFile
                 \/ SyncDirectory
    PROVE  /\ file'.bytes = file.bytes
           /\ Possible' \in {S \in SUBSET Possible : file.bytes \in S}
<1>1. file \in durable /\ file \in Inode
  BY DEF IInv, DiskInv, BaseInv, TypeOK
<1>2. /\ file'.bytes = file.bytes /\ file' \in durable'
      /\ \A e \in durable' : e \in durable \/ (e = file' /\ e.synced)
      /\ file'.synced \/ file' = file
  BY <1>1 DEF SyncFile, SyncDirectory, Inode
<1>3. \A e \in durable' : \E f \in durable : f.bytes = e.bytes
  BY <1>1, <1>2
<1>4. (\A e \in durable : e.synced) => \A e \in durable' : e.synced
  BY <1>2
<1>5. QED
  BY <1>2, <1>3, <1>4 DEF Possible

\* The actions of the register, in terms of the editor.
LEMMA RegisterActions ==
    ASSUME NEW u \in Clients
    PROVE  /\ Register!Read(u) <=>
                /\ Possible = {file.bytes}
                /\ Seen' = [Seen EXCEPT ![u] = file.bytes]
                /\ answer' = [answer EXCEPT ![u] = "none"]
                /\ file'.bytes = file.bytes /\ Possible' = Possible /\ Saver' = Saver
           /\ Register!Swap(u) <=>
                /\ Saver = None /\ Seen[u] = file.bytes /\ Possible = {file.bytes}
                /\ \E w \in Bytes : /\ <<file.bytes, w>> \in EntryEdits
                                    /\ file'.bytes = w /\ Possible' = Possible \cup {w}
                /\ Saver' = u /\ Seen' = Seen /\ answer' = answer
           /\ Register!Acknowledge(u) <=>
                /\ Saver = u /\ Possible' = {file.bytes} /\ Saver' = None
                /\ answer' = [answer EXCEPT ![u] = "saved"]
                /\ file'.bytes = file.bytes /\ Seen' = Seen
           /\ Register!Doubt(u) <=>
                /\ Saver = u /\ Saver' = None
                /\ answer' = [answer EXCEPT ![u] = "uncertain"]
                /\ file'.bytes = file.bytes /\ Possible' = Possible /\ Seen' = Seen
           /\ Register!Refuse(u) <=>
                /\ Saver # u /\ \E a \in {"none", "uncertain"} : answer' = [answer EXCEPT ![u] = a]
                /\ file'.bytes = file.bytes /\ Possible' = Possible /\ Seen' = Seen /\ Saver' = Saver
<1>1. QED
  BY DEF Register!Read, Register!Swap, Register!Acknowledge, Register!Doubt, Register!Refuse,
         Possible, Seen, Saver

LEMMA RegisterSurroundings ==
    /\ Register!Settle <=>
        /\ Possible' \in {S \in SUBSET Possible : file.bytes \in S}
        /\ file'.bytes = file.bytes /\ Seen' = Seen /\ Saver' = Saver /\ answer' = answer
    /\ Register!Crash <=>
        /\ Saver' = None
        /\ \E lost \in SUBSET Clients :
              answer' = [c \in Clients |-> IF c \in lost THEN "none" ELSE answer[c]]
        /\ \/ file'.bytes = file.bytes /\ Possible' = Possible
           \/ file'.bytes \in Possible /\ Possible' = {file'.bytes}
        /\ Seen' = Seen
    /\ Register!Replace <=>
        /\ Saver = None /\ file'.bytes \in Bytes
        /\ \E torn \in SUBSET Bytes : Possible' = Possible \cup {file'.bytes} \cup torn
        /\ Seen' = Seen /\ Saver' = Saver /\ answer' = answer
    /\ UNCHANGED Register!vars <=>
        /\ file'.bytes = file.bytes /\ Possible' = Possible
        /\ Seen' = Seen /\ Saver' = Saver /\ answer' = answer
BY DEF Register!Settle, Register!Crash, Register!Replace, Register!vars, Possible, Seen, Saver

Simulates == Register!Next \/ UNCHANGED Register!vars

\* A save that nobody is undecided about stays so.
LEMMA SaverKeeps ==
    ASSUME \A c \in Clients : stage'[c] = "renamed" <=> stage[c] = "renamed"
    PROVE  Saver' = Saver
<1>1. Undecided' = Undecided
  BY DEF Undecided
<1>2. QED
  BY <1>1 DEF Saver

\* Starting up only ever settles what is on disk.
LEMMA BootSimulates ==
    ASSUME RegisterInv, NEW p \in Procs, Boot(p)
    PROVE  Simulates
<1>1. UNCHANGED <<stage, form, answer>>
  BY DEF Boot, Validate, Lock, SyncBeforeReread, Reread, Publish, tabVars
<1>2. Seen' = Seen /\ Saver' = Saver
  BY <1>1, SaverKeeps DEF Seen
<1>3. CASE Lock(p)
  <2>1. file' = file /\ Possible' = Possible
    BY <1>3 DEF Lock, diskVars, Possible
  <2>2. QED
    BY <1>1, <1>2, <2>1, RegisterSurroundings DEF Simulates
<1>4. CASE Validate(p) \/ SyncBeforeReread(p) \/ Reread(p) \/ Publish(p)
  <2>1. SyncFile \/ SyncDirectory
    BY <1>4 DEF Validate, SyncBeforeReread, Reread, Publish
  <2>2. Register!Settle
    BY <1>1, <1>2, <2>1, SyncSettles, RegisterSurroundings DEF RegisterInv
  <2>3. QED
    BY <2>2 DEF Simulates, Register!Next
<1>5. QED
  BY <1>3, <1>4 DEF Boot

\* A form shows a settled document.
LEMMA GetSimulates ==
    ASSUME RegisterInv, NEW c \in Clients, NEW p \in Procs, NEW id \in Ids, Get(c, p, id)
    PROVE  Simulates
<1> USE DEF RegisterInv, IInv, BaseInv
<1>1. /\ phase[p] = "live" /\ ~disabled[p] /\ MutexFree(p) /\ file.bytes = view[p]
      /\ stage[c] \in {"idle", "form"} /\ stage' = [stage EXCEPT ![c] = "form"]
      /\ answer' = [answer EXCEPT ![c] = "none"] /\ UNCHANGED <<file, durable>>
  BY DEF Get, diskVars
<1>2. Possible = {file.bytes}
  <2>1. \A d \in Clients : at[d] = p => stage[d] # "renamed"
    BY <1>1 DEF MutexFree, Saving
  <2>2. \A e \in durable : e.synced /\ e.bytes = file.bytes
    BY <1>1, <2>1 DEF DiskInv
  <2>3. QED
    BY <2>2, SettledDisk
<1>3. Seen' = [Seen EXCEPT ![c] = file.bytes]
  <2> DEFINE f == [id |-> id, key |-> key[p], seen |-> view[p], target |-> snap.target[id]]
  <2>1. f \in Form /\ f.seen = file.bytes /\ form' = [form EXCEPT ![c] = f]
    BY <1>1 DEF Get, Form, ProcessInv, Serving, TypeOK
  <2>2. None \notin Form
    BY EditorAssumption
  <2> HIDE DEF f
  <2>3. QED
    BY <2>1, <2>2 DEF Seen, TypeOK
<1>4. Possible' = Possible /\ Saver' = Saver
  BY <1>1, SaverKeeps DEF Possible, TypeOK
<1>5. Register!Read(c)
  BY <1>1, <1>2, <1>3, <1>4, RegisterActions
<1>6. QED
  BY <1>5 DEF Simulates, Register!Next

\* An answer that says nothing of a new document, or no answer yet.
LEMMA RefusalSimulates ==
    ASSUME RegisterInv, NEW c \in Clients, stage[c] # "renamed", stage'[c] # "renamed",
           \A d \in Clients \ {c} : stage'[d] = stage[d],
           NEW a \in {"none", "uncertain"}, answer' = [answer EXCEPT ![c] = a],
           UNCHANGED <<file, durable, form>>
    PROVE  Simulates
<1>1. Saver # c
  BY SomeSaver DEF RegisterInv, IInv
<1>2. Saver' = Saver
  BY SaverKeeps
<1>3. Possible' = Possible /\ Seen' = Seen
  BY DEF Possible, Seen
<1>4. Register!Refuse(c)
  BY <1>1, <1>2, <1>3, RegisterActions
<1>5. QED
  BY <1>4 DEF Simulates, Register!Next

\* A step of a save that neither answers nor renames.
LEMMA QuietSimulates ==
    ASSUME \A c \in Clients : stage'[c] = "renamed" <=> stage[c] = "renamed",
           UNCHANGED <<file, durable, form, answer>>
    PROVE  Simulates
<1>1. Saver' = Saver
  BY SaverKeeps
<1>2. Possible' = Possible /\ Seen' = Seen
  BY DEF Possible, Seen
<1>3. QED
  BY <1>1, <1>2, RegisterSurroundings DEF Simulates

\* The rename is the compare-and-swap.
LEMMA RenameSimulates ==
    ASSUME RegisterInv, NEW c \in Clients, Rename(c)
    PROVE  Simulates
<1> USE DEF RegisterInv, IInv, BaseInv
<1>1. /\ stage[c] = "authorised" /\ stage' = [stage EXCEPT ![c] = "renamed"]
      /\ file' = temp[c] /\ durable' = durable \cup {temp[c]}
      /\ UNCHANGED <<form, answer>>
  BY DEF Rename, Reach
<1>2. /\ at[c] \in Procs /\ phase[at[c]] = "live" /\ ~disabled[at[c]]
      /\ form[c] \in Form /\ form[c].seen = view[at[c]] /\ Saver = None
      /\ \A d \in Clients : stage[d] # "renamed"
  BY <1>1, OneUndecided
<1>3. file.bytes = view[at[c]] /\ \A e \in durable : e.synced /\ e.bytes = file.bytes
  BY <1>2 DEF DiskInv
<1>4. Possible = {file.bytes}
  BY <1>3, SettledDisk
<1>5. Seen[c] = file.bytes /\ Seen' = Seen
  BY <1>1, <1>2, <1>3, EditorAssumption DEF Seen
<1>6. /\ temp[c].bytes = Serialize(Mutate(file.bytes.doc, form[c].id, edit[c]))
      /\ temp[c].synced /\ temp[c] \in Inode
  <2>1. temp[c] = [bytes |-> Serialize(Mutate(form[c].seen.doc, form[c].id, edit[c])), synced |-> TRUE]
    BY <1>1 DEF SaveInv, WithTemp
  <2>2. form[c].seen = file.bytes
    BY <1>2, <1>3
  <2>3. temp[c] \in Inode
    BY <1>1, TempType DEF WithTemp
  <2>4. QED
    BY <2>1, <2>2, <2>3
<1>7. temp[c].bytes \in Bytes /\ <<file.bytes, temp[c].bytes>> \in EntryEdits
  <2>1. file.bytes \in Bytes /\ file.bytes.doc \in Document
        /\ form[c].id \in Ids /\ edit[c] \in Edits \cup {None} /\ temp[c].bytes \in Bytes
    BY <1>2, <1>6 DEF Form, Bytes, TypeOK, Inode
  <2>2. temp[c].bytes.form = "v3" /\ temp[c].bytes.doc = Mutate(file.bytes.doc, form[c].id, edit[c])
    BY <1>6 DEF Serialize
  <2>3. \A i \in Ids : /\ temp[c].bytes.doc[i].org = file.bytes.doc[i].org
                       /\ i # form[c].id => temp[c].bytes.doc[i] = file.bytes.doc[i]
    BY <2>1, <2>2, MutateKeeps
  <2>4. QED
    BY <2>1, <2>2, <2>3 DEF EntryEdits
<1>8. Possible' = Possible \cup {temp[c].bytes}
  BY <1>1, <1>3, <1>6 DEF Possible
<1>9. Saver' = c
  <2>1. \A d \in Clients : stage'[d] = "renamed" <=> d = c
    BY <1>1, <1>2 DEF TypeOK
  <2>2. QED
    BY <2>1 DEF Saver, Undecided
<1>10. Register!Swap(c)
  BY <1>1, <1>2, <1>4, <1>5, <1>7, <1>8, <1>9, RegisterActions
<1>11. QED
  BY <1>10 DEF Simulates, Register!Next

\* After the rename the directory sync decides what the user is told.
LEMMA SyncSimulates ==
    ASSUME RegisterInv, NEW c \in Clients, DirectorySync(c) \/ DirectorySyncFails(c)
    PROVE  Simulates
<1> USE DEF RegisterInv, IInv, BaseInv
<1>1. stage[c] = "renamed" /\ stage' = [stage EXCEPT ![c] = "form"] /\ form' = form /\ file' = file
  BY DEF DirectorySync, DirectorySyncFails, Confirm, SyncDirectory, Respond, diskVars
<1>2. Saver = c /\ \A d \in Clients : stage[d] = "renamed" => d = c
  BY <1>1, OneUndecided
<1>3. Saver' = None
  <2>1. \A d \in Clients : stage'[d] # "renamed"
    BY <1>1, <1>2 DEF TypeOK
  <2>2. QED
    BY <2>1 DEF Saver, Undecided
<1>4. Seen' = Seen
  BY <1>1 DEF Seen
<1>5. CASE DirectorySync(c)
  <2>1. durable' = {file} /\ answer' = [answer EXCEPT ![c] = "saved"]
    BY <1>5 DEF DirectorySync, Confirm, SyncDirectory, Respond
  <2>2. file.synced
    <3>1. file = temp[c]
      BY <1>1 DEF DiskInv
    <3>2. temp[c] = [bytes |-> Serialize(Mutate(form[c].seen.doc, form[c].id, edit[c])), synced |-> TRUE]
      BY <1>1 DEF SaveInv, WithTemp
    <3>3. QED
      BY <3>1, <3>2
  <2>3. Possible' = {file.bytes}
    BY <1>1, <2>1, <2>2 DEF Possible
  <2>4. Register!Acknowledge(c)
    BY <1>1, <1>2, <1>3, <1>4, <2>1, <2>3, RegisterActions
  <2>5. QED
    BY <2>4 DEF Simulates, Register!Next
<1>6. CASE DirectorySyncFails(c)
  <2>1. durable' = durable /\ answer' = [answer EXCEPT ![c] = "uncertain"]
    BY <1>6 DEF DirectorySyncFails, Respond, diskVars
  <2>2. Possible' = Possible
    BY <1>1, <2>1 DEF Possible
  <2>3. Register!Doubt(c)
    BY <1>1, <1>2, <1>3, <1>4, <2>1, <2>2, RegisterActions
  <2>4. QED
    BY <2>3 DEF Simulates, Register!Next
<1>7. QED
  BY <1>5, <1>6

LEMMA HandleSimulates ==
    ASSUME RegisterInv, NEW c \in Clients, Handle(c)
    PROVE  Simulates
<1> USE DEF RegisterInv, IInv, BaseInv, TypeOK
<1>1. CASE Save(c) \/ WriteTemp(c) \/ StorageFails(c) \/ RecheckDisk(c) \/ FinalCheck(c)
  <2>1. /\ UNCHANGED <<file, durable, form>>
        /\ stage[c] # "renamed" /\ stage'[c] # "renamed"
        /\ \A d \in Clients \ {c} : stage'[d] = stage[d]
        /\ \/ answer' = answer
           \/ \E a \in {"none", "uncertain"} : answer' = [answer EXCEPT ![c] = a]
    BY <1>1 DEF Save, WriteTemp, StorageFails, RecheckDisk, FinalCheck, Respond, Reach, diskVars
  <2>2. CASE answer' = answer
    BY <2>1, <2>2, QuietSimulates
  <2>3. ASSUME NEW a \in {"none", "uncertain"}, answer' = [answer EXCEPT ![c] = a] PROVE Simulates
    BY <2>1, <2>3, RefusalSimulates
  <2>4. QED
    BY <2>1, <2>2, <2>3
<1>2. QED
  BY <1>1, RenameSimulates, SyncSimulates DEF Handle

LEMMA PostSimulates ==
    ASSUME RegisterInv, NEW c \in Clients, NEW p \in Procs, NEW e \in Edits \cup {None}, Post(c, p, e)
    PROVE  Simulates
<1>1. /\ UNCHANGED <<file, durable, form>>
      /\ stage[c] # "renamed" /\ stage'[c] # "renamed"
      /\ \A d \in Clients \ {c} : stage'[d] = stage[d]
      /\ answer' = [answer EXCEPT ![c] = "none"]
  BY DEF Post, Respond, diskVars, RegisterInv, IInv, BaseInv, TypeOK
<1>2. QED
  BY <1>1, RefusalSimulates

\* Halted processes leave their users without an answer.
LEMMA HaltSilences ==
    ASSUME RegisterInv, NEW P \in SUBSET Procs, Halt(P)
    PROVE  /\ Seen' = Seen
           /\ answer' = [c \in Clients |-> IF at[c] \in P THEN "none" ELSE answer[c]]
           /\ answer' = answer
           /\ (\E c \in Clients : at[c] \in P /\ stage[c] = "renamed") \/ P = Procs => Saver' = None
           /\ (\A c \in Clients : at[c] \in P => stage[c] # "renamed") => Saver' = Saver
<1> USE DEF RegisterInv, IInv, BaseInv
<1>1. Seen' = Seen
  BY DEF Halt, Drop, Seen
<1>2. answer' = [c \in Clients |-> IF at[c] \in P THEN "none" ELSE answer[c]]
  BY DEF Halt, Drop
<1>3. \A c \in Clients : at[c] \in P => stage[c] \in Busy
  BY EditorAssumption DEF ServedInv
<1>4. answer' = answer
  BY <1>2, <1>3 DEF AnswerInv, TypeOK
<1>5. \A c \in Clients : stage'[c] = "renamed" <=> stage[c] = "renamed" /\ at[c] \notin P
  BY DEF Halt, Drop
<1>6. ASSUME NEW c \in Clients, at[c] \in P, stage[c] = "renamed" PROVE Saver' = None
  <2>1. \A d \in Clients : stage[d] = "renamed" => d = c
    BY <1>6, OneUndecided
  <2>2. \A d \in Clients : stage'[d] # "renamed"
    BY <1>5, <1>6, <2>1
  <2>3. QED
    BY <2>2 DEF Saver, Undecided
<1>7. ASSUME P = Procs PROVE Saver' = None
  <2>1. \A d \in Clients : stage'[d] # "renamed"
    BY <1>5, <1>7 DEF ServedInv, Busy, Saving
  <2>2. QED
    BY <2>1 DEF Saver, Undecided
<1>8. (\A c \in Clients : at[c] \in P => stage[c] # "renamed") => Saver' = Saver
  BY <1>5, SaverKeeps
<1>9. QED
  BY <1>1, <1>2, <1>4, <1>6, <1>7, <1>8

LEMMA StopSimulates ==
    ASSUME RegisterInv, NEW p \in Procs, Stop(p)
    PROVE  Simulates
<1>1. Halt({p}) /\ UNCHANGED <<file, durable>>
  BY DEF Stop, diskVars
<1>2. Seen' = Seen /\ Possible' = Possible /\ file' = file /\ answer' = answer
  BY <1>1, HaltSilences DEF Possible
<1>3. CASE \E c \in Clients : at[c] = p /\ stage[c] = "renamed"
  <2>1. Saver' = None /\ answer' = [c \in Clients |-> IF at[c] \in {p} THEN "none" ELSE answer[c]]
    BY <1>1, <1>3, HaltSilences
  <2>2. answer' = [c \in Clients |-> IF c \in {d \in Clients : at[d] = p} THEN "none" ELSE answer[c]]
    BY <2>1
  <2>3. Register!Crash
    BY <1>2, <2>1, <2>2, RegisterSurroundings
  <2>4. QED
    BY <2>3 DEF Simulates, Register!Next
<1>4. CASE \A c \in Clients : at[c] = p => stage[c] # "renamed"
  <2>1. Saver' = Saver
    BY <1>1, <1>4, HaltSilences
  <2>2. QED
    BY <1>2, <2>1, RegisterSurroundings DEF Simulates
<1>5. QED
  BY <1>3, <1>4

LEMMA PowerLossSimulates ==
    ASSUME RegisterInv, PowerLoss
    PROVE  Simulates
<1>1. Halt(Procs)
  BY DEF PowerLoss
<1>2. /\ Seen' = Seen /\ Saver' = None
      /\ answer' = [c \in Clients |-> IF at[c] \in Procs THEN "none" ELSE answer[c]]
  BY <1>1, HaltSilences
<1>3. PICK e \in durable : \/ file' = [e EXCEPT !.synced = TRUE]
                           \/ ~e.synced /\ file' = [bytes |-> Torn, synced |-> TRUE]
  BY DEF PowerLoss
<1>4. e \in Inode
  BY DEF RegisterInv, IInv, BaseInv, TypeOK
<1>5. file'.bytes \in Possible /\ file'.synced /\ durable' = {file'}
  BY <1>3, <1>4 DEF PowerLoss, Possible, Inode
<1>6. Possible' = {file'.bytes}
  BY <1>5 DEF Possible
<1>7. answer' = [c \in Clients |-> IF c \in {d \in Clients : at[d] \in Procs} THEN "none" ELSE answer[c]]
  BY <1>2
<1>8. Register!Crash
  BY <1>2, <1>5, <1>6, <1>7, RegisterSurroundings
<1>9. QED
  BY <1>8 DEF Simulates, Register!Next

\* Nobody is undecided while no process holds the lock.
LEMMA OperatorSimulates ==
    ASSUME ~LiveOperator, RegisterInv, NEW b \in OperatorFiles, OperatorWrites(b)
    PROVE  Simulates
<1> USE DEF RegisterInv, IInv, BaseInv
<1>1. /\ lockOwner = None /\ file' = [bytes |-> b, synced |-> FALSE]
      /\ durable' = durable \cup {file'} /\ UNCHANGED <<stage, form, answer>>
  BY DEF OperatorWrites, tabVars
<1>2. \A c \in Clients : stage[c] # "renamed"
  BY <1>1, EditorAssumption DEF ServedInv, LockInv, Holders, Busy, Saving
<1>3. Saver = None /\ Saver' = Saver /\ Seen' = Seen
  BY <1>1, <1>2 DEF Saver, Undecided, Seen
<1>4. b \in Bytes /\ Torn \in Bytes
  BY EditorAssumption, TornType
<1>5. file'.bytes = b /\ Possible' = Possible \cup {b} \cup {Torn}
  BY <1>1 DEF Possible
<1>6. Register!Replace
  BY <1>1, <1>3, <1>4, <1>5, RegisterSurroundings
<1>7. QED
  BY <1>6 DEF Simulates, Register!Next

LEMMA StepSimulates ==
    ASSUME ~LiveOperator, RegisterInv, [Next]_vars
    PROVE  Simulates
<1>1. ASSUME NEW p \in Procs, Close(p) PROVE Simulates
  BY <1>1, QuietSimulates DEF Close, diskVars, tabVars
<1>2. ASSUME NEW c \in Clients, CSRFExpires(c) PROVE Simulates
  BY <1>2, QuietSimulates DEF CSRFExpires, diskVars
<1>3. CASE Refresh \/ SnapshotStale \/ UNCHANGED vars
  BY <1>3, QuietSimulates DEF Refresh, SnapshotStale, vars, diskVars, tabVars
<1>4. QED
  BY <1>1, <1>2, <1>3, BootSimulates, StopSimulates, HandleSimulates, GetSimulates, PostSimulates,
     OperatorSimulates, PowerLossSimulates
     DEF Next

LEMMA InitSimulates == Init => Register!Init
<1>1. SUFFICES ASSUME Init PROVE Register!Init
  OBVIOUS
<1>2. PICK b \in InitialFiles : file = [bytes |-> b, synced |-> TRUE]
  BY <1>1 DEF Init
<1>3. file.bytes \in Bytes /\ Possible = {file.bytes}
  BY <1>1, <1>2, EditorAssumption DEF Init, Possible
<1>4. Seen = [c \in Clients |-> None] /\ Saver = None /\ answer = [c \in Clients |-> "none"]
  BY <1>1 DEF Init, Seen, Saver, Undecided
<1>5. QED
  BY <1>3, <1>4 DEF Register!Init, Possible, Seen, Saver

\* With an operator who keeps to the documentation the editor is a register:
\* a form shows a settled document, a save is a compare-and-swap of one entry
\* of it, "saved" is said of what no crash can take back, and at most one save
\* is undecided; for any number of processes and tabs, over crashes.
THEOREM EditorIsRegister == ASSUME ~LiveOperator PROVE Spec => ImplementsRegister
<1>1. Init => AnswerInv
  BY DEF Init, AnswerInv, Busy, Saving
<1>2. IInv /\ AnswerInv /\ [Next]_vars => AnswerInv'
  BY AnswerStep DEF IInv
<1>3. IInv /\ AnswerInv /\ [Next]_vars => [Register!Next]_(Register!vars)
  BY StepSimulates DEF RegisterInv, Simulates
<1>4. QED
  BY <1>1, <1>2, <1>3, InitSimulates, Inductive, PTL DEF Spec, ImplementsRegister, Register!Spec
=============================================================================
