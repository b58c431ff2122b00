------------------------ MODULE SuggestHostnamesProofs ------------------------
(***************************************************************************)
(* Proofs about suggest-hostnames: what a client makes of its tailnet, for *)
(* any tailnets; what the search makes of names and wildcard hosts, for    *)
(* any edges and in any order; and the proposal file, for any number of    *)
(* commands that are given the same path.                                  *)
(***************************************************************************)
EXTENDS SuggestHostnames, FiniteSetTheorems, SequenceTheorems, TLAPS

\* What is known of the users while the devices are read, and after.
UsersInv ==
    provider = "tailscale" /\ call \in {"devices", "loaded"} =>
        /\ earlier \in Tailnets /\ users = earlier.users
        /\ UsersAccepted(users) /\ roles = RoleSelectors(users)

\* A device, and the node that was made of it.
NodesInv ==
    provider = "tailscale" /\ call = "loaded" =>
        /\ DOMAIN nodes = DOMAIN tailnet.devices
        /\ \A i \in DOMAIN nodes :
            OwnerAccepted(tailnet.devices[i]) /\ nodes[i].owner = Owner(tailnet.devices[i])

InventoryInv ==
    /\ tailnet \in Tailnets
    /\ call \in {"devices", "users"} => provider = "tailscale"
    /\ call = "nodes" => provider # "tailscale"
    /\ UsersInv /\ NodesInv

-----------------------------------------------------------------------------
(* Users and references. *)

\* No text refers to two users that were accepted.
LEMMA ReferencesAreUnambiguous ==
  ASSUME NEW us, UsersAccepted(us), NEW a \in DOMAIN us, NEW b \in DOMAIN us,
         {us[a].id, us[a].login} \cap {us[b].id, us[b].login} # {}
  PROVE  a = b
  BY DEF UsersAccepted

LEMMA OneOwnerAtMost ==
  ASSUME NEW us, UsersAccepted(us), NEW ref
  PROVE  Cardinality(Owners(ref, us)) <= 1
<1>1. CASE Owners(ref, us) = {}
  BY <1>1, FS_EmptySet
<1>2. ASSUME NEW l \in Owners(ref, us)
      PROVE  Owners(ref, us) = {l}
  <2>1. PICK a \in DOMAIN us : ref \in {us[a].id, us[a].login} /\ l = us[a].login
    BY <1>2 DEF Owners
  <2>2. ASSUME NEW m \in Owners(ref, us) PROVE m = l
    <3>1. PICK b \in DOMAIN us : ref \in {us[b].id, us[b].login} /\ m = us[b].login
      BY <2>2 DEF Owners
    <3>2. a = b
      BY <2>1, <3>1, ReferencesAreUnambiguous
    <3>3. QED
      BY <2>1, <3>1, <3>2
  <2>3. QED
    BY <2>2
<1>3. ASSUME NEW l \in Owners(ref, us)
      PROVE  Cardinality(Owners(ref, us)) = 1
  BY <1>2, <1>3, FS_Singleton
<1>4. QED
  BY <1>1, <1>3

\* Members have their own role and no others have any.
LEMMA MembersHoldRoles ==
  ASSUME NEW us, UsersAccepted(us), NEW a \in DOMAIN us
  PROVE  /\ (us[a].login \in DOMAIN RoleSelectors(us)) <=> (us[a].type = "member")
         /\ us[a].type = "member" => us[a].role \in RoleSelectors(us)[us[a].login]
<1> DEFINE members == {b \in DOMAIN us : us[b].type = "member"}
           logins  == {us[b].login : b \in members}
           Of(l)   == us[CHOOSE b \in members : us[b].login = l].role
<1>1. RoleSelectors(us) =
        [l \in logins |-> {"member", Of(l)} \cup (IF Of(l) = "owner" THEN {"admin"} ELSE {})]
  BY DEF RoleSelectors
<1>2. us[a].login \in logins <=> a \in members
  BY ReferencesAreUnambiguous
<1>3. ASSUME a \in members PROVE Of(us[a].login) = us[a].role
  <2> DEFINE b == CHOOSE x \in members : us[x].login = us[a].login
  <2>1. b \in members /\ us[b].login = us[a].login
    BY <1>3
  <2>2. b = a
    BY <2>1, ReferencesAreUnambiguous
  <2>3. QED
    BY <2>2
<1>4. QED
  BY <1>1, <1>2, <1>3

-----------------------------------------------------------------------------
(* The steps. *)

LEMMA InventoryInitially == InventoryInit => InventoryInv
  BY DEF InventoryInit, InventoryInv, UsersInv, NodesInv

LEMMA FetchUsersKeepsInventoryInv ==
  ASSUME InventoryInv, FetchUsers
  PROVE  InventoryInv'
<1>1. PICK r \in Responses(tailnet.users) :
        ~r.partial /\ UsersAccepted(r.items) /\ users' = r.items /\ roles' = RoleSelectors(r.items)
  BY DEF FetchUsers
<1>2. r.items = tailnet.users
  BY <1>1 DEF Responses
<1>3. earlier' = tailnet /\ call' = "devices" /\ call = "users" /\ UNCHANGED <<provider, tailnet>>
  BY DEF FetchUsers
<1>4. UsersInv'
  BY <1>1, <1>2, <1>3 DEF UsersInv, InventoryInv
<1>5. QED
  BY <1>3, <1>4 DEF InventoryInv, NodesInv

LEMMA FetchDevicesKeepsInventoryInv ==
  ASSUME InventoryInv, FetchDevices
  PROVE  InventoryInv'
<1>1. PICK r \in Responses(tailnet.devices) :
        /\ ~r.partial /\ DevicesAccepted(r.items)
        /\ nodes' = [i \in DOMAIN r.items |->
                [id |-> DeviceID(r.items[i]), owner |-> Owner(r.items[i]), tags |-> r.items[i].tags,
                 name |-> FirstOf(r.items[i].name, r.items[i].hostname)]]
  BY DEF FetchDevices
<1>2. r.items = tailnet.devices
  BY <1>1 DEF Responses
<1>3. call = "devices" /\ call' = "loaded" /\ UNCHANGED <<provider, tailnet, users, roles, earlier>>
  BY DEF FetchDevices
<1>4. DOMAIN nodes' = DOMAIN tailnet.devices
      /\ \A i \in DOMAIN tailnet.devices :
            OwnerAccepted(tailnet.devices[i]) /\ nodes'[i].owner = Owner(tailnet.devices[i])
  BY <1>1, <1>2 DEF DevicesAccepted
<1>5. \A d : (OwnerAccepted(d)' <=> OwnerAccepted(d)) /\ Owner(d)' = Owner(d)
  BY <1>3 DEF OwnerAccepted, Owner
<1>6. NodesInv'
  BY <1>3, <1>4, <1>5 DEF NodesInv
<1>7. UsersInv'
  BY <1>3 DEF UsersInv, InventoryInv
<1>8. QED
  BY <1>3, <1>6, <1>7 DEF InventoryInv

LEMMA StepKeepsInventoryInv == InventoryInv /\ [InventoryStep]_inventoryVars => InventoryInv'
<1> SUFFICES ASSUME InventoryInv, [InventoryStep]_inventoryVars PROVE InventoryInv'
  OBVIOUS
<1> USE DEF InventoryInv, UsersInv, NodesInv, loadedVars
<1>1. CASE UNCHANGED inventoryVars
  BY <1>1 DEF inventoryVars, OwnerAccepted, Owner
<1>2. CASE TailnetChanges
  BY <1>2 DEF TailnetChanges, Loading
<1>3. CASE Authenticate
  BY <1>3 DEF Authenticate
<1>4. CASE FetchPolicy
  BY <1>4 DEF FetchPolicy
<1>5. CASE FetchNodes
  BY <1>5 DEF FetchNodes
<1>6. CASE CallFails
  BY <1>6 DEF CallFails
<1>7. QED
  BY <1>1, <1>2, <1>3, <1>4, <1>5, <1>6, FetchUsersKeepsInventoryInv, FetchDevicesKeepsInventoryInv
     DEF InventoryStep

LEMMA InventoryInvariant == InventorySpec => []InventoryInv
  BY InventoryInitially, StepKeepsInventoryInv, PTL DEF InventorySpec

-----------------------------------------------------------------------------

\* An owner that was resolved is a login its account had at one of two moments.
LEMMA OwnersAreTrue ==
  ASSUME InventoryInv, provider = "tailscale", call = "loaded", ~Mixed,
         NEW i \in DOMAIN tailnet.devices, tailnet.devices[i].tags = {}
  PROVE  Owner(tailnet.devices[i])
            \in LoginIn(earlier, tailnet.owners[i]) \cup LoginIn(tailnet, tailnet.owners[i])
<1> DEFINE d == tailnet.devices[i]
           a == tailnet.owners[i]
<1>1. d.user \notin {None, Malformed} /\ Cardinality(Owners(d.user, users)) = 1
  BY DEF InventoryInv, NodesInv, OwnerAccepted
<1>2. a \in DOMAIN tailnet.users /\ d.user \in {tailnet.users[a].id, tailnet.users[a].login}
  BY <1>1, InventoryAssumption DEF InventoryInv, NamesIn
<1>3. Owners(d.user, users) # {}
  BY <1>1, FS_EmptySet
<1>4. Owner(d) \in Owners(d.user, users)
  BY <1>3 DEF Owner
<1>5. PICK b \in DOMAIN earlier.users :
        /\ d.user \in {earlier.users[b].id, earlier.users[b].login}
        /\ Owner(d) = earlier.users[b].login
  BY <1>4 DEF Owners, InventoryInv, UsersInv
<1>6. CASE a = b
  BY <1>5, <1>6 DEF LoginIn
<1>7. CASE a # b
  <2>1. tailnet.users[a].id \notin {earlier.users[b].id, earlier.users[b].login}
    BY <1>2, <1>7 DEF Mixed
  <2>2. earlier.users[b].id \notin {tailnet.users[a].id, tailnet.users[a].login}
    BY <1>2, <1>7 DEF Mixed
  <2>3. d.user = earlier.users[b].login /\ d.user = tailnet.users[a].login
    BY <1>2, <1>5, <2>1, <2>2
  <2>4. QED
    BY <1>2, <1>5, <2>3 DEF LoginIn
<1>8. QED
  BY <1>6, <1>7

\* Whatever the tailnet becomes between the reads, no owner is ambiguous, none
\* is somebody else's, and roles are those of the members.
THEOREM InventoryTrue == InventorySpec => []InventoryIsTrue
<1>1. InventoryInv => InventoryIsTrue
  <2> SUFFICES ASSUME InventoryInv PROVE InventoryIsTrue
    OBVIOUS
  <2>1. call = "devices" => \A ref \in References : Cardinality(Owners(ref, users)) <= 1
    BY OneOwnerAtMost DEF InventoryInv, UsersInv
  <2>2. ASSUME call = "loaded", provider = "tailscale"
        PROVE  /\ DOMAIN nodes = DOMAIN tailnet.devices
               /\ \A i \in DOMAIN nodes :
                    IF tailnet.devices[i].tags # {} THEN nodes[i].owner = None
                    ELSE ~Mixed => nodes[i].owner \in LoginIn(earlier, tailnet.owners[i])
                                                      \cup LoginIn(tailnet, tailnet.owners[i])
    <3>1. DOMAIN nodes = DOMAIN tailnet.devices
      BY <2>2 DEF InventoryInv, NodesInv
    <3>2. ASSUME NEW i \in DOMAIN nodes PROVE nodes[i].owner = Owner(tailnet.devices[i])
      BY <2>2, <3>2 DEF InventoryInv, NodesInv
    <3>3. ASSUME NEW i \in DOMAIN nodes, tailnet.devices[i].tags # {} PROVE nodes[i].owner = None
      BY <3>2, <3>3 DEF Owner
    <3>4. ASSUME NEW i \in DOMAIN nodes, tailnet.devices[i].tags = {}, ~Mixed
          PROVE  nodes[i].owner \in LoginIn(earlier, tailnet.owners[i]) \cup LoginIn(tailnet, tailnet.owners[i])
      BY <2>2, <3>1, <3>2, <3>4, OwnersAreTrue
    <3>5. QED
      BY <3>1, <3>3, <3>4
  <2>3. ASSUME call = "loaded", provider = "tailscale", NEW a \in DOMAIN earlier.users
        PROVE  /\ (earlier.users[a].login \in DOMAIN roles) <=> (earlier.users[a].type = "member")
               /\ earlier.users[a].type = "member" => earlier.users[a].role \in roles[earlier.users[a].login]
    <3>1. users = earlier.users /\ UsersAccepted(users) /\ roles = RoleSelectors(users)
      BY <2>3 DEF InventoryInv, UsersInv
    <3>2. QED
      BY <2>3, <3>1, MembersHoldRoles
  <2>4. QED
    BY <2>1, <2>2, <2>3 DEF InventoryIsTrue
<1>2. QED
  BY <1>1, InventoryInvariant, PTL

-----------------------------------------------------------------------------
(* The proposal file. *)

Files == Commands \cup {Nobody, Foreign}
Places == Working \cup {"ready", "refused", "created", "lost"}

TypeInv ==
    /\ output \in Files /\ durable \subseteq Files
    /\ active \in BOOLEAN
    /\ at \in [Commands -> Places]
    /\ content \in [Commands -> {"empty", "torn", "whole"}]
    /\ synced \in [Commands -> BOOLEAN]
    /\ taken \subseteq Commands

Linked == {"unlink", "syncdir"}
Finished == {"refused", "created", "lost"}

\* Where a command is says what it has done to its file.
StageInv ==
    \A c \in Commands :
        /\ at[c] \in {"link", "undo", "created"} \cup Linked => content[c] = "whole" /\ synced[c]
        /\ at[c] = "sync" => content[c] = "whole"
        /\ at[c] \in {"create", "write", "sync", "link"} => ~active

\* Only a command that made its link has its file at the path or on disk.
PathInv ==
    /\ output \in durable
    /\ \A c \in Commands : c \in durable =>
        /\ at[c] \in Linked \cup {"undo"} \cup Finished
        /\ content[c] = "whole" /\ synced[c]

\* While the operator took nothing away, a command that made its link has it.
OwnInv ==
    taken = {} =>
        \A c \in Commands :
            /\ at[c] \in Linked \cup {"undo"} => output = c
            /\ at[c] = "created" => output = c /\ durable = {c}

FileInv == TypeInv /\ StageInv /\ PathInv /\ OwnInv

-----------------------------------------------------------------------------

LEMMA FileInitially == ProposalFileInit => FileInv
  BY ProposalFileAssumption
     DEF ProposalFileInit, FileInv, TypeInv, StageInv, PathInv, OwnInv, Files, Places, Working, Linked, Finished

LEMMA CommandKeepsFileInv ==
  ASSUME FileInv, NEW c \in Commands, CommandStep(c)
  PROVE  FileInv'
<1> USE ProposalFileAssumption DEF FileInv, TypeInv, Files, Places, Working, Linked, Finished, Moves, onDisk
<1>1. CASE Begin(c)
  BY <1>1 DEF Begin, StageInv, PathInv, OwnInv
<1>2. CASE Inspect(c)
  BY <1>2 DEF Inspect, StageInv, PathInv, OwnInv
<1>3. CASE CreateTemp(c)
  BY <1>3 DEF CreateTemp, StageInv, PathInv, OwnInv
<1>4. CASE WriteTemp(c)
  BY <1>4 DEF WriteTemp, StageInv, PathInv, OwnInv
<1>5. CASE SyncTemp(c)
  BY <1>5 DEF SyncTemp, StageInv, PathInv, OwnInv
<1>6. CASE Link(c)
  BY <1>6 DEF Link, Names, StageInv, PathInv, OwnInv
<1>7. CASE Unlink(c)
  BY <1>7 DEF Unlink, StageInv, PathInv, OwnInv
<1>8. CASE SyncDirectory(c)
  BY <1>8 DEF SyncDirectory, StageInv, PathInv, OwnInv
<1>9. CASE Fails(c)
  BY <1>9 DEF Fails, StageInv, PathInv, OwnInv
<1>10. CASE Undo(c)
  BY <1>10 DEF Undo, Names, StageInv, PathInv, OwnInv
<1>11. QED
  BY <1>1, <1>2, <1>3, <1>4, <1>5, <1>6, <1>7, <1>8, <1>9, <1>10 DEF CommandStep

LEMMA SurroundingKeepsFileInv ==
  ASSUME FileInv, SurroundingStep
  PROVE  FileInv'
<1> USE ProposalFileAssumption DEF FileInv, TypeInv, Files, Places, Working, Linked, Finished, onDisk
<1>1. CASE Flush
  BY <1>1 DEF Flush, StageInv, PathInv, OwnInv
<1>2. CASE PowerLoss
  BY <1>2 DEF PowerLoss, StageInv, PathInv, OwnInv
<1>3. ASSUME NEW f \in {Nobody, Foreign}, OperatorActs(f)
      PROVE  FileInv'
  BY <1>3 DEF OperatorActs, Names, StageInv, PathInv, OwnInv
<1>4. QED
  BY <1>1, <1>2, <1>3 DEF SurroundingStep

LEMMA StepKeepsFileInv == FileInv /\ [FileStep]_fileVars => FileInv'
<1> SUFFICES ASSUME FileInv, [FileStep]_fileVars PROVE FileInv'
  OBVIOUS
<1>1. CASE UNCHANGED fileVars
  BY <1>1 DEF FileInv, TypeInv, StageInv, PathInv, OwnInv, fileVars, onDisk
<1>2. CASE FileStep
  BY <1>2, CommandKeepsFileInv, SurroundingKeepsFileInv DEF FileStep
<1>3. QED
  BY <1>1, <1>2

LEMMA FileInvariant == FileSpec => []FileInv
  BY FileInitially, StepKeepsFileInv, PTL DEF FileSpec

\* A proposal that was reported created is whole and stays, over power losses
\* and whatever other commands do, however many there are.
THEOREM CreatedStays == FileSpec => []CreatedProposalStays
<1>1. FileInv => CreatedProposalStays
  BY DEF FileInv, PathInv, OwnInv, CreatedProposalStays
<1>2. QED
  BY <1>1, FileInvariant, PTL

\* No command writes over a file, nor removes another's but after the operator
\* took one away.
THEOREM OthersStay == FileSpec => OthersFilesStay
<1> DEFINE Mine ==
      \A c \in Commands : at'[c] # at[c] /\ at'[c] # "lost" /\ output' # output =>
          IF output' = c THEN output = Nobody /\ ~active
          ELSE output' = Nobody /\ (output = c \/ taken # {})
<1>1. FileInv /\ [FileStep]_fileVars => [Mine]_fileVars
  <2> SUFFICES ASSUME FileInv, FileStep, NEW c \in Commands,
                      at'[c] # at[c], at'[c] # "lost", output' # output
               PROVE  IF output' = c THEN output = Nobody /\ ~active
                      ELSE output' = Nobody /\ (output = c \/ taken # {})
    OBVIOUS
  <2> USE ProposalFileAssumption DEF FileInv, TypeInv, Files, Places, Working
  <2>1. ASSUME SurroundingStep PROVE FALSE
    BY <2>1 DEF SurroundingStep, Flush, PowerLoss, OperatorActs
  <2>2. ASSUME NEW d \in Commands, CommandStep(d) PROVE d = c
    BY <2>2 DEF CommandStep, Begin, Inspect, CreateTemp, WriteTemp, SyncTemp, Link, Unlink,
                SyncDirectory, Fails, Undo, Moves
  <2>3. CommandStep(c)
    BY <2>1, <2>2 DEF FileStep
  <2>4. Link(c) \/ Undo(c)
    BY <2>3 DEF CommandStep, Begin, Inspect, CreateTemp, WriteTemp, SyncTemp, Unlink, SyncDirectory, Fails
  <2>5. CASE Link(c)
    BY <2>5 DEF Link, Names, StageInv
  <2>6. CASE Undo(c)
    BY <2>6 DEF Undo, Names, OwnInv, Linked
  <2>7. QED
    BY <2>4, <2>5, <2>6
<1>2. QED
  BY <1>1, FileInvariant, PTL DEF FileSpec, OthersFilesStay

-----------------------------------------------------------------------------
(* The search: sets. *)

EdgeIDs == {e[2] : e \in edges}

\* A part of the hosts that none of some edges lead out of.
Isolated(es, part) == \A e, f \in es : e[1] \in part /\ f[2] = e[2] => f[1] \in part

\* A component under way: hs of its reached hosts and is of its reached IDs are
\* visited, done and doneIDs are those of components before it.  What leads out
\* of a visited end is reached, and all that is reached hangs together.
Growing(es, hs, reached, is, reachedIDs, done, doneIDs) ==
    /\ hs \subseteq reached /\ reached \subseteq {e[1] : e \in es} \ done
    /\ is \subseteq reachedIDs /\ reachedIDs \subseteq {e[2] : e \in es} \ doneIDs
    /\ \A e \in es :
        /\ e[1] \in done <=> e[2] \in doneIDs
        /\ e[1] \in hs => e[2] \in reachedIDs
        /\ e[2] \in is => e[1] \in reached
    /\ \A i \in reachedIDs : \E e \in es : e[1] \in hs /\ e[2] = i
    /\ \A part \in SUBSET {e[1] : e \in es} :
        Isolated(es, part) /\ part \cap reached # {} => reached \subseteq part

\* What the search has put aside, and what it has come to since.
Settled    == visitedHosts \ Range(hosts)
SettledIDs == visitedIDs \ Range(ids)
Reached    == Range(hosts) \cup Range(hostQueue)
ReachedIDs == Range(ids) \cup Range(idQueue)

ComponentInv ==
    Growing(edges, Range(hosts), Reached, Range(ids), ReachedIDs, Settled, SettledIDs)

QueuesInv ==
    /\ hosts \in Seq(EdgeHosts) /\ hostQueue \in Seq(EdgeHosts)
    /\ ids \in Seq(EdgeIDs) /\ idQueue \in Seq(EdgeIDs)
    /\ IsInjective(hosts) /\ IsInjective(ids)
    /\ Range(hosts) \subseteq visitedHosts /\ Range(ids) \subseteq visitedIDs

\* A pair without other edges; a component that is more than such a pair.
Alone(e) == IDsOf(e[1]) = {e[2]} /\ HostsOf(e[2]) = {e[1]}
Ambiguity(a) ==
    /\ a.hosts \in Seq(EdgeHosts) /\ a.ids \in Seq(EdgeIDs)
    /\ IsInjective(a.hosts) /\ IsInjective(a.ids)
    /\ ~(Len(a.hosts) = 1 /\ Len(a.ids) = 1)
    /\ Range(a.hosts) \subseteq Settled
    /\ \A e \in edges : e[1] \in Range(a.hosts) <=> e[2] \in Range(a.ids)
    /\ \A part \in SUBSET EdgeHosts :
        Isolated(edges, part) /\ part \cap Range(a.hosts) # {} => Range(a.hosts) \subseteq part

\* What was put aside is suggested or in an ambiguity of its own.
ResultsInv ==
    /\ \A s \in suggestions : s \in edges /\ Alone(s)
    /\ \A a \in ambiguities : Ambiguity(a)
    /\ \A e \in edges : e[1] \in Settled =>
        e \in suggestions \/ \E a \in ambiguities : e[1] \in Range(a.hosts)
    /\ \A a, b \in ambiguities : Range(a.hosts) \cap Range(b.hosts) # {} => a = b

-----------------------------------------------------------------------------
(* The search: stages. *)

\* Before the search there is nothing, but finitely many names.
BeforeInv ==
    /\ tailnet \in Tailnets /\ IsFiniteSet(names)
    /\ feed \in Feeds /\ proxies \in Proxies
    /\ stage \in {"stdin", "metadata", "load"} =>
        /\ edges = {} /\ hosts = <<>> /\ ids = <<>> /\ hostQueue = <<>> /\ idQueue = <<>>
        /\ visitedHosts = {} /\ visitedIDs = {} /\ suggestions = {} /\ ambiguities = {}

\* Edges lead to hosts that may be suggested, each of an ID of its own.
EdgesInv ==
    /\ IsFiniteSet(edges)
    /\ \A e \in edges : e = <<e[1], e[2]>> /\ \E k \in Eligible : proxies[k].id = e[2]
    /\ stage \notin {"stdin", "metadata", "load", "ended"} =>
        \A j, k \in Known : proxies[j].id = proxies[k].id => j = k

\* After it everything is put aside.
AfterInv ==
    stage \in {"review", "confirm", "print", "publish"} =>
        /\ hosts = <<>> /\ EdgeHosts \subseteq visitedHosts
        /\ proposal = {[id |-> s[2], host |-> s[1], name |-> FirstOf(ExistingName(s[2]), s[1])] :
                            s \in suggestions}

SearchInv == BeforeInv /\ EdgesInv /\ QueuesInv /\ ComponentInv /\ ResultsInv /\ AfterInv

-----------------------------------------------------------------------------
(* The search: lemmas on sequences. *)

LEMMA NothingInEmpty == Range(<<>>) = {} /\ IsInjective(<<>>)
  BY DEF Range, IsInjective

LEMMA OneInSingle == ASSUME NEW x PROVE Range(<<x>>) = {x}
  BY DEF Range

LEMMA EmptyOfNone ==
  ASSUME NEW S, NEW s \in Seq(S), Range(s) = {}
  PROVE  s = <<>>
<1>1. s # <<>> => s[1] \in Range(s)
  BY DEF Range
<1>2. QED
  BY <1>1

LEMMA AppendAddsLast ==
  ASSUME NEW S, NEW s \in Seq(S), NEW x \in S
  PROVE  /\ Append(s, x) \in Seq(S) /\ Append(s, x) # <<>>
         /\ Range(Append(s, x)) = Range(s) \cup {x}
         /\ IsInjective(s) /\ x \notin Range(s) => IsInjective(Append(s, x))
<1> DEFINE t == Append(s, x)
<1>1. /\ t \in Seq(S) /\ t # <<>>
      /\ Len(t) = Len(s) + 1 /\ Len(s) \in Nat
      /\ DOMAIN s = 1..Len(s) /\ DOMAIN t = 1..(Len(s) + 1)
      /\ \A i \in 1..Len(s) : t[i] = s[i]
      /\ t[Len(s) + 1] = x
  BY AppendProperties, LenProperties
<1> HIDE DEF t
<1>2. Range(t) = Range(s) \cup {x}
  <2>1. Range(t) \subseteq Range(s) \cup {x}
    <3>1. \A i \in DOMAIN t : i \in DOMAIN s \/ i = Len(s) + 1
      BY <1>1
    <3>2. QED
      BY <1>1, <3>1 DEF Range
  <2>2. Range(s) \subseteq Range(t)
    <3>1. \A i \in DOMAIN s : i \in DOMAIN t /\ t[i] = s[i]
      BY <1>1
    <3>2. QED
      BY <3>1 DEF Range
  <2>3. x \in Range(t)
    BY <1>1 DEF Range
  <2>4. QED
    BY <2>1, <2>2, <2>3
<1>3. ASSUME IsInjective(s), x \notin Range(s), NEW i \in DOMAIN t, NEW j \in DOMAIN t, t[i] = t[j]
      PROVE  i = j
  <2>1. \A k \in DOMAIN t : k = Len(s) + 1 \/ (k \in DOMAIN s /\ t[k] = s[k])
    BY <1>1
  <2>2. \A k \in DOMAIN s : s[k] # x
    BY <1>3 DEF Range
  <2>3. QED
    BY <1>1, <1>3, <2>1, <2>2 DEF IsInjective
<1>4. QED
  BY <1>1, <1>2, <1>3 DEF t, IsInjective

LEMMA HeadAndTail ==
  ASSUME NEW S, NEW s \in Seq(S), s # <<>>
  PROVE  /\ Head(s) \in S /\ Tail(s) \in Seq(S)
         /\ Range(s) = {Head(s)} \cup Range(Tail(s))
<1> DEFINE t == Tail(s)
<1>1. /\ Head(s) \in S /\ t \in Seq(S)
      /\ Len(t) = Len(s) - 1 /\ Len(s) \in Nat \ {0}
      /\ DOMAIN s = 1..Len(s) /\ DOMAIN t = 1..(Len(s) - 1)
      /\ \A i \in 1..(Len(s) - 1) : t[i] = s[i + 1]
      /\ Head(s) = s[1]
  BY HeadTailProperties, LenProperties, EmptySeq
<1> HIDE DEF t
<1>2. \A i \in DOMAIN s : i = 1 \/ (i - 1 \in DOMAIN t /\ t[i - 1] = s[i])
  BY <1>1
<1>3. \A i \in DOMAIN t : i + 1 \in DOMAIN s /\ t[i] = s[i + 1]
  BY <1>1
<1>4. 1 \in DOMAIN s
  BY <1>1
<1>5. Range(s) = {Head(s)} \cup Range(t)
  BY <1>1, <1>2, <1>3, <1>4 DEF Range
<1>6. QED
  BY <1>1, <1>5 DEF t

\* A sequence of all elements of a set, each once.
LEMMA SequenceOfSet ==
  ASSUME NEW S, NEW T \in SUBSET S, IsFiniteSet(T), NEW s \in SetToSeqs(T)
  PROVE  s \in Seq(S) /\ Range(s) = T
<1> DEFINE D == 1..Cardinality(T)
<1>1. Cardinality(T) \in Nat
  BY FS_CardinalityType
<1>2. IsFiniteSet(D) /\ Cardinality(D) = Cardinality(T)
  BY <1>1, FS_Interval
<1>3. s \in [D -> T] /\ s \in Injection(D, T)
  BY DEF SetToSeqs, Injection, IsInjective
<1>4. s \in Surjection(D, T)
  BY <1>2, <1>3, FS_Injection
<1>5. Range(s) = T
  BY <1>3, <1>4 DEF Surjection, Range
<1>6. s \in Seq(S)
  BY <1>1, <1>3
<1>7. QED
  BY <1>5, <1>6

\* What is put at the end of a queue is in it.
LEMMA QueueGrows ==
  ASSUME NEW S, NEW q \in Seq(S), NEW T \in SUBSET S, IsFiniteSet(T), NEW s \in SetToSeqs(T)
  PROVE  q \o s \in Seq(S) /\ Range(q \o s) = Range(q) \cup T
<1>1. s \in Seq(S) /\ Range(s) = T
  BY SequenceOfSet
<1>2. q \o s \in Seq(S) /\ Range(q \o s) = Range(q) \cup Range(s)
  BY <1>1, ConcatProperties, RangeConcatenation
<1>3. QED
  BY <1>1, <1>2

LEMMA ItemsOf ==
  ASSUME NEW S, NEW s \in Seq(S)
  PROVE  Range(s) \subseteq S
<1>1. s \in [1..Len(s) -> S]
  BY LenProperties
<1>2. QED
  BY <1>1 DEF Range

\* A sequence of one item.
LEMMA OneItem ==
  ASSUME NEW S, NEW s \in Seq(S), Len(s) = 1
  PROVE  Head(s) \in S /\ Range(s) = {Head(s)}
<1>1. DOMAIN s = 1..Len(s) /\ s \in [1..Len(s) -> S]
  BY LenProperties
<1>2. DOMAIN s = {1} /\ s[1] \in S
  BY <1>1
<1>3. Head(s) = s[1]
  OBVIOUS
<1>4. QED
  BY <1>2, <1>3 DEF Range

-----------------------------------------------------------------------------
(* The search: lemmas on components. *)

LEMMA NothingGrows ==
  ASSUME NEW es, NEW done, NEW doneIDs, \A e \in es : e[1] \in done <=> e[2] \in doneIDs
  PROVE  Growing(es, {}, {}, {}, {}, done, doneIDs)
  BY DEF Growing

\* Any host that is left begins one.
LEMMA ComponentBegins ==
  ASSUME NEW done, NEW doneIDs, Growing(edges, {}, {}, {}, {}, done, doneIDs),
         NEW h \in {e[1] : e \in edges} \ done
  PROVE  Growing(edges, {}, {h}, {}, {}, done, doneIDs)
  BY DEF Growing

LEMMA HostIsVisited ==
  ASSUME NEW hs, NEW reached, NEW is, NEW reachedIDs, NEW done, NEW doneIDs,
         Growing(edges, hs, reached, is, reachedIDs, done, doneIDs), NEW h \in reached
  PROVE  /\ Growing(edges, hs \cup {h}, reached, is, reachedIDs \cup IDsOf(h), done, doneIDs)
         /\ IDsOf(h) \cap doneIDs = {}
<1>1. \A i \in IDsOf(h) : \E e \in edges : e[1] = h /\ e[2] = i
  BY DEF IDsOf
<1>2. \A e \in edges : e[1] = h => e[2] \in IDsOf(h)
  BY DEF IDsOf
<1>3. h \notin done
  BY DEF Growing
<1>4. IDsOf(h) \cap doneIDs = {}
  BY <1>1, <1>3 DEF Growing
<1>5. IDsOf(h) \subseteq {e[2] : e \in edges}
  BY <1>1
<1>6. \A e \in edges :
        /\ e[1] \in hs \cup {h} => e[2] \in reachedIDs \cup IDsOf(h)
        /\ e[2] \in is => e[1] \in reached
  BY <1>2 DEF Growing
<1>7. \A i \in reachedIDs \cup IDsOf(h) : \E e \in edges : e[1] \in hs \cup {h} /\ e[2] = i
  BY <1>1 DEF Growing
<1>8. QED
  BY <1>4, <1>5, <1>6, <1>7 DEF Growing

LEMMA IDIsVisited ==
  ASSUME NEW hs, NEW reached, NEW is, NEW reachedIDs, NEW done, NEW doneIDs,
         Growing(edges, hs, reached, is, reachedIDs, done, doneIDs), NEW i \in reachedIDs
  PROVE  /\ Growing(edges, hs, reached \cup HostsOf(i), is \cup {i}, reachedIDs, done, doneIDs)
         /\ HostsOf(i) \cap done = {}
<1>1. \A h \in HostsOf(i) : \E e \in edges : e[1] = h /\ e[2] = i
  BY DEF HostsOf
<1>2. \A e \in edges : e[2] = i => e[1] \in HostsOf(i)
  BY DEF HostsOf
<1>3. i \notin doneIDs
  BY DEF Growing
<1>4. HostsOf(i) \cap done = {}
  BY <1>1, <1>3 DEF Growing
<1>5. HostsOf(i) \subseteq {e[1] : e \in edges}
  BY <1>1
<1>6. PICK e \in edges : e[1] \in hs /\ e[2] = i
  BY DEF Growing
<1>7. ASSUME NEW part \in SUBSET {f[1] : f \in edges}, Isolated(edges, part), part \cap (reached \cup HostsOf(i)) # {}
      PROVE  reached \cup HostsOf(i) \subseteq part
  <2>1. part \cap HostsOf(i) # {} => e[1] \in part
    BY <1>1, <1>6, <1>7 DEF Isolated
  <2>2. e[1] \in reached
    BY <1>6 DEF Growing
  <2>3. part \cap reached # {}
    BY <1>7, <2>1, <2>2
  <2>4. reached \subseteq part
    BY <1>7, <2>3 DEF Growing
  <2>5. HostsOf(i) \subseteq part
    BY <1>1, <1>6, <1>7, <2>2, <2>4 DEF Isolated
  <2>6. QED
    BY <2>4, <2>5
<1>8. \A f \in edges :
        /\ f[1] \in hs => f[2] \in reachedIDs
        /\ f[2] \in is \cup {i} => f[1] \in reached \cup HostsOf(i)
  BY <1>2 DEF Growing
<1>9. QED
  BY <1>4, <1>5, <1>7, <1>8 DEF Growing

\* A component of which all that is reached was visited is put aside.
LEMMA ComponentEnds ==
  ASSUME NEW hs, NEW is, NEW done, NEW doneIDs, Growing(edges, hs, hs, is, is, done, doneIDs)
  PROVE  /\ Growing(edges, {}, {}, {}, {}, done \cup hs, doneIDs \cup is)
         /\ \A e \in edges : e[1] \in hs <=> e[2] \in is
<1>1. \A e \in edges : e[1] \in hs <=> e[2] \in is
  BY DEF Growing
<1>2. \A e \in edges : e[1] \in done \cup hs <=> e[2] \in doneIDs \cup is
  BY <1>1 DEF Growing
<1>3. QED
  BY <1>1, <1>2, NothingGrows

-----------------------------------------------------------------------------
(* The search: what is finite. *)

LEMMA FiniteRange ==
  ASSUME NEW S, NEW T, NEW f \in [S -> T], IsFiniteSet(S)
  PROVE  IsFiniteSet(Range(f))
<1>1. f \in Surjection(S, Range(f))
  BY DEF Surjection, Range
<1>2. QED
  BY <1>1, FS_Surjection

LEMMA FiniteEnds ==
  ASSUME IsFiniteSet(edges), NEW x
  PROVE  IsFiniteSet(IDsOf(x)) /\ IsFiniteSet(HostsOf(x))
<1> DEFINE E1 == {e \in edges : e[1] = x}
           E2 == {e \in edges : e[2] = x}
           f1 == [e \in E1 |-> e[2]]
           f2 == [e \in E2 |-> e[1]]
<1>1. IsFiniteSet(E1) /\ IsFiniteSet(E2)
  BY FS_Subset
<1>2. IDsOf(x) = Range(f1) /\ HostsOf(x) = Range(f2)
  BY DEF IDsOf, HostsOf, Range
<1>3. f1 \in [E1 -> Range(f1)] /\ f2 \in [E2 -> Range(f2)]
  BY DEF Range
<1> HIDE DEF E1, E2, f1, f2
<1>4. QED
  BY <1>1, <1>2, <1>3, FiniteRange

LEMMA FiniteSequence ==
  ASSUME NEW S, NEW s \in Seq(S)
  PROVE  IsFiniteSet(DOMAIN s) /\ IsFiniteSet(Range(s))
<1>1. DOMAIN s = 1..Len(s) /\ Len(s) \in Nat /\ s \in [1..Len(s) -> S]
  BY LenProperties
<1>2. IsFiniteSet(1..Len(s))
  BY <1>1, FS_Interval
<1>3. QED
  BY <1>1, <1>2, FiniteRange

LEMMA FiniteEdges ==
  ASSUME BeforeInv
  PROVE  IsFiniteSet(Edges)
<1> DEFINE Named(S) == [r \in S |-> Canonical[r]]
           pairs == {e \in Candidates \X Eligible :
                        \E s \in WildcardSuffixes(e[2]) : HostnameMatchesSuffix(e[1], s)}
           ends  == [c \in pairs |-> <<c[1], proxies[c[2]].id>>]
<1>1. ASSUME NEW S, IsFiniteSet(S) PROVE IsFiniteSet({Canonical[r] : r \in S})
  <2>1. Named(S) \in [S -> Range(Named(S))] /\ Range(Named(S)) = {Canonical[r] : r \in S}
    BY DEF Range
  <2> HIDE DEF Named
  <2>2. QED
    BY <1>1, <2>1, FiniteRange
<1>2. IsFiniteSet({Canonical[r] : r \in names} \ {None})
  <2>1. IsFiniteSet({Canonical[r] : r \in names})
    BY <1>1 DEF BeforeInv
  <2>2. QED
    BY <2>1, FS_Subset
<1>3. IsFiniteSet(IF feed = None THEN {} ELSE {Canonical[r] : r \in Range(feed)})
  <2>1. feed # None => feed \in Seq(RawNames)
    BY SuggestionsAssumption DEF BeforeInv
  <2>2. feed # None => IsFiniteSet(Range(feed))
    BY <2>1, FiniteSequence
  <2>3. QED
    BY <1>1, <2>2, FS_EmptySet
<1>4. IsFiniteSet(Candidates)
  BY <1>2, <1>3, FS_Union DEF Candidates
<1>5. IsFiniteSet(Eligible)
  <2>1. proxies \in Seq(ProxyHost)
    BY SuggestionsAssumption DEF BeforeInv
  <2>2. IsFiniteSet(DOMAIN proxies)
    BY <2>1, FiniteSequence
  <2>3. Eligible \subseteq DOMAIN proxies
    BY DEF Eligible, Considered, Known
  <2>4. QED
    BY <2>2, <2>3, FS_Subset
<1>6. IsFiniteSet(pairs)
  BY <1>4, <1>5, FS_Product, FS_Subset
<1>7. Edges = Range(ends) /\ ends \in [pairs -> Range(ends)]
  BY DEF Edges, Range
<1> HIDE DEF pairs, ends
<1>8. QED
  BY <1>6, <1>7, FiniteRange

\* A control plane names finitely many devices.
LEMMA NamesStayFinite ==
  ASSUME tailnet \in Tailnets, IsFiniteSet(names), InventoryStep
  PROVE  tailnet' \in Tailnets /\ IsFiniteSet(names')
<1>1. CASE FetchDevices
  <2> DEFINE ds == tailnet.devices
             named  == [i \in DOMAIN ds |-> ds[i].name]
             called == [i \in DOMAIN ds |-> ds[i].hostname]
  <2>1. PICK r \in Responses(tailnet.devices) :
          ~r.partial /\ names' = UNION {{r.items[i].name, r.items[i].hostname} : i \in DOMAIN r.items} \ {None}
    BY <1>1 DEF FetchDevices
  <2>2. r.items = ds
    BY <2>1 DEF Responses
  <2>3. names' = UNION {{ds[i].name, ds[i].hostname} : i \in DOMAIN ds} \ {None}
    BY <2>1, <2>2
  <2>4. names' \subseteq Range(named) \cup Range(called)
    BY <2>3 DEF Range
  <2>5. IsFiniteSet(DOMAIN ds)
    BY InventoryAssumption
  <2>6. named \in [DOMAIN ds -> Range(named)] /\ called \in [DOMAIN ds -> Range(called)]
    BY DEF Range
  <2> HIDE DEF ds, named, called
  <2>7. IsFiniteSet(Range(named) \cup Range(called))
    BY <2>5, <2>6, FiniteRange, FS_Union
  <2>8. QED
    BY <1>1, <2>4, <2>7, FS_Subset DEF FetchDevices
<1>2. CASE FetchNodes
  <2> DEFINE ns == tailnet.nodes
             named == [i \in DOMAIN ns |-> ns[i].name]
  <2>1. names' = {ns[i].name : i \in DOMAIN ns} \ {None}
    BY <1>2 DEF FetchNodes
  <2>2. names' \subseteq Range(named)
    BY <2>1 DEF Range
  <2>3. IsFiniteSet(DOMAIN ns) /\ named \in [DOMAIN ns -> Range(named)]
    BY InventoryAssumption DEF Range
  <2> HIDE DEF ns, named
  <2>4. IsFiniteSet(Range(named))
    BY <2>3, FiniteRange
  <2>5. QED
    BY <1>2, <2>2, <2>4, FS_Subset DEF FetchNodes
<1>3. QED
  BY <1>1, <1>2 DEF InventoryStep, TailnetChanges, Authenticate, FetchPolicy, FetchUsers, CallFails, loadedVars

-----------------------------------------------------------------------------
(* The search: steps. *)

LEMMA SearchInitially == SuggestInit => SearchInv
<1> SUFFICES ASSUME SuggestInit PROVE SearchInv
  OBVIOUS
<1>1. /\ edges = {} /\ hosts = <<>> /\ ids = <<>> /\ hostQueue = <<>> /\ idQueue = <<>>
      /\ visitedHosts = {} /\ visitedIDs = {} /\ suggestions = {} /\ ambiguities = {}
      /\ stage = "stdin"
  BY DEF SuggestInit
<1>2. BeforeInv
  BY <1>1, FS_EmptySet DEF SuggestInit, InventoryInit, BeforeInv
<1>3. EdgesInv /\ AfterInv
  BY <1>1, FS_EmptySet DEF EdgesInv, AfterInv
<1>4. QueuesInv
  BY <1>1, NothingInEmpty DEF QueuesInv
<1>5. ComponentInv
  <2>1. /\ Range(hosts) = {} /\ Reached = {} /\ Range(ids) = {} /\ ReachedIDs = {}
        /\ Settled = {} /\ SettledIDs = {}
    BY <1>1, NothingInEmpty DEF Reached, ReachedIDs, Settled, SettledIDs
  <2>2. QED
    BY <1>1, <2>1, NothingGrows DEF ComponentInv
<1>6. ResultsInv
  BY <1>1 DEF ResultsInv
<1>7. QED
  BY <1>2, <1>3, <1>4, <1>5, <1>6 DEF SearchInv

LEMMA SameHosts ==
  ASSUME UNCHANGED <<proxies, metadata>>
  PROVE  Known' = Known /\ Eligible' = Eligible
  BY DEF Known, Eligible, Considered, WildcardSuffixes, Concrete, HasURL

\* The search changes nothing it derives from.
LEMMA GivenStays ==
  ASSUME BeforeInv, EdgesInv, Searching, stage' = stage, UNCHANGED <<given, edges, inventoryVars>>
  PROVE  BeforeInv' /\ EdgesInv' /\ AfterInv'
<1>1. UNCHANGED <<feed, proxies, metadata, tailnet, names, stage>> /\ stage = "search"
  BY DEF given, inventoryVars, Searching
<1>2. QED
  BY <1>1, SameHosts DEF BeforeInv, EdgesInv, AfterInv

LEMMA AmbiguityStays ==
  ASSUME edges' = edges, Settled \subseteq Settled', NEW a, Ambiguity(a)
  PROVE  Ambiguity(a)'
  BY DEF Ambiguity, EdgeHosts, EdgeIDs

LEMMA ResultsStay ==
  ASSUME ResultsInv, UNCHANGED <<edges, suggestions, ambiguities>>, Settled' = Settled
  PROVE  ResultsInv'
<1>1. \A e : Alone(e)' <=> Alone(e)
  BY DEF Alone, IDsOf, HostsOf
<1>2. QED
  BY <1>1, AmbiguityStays DEF ResultsInv

LEMMA StartKeepsSearchInv ==
  ASSUME SearchInv, NEW h, StartComponent(h)
  PROVE  SearchInv'
<1>1. /\ UNCHANGED <<edges, hosts, ids, idQueue, visitedHosts, visitedIDs, suggestions, ambiguities>>
      /\ hosts = <<>> /\ hostQueue = <<>> /\ h \in EdgeHosts \ visitedHosts /\ hostQueue' = <<h>>
  BY DEF StartComponent
<1>2. BeforeInv' /\ EdgesInv' /\ AfterInv'
  BY GivenStays DEF StartComponent, SearchInv
<1>3. EdgeHosts' = EdgeHosts /\ EdgeIDs' = EdgeIDs
  BY <1>1 DEF EdgeHosts, EdgeIDs
<1>4. QueuesInv'
  BY <1>1, <1>3 DEF SearchInv, QueuesInv
<1>5. Range(hosts) = {} /\ Reached = {}
  BY <1>1, NothingInEmpty DEF Reached
<1>6. Range(ids) = {} /\ ReachedIDs = {}
  BY <1>5 DEF SearchInv, ComponentInv, Growing, ReachedIDs
<1>7. Settled' = Settled /\ SettledIDs' = SettledIDs /\ Reached' = {h} /\ ReachedIDs' = {}
  BY <1>1, <1>5, <1>6, OneInSingle DEF Settled, SettledIDs, Reached, ReachedIDs
<1>8. Growing(edges, {}, {h}, {}, {}, Settled, SettledIDs)
  <2>1. h \in {e[1] : e \in edges} \ Settled
    BY <1>1 DEF EdgeHosts, Settled
  <2>2. QED
    BY <1>5, <1>6, <2>1, ComponentBegins DEF SearchInv, ComponentInv
<1>9. ComponentInv'
  BY <1>1, <1>5, <1>6, <1>7, <1>8 DEF ComponentInv
<1>10. ResultsInv'
  BY <1>1, <1>7, ResultsStay DEF SearchInv
<1>11. QED
  BY <1>2, <1>4, <1>9, <1>10 DEF SearchInv

LEMMA VisitHostnameKeepsSearchInv ==
  ASSUME SearchInv, VisitHostname
  PROVE  SearchInv'
<1> DEFINE h == Head(hostQueue)
<1>1. /\ UNCHANGED <<edges, visitedIDs, ids, suggestions, ambiguities>>
      /\ hostQueue # <<>> /\ hostQueue' = Tail(hostQueue)
  BY DEF VisitHostname
<1>2. BeforeInv' /\ EdgesInv' /\ AfterInv'
  BY GivenStays DEF VisitHostname, SearchInv
<1>3. EdgeHosts' = EdgeHosts /\ EdgeIDs' = EdgeIDs
  BY <1>1 DEF EdgeHosts, EdgeIDs
<1>4. /\ h \in EdgeHosts /\ hostQueue' \in Seq(EdgeHosts)
      /\ Range(hostQueue) = {h} \cup Range(hostQueue')
  BY <1>1, HeadAndTail DEF SearchInv, QueuesInv
<1>5. h \in Reached /\ h \notin Settled
  BY <1>4 DEF Reached, SearchInv, ComponentInv, Growing
<1> HIDE DEF h
<1>6. CASE h \in visitedHosts
  <2>1. UNCHANGED <<idQueue, visitedHosts, hosts>>
    BY <1>6 DEF VisitHostname, h
  <2>2. h \in Range(hosts)
    BY <1>5, <1>6 DEF Settled
  <2>3. Settled' = Settled /\ SettledIDs' = SettledIDs /\ Reached' = Reached /\ ReachedIDs' = ReachedIDs
    BY <1>1, <1>4, <2>1, <2>2 DEF Settled, SettledIDs, Reached, ReachedIDs
  <2>4. ComponentInv'
    BY <1>1, <2>1, <2>3 DEF SearchInv, ComponentInv
  <2>5. QueuesInv'
    BY <1>1, <1>3, <1>4, <2>1 DEF SearchInv, QueuesInv
  <2>6. QED
    BY <1>1, <1>2, <2>3, <2>4, <2>5, ResultsStay DEF SearchInv
<1>7. CASE h \notin visitedHosts
  <2>1. /\ visitedHosts' = visitedHosts \cup {h} /\ hosts' = Append(hosts, h)
        /\ \E s \in SetToSeqs(IDsOf(h) \ visitedIDs) : idQueue' = idQueue \o s
    BY <1>7 DEF VisitHostname, h
  <2>2. h \notin Range(hosts)
    BY <1>7 DEF SearchInv, QueuesInv
  <2>3. hosts' \in Seq(EdgeHosts) /\ Range(hosts') = Range(hosts) \cup {h} /\ IsInjective(hosts')
    BY <1>4, <2>1, <2>2, AppendAddsLast DEF SearchInv, QueuesInv
  <2>4. idQueue' \in Seq(EdgeIDs) /\ Range(idQueue') = Range(idQueue) \cup (IDsOf(h) \ visitedIDs)
    <3>1. IsFiniteSet(IDsOf(h) \ visitedIDs)
      BY FiniteEnds, FS_Subset DEF SearchInv, EdgesInv
    <3>2. IDsOf(h) \ visitedIDs \in SUBSET EdgeIDs
      BY DEF IDsOf, EdgeIDs
    <3>3. QED
      BY <2>1, <3>1, <3>2, QueueGrows DEF SearchInv, QueuesInv
  <2>5. /\ Growing(edges, Range(hosts) \cup {h}, Reached, Range(ids), ReachedIDs \cup IDsOf(h), Settled, SettledIDs)
        /\ IDsOf(h) \cap SettledIDs = {}
    BY <1>5, HostIsVisited DEF SearchInv, ComponentInv
  <2>6. Settled' = Settled /\ SettledIDs' = SettledIDs
    BY <1>1, <1>7, <2>1, <2>3 DEF Settled, SettledIDs
  <2>7. Reached' = Reached
    BY <1>4, <2>3 DEF Reached
  <2>8. ReachedIDs' = ReachedIDs \cup IDsOf(h)
    BY <1>1, <2>4, <2>5 DEF ReachedIDs, SettledIDs
  <2>9. ComponentInv'
    BY <1>1, <2>3, <2>5, <2>6, <2>7, <2>8 DEF ComponentInv
  <2>10. QueuesInv'
    BY <1>1, <1>3, <1>4, <2>1, <2>3, <2>4 DEF SearchInv, QueuesInv
  <2>11. QED
    BY <1>1, <1>2, <2>6, <2>9, <2>10, ResultsStay DEF SearchInv
<1>8. QED
  BY <1>6, <1>7

LEMMA VisitIDKeepsSearchInv ==
  ASSUME SearchInv, VisitID
  PROVE  SearchInv'
<1> DEFINE i == Head(idQueue)
<1>1. /\ UNCHANGED <<edges, visitedHosts, hosts, suggestions, ambiguities>>
      /\ idQueue # <<>> /\ idQueue' = Tail(idQueue)
  BY DEF VisitID
<1>2. BeforeInv' /\ EdgesInv' /\ AfterInv'
  BY GivenStays DEF VisitID, SearchInv
<1>3. EdgeHosts' = EdgeHosts /\ EdgeIDs' = EdgeIDs
  BY <1>1 DEF EdgeHosts, EdgeIDs
<1>4. /\ i \in EdgeIDs /\ idQueue' \in Seq(EdgeIDs)
      /\ Range(idQueue) = {i} \cup Range(idQueue')
  BY <1>1, HeadAndTail DEF SearchInv, QueuesInv
<1>5. i \in ReachedIDs /\ i \notin SettledIDs
  BY <1>4 DEF ReachedIDs, SearchInv, ComponentInv, Growing
<1> HIDE DEF i
<1>6. CASE i \in visitedIDs
  <2>1. UNCHANGED <<hostQueue, visitedIDs, ids>>
    BY <1>6 DEF VisitID, i
  <2>2. i \in Range(ids)
    BY <1>5, <1>6 DEF SettledIDs
  <2>3. Settled' = Settled /\ SettledIDs' = SettledIDs /\ Reached' = Reached /\ ReachedIDs' = ReachedIDs
    BY <1>1, <1>4, <2>1, <2>2 DEF Settled, SettledIDs, Reached, ReachedIDs
  <2>4. ComponentInv'
    BY <1>1, <2>1, <2>3 DEF SearchInv, ComponentInv
  <2>5. QueuesInv'
    BY <1>1, <1>3, <1>4, <2>1 DEF SearchInv, QueuesInv
  <2>6. QED
    BY <1>1, <1>2, <2>3, <2>4, <2>5, ResultsStay DEF SearchInv
<1>7. CASE i \notin visitedIDs
  <2>1. /\ visitedIDs' = visitedIDs \cup {i} /\ ids' = Append(ids, i)
        /\ \E s \in SetToSeqs(HostsOf(i) \ visitedHosts) : hostQueue' = hostQueue \o s
    BY <1>7 DEF VisitID, i
  <2>2. i \notin Range(ids)
    BY <1>7 DEF SearchInv, QueuesInv
  <2>3. ids' \in Seq(EdgeIDs) /\ Range(ids') = Range(ids) \cup {i} /\ IsInjective(ids')
    BY <1>4, <2>1, <2>2, AppendAddsLast DEF SearchInv, QueuesInv
  <2>4. hostQueue' \in Seq(EdgeHosts) /\ Range(hostQueue') = Range(hostQueue) \cup (HostsOf(i) \ visitedHosts)
    <3>1. IsFiniteSet(HostsOf(i) \ visitedHosts)
      BY FiniteEnds, FS_Subset DEF SearchInv, EdgesInv
    <3>2. HostsOf(i) \ visitedHosts \in SUBSET EdgeHosts
      BY DEF HostsOf, EdgeHosts
    <3>3. QED
      BY <2>1, <3>1, <3>2, QueueGrows DEF SearchInv, QueuesInv
  <2>5. /\ Growing(edges, Range(hosts), Reached \cup HostsOf(i), Range(ids) \cup {i}, ReachedIDs, Settled, SettledIDs)
        /\ HostsOf(i) \cap Settled = {}
    BY <1>5, IDIsVisited DEF SearchInv, ComponentInv
  <2>6. Settled' = Settled /\ SettledIDs' = SettledIDs
    BY <1>1, <1>7, <2>1, <2>3 DEF Settled, SettledIDs
  <2>7. ReachedIDs' = ReachedIDs
    BY <1>4, <2>3 DEF ReachedIDs
  <2>8. Reached' = Reached \cup HostsOf(i)
    BY <1>1, <2>4, <2>5 DEF Reached, Settled
  <2>9. ComponentInv'
    BY <1>1, <2>3, <2>5, <2>6, <2>7, <2>8 DEF ComponentInv
  <2>10. QueuesInv'
    BY <1>1, <1>3, <1>4, <2>1, <2>3, <2>4 DEF SearchInv, QueuesInv
  <2>11. QED
    BY <1>1, <1>2, <2>6, <2>9, <2>10, ResultsStay DEF SearchInv
<1>8. QED
  BY <1>6, <1>7

\* Both queues are empty: what is reached was visited.
LEMMA CloseKeepsSearchInv ==
  ASSUME SearchInv, CloseComponent
  PROVE  SearchInv'
<1>1. /\ UNCHANGED <<edges, hostQueue, idQueue, visitedHosts, visitedIDs>>
      /\ hosts # <<>> /\ hostQueue = <<>> /\ idQueue = <<>> /\ hosts' = <<>> /\ ids' = <<>>
  BY DEF CloseComponent
<1>2. BeforeInv' /\ EdgesInv' /\ AfterInv'
  BY GivenStays DEF CloseComponent, SearchInv
<1>3. EdgeHosts' = EdgeHosts /\ EdgeIDs' = EdgeIDs
  BY <1>1 DEF EdgeHosts, EdgeIDs
<1>4. QueuesInv'
  BY <1>1, <1>3, NothingInEmpty DEF SearchInv, QueuesInv
<1>5. Reached = Range(hosts) /\ ReachedIDs = Range(ids)
  BY <1>1, NothingInEmpty DEF Reached, ReachedIDs
<1>6. Growing(edges, Range(hosts), Range(hosts), Range(ids), Range(ids), Settled, SettledIDs)
  BY <1>5 DEF SearchInv, ComponentInv
<1>7. /\ Growing(edges, {}, {}, {}, {}, Settled \cup Range(hosts), SettledIDs \cup Range(ids))
      /\ \A e \in edges : e[1] \in Range(hosts) <=> e[2] \in Range(ids)
  BY <1>6, ComponentEnds
<1>8. /\ Settled' = Settled \cup Range(hosts) /\ SettledIDs' = SettledIDs \cup Range(ids)
      /\ Reached' = {} /\ ReachedIDs' = {} /\ Range(hosts') = {} /\ Range(ids') = {}
  BY <1>1, NothingInEmpty DEF Settled, SettledIDs, Reached, ReachedIDs, SearchInv, QueuesInv
<1>9. ComponentInv'
  BY <1>1, <1>7, <1>8 DEF ComponentInv
<1>10. \A e : Alone(e)' <=> Alone(e)
  BY <1>1 DEF Alone, IDsOf, HostsOf
<1>11. \A b \in ambiguities : Ambiguity(b)'
  BY <1>1, <1>8, AmbiguityStays DEF SearchInv, ResultsInv
<1>12. CASE Len(hosts) = 1 /\ Len(ids) = 1
  <2> DEFINE h == Head(hosts)
             i == Head(ids)
  <2>1. suggestions' = suggestions \cup {<<h, i>>} /\ ambiguities' = ambiguities
    BY <1>12 DEF CloseComponent
  <2>2. Range(hosts) = {h} /\ Range(ids) = {i} /\ h \in EdgeHosts
    <3>1. hosts \in Seq(EdgeHosts) /\ ids \in Seq(EdgeIDs)
      BY DEF SearchInv, QueuesInv
    <3>2. QED
      BY <1>12, <3>1, OneItem
  <2> HIDE DEF h, i
  <2>3. \A e \in edges : e[1] = h <=> e[2] = i
    BY <1>7, <2>2
  <2>4. \A e \in edges : e = <<e[1], e[2]>>
    BY DEF SearchInv, EdgesInv
  <2>5. \A e \in edges : e[1] = h => e = <<h, i>>
    BY <2>3, <2>4
  <2>6. <<h, i>> \in edges
    BY <2>2, <2>5 DEF EdgeHosts
  <2>7. Alone(<<h, i>>)
    <3>1. IDsOf(h) = {i} /\ HostsOf(i) = {h}
      BY <2>3, <2>6 DEF IDsOf, HostsOf
    <3>2. QED
      BY <3>1 DEF Alone
  <2>8. \A s \in suggestions' : s \in edges' /\ Alone(s)'
    BY <1>1, <1>10, <2>1, <2>6, <2>7 DEF SearchInv, ResultsInv
  <2>9. \A e \in edges' : e[1] \in Settled' =>
          e \in suggestions' \/ \E b \in ambiguities' : e[1] \in Range(b.hosts)
    BY <1>1, <1>8, <2>1, <2>2, <2>5 DEF SearchInv, ResultsInv
  <2>10. ResultsInv'
    BY <1>11, <2>1, <2>8, <2>9 DEF SearchInv, ResultsInv
  <2>11. QED
    BY <1>2, <1>4, <1>9, <2>10 DEF SearchInv
<1>13. CASE ~(Len(hosts) = 1 /\ Len(ids) = 1)
  <2> PICK a : a = [hosts |-> hosts, ids |-> ids]
    OBVIOUS
  <2>1. ambiguities' = ambiguities \cup {a} /\ suggestions' = suggestions
    BY <1>13 DEF CloseComponent
  <2>2. a.hosts = hosts /\ a.ids = ids
    OBVIOUS
  <2>3. Range(hosts) \subseteq Settled' /\ Range(hosts) \cap Settled = {}
    BY <1>6, <1>8 DEF Growing
  <2>4. \A part \in SUBSET EdgeHosts :
          Isolated(edges, part) /\ part \cap Range(hosts) # {} => Range(hosts) \subseteq part
    BY <1>6 DEF Growing, EdgeHosts
  <2>5. Ambiguity(a)'
    BY <1>1, <1>3, <1>7, <1>13, <2>2, <2>3, <2>4 DEF Ambiguity, SearchInv, QueuesInv
  <2>6. \A b \in ambiguities' : Ambiguity(b)'
    BY <1>11, <2>1, <2>5
  <2>7. \A b \in ambiguities : Range(b.hosts) \subseteq Settled
    BY DEF SearchInv, ResultsInv, Ambiguity
  <2>8. \A b, c \in ambiguities' : Range(b.hosts) \cap Range(c.hosts) # {} => b = c
    BY <2>1, <2>2, <2>3, <2>7 DEF SearchInv, ResultsInv
  <2>9. \A e \in edges' : e[1] \in Settled' =>
          e \in suggestions' \/ \E b \in ambiguities' : e[1] \in Range(b.hosts)
    BY <1>1, <1>8, <2>1, <2>2 DEF SearchInv, ResultsInv
  <2>10. \A s \in suggestions' : s \in edges' /\ Alone(s)'
    BY <1>1, <1>10, <2>1 DEF SearchInv, ResultsInv
  <2>11. ResultsInv'
    BY <2>6, <2>8, <2>9, <2>10 DEF ResultsInv
  <2>12. QED
    BY <1>2, <1>4, <1>9, <2>11 DEF SearchInv
<1>14. QED
  BY <1>12, <1>13

LEMMA FetchKeepsSearchInv ==
  ASSUME SearchInv, FetchProxyHosts
  PROVE  SearchInv'
<1>1. /\ UNCHANGED <<given, hostQueue, idQueue, visitedHosts, visitedIDs, hosts, ids>>
      /\ UNCHANGED <<suggestions, ambiguities, proposal, inventoryVars>>
      /\ stage = "load" /\ stage' \in {"search", "ended"}
  BY DEF FetchProxyHosts, Goto, Ends
<1>2. UNCHANGED <<feed, proxies, metadata, tailnet, names>>
  BY <1>1 DEF given, inventoryVars
<1>3. /\ edges = {} /\ hosts = <<>> /\ ids = <<>> /\ hostQueue = <<>> /\ idQueue = <<>>
      /\ visitedHosts = {} /\ visitedIDs = {} /\ suggestions = {} /\ ambiguities = {}
  BY <1>1 DEF SearchInv, BeforeInv
<1>4. BeforeInv' /\ AfterInv'
  BY <1>1, <1>2 DEF SearchInv, BeforeInv, AfterInv
<1>5. EdgesInv'
  <2>1. CASE edges' = edges /\ stage' = "ended"
    BY <1>3, <2>1, FS_EmptySet DEF EdgesInv
  <2>2. CASE edges' = Edges /\ HostsFit
    <3>1. IsFiniteSet(Edges)
      BY FiniteEdges DEF SearchInv
    <3>2. \A e \in Edges : e = <<e[1], e[2]>> /\ \E k \in Eligible : proxies[k].id = e[2]
      BY DEF Edges
    <3>3. \A j, k \in Known : proxies[j].id = proxies[k].id => j = k
      BY <2>2 DEF HostsFit
    <3>4. Known' = Known /\ Eligible' = Eligible
      BY <1>2, SameHosts
    <3>5. QED
      BY <1>2, <2>2, <3>1, <3>2, <3>3, <3>4 DEF EdgesInv
  <2>3. QED
    BY <2>1, <2>2 DEF FetchProxyHosts, Goto, Ends
<1>6. QueuesInv'
  BY <1>1, <1>3, NothingInEmpty DEF QueuesInv
<1>7. /\ Range(hosts') = {} /\ Reached' = {} /\ Range(ids') = {} /\ ReachedIDs' = {}
      /\ Settled' = {} /\ SettledIDs' = {}
  BY <1>1, <1>3, NothingInEmpty DEF Reached, ReachedIDs, Settled, SettledIDs
<1>8. ComponentInv'
  BY <1>7, NothingGrows DEF ComponentInv
<1>9. ResultsInv'
  BY <1>1, <1>3, <1>7 DEF ResultsInv
<1>10. QED
  BY <1>4, <1>5, <1>6, <1>8, <1>9 DEF SearchInv

\* Other steps leave the search alone.
LEMMA StageMoves ==
  ASSUME SearchInv, UNCHANGED <<given, searchVars>>, tailnet' \in Tailnets, IsFiniteSet(names'), AfterInv',
         stage' \in {"stdin", "metadata", "load"} => stage \in {"stdin", "metadata", "load"},
         stage' \in {"stdin", "metadata", "load", "ended"} \/ stage \notin {"stdin", "metadata", "load", "ended"}
  PROVE  SearchInv'
<1>1. /\ UNCHANGED <<feed, proxies, metadata, edges, hosts, ids, hostQueue, idQueue>>
      /\ UNCHANGED <<visitedHosts, visitedIDs, suggestions, ambiguities>>
  BY DEF given, searchVars
<1>2. BeforeInv'
  BY <1>1 DEF SearchInv, BeforeInv
<1>3. EdgesInv'
  BY <1>1, SameHosts DEF SearchInv, EdgesInv
<1>4. EdgeHosts' = EdgeHosts /\ EdgeIDs' = EdgeIDs /\ Settled' = Settled /\ SettledIDs' = SettledIDs
      /\ Reached' = Reached /\ ReachedIDs' = ReachedIDs
  BY <1>1 DEF EdgeHosts, EdgeIDs, Settled, SettledIDs, Reached, ReachedIDs
<1>5. QueuesInv' /\ ComponentInv'
  BY <1>1, <1>4 DEF SearchInv, QueuesInv, ComponentInv
<1>6. ResultsInv'
  BY <1>1, <1>4, ResultsStay DEF SearchInv
<1>7. QED
  BY <1>2, <1>3, <1>5, <1>6 DEF SearchInv

\* What was put aside stays while nothing of it changes.
LEMMA AfterStays ==
  ASSUME AfterInv, UNCHANGED <<given, searchVars, proposal>>,
         stage' \in {"review", "confirm", "print", "publish"} => stage \in {"review", "confirm", "print", "publish"}
  PROVE  AfterInv'
<1>1. UNCHANGED <<metadata, edges, hosts, visitedHosts, suggestions, proposal>>
  BY DEF given, searchVars
<1>2. QED
  BY <1>1 DEF AfterInv, EdgeHosts, ExistingName

LEMMA OtherStepsKeepSearchInv ==
  ASSUME SearchInv,
         \/ ReadStdin \/ LoadMetadata \/ LoadControlPlane \/ ControlPlaneFails \/ Propose \/ Review
         \/ PrintProposal \/ \E reply \in {"yes", "no", "eof"} : Confirm(reply)
         \/ UNCHANGED suggestVars
  PROVE  SearchInv'
<1>1. tailnet \in Tailnets /\ IsFiniteSet(names) /\ AfterInv
  BY DEF SearchInv, BeforeInv
<1>2. CASE LoadControlPlane
  <2>1. tailnet' \in Tailnets /\ IsFiniteSet(names')
    BY <1>1, <1>2, NamesStayFinite DEF LoadControlPlane
  <2>2. UNCHANGED <<given, searchVars, stage, proposal>>
    BY <1>2 DEF LoadControlPlane
  <2>3. QED
    BY <1>1, <2>1, <2>2, StageMoves, AfterStays
<1>3. CASE Propose
  <2>1. /\ UNCHANGED <<given, searchVars, tailnet, names>> /\ hosts = <<>> /\ EdgeHosts \subseteq visitedHosts
        /\ stage = "search" /\ stage' \in {"review", "ended"}
    BY <1>3 DEF Propose, Searching, Goto, Ends, inventoryVars
  <2>2. stage' = "review" =>
          proposal' = {[id |-> s[2], host |-> s[1], name |-> FirstOf(ExistingName(s[2]), s[1])] : s \in suggestions}
    BY <1>3 DEF Propose, Goto, Ends
  <2>3. UNCHANGED <<metadata, edges, hosts, visitedHosts, suggestions>>
    BY <2>1 DEF given, searchVars
  <2>4. AfterInv'
    BY <2>1, <2>2, <2>3 DEF AfterInv, EdgeHosts, ExistingName
  <2>5. QED
    BY <1>1, <2>1, <2>4, StageMoves
<1>4. CASE ReadStdin
  BY <1>1, <1>4, StageMoves, AfterStays DEF ReadStdin, Goto, Ends, inventoryVars
<1>5. CASE LoadMetadata
  BY <1>1, <1>5, StageMoves, AfterStays DEF LoadMetadata, Goto, Ends, inventoryVars
<1>6. CASE ControlPlaneFails
  BY <1>1, <1>6, StageMoves, AfterStays DEF ControlPlaneFails, Goto, Ends, inventoryVars
<1>7. CASE Review
  BY <1>1, <1>7, StageMoves, AfterStays DEF Review, Goto, Ends, inventoryVars
<1>8. CASE PrintProposal
  BY <1>1, <1>8, StageMoves, AfterStays DEF PrintProposal, Goto, Ends, inventoryVars
<1>9. ASSUME NEW reply \in {"yes", "no", "eof"}, Confirm(reply) PROVE SearchInv'
  <2>1. /\ UNCHANGED <<given, searchVars, proposal, tailnet, names>>
        /\ stage = "confirm" /\ stage' \in {"publish", "print", "ended"}
    BY <1>9 DEF Confirm, Goto, Ends, inventoryVars
  <2>2. QED
    BY <1>1, <2>1, StageMoves, AfterStays
<1>10. CASE UNCHANGED suggestVars
  <2>1. UNCHANGED <<given, searchVars, stage, proposal, tailnet, names>>
    BY <1>10 DEF suggestVars, inventoryVars
  <2>2. QED
    BY <1>1, <2>1, StageMoves, AfterStays
<1>11. QED
  BY <1>2, <1>3, <1>4, <1>5, <1>6, <1>7, <1>8, <1>9, <1>10

LEMMA SearchInvariant == AllSuggestSpec => []SearchInv
<1>1. AllSuggestInit => SearchInv
  BY SearchInitially DEF AllSuggestInit
<1>2. SearchInv /\ [AllSuggestStep]_allSuggestVars => SearchInv'
  <2> SUFFICES ASSUME SearchInv, [AllSuggestStep]_allSuggestVars PROVE SearchInv'
    OBVIOUS
  <2>1. SuggestStep \/ UNCHANGED suggestVars
    BY DEF AllSuggestStep, Publishes, Searches, allSuggestVars
  <2>2. QED
    BY <2>1, StartKeepsSearchInv, VisitHostnameKeepsSearchInv, VisitIDKeepsSearchInv, CloseKeepsSearchInv,
       FetchKeepsSearchInv, OtherStepsKeepSearchInv DEF SuggestStep
<1>3. QED
  BY <1>1, <1>2, PTL DEF AllSuggestSpec

-----------------------------------------------------------------------------
(* The search: what is reviewed. *)

Reviewed == stage \in {"review", "confirm", "print", "publish"}

\* At the end everything is put aside.
LEMMA AllSettled ==
  ASSUME SearchInv, Reviewed
  PROVE  /\ \A e \in edges : e = <<e[1], e[2]>> /\ e[1] \in EdgeHosts
         /\ EdgeHosts \subseteq Settled
<1>1. hosts = <<>> /\ EdgeHosts \subseteq visitedHosts
  BY DEF SearchInv, AfterInv, Reviewed
<1>2. Settled = visitedHosts
  BY <1>1, NothingInEmpty DEF Settled
<1>3. QED
  BY <1>1, <1>2 DEF SearchInv, EdgesInv, EdgeHosts

\* A sequence without repetitions over one item has length one.
LEMMA OnceOnly ==
  ASSUME NEW S, NEW s \in Seq(S), IsInjective(s), NEW x, Range(s) = {x}
  PROVE  Len(s) = 1
<1>1. DOMAIN s = 1..Len(s) /\ Len(s) \in Nat
  BY LenProperties
<1>2. \A i \in DOMAIN s : s[i] = x
  BY DEF Range
<1>3. \A i, j \in DOMAIN s : i = j
  BY <1>2 DEF IsInjective
<1>4. DOMAIN s # {}
  BY DEF Range
<1>5. QED
  BY <1>1, <1>3, <1>4

\* Nothing that stands alone is in an ambiguity.
LEMMA AloneIsNoAmbiguity ==
  ASSUME SearchInv, Reviewed, NEW e \in edges, Alone(e), NEW a \in ambiguities
  PROVE  e[1] \notin Range(a.hosts)
<1> SUFFICES ASSUME e[1] \in Range(a.hosts)
             PROVE  FALSE
  OBVIOUS
<1>1. Ambiguity(a)
  BY DEF SearchInv, ResultsInv
<1>2. \A f \in edges : (f[1] = e[1] => f[2] = e[2]) /\ (f[2] = e[2] => f[1] = e[1])
  BY DEF Alone, IDsOf, HostsOf
<1>3. Isolated(edges, {e[1]}) /\ {e[1]} \in SUBSET EdgeHosts
  BY <1>2, AllSettled DEF Isolated
<1>4. Range(a.hosts) \subseteq {e[1]}
  BY <1>1, <1>3 DEF Ambiguity
<1>5. Range(a.hosts) = {e[1]}
  BY <1>4
<1>6. Range(a.ids) \subseteq {e[2]} /\ e[2] \in Range(a.ids)
  <2>1. \A i \in Range(a.ids) : i \in EdgeIDs
    BY <1>1, ItemsOf DEF Ambiguity
  <2>2. \A i \in EdgeIDs : i \in Range(a.ids) => i = e[2]
    BY <1>1, <1>2, <1>5 DEF Ambiguity, EdgeIDs
  <2>3. QED
    BY <1>1, <2>1, <2>2 DEF Ambiguity
<1>7. Len(a.hosts) = 1
  BY <1>1, <1>5, OnceOnly DEF Ambiguity
<1>8. Len(a.ids) = 1
  BY <1>1, <1>6, OnceOnly DEF Ambiguity
<1>9. QED
  BY <1>1, <1>7, <1>8 DEF Ambiguity

LEMMA SuggestedAreAlone ==
  ASSUME SearchInv, Reviewed
  PROVE  suggestions = {e \in edges : Alone(e)}
<1>1. \A s \in suggestions : s \in edges /\ Alone(s)
  BY DEF SearchInv, ResultsInv
<1>2. \A e \in edges : Alone(e) => e \in suggestions
  BY AllSettled, AloneIsNoAmbiguity DEF SearchInv, ResultsInv
<1>3. QED
  BY <1>1, <1>2

\* Any other edge is in one ambiguity.
LEMMA OthersAreInOne ==
  ASSUME SearchInv, Reviewed, NEW e \in edges \ suggestions
  PROVE  Cardinality({a \in ambiguities : e[1] \in Range(a.hosts) /\ e[2] \in Range(a.ids)}) = 1
<1> DEFINE set == {a \in ambiguities : e[1] \in Range(a.hosts) /\ e[2] \in Range(a.ids)}
<1>1. PICK a \in ambiguities : e[1] \in Range(a.hosts)
  BY AllSettled DEF SearchInv, ResultsInv
<1>2. e[2] \in Range(a.ids)
  BY <1>1 DEF SearchInv, ResultsInv, Ambiguity
<1>3. \A b \in set : b = a
  BY <1>1 DEF SearchInv, ResultsInv
<1>4. set = {a}
  BY <1>1, <1>2, <1>3
<1>5. QED
  BY <1>4, FS_Singleton

\* The hosts of an ambiguity are closed, and no part of them is.
LEMMA AmbiguitiesAreComponents ==
  ASSUME SearchInv, Reviewed, NEW a \in ambiguities
  PROVE  /\ Neighbours(Range(a.hosts)) = Range(a.hosts)
         /\ Range(a.ids) = UNION {IDsOf(h) : h \in Range(a.hosts)}
         /\ \A part \in (SUBSET Range(a.hosts)) \ {{}, Range(a.hosts)} : ~(Neighbours(part) \subseteq part)
         /\ IsInjective(a.hosts) /\ IsInjective(a.ids)
<1>1. /\ a.hosts \in Seq(EdgeHosts) /\ a.ids \in Seq(EdgeIDs)
      /\ IsInjective(a.hosts) /\ IsInjective(a.ids)
      /\ \A e \in edges : e[1] \in Range(a.hosts) <=> e[2] \in Range(a.ids)
      /\ \A part \in SUBSET EdgeHosts :
          Isolated(edges, part) /\ part \cap Range(a.hosts) # {} => Range(a.hosts) \subseteq part
  BY DEF SearchInv, ResultsInv, Ambiguity
<1>2. Range(a.hosts) \subseteq EdgeHosts /\ Range(a.ids) \subseteq EdgeIDs
  BY <1>1, ItemsOf
<1>3. \A set, h : h \in Neighbours(set) <=> \E e, f \in edges : e[1] \in set /\ f[2] = e[2] /\ f[1] = h
  BY DEF Neighbours, HostsOf, IDsOf
<1>4. Neighbours(Range(a.hosts)) = Range(a.hosts)
  <2>1. ASSUME NEW h \in Neighbours(Range(a.hosts)) PROVE h \in Range(a.hosts)
    BY <1>1, <1>3
  <2>2. ASSUME NEW h \in Range(a.hosts) PROVE h \in Neighbours(Range(a.hosts))
    <3>1. \E e \in edges : e[1] = h
      BY <1>2 DEF EdgeHosts
    <3>2. QED
      BY <1>3, <3>1
  <2>3. QED
    BY <2>1, <2>2
<1>5. Range(a.ids) = UNION {IDsOf(h) : h \in Range(a.hosts)}
  BY <1>1, <1>2 DEF EdgeIDs, IDsOf
<1>6. ASSUME NEW part \in (SUBSET Range(a.hosts)) \ {{}, Range(a.hosts)}, Neighbours(part) \subseteq part
      PROVE  FALSE
  <2>1. Isolated(edges, part)
    BY <1>3, <1>6 DEF Isolated
  <2>2. Range(a.hosts) \subseteq part
    BY <1>1, <1>2, <1>6, <2>1
  <2>3. QED
    BY <1>6, <2>2
<1>7. QED
  BY <1>1, <1>4, <1>5, <1>6

\* What the proposal says of a host.
LEMMA ProposalIsSound ==
  ASSUME SearchInv, Reviewed
  PROVE  /\ \A p, q \in proposal : p.id = q.id \/ p.host = q.host => p = q
         /\ {<<p.host, p.id>> : p \in proposal} = suggestions
         /\ \A p \in proposal, k \in Known :
             proxies[k].id = p.id => proxies[k].usable /\ ~Concrete(k) /\ ~HasURL(p.id)
<1> DEFINE entry(s) == [id |-> s[2], host |-> s[1], name |-> FirstOf(ExistingName(s[2]), s[1])]
<1>1. proposal = {entry(s) : s \in suggestions}
  BY DEF SearchInv, AfterInv, Reviewed
<1>2. \A s \in suggestions : s \in edges /\ s = <<s[1], s[2]>> /\ Alone(s)
  BY AllSettled DEF SearchInv, ResultsInv
<1>3. \A s : entry(s).id = s[2] /\ entry(s).host = s[1]
  OBVIOUS
<1>4. \A s, t \in suggestions : s[1] = t[1] \/ s[2] = t[2] => s = t
  <2> TAKE s, t \in suggestions
  <2>1. s[1] = t[1] => s[2] = t[2]
    BY <1>2 DEF Alone, IDsOf
  <2>2. s[2] = t[2] => s[1] = t[1]
    BY <1>2 DEF Alone, HostsOf
  <2>3. QED
    BY <1>2, <2>1, <2>2
<1> HIDE DEF entry
<1>5. \A p, q \in proposal : p.id = q.id \/ p.host = q.host => p = q
  BY <1>1, <1>3, <1>4
<1>6. {<<p.host, p.id>> : p \in proposal} = suggestions
  <2>1. \A s \in suggestions : <<entry(s).host, entry(s).id>> = s
    BY <1>2, <1>3
  <2>2. QED
    BY <1>1, <2>1
<1>7. ASSUME NEW p \in proposal, NEW k \in Known, proxies[k].id = p.id
      PROVE  proxies[k].usable /\ ~Concrete(k) /\ ~HasURL(p.id)
  <2>1. PICK s \in suggestions : p.id = s[2]
    BY <1>1, <1>3
  <2>2. PICK j \in Eligible : proxies[j].id = s[2]
    BY <1>2, <2>1 DEF SearchInv, EdgesInv
  <2>3. j \in Known /\ proxies[j].usable /\ ~Concrete(j) /\ ~HasURL(proxies[j].id)
    BY <2>2 DEF Eligible, Considered
  <2>4. j = k
    BY <1>7, <2>1, <2>2, <2>3 DEF SearchInv, EdgesInv, Reviewed
  <2>5. QED
    BY <1>7, <2>3, <2>4
<1>8. QED
  BY <1>5, <1>6, <1>7

\* For any tailnets, wildcard hosts and names, in whatever order the maps of
\* edges are walked, a pair is suggested exactly if neither end has another edge,
\* and everything else is reviewed as one ambiguity, a component of its own
\* (buildHostnameSuggestions, buildHostnameSuggestionProposal).
THEOREM ReviewIsUnambiguous == AllSuggestSpec => []SuggestionsAreUnambiguous
<1>1. SearchInv => SuggestionsAreUnambiguous
  <2> SUFFICES ASSUME SearchInv, Reviewed
               PROVE  SuggestionsAreUnambiguous
    BY DEF SuggestionsAreUnambiguous, Reviewed
  <2>1. suggestions = {e \in edges : IDsOf(e[1]) = {e[2]} /\ HostsOf(e[2]) = {e[1]}}
    BY SuggestedAreAlone DEF Alone
  <2>2. QED
    BY <2>1, OthersAreInOne, AmbiguitiesAreComponents, ProposalIsSound DEF SuggestionsAreUnambiguous
<1>2. QED
  BY <1>1, SearchInvariant, PTL
=============================================================================
