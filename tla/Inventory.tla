------------------------------ MODULE Inventory ------------------------------
(***************************************************************************)
(* What a control plane client makes of its tailnet: load of tailscale.go  *)
(* (policy, users, devices) and of headscale.go (policy, nodes).           *)
(*                                                                         *)
(* The calls follow one another and the tailnet may change between them.   *)
(* Texts are trimmed.  The policy's content is AccessPolicy's subject.     *)
(***************************************************************************)
EXTENDS Naturals, FiniteSets, Functions

CONSTANTS
    Providers,   \* a subset of {"headscale", "tailscale"}
    Tailnets,    \* what the control plane may hold
    References,  \* the texts that are user IDs, logins and owner references
    Tags,
    RawNames,    \* names of devices as they come
    None,        \* the absent or blank text
    Malformed    \* a reference that is no text and no number

Types == {"member", "shared"}
Roles == {"owner", "admin", "member", "it-admin", "network-admin", "billing-admin", "auditor"}

\* padded: the login has spaces around it.
User == [id : References \cup {None, Malformed}, login : References \cup {None}, padded : BOOLEAN,
         type : Types \cup {"other"}, role : Roles \cup {"other"}]

\* account: whose device it is, beside what the response says of it.
Device == [id : References \cup {None, Malformed}, node : References \cup {None},
           user : References \cup {None, Malformed}, tags : SUBSET Tags,
           ssh : {"true", "false", "unknown"}, blocks : {"true", "false", "unknown"},
           name : RawNames \cup {None}, hostname : RawNames \cup {None}]

HeadscaleNode == [user : References \cup {None}, name : RawNames \cup {None},
                  tags : SUBSET Tags, forced : SUBSET Tags, valid : SUBSET Tags]

\* What refers to an account.
NamesIn(t, account) ==
    IF account \in DOMAIN t.users THEN {t.users[account].id, t.users[account].login} ELSE {}

\* owners: the account a device belongs to.  An untagged device names it by ID
\* or login, where it names one.
ASSUME InventoryAssumption ==
    /\ Providers \subseteq {"headscale", "tailscale"}
    /\ \A t \in Tailnets :
        /\ \A a \in DOMAIN t.users : t.users[a] \in User
        /\ \A d \in DOMAIN t.devices : t.devices[d] \in Device
        /\ DOMAIN t.owners = DOMAIN t.devices
        /\ \A d \in DOMAIN t.devices :
            t.devices[d].tags # {} \/ t.devices[d].user \in {None, Malformed} \cup NamesIn(t, t.owners[d])
        /\ \A n \in DOMAIN t.nodes : t.nodes[n] \in HeadscaleNode
        /\ IsFiniteSet(DOMAIN t.devices) /\ IsFiniteSet(DOMAIN t.nodes)
    /\ {None, Malformed} \cap (References \cup RawNames) = {} /\ None # Malformed

VARIABLES
    provider,
    tailnet,   \* what the control plane holds now
    call,      \* the call under way, "loaded" or "failed"
    users,     \* the users as read
    roles,     \* GrantRoleSelectorsByLogin, without the prefix "autogroup:"
    nodes,     \* ControlPlaneResult.Nodes
    capable,   \* MachineSSHCapableByID
    names,     \* the candidate names, those that are not blank
    fields,    \* how many candidate names, blank ones included
    earlier    \* history: the tailnet when the users were read

inventoryVars == <<provider, tailnet, call, users, roles, nodes, capable, names, fields, earlier>>
loadedVars == <<nodes, capable, names, fields>>

-----------------------------------------------------------------------------
(* Users. *)

UserAccepted(u) ==
    /\ u.id \notin {None, Malformed}
    /\ u.login # None /\ ~u.padded
    /\ u.type \in Types
    /\ u.role \in Roles

\* Wrong: IDs and logins are kept apart.
FaultyUsersAccepted(us) ==
    /\ \A a \in DOMAIN us : UserAccepted(us[a])
    /\ \A a, b \in DOMAIN us : a # b => us[a].id # us[b].id /\ us[a].login # us[b].login

\* No text names two of them, one by ID and the other by login.
UsersAccepted(us) ==
    /\ \A a \in DOMAIN us : UserAccepted(us[a])
    /\ \A a, b \in DOMAIN us :
        a # b => {us[a].id, us[a].login} \cap {us[b].id, us[b].login} = {}

\* Shared users hold no role in this tailnet; an owner is an admin too.
RoleSelectors(us) ==
    LET members == {a \in DOMAIN us : us[a].type = "member"}
        Of(l)   == us[CHOOSE a \in members : us[a].login = l].role
    IN  [l \in {us[a].login : a \in members} |->
            {"member", Of(l)} \cup (IF Of(l) = "owner" THEN {"admin"} ELSE {})]

-----------------------------------------------------------------------------
(* Devices and nodes. *)

Owners(ref, us) == {us[a].login : a \in {b \in DOMAIN us : ref \in {us[b].id, us[b].login}}}

DeviceID(d) == IF d.id = None THEN d.node ELSE d.id

OwnerAccepted(d) ==
    /\ d.user # Malformed
    /\ d.tags = {} => d.user # None /\ Cardinality(Owners(d.user, users)) = 1

DevicesAccepted(ds) ==
    /\ \A i \in DOMAIN ds : DeviceID(ds[i]) \notin {None, Malformed} /\ OwnerAccepted(ds[i])
    /\ \A i, j \in DOMAIN ds : i # j => DeviceID(ds[i]) # DeviceID(ds[j])

\* A tagged device has no owner.
Owner(d) == IF d.tags # {} THEN None ELSE CHOOSE l \in Owners(d.user, users) : TRUE

Capable(d) == d.ssh = "true" /\ d.blocks = "false"

FirstOf(a, b) == IF a # None THEN a ELSE b

-----------------------------------------------------------------------------
(* The calls. *)

\* A response holds everything, or says that it does not.
Responses(all) ==
    {[items |-> all, partial |-> FALSE]}
    \cup {[items |-> Restrict(all, part), partial |-> TRUE] :
              part \in SUBSET DOMAIN all \ {DOMAIN all}}

Loading == call \in {"auth", "policy", "users", "devices", "nodes"}

TailnetChanges ==
    /\ Loading
    /\ tailnet' \in Tailnets \ {tailnet}
    /\ UNCHANGED <<provider, call, users, roles, loadedVars, earlier>>

Authenticate ==
    /\ call = "auth"
    /\ call' = "policy"
    /\ UNCHANGED <<provider, tailnet, users, roles, loadedVars, earlier>>

FetchPolicy ==
    /\ call = "policy"
    /\ call' = IF provider = "tailscale" THEN "users" ELSE "nodes"
    /\ UNCHANGED <<provider, tailnet, users, roles, loadedVars, earlier>>

FetchUsers ==
    /\ call = "users"
    /\ \E r \in Responses(tailnet.users) :
        /\ ~r.partial /\ UsersAccepted(r.items)
        /\ users' = r.items
        /\ roles' = RoleSelectors(r.items)
    /\ earlier' = tailnet
    /\ call' = "devices"
    /\ UNCHANGED <<provider, tailnet, loadedVars>>

FetchDevices ==
    /\ call = "devices"
    /\ \E r \in Responses(tailnet.devices) :
        LET ds == r.items
        IN  /\ ~r.partial /\ DevicesAccepted(ds)
            /\ nodes' = [i \in DOMAIN ds |->
                    [id |-> DeviceID(ds[i]), owner |-> Owner(ds[i]), tags |-> ds[i].tags,
                     name |-> FirstOf(ds[i].name, ds[i].hostname)]]
            /\ capable' = {DeviceID(ds[i]) : i \in {j \in DOMAIN ds : Capable(ds[j])}}
            /\ names' = UNION {{ds[i].name, ds[i].hostname} : i \in DOMAIN ds} \ {None}
            /\ fields' = 2 * Cardinality(DOMAIN ds)
    /\ call' = "loaded"
    /\ UNCHANGED <<provider, tailnet, users, roles, earlier>>

\* Headscale names the owner in the node itself, and nothing is checked.
FetchNodes ==
    /\ call = "nodes"
    /\ LET ns == tailnet.nodes
       IN  /\ nodes' = [i \in DOMAIN ns |->
                [id |-> i, owner |-> ns[i].user, name |-> ns[i].name,
                 tags |-> ns[i].tags \cup ns[i].forced \cup ns[i].valid]]
           /\ names' = {ns[i].name : i \in DOMAIN ns} \ {None}
           /\ fields' = Cardinality(DOMAIN ns)
    /\ call' = "loaded"
    /\ UNCHANGED <<provider, tailnet, users, roles, capable, earlier>>

\* An error, a timeout, or a response that is refused.
CallFails ==
    /\ Loading
    /\ call' = "failed"
    /\ UNCHANGED <<provider, tailnet, users, roles, loadedVars, earlier>>

InventoryInit ==
    /\ provider \in Providers
    /\ tailnet \in Tailnets
    /\ call = IF provider = "tailscale" THEN "auth" ELSE "policy"
    /\ users = <<>> /\ roles = <<>> /\ nodes = <<>>
    /\ capable = {} /\ names = {} /\ fields = 0
    /\ earlier = None

InventoryStep ==
    TailnetChanges \/ Authenticate \/ FetchPolicy \/ FetchUsers \/ FetchDevices \/ FetchNodes \/ CallFails

InventorySpec == InventoryInit /\ [][InventoryStep]_inventoryVars

-----------------------------------------------------------------------------

LoginIn(t, account) == IF account \in DOMAIN t.users THEN {t.users[account].login} ELSE {}

\* An ID of one moment that names another account at the other.
Mixed ==
    \E t, u \in {earlier, tailnet} : \E a \in DOMAIN t.users, b \in DOMAIN u.users :
        a # b /\ t.users[a].id \in {u.users[b].id, u.users[b].login}

\* Users that were accepted never make an owner ambiguous.  Once loaded, every
\* device is there, a tagged one without an owner, an untagged one with a login
\* its account had at one of the two moments the tailnet was read, though users
\* and devices are two reads (unless an ID changed hands between); and exactly
\* the members hold roles (validateTailscaleUsers, fetchDevices,
\* resolveTailscaleOwner).
InventoryIsTrue ==
    /\ call = "devices" => \A ref \in References : Cardinality(Owners(ref, users)) <= 1
    /\ call = "loaded" /\ provider = "tailscale" =>
        /\ DOMAIN nodes = DOMAIN tailnet.devices
        /\ \A i \in DOMAIN nodes :
            IF tailnet.devices[i].tags # {} THEN nodes[i].owner = None
            ELSE ~Mixed => nodes[i].owner \in LoginIn(earlier, tailnet.owners[i])
                                              \cup LoginIn(tailnet, tailnet.owners[i])
        /\ \A a \in DOMAIN earlier.users :
            LET u == earlier.users[a]
            IN  /\ (u.login \in DOMAIN roles) <=> (u.type = "member")
                /\ u.type = "member" => u.role \in roles[u.login]
=============================================================================
