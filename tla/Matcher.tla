------------------------------- MODULE Matcher -------------------------------
(***************************************************************************)
(* Matching one snapshot against one identity: matcher.go for service      *)
(* cards, machine_matcher.go for SSH machines.                             *)
(*                                                                         *)
(* A user asks again and again while the snapshot stays.  Only two things  *)
(* may differ from one request to the next: the order in which Go walks    *)
(* the map of groups, and what sort.Slice, which is not stable, does with  *)
(* cards that compare equal.                                               *)
(***************************************************************************)
EXTENDS AccessPolicy, SequencesExt

CONSTANTS
    Documents,    \* policies on the wire
    Inventories,  \* what else a snapshot holds
    Providers,    \* a subset of {"headscale", "tailscale"}
    Logins,       \* the texts users log in with
    Tailnet,      \* the addresses that belong to the tailnet's own ranges
    None          \* a blank login, a missing override, an unknown owner

\* A display text: how it compares in lower case, and among texts equal then.
Label == [lower : Nat, exact : Nat]

Proxy == [enabled : BOOLEAN, domain : {"none", "wildcard", "concrete"}, name : Label,
          scheme : {"web", "other"}, host : Texts, port : Nat]
Node  == [tags : SUBSET Texts, addresses : SUBSET Texts, owner : Texts \cup {None},
          capable : BOOLEAN, canonical : BOOLEAN]
Override == [name : Label \cup {None}, url : BOOLEAN,
             category : Label \cup {None}, order : Int \cup {None}]
Card  == [id : Nat, name : Label, category : Label \cup {None}, order : Int \cup {None},
          link : {"ready", "needs_metadata", "invalid"}]

ASSUME MatcherAssumption ==
    /\ \A doc \in Documents :
        /\ DOMAIN doc.groups \subseteq {t \in Texts : Kind[t] = "group"}
        /\ \A g \in DOMAIN doc.groups : doc.groups[g] \subseteq Texts
        /\ DOMAIN doc.hosts \subseteq Texts /\ \A a \in DOMAIN doc.hosts : doc.hosts[a] \in Texts
        /\ doc.acls \in Seq(WireACL) /\ doc.grants \in Seq(WireGrant) /\ doc.ssh \in Seq(WireSSH)
        /\ doc.attrs \in Seq(WireAttr) /\ doc.sections \subseteq Sections
    /\ \A inv \in Inventories :
        /\ DOMAIN inv.proxies \subseteq Nat /\ IsFiniteSet(DOMAIN inv.proxies)
        /\ \A id \in DOMAIN inv.proxies : inv.proxies[id] \in Proxy
        /\ \A n \in DOMAIN inv.nodes : inv.nodes[n] \in Node
        /\ \A l \in DOMAIN inv.roles : inv.roles[l] \subseteq {t \in Texts : Kind[t] = "role"}
        /\ inv.metadata # None =>
                \A id \in DOMAIN inv.metadata : inv.metadata[id] \in Override
    /\ Logins \subseteq {t \in Texts : Kind[t] \in {"login", "text"}} \cup {None}
    /\ Tailnet \subseteq {t \in Texts : Kind[t] = "address"}
    /\ None \notin Texts \cup Label \cup Int

VARIABLES
    document,   \* data.Policy as it came
    inventory,  \* proxies, nodes, roles (the direct members' selectors), metadata
    provider,
    login,      \* the identity's login
    phase,      \* "idle" between requests, "groups" in buildIdentitySet's loop
    ids,        \* buildIdentitySet's set
    unvisited,  \* the groups the loop has still to visit
    answer      \* the latest answer, None before the first

snapshot == <<document, inventory, provider, login>>
vars == <<document, inventory, provider, login, phase, ids, unvisited, answer>>

-----------------------------------------------------------------------------
(* Destinations. *)

Roles(l) == IF l \in DOMAIN inventory.roles THEN inventory.roles[l] ELSE {}

TagAddresses(t) ==
    UNION {inventory.nodes[n].addresses :
               n \in {m \in DOMAIN inventory.nodes : t \in inventory.nodes[m].tags}}

SelfAddresses(l) ==
    UNION {inventory.nodes[n].addresses :
               n \in {m \in DOMAIN inventory.nodes : inventory.nodes[m].owner \in IdentityTokens(l)}}

MatchResolvedDestination(t, host, l) ==
    \/ Kind[t] = "any"
    \/ t = host
    \/ Kind[t] = "tag" /\ host \in TagAddresses(t)
    \/ Kind[t] = "self" /\ host \in SelfAddresses(l)
    \/ Kind[t] = "cidr" /\ host \in Covers[t]

Alias(d) == ~Reserved(d) /\ d \in DOMAIN document.hosts

\* Wrong: an alias whose value does not match is tried as a name.
FaultyMatchDestination(d, host, l) ==
    \/ Alias(d) /\ MatchResolvedDestination(document.hosts[d], host, l)
    \/ MatchResolvedDestination(d, host, l)

MatchDestination(d, host, l) ==
    MatchResolvedDestination(IF Alias(d) THEN document.hosts[d] ELSE d, host, l)

SourceGranted(rule, set, l) ==
    \E s \in rule.src : Kind[s] = "any" \/ s \in set \/ (rule.kind = "grant" /\ s \in Roles(l))

DestinationGranted(rule, host, l) == \E d \in rule.dst : MatchDestination(d, host, l)

-----------------------------------------------------------------------------
(* Cards. *)

MatchingRules(p, l, set) ==
    LET rules == AccessRules(document)
    IN  {k \in DOMAIN rules :
            /\ PermitsTCP(rules[k], p.port)
            /\ SourceGranted(rules[k], set, l)
            /\ DestinationGranted(rules[k], p.host, l)}

OverrideFor(id) ==
    IF inventory.metadata # None /\ id \in DOMAIN inventory.metadata
    THEN inventory.metadata[id]
    ELSE [name |-> None, url |-> FALSE, category |-> None, order |-> None]

ResolveServiceCard(id) ==
    LET p == inventory.proxies[id]
        o == OverrideFor(id)
    IN  [id |-> id, category |-> o.category, order |-> o.order,
         name |-> IF o.name = None THEN p.name ELSE o.name,
         link |-> IF o.url THEN "ready"
                  ELSE IF p.domain # "concrete" THEN "needs_metadata"
                  ELSE IF p.scheme = "web" THEN "ready" ELSE "invalid"]

\* A proxy host without a usable domain has no card.
Matches(l, set) ==
    {[card |-> ResolveServiceCard(id),
      rule |-> Min(MatchingRules(inventory.proxies[id], l, set))] :
        id \in {i \in DOMAIN inventory.proxies :
                    /\ inventory.proxies[i].enabled
                    /\ inventory.proxies[i].domain # "none"
                    /\ MatchingRules(inventory.proxies[i], l, set) # {}}}

\* The whole metadata decides, entries of hidden hosts too.
Organized ==
    /\ inventory.metadata # None
    /\ \E id \in DOMAIN inventory.metadata :
        inventory.metadata[id].category # None \/ inventory.metadata[id].order # None

CategoryLess(a, b) ==
    /\ a # None
    /\ \/ b = None
       \/ a.lower < b.lower
       \/ a.lower = b.lower /\ a.exact < b.exact

OrderLess(a, b) == a # None /\ (b = None \/ a < b)

NameLess(c, d) ==
    \/ c.name.lower < d.name.lower
    \/ c.name.lower = d.name.lower /\ c.id < d.id

\* Wrong: cards of the same name are left to the sort.
TieLess(c, d, organized) ==
    \/ organized /\ CategoryLess(c.category, d.category)
    \/ organized /\ c.category = d.category /\ OrderLess(c.order, d.order)
    \/ (organized => c.category = d.category /\ c.order = d.order) /\ c.name.lower < d.name.lower

\* Wrong: categories that differ in case only are one to the sort.
FoldedLess(c, d, organized) ==
    LET Fold(category) == IF category = None THEN None ELSE [category EXCEPT !.exact = 0]
        fc == Fold(c.category)
        fd == Fold(d.category)
    IN  \/ organized /\ CategoryLess(fc, fd)
        \/ organized /\ fc = fd /\ OrderLess(c.order, d.order)
        \/ (organized => fc = fd /\ c.order = d.order) /\ NameLess(c, d)

ServiceCardLess(c, d, organized) ==
    \/ organized /\ CategoryLess(c.category, d.category)
    \/ organized /\ c.category = d.category /\ OrderLess(c.order, d.order)
    \/ (organized => c.category = d.category /\ c.order = d.order) /\ NameLess(c, d)

\* What sort.Slice may return.
Sortings(matches) ==
    {s \in SetToSeqs(matches) :
        \A i, j \in DOMAIN s : i < j => ~ServiceCardLess(s[j].card, s[i].card, Organized)}

\* renderServiceSections starts a section wherever the category changes.
SectionStarts(services) ==
    {i \in DOMAIN services : i = 1 \/ services[i].card.category # services[i - 1].card.category}

-----------------------------------------------------------------------------
(* Machines. *)

ProjectionAvailable == provider = "tailscale" /\ SSHState(document, provider) = "supported"

\* Members are compared exactly, so no group is a member of a group here.
SSHIdentitySet(l) == {l} \cup {g \in DOMAIN document.groups : l \in document.groups[g]}

SSHRuleApplies(rule, n, l) ==
    /\ rule.src \cap (SSHIdentitySet(l) \cup Roles(l)) # {}
    /\ \E d \in rule.dst :
        \/ Kind[d] = "self" /\ inventory.nodes[n].owner = l
        \/ Kind[d] = "tag" /\ d \in inventory.nodes[n].tags

\* For each account the first check rule or, without one, the first rule.
AccessByUser(n, l) ==
    LET rules == document.ssh
        For(u)  == {k \in DOMAIN rules : u \in rules[k].users /\ SSHRuleApplies(rules[k], n, l)}
        Checks(u) == {k \in For(u) : rules[k].action = "check"}
        users   == {u \in UNION {rules[k].users : k \in DOMAIN rules} : For(u) # {}}
    IN  {[user |-> u, rule |-> Min(IF Checks(u) # {} THEN Checks(u) ELSE For(u))] : u \in users}

Action(access) == document.ssh[access.rule].action

\* Wrong: accounts are looked at one by one.
FaultySSHAccess(n, l) == AccessByUser(n, l)

\* autogroup:nonroot overlaps every other account but root.
SSHAccess(n, l) ==
    LET all == AccessByUser(n, l)
    IN  IF \E a \in all : a.user = Nonroot /\ Action(a) = "check"
        THEN {a \in all : a.user \in {"root", Nonroot} \/ Action(a) = "check"}
        ELSE all

\* Wrong: legacy rules, which know no ports, count too.
FaultyGranted(n, l) ==
    LET rules == AccessRules(document)
    IN  \E k \in DOMAIN rules :
            /\ PermitsTCP(rules[k], 22)
            /\ SourceGranted(rules[k], SSHIdentitySet(l), l)
            /\ \E a \in inventory.nodes[n].addresses \cap Tailnet : DestinationGranted(rules[k], a, l)

MachineGranted(n, l) ==
    LET rules == AccessRules(document)
    IN  \E k \in DOMAIN rules :
            /\ rules[k].kind = "grant"
            /\ PermitsTCP(rules[k], 22)
            /\ SourceGranted(rules[k], SSHIdentitySet(l), l)
            /\ \E a \in inventory.nodes[n].addresses \cap Tailnet : DestinationGranted(rules[k], a, l)

\* A target to copy: the device's canonical name or one of the tailnet's addresses.
HasTarget(n) ==
    inventory.nodes[n].canonical \/ inventory.nodes[n].addresses \cap Tailnet # {}

Machines(l) ==
    IF ~(ProjectionAvailable /\ ExactLogin(l) /\ l \in DOMAIN inventory.roles) THEN {}
    ELSE {[id |-> n, access |-> SSHAccess(n, l)] :
            n \in {m \in DOMAIN inventory.nodes :
                    /\ inventory.nodes[m].capable
                    /\ HasTarget(m)
                    /\ SSHAccess(m, l) # {}
                    /\ MachineGranted(m, l)}}

-----------------------------------------------------------------------------
(* Requests. *)

TypeOK ==
    /\ phase \in {"idle", "groups"}
    /\ ids \subseteq Texts
    /\ unvisited \subseteq DOMAIN document.groups
    /\ phase = "idle" => unvisited = {}
    /\ answer # None =>
        /\ \A i \in DOMAIN answer.services :
            /\ answer.services[i].card \in Card
            /\ answer.services[i].rule \in DOMAIN AccessRules(document)
        /\ \A m \in answer.machines : m.id \in DOMAIN inventory.nodes /\ m.access # {}

Init ==
    /\ document \in Documents
    /\ inventory \in Inventories
    /\ provider \in Providers
    /\ Accepted(document, provider)
    /\ provider = "headscale" => inventory.roles = <<>>
    /\ login \in Logins
    /\ phase = "idle"
    /\ ids = {}
    /\ unvisited = {}
    /\ answer = None

Refuse ==
    /\ phase = "idle" /\ login = None
    /\ answer' = [services |-> <<>>, machines |-> {}]
    /\ UNCHANGED <<snapshot, phase, ids, unvisited>>

Request ==
    /\ phase = "idle" /\ login # None
    /\ phase' = "groups"
    /\ ids' = IdentityTokens(login)
    /\ unvisited' = DOMAIN document.groups
    /\ UNCHANGED <<snapshot, answer>>

VisitGroup(g) ==
    /\ phase = "groups" /\ g \in unvisited
    /\ unvisited' = unvisited \ {g}
    /\ ids' = IF document.groups[g] \cap ids # {} THEN ids \cup {g} ELSE ids
    /\ UNCHANGED <<snapshot, phase, answer>>

\* Wrong: the loop is left early.
HastyRender ==
    /\ phase = "groups"
    /\ \E s \in Sortings(Matches(login, ids)) :
        answer' = [services |-> s, machines |-> Machines(login)]
    /\ phase' = "idle"
    /\ ids' = {}
    /\ UNCHANGED <<snapshot, unvisited>>

Render ==
    /\ phase = "groups" /\ unvisited = {}
    /\ \E s \in Sortings(Matches(login, ids)) :
        answer' = [services |-> s, machines |-> Machines(login)]
    /\ phase' = "idle"
    /\ ids' = {}
    /\ UNCHANGED <<snapshot, unvisited>>

Next ==
    \/ Refuse
    \/ Request
    \/ \E g \in unvisited : VisitGroup(g)
    \/ Render

Spec == Init /\ [][Next]_vars

-----------------------------------------------------------------------------
(* What the policy says, rule by rule. *)

Person(s) == Kind[s] \in {"login", "text"}

\* The source names the user, or a group the user is a direct member of.
NamedBy(s, l) ==
    \/ Person(s) /\ Normal(s) = Normal(l)
    \/ /\ s \in DOMAIN document.groups
       /\ \E m \in document.groups[s] : Person(m) /\ Normal(m) = Normal(l)

\* In a grant a host alias is a machine, and a role names its direct members.
NamedByGrant(s, l) ==
    \/ NamedBy(s, l) /\ ~(Person(s) /\ s \in DOMAIN document.hosts)
    \/ s \in Roles(l)

\* What a destination stands for: an alias for its value only.
Denotes(d, l) ==
    LET t == IF Kind[d] = "text" /\ d \in DOMAIN document.hosts THEN document.hosts[d] ELSE d
    IN  CASE Kind[t] = "any"  -> Texts
          [] Kind[t] = "tag"  -> {t} \cup TagAddresses(t)
          [] Kind[t] = "self" -> {t} \cup SelfAddresses(l)
          [] Kind[t] = "cidr" -> {t} \cup Covers[t]
          [] OTHER            -> {t}

TCP(rule, port) ==
    port \in 1..65535 /\ \E c \in rule.ip :
        c.protocol \in {"any", "tcp"} /\ (c.all \/ (c.start <= port /\ port <= c.end))

\* A rule opens nothing for sure where a condition comes with it that nobody
\* evaluates: its own, or a section's on all rules.
Unconditional(r) == r.more \subseteq {"proto"} /\ document.sections \subseteq {"benign"}

ACLAllows(l, p) ==
    \E k \in DOMAIN document.acls :
        /\ Unconditional(document.acls[k])
        /\ \E s \in document.acls[k].src : Kind[s] = "any" \/ NamedBy(s, l)
        /\ \E d \in document.acls[k].dst : p.host \in Denotes(d, l)

GrantAllows(l, host, port) ==
    \E k \in DOMAIN document.grants :
        /\ Unconditional(document.grants[k])
        /\ TCP(document.grants[k], port)
        /\ \E s \in document.grants[k].src : Kind[s] = "any" \/ NamedByGrant(s, l)
        /\ \E d \in document.grants[k].dst : host \in Denotes(d, l)

\* The card of a host is shown exactly when some rule lets the user reach the
\* host's forward address on no condition, whatever groups, aliases, tags and
\* presentation metadata it takes to see it (evaluateServices).
CardsMatchPolicy ==
    (answer # None /\ login # None) =>
        {answer.services[i].card.id : i \in DOMAIN answer.services}
            = {id \in DOMAIN inventory.proxies :
                LET p == inventory.proxies[id]
                IN  /\ p.enabled /\ p.domain # "none"
                    /\ ACLAllows(login, p) \/ GrantAllows(login, p.host, p.port)}

\* One snapshot gives one user one answer, in one order, by the same rules,
\* whatever order groups are visited in and however cards arrive at the sort.
AnswersAgree == [][answer # None => answer' = answer]_vars

\* renderServiceSections looks at neighbours only: the order of the cards must
\* bring all cards of a category together, and those without one to the end.
OneSectionPerCategory ==
    answer # None =>
        LET services == answer.services
            Category(i) == services[i].card.category
        IN  /\ \A i, j \in SectionStarts(services) : Category(i) = Category(j) => i = j
            /\ \A i, j \in DOMAIN services : (i < j /\ Category(i) = None) => Category(j) = None

\* The ssh rules that let the user into a machine.
SSHRulesFor(n, l) ==
    {k \in DOMAIN document.ssh :
        /\ \E s \in document.ssh[k].src : NamedBy(s, l) \/ s \in Roles(l)
        /\ \E d \in document.ssh[k].dst :
            \/ Kind[d] = "tag" /\ d \in inventory.nodes[n].tags
            \/ Kind[d] = "self" /\ inventory.nodes[n].owner = l}

\* A machine is listed exactly when both an ssh rule and, on its own, a grant of
\* TCP/22 to one of its tailnet addresses hold for a direct member; legacy rules
\* never help, and folding accounts never loses a machine (evaluateMachines).
MachinesMatchPolicy ==
    (answer # None /\ login # None) =>
        {m.id : m \in answer.machines}
            = {n \in DOMAIN inventory.nodes :
                LET node == inventory.nodes[n]
                IN  /\ provider = "tailscale" /\ SSHState(document, provider) = "supported"
                    /\ ExactLogin(login) /\ login \in DOMAIN inventory.roles
                    /\ node.capable
                    /\ SSHRulesFor(n, login) # {}
                    /\ \E a \in node.addresses \cap Tailnet : GrantAllows(login, a, 22)}

\* "No extra sign-in" is never shown for an account that any rule for this
\* person and machine puts a check on, by name or through autogroup:nonroot; and
\* an account of such a rule is missing only if the check on nonroot is shown
\* in its place (evaluateMachineSSHAccess).
CheckIsNotBypassed ==
    answer # None =>
        \A m \in answer.machines :
            LET ChecksOn(u) ==
                    {k \in SSHRulesFor(m.id, login) :
                        /\ document.ssh[k].action = "check"
                        /\ u \in document.ssh[k].users
                            \/ (u # "root" /\ Nonroot \in document.ssh[k].users)}
            IN  /\ \A a \in m.access : Action(a) = "accept" => ChecksOn(a.user) = {}
                /\ \A k \in SSHRulesFor(m.id, login) : \A u \in document.ssh[k].users :
                    \/ \E a \in m.access : a.user = u
                    \/ u # "root" /\ \E a \in m.access : a.user = Nonroot /\ Action(a) = "check"

\* The documentation's word on machine sources: a host alias never matches a
\* person, so a card needs a rule with some other source for the user.
HostAliasesAreNotPeople ==
    (answer # None /\ login # None) =>
        \A i \in DOMAIN answer.services :
            LET p == inventory.proxies[answer.services[i].card.id]
            IN  \/ GrantAllows(login, p.host, p.port)
                \/ \E k \in DOMAIN document.acls :
                    /\ \E s \in document.acls[k].src \ DOMAIN document.hosts :
                        Kind[s] = "any" \/ NamedBy(s, login)
                    /\ \E d \in document.acls[k].dst : p.host \in Denotes(d, login)
=============================================================================
