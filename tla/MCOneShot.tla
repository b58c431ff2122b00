------------------------------ MODULE MCOneShot ------------------------------
(***************************************************************************)
(* What is done once and in order: a run of suggest-hostnames, or a probe  *)
(* of one service.  They share nothing, so a behaviour is of one of them.  *)
(***************************************************************************)
EXTENDS SuggestHostnames, ServiceProbe, TLC

CONSTANTS r1, r2, r3, l1, l2, l3, tag

VARIABLE task  \* which of them

-----------------------------------------------------------------------------
(* suggest-hostnames. *)

Lan == <<"internal", "lan">>
Web == <<"internal", "web">>
Dmz == <<"internal", "dmz">>
LanNas == Lan \o <<"nas">>

MCCanonical ==
    [nas |-> LanNas, NAS |-> LanNas, tv |-> Lan \o <<"tv">>, wiki |-> Web \o <<"wiki">>,
     cam |-> Dmz \o <<"cam">>, bare |-> None, apex |-> Web]

Mk(id, node, user, tags, ssh, blocks, name, hostname) ==
    [id |-> id, node |-> node, user |-> user, tags |-> tags, ssh |-> ssh, blocks |-> blocks,
     name |-> name, hostname |-> hostname]
Person(id, login, type, role) ==
    [id |-> id, login |-> login, padded |-> FALSE, type |-> type, role |-> role]

Ann == Person(r1, l1, "member", "owner")
Bob == Person(r2, l2, "shared", "member")

\* A tailnet; the same after a user was renamed; and one where a login is the
\* ID of another user.
Home ==
    [users   |-> [ann |-> Ann, bob |-> Bob],
     devices |-> [d1 |-> Mk(r1, None, l1, {}, "true", "false", "nas", "NAS"),
                  d2 |-> Mk(None, r2, r2, {}, "true", "unknown", None, "wiki"),
                  d3 |-> Mk(r3, None, None, {tag}, "unknown", "false", "bare", None)],
     owners  |-> [d1 |-> "ann", d2 |-> "bob", d3 |-> "bob"],
     nodes   |-> [n1 |-> [user |-> l1, name |-> "nas", tags |-> {}, forced |-> {tag}, valid |-> {}],
                  n2 |-> [user |-> None, name |-> "tv", tags |-> {}, forced |-> {}, valid |-> {tag}]]]
Renamed ==
    [Home EXCEPT !.users = [ann |-> Person(r1, l3, "member", "owner"), bob |-> Bob],
                 !.devices.d1.user = r1, !.devices.d2.name = "tv", !.nodes.n2.name = "wiki"]
Crossed == [Home EXCEPT !.users = [ann |-> Ann, bob |-> Person(r2, r1, "member", "admin")],
                        !.devices.d1.user = r1]
MCTailnets == {Home, Renamed, Crossed}

On(id, usable, domains) == [id |-> id, usable |-> usable, domains |-> domains]
Star(s) == [kind |-> "wildcard", suffix |-> s]
Name == [kind |-> "concrete"]
Odd == [kind |-> "other"]

MCProxies ==
    {<<On(1, TRUE, <<Star(Lan), Odd>>), On(2, TRUE, <<Star(Web)>>), On(3, TRUE, <<Star(Lan), Name>>),
       On(4, FALSE, <<Star(Web)>>), On(0, TRUE, <<Star(Lan)>>), On(5, TRUE, <<Star(Dmz)>>)>>,
     <<On(1, TRUE, <<Star(Lan), Star(Web)>>), On(2, TRUE, <<Star(Web)>>)>>,
     <<On(1, TRUE, <<Star(Lan)>>), On(2, TRUE, <<Star(Lan), Star(Web)>>)>>}

MCFeeds == {None, <<"wiki">>, <<"tv", "NAS">>, <<"cam", "wiki">>, <<"bare">>}
MCOverrides == {None, [i \in {1} |-> [name |-> Web, url |-> FALSE]], [i \in {2} |-> [name |-> None, url |-> TRUE]]}

-----------------------------------------------------------------------------
(* The probe: 0 is unspecified, 5 loopback, 6 broadcast. *)

Literal(a) == [literal |-> TRUE, address |-> a]
Named(n) == [literal |-> FALSE, name |-> n]
Npm == Web \o <<"npm">>
Hs  == Web \o <<"hs">>

CIDR(first, last) == [first |-> first, last |-> last, canonical |-> TRUE]
Http(id, path, statuses) == [id |-> id, type |-> "http", path |-> path, statuses |-> statuses]
Tcp(id) == [id |-> id, type |-> "tcp", path |-> Absent, statuses |-> Absent]
Upto(a, b) == [min |-> a, max |-> b]

\* Adjacent ranges; the default path; every address, or some.
Wide ==
    [wellFormed |-> TRUE, version |-> 1, interval |-> Absent, timeout |-> 250, workers |-> 8,
     cidrs |-> <<CIDR(0, 6)>>, hosts |-> <<LanNas>>, suffixes |-> Absent,
     services |-> <<Http(1, Absent, <<Upto(200, 299), Upto(300, 400)>>), Tcp(2)>>]
Narrow ==
    [Wide EXCEPT !.cidrs = <<CIDR(1, 1), CIDR(2, 3)>>, !.hosts = Absent, !.suffixes = <<Lan>>,
                 !.services = <<Http(1, "/up", <<Upto(200, 200), Upto(400, 403)>>)>>]

MCDocuments ==
    {Absent, Wide, Narrow,
     [Wide EXCEPT !.cidrs = <<CIDR(5, 5)>>], [Wide EXCEPT !.timeout = 249],
     [Wide EXCEPT !.services = <<Tcp(1), Tcp(1)>>],
     [Wide EXCEPT !.services[1].statuses = <<Upto(200, 299), Upto(299, 400)>>],
     [Wide EXCEPT !.services[1].statuses = [i \in 1..9 |-> Upto(99 + i, 99 + i)]]}

URL(scheme, host, port) == [scheme |-> scheme, user |-> FALSE, host |-> host, port |-> port]
MCGuarded ==
    {<<URL("http", Named(Npm), Absent), URL("https", Named(Hs), 8443)>>,
     <<URL("http", Named(Npm), Absent), URL("ftp", Named(Hs), Absent)>>}

Backend(id, scheme, host, port) == [id |-> id, enabled |-> TRUE, scheme |-> scheme, host |-> host, port |-> port]
MCBackends ==
    {Backend(1, "http", Named(LanNas), 80), Backend(1, "https", Named(LanNas), 8443),
     Backend(1, "http", Literal(4), 80), Backend(1, "http", Named(Npm), 80),
     Backend(1, "http", Literal(2), 65535), Backend(2, "http", Named(LanNas), 80),
     Backend(1, "http", Literal(5), 80), Backend(1, "http", Literal(6), 80),
     Backend(1, "http", Invalid, 80), Backend(1, "http", Literal(2), 65536), Backend(1, "tcp", Literal(2), 80)}

As(list) == [i \in DOMAIN list |-> [address |-> list[i], form |-> "plain"]]
MCZones ==
    LET usual == (LanNas :> As(<<1, 2>>) \o <<[address |-> 1, form |-> "mapped"]>>)
                 @@ (Npm :> As(<<4>>)) @@ (Hs :> As(<<3>>))
    IN  {usual, [usual EXCEPT ![LanNas] = As(<<4, 2>>)], [usual EXCEPT ![LanNas] = As(<<2, 5>>), ![Npm] = As(<<1>>)]}

-----------------------------------------------------------------------------

\* Of the task that is not chosen there is one idle state.
NoSuggest ==
    /\ provider = None /\ tailnet = None /\ call = "idle"
    /\ users = <<>> /\ roles = <<>> /\ nodes = <<>> /\ capable = {} /\ names = {} /\ fields = 0
    /\ earlier = None
    /\ feed = None /\ proxies = <<>> /\ metadata = None /\ toFile = FALSE
    /\ stage = "idle" /\ answer = "none"
    /\ edges = {} /\ hostQueue = <<>> /\ idQueue = <<>> /\ turn = "hosts"
    /\ visitedHosts = {} /\ visitedIDs = {} /\ hosts = <<>> /\ ids = <<>>
    /\ suggestions = {} /\ ambiguities = {} /\ proposal = {}
    /\ output = Nobody /\ durable = {Nobody} /\ active = FALSE
    /\ at = [c \in Commands |-> "ready"] /\ content = [c \in Commands |-> "empty"]
    /\ synced = [c \in Commands |-> FALSE] /\ taken = {}

NoProbe ==
    /\ document = Absent /\ urls = <<>> /\ backend = Absent /\ zone = Absent /\ zones = {}
    /\ probing = "idle" /\ config = Absent /\ endpoints = <<>> /\ target = Absent
    /\ addresses = <<>> /\ next = 1 /\ compared = 0 /\ expired = FALSE /\ report = "none"
    /\ dialled = {} /\ reply = Absent /\ trouble = FALSE /\ late = 0

Init ==
    \/ task = "suggest" /\ AllSuggestInit /\ NoProbe
    \/ task = "probe" /\ ProbeInit /\ NoSuggest

Next ==
    \/ AllSuggestStep /\ UNCHANGED <<task, probeVars>>
    \/ ProbeStep /\ UNCHANGED <<task, allSuggestVars>>

vars == <<task, allSuggestVars, probeVars>>
Spec == Init /\ [][Next]_vars
=============================================================================
