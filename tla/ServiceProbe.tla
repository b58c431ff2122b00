---------------------------- MODULE ServiceProbe -----------------------------
(***************************************************************************)
(* One probe of one service, from the configuration file to the result:    *)
(* service_probe.go.  The names it looks up may change their addresses     *)
(* between any two steps, and its deadline may pass at any of them.        *)
(*                                                                         *)
(* The request's URL is put together from parts that were validated and    *)
(* always parses; redirects are answers like others, and TLS is a part of  *)
(* the request that may fail.                                              *)
(***************************************************************************)
EXTENDS ServiceHealthConfig

CONSTANTS
    Documents,  \* what the configuration file may hold
    Guarded,    \* lists of URLs of the program's own upstreams
    Backends,   \* proxy hosts a service may name
    Zones,      \* what DNS may say: to each name a sequence of answers
    Statuses    \* HTTP statuses of answers

\* literal: an address, IPv4 in IPv6 unmapped; none has a zone.
Host == [literal : {TRUE}, address : Addresses] \cup [literal : {FALSE}, name : Seq(STRING)]
Answer == [address : Addresses, form : {"plain", "mapped", "zoned"}]

Ports == 1..65535

ASSUME ProbeAssumption ==
    /\ \A g \in Guarded : g \in Seq(Range(g)) /\ \A i \in DOMAIN g : g[i].host \in Host \cup {Invalid}
    /\ \A b \in Backends : b.host \in Host \cup {Invalid} /\ b.enabled
    /\ \A z \in Zones : \A n \in DOMAIN z : z[n] \in Seq(Answer)
    /\ \A d \in Documents \ {Absent} : d.services # Absent =>
        \A s \in Range(d.services) :
            s = [id |-> s.id, type |-> s.type, path |-> s.path, statuses |-> s.statuses]
    /\ Absent \notin Statuses /\ "/" \notin {Absent, Invalid}

VARIABLES
    document, urls, backend,  \* what this probe is given
    zone,       \* what DNS says now
    probing,    \* where the probe is
    config,     \* ServiceHealthConfig
    endpoints,  \* engine.protected
    target,     \* serviceProbeTarget
    addresses,  \* the addresses vetted
    next,       \* which of them is dialled next
    compared,   \* how many protected endpoints they were compared with
    expired,    \* the deadline has passed
    report,     \* ServiceHealthResult.State
    zones,      \* history: what DNS said since the probe began
    dialled,    \* history: the addresses dialled
    reply,      \* history: the status of the answer
    trouble,    \* history: a lookup, a connection or a request failed
    late        \* history: how many addresses were dialled after the deadline

probeGiven == <<document, urls, backend>>
probeHistory == <<zones, dialled, reply, trouble, late>>
probeVars ==
    <<probeGiven, zone, probing, config, endpoints, target, addresses, next, compared, expired, report, probeHistory>>

Reports(state) == probing' = "done" /\ report' = state
Continues(step) == probing' = step /\ UNCHANGED report

-----------------------------------------------------------------------------
(* The configuration and the engine. *)

\* Without a path there is no configuration and no probe.
LoadHealthConfig ==
    /\ probing = "config"
    /\ IF document # Absent /\ DocumentAccepted(document)
       THEN config' = ConfigOf(document) /\ probing' = "engine"
       ELSE probing' = "off" /\ UNCHANGED config
    /\ UNCHANGED <<probeGiven, zone, endpoints, target, addresses, next, compared, expired, report, probeHistory>>

PortOf(url) ==
    IF url.port # Absent THEN url.port ELSE IF url.scheme = "https" THEN 443 ELSE 80

URLAccepted(url) ==
    /\ url.scheme \in {"http", "https"} /\ ~url.user /\ url.host # Invalid
    /\ PortOf(url) \in Ports

NewEngine ==
    /\ probing = "engine"
    /\ IF \A i \in DOMAIN urls : URLAccepted(urls[i])
       THEN /\ endpoints' = [i \in DOMAIN urls |-> [host |-> urls[i].host, port |-> PortOf(urls[i])]]
            /\ probing' = "derive"
       ELSE probing' = "off" /\ UNCHANGED endpoints
    /\ UNCHANGED <<probeGiven, zone, config, target, addresses, next, compared, expired, report, probeHistory>>

-----------------------------------------------------------------------------
(* The target. *)

\* Wrong: ranges that touch are taken for ranges that overlap.
FaultyValidStatusRanges(ranges) ==
    /\ Len(ranges) \in 1..MaxRanges
    /\ \A i \in DOMAIN ranges :
        /\ ranges[i].min >= 100 /\ ranges[i].max <= 599 /\ ranges[i].min <= ranges[i].max
        /\ i > 1 => ranges[i].min > ranges[i - 1].max + 1

ValidStatusRanges(ranges) ==
    /\ Len(ranges) \in 1..MaxRanges
    /\ \A i \in DOMAIN ranges :
        /\ ranges[i].min >= 100 /\ ranges[i].max <= 599 /\ ranges[i].min <= ranges[i].max
        /\ i > 1 => ranges[i].min > ranges[i - 1].max

EvidenceUsable(s) ==
    \/ s.type = "http" /\ s.path \notin {Absent, Invalid} /\ ValidStatusRanges(s.statuses)
    \/ s.type = "tcp" /\ s.path = Absent /\ s.statuses = <<>>

Derivable(b, s) ==
    /\ b.enabled /\ b.id > 0 /\ b.id = s.id
    /\ b.port \in Ports
    /\ b.scheme \in {"http", "https"}
    /\ b.host # Invalid
    /\ EvidenceUsable(s)

Sockets == {endpoints[i] : i \in DOMAIN endpoints}

\* A service is probed with the proxy host of its ID.
Derive ==
    /\ probing = "derive"
    /\ \E s \in config.services :
        /\ s.id = backend.id
        /\ IF ~Derivable(backend, s) THEN Reports("unknown") /\ UNCHANGED target
           ELSE /\ target' = [type |-> s.type, host |-> backend.host, port |-> backend.port,
                              statuses |-> s.statuses]
                /\ IF [host |-> backend.host, port |-> backend.port] \in Sockets
                   THEN Reports("unreachable")
                   ELSE Continues("resolve")
    /\ UNCHANGED <<probeGiven, zone, config, endpoints, addresses, next, compared, expired, probeHistory>>

-----------------------------------------------------------------------------
(* Names and addresses. *)

DangerousAddress(a) == a \in Dangerous \cup {Broadcast}
AddressAllowed(a) == ~DangerousAddress(a) /\ \E c \in config.cidrs : a \in c.first..c.last
NameAllowed(n) == n \in config.hosts \/ \E s \in config.suffixes : IsStrictPrefix(s, n)

\* The addresses in the order they came, each once; none where one is refused.
Resolved(host, z) ==
    LET as == IF host.literal THEN <<[address |-> host.address, form |-> "plain"]>> ELSE z[host.name]
    IN  IF \E i \in DOMAIN as : as[i].form = "zoned" \/ DangerousAddress(as[i].address) THEN <<>>
        ELSE FoldLeft(LAMBDA seen, a : IF a.address \in Range(seen) THEN seen ELSE Append(seen, a.address),
                      <<>>, as)

AllowedTarget(host, z) ==
    LET as == Resolved(host, z)
    IN  /\ host.literal \/ NameAllowed(host.name)
        /\ as # <<>>
        /\ \A i \in DOMAIN as : AddressAllowed(as[i])

\* A lookup fails by itself or with the deadline.
Lookup(host, ok) ==
    /\ ok => host.literal \/ ~expired
    /\ ~ok => ~host.literal
    /\ trouble' = (trouble \/ ~ok)

\* A name that is not allowed is not looked up.
ResolveTarget ==
    /\ probing = "resolve"
    /\ \E ok \in BOOLEAN :
        /\ Lookup(target.host, ok)
        /\ IF ok /\ AllowedTarget(target.host, zone)
           THEN addresses' = Resolved(target.host, zone) /\ Continues("compare")
           ELSE Reports("unreachable") /\ UNCHANGED addresses
    /\ UNCHANGED <<probeGiven, zone, config, endpoints, target, next, compared, expired>>
    /\ UNCHANGED <<zones, dialled, reply, late>>

\* Of two sets of addresses, whether they meet.
Intersect(left, right) == Range(left) \cap Range(right) # {}

\* The protected endpoints in their order; those on other ports are passed over.
CompareProtected ==
    /\ probing = "compare" /\ compared < Len(endpoints)
    /\ LET e == endpoints[compared + 1]
       IN  \/ /\ e.port # target.port
              /\ compared' = compared + 1 /\ Continues("compare") /\ UNCHANGED trouble
           \/ /\ e.port = target.port
              /\ \E ok \in BOOLEAN :
                  /\ Lookup(e.host, ok)
                  /\ IF ok /\ Resolved(e.host, zone) # <<>> /\ ~Intersect(addresses, Resolved(e.host, zone))
                     THEN compared' = compared + 1 /\ Continues("compare")
                     ELSE Reports("unreachable") /\ UNCHANGED compared
    /\ UNCHANGED <<probeGiven, zone, config, endpoints, target, addresses, next, expired>>
    /\ UNCHANGED <<zones, dialled, reply, late>>

-----------------------------------------------------------------------------
(* The connection. *)

Dialling == probing = "compare" /\ compared = Len(endpoints) /\ next \in DOMAIN addresses

\* probeTCP is done once it is connected, probeHTTP sends its request.
Connected == IF target.type = "tcp" THEN Reports("reachable") ELSE Continues("request")

\* Wrong: the dialler is given the name and looks it up again.
HastyDial(ok) ==
    /\ Dialling
    /\ ok => ~expired
    /\ dialled' = dialled \cup Range(Resolved(target.host, zone))
    /\ trouble' = (trouble \/ ~ok)
    /\ IF ok THEN Connected ELSE Reports("unreachable")
    /\ UNCHANGED <<probeGiven, zone, config, endpoints, target, addresses, next, compared, expired, zones, reply, late>>

Dialled(ok) ==
    /\ dialled' = dialled \cup {addresses[next]}
    /\ trouble' = (trouble \/ ~ok)
    /\ late' = late + (IF expired THEN 1 ELSE 0)
    /\ next' = next + 1
    /\ UNCHANGED <<probeGiven, zone, config, endpoints, target, addresses, compared, expired, zones, reply>>

\* Wrong: only the end of the list ends it.
TirelessDial(ok) ==
    /\ Dialling
    /\ ok => ~expired
    /\ Dialled(ok)
    /\ IF ok THEN Connected
       ELSE IF next' \notin DOMAIN addresses THEN Reports("unreachable")
       ELSE Continues("compare")

\* The vetted addresses one after the other until one answers; the deadline
\* ends that too.
Dial(ok) ==
    /\ Dialling
    /\ ok => ~expired
    /\ Dialled(ok)
    /\ IF ok THEN Connected
       ELSE IF expired \/ next' \notin DOMAIN addresses THEN Reports("unreachable")
       ELSE Continues("compare")

\* What a status says: credentials are asked for before anything is accepted.
StateOf(status, ranges) ==
    IF status \in {401, 403} THEN "auth_required"
    ELSE IF \E i \in DOMAIN ranges : status \in ranges[i].min..ranges[i].max THEN "reachable"
    ELSE "response_error"

RequestAnswered(status) ==
    /\ probing = "request" /\ ~expired
    /\ reply' = status
    /\ Reports(StateOf(status, target.statuses))
    /\ UNCHANGED <<probeGiven, zone, config, endpoints, target, addresses, next, compared, expired>>
    /\ UNCHANGED <<zones, dialled, trouble, late>>

RequestFails ==
    /\ probing = "request"
    /\ trouble' = TRUE
    /\ Reports("unreachable")
    /\ UNCHANGED <<probeGiven, zone, config, endpoints, target, addresses, next, compared, expired>>
    /\ UNCHANGED <<zones, dialled, reply, late>>

UnderWay == probing \in {"resolve", "compare", "request"}

Expire ==
    /\ UnderWay /\ ~expired
    /\ expired' = TRUE
    /\ UNCHANGED <<probeGiven, zone, probing, config, endpoints, target, addresses, next, compared, report, probeHistory>>

ZoneChanges ==
    /\ UnderWay
    /\ zone' \in Zones \ {zone}
    /\ zones' = zones \cup {zone'}
    /\ UNCHANGED <<probeGiven, probing, config, endpoints, target, addresses, next, compared, expired, report>>
    /\ UNCHANGED <<dialled, reply, trouble, late>>

ProbeInit ==
    /\ document \in Documents /\ urls \in Guarded /\ backend \in Backends
    /\ zone \in Zones /\ zones = {zone}
    /\ probing = "config" /\ config = Absent /\ endpoints = <<>> /\ target = Absent
    /\ addresses = <<>> /\ next = 1 /\ compared = 0 /\ expired = FALSE /\ report = "none"
    /\ dialled = {} /\ reply = Absent /\ trouble = FALSE /\ late = 0

ProbeStep ==
    \/ LoadHealthConfig \/ NewEngine \/ Derive \/ ResolveTarget \/ CompareProtected
    \/ \E ok \in BOOLEAN : Dial(ok)
    \/ \E status \in Statuses : RequestAnswered(status)
    \/ RequestFails \/ Expire \/ ZoneChanges

ProbeSpec == ProbeInit /\ [][ProbeStep]_probeVars

-----------------------------------------------------------------------------

\* With the target's addresses as y has them, and those of the protected
\* endpoints as z has them, the target may be dialled.
Admissible(y, z) ==
    /\ AllowedTarget(target.host, y)
    /\ \A e \in Sockets : e.port = target.port =>
        Resolved(e.host, z) # <<>> /\ ~Intersect(Resolved(target.host, y), Resolved(e.host, z))

\* Whatever DNS does meanwhile, an address that is dialled was the target's at
\* a moment of the probe at which every address of the target was allowed, and
\* was then or later none of a protected endpoint's on that port, whose names
\* all resolved; and where DNS stood still, the whole of it let the target be
\* dialled (validateTarget, resolveAllowedTarget, dialValidated).
OnlyVettedSocketsAreDialled ==
    dialled # {} =>
        /\ \E z \in zones : AllowedTarget(target.host, z) /\ dialled \subseteq Range(Resolved(target.host, z))
        /\ \A e \in Sockets : e.port = target.port =>
            /\ e.host # target.host
            /\ \E z \in zones : Resolved(e.host, z) # <<>> /\ dialled \cap Range(Resolved(e.host, z)) = {}
        /\ zones = {zone} => Admissible(zone, zone)

\* The service of the document.
Asked == CHOOSE s \in Range(document.services) : s.id = backend.id

\* The result of a probe has its reason.  It is unknown only for what the proxy
\* host says, never for a configuration the parser accepts; a target is called
\* unreachable only if something failed, the deadline passed, or it is
\* protected or not allowed by what DNS said of it and then of a protected name;
\* an answer is judged by the statuses the document lists, except that 401 and
\* 403 always ask for credentials; and after the deadline no address is tried
\* but the one that was next, and the result is unreachable
\* (parseServiceHealthService, deriveServiceProbeTarget, Probe, probeHTTP,
\* dialValidated).
ReportIsJustified ==
    /\ late <= 1
    /\ probing = "done" =>
        /\ report = "unknown" <=>
            (backend.host = Invalid \/ backend.port \notin Ports \/ backend.scheme \notin {"http", "https"})
        /\ report = "unreachable" =>
            \/ trouble \/ expired
            \/ [host |-> backend.host, port |-> backend.port] \in Sockets
            \/ \E y, z \in zones : ~Admissible(y, z)
        /\ expired => report = "unreachable"
        /\ report \in {"reachable", "auth_required", "response_error"} => dialled # {}
        /\ (Asked.type = "tcp" => reply = Absent /\ report \notin {"auth_required", "response_error"})
        /\ reply # Absent =>
            LET listed == UNION {r.min..r.max : r \in Range(Asked.statuses)}
            IN  /\ (report = "auth_required") <=> (reply \in {401, 403})
                /\ (report = "reachable") <=> (reply \in listed \ {401, 403})
                /\ report # "unreachable"
=============================================================================
