-------------------------- MODULE ServiceProbeProofs --------------------------
(***************************************************************************)
(* Proofs about a probe, for all documents, proxy hosts, protected URLs    *)
(* and everything DNS may say.                                             *)
(***************************************************************************)
EXTENDS ServiceProbe, TLAPS

Early == {"config", "engine", "derive", "resolve", "off"}
Vetted == {"compare", "request"}

EndpointsInv ==
    /\ urls \in Guarded
    /\ \A i \in DOMAIN endpoints : endpoints[i] = [host |-> endpoints[i].host, port |-> endpoints[i].port]
    /\ DOMAIN endpoints = 1..Len(endpoints)
    /\ compared \in Nat

\* Where the probe is past a test, what that test found.
HistoryInv ==
    /\ zone \in zones
    /\ probing \in Early => dialled = {} /\ compared = 0
    /\ probing \in Vetted \cup {"resolve"} \/ dialled # {} =>
        [host |-> target.host, port |-> target.port] \notin Sockets

\* The addresses were the target's at one moment, and were compared with those
\* of the protected endpoints at others.
AddressesInv ==
    probing \in Vetted \/ dialled # {} =>
        /\ \E z \in zones : AllowedTarget(target.host, z) /\ addresses = Resolved(target.host, z)
        /\ dialled \subseteq Range(addresses)
        /\ \A i \in DOMAIN endpoints : i <= compared /\ endpoints[i].port = target.port =>
            \E z \in zones :
                Resolved(endpoints[i].host, z) # <<>> /\ ~Intersect(addresses, Resolved(endpoints[i].host, z))
        /\ dialled # {} \/ probing = "request" => compared = Len(endpoints)

ProbeInv == EndpointsInv /\ HistoryInv /\ AddressesInv

-----------------------------------------------------------------------------
(* The parser and the probe judge a service separately. *)

\* Every service the parser accepts is one a probe can use: a reason to report
\* an unknown state is the proxy host's.
THEOREM AcceptedServicesAreUsable ==
  ASSUME NEW s, ServiceAccepted(s),
         s = [id |-> s.id, type |-> s.type, path |-> s.path, statuses |-> s.statuses],
         "/" \notin {Absent, Invalid}
  PROVE  EvidenceUsable(ServiceOf(s))
<1>1. CASE s.type = "tcp"
  BY <1>1 DEF ServiceAccepted, ServiceOf, EvidenceUsable
<1>2. CASE s.type = "http"
  <2>1. s.path # Invalid /\ StatusRangesAccepted(s.statuses)
    BY <1>2 DEF ServiceAccepted
  <2>2. ValidStatusRanges(s.statuses)
    <3> DEFINE r == s.statuses
    <3>1. \A i \in DOMAIN r : r[i].min \in 100..599 /\ r[i].max \in 100..599
      BY <2>1 DEF StatusRangesAccepted, StatusCodes
    <3>2. \A i \in DOMAIN r : r[i].min >= 100 /\ r[i].max <= 599
      <4>1. \A n : n \in 100..599 => n >= 100 /\ n <= 599
        OBVIOUS
      <4>2. QED
        BY <3>1, <4>1
    <3>3. QED
      BY <2>1, <3>2 DEF StatusRangesAccepted, ValidStatusRanges
  <2>3. ServiceOf(s).type = "http" /\ ServiceOf(s).statuses = s.statuses
        /\ ServiceOf(s).path \notin {Absent, Invalid}
    BY <1>2, <2>1 DEF ServiceOf
  <2>4. QED
    BY <2>2, <2>3 DEF EvidenceUsable
<1>3. QED
  BY <1>1, <1>2 DEF ServiceAccepted

-----------------------------------------------------------------------------

LEMMA ProbeInitially == ProbeInit => ProbeInv
<1> SUFFICES ASSUME ProbeInit PROVE ProbeInv
  OBVIOUS
<1>1. EndpointsInv
  <2>1. urls \in Guarded /\ endpoints = <<>> /\ compared = 0
    BY DEF ProbeInit
  <2>2. DOMAIN endpoints = {} /\ Len(endpoints) = 0
    BY <2>1
  <2>3. QED
    BY <2>1, <2>2 DEF EndpointsInv
<1>2. HistoryInv /\ AddressesInv
  BY DEF ProbeInit, HistoryInv, AddressesInv, Early, Vetted
<1>3. QED
  BY <1>1, <1>2 DEF ProbeInv

\* What AllowedTarget and Resolved say depends on the configuration only.
LEMMA SameConfigSameVerdict ==
  ASSUME config' = config, NEW host, NEW z
  PROVE  AllowedTarget(host, z)' <=> AllowedTarget(host, z)
  BY DEF AllowedTarget, NameAllowed, AddressAllowed

\* Before anything is resolved there is nothing to keep.
LEMMA EarlyStepKeepsProbeInv ==
  ASSUME HistoryInv, EndpointsInv', probing \in Early, probing' \in (Early \ {"resolve"}) \cup {"done"},
         UNCHANGED <<zone, zones, dialled, compared>>
  PROVE  ProbeInv'
<1>1. dialled' = {} /\ compared' = 0
  BY DEF HistoryInv
<1>2. HistoryInv'
  BY <1>1 DEF HistoryInv, Early, Vetted
<1>3. AddressesInv'
  BY <1>1 DEF AddressesInv, Early, Vetted
<1>4. QED
  BY <1>2, <1>3 DEF ProbeInv

\* A later step that moves neither the target nor what was found keeps it all.
LEMMA QuietStepKeepsProbeInv ==
  ASSUME ProbeInv,
         UNCHANGED <<urls, config, endpoints, target, addresses, compared, dialled>>,
         zone' \in zones', zones \subseteq zones',
         probing' \in {probing, "done"}
  PROVE  ProbeInv'
<1>1. EndpointsInv'
  BY DEF ProbeInv, EndpointsInv
<1>2. Sockets' = Sockets
  BY DEF Sockets
<1>3. HistoryInv'
  BY <1>2 DEF ProbeInv, HistoryInv, Early, Vetted
<1>4. AddressesInv'
  <2> SUFFICES ASSUME probing' \in Vetted \/ dialled' # {}
               PROVE  AddressesInv'
    BY DEF AddressesInv
  <2>1. probing \in Vetted \/ dialled # {}
    BY DEF Vetted
  <2>2. PICK z \in zones : AllowedTarget(target.host, z) /\ addresses = Resolved(target.host, z)
    BY <2>1 DEF ProbeInv, AddressesInv
  <2>3. AllowedTarget(target.host, z)' /\ addresses' = Resolved(target'.host, z) /\ z \in zones'
    BY <2>2, SameConfigSameVerdict
  <2>4. QED
    BY <2>1, <2>3 DEF ProbeInv, AddressesInv, Vetted
<1>5. QED
  BY <1>1, <1>3, <1>4 DEF ProbeInv

-----------------------------------------------------------------------------
(* The steps. *)

LEMMA LoadKeepsProbeInv ==
  ASSUME ProbeInv, LoadHealthConfig
  PROVE  ProbeInv'
<1>1. EndpointsInv'
  BY DEF ProbeInv, EndpointsInv, LoadHealthConfig, probeGiven
<1>2. probing \in Early /\ probing' \in Early \ {"resolve"}
  BY DEF LoadHealthConfig, Early
<1>3. QED
  BY <1>1, <1>2, EarlyStepKeepsProbeInv DEF ProbeInv, LoadHealthConfig, probeHistory

LEMMA NewEngineKeepsProbeInv ==
  ASSUME ProbeInv, NewEngine
  PROVE  ProbeInv'
<1>1. urls \in Seq(Range(urls))
  BY ProbeAssumption DEF ProbeInv, EndpointsInv
<1>2. ASSUME endpoints' = endpoints PROVE EndpointsInv'
  BY <1>2 DEF ProbeInv, EndpointsInv, NewEngine, probeGiven
<1>3. ASSUME endpoints' = [i \in DOMAIN urls |-> [host |-> urls[i].host, port |-> PortOf(urls[i])]]
      PROVE  EndpointsInv'
  <2>1. DOMAIN endpoints' = 1..Len(urls) /\ Len(urls) \in Nat
    BY <1>1, <1>3
  <2>2. DOMAIN endpoints' = 1..Len(endpoints')
    BY <2>1, <1>3
  <2>3. QED
    BY <1>3, <2>1, <2>2 DEF ProbeInv, EndpointsInv, NewEngine, probeGiven
<1>4. EndpointsInv'
  BY <1>2, <1>3 DEF NewEngine, ProbeInv, EndpointsInv, probeGiven
<1>5. probing \in Early /\ probing' \in Early \ {"resolve"}
  BY DEF NewEngine, Early
<1>6. QED
  BY <1>4, <1>5, EarlyStepKeepsProbeInv DEF ProbeInv, NewEngine, probeHistory

LEMMA DeriveKeepsProbeInv ==
  ASSUME ProbeInv, Derive
  PROVE  ProbeInv'
<1>1. EndpointsInv'
  BY DEF ProbeInv, EndpointsInv, Derive, probeGiven
<1>2. probing = "derive" /\ probing' \in {"done", "resolve"}
  BY DEF Derive, Reports, Continues
<1>3. dialled = {} /\ compared = 0 /\ dialled' = {} /\ compared' = 0
  BY <1>2 DEF ProbeInv, HistoryInv, Early, Derive, probeHistory
<1>4. Sockets' = Sockets
  BY DEF Derive, Sockets
<1>5. probing' = "resolve" => [host |-> target'.host, port |-> target'.port] \notin Sockets
  BY DEF Derive, Reports, Continues
<1>6. HistoryInv'
  BY <1>2, <1>3, <1>4, <1>5 DEF ProbeInv, HistoryInv, Early, Vetted, Derive, probeHistory
<1>7. AddressesInv'
  BY <1>2, <1>3 DEF AddressesInv, Vetted
<1>8. QED
  BY <1>1, <1>6, <1>7 DEF ProbeInv

LEMMA ResolveTargetKeepsProbeInv ==
  ASSUME ProbeInv, ResolveTarget
  PROVE  ProbeInv'
<1>1. EndpointsInv'
  BY DEF ProbeInv, EndpointsInv, ResolveTarget, probeGiven
<1>2. probing = "resolve" /\ probing' \in {"done", "compare"}
  BY DEF ResolveTarget, Reports, Continues
<1>3. dialled = {} /\ compared = 0 /\ dialled' = {} /\ compared' = 0
  BY <1>2 DEF ProbeInv, HistoryInv, Early, ResolveTarget
<1>4. Sockets' = Sockets
  BY DEF ResolveTarget, Sockets
<1>5. HistoryInv'
  BY <1>2, <1>3, <1>4 DEF ProbeInv, HistoryInv, Early, Vetted, ResolveTarget
<1>6. ASSUME probing' = "compare"
      PROVE  AllowedTarget(target.host, zone)' /\ addresses' = Resolved(target'.host, zone) /\ zone \in zones'
  <2>1. AllowedTarget(target.host, zone) /\ addresses' = Resolved(target.host, zone)
    BY <1>6 DEF ResolveTarget, Reports, Continues
  <2>2. AllowedTarget(target.host, zone)' <=> AllowedTarget(target.host, zone)
    BY DEF ResolveTarget, AllowedTarget, NameAllowed, AddressAllowed
  <2>3. QED
    BY <2>1, <2>2 DEF ProbeInv, HistoryInv, ResolveTarget
<1>7. \A i \in DOMAIN endpoints' : ~(i <= compared')
  BY <1>1, <1>3 DEF EndpointsInv
<1>8. AddressesInv'
  BY <1>2, <1>3, <1>6, <1>7 DEF AddressesInv, Vetted, ResolveTarget
<1>9. QED
  BY <1>1, <1>5, <1>8 DEF ProbeInv

LEMMA CompareKeepsProbeInv ==
  ASSUME ProbeInv, CompareProtected
  PROVE  ProbeInv'
<1> DEFINE e == endpoints[compared + 1]
           Clear(i) == endpoints[i].port = target.port =>
                \E z \in zones : Resolved(endpoints[i].host, z) # <<>>
                               /\ ~Intersect(addresses, Resolved(endpoints[i].host, z))
<1>1. probing = "compare" /\ probing' \in {"done", "compare"} /\ compared < Len(endpoints)
  BY DEF CompareProtected, Reports, Continues
<1>2. UNCHANGED <<urls, zone, zones, config, endpoints, target, addresses, dialled>>
  BY DEF CompareProtected, probeGiven
<1>3. dialled = {}
  <2>1. dialled # {} => compared = Len(endpoints)
    BY DEF ProbeInv, AddressesInv
  <2>2. compared \in Nat
    BY DEF ProbeInv, EndpointsInv
  <2>3. ASSUME compared = Len(endpoints) PROVE FALSE
    <3>1. compared < compared
      BY <1>1, <2>3
    <3>2. QED
      BY <2>2, <3>1
  <2>4. QED
    BY <2>1, <2>3
<1>4. CASE compared' = compared
  BY <1>1, <1>2, <1>4, QuietStepKeepsProbeInv DEF ProbeInv, HistoryInv
<1>5. CASE compared' = compared + 1 /\ compared' # compared
  <2>1. EndpointsInv'
    BY <1>2, <1>5 DEF ProbeInv, EndpointsInv
  <2>2. HistoryInv'
    BY <1>1, <1>2, <1>3 DEF ProbeInv, HistoryInv, Early, Vetted, Sockets
  <2>3. Clear(compared + 1)
    BY <1>5 DEF CompareProtected, Reports, Continues, ProbeInv, HistoryInv
  <2>4. \A i \in DOMAIN endpoints : i <= compared + 1 => Clear(i)
    <3>1. \A i \in DOMAIN endpoints : i <= compared => Clear(i)
      BY <1>1 DEF ProbeInv, AddressesInv, Vetted
    <3>2. compared \in Nat /\ DOMAIN endpoints = 1..Len(endpoints)
      BY DEF ProbeInv, EndpointsInv
    <3>3. \A i \in DOMAIN endpoints : i <= compared + 1 => i <= compared \/ i = compared + 1
      BY <3>2
    <3>4. QED
      BY <2>3, <3>1, <3>3
  <2>5. PICK z \in zones : AllowedTarget(target.host, z) /\ addresses = Resolved(target.host, z)
    BY <1>1 DEF ProbeInv, AddressesInv, Vetted
  <2>6. AllowedTarget(target.host, z)' /\ addresses' = Resolved(target'.host, z) /\ z \in zones'
    BY <1>2, <2>5, SameConfigSameVerdict
  <2>7. AddressesInv'
    BY <1>1, <1>2, <1>3, <1>5, <2>4, <2>6 DEF AddressesInv, Vetted
  <2>8. QED
    BY <2>1, <2>2, <2>7 DEF ProbeInv
<1>6. QED
  BY <1>4, <1>5 DEF CompareProtected

LEMMA DialKeepsProbeInv ==
  ASSUME ProbeInv, NEW ok \in BOOLEAN, Dial(ok)
  PROVE  ProbeInv'
<1>1. probing = "compare" /\ probing' \in {"done", "compare", "request"} /\ compared = Len(endpoints)
  BY DEF Dial, Dialling, Connected, Reports, Continues
<1>2. UNCHANGED <<urls, zone, zones, config, endpoints, target, addresses, compared>>
  BY DEF Dial, Dialled, probeGiven
<1>3. EndpointsInv'
  BY <1>2 DEF ProbeInv, EndpointsInv
<1>4. HistoryInv'
  BY <1>1, <1>2 DEF ProbeInv, HistoryInv, Early, Vetted, Sockets
<1>5. dialled' \subseteq Range(addresses)
  BY <1>1 DEF Dial, Dialled, Dialling, Range, ProbeInv, AddressesInv, Vetted
<1>6. PICK z \in zones : AllowedTarget(target.host, z) /\ addresses = Resolved(target.host, z)
  BY <1>1 DEF ProbeInv, AddressesInv, Vetted
<1>7. AllowedTarget(target.host, z)' /\ addresses' = Resolved(target'.host, z) /\ z \in zones'
  BY <1>2, <1>6, SameConfigSameVerdict
<1>8. AddressesInv'
  BY <1>1, <1>2, <1>5, <1>7 DEF ProbeInv, AddressesInv, Vetted
<1>9. QED
  BY <1>3, <1>4, <1>8 DEF ProbeInv

LEMMA StepKeepsProbeInv == ProbeInv /\ [ProbeStep]_probeVars => ProbeInv'
<1> SUFFICES ASSUME ProbeInv, [ProbeStep]_probeVars PROVE ProbeInv'
  OBVIOUS
<1>1. zone \in zones
  BY DEF ProbeInv, HistoryInv
<1>2. CASE UNCHANGED probeVars
  BY <1>1, <1>2, QuietStepKeepsProbeInv DEF probeVars, probeGiven, probeHistory
<1>3. ASSUME NEW status \in Statuses, RequestAnswered(status) PROVE ProbeInv'
  BY <1>1, <1>3, QuietStepKeepsProbeInv DEF RequestAnswered, Reports, probeGiven
<1>4. CASE RequestFails
  BY <1>1, <1>4, QuietStepKeepsProbeInv DEF RequestFails, Reports, probeGiven
<1>5. CASE Expire
  BY <1>1, <1>5, QuietStepKeepsProbeInv DEF Expire, probeGiven, probeHistory
<1>6. CASE ZoneChanges
  BY <1>1, <1>6, QuietStepKeepsProbeInv DEF ZoneChanges, probeGiven
<1>7. QED
  BY <1>2, <1>3, <1>4, <1>5, <1>6, LoadKeepsProbeInv, NewEngineKeepsProbeInv, DeriveKeepsProbeInv,
     ResolveTargetKeepsProbeInv, CompareKeepsProbeInv, DialKeepsProbeInv DEF ProbeStep

LEMMA ProbeInvariant == ProbeSpec => []ProbeInv
  BY ProbeInitially, StepKeepsProbeInv, PTL DEF ProbeSpec

\* Whatever DNS says and when, only vetted addresses are dialled.
THEOREM OnlyVetted == ProbeSpec => []OnlyVettedSocketsAreDialled
<1>1. ProbeInv => OnlyVettedSocketsAreDialled
  <2> SUFFICES ASSUME ProbeInv, dialled # {} PROVE OnlyVettedSocketsAreDialled
    BY DEF OnlyVettedSocketsAreDialled
  <2>1. PICK z \in zones : AllowedTarget(target.host, z) /\ addresses = Resolved(target.host, z)
    BY DEF ProbeInv, AddressesInv
  <2>2. dialled \subseteq Range(addresses)
    BY DEF ProbeInv, AddressesInv
  <2>3. ASSUME NEW e \in Sockets, e.port = target.port
        PROVE  /\ e.host # target.host
               /\ \E y \in zones : Resolved(e.host, y) # <<>> /\ ~Intersect(addresses, Resolved(e.host, y))
    <3>1. PICK i \in DOMAIN endpoints : e = endpoints[i]
      BY <2>3 DEF Sockets
    <3>2. e = [host |-> e.host, port |-> e.port]
      BY <3>1 DEF ProbeInv, EndpointsInv
    <3>3. e.host # target.host
      BY <2>3, <3>2 DEF ProbeInv, HistoryInv
    <3>4. i <= compared
      <4>1. compared = Len(endpoints) /\ compared \in Nat
        BY DEF ProbeInv, EndpointsInv, AddressesInv
      <4>2. i \in 1..compared
        BY <4>1 DEF ProbeInv, EndpointsInv
      <4>3. QED
        BY <4>1, <4>2
    <3>5. QED
      BY <2>3, <3>1, <3>3, <3>4 DEF ProbeInv, AddressesInv
  <2>4. ASSUME NEW e \in Sockets, e.port = target.port
        PROVE  \E y \in zones : Resolved(e.host, y) # <<>> /\ dialled \cap Range(Resolved(e.host, y)) = {}
    BY <2>2, <2>3, <2>4 DEF Intersect
  <2>5. zones = {zone} => Admissible(zone, zone)
    BY <2>1, <2>3 DEF Admissible
  <2>6. QED
    BY <2>1, <2>2, <2>3, <2>4, <2>5 DEF OnlyVettedSocketsAreDialled
<1>2. QED
  BY <1>1, ProbeInvariant, PTL

-----------------------------------------------------------------------------
(* Results. *)

BackendUsable ==
    backend.host # Invalid /\ backend.port \in Ports /\ backend.scheme \in {"http", "https"}

\* Past its first step a probe has the configuration of an accepted document.
GivenInv ==
    /\ document \in Documents /\ backend \in Backends
    /\ probing \notin {"config", "off"} =>
        document # Absent /\ DocumentAccepted(document) /\ config = ConfigOf(document)

\* Once it is derived, the target is the proxy host's, judged as the document asks.
TargetInv ==
    UnderWay \/ (probing = "done" /\ report # "unknown") =>
        /\ BackendUsable
        /\ Asked \in Range(document.services)
        /\ target = [type |-> Asked.type, host |-> backend.host, port |-> backend.port,
                     statuses |-> ServiceOf(Asked).statuses]

\* What can make a target unreachable.
Excused ==
    \/ trouble \/ expired
    \/ [host |-> backend.host, port |-> backend.port] \in Sockets
    \/ \E y, z \in zones : ~Admissible(y, z)

\* Nothing is reported before the end, and at the end nothing without its reason.
OutcomeInv ==
    /\ probing # "done" => reply = Absent
    /\ probing = "request" => dialled # {} /\ target.type # "tcp"
    /\ probing = "done" =>
        /\ report = "unknown" => ~BackendUsable /\ reply = Absent
        /\ report = "unreachable" => Excused /\ reply = Absent
        /\ report \in {"reachable", "auth_required", "response_error"} => dialled # {}
        /\ report \in {"auth_required", "response_error"} => target.type # "tcp"
        /\ reply # Absent => target.type # "tcp" /\ report = StateOf(reply, target.statuses)

\* The deadline passes only while the probe is under way; an address dialled
\* after it is the last, and what is reported after it is a failure.
DeadlineInv ==
    /\ expired => UnderWay \/ (probing = "done" /\ report = "unreachable")
    /\ late \in {0, 1}
    /\ late = 1 => probing = "done"

ReportInv == GivenInv /\ TargetInv /\ OutcomeInv /\ DeadlineInv

\* IDs tell the services of an accepted document apart, so the service a probe
\* picks from the configuration is the one the document has.
LEMMA OneServiceAsked ==
  ASSUME document \in Documents, document # Absent, DocumentAccepted(document), config = ConfigOf(document),
         NEW s \in config.services, s.id = backend.id
  PROVE  Asked \in Range(document.services) /\ s = ServiceOf(Asked) /\ s.type = Asked.type /\ EvidenceUsable(s)
<1> DEFINE services == document.services
<1>1. /\ services # Absent
      /\ \A i \in DOMAIN services : ServiceAccepted(services[i])
      /\ \A i, j \in DOMAIN services : i # j => services[i].id # services[j].id
  BY DEF DocumentAccepted, ServicesAccepted
<1>2. config.services = {ServiceOf(t) : t \in Range(services)}
  BY DEF ConfigOf
<1>3. \A t \in Range(services) :
        /\ ServiceAccepted(t)
        /\ t = [id |-> t.id, type |-> t.type, path |-> t.path, statuses |-> t.statuses]
  BY <1>1, ProbeAssumption DEF Range
<1>4. \A t \in Range(services) : ServiceOf(t).id = t.id /\ ServiceOf(t).type = t.type
  BY <1>3 DEF ServiceOf
<1>5. PICK t \in Range(services) : s = ServiceOf(t)
  BY <1>2
<1>6. t.id = backend.id
  BY <1>4, <1>5
<1>7. \A u \in Range(services) : u.id = backend.id => u = t
  BY <1>1, <1>6 DEF Range
<1>8. Asked = t
  <2>1. Asked \in Range(services) /\ Asked.id = backend.id
    BY <1>6 DEF Asked
  <2>2. QED
    BY <1>7, <2>1
<1>9. EvidenceUsable(ServiceOf(t))
  <2>1. "/" \notin {Absent, Invalid}
    BY ProbeAssumption
  <2>2. QED
    BY <1>3, <2>1, AcceptedServicesAreUsable
<1>10. QED
  BY <1>4, <1>5, <1>8, <1>9

LEMMA ReportInitially == ProbeInit => ReportInv
<1> SUFFICES ASSUME ProbeInit PROVE ReportInv
  OBVIOUS
<1>1. GivenInv /\ TargetInv
  BY DEF ProbeInit, GivenInv, TargetInv, UnderWay
<1>2. OutcomeInv /\ DeadlineInv
  BY DEF ProbeInit, OutcomeInv, DeadlineInv
<1>3. QED
  BY <1>1, <1>2 DEF ReportInv

\* What is given stays, and what derives from it.
LEMMA SameGiven ==
  ASSUME UNCHANGED probeGiven
  PROVE  (BackendUsable' <=> BackendUsable) /\ Asked' = Asked
BY DEF probeGiven, BackendUsable, Asked

\* After the target is derived it stays.
LEMMA LaterStepKeepsTarget ==
  ASSUME GivenInv, TargetInv, UnderWay, probing' \in {"resolve", "compare", "request", "done"},
         UNCHANGED <<probeGiven, config, target>>
  PROVE  GivenInv' /\ TargetInv'
<1>1. GivenInv'
  BY DEF GivenInv, UnderWay, probeGiven
<1>2. TargetInv'
  BY SameGiven DEF TargetInv, probeGiven
<1>3. QED
  BY <1>1, <1>2

LEMMA LoadKeepsReportInv ==
  ASSUME ReportInv, LoadHealthConfig
  PROVE  ReportInv'
<1>1. /\ UNCHANGED <<document, backend, reply, expired, late>>
      /\ probing = "config" /\ probing' \in {"engine", "off"}
  BY DEF LoadHealthConfig, probeGiven, probeHistory
<1>2. GivenInv'
  BY <1>1 DEF ReportInv, GivenInv, LoadHealthConfig
<1>3. TargetInv'
  BY <1>1 DEF TargetInv, UnderWay
<1>4. OutcomeInv' /\ DeadlineInv'
  BY <1>1 DEF ReportInv, OutcomeInv, DeadlineInv, UnderWay
<1>5. QED
  BY <1>2, <1>3, <1>4 DEF ReportInv

LEMMA NewEngineKeepsReportInv ==
  ASSUME ReportInv, NewEngine
  PROVE  ReportInv'
<1>1. /\ UNCHANGED <<document, backend, config, reply, expired, late>>
      /\ probing = "engine" /\ probing' \in {"derive", "off"}
  BY DEF NewEngine, probeGiven, probeHistory
<1>2. GivenInv'
  BY <1>1 DEF ReportInv, GivenInv
<1>3. TargetInv'
  BY <1>1 DEF TargetInv, UnderWay
<1>4. OutcomeInv' /\ DeadlineInv'
  BY <1>1 DEF ReportInv, OutcomeInv, DeadlineInv, UnderWay
<1>5. QED
  BY <1>2, <1>3, <1>4 DEF ReportInv

LEMMA DeriveKeepsReportInv ==
  ASSUME ReportInv, Derive
  PROVE  ReportInv'
<1>1. /\ UNCHANGED <<probeGiven, config, endpoints, dialled, reply, expired, late>>
      /\ probing = "derive" /\ probing' \in {"done", "resolve"}
  BY DEF Derive, Reports, Continues, probeHistory
<1>2. GivenInv'
  BY <1>1 DEF ReportInv, GivenInv, probeGiven
<1>3. reply = Absent /\ reply' = Absent /\ DeadlineInv'
  BY <1>1 DEF ReportInv, OutcomeInv, DeadlineInv, UnderWay
<1>4. PICK s \in config.services :
        /\ s.id = backend.id
        /\ IF ~Derivable(backend, s) THEN Reports("unknown") /\ UNCHANGED target
           ELSE /\ target' = [type |-> s.type, host |-> backend.host, port |-> backend.port,
                              statuses |-> s.statuses]
                /\ IF [host |-> backend.host, port |-> backend.port] \in Sockets
                   THEN Reports("unreachable")
                   ELSE Continues("resolve")
  BY DEF Derive
<1>5. Asked \in Range(document.services) /\ s = ServiceOf(Asked) /\ s.type = Asked.type /\ EvidenceUsable(s)
  BY <1>1, <1>4, OneServiceAsked DEF ReportInv, GivenInv
<1>6. Derivable(backend, s) <=> BackendUsable
  <2>1. backend.enabled
    BY ProbeAssumption DEF ReportInv, GivenInv
  <2>2. s.id > 0
    <3>1. ServiceAccepted(Asked)
      BY <1>1, <1>5 DEF ReportInv, GivenInv, DocumentAccepted, ServicesAccepted, Range
    <3>2. Asked.id = s.id
      BY <1>1, <1>5, ProbeAssumption DEF ReportInv, GivenInv, DocumentAccepted, ServicesAccepted, ServiceOf
    <3>3. QED
      BY <3>1, <3>2 DEF ServiceAccepted
  <2>3. backend.id = s.id /\ backend.id > 0
    BY <1>4, <2>2
  <2>4. EvidenceUsable(s)
    BY <1>5
  <2>5. QED
    BY <2>1, <2>3, <2>4 DEF Derivable, BackendUsable
<1>7. CASE ~BackendUsable
  <2>1. probing' = "done" /\ report' = "unknown"
    BY <1>4, <1>6, <1>7 DEF Reports
  <2>2. QED
    BY <1>1, <1>2, <1>3, <1>7, <2>1, SameGiven DEF ReportInv, TargetInv, OutcomeInv, UnderWay
<1>8. CASE BackendUsable
  <2>1. target' = [type |-> s.type, host |-> backend.host, port |-> backend.port, statuses |-> s.statuses]
    BY <1>4, <1>6, <1>8
  <2>2. TargetInv'
    BY <1>1, <1>5, <1>8, <2>1, SameGiven DEF TargetInv, probeGiven
  <2>3. \/ probing' = "resolve"
        \/ /\ probing' = "done" /\ report' = "unreachable"
           /\ [host |-> backend.host, port |-> backend.port] \in Sockets
    BY <1>4, <1>6, <1>8 DEF Reports, Continues
  <2>4. Sockets' = Sockets /\ backend' = backend
    BY <1>1 DEF Sockets, probeGiven
  <2>5. OutcomeInv'
    BY <1>3, <2>3, <2>4 DEF OutcomeInv, Excused
  <2>6. QED
    BY <1>2, <1>3, <2>2, <2>5 DEF ReportInv
<1>9. QED
  BY <1>7, <1>8

\* What excuses depends on the target, the endpoints and the configuration.
LEMMA SameAdmissible ==
  ASSUME UNCHANGED <<config, endpoints, target>>, NEW y, NEW z
  PROVE  Admissible(y, z)' <=> Admissible(y, z)
<1>1. AllowedTarget(target.host, y)' <=> AllowedTarget(target.host, y)
  BY SameConfigSameVerdict
<1>2. QED
  BY <1>1 DEF Admissible, Sockets

LEMMA ResolveTargetKeepsReportInv ==
  ASSUME ProbeInv, ReportInv, ResolveTarget
  PROVE  ReportInv'
<1>1. /\ UNCHANGED <<probeGiven, config, endpoints, target, zones, reply, expired, late>>
      /\ probing = "resolve" /\ probing' \in {"done", "compare"}
  BY DEF ResolveTarget, Reports, Continues
<1>2. GivenInv' /\ TargetInv'
  BY <1>1, LaterStepKeepsTarget DEF ReportInv, UnderWay
<1>3. reply' = Absent
  BY <1>1 DEF ReportInv, OutcomeInv
<1>4. probing' = "done" => report' = "unreachable" /\ (trouble' \/ ~AllowedTarget(target.host, zone))
  BY DEF ResolveTarget, Reports, Continues, Lookup
<1>5. zone \in zones'
  BY <1>1 DEF ProbeInv, HistoryInv
<1>6. probing' = "done" => report' = "unreachable" /\ Excused'
  <2>1. ASSUME ~AllowedTarget(target.host, zone) PROVE Excused'
    <3>1. ~Admissible(zone, zone)
      BY <2>1 DEF Admissible
    <3>2. PICK z \in zones' : z = zone
      BY <1>5
    <3>3. Admissible(z, z)' <=> Admissible(z, z)
      BY <1>1, SameAdmissible
    <3>4. QED
      BY <3>1, <3>2, <3>3 DEF Excused
  <2>2. QED
    BY <1>4, <2>1 DEF Excused
<1>7. OutcomeInv' /\ DeadlineInv'
  BY <1>1, <1>3, <1>6 DEF ReportInv, OutcomeInv, DeadlineInv, UnderWay
<1>8. QED
  BY <1>2, <1>7 DEF ReportInv

\* What DNS said of the target and what it says of a protected name now refuse
\* the target.
LEMMA CompareKeepsReportInv ==
  ASSUME ProbeInv, ReportInv, CompareProtected
  PROVE  ReportInv'
<1> DEFINE e == endpoints[compared + 1]
<1>1. /\ UNCHANGED <<probeGiven, config, endpoints, target, zones, reply, expired, late>>
      /\ probing = "compare" /\ probing' \in {"done", "compare"} /\ compared < Len(endpoints)
  BY DEF CompareProtected, Reports, Continues
<1>2. GivenInv' /\ TargetInv'
  BY <1>1, LaterStepKeepsTarget DEF ReportInv, UnderWay
<1>3. reply' = Absent /\ zone \in zones
  BY <1>1 DEF ReportInv, OutcomeInv, ProbeInv, HistoryInv
<1>4. probing' = "done" =>
        /\ report' = "unreachable" /\ e.port = target.port
        /\ \/ trouble' \/ Resolved(e.host, zone) = <<>>
           \/ Intersect(addresses, Resolved(e.host, zone))
  BY DEF CompareProtected, Reports, Continues, Lookup
<1>5. e \in Sockets
  <2>1. compared \in Nat /\ DOMAIN endpoints = 1..Len(endpoints)
    BY DEF ProbeInv, EndpointsInv
  <2>2. compared + 1 \in 1..Len(endpoints)
    BY <1>1, <2>1
  <2>3. QED
    BY <2>1, <2>2 DEF Sockets
<1>6. PICK z \in zones : addresses = Resolved(target.host, z)
  BY <1>1 DEF ProbeInv, AddressesInv, Vetted
<1>7. probing' = "done" => trouble' \/ ~Admissible(z, zone)
  BY <1>4, <1>5, <1>6 DEF Admissible
<1>8. probing' = "done" => Excused'
  BY <1>1, <1>3, <1>7, SameAdmissible DEF Excused
<1>9. OutcomeInv' /\ DeadlineInv'
  BY <1>1, <1>3, <1>4, <1>8 DEF ReportInv, OutcomeInv, DeadlineInv, UnderWay
<1>10. QED
  BY <1>2, <1>9 DEF ReportInv

LEMMA DialKeepsReportInv ==
  ASSUME ReportInv, NEW ok \in BOOLEAN, Dial(ok)
  PROVE  ReportInv'
<1>1. /\ UNCHANGED <<probeGiven, config, endpoints, target, reply, expired>>
      /\ probing = "compare" /\ probing' \in {"done", "compare", "request"}
  BY DEF Dial, Dialled, Dialling, Connected, Reports, Continues
<1>2. GivenInv' /\ TargetInv'
  BY <1>1, LaterStepKeepsTarget DEF ReportInv, UnderWay
<1>3. reply' = Absent /\ dialled' # {} /\ late = 0
  BY <1>1 DEF ReportInv, OutcomeInv, DeadlineInv, Dial, Dialled
<1>4. late' = IF expired THEN 1 ELSE 0
  BY <1>3 DEF Dial, Dialled
<1>5. CASE ok
  <2>1. ~expired
    BY <1>5 DEF Dial
  <2>2. \/ probing' = "done" /\ report' = "reachable"
        \/ probing' = "request" /\ target'.type # "tcp"
    BY <1>1, <1>5 DEF Dial, Connected, Reports, Continues
  <2>3. DeadlineInv'
    BY <1>1, <1>4, <2>1 DEF DeadlineInv
  <2>4. QED
    BY <1>2, <1>3, <2>2, <2>3 DEF ReportInv, OutcomeInv
<1>6. CASE ~ok
  <2>1. /\ trouble'
        /\ \/ probing' = "done" /\ report' = "unreachable"
           \/ probing' = "compare" /\ ~expired
    BY <1>6 DEF Dial, Dialled, Reports, Continues
  <2>2. Excused'
    BY <2>1 DEF Excused
  <2>3. DeadlineInv'
    BY <1>1, <1>4, <2>1 DEF DeadlineInv
  <2>4. QED
    BY <1>2, <1>3, <2>1, <2>2, <2>3 DEF ReportInv, OutcomeInv
<1>7. QED
  BY <1>5, <1>6

LEMMA RequestKeepsReportInv ==
  ASSUME ReportInv, RequestFails \/ \E status \in Statuses : RequestAnswered(status)
  PROVE  ReportInv'
<1>1. /\ UNCHANGED <<probeGiven, config, endpoints, target, dialled, expired, late>>
      /\ probing = "request" /\ probing' = "done"
  BY DEF RequestFails, RequestAnswered, Reports
<1>2. GivenInv' /\ TargetInv'
  BY <1>1, LaterStepKeepsTarget DEF ReportInv, UnderWay
<1>3. dialled' # {} /\ target'.type # "tcp" /\ reply = Absent /\ late' = 0
  BY <1>1 DEF ReportInv, OutcomeInv, DeadlineInv
<1>4. CASE RequestFails
  <2>1. trouble' /\ report' = "unreachable" /\ reply' = reply
    BY <1>4 DEF RequestFails, Reports
  <2>2. QED
    BY <1>1, <1>2, <1>3, <2>1 DEF ReportInv, OutcomeInv, DeadlineInv, Excused
<1>5. ASSUME NEW status \in Statuses, RequestAnswered(status) PROVE ReportInv'
  <2>1. reply' = status /\ report' = StateOf(status, target.statuses)
    BY <1>5 DEF RequestAnswered, Reports
  <2>2. report' \in {"reachable", "auth_required", "response_error"}
    BY <2>1 DEF StateOf
  <2>3. report' = StateOf(reply', target'.statuses)
    BY <1>1, <2>1
  <2>4. OutcomeInv'
    BY <1>1, <1>3, <2>2, <2>3 DEF OutcomeInv
  <2>5. DeadlineInv'
    BY <1>1, <1>3, <1>5 DEF DeadlineInv, RequestAnswered
  <2>6. QED
    BY <1>2, <2>4, <2>5 DEF ReportInv
<1>6. QED
  BY <1>4, <1>5

\* While the deadline passes or DNS changes the probe stays where it is.
LEMMA OutsideKeepsReportInv ==
  ASSUME ReportInv, Expire \/ ZoneChanges
  PROVE  ReportInv'
<1>1. /\ UNCHANGED <<probeGiven, probing, config, target, report, dialled, reply, late>>
      /\ UnderWay /\ UnderWay' /\ probing # "done"
  BY DEF Expire, ZoneChanges, UnderWay, probeHistory
<1>2. GivenInv' /\ TargetInv'
  BY <1>1, LaterStepKeepsTarget DEF ReportInv, UnderWay
<1>3. OutcomeInv' /\ DeadlineInv'
  BY <1>1 DEF ReportInv, OutcomeInv, DeadlineInv
<1>4. QED
  BY <1>2, <1>3 DEF ReportInv

LEMMA StutterKeepsReportInv ==
  ASSUME ReportInv, UNCHANGED probeVars
  PROVE  ReportInv'
<1>1. UNCHANGED <<probeGiven, config, probing, endpoints, target, expired, report, probeHistory>>
  BY DEF probeVars
<1>2. GivenInv' /\ TargetInv'
  BY <1>1, SameGiven DEF ReportInv, GivenInv, TargetInv, UnderWay, probeGiven
<1>3. Excused' <=> Excused
  BY <1>1, SameAdmissible DEF Excused, Sockets, probeGiven, probeHistory
<1>4. OutcomeInv' /\ DeadlineInv'
  BY <1>1, <1>3, SameGiven DEF ReportInv, OutcomeInv, DeadlineInv, UnderWay, probeHistory
<1>5. QED
  BY <1>2, <1>4 DEF ReportInv

LEMMA ReportInvariant == ProbeSpec => []ReportInv
<1>1. ProbeInv /\ ReportInv /\ [ProbeStep]_probeVars => ReportInv'
  BY LoadKeepsReportInv, NewEngineKeepsReportInv, DeriveKeepsReportInv, ResolveTargetKeepsReportInv,
     CompareKeepsReportInv, DialKeepsReportInv, RequestKeepsReportInv, OutsideKeepsReportInv,
     StutterKeepsReportInv DEF ProbeStep
<1>2. QED
  BY <1>1, ReportInitially, ProbeInvariant, PTL DEF ProbeSpec

\* Every result has its reason: a document's fault is never one, trouble of the
\* probe's own always is, an answer is judged as the document asks, and after the
\* deadline at most one address is tried.
THEOREM ReportsAreJustified == ProbeSpec => []ReportIsJustified
<1>1. ASSUME ReportInv, probing = "done" PROVE ReportIsJustified
  <2>1. report = "unknown" <=> ~BackendUsable
    BY <1>1 DEF ReportInv, TargetInv, OutcomeInv
  <2>2. report = "unreachable" => Excused /\ reply = Absent
    BY <1>1 DEF ReportInv, OutcomeInv
  <2>3. report \in {"reachable", "auth_required", "response_error"} => dialled # {}
    BY <1>1 DEF ReportInv, OutcomeInv
  <2>4. report # "unknown" => target.type = Asked.type /\ target.statuses = ServiceOf(Asked).statuses
    BY <1>1 DEF ReportInv, TargetInv
  <2>5. Asked.type = "tcp" => reply = Absent /\ report \notin {"auth_required", "response_error"}
    BY <1>1, <2>4 DEF ReportInv, OutcomeInv
  <2>6. ASSUME reply # Absent
        PROVE  LET listed == UNION {r.min..r.max : r \in Range(Asked.statuses)}
               IN  /\ (report = "auth_required") <=> (reply \in {401, 403})
                   /\ (report = "reachable") <=> (reply \in listed \ {401, 403})
                   /\ report # "unreachable"
    <3> DEFINE ranges == Asked.statuses
    <3>1. report = StateOf(reply, target.statuses) /\ target.type # "tcp" /\ report # "unknown"
      BY <1>1, <2>6 DEF ReportInv, OutcomeInv
    <3>2. Asked.type # "tcp"
      BY <2>4, <3>1
    <3>3. Asked \in Range(document.services) /\ document \in Documents /\ document # Absent
          /\ document.services # Absent
      BY <1>1, <3>1 DEF ReportInv, TargetInv, GivenInv, DocumentAccepted, ServicesAccepted
    <3>4. Asked = [id |-> Asked.id, type |-> Asked.type, path |-> Asked.path, statuses |-> Asked.statuses]
      BY <3>3, ProbeAssumption
    <3>5. ServiceOf(Asked).statuses = ranges
      BY <3>2, <3>4 DEF ServiceOf
    <3>6. reply \in UNION {r.min..r.max : r \in Range(ranges)}
            <=> \E i \in DOMAIN ranges : reply \in ranges[i].min..ranges[i].max
      BY DEF Range
    <3>7. report = StateOf(reply, ranges)
      BY <2>4, <3>1, <3>5
    <3> HIDE DEF ranges
    <3>8. QED
      BY <3>6, <3>7 DEF StateOf, ranges
  <2>7. report = "unknown" <=>
            (backend.host = Invalid \/ backend.port \notin Ports \/ backend.scheme \notin {"http", "https"})
    BY <2>1 DEF BackendUsable
  <2>8. report = "unreachable" =>
            \/ trouble \/ expired
            \/ [host |-> backend.host, port |-> backend.port] \in Sockets
            \/ \E y, z \in zones : ~Admissible(y, z)
    BY <2>2 DEF Excused
  <2>9. expired => report = "unreachable"
    BY <1>1 DEF ReportInv, DeadlineInv, UnderWay
  <2>10. late <= 1
    BY <1>1 DEF ReportInv, DeadlineInv
  <2>11. QED
    BY <2>3, <2>5, <2>6, <2>7, <2>8, <2>9, <2>10 DEF ReportIsJustified
<1>2. ReportInv => ReportIsJustified
  <2>1. ReportInv => late = 0 \/ late = 1
    BY DEF ReportInv, DeadlineInv
  <2>2. ReportInv => late <= 1
    BY <2>1, SMT
  <2>3. QED
    BY <1>1, <2>2 DEF ReportIsJustified
<1>3. QED
  BY <1>2, ReportInvariant, PTL
=============================================================================
