------------------------- MODULE ServiceHealthConfig -------------------------
(***************************************************************************)
(* Which service health configurations are accepted, and what they come to *)
(* (parseServiceHealthConfig).  A document is what JSON decoding makes of  *)
(* it; an address is a number; a name is the sequence of its labels from   *)
(* the top level down.  Times are milliseconds; what is no number of the   *)
(* unit at all is -1.                                                      *)
(***************************************************************************)
EXTENDS Integers, FiniteSets, SequencesExt

CONSTANTS
    Absent,     \* a field that is not there
    Invalid,    \* a text that is no valid name, host or URL
    Addresses,  \* a set of natural numbers
    Dangerous,  \* unspecified, loopback, multicast and link-local addresses
    Broadcast   \* 255.255.255.255

ASSUME HealthConfigAssumption ==
    /\ Addresses \subseteq Nat /\ Dangerous \subseteq Addresses
    /\ Broadcast \in Addresses \ Dangerous
    /\ Absent # Invalid

IntervalBounds == [least |-> 15000, most |-> 86400000, fallback |-> 60000]
TimeoutBounds  == [least |-> 250, most |-> 10000, fallback |-> 3000]
WorkersBounds  == [least |-> 1, most |-> 8, fallback |-> 4]
MaxServices == 128
MaxAllowed  == 128  \* of the CIDRs, of the hosts and of the suffixes
MaxRanges   == 8
StatusCodes == 100..599

\* parseServiceHealthDuration, and the same for workers.
Fits(value, bounds) == value = Absent \/ value \in bounds.least..bounds.most
OrDefault(value, bounds) == IF value = Absent THEN bounds.fallback ELSE value

-----------------------------------------------------------------------------
(* The allowlists. *)

\* canonical: masked, spelled as netip spells it, and not an IPv4 range in IPv6.
\* A range that begins and ends in dangerous addresses is refused; what else
\* lies in one that is accepted is for the probe to refuse.
CIDRAccepted(c) == c.canonical /\ ~(c.first \in Dangerous /\ c.last \in Dangerous)

ListAccepted(list) == Len(list) <= MaxAllowed /\ IsInjective(list)

NamesAccepted(list) == list = Absent \/ (ListAccepted(list) /\ Invalid \notin Range(list))

-----------------------------------------------------------------------------
(* The services. *)

StatusRangesAccepted(ranges) ==
    /\ ranges # Absent
    /\ Len(ranges) \in 1..MaxRanges
    /\ \A i \in DOMAIN ranges :
        /\ ranges[i].min \in StatusCodes /\ ranges[i].max \in StatusCodes
        /\ ranges[i].min <= ranges[i].max
        /\ i > 1 => ranges[i].min > ranges[i - 1].max

ServiceAccepted(s) ==
    /\ s.id > 0
    /\ \/ s.type = "tcp" /\ s.path = Absent /\ s.statuses = Absent
       \/ s.type = "http" /\ s.path # Invalid /\ StatusRangesAccepted(s.statuses)

\* Without a path an HTTP probe asks for the root.
ServiceOf(s) ==
    IF s.type = "tcp" THEN [s EXCEPT !.statuses = <<>>]
    ELSE [s EXCEPT !.path = IF s.path = Absent THEN "/" ELSE s.path]

ServicesAccepted(services) ==
    /\ services # Absent
    /\ Len(services) <= MaxServices
    /\ \A i \in DOMAIN services : ServiceAccepted(services[i])
    /\ \A i, j \in DOMAIN services : i # j => services[i].id # services[j].id

-----------------------------------------------------------------------------

\* wellFormed: a regular file within the size that holds one JSON object, each
\* of its fields known and there once, up to case.
DocumentAccepted(d) ==
    /\ d.wellFormed
    /\ d.version = 1
    /\ Fits(d.interval, IntervalBounds) /\ Fits(d.timeout, TimeoutBounds)
    /\ Fits(d.workers, WorkersBounds)
    /\ d.cidrs # Absent /\ d.cidrs # <<>> /\ ListAccepted(d.cidrs)
    /\ \A c \in Range(d.cidrs) : CIDRAccepted(c)
    /\ NamesAccepted(d.hosts) /\ NamesAccepted(d.suffixes)
    /\ ServicesAccepted(d.services)

NamesOf(list) == IF list = Absent THEN {} ELSE Range(list)

ConfigOf(d) ==
    [interval |-> OrDefault(d.interval, IntervalBounds),
     timeout  |-> OrDefault(d.timeout, TimeoutBounds),
     workers  |-> OrDefault(d.workers, WorkersBounds),
     cidrs    |-> Range(d.cidrs),
     hosts    |-> NamesOf(d.hosts),
     suffixes |-> NamesOf(d.suffixes),
     services |-> {ServiceOf(s) : s \in Range(d.services)}]
=============================================================================
