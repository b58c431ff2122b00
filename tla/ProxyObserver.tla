---------------------------- MODULE ProxyObserver ----------------------------
(***************************************************************************)
(* observeProxySource and its one-time path (proxy_observer.go).           *)
(*                                                                         *)
(* Requests to another path or with another method change nothing and are  *)
(* left out.  A request is its immediate peer, or malformed.  "none" and   *)
(* "failed" are no source.                                                 *)
(***************************************************************************)
CONSTANTS
    Requests,   \* requests for the path
    Source,     \* the peer of each as an exact CIDR
    Malformed   \* requests whose RemoteAddr gives none

ASSUME ProxyObserverAssumption ==
    /\ Malformed \subseteq Requests
    /\ \A r \in Requests : Source[r] \notin {"none", "failed"}

VARIABLES
    phase,    \* "off", "listening", "stopping" in Shutdown, "ended"
    claimed,  \* the path has been used
    channel,  \* the CIDR in the buffered channel
    outcome,  \* "none", a CIDR, or "failed"
    request   \* how far each request is

observerVars == <<phase, claimed, channel, outcome, request>>

\* Shutdown waits for these.
Active == {r \in Requests : request[r] \in {"accepted", "claimed", "delivered"}}

Step(r, s) == request' = [request EXCEPT ![r] = s]

Listen ==
    /\ phase = "off"
    /\ phase' = "listening"
    /\ UNCHANGED <<claimed, channel, outcome, request>>

Accept(r) ==
    /\ phase = "listening" /\ request[r] = "none"
    /\ Step(r, "accepted")
    /\ UNCHANGED <<phase, claimed, channel, outcome>>

\* The client leaves, or Shutdown closes a connection that has sent nothing.
Leave(r) ==
    /\ request[r] = "accepted"
    /\ Step(r, "ended")
    /\ UNCHANGED <<phase, claimed, channel, outcome>>

BadSource(r) ==
    /\ request[r] = "accepted" /\ r \in Malformed
    /\ Step(r, "ended")
    /\ UNCHANGED <<phase, claimed, channel, outcome>>

\* Wrong: the path is looked at, and marked used later.
FaultyClaim(r) ==
    /\ request[r] = "accepted" /\ r \notin Malformed /\ channel = "none"
    /\ claimed' = TRUE
    /\ Step(r, "claimed")
    /\ UNCHANGED <<phase, channel, outcome>>

\* CompareAndSwap.
Claim(r) ==
    /\ request[r] = "accepted" /\ r \notin Malformed /\ ~claimed
    /\ claimed' = TRUE
    /\ Step(r, "claimed")
    /\ UNCHANGED <<phase, channel, outcome>>

AlreadyUsed(r) ==
    /\ request[r] = "accepted" /\ r \notin Malformed /\ claimed
    /\ Step(r, "ended")
    /\ UNCHANGED <<phase, claimed, channel, outcome>>

Deliver(r) ==
    /\ request[r] = "claimed" /\ channel = "none"
    /\ channel' = Source[r]
    /\ Step(r, "delivered")
    /\ UNCHANGED <<phase, claimed, outcome>>

Answer(r) ==
    /\ request[r] = "delivered"
    /\ Step(r, "told")
    /\ UNCHANGED <<phase, claimed, channel, outcome>>

\* The three cases of select.
Observe ==
    /\ phase = "listening" /\ channel # "none"
    /\ outcome' = channel
    /\ channel' = "none"
    /\ phase' = "stopping"
    /\ UNCHANGED <<claimed, request>>

TimesOut ==
    /\ phase = "listening"
    /\ outcome' = "failed"
    /\ phase' = "stopping"
    /\ UNCHANGED <<claimed, channel, request>>

ServerFails ==
    /\ phase = "listening"
    /\ outcome' = "failed"
    /\ phase' = "stopping"
    /\ UNCHANGED <<claimed, channel, request>>

ShutDown ==
    /\ phase = "stopping" /\ Active = {}
    /\ phase' = "ended"
    /\ UNCHANGED <<claimed, channel, outcome, request>>

\* Its deadline, after which the handlers go on, fails the observation, made or not.
ShutdownTimesOut ==
    /\ phase = "stopping" /\ Active # {}
    /\ phase' = "ended"
    /\ outcome' = "failed"
    /\ UNCHANGED <<claimed, channel, request>>

\* The process is gone.
Gone ==
    /\ phase' = "off"
    /\ claimed' = FALSE
    /\ channel' = "none"
    /\ outcome' = "none"
    /\ request' = [r \in Requests |-> "none"]

ObserverInit ==
    /\ phase = "off"
    /\ claimed = FALSE
    /\ channel = "none"
    /\ outcome = "none"
    /\ request = [r \in Requests |-> "none"]

ObserverStep ==
    \/ \E r \in Requests :
        Accept(r) \/ Leave(r) \/ BadSource(r) \/ Claim(r) \/
        AlreadyUsed(r) \/ Deliver(r) \/ Answer(r)
    \/ Observe \/ TimesOut \/ ServerFails
    \/ ShutDown \/ ShutdownTimesOut
=============================================================================
