---------------------------- MODULE HealthPoller -----------------------------
(***************************************************************************)
(* Service health observations: ServiceHealthPoller and ServiceHealthStore *)
(* of service_health.go.                                                   *)
(*                                                                         *)
(* One goroutine reloads the configuration, hands the eligible hosts to a  *)
(* pool of workers over an unbuffered channel, collects their results over *)
(* another and publishes.  Feeder, workers, closer and collector run on    *)
(* their own until the cycle's deadline; where a channel and the deadline  *)
(* are both ready, select takes either.  Time is counted in ticks; an age  *)
(* stops at AgeCap, beyond every threshold.                                *)
(***************************************************************************)
EXTENDS Naturals, FiniteSets

CONSTANTS
    Hosts,      \* proxy host IDs
    Workers,    \* worker goroutines
    Pools,      \* numbers of workers a configuration may ask for
    Outcomes,   \* states a probe may report
    Configs,    \* sets of hosts an enabled configuration may list
    Interval,   \* Interval, in ticks
    Timeout,    \* Timeout of one probe, in ticks
    Retry,      \* retryInterval, in ticks
    None        \* the absent value

\* The states of a check that was made; "unknown" says nothing.
Known == {"reachable", "auth_required", "response_error", "unreachable"}

ASSUME HealthAssumption ==
    /\ IsFiniteSet(Hosts) /\ IsFiniteSet(Workers)
    /\ Pools \subseteq 1..Cardinality(Workers)
    /\ Configs \subseteq SUBSET Hosts
    /\ Interval \in Nat \ {0} /\ Timeout \in Nat \ {0} /\ Retry \in Nat \ {0}
    /\ Outcomes # {} /\ Outcomes \subseteq Known \cup {"unknown"}
    /\ None \notin Hosts /\ None \notin Known \cup {"unknown", "stale"}

VARIABLES
    file,      \* the configuration file
    phase,     \* of runCycle: "waiting" for the next, or "collecting"
    timer,     \* ticks until the next cycle
    elapsed,   \* ticks the cycle has run
    jobs,      \* hosts the feeder has not handed out
    closed,    \* jobChannel is closed
    worker,    \* the workers of the cycle
    results,   \* what the collector has, one observation per configured host
    store,     \* the published observations
    started,   \* history: hosts this cycle is to check
    failed     \* history: the configuration failed to load since the last publication

cycleVars == <<elapsed, jobs, closed, worker, results>>
vars == <<file, phase, timer, cycleVars, store, started, failed>>

Broken == [kind |-> "broken"]
Off    == [kind |-> "off"]
Files  == {Broken, Off} \cup [kind : {"on"}, services : Configs, workers : Pools]

FaultyStaleAfter == 4 * Interval
HastyStaleAfter  == 2 * Interval
StaleAfter == 3 * Interval
AgeCap == StaleAfter + Interval + 1

\* checked: CheckedAt is set.  age: ticks since then.  read: ticks since the
\* cycle took the host's target from the authorization snapshot.
Observation == [state : Outcomes \cup {"unknown"}, checked : BOOLEAN, age : 0..AgeCap, read : 0..AgeCap]
Unchecked == [state |-> "unknown", checked |-> FALSE, age |-> 0, read |-> 0]

Gone == [at |-> "gone"]
Idle == [at |-> "idle"]
Probing(h) == [at |-> "probing", host |-> h, spent |-> 0]
Sending(h, o) == [at |-> "sending", host |-> h, result |-> o]

WorkerState ==
    {Gone, Idle}
    \cup [at : {"probing"}, host : Hosts, spent : 0..Timeout]
    \cup [at : {"sending"}, host : Hosts, result : Observation]

\* No observation at all is the empty function.
IsObservations(o) ==
    /\ DOMAIN o \in Configs \cup {{}}
    /\ o \in [DOMAIN o -> Observation]

TypeOK ==
    /\ file \in Files
    /\ phase \in {"waiting", "collecting"}
    /\ timer \in 0..(Interval + Retry)
    /\ elapsed \in 0..Interval
    /\ jobs \subseteq Hosts
    /\ closed \in BOOLEAN
    /\ worker \in [Workers -> WorkerState]
    /\ IsObservations(results)
    /\ IsObservations(store)
    /\ started \subseteq Hosts
    /\ failed \in BOOLEAN

NoObservations == [h \in {} |-> Unchecked]
NoWorkers == [w \in Workers |-> Gone]

Init ==
    /\ file \in Files
    /\ phase = "waiting" /\ timer = 0
    /\ elapsed = 0 /\ jobs = {} /\ closed = FALSE
    /\ worker = NoWorkers
    /\ results = NoObservations
    /\ store = NoObservations
    /\ started = {}
    /\ failed = FALSE

-----------------------------------------------------------------------------
(* The head of runCycle. *)

Due == phase = "waiting" /\ timer = 0

LoadFails ==
    /\ Due /\ file.kind = "broken"
    /\ timer' = Retry
    /\ failed' = TRUE
    /\ UNCHANGED <<file, phase, cycleVars, store, started>>

FaultyDisabled ==
    /\ Due /\ file.kind = "off"
    /\ timer' = Retry
    /\ failed' = FALSE
    /\ UNCHANGED <<file, phase, cycleVars, store, started>>
Disabled ==
    /\ Due /\ file.kind = "off"
    /\ store' = NoObservations
    /\ timer' = Retry
    /\ failed' = FALSE
    /\ UNCHANGED <<file, phase, cycleVars, started>>

FaultyNothingToCheck ==
    /\ Due /\ file.kind = "on"
    /\ store' = [h \in Hosts |-> Unchecked]
    /\ timer' = Interval
    /\ failed' = FALSE
    /\ UNCHANGED <<file, phase, cycleVars, started>>
\* Nothing in the authorization snapshot is eligible, or there is none.
NothingToCheck ==
    /\ Due /\ file.kind = "on"
    /\ store' = [h \in file.services |-> Unchecked]
    /\ timer' = Interval
    /\ failed' = FALSE
    /\ UNCHANGED <<file, phase, cycleVars, started>>

\* There are no more workers than jobs.
StartCycle(eligible) ==
    /\ Due /\ file.kind = "on"
    /\ jobs' = file.services \cap eligible
    /\ jobs' # {}
    /\ started' = jobs'
    /\ \E pool \in SUBSET Workers :
          /\ Cardinality(pool) =
                IF file.workers > Cardinality(jobs') THEN Cardinality(jobs') ELSE file.workers
          /\ worker' = [w \in Workers |-> IF w \in pool THEN Idle ELSE Gone]
    /\ results' = [h \in file.services |-> Unchecked]
    /\ phase' = "collecting"
    /\ elapsed' = 0
    /\ closed' = FALSE
    /\ UNCHANGED <<file, timer, store, failed>>

-----------------------------------------------------------------------------
(* The goroutines of a cycle. *)

Collecting == phase = "collecting"
\* cycleCtx is done.
Expired == elapsed = Interval

Feed(w, h) ==
    /\ Collecting /\ ~closed
    /\ h \in jobs /\ worker[w] = Idle
    /\ jobs' = jobs \ {h}
    /\ worker' = [worker EXCEPT ![w] = Probing(h)]
    /\ UNCHANGED <<file, phase, timer, elapsed, closed, results, store, started, failed>>

FaultyFeederEnds ==
    /\ Collecting /\ ~closed
    /\ jobs # {} /\ Expired
    /\ closed' = TRUE
    /\ UNCHANGED <<file, phase, timer, elapsed, jobs, worker, results, store, started, failed>>
\* The feeder closes jobChannel when all is handed out, and at the deadline.
FeederEnds ==
    /\ Collecting /\ ~closed
    /\ jobs = {} \/ Expired
    /\ closed' = TRUE
    /\ UNCHANGED <<file, phase, timer, elapsed, jobs, worker, results, store, started, failed>>

\* Probe answers, in time, by its timeout or at the deadline.
ProbeEnds(w, state) ==
    /\ worker[w].at = "probing"
    /\ worker' = [worker EXCEPT ![w] =
          Sending(@.host, [state |-> state, checked |-> TRUE, age |-> 0, read |-> elapsed])]
    /\ UNCHANGED <<file, phase, timer, elapsed, jobs, closed, results, store, started, failed>>

Deliver(w) ==
    /\ worker[w].at = "sending"
    /\ results' = [results EXCEPT ![worker[w].host] = worker[w].result]
    /\ worker' = [worker EXCEPT ![w] = Idle]
    /\ UNCHANGED <<file, phase, timer, elapsed, jobs, closed, store, started, failed>>

\* At the deadline a result may be dropped; its worker returns.
Drop(w) ==
    /\ worker[w].at = "sending" /\ Expired
    /\ worker' = [worker EXCEPT ![w] = Gone]
    /\ UNCHANGED <<file, phase, timer, elapsed, jobs, closed, results, store, started, failed>>

WorkerEnds(w) ==
    /\ worker[w] = Idle /\ closed
    /\ worker' = [worker EXCEPT ![w] = Gone]
    /\ UNCHANGED <<file, phase, timer, elapsed, jobs, closed, results, store, started, failed>>

FaultyWorkersDone == \A w \in Workers : worker[w].at \in {"gone", "sending"}
\* workersDone.Wait returns.
WorkersDone == \A w \in Workers : worker[w] = Gone

\* resultChannel is closed: the collector publishes everything it has.
Publish ==
    /\ Collecting /\ WorkersDone
    /\ store' = results
    /\ phase' = "waiting"
    /\ timer' = Interval
    /\ failed' = FALSE
    /\ elapsed' = 0 /\ jobs' = {} /\ closed' = FALSE
    /\ worker' = NoWorkers /\ results' = NoObservations /\ started' = {}
    /\ UNCHANGED file

-----------------------------------------------------------------------------
(* Readers, the operator, time. *)

FaultyGet(h) == IF h \notin DOMAIN store THEN None ELSE store[h].state
\* ServiceHealthStore.Get, as a page asks it.
Get(h) ==
    IF h \notin DOMAIN store THEN None
    ELSE IF store[h].state \in Known /\ store[h].age > StaleAfter THEN "stale"
    ELSE store[h].state

FileChanges(f) ==
    /\ f # file
    /\ file' = f
    /\ UNCHANGED <<phase, timer, cycleVars, store, started, failed>>

Restart ==
    /\ phase' = "waiting" /\ timer' = 0
    /\ elapsed' = 0 /\ jobs' = {} /\ closed' = FALSE
    /\ worker' = NoWorkers
    /\ results' = NoObservations /\ store' = NoObservations
    /\ started' = {}
    /\ failed' = FALSE
    /\ UNCHANGED file

Older(n) == IF n < AgeCap THEN n + 1 ELSE n
OlderObservation(o) ==
    IF o.state \in Known THEN [o EXCEPT !.age = Older(@), !.read = Older(@)] ELSE o
OlderWorker(s) ==
    CASE s.at = "probing" -> [s EXCEPT !.spent = @ + 1]
      [] s.at = "sending" -> [s EXCEPT !.result = OlderObservation(@)]
      [] OTHER -> s

\* What is due happens before time passes.
Urgent ==
    \/ Due
    \/ Collecting /\ (Expired \/ WorkersDone)
    \/ \E w \in Workers : worker[w].at = "probing" /\ worker[w].spent = Timeout

Tick ==
    /\ ~Urgent
    /\ timer' = IF phase = "waiting" THEN timer - 1 ELSE timer
    /\ elapsed' = IF Collecting THEN elapsed + 1 ELSE elapsed
    /\ worker' = [w \in Workers |-> OlderWorker(worker[w])]
    /\ results' = [h \in DOMAIN results |-> OlderObservation(results[h])]
    /\ store' = [h \in DOMAIN store |-> OlderObservation(store[h])]
    /\ UNCHANGED <<file, phase, jobs, closed, started, failed>>

Worker(w) ==
    \/ \E h \in Hosts : Feed(w, h)
    \/ \E s \in Outcomes : ProbeEnds(w, s)
    \/ Deliver(w) \/ Drop(w) \/ WorkerEnds(w)

Poller ==
    \/ LoadFails \/ Disabled \/ NothingToCheck
    \/ \E eligible \in SUBSET Hosts : StartCycle(eligible)
    \/ FeederEnds \/ Publish

Next ==
    \/ Poller
    \/ \E w \in Workers : Worker(w)
    \/ \E f \in Files : FileChanges(f)
    \/ Restart \/ Tick

Spec == Init /\ [][Next]_vars

\* The scheduler runs every goroutine, and time passes.
Fairness ==
    /\ WF_vars(LoadFails \/ Disabled \/ NothingToCheck \/ \E e \in SUBSET Hosts : StartCycle(e))
    /\ WF_vars(FeederEnds) /\ WF_vars(Publish) /\ WF_vars(Tick)
    /\ \A w \in Workers : WF_vars(Worker(w))
FairSpec == Spec /\ Fairness

-----------------------------------------------------------------------------
(* Properties. *)

\* Whatever a page calls reachable or unreachable was checked against a target
\* taken from a snapshot at most four intervals ago, however cycles overrun,
\* fail to load or leave results behind.
KnownIsRecent ==
    \A h \in Hosts : Get(h) \in Known => store[h].read <= 4 * Interval

\* "check stale" is shown only after the configuration failed to load: a check
\* at the very start of a cycle that runs into its deadline outlives the wait
\* and the whole next cycle.
StaleMeansFailure ==
    \A h \in Hosts : Get(h) = "stale" => failed

\* A cycle that does not run into its deadline publishes a result of every
\* probe it set out to make: none is lost between feeder, workers and collector.
NoResultIsLost ==
    [][Publish /\ ~Expired => \A h \in started : store'[h].checked]_vars

\* No cycle hangs: one after the other the configuration is loaded again.
PollingGoesOn == []<>Due

\* A host that is taken out for good, and every host once health checking is
\* switched off, loses its observation.
RemovedHostsVanish ==
    \A h \in Hosts :
        <>[](file.kind # "broken" /\ (file.kind = "on" => h \notin file.services))
            => <>[](Get(h) = None)

\* With a file that stays broken, previous observations last until stale.
BrokenFileLapses ==
    <>[](file.kind = "broken") => <>[](\A h \in Hosts : Get(h) \notin Known)
=============================================================================
