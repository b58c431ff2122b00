------------------------- MODULE HealthPollerProofs --------------------------
(***************************************************************************)
(* Proofs about the service health poller, for any number of hosts and     *)
(* workers and all intervals, timeouts and configurations.                 *)
(***************************************************************************)
EXTENDS HealthPoller, FiniteSetTheorems, TLAPS

\* A check that says something was made at most one interval after the cycle
\* took its target; and it was made at most n ticks ago.
Timely(o)   == o.state \in Known => o.read <= o.age + Interval
Young(o, n) == o.state \in Known => o.age <= n

At(w) == worker[w].at
Holds(w, h) == At(w) \in {"probing", "sending"} /\ worker[w].host = h

\* Between cycles nothing is under way.
CycleInv ==
    /\ phase = "waiting" => /\ worker = NoWorkers /\ elapsed = 0
                            /\ results = NoObservations /\ started = {}
    /\ jobs \subseteq started /\ started \subseteq DOMAIN results
    /\ \A w \in Workers : At(w) \in {"probing", "sending"} => worker[w].host \in started

\* What a cycle has observed is of this cycle.
ObservedInv ==
    /\ \A w \in Workers : At(w) = "sending" =>
        /\ worker[w].result.checked = TRUE
        /\ Timely(worker[w].result) /\ Young(worker[w].result, elapsed)
    /\ \A h \in DOMAIN results : Timely(results[h]) /\ Young(results[h], elapsed)

\* Without a failure, what is published is of the last cycle.
StoreInv == \A h \in DOMAIN store :
    /\ Timely(store[h])
    /\ ~failed => /\ phase = "waiting" /\ store[h].state \in Known => store[h].age + timer <= 2 * Interval
                  /\ phase = "collecting" => Young(store[h], 2 * Interval + elapsed)

\* Before the deadline every host to check is somewhere on its way, and the
\* workers leave only when all are handed out.
DeliveryInv ==
    phase = "collecting" /\ ~Expired =>
        /\ closed => jobs = {}
        /\ closed \/ \E w \in Workers : worker[w] # Gone
        /\ \A h \in started : h \in jobs \/ results[h].checked = TRUE \/ \E w \in Workers : Holds(w, h)

PollerInv == TypeOK /\ CycleInv /\ ObservedInv /\ StoreInv /\ DeliveryInv

-----------------------------------------------------------------------------
(* Observations and workers. *)

LEMMA Constants ==
    /\ Interval \in Nat /\ Interval >= 1 /\ Timeout \in Nat /\ Timeout >= 1 /\ Retry \in Nat
    /\ StaleAfter = 3 * Interval /\ AgeCap = 4 * Interval + 1 /\ AgeCap \in Nat
BY HealthAssumption DEF StaleAfter, AgeCap

LEMMA UncheckedIsAnObservation ==
    /\ Unchecked \in Observation /\ Unchecked.state \notin Known
    /\ Timely(Unchecked) /\ \A n : Young(Unchecked, n)
<1>1. Unchecked.state = "unknown" /\ "unknown" \notin Known
  BY DEF Unchecked, Known
<1>2. Unchecked \in Observation
  BY Constants DEF Unchecked, Observation
<1>3. QED
  BY <1>1, <1>2 DEF Timely, Young

LEMMA NoObservationsAreSome == IsObservations(NoObservations) /\ DOMAIN NoObservations = {}
BY DEF IsObservations, NoObservations

\* A tick makes an observation one tick older and changes nothing else of it.
LEMMA OlderObservations ==
    ASSUME NEW o \in Observation
    PROVE  /\ OlderObservation(o) \in Observation
           /\ OlderObservation(o).state = o.state /\ OlderObservation(o).checked = o.checked
           /\ OlderObservation(o).age \in Nat /\ o.age \in Nat
           /\ OlderObservation(o).age <= o.age + 1
           /\ Timely(o) => Timely(OlderObservation(o))
<1>1. o.age \in 0..AgeCap /\ o.read \in 0..AgeCap /\ o.age \in Nat /\ o.read \in Nat
  BY Constants DEF Observation
<1>2. CASE o.state \notin Known
  <2>1. OlderObservation(o) = o
    BY <1>2 DEF OlderObservation
  <2>2. QED
    BY <1>1, <2>1
<1>3. CASE o.state \in Known
  <2>1. OlderObservation(o) = [o EXCEPT !.age = Older(o.age), !.read = Older(o.read)]
    BY <1>3 DEF OlderObservation
  <2>2. Older(o.age) \in 0..AgeCap /\ Older(o.read) \in 0..AgeCap /\ Older(o.age) <= o.age + 1
    BY <1>1, Constants DEF Older
  <2>3. o.read <= o.age + Interval => Older(o.read) <= Older(o.age) + Interval
    BY <1>1, Constants DEF Older
  <2>4. /\ OlderObservation(o) \in Observation
        /\ OlderObservation(o).state = o.state /\ OlderObservation(o).checked = o.checked
        /\ OlderObservation(o).age = Older(o.age) /\ OlderObservation(o).read = Older(o.read)
    BY <2>1, <2>2 DEF Observation
  <2>5. QED
    BY <1>1, <1>3, <2>2, <2>3, <2>4, Constants DEF Timely
<1>4. QED
  BY <1>2, <1>3

LEMMA Workshop ==
    /\ Gone \in WorkerState /\ Idle \in WorkerState /\ Gone # Idle
    /\ Gone.at = "gone" /\ Idle.at = "idle"
    /\ \A h \in Hosts : /\ Probing(h) \in WorkerState /\ Probing(h).at = "probing"
                        /\ Probing(h).host = h /\ Probing(h) # Gone
    /\ \A h \in Hosts, o \in Observation :
         /\ Sending(h, o) \in WorkerState /\ Sending(h, o).at = "sending"
         /\ Sending(h, o).host = h /\ Sending(h, o).result = o /\ Sending(h, o) # Gone
<1>1. Gone.at = "gone" /\ Idle.at = "idle"
  BY DEF Gone, Idle
<1>2. Gone \in WorkerState /\ Idle \in WorkerState
  BY DEF WorkerState
<1>3. ASSUME NEW h \in Hosts
      PROVE  /\ Probing(h) \in [at : {"probing"}, host : Hosts, spent : 0..Timeout]
             /\ Probing(h).at = "probing" /\ Probing(h).host = h
  BY Constants DEF Probing
<1>4. ASSUME NEW h \in Hosts, NEW o \in Observation
      PROVE  /\ Sending(h, o) \in [at : {"sending"}, host : Hosts, result : Observation]
             /\ Sending(h, o).at = "sending" /\ Sending(h, o).host = h /\ Sending(h, o).result = o
  BY DEF Sending
<1>5. QED
  BY <1>1, <1>2, <1>3, <1>4 DEF WorkerState

LEMMA WorkerKinds ==
    ASSUME NEW s \in WorkerState
    PROVE  /\ s.at \in {"gone", "idle", "probing", "sending"}
           /\ s.at = "gone" <=> s = Gone
           /\ s.at = "idle" <=> s = Idle
           /\ s.at = "probing" => s \in [at : {"probing"}, host : Hosts, spent : 0..Timeout]
           /\ s.at = "sending" => s \in [at : {"sending"}, host : Hosts, result : Observation]
BY Workshop DEF WorkerState

\* So does a tick for what a worker holds.
LEMMA OlderWorkers ==
    ASSUME NEW s \in WorkerState, s.at = "probing" => s.spent # Timeout
    PROVE  /\ OlderWorker(s) \in WorkerState /\ OlderWorker(s).at = s.at
           /\ s.at \in {"probing", "sending"} => OlderWorker(s).host = s.host
           /\ s.at = "sending" => OlderWorker(s).result = OlderObservation(s.result)
           /\ OlderWorker(s) = Gone <=> s = Gone
<1>1. CASE s.at = "probing"
  <2>1. OlderWorker(s) = [s EXCEPT !.spent = @ + 1]
    BY <1>1 DEF OlderWorker
  <2>2. s \in [at : {"probing"}, host : Hosts, spent : 0..Timeout] /\ s.spent + 1 \in 0..Timeout
    BY <1>1, WorkerKinds, Constants
  <2>3. /\ OlderWorker(s) \in [at : {"probing"}, host : Hosts, spent : 0..Timeout]
        /\ OlderWorker(s).host = s.host /\ OlderWorker(s).at = "probing"
    BY <2>1, <2>2
  <2>4. QED
    BY <1>1, <2>3, Workshop DEF WorkerState
<1>2. CASE s.at = "sending"
  <2>1. s \in [at : {"sending"}, host : Hosts, result : Observation]
    BY <1>2, WorkerKinds
  <2>2. OlderWorker(s) = [s EXCEPT !.result = OlderObservation(@)]
    BY <1>2 DEF OlderWorker
  <2>3. OlderObservation(s.result) \in Observation
    BY <2>1, OlderObservations
  <2>4. /\ OlderWorker(s) \in [at : {"sending"}, host : Hosts, result : Observation]
        /\ OlderWorker(s).host = s.host /\ OlderWorker(s).at = "sending"
        /\ OlderWorker(s).result = OlderObservation(s.result)
    BY <2>1, <2>2, <2>3
  <2>5. QED
    BY <1>2, <2>4, Workshop DEF WorkerState
<1>3. CASE s.at \notin {"probing", "sending"}
  BY <1>3 DEF OlderWorker
<1>4. QED
  BY <1>1, <1>2, <1>3

LEMMA InitPollerInv == Init => PollerInv
<1>1. SUFFICES ASSUME Init PROVE PollerInv
  OBVIOUS
<1>2. TypeOK
  <2>1. timer \in 0..(Interval + Retry) /\ elapsed \in 0..Interval
    BY <1>1, Constants DEF Init
  <2>2. worker \in [Workers -> WorkerState] /\ IsObservations(results) /\ IsObservations(store)
    BY <1>1, Workshop, NoObservationsAreSome DEF Init, NoWorkers
  <2>3. QED
    BY <1>1, <2>1, <2>2 DEF Init, TypeOK
<1>3. CycleInv /\ ObservedInv
  BY <1>1, Workshop, NoObservationsAreSome DEF Init, CycleInv, ObservedInv, NoWorkers, At
<1>4. StoreInv /\ DeliveryInv
  BY <1>1, NoObservationsAreSome DEF Init, StoreInv, DeliveryInv
<1>5. QED
  BY <1>2, <1>3, <1>4 DEF PollerInv

-----------------------------------------------------------------------------
(* The head of a cycle. *)

\* No observation that says nothing is stale or out of time.
LEMMA UncheckedStore ==
    ASSUME NEW services \in Configs
    PROVE  LET o == [h \in services |-> Unchecked]
           IN  /\ IsObservations(o) /\ DOMAIN o = services
               /\ \A h \in services : o[h].state \notin Known /\ Timely(o[h])
BY UncheckedIsAnObservation DEF IsObservations

LEMMA HeadKeeps ==
    ASSUME PollerInv, LoadFails \/ Disabled \/ NothingToCheck
    PROVE  PollerInv'
<1>1. /\ phase = "waiting" /\ timer' \in {Retry, Interval} /\ failed' \in BOOLEAN
      /\ UNCHANGED <<file, phase, elapsed, jobs, closed, worker, results, started>>
  BY DEF LoadFails, Disabled, NothingToCheck, Due, cycleVars
<1>2. timer' \in 0..(Interval + Retry)
  BY <1>1, Constants
<1>3. CASE LoadFails
  <2>1. store' = store /\ failed' = TRUE
    BY <1>3 DEF LoadFails
  <2>2. TypeOK' /\ StoreInv'
    BY <1>1, <1>2, <2>1 DEF PollerInv, TypeOK, StoreInv
  <2>3. CycleInv' /\ ObservedInv' /\ DeliveryInv'
    BY <1>1 DEF PollerInv, CycleInv, ObservedInv, DeliveryInv, At, Expired, Holds
  <2>4. QED
    BY <2>2, <2>3 DEF PollerInv
<1>4. CASE ~LoadFails
  <2>1. IsObservations(store') /\ \A h \in DOMAIN store' : store'[h].state \notin Known /\ Timely(store'[h])
    <3>1. CASE Disabled
      BY <3>1, NoObservationsAreSome DEF Disabled
    <3>2. CASE NothingToCheck
      <4>1. file.services \in Configs
        BY <3>2 DEF NothingToCheck, PollerInv, TypeOK, Files, Broken, Off
      <4>2. QED
        BY <3>2, <4>1, UncheckedStore DEF NothingToCheck
    <3>3. QED
      BY <1>4, <3>1, <3>2
  <2>2. TypeOK' /\ StoreInv'
    BY <1>1, <1>2, <2>1 DEF PollerInv, TypeOK, StoreInv, Young
  <2>3. CycleInv' /\ ObservedInv' /\ DeliveryInv'
    BY <1>1 DEF PollerInv, CycleInv, ObservedInv, DeliveryInv, At, Expired, Holds
  <2>4. QED
    BY <2>2, <2>3 DEF PollerInv
<1>5. QED
  BY <1>3, <1>4

\* A pool for a cycle that has something to check has a worker.
LEMMA SomeWorker ==
    ASSUME NEW checks \in SUBSET Hosts, checks # {}, NEW n \in Pools, NEW pool \in SUBSET Workers,
           Cardinality(pool) = IF n > Cardinality(checks) THEN Cardinality(checks) ELSE n
    PROVE  pool # {}
<1>1. IsFiniteSet(checks)
  BY HealthAssumption, FS_Subset
<1>2. Cardinality(checks) \in Nat /\ Cardinality(checks) # 0
  BY <1>1, FS_CardinalityType, FS_EmptySet
<1>3. n \in Nat /\ n >= 1
  BY HealthAssumption, FS_CardinalityType
<1>4. Cardinality(pool) # 0
  BY <1>2, <1>3
<1>5. QED
  BY <1>4, FS_EmptySet

LEMMA StartCycleKeeps ==
    ASSUME PollerInv, NEW eligible \in SUBSET Hosts, StartCycle(eligible)
    PROVE  PollerInv'
<1>1. /\ phase = "waiting" /\ timer = 0 /\ phase' = "collecting" /\ elapsed' = 0 /\ closed' = FALSE
      /\ jobs' = file.services \cap eligible /\ jobs' # {} /\ started' = jobs'
      /\ results' = [h \in file.services |-> Unchecked]
      /\ UNCHANGED <<file, timer, store, failed>>
  BY DEF StartCycle, Due
<1>2. file.services \in Configs /\ file.services \subseteq Hosts /\ file.workers \in Pools
  BY HealthAssumption DEF StartCycle, PollerInv, TypeOK, Files, Broken, Off
<1>3. PICK pool \in SUBSET Workers :
        /\ Cardinality(pool) =
              IF file.workers > Cardinality(jobs') THEN Cardinality(jobs') ELSE file.workers
        /\ worker' = [w \in Workers |-> IF w \in pool THEN Idle ELSE Gone]
  BY DEF StartCycle
<1>4. pool # {}
  <2>1. jobs' \in SUBSET Hosts
    BY <1>1, <1>2
  <2>2. QED
    BY <1>1, <1>2, <1>3, <2>1, SomeWorker
<1>5. /\ IsObservations(results') /\ DOMAIN results' = file.services
      /\ \A h \in file.services : results'[h].state \notin Known /\ Timely(results'[h])
  BY <1>1, <1>2, UncheckedStore
<1>6. TypeOK'
  <2>1. worker' \in [Workers -> WorkerState]
    BY <1>3, Workshop
  <2>2. elapsed' \in 0..Interval
    BY <1>1, Constants
  <2>3. QED
    BY <1>1, <1>2, <1>5, <2>1, <2>2 DEF PollerInv, TypeOK
<1>7. \A w \in Workers : worker'[w].at \in {"gone", "idle"}
  BY <1>3, Workshop
<1>8. CycleInv' /\ ObservedInv'
  BY <1>1, <1>5, <1>7 DEF CycleInv, ObservedInv, At, Young
<1>9. StoreInv'
  <2>1. ASSUME NEW h \in DOMAIN store, ~failed, store[h].state \in Known
        PROVE  store[h].age <= 2 * Interval + elapsed'
    <3>1. store[h].age + timer <= 2 * Interval
      BY <1>1, <2>1 DEF PollerInv, StoreInv
    <3>2. store[h].age \in Nat
      BY Constants DEF PollerInv, TypeOK, IsObservations, Observation
    <3>3. QED
      BY <1>1, <3>1, <3>2, Constants
  <2>2. QED
    BY <1>1, <2>1 DEF PollerInv, StoreInv, Young
<1>10. DeliveryInv'
  <2>1. PICK w \in Workers : worker'[w] # Gone
    BY <1>3, <1>4, Workshop
  <2>2. QED
    BY <1>1, <2>1 DEF DeliveryInv
<1>11. QED
  BY <1>6, <1>8, <1>9, <1>10 DEF PollerInv

-----------------------------------------------------------------------------
(* The goroutines of a cycle. *)

LEMMA WorkerTyping ==
    ASSUME PollerInv, NEW w \in Workers
    PROVE  /\ worker[w] \in WorkerState
           /\ worker[w].at \in {"gone", "idle", "probing", "sending"}
           /\ worker[w].at \in {"probing", "sending"} =>
                /\ phase = "collecting" /\ worker[w].host \in Hosts
                /\ worker[w].host \in started /\ worker[w].host \in DOMAIN results
           /\ worker[w].at = "sending" => worker[w].result \in Observation
<1>1. worker[w] \in WorkerState
  BY DEF PollerInv, TypeOK
<1>2. worker[w].at \in {"probing", "sending"} => phase = "collecting"
  BY Workshop DEF PollerInv, TypeOK, CycleInv, NoWorkers
<1>3. worker[w].at \in {"probing", "sending"} => worker[w].host \in started /\ worker[w].host \in DOMAIN results
  BY DEF PollerInv, CycleInv, At
<1>4. QED
  BY <1>1, <1>2, <1>3, WorkerKinds

LEMMA FeedKeeps ==
    ASSUME PollerInv, NEW w \in Workers, NEW h \in Hosts, Feed(w, h)
    PROVE  PollerInv'
<1>1. /\ phase = "collecting" /\ ~closed /\ h \in jobs /\ jobs' = jobs \ {h}
      /\ worker' = [worker EXCEPT ![w] = Probing(h)] /\ worker[w] = Idle
      /\ worker \in [Workers -> WorkerState]
      /\ UNCHANGED <<file, phase, timer, elapsed, closed, results, store, started, failed>>
  BY DEF Feed, Collecting, PollerInv, TypeOK
<1>2. /\ worker'[w].at = "probing" /\ worker'[w].host = h /\ worker'[w] # Gone
      /\ Probing(h) \in WorkerState
  BY <1>1, Workshop
<1>3. TypeOK'
  BY <1>1, <1>2 DEF PollerInv, TypeOK
<1>4. CycleInv'
  BY <1>1, <1>2 DEF PollerInv, CycleInv, At
<1>5. ObservedInv'
  BY <1>1, <1>2 DEF PollerInv, ObservedInv, At
<1>6. StoreInv'
  BY <1>1 DEF PollerInv, StoreInv
<1>7. DeliveryInv'
  <2>1. SUFFICES ASSUME ~Expired PROVE DeliveryInv'
    BY <1>1 DEF DeliveryInv, Expired
  <2>2. \A v \in Workers : \A g : Holds(v, g) => Holds(v, g)'
    BY <1>1, Workshop DEF Holds, At
  <2>3. Holds(w, h)'
    BY <1>2 DEF Holds, At
  <2>4. \A g \in started : g \in jobs' \/ results[g].checked = TRUE \/ \E v \in Workers : Holds(v, g)'
    BY <1>1, <2>1, <2>2, <2>3 DEF PollerInv, DeliveryInv
  <2>5. QED
    BY <1>1, <1>2, <2>1, <2>4 DEF PollerInv, DeliveryInv
<1>8. QED
  BY <1>3, <1>4, <1>5, <1>6, <1>7 DEF PollerInv

LEMMA FeederEndsKeeps == ASSUME PollerInv, FeederEnds PROVE PollerInv'
<1>1. /\ phase = "collecting" /\ closed' = TRUE /\ (jobs = {} \/ Expired)
      /\ UNCHANGED <<file, phase, timer, elapsed, jobs, worker, results, store, started, failed>>
  BY DEF FeederEnds, Collecting
<1>2. TypeOK' /\ StoreInv'
  BY <1>1 DEF PollerInv, TypeOK, StoreInv
<1>3. CycleInv' /\ ObservedInv'
  BY <1>1 DEF PollerInv, CycleInv, ObservedInv, At
<1>4. DeliveryInv'
  BY <1>1 DEF PollerInv, DeliveryInv, Expired, Holds, At
<1>5. QED
  BY <1>2, <1>3, <1>4 DEF PollerInv

LEMMA ProbeEndsKeeps ==
    ASSUME PollerInv, NEW w \in Workers, NEW state \in Outcomes, ProbeEnds(w, state)
    PROVE  PollerInv'
<1> DEFINE o == [state |-> state, checked |-> TRUE, age |-> 0, read |-> elapsed]
           h == worker[w].host
<1>1. /\ worker[w].at = "probing" /\ worker' = [worker EXCEPT ![w] = Sending(h, o)]
      /\ worker \in [Workers -> WorkerState] /\ elapsed \in 0..Interval
      /\ UNCHANGED <<file, phase, timer, elapsed, jobs, closed, results, store, started, failed>>
  BY DEF ProbeEnds, PollerInv, TypeOK
<1>2. h \in Hosts /\ h \in started
  BY <1>1, WorkerTyping
<1>3. o \in Observation
  <2>1. 0 \in 0..AgeCap /\ elapsed \in 0..AgeCap
    BY <1>1, Constants
  <2>2. QED
    BY <2>1 DEF Observation
<1>4. Timely(o) /\ Young(o, elapsed) /\ o.checked = TRUE
  BY <1>1, Constants DEF Timely, Young
<1>5. HIDE DEF o, h
<1>6. /\ worker'[w].at = "sending" /\ worker'[w].host = h /\ worker'[w].result = o /\ worker'[w] # Gone
      /\ Sending(h, o) \in WorkerState
  BY <1>1, <1>2, <1>3, Workshop
<1>7. TypeOK' /\ StoreInv'
  BY <1>1, <1>6 DEF PollerInv, TypeOK, StoreInv
<1>8. CycleInv'
  <2>1. phase = "collecting"
    BY <1>1, WorkerTyping
  <2>2. QED
    BY <1>1, <1>2, <1>6, <2>1 DEF PollerInv, CycleInv, At
<1>9. ObservedInv'
  BY <1>1, <1>4, <1>6 DEF PollerInv, ObservedInv, At
<1>10. DeliveryInv'
  <2>1. SUFFICES ASSUME phase = "collecting", ~Expired PROVE DeliveryInv'
    BY <1>1 DEF DeliveryInv, Expired
  <2>2. \A v \in Workers : \A g : Holds(v, g) => Holds(v, g)'
    BY <1>1, <1>6 DEF Holds, At, h
  <2>3. \A g \in started : g \in jobs \/ results[g].checked = TRUE \/ \E v \in Workers : Holds(v, g)'
    BY <2>1, <2>2 DEF PollerInv, DeliveryInv
  <2>4. QED
    BY <1>1, <1>6, <2>1, <2>3 DEF PollerInv, DeliveryInv
<1>11. QED
  BY <1>7, <1>8, <1>9, <1>10 DEF PollerInv

LEMMA DeliverKeeps == ASSUME PollerInv, NEW w \in Workers, Deliver(w) PROVE PollerInv'
<1> DEFINE o == worker[w].result
           h == worker[w].host
<1>1. /\ worker[w].at = "sending" /\ worker' = [worker EXCEPT ![w] = Idle]
      /\ results' = [results EXCEPT ![h] = o]
      /\ worker \in [Workers -> WorkerState] /\ IsObservations(results)
      /\ UNCHANGED <<file, phase, timer, elapsed, jobs, closed, store, started, failed>>
  BY DEF Deliver, PollerInv, TypeOK
<1>2. h \in DOMAIN results /\ h \in started /\ o \in Observation /\ phase = "collecting"
  BY <1>1, WorkerTyping
<1>3. o.checked = TRUE /\ Timely(o) /\ Young(o, elapsed)
  BY <1>1 DEF PollerInv, ObservedInv, At
<1>4. HIDE DEF o, h
<1>5. /\ IsObservations(results') /\ DOMAIN results' = DOMAIN results /\ results'[h] = o
      /\ \A g \in DOMAIN results : g # h => results'[g] = results[g]
  BY <1>1, <1>2 DEF IsObservations
<1>6. worker'[w].at = "idle" /\ worker'[w] # Gone /\ Idle \in WorkerState
  BY <1>1, Workshop
<1>7. TypeOK' /\ StoreInv'
  BY <1>1, <1>5, <1>6 DEF PollerInv, TypeOK, StoreInv
<1>8. CycleInv'
  BY <1>1, <1>2, <1>5, <1>6 DEF PollerInv, CycleInv, At
<1>9. ObservedInv'
  BY <1>1, <1>3, <1>5, <1>6 DEF PollerInv, ObservedInv, At
<1>10. DeliveryInv'
  <2>1. SUFFICES ASSUME ~Expired PROVE DeliveryInv'
    BY <1>1 DEF DeliveryInv, Expired
  <2>2. ASSUME NEW g \in started
        PROVE  g \in jobs \/ results'[g].checked = TRUE \/ \E v \in Workers : Holds(v, g)'
    <3>1. g \in DOMAIN results
      BY DEF PollerInv, CycleInv
    <3>2. CASE g = h
      BY <1>3, <1>5, <3>2
    <3>3. CASE g # h
      <4>1. results'[g] = results[g]
        BY <1>5, <3>1, <3>3
      <4>2. \A v \in Workers : Holds(v, g) => Holds(v, g)'
        BY <1>1, <3>3 DEF Holds, At, h
      <4>3. QED
        BY <1>2, <2>1, <4>1, <4>2 DEF PollerInv, DeliveryInv
    <3>4. QED
      BY <3>2, <3>3
  <2>3. QED
    BY <1>1, <1>2, <1>6, <2>1, <2>2 DEF PollerInv, DeliveryInv
<1>11. QED
  BY <1>7, <1>8, <1>9, <1>10 DEF PollerInv

LEMMA WorkerLeavesKeeps ==
    ASSUME PollerInv, NEW w \in Workers, Drop(w) \/ WorkerEnds(w)
    PROVE  PollerInv'
<1>1. /\ worker' = [worker EXCEPT ![w] = Gone] /\ worker \in [Workers -> WorkerState]
      /\ Expired \/ (worker[w] = Idle /\ closed)
      /\ UNCHANGED <<file, phase, timer, elapsed, jobs, closed, results, store, started, failed>>
  BY DEF Drop, WorkerEnds, PollerInv, TypeOK
<1>2. worker'[w].at = "gone" /\ Gone \in WorkerState
  BY <1>1, Workshop
<1>3. TypeOK' /\ StoreInv'
  BY <1>1, <1>2 DEF PollerInv, TypeOK, StoreInv
<1>4. CycleInv'
  <2>1. worker = NoWorkers => worker' = NoWorkers
    BY <1>1 DEF NoWorkers
  <2>2. QED
    BY <1>1, <1>2, <2>1 DEF PollerInv, CycleInv, At
<1>5. ObservedInv'
  BY <1>1, <1>2 DEF PollerInv, ObservedInv, At
<1>6. DeliveryInv'
  <2>1. SUFFICES ASSUME phase = "collecting", ~Expired PROVE DeliveryInv'
    BY <1>1 DEF DeliveryInv, Expired
  <2>2. \A v \in Workers : \A g : Holds(v, g) => Holds(v, g)'
    BY <1>1, <2>1, Workshop DEF Holds, At
  <2>3. \A g \in started : g \in jobs \/ results[g].checked = TRUE \/ \E v \in Workers : Holds(v, g)'
    BY <2>1, <2>2 DEF PollerInv, DeliveryInv
  <2>4. QED
    BY <1>1, <2>1, <2>3 DEF PollerInv, DeliveryInv
<1>7. QED
  BY <1>3, <1>4, <1>5, <1>6 DEF PollerInv

LEMMA PublishKeeps == ASSUME PollerInv, Publish PROVE PollerInv'
<1>1. /\ phase = "collecting" /\ phase' = "waiting" /\ store' = results /\ timer' = Interval
      /\ failed' = FALSE /\ elapsed' = 0 /\ jobs' = {} /\ closed' = FALSE
      /\ worker' = NoWorkers /\ results' = NoObservations /\ started' = {} /\ file' = file
  BY DEF Publish, Collecting
<1>2. TypeOK'
  <2>1. timer' \in 0..(Interval + Retry) /\ elapsed' \in 0..Interval
    BY <1>1, Constants
  <2>2. worker' \in [Workers -> WorkerState] /\ IsObservations(results') /\ IsObservations(store')
    BY <1>1, Workshop, NoObservationsAreSome DEF NoWorkers, PollerInv, TypeOK
  <2>3. QED
    BY <1>1, <2>1, <2>2 DEF PollerInv, TypeOK
<1>3. CycleInv' /\ ObservedInv' /\ DeliveryInv'
  BY <1>1, Workshop, NoObservationsAreSome DEF CycleInv, ObservedInv, DeliveryInv, NoWorkers, At
<1>4. StoreInv'
  <2>1. ASSUME NEW h \in DOMAIN results, results[h].state \in Known
        PROVE  results[h].age + Interval <= 2 * Interval
    <3>1. results[h].age <= elapsed
      BY <2>1 DEF PollerInv, ObservedInv, Young
    <3>2. results[h].age \in Nat /\ elapsed \in 0..Interval
      BY Constants DEF PollerInv, TypeOK, IsObservations, Observation
    <3>3. QED
      BY <3>1, <3>2, Constants
  <2>2. QED
    BY <1>1, <2>1 DEF PollerInv, ObservedInv, StoreInv
<1>5. QED
  BY <1>2, <1>3, <1>4 DEF PollerInv

-----------------------------------------------------------------------------
(* The operator and time. *)

LEMMA FileChangesKeeps ==
    ASSUME PollerInv, NEW f \in Files, FileChanges(f)
    PROVE  PollerInv'
<1>1. file' \in Files
      /\ UNCHANGED <<phase, timer, elapsed, jobs, closed, worker, results, store, started, failed>>
  BY DEF FileChanges, cycleVars
<1>2. TypeOK' /\ StoreInv'
  BY <1>1 DEF PollerInv, TypeOK, StoreInv
<1>3. CycleInv' /\ ObservedInv' /\ DeliveryInv'
  BY <1>1 DEF PollerInv, CycleInv, ObservedInv, DeliveryInv, Expired, Holds, At
<1>4. QED
  BY <1>2, <1>3 DEF PollerInv

LEMMA RestartKeeps == ASSUME PollerInv, Restart PROVE PollerInv'
<1>1. /\ phase' = "waiting" /\ timer' = 0 /\ elapsed' = 0 /\ jobs' = {} /\ closed' = FALSE
      /\ worker' = NoWorkers /\ results' = NoObservations /\ store' = NoObservations
      /\ started' = {} /\ failed' = FALSE /\ file' = file
  BY DEF Restart
<1>2. TypeOK'
  <2>1. timer' \in 0..(Interval + Retry) /\ elapsed' \in 0..Interval
    BY <1>1, Constants
  <2>2. worker' \in [Workers -> WorkerState] /\ IsObservations(results') /\ IsObservations(store')
    BY <1>1, Workshop, NoObservationsAreSome DEF NoWorkers
  <2>3. QED
    BY <1>1, <2>1, <2>2 DEF PollerInv, TypeOK
<1>3. CycleInv' /\ ObservedInv' /\ DeliveryInv' /\ StoreInv'
  BY <1>1, Workshop, NoObservationsAreSome
     DEF CycleInv, ObservedInv, DeliveryInv, StoreInv, NoWorkers, At
<1>4. QED
  BY <1>2, <1>3 DEF PollerInv

\* A tick makes every observation of a set one tick older.
LEMMA OlderSets ==
    ASSUME NEW o, IsObservations(o)
    PROVE  LET p == [h \in DOMAIN o |-> OlderObservation(o[h])]
           IN  /\ IsObservations(p) /\ DOMAIN p = DOMAIN o
               /\ \A h \in DOMAIN o :
                    /\ p[h].state = o[h].state /\ p[h].checked = o[h].checked
                    /\ p[h].age \in Nat /\ o[h].age \in Nat /\ p[h].age <= o[h].age + 1
                    /\ Timely(o[h]) => Timely(p[h])
<1>1. \A h \in DOMAIN o : o[h] \in Observation
  BY DEF IsObservations
<1>2. QED
  BY <1>1, OlderObservations DEF IsObservations

LEMMA TickKeeps == ASSUME PollerInv, Tick PROVE PollerInv'
<1>1. /\ timer' = IF phase = "waiting" THEN timer - 1 ELSE timer
      /\ elapsed' = IF phase = "collecting" THEN elapsed + 1 ELSE elapsed
      /\ worker' = [w \in Workers |-> OlderWorker(worker[w])]
      /\ results' = [h \in DOMAIN results |-> OlderObservation(results[h])]
      /\ store' = [h \in DOMAIN store |-> OlderObservation(store[h])]
      /\ UNCHANGED <<file, phase, jobs, closed, started, failed>>
  BY DEF Tick, Collecting
<1>2. /\ phase = "waiting" => timer # 0
      /\ phase = "collecting" => elapsed # Interval
      /\ \A w \in Workers : worker[w].at = "probing" => worker[w].spent # Timeout
  BY DEF Tick, Urgent, Due, Collecting, Expired
<1>3. /\ timer \in Nat /\ timer <= Interval + Retry /\ elapsed \in Nat /\ elapsed <= Interval
      /\ phase \in {"waiting", "collecting"} /\ IsObservations(results) /\ IsObservations(store)
  BY Constants DEF PollerInv, TypeOK
<1>4. \A w \in Workers :
        /\ worker'[w] \in WorkerState /\ worker'[w].at = worker[w].at
        /\ worker[w].at \in {"probing", "sending"} => worker'[w].host = worker[w].host
        /\ worker[w].at = "sending" => worker'[w].result = OlderObservation(worker[w].result)
        /\ worker'[w] = Gone <=> worker[w] = Gone
  <2>1. SUFFICES ASSUME NEW w \in Workers
                 PROVE  /\ OlderWorker(worker[w]) \in WorkerState
                        /\ OlderWorker(worker[w]).at = worker[w].at
                        /\ worker[w].at \in {"probing", "sending"} =>
                             OlderWorker(worker[w]).host = worker[w].host
                        /\ worker[w].at = "sending" =>
                             OlderWorker(worker[w]).result = OlderObservation(worker[w].result)
                        /\ OlderWorker(worker[w]) = Gone <=> worker[w] = Gone
    BY <1>1
  <2>2. worker[w] \in WorkerState
    BY WorkerTyping
  <2>3. QED
    BY <1>2, <2>2, OlderWorkers
<1>5. /\ IsObservations(results') /\ DOMAIN results' = DOMAIN results
      /\ \A h \in DOMAIN results :
           /\ results'[h].state = results[h].state /\ results'[h].checked = results[h].checked
           /\ results'[h].age \in Nat /\ results[h].age \in Nat
           /\ results'[h].age <= results[h].age + 1
           /\ Timely(results[h]) => Timely(results'[h])
  BY <1>1, <1>3, OlderSets
<1>6. /\ IsObservations(store') /\ DOMAIN store' = DOMAIN store
      /\ \A h \in DOMAIN store :
           /\ store'[h].state = store[h].state
           /\ store'[h].age \in Nat /\ store[h].age \in Nat
           /\ store'[h].age <= store[h].age + 1
           /\ Timely(store[h]) => Timely(store'[h])
  BY <1>1, <1>3, OlderSets
<1>7. TypeOK'
  <2>1. timer' \in 0..(Interval + Retry) /\ elapsed' \in 0..Interval
    BY <1>1, <1>2, <1>3, Constants
  <2>2. worker' \in [Workers -> WorkerState]
    BY <1>1, <1>4
  <2>3. QED
    BY <1>1, <1>5, <1>6, <2>1, <2>2 DEF PollerInv, TypeOK
<1>8. CycleInv'
  <2>1. ASSUME phase = "waiting"
        PROVE  worker' = NoWorkers /\ elapsed' = 0 /\ results' = NoObservations /\ started' = {}
    <3>1. worker = NoWorkers /\ elapsed = 0 /\ results = NoObservations /\ started = {}
      BY <2>1 DEF PollerInv, CycleInv
    <3>2. \A w \in Workers : worker'[w] = Gone
      BY <1>4, <3>1 DEF NoWorkers
    <3>3. worker' = NoWorkers
      BY <1>1, <3>2 DEF NoWorkers
    <3>4. results' = NoObservations
      BY <1>1, <3>1, NoObservationsAreSome DEF NoObservations
    <3>5. QED
      BY <1>1, <2>1, <3>1, <3>3, <3>4
  <2>2. \A w \in Workers : worker'[w].at \in {"probing", "sending"} => worker'[w].host \in started
    BY <1>4 DEF PollerInv, CycleInv, At
  <2>3. QED
    BY <1>1, <1>5, <2>1, <2>2 DEF PollerInv, CycleInv, At
<1>9. ObservedInv'
  <2>1. ASSUME NEW w \in Workers, worker[w].at = "sending"
        PROVE  /\ worker'[w].result.checked = TRUE
               /\ Timely(worker'[w].result) /\ Young(worker'[w].result, elapsed')
    <3>1. /\ phase = "collecting" /\ worker[w].result \in Observation
          /\ worker'[w].result = OlderObservation(worker[w].result)
      BY <1>4, <2>1, WorkerTyping
    <3>2. /\ worker[w].result.checked = TRUE /\ Timely(worker[w].result)
          /\ worker[w].result.state \in Known => worker[w].result.age <= elapsed
      BY <2>1 DEF PollerInv, ObservedInv, At, Young
    <3>3. elapsed' = elapsed + 1
      BY <1>1, <3>1
    <3>4. worker'[w].result.state \in Known => worker'[w].result.age <= elapsed + 1
      BY <1>3, <3>1, <3>2, OlderObservations
    <3>5. QED
      BY <3>1, <3>2, <3>3, <3>4, OlderObservations DEF Young
  <2>2. ASSUME NEW h \in DOMAIN results
        PROVE  Timely(results'[h]) /\ Young(results'[h], elapsed')
    <3>1. phase = "collecting"
      BY <1>3, NoObservationsAreSome DEF PollerInv, CycleInv
    <3>2. Timely(results[h]) /\ (results[h].state \in Known => results[h].age <= elapsed)
      BY DEF PollerInv, ObservedInv, Young
    <3>3. results'[h].state \in Known => results'[h].age <= elapsed + 1
      BY <1>3, <1>5, <3>2
    <3>4. QED
      BY <1>1, <1>5, <3>1, <3>2, <3>3 DEF Young
  <2>3. \A w \in Workers : worker'[w].at = "sending" => worker[w].at = "sending"
    BY <1>4
  <2>4. QED
    BY <1>5, <2>1, <2>2, <2>3 DEF ObservedInv, At
<1>10. StoreInv'
  <2>1. SUFFICES ASSUME NEW h \in DOMAIN store
                 PROVE  /\ Timely(store'[h])
                        /\ ~failed /\ phase = "waiting" /\ store'[h].state \in Known
                             => store'[h].age + timer' <= 2 * Interval
                        /\ ~failed /\ phase = "collecting" /\ store'[h].state \in Known
                             => store'[h].age <= 2 * Interval + elapsed'
    BY <1>1, <1>6 DEF StoreInv, Young
  <2>2. Timely(store[h]) /\ Timely(store'[h])
    BY <1>6 DEF PollerInv, StoreInv
  <2>3. ASSUME ~failed, phase = "waiting", store'[h].state \in Known
        PROVE  store'[h].age + timer' <= 2 * Interval
    <3>1. store[h].age + timer <= 2 * Interval
      BY <1>6, <2>3 DEF PollerInv, StoreInv
    <3>2. timer' = timer - 1 /\ timer # 0
      BY <1>1, <1>2, <2>3
    <3>3. QED
      BY <1>3, <1>6, <3>1, <3>2, Constants
  <2>4. ASSUME ~failed, phase = "collecting", store'[h].state \in Known
        PROVE  store'[h].age <= 2 * Interval + elapsed'
    <3>1. store[h].age <= 2 * Interval + elapsed
      BY <1>6, <2>4 DEF PollerInv, StoreInv, Young
    <3>2. elapsed' = elapsed + 1
      BY <1>1, <2>4
    <3>3. QED
      BY <1>3, <1>6, <3>1, <3>2, Constants
  <2>5. QED
    BY <2>2, <2>3, <2>4
<1>11. DeliveryInv'
  <2>1. SUFFICES ASSUME phase = "collecting" PROVE DeliveryInv'
    BY <1>1 DEF DeliveryInv
  <2>2. ~Expired
    BY <1>2, <2>1 DEF Expired
  <2>3. \A w \in Workers : \A h : Holds(w, h) => Holds(w, h)'
    BY <1>4 DEF Holds, At
  <2>4. \A h \in started : h \in jobs \/ results[h].checked = TRUE \/ \E w \in Workers : Holds(w, h)
    BY <2>1, <2>2 DEF PollerInv, DeliveryInv
  <2>5. \A h \in started : results'[h].checked = results[h].checked
    BY <1>5 DEF PollerInv, CycleInv
  <2>6. \A h \in started : h \in jobs \/ results'[h].checked = TRUE \/ \E w \in Workers : Holds(w, h)'
    BY <2>3, <2>4, <2>5
  <2>7. closed \/ \E w \in Workers : worker'[w] # Gone
    BY <1>4, <2>1, <2>2 DEF PollerInv, DeliveryInv
  <2>8. QED
    BY <1>1, <2>1, <2>2, <2>6, <2>7 DEF PollerInv, DeliveryInv
<1>12. QED
  BY <1>7, <1>8, <1>9, <1>10, <1>11 DEF PollerInv

LEMMA StutterKeeps == ASSUME PollerInv, UNCHANGED vars PROVE PollerInv'
<1>1. UNCHANGED <<file, phase, timer, elapsed, jobs, closed, worker, results, store, started, failed>>
  BY DEF vars, cycleVars
<1>2. TypeOK' /\ StoreInv'
  BY <1>1 DEF PollerInv, TypeOK, StoreInv
<1>3. CycleInv' /\ ObservedInv' /\ DeliveryInv'
  BY <1>1 DEF PollerInv, CycleInv, ObservedInv, DeliveryInv, Expired, Holds, At
<1>4. QED
  BY <1>2, <1>3 DEF PollerInv

LEMMA StepKeepsPollerInv == PollerInv /\ [Next]_vars => PollerInv'
<1>1. SUFFICES ASSUME PollerInv, [Next]_vars PROVE PollerInv'
  OBVIOUS
<1>2. CASE Poller
  <2>1. CASE LoadFails \/ Disabled \/ NothingToCheck
    BY <1>1, <2>1, HeadKeeps
  <2>2. ASSUME NEW eligible \in SUBSET Hosts, StartCycle(eligible) PROVE PollerInv'
    BY <1>1, <2>2, StartCycleKeeps
  <2>3. CASE FeederEnds
    BY <1>1, <2>3, FeederEndsKeeps
  <2>4. CASE Publish
    BY <1>1, <2>4, PublishKeeps
  <2>5. QED
    BY <1>2, <2>1, <2>2, <2>3, <2>4 DEF Poller
<1>3. ASSUME NEW w \in Workers, Worker(w) PROVE PollerInv'
  <2>1. ASSUME NEW h \in Hosts, Feed(w, h) PROVE PollerInv'
    BY <1>1, <2>1, FeedKeeps
  <2>2. ASSUME NEW s \in Outcomes, ProbeEnds(w, s) PROVE PollerInv'
    BY <1>1, <2>2, ProbeEndsKeeps
  <2>3. CASE Deliver(w)
    BY <1>1, <2>3, DeliverKeeps
  <2>4. CASE Drop(w) \/ WorkerEnds(w)
    BY <1>1, <2>4, WorkerLeavesKeeps
  <2>5. QED
    BY <1>3, <2>1, <2>2, <2>3, <2>4 DEF Worker
<1>4. ASSUME NEW f \in Files, FileChanges(f) PROVE PollerInv'
  BY <1>1, <1>4, FileChangesKeeps
<1>5. CASE Restart
  BY <1>1, <1>5, RestartKeeps
<1>6. CASE Tick
  BY <1>1, <1>6, TickKeeps
<1>7. CASE UNCHANGED vars
  BY <1>1, <1>7, StutterKeeps
<1>8. QED
  BY <1>1, <1>2, <1>3, <1>4, <1>5, <1>6, <1>7 DEF Next

-----------------------------------------------------------------------------
(* What readers see. *)

\* Observations keep to the ages that hold without a failure, whatever
\* configuration, probes, deadlines and restarts do.
THEOREM PollerInvHolds == Spec => []PollerInv
BY InitPollerInv, StepKeepsPollerInv, PTL DEF Spec

\* What Get answers of a host.
LEMMA GetAnswers ==
    ASSUME PollerInv, NEW h
    PROVE  /\ Get(h) \in Known =>
                /\ h \in DOMAIN store /\ store[h].state \in Known /\ store[h].age <= 3 * Interval
           /\ Get(h) = "stale" =>
                /\ h \in DOMAIN store /\ store[h].state \in Known /\ ~(store[h].age <= 3 * Interval)
<1>1. None \notin Known /\ None # "stale" /\ "stale" \notin Known /\ "stale" # "unknown"
  BY HealthAssumption DEF Known
<1>2. ASSUME NEW o \in Observation
      PROVE  o.state \in Known \cup {"unknown"} /\ o.age \in Nat
  BY HealthAssumption, Constants DEF Observation
<1>3. CASE h \notin DOMAIN store
  BY <1>1, <1>3 DEF Get
<1>4. CASE h \in DOMAIN store
  <2>1. store[h] \in Observation
    BY <1>4 DEF PollerInv, TypeOK, IsObservations
  <2>2. store[h].state # "stale" /\ store[h].age \in Nat
    BY <1>1, <1>2, <2>1
  <2>3. (store[h].age > StaleAfter) <=> ~(store[h].age <= 3 * Interval)
    BY <2>2, Constants
  <2>4. QED
    BY <1>1, <1>4, <2>2, <2>3 DEF Get
<1>5. QED
  BY <1>3, <1>4

\* A page that calls a service reachable or not speaks of a target that was
\* taken from a snapshot at most four intervals ago (ServiceHealthStore.Get).
THEOREM ShownHealthIsRecent == Spec => []KnownIsRecent
<1>1. ASSUME PollerInv PROVE KnownIsRecent
  <2>1. SUFFICES ASSUME NEW h \in Hosts, Get(h) \in Known
                 PROVE  store[h].read <= 4 * Interval
    BY DEF KnownIsRecent
  <2>2. h \in DOMAIN store /\ store[h].state \in Known /\ store[h].age <= 3 * Interval
    BY <1>1, <2>1, GetAnswers
  <2>3. store[h].read <= store[h].age + Interval
    BY <1>1, <2>2 DEF PollerInv, StoreInv, Timely
  <2>4. store[h].read \in Nat /\ store[h].age \in Nat
    BY <1>1, <2>2, Constants DEF PollerInv, TypeOK, IsObservations, Observation
  <2>5. QED
    BY <2>2, <2>3, <2>4, Constants
<1>2. QED
  BY <1>1, PollerInvHolds, PTL

\* No cycle that works lets a check lapse, not even one that runs into its
\* deadline: "check stale" tells of a configuration that did not load.
THEOREM LapsesTellOfFailure == Spec => []StaleMeansFailure
<1>1. ASSUME PollerInv PROVE StaleMeansFailure
  <2>1. SUFFICES ASSUME NEW h \in Hosts, Get(h) = "stale", ~failed PROVE FALSE
    BY DEF StaleMeansFailure
  <2>2. h \in DOMAIN store /\ store[h].state \in Known /\ ~(store[h].age <= 3 * Interval)
    BY <1>1, <2>1, GetAnswers
  <2>3. /\ store[h].age \in Nat /\ timer \in Nat /\ elapsed \in Nat /\ elapsed <= Interval
        /\ phase \in {"waiting", "collecting"}
    BY <1>1, <2>2, Constants DEF PollerInv, TypeOK, IsObservations, Observation
  <2>4. CASE phase = "waiting"
    <3>1. store[h].age + timer <= 2 * Interval
      BY <1>1, <2>1, <2>2, <2>4 DEF PollerInv, StoreInv
    <3>2. QED
      BY <2>2, <2>3, <3>1, Constants
  <2>5. CASE phase = "collecting"
    <3>1. store[h].age <= 2 * Interval + elapsed
      BY <1>1, <2>1, <2>2, <2>5 DEF PollerInv, StoreInv, Young
    <3>2. QED
      BY <2>2, <2>3, <3>1, Constants
  <2>6. QED
    BY <2>3, <2>4, <2>5
<1>2. QED
  BY <1>1, PollerInvHolds, PTL

\* Feeder, workers, closer and collector lose no result of a cycle that stays
\* within its deadline, however many workers there are (runCycle).
THEOREM ResultsArrive == Spec => NoResultIsLost
<1>1. ASSUME PollerInv, [Next]_vars
      PROVE  [Publish /\ ~Expired => \A h \in started : store'[h].checked]_vars
  <2>1. SUFFICES ASSUME Publish, ~Expired, NEW h \in started PROVE store'[h].checked
    OBVIOUS
  <2>2. phase = "collecting" /\ store' = results /\ \A w \in Workers : worker[w] = Gone
    BY <2>1 DEF Publish, Collecting, WorkersDone
  <2>3. jobs = {}
    BY <1>1, <2>1, <2>2 DEF PollerInv, DeliveryInv
  <2>4. \A w \in Workers : ~Holds(w, h)
    BY <2>2, Workshop DEF Holds, At
  <2>5. results[h].checked = TRUE
    BY <1>1, <2>1, <2>2, <2>3, <2>4 DEF PollerInv, DeliveryInv
  <2>6. QED
    BY <2>2, <2>5
<1>2. QED
  BY <1>1, PollerInvHolds, PTL DEF Spec, NoResultIsLost
=============================================================================
