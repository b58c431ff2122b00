---------------------------- MODULE SnapshotCache ----------------------------
(***************************************************************************)
(* The authorization snapshot: cache.go, the provider's load sequence      *)
(* (headscale.go, tailscale.go), /healthz and the requests that read the   *)
(* snapshot through ServiceMetadataEditor.requestData.                     *)
(*                                                                         *)
(* One goroutine refreshes: metadata first, then one upstream call after   *)
(* the other, then one pointer store.  The upstreams change at any time, a *)
(* response describes the upstream at some moment of its call, a call may  *)
(* fail or run into its timeout, and saves and requests go on meanwhile.   *)
(* Time is counted in ticks; ages stop at AgeCap, beyond every threshold.  *)
(***************************************************************************)
EXTENDS Naturals, Sequences

CONSTANTS
    Provider,   \* "headscale" or "tailscale"
    Editing,    \* the process has a service metadata editor
    Requests,   \* portal requests that may be open at once
    Values,     \* what an upstream part may be
    Changing,   \* parts that change while we look
    MaxSaves,   \* bound: saves to the metadata
    Poll,       \* PollInterval, in ticks
    CallTime,   \* the longest an upstream call may take, in ticks
    None        \* the absent value

\* The upstream calls of one refresh, in the order of load and loadSnapshot.
\* The two authentications answer with nothing a page shows.
Calls == IF Provider = "tailscale"
         THEN <<"oauth", "policy", "users", "devices", "npm", "hosts">>
         ELSE <<"policy", "devices", "npm", "hosts">>
Parts == {Calls[k] : k \in DOMAIN Calls} \ {"oauth", "npm"}

\* How long one refresh may take, and the age at which a snapshot is stale.
Span == CallTime * Len(Calls)
FaultyStaleAfter == 2 * Poll
StaleAfter == 3 * Poll
AgeCap == StaleAfter + Span + 1

ASSUME CacheAssumption ==
    /\ Provider \in {"headscale", "tailscale"}
    /\ Editing \in BOOLEAN
    /\ Changing \subseteq Parts
    /\ Poll \in Nat \ {0} /\ CallTime \in Nat \ {0} /\ MaxSaves \in Nat
    /\ Values # {} /\ None \notin Values /\ None \notin [value : Values, age : Nat]

-----------------------------------------------------------------------------
VARIABLES
    upstream,   \* what the control plane and the proxy manager hold
    saved,      \* metadata last confirmed: the editor's view, else the file
    phase,      \* "starting" until the initial refresh is over
    stage,      \* 0: no refresh; k: in Calls[k]; beyond: about to publish
    elapsed,    \* ticks the call under way has taken
    reply,      \* what the upstream read for that call and has not delivered
    got,        \* the parts this refresh has
    meta,       \* the metadata this refresh started with
    ticker,     \* ticks until the ticker fires
    pending,    \* the ticker fired and nobody received it: its one slot
    data,       \* the published snapshot
    failed,     \* history: a refresh failed since data was published
    page        \* open requests

refreshVars == <<stage, elapsed, reply, got, meta>>
timerVars   == <<phase, ticker, pending>>
vars        == <<upstream, saved, refreshVars, timerVars, data, failed, page>>

Versions == 0..MaxSaves
\* A part as an upstream read it, with the time since.
Reading == [value : Values, age : 0..AgeCap]
\* lag: how much older than UpdatedAt a part is.
Snapshot == [age : 0..AgeCap, value : [Parts -> Values], lag : [Parts -> 0..AgeCap],
             meta : Versions]
Page == [meta : Versions, floor : Versions, shown : Versions \cup {None}]

NoParts == [p \in Parts |-> None]

TypeOK ==
    /\ upstream \in [Parts -> Values]
    /\ saved \in Versions
    /\ phase \in {"starting", "serving"}
    /\ stage \in 0..(Len(Calls) + 1)
    /\ elapsed \in 0..CallTime
    /\ reply \in Reading \cup {None}
    /\ got \in [Parts -> Reading \cup {None}]
    /\ meta \in Versions
    /\ ticker \in 0..Poll
    /\ pending \in BOOLEAN
    /\ data \in Snapshot \cup {None}
    /\ failed \in BOOLEAN
    /\ page \in [Requests -> Page \cup {None}]

Init ==
    /\ \E v \in Values : upstream = [p \in Parts |-> v]
    /\ saved = 0
    /\ phase = "starting"
    /\ stage = 0 /\ elapsed = 0 /\ reply = None /\ got = NoParts /\ meta = 0
    /\ ticker = Poll /\ pending = FALSE
    /\ data = None
    /\ failed = FALSE
    /\ page = [r \in Requests |-> None]

-----------------------------------------------------------------------------
(* The refresh goroutine. *)

FaultyRefreshDue == phase = "starting" \/ (pending /\ data # None)
\* The initial refresh is not timed; every later one waits for the ticker.
RefreshDue == phase = "starting" \/ pending

\* The ticker starts when the initial refresh is over, whatever came of it.
EndRefresh ==
    /\ stage' = 0 /\ elapsed' = 0 /\ reply' = None /\ got' = NoParts
    /\ phase' = "serving"
    /\ ticker' = IF phase = "starting" THEN Poll ELSE ticker
    /\ UNCHANGED meta

FaultyBegin ==
    /\ stage = 0 /\ RefreshDue
    /\ stage' = 1
    /\ meta' \in {saved, None}
    /\ pending' = FALSE
    /\ UNCHANGED <<upstream, saved, elapsed, reply, got, phase, ticker, data, failed, page>>
\* Metadata is loaded before anything else: the editor's confirmed view, or
\* the file.  A loader that returns nothing is an error, not a view.
Begin ==
    /\ stage = 0 /\ RefreshDue
    /\ stage' = 1
    /\ meta' = saved
    /\ pending' = FALSE
    /\ UNCHANGED <<upstream, saved, elapsed, reply, got, phase, ticker, data, failed, page>>

\* Without an editor the file may be unreadable or invalid.
MetadataFails ==
    /\ stage = 0 /\ RefreshDue /\ ~Editing
    /\ EndRefresh
    /\ pending' = FALSE
    /\ failed' = TRUE
    /\ UNCHANGED <<upstream, saved, data, page>>

InCall == stage \in DOMAIN Calls
CarriesData == InCall /\ Calls[stage] \in Parts

Answer == [value |-> upstream[Calls[stage]], age |-> 0]

\* The upstream reads what it holds; the response is on its way.
Read ==
    /\ CarriesData /\ reply = None
    /\ reply' = Answer
    /\ UNCHANGED <<upstream, saved, stage, elapsed, got, meta, timerVars, data, failed, page>>

\* The response arrives, with what was read now or earlier in the call.
Receive ==
    /\ InCall
    /\ got' = IF ~CarriesData THEN got
              ELSE [got EXCEPT ![Calls[stage]] = IF reply = None THEN Answer ELSE reply]
    /\ stage' = stage + 1
    /\ elapsed' = 0
    /\ reply' = None
    /\ UNCHANGED <<upstream, saved, meta, timerVars, data, failed, page>>

OldPart == [value |-> data.value[Calls[stage]], age |-> data.age + data.lag[Calls[stage]]]
FaultyCallFails ==
    /\ CarriesData /\ data # None /\ OldPart.age <= AgeCap
    /\ got' = [got EXCEPT ![Calls[stage]] = OldPart]
    /\ stage' = stage + 1
    /\ elapsed' = 0
    /\ reply' = None
    /\ UNCHANGED <<upstream, saved, meta, timerVars, data, failed, page>>
\* The call fails, is rejected or times out: the refresh is over and the
\* snapshot stays what it was.
CallFails ==
    /\ InCall
    /\ EndRefresh
    /\ failed' = TRUE
    /\ UNCHANGED <<upstream, saved, pending, data, page>>

\* UpdatedAt is the time now that every call has answered.
Publish ==
    /\ stage = Len(Calls) + 1
    /\ data' = [age |-> 0, value |-> [p \in Parts |-> got[p].value],
                lag |-> [p \in Parts |-> got[p].age], meta |-> meta]
    /\ failed' = FALSE
    /\ EndRefresh
    /\ UNCHANGED <<upstream, saved, pending, page>>

-----------------------------------------------------------------------------
(* Requests. *)

FaultyRequestData(m) == m
\* requestData: with an editor the snapshot's metadata is replaced by the
\* confirmed view.
RequestData(m) == IF Editing THEN saved ELSE m

UnderWay(r) == page[r] # None /\ page[r].shown = None

\* A portal request takes the snapshot pointer.  Without one it is refused.
Open(r) ==
    /\ phase = "serving" /\ data # None
    /\ ~UnderWay(r)
    /\ page' = [page EXCEPT ![r] = [meta |-> data.meta, floor |-> saved, shown |-> None]]
    /\ UNCHANGED <<upstream, saved, refreshVars, timerVars, data, failed>>

\* It renders what it took, with the view of this moment.
Show(r) ==
    /\ UnderWay(r)
    /\ page' = [page EXCEPT ![r].shown = RequestData(page[r].meta)]
    /\ UNCHANGED <<upstream, saved, refreshVars, timerVars, data, failed>>

\* GET /healthz answers 200; visibleHost lets an editor go on.
Healthy == data # None /\ data.age <= StaleAfter

-----------------------------------------------------------------------------
(* The surroundings. *)

UpstreamChanges(p, v) ==
    /\ upstream[p] # v
    /\ upstream' = [upstream EXCEPT ![p] = v]
    /\ UNCHANGED <<saved, refreshVars, timerVars, data, failed, page>>

\* A save is confirmed, or the operator replaces the file.
Saved ==
    /\ saved < MaxSaves
    /\ saved' = saved + 1
    /\ UNCHANGED <<upstream, refreshVars, timerVars, data, failed, page>>

\* A crash or redeployment: memory is gone, confirmed metadata is not.
Restart ==
    /\ phase' = "starting"
    /\ stage' = 0 /\ elapsed' = 0 /\ reply' = None /\ got' = NoParts /\ meta' = 0
    /\ ticker' = Poll /\ pending' = FALSE
    /\ data' = None
    /\ failed' = FALSE
    /\ page' = [r \in Requests |-> None]
    /\ UNCHANGED <<upstream, saved>>

Older(age) == IF age < AgeCap THEN age + 1 ELSE age

\* The goroutine runs when it may: no time passes between a tick and the
\* refresh it starts, after the last answer, or in a call beyond its timeout.
Urgent == \/ stage = 0 /\ RefreshDue
          \/ stage = Len(Calls) + 1
          \/ elapsed = CallTime

Tick ==
    /\ ~Urgent
    /\ elapsed' = IF InCall THEN elapsed + 1 ELSE elapsed
    /\ reply' = IF reply = None THEN None ELSE [reply EXCEPT !.age = Older(@)]
    /\ got' = [p \in Parts |-> IF got[p] = None THEN None ELSE [got[p] EXCEPT !.age = Older(@)]]
    /\ data' = IF data = None THEN None ELSE [data EXCEPT !.age = Older(@)]
    /\ IF phase = "serving"
       THEN /\ ticker' = IF ticker = 1 THEN Poll ELSE ticker - 1
            /\ pending' = (pending \/ ticker = 1)
       ELSE UNCHANGED <<ticker, pending>>
    /\ UNCHANGED <<upstream, saved, phase, stage, meta, failed, page>>

Next ==
    \/ Begin \/ MetadataFails \/ Read \/ Receive \/ CallFails \/ Publish
    \/ \E r \in Requests : Open(r) \/ Show(r)
    \/ \E p \in Changing, v \in Values : UpstreamChanges(p, v)
    \/ Saved \/ Restart \/ Tick

Spec == Init /\ [][Next]_vars

\* Time passes and the goroutine runs; an upstream that is asked again and
\* again answers at some point.
Fairness ==
    /\ WF_vars(Tick \/ Publish) /\ SF_vars(Begin)
    /\ \A k \in DOMAIN Calls : SF_vars(stage = k /\ Receive)
FairSpec == Spec /\ Fairness

-----------------------------------------------------------------------------
(* Properties. *)

\* While /healthz says 200 (and the editor accepts saves), every part pages
\* are decided on was read within three intervals and one refresh: nothing
\* older hides behind a young UpdatedAt, however refreshes fail half way.
HealthyMeansRecent ==
    Healthy => \A p \in Parts : data.age + data.lag[p] <= StaleAfter + Span

\* /healthz turns to 503 on a warm process only if a refresh failed, provided
\* a slow refresh fits into the two intervals that are left of the three.
StaleMeansFailure ==
    Span <= 2 * Poll /\ data # None /\ ~Healthy => failed

\* With an editor, a page asked for after a save was confirmed shows that save
\* or a later one, also when a poll that began before the save publishes the
\* older metadata in between.
ConfirmedSavesAreShown ==
    Editing => \A r \in Requests :
        page[r] # None /\ page[r].shown # None => page[r].shown >= page[r].floor

\* A change of the policy, the users, the devices or the hosts that lasts
\* reaches the snapshot and stays, also after a cold start without one.
ChangesArrive ==
    \A p \in Changing, v \in Values :
        <>[](upstream[p] = v /\ phase = "serving") => <>[](data # None /\ data.value[p] = v)
=============================================================================
