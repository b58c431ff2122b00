------------------------- MODULE SnapshotCacheProofs --------------------------
(***************************************************************************)
(* Proofs about the authorization snapshot, for both control planes and    *)
(* for all intervals, timeouts, upstream contents and numbers of requests. *)
(***************************************************************************)
EXTENDS SnapshotCache, TLAPS

\* How long a refresh has taken at most when it is in its k-th call for e ticks.
TakenBy(k, e) == (k - 1) * CallTime + e

\* A refresh has an answer for every call it is past, none when it is over, and
\* nothing it has read is older than the refresh.
RefreshInv ==
    /\ stage = 0 => elapsed = 0 /\ reply = None /\ got = NoParts
    /\ stage = Len(Calls) + 1 => elapsed = 0 /\ reply = None
    /\ reply # None => reply.age <= elapsed
    /\ \A k \in DOMAIN Calls : k < stage /\ Calls[k] \in Parts => got[Calls[k]] # None
    /\ \A p \in Parts : got[p] # None => got[p].age <= TakenBy(stage, elapsed)

\* No part of the snapshot was read more than one refresh before it was published.
LagInv == data # None => \A p \in Parts : data.lag[p] <= Span

\* A warm process whose last refresh succeeded has waited for the ticker since,
\* and what it waited is in its snapshot's age.
ScheduleInv ==
    /\ ticker >= 1
    /\ data # None => phase = "serving"
    /\ data # None /\ ~failed =>
        /\ stage = 0 /\ ~pending => data.age + ticker <= Poll
        /\ stage = 0 /\ pending  => data.age <= Poll
        /\ stage # 0 => data.age <= Poll + TakenBy(stage, elapsed)

\* A page's floor is no newer than what is confirmed by now, and with an editor
\* no page shows less than its floor.
PageInv ==
    \A r \in Requests : page[r] # None =>
        /\ page[r].floor <= saved
        /\ Editing /\ page[r].shown # None => page[r].shown >= page[r].floor

CacheInv == TypeOK /\ RefreshInv /\ LagInv /\ ScheduleInv /\ PageInv

-----------------------------------------------------------------------------
(* The constants. *)

LEMMA Constants ==
    /\ Len(Calls) \in Nat /\ Len(Calls) >= 1 /\ DOMAIN Calls = 1..Len(Calls)
    /\ Span \in Nat /\ Poll \in Nat /\ CallTime \in Nat
    /\ Poll >= 1 /\ CallTime >= 1 /\ Span = CallTime * Len(Calls)
    /\ StaleAfter = 3 * Poll
    /\ AgeCap \in Nat /\ AgeCap >= 1
<1>1. Poll \in Nat \ {0} /\ CallTime \in Nat \ {0}
  BY CacheAssumption
<1>2. CASE Provider = "tailscale"
  <2>1. Len(Calls) = 6 /\ DOMAIN Calls = 1..6
    BY <1>2 DEF Calls
  <2>2. QED
    BY <1>1, <2>1 DEF Span, StaleAfter, AgeCap
<1>3. CASE Provider # "tailscale"
  <2>1. Len(Calls) = 4 /\ DOMAIN Calls = 1..4
    BY <1>3 DEF Calls
  <2>2. QED
    BY <1>1, <2>1 DEF Span, StaleAfter, AgeCap
<1>4. QED
  BY <1>2, <1>3

LEMMA PartIsACall ==
    ASSUME NEW p \in Parts
    PROVE  \E k \in DOMAIN Calls : Calls[k] = p
BY DEF Parts

\* The next call starts no earlier than the last has ended.
LEMMA CallsFollow ==
    ASSUME NEW k \in 1..Len(Calls), NEW e \in 0..CallTime
    PROVE  /\ TakenBy(k, e) \in Nat
           /\ TakenBy(k, e) <= TakenBy(k + 1, 0)
           /\ TakenBy(k, e + 1) = TakenBy(k, e) + 1
           /\ TakenBy(Len(Calls) + 1, 0) = Span
<1>1. k \in Nat /\ k >= 1 /\ CallTime \in Nat /\ e \in Nat /\ e <= CallTime /\ Len(Calls) \in Nat
  BY Constants
<1>2. (k - 1) * CallTime \in Nat
  BY <1>1
<1>3. ((k + 1) - 1) * CallTime = (k - 1) * CallTime + CallTime
  BY <1>1
<1>4. ((Len(Calls) + 1) - 1) * CallTime + 0 = CallTime * Len(Calls)
  BY <1>1
<1>5. QED
  BY <1>1, <1>2, <1>3, <1>4, Constants DEF TakenBy

LEMMA OlderAge ==
    ASSUME NEW a \in 0..AgeCap
    PROVE  Older(a) \in 0..AgeCap /\ Older(a) <= a + 1
BY Constants DEF Older

LEMMA OlderReading ==
    ASSUME NEW x \in Reading
    PROVE  /\ [x EXCEPT !.age = Older(@)] \in Reading
           /\ [x EXCEPT !.age = Older(@)].age <= x.age + 1
BY OlderAge DEF Reading

LEMMA TimeTaken ==
    ASSUME CacheInv, stage # 0
    PROVE  /\ TakenBy(stage, elapsed) \in Nat
           /\ TakenBy(stage, elapsed) <= Span
           /\ InCall => /\ elapsed <= TakenBy(stage, elapsed)
                        /\ TakenBy(stage, elapsed) <= TakenBy(stage + 1, 0)
                        /\ TakenBy(stage, elapsed + 1) = TakenBy(stage, elapsed) + 1
<1>1. stage \in 1..(Len(Calls) + 1) /\ elapsed \in 0..CallTime
  BY Constants DEF CacheInv, TypeOK
<1>2. CASE InCall
  <2>1. stage \in 1..Len(Calls)
    BY <1>2, Constants DEF InCall
  <2>2. /\ TakenBy(stage, elapsed) \in Nat
        /\ TakenBy(stage, elapsed) <= TakenBy(stage + 1, 0)
        /\ TakenBy(stage, elapsed + 1) = TakenBy(stage, elapsed) + 1
    BY <1>1, <2>1, CallsFollow
  <2>3. (stage - 1) * CallTime >= 0 /\ (stage - 1) * CallTime \in Nat
    BY <2>1, Constants
  <2>4. elapsed <= TakenBy(stage, elapsed)
    BY <1>1, <2>3, Constants DEF TakenBy
  <2>5. stage \in Nat /\ stage <= Len(Calls)
    BY <2>1, Constants
  <2>6. TakenBy(stage + 1, 0) = stage * CallTime
    BY <2>5, Constants DEF TakenBy
  <2>7. stage * CallTime <= Len(Calls) * CallTime
    BY <2>5, Constants, SMTT(20)
  <2>8. TakenBy(stage, elapsed) <= Span
    BY <2>2, <2>5, <2>6, <2>7, Constants
  <2>9. QED
    BY <2>2, <2>4, <2>8
<1>3. CASE ~InCall
  <2>1. stage = Len(Calls) + 1
    BY <1>1, <1>3, Constants DEF InCall
  <2>2. elapsed = 0
    BY <2>1 DEF CacheInv, RefreshInv
  <2>3. TakenBy(stage, elapsed) = Span
    BY <2>1, <2>2, Constants, CallsFollow
  <2>4. QED
    BY <1>3, <2>3, Constants
<1>4. QED
  BY <1>2, <1>3

-----------------------------------------------------------------------------
(* Every action preserves the invariant. *)

LEMMA InitCacheInv == Init => CacheInv
<1>1. SUFFICES ASSUME Init PROVE CacheInv
  OBVIOUS
<1>2. TypeOK
  <2>1. upstream \in [Parts -> Values]
    BY <1>1 DEF Init
  <2>2. saved \in Versions /\ meta \in Versions
    BY <1>1, CacheAssumption DEF Init, Versions
  <2>3. stage \in 0..(Len(Calls) + 1) /\ elapsed \in 0..CallTime /\ ticker \in 0..Poll
    BY <1>1, Constants DEF Init
  <2>4. got \in [Parts -> Reading \cup {None}] /\ page \in [Requests -> Page \cup {None}]
    BY <1>1 DEF Init, NoParts
  <2>5. QED
    BY <1>1, <2>1, <2>2, <2>3, <2>4 DEF Init, TypeOK
<1>3. RefreshInv
  BY <1>1, Constants DEF Init, RefreshInv, NoParts
<1>4. LagInv /\ ScheduleInv /\ PageInv
  BY <1>1, Constants DEF Init, LagInv, ScheduleInv, PageInv
<1>5. QED
  BY <1>2, <1>3, <1>4 DEF CacheInv

LEMMA BeginKeeps == ASSUME CacheInv, Begin PROVE CacheInv'
<1>1. stage' = 1 /\ 1 \in 0..(Len(Calls) + 1) /\ stage # Len(Calls) + 1
  BY Constants DEF Begin
<1>2. TypeOK'
  BY <1>1 DEF CacheInv, TypeOK, Begin
<1>3. elapsed = 0 /\ reply = None /\ got = NoParts
  BY DEF CacheInv, RefreshInv, Begin
<1>4. RefreshInv'
  BY <1>1, <1>3, Constants DEF Begin, RefreshInv, NoParts
<1>5. LagInv' /\ PageInv'
  BY DEF CacheInv, LagInv, PageInv, Begin
<1>6. ScheduleInv'
  <2>1. TakenBy(1, 0) = 0
    BY Constants DEF TakenBy
  <2>2. data # None => pending
    BY DEF CacheInv, ScheduleInv, Begin, RefreshDue
  <2>3. data # None /\ ~failed => data.age <= Poll
    BY <2>2 DEF CacheInv, ScheduleInv, Begin
  <2>4. data # None => data.age \in Nat
    BY DEF CacheInv, TypeOK, Snapshot
  <2>5. QED
    BY <1>3, <2>1, <2>3, <2>4, Constants DEF CacheInv, ScheduleInv, Begin
<1>7. QED
  BY <1>2, <1>4, <1>5, <1>6 DEF CacheInv

\* The end of a refresh leaves nothing of it.
LEMMA EndedRefresh ==
    ASSUME CacheInv, EndRefresh
    PROVE  /\ stage' \in 0..(Len(Calls) + 1) /\ elapsed' \in 0..CallTime
           /\ reply' \in Reading \cup {None} /\ got' \in [Parts -> Reading \cup {None}]
           /\ phase' \in {"starting", "serving"} /\ meta' \in Versions
           /\ ticker' \in 0..Poll /\ ticker' >= 1
           /\ RefreshInv'
<1>1. stage' = 0 /\ elapsed' = 0 /\ reply' = None /\ got' = NoParts /\ meta' = meta
  BY DEF EndRefresh
<1>2. RefreshInv'
  BY <1>1, Constants DEF RefreshInv, NoParts
<1>3. ticker' \in 0..Poll /\ ticker' >= 1
  BY Constants DEF EndRefresh, CacheInv, TypeOK, ScheduleInv
<1>4. QED
  BY <1>1, <1>2, <1>3, Constants DEF EndRefresh, CacheInv, TypeOK, NoParts

LEMMA MetadataFailsKeeps == ASSUME CacheInv, MetadataFails PROVE CacheInv'
<1>1. EndRefresh /\ phase' = "serving"
  BY DEF MetadataFails, EndRefresh
<1>2. TypeOK'
  BY <1>1, EndedRefresh DEF MetadataFails, CacheInv, TypeOK
<1>3. LagInv' /\ PageInv'
  BY DEF CacheInv, LagInv, PageInv, MetadataFails
<1>4. ScheduleInv'
  BY <1>1, EndedRefresh DEF ScheduleInv, MetadataFails
<1>5. QED
  BY <1>1, <1>2, <1>3, <1>4, EndedRefresh DEF CacheInv

LEMMA CallFailsKeeps == ASSUME CacheInv, CallFails PROVE CacheInv'
<1>1. EndRefresh /\ phase' = "serving"
  BY DEF CallFails, EndRefresh
<1>2. TypeOK'
  BY <1>1, EndedRefresh DEF CallFails, CacheInv, TypeOK
<1>3. LagInv' /\ PageInv'
  BY DEF CacheInv, LagInv, PageInv, CallFails
<1>4. ScheduleInv'
  BY <1>1, EndedRefresh DEF ScheduleInv, CallFails
<1>5. QED
  BY <1>1, <1>2, <1>3, <1>4, EndedRefresh DEF CacheInv

LEMMA PublishKeeps == ASSUME CacheInv, Publish PROVE CacheInv'
<1>1. EndRefresh /\ phase' = "serving" /\ pending' = pending /\ failed' = FALSE
  BY DEF Publish, EndRefresh
<1>2. ASSUME NEW p \in Parts PROVE got[p] \in Reading /\ got[p].age <= Span
  <2>1. PICK k \in DOMAIN Calls : Calls[k] = p
    BY PartIsACall
  <2>2. k < stage
    BY <2>1, Constants DEF Publish
  <2>3. got[p] # None
    BY <2>1, <2>2 DEF CacheInv, RefreshInv
  <2>4. got[p] \in Reading
    BY <2>3 DEF CacheInv, TypeOK
  <2>5. stage # 0
    BY Constants DEF Publish
  <2>6. got[p].age <= TakenBy(stage, elapsed)
    BY <2>3 DEF CacheInv, RefreshInv
  <2>7. QED
    BY <2>4, <2>5, <2>6, TimeTaken, Constants DEF Reading
<1>3. data' = [age |-> 0, value |-> [p \in Parts |-> got[p].value],
               lag |-> [p \in Parts |-> got[p].age], meta |-> meta]
  BY DEF Publish
<1>4. data' \in Snapshot
  <2>1. [p \in Parts |-> got[p].value] \in [Parts -> Values]
    BY <1>2 DEF Reading
  <2>2. [p \in Parts |-> got[p].age] \in [Parts -> 0..AgeCap]
    BY <1>2 DEF Reading
  <2>3. meta \in Versions /\ 0 \in 0..AgeCap
    BY Constants DEF CacheInv, TypeOK
  <2>4. QED
    BY <1>3, <2>1, <2>2, <2>3 DEF Snapshot
<1>5. TypeOK'
  BY <1>1, <1>4, EndedRefresh DEF Publish, CacheInv, TypeOK
<1>6. LagInv'
  BY <1>2, <1>3 DEF LagInv
<1>7. ScheduleInv'
  <2>1. data'.age = 0 /\ stage' = 0
    BY <1>1, <1>3 DEF EndRefresh
  <2>2. ticker' \in 0..Poll /\ ticker' >= 1
    BY <1>1, EndedRefresh
  <2>3. data'.age + ticker' <= Poll /\ data'.age <= Poll
    BY <2>1, <2>2, CacheAssumption
  <2>4. QED
    BY <1>1, <2>1, <2>2, <2>3 DEF ScheduleInv
<1>8. PageInv'
  BY DEF CacheInv, PageInv, Publish
<1>9. QED
  BY <1>1, <1>5, <1>6, <1>7, <1>8, EndedRefresh DEF CacheInv

\* What an upstream answers with is a reading, and no older than it can be.
LEMMA AnswerIsAReading ==
    ASSUME CacheInv, CarriesData
    PROVE  Answer \in Reading /\ Answer # None /\ Answer.age = 0
<1>1. upstream[Calls[stage]] \in Values
  BY DEF CacheInv, TypeOK, CarriesData
<1>2. 0 \in 0..AgeCap /\ 0 \in Nat
  BY Constants
<1>3. QED
  BY <1>1, <1>2, CacheAssumption DEF Answer, Reading

LEMMA ReadKeeps == ASSUME CacheInv, Read PROVE CacheInv'
<1>1. reply' \in Reading /\ reply'.age = 0
  BY AnswerIsAReading DEF Read
<1>2. TypeOK'
  BY <1>1 DEF CacheInv, TypeOK, Read, timerVars
<1>3. RefreshInv'
  <2>1. stage \in 1..Len(Calls) /\ stage # Len(Calls) + 1 /\ stage # 0
    BY Constants DEF Read, CarriesData, InCall
  <2>2. reply'.age <= elapsed
    BY <1>1 DEF CacheInv, TypeOK
  <2>3. QED
    BY <2>1, <2>2 DEF CacheInv, RefreshInv, Read
<1>4. LagInv' /\ PageInv'
  BY DEF CacheInv, LagInv, PageInv, Read
<1>5. ScheduleInv'
  BY DEF CacheInv, ScheduleInv, Read, timerVars
<1>6. QED
  BY <1>2, <1>3, <1>4, <1>5 DEF CacheInv

LEMMA ReceiveKeeps == ASSUME CacheInv, Receive PROVE CacheInv'
<1> DEFINE now == TakenBy(stage, elapsed)
           next == TakenBy(stage + 1, 0)
<1>1. /\ stage \in 1..Len(Calls) /\ stage + 1 # 0 /\ stage + 1 \in 0..(Len(Calls) + 1)
      /\ stage \in DOMAIN Calls
  BY Constants DEF Receive, InCall
<1>2. now \in Nat /\ next \in Nat /\ now <= next /\ elapsed <= now
  <2>1. stage # 0 /\ InCall
    BY <1>1 DEF Receive
  <2>2. now \in Nat /\ now <= next /\ elapsed <= now
    BY <2>1, TimeTaken
  <2>3. next = stage * CallTime
    BY <1>1, Constants DEF TakenBy
  <2>4. QED
    BY <1>1, <2>2, <2>3, Constants
<1>3. stage' = stage + 1 /\ elapsed' = 0 /\ reply' = None /\ TakenBy(stage, elapsed)' = next
  BY DEF Receive
<1>4. ASSUME CarriesData
      PROVE  \E x \in Reading : x # None /\ x.age <= now /\ got' = [got EXCEPT ![Calls[stage]] = x]
  <2>1. CASE reply = None
    <3>1. Answer \in Reading /\ Answer # None /\ Answer.age = 0
      BY <1>4, AnswerIsAReading
    <3>2. Answer.age <= now
      BY <1>2, <3>1
    <3>3. got' = [got EXCEPT ![Calls[stage]] = Answer]
      BY <1>4, <2>1 DEF Receive
    <3>4. QED
      BY <3>1, <3>2, <3>3
  <2>2. CASE reply # None
    <3>1. reply \in Reading /\ reply.age <= elapsed
      BY <2>2 DEF CacheInv, TypeOK, RefreshInv
    <3>2. reply.age \in Nat /\ elapsed \in Nat
      BY <3>1, Constants DEF Reading, CacheInv, TypeOK
    <3>3. reply.age <= now
      BY <1>2, <3>1, <3>2
    <3>4. QED
      BY <1>4, <2>2, <3>1, <3>3 DEF Receive
  <2>3. QED
    BY <2>1, <2>2
<1>5. got \in [Parts -> Reading \cup {None}]
  BY DEF CacheInv, TypeOK
<1>6. got' \in [Parts -> Reading \cup {None}]
  BY <1>4, <1>5 DEF Receive
<1>7. TypeOK'
  BY <1>1, <1>3, <1>6, Constants DEF CacheInv, TypeOK, Receive, timerVars
<1>8. ASSUME NEW k \in DOMAIN Calls, k < stage + 1, Calls[k] \in Parts
      PROVE  got'[Calls[k]] # None
  <2>1. CASE k = stage
    BY <1>4, <1>5, <1>8, <2>1 DEF CarriesData, Receive
  <2>2. CASE k # stage
    <3>1. k < stage
      BY <1>1, <1>8, <2>2, Constants
    <3>2. got[Calls[k]] # None
      BY <1>8, <3>1 DEF CacheInv, RefreshInv
    <3>3. QED
      BY <1>4, <1>5, <1>8, <3>2 DEF Receive
  <2>3. QED
    BY <2>1, <2>2
<1>9. ASSUME NEW p \in Parts, got'[p] # None
      PROVE  got'[p].age <= next
  <2>1. ASSUME got'[p] = got[p]
        PROVE  got'[p].age <= next
    <3>1. got[p] \in Reading /\ got[p].age <= now
      BY <1>9, <2>1 DEF CacheInv, TypeOK, RefreshInv
    <3>2. got[p].age \in Nat
      BY <3>1, Constants DEF Reading
    <3>3. QED
      BY <1>2, <2>1, <3>1, <3>2
  <2>2. CASE CarriesData
    <3>1. PICK x \in Reading : x.age <= now /\ got' = [got EXCEPT ![Calls[stage]] = x]
      BY <1>4, <2>2
    <3>2. x.age \in Nat
      BY Constants DEF Reading
    <3>3. x.age <= next
      BY <1>2, <3>1, <3>2
    <3>4. QED
      BY <1>5, <2>1, <3>1, <3>3
  <2>3. CASE ~CarriesData
    BY <2>1, <2>3 DEF Receive
  <2>4. QED
    BY <2>2, <2>3
<1>10. RefreshInv'
  <2>1. stage' # 0 /\ elapsed' = 0 /\ reply' = None
    BY <1>1, <1>3
  <2>2. QED
    BY <1>3, <1>8, <1>9, <2>1 DEF RefreshInv
<1>11. LagInv' /\ PageInv'
  BY DEF CacheInv, LagInv, PageInv, Receive
<1>12. ScheduleInv'
  <2>1. stage' # 0 /\ stage # 0
    BY <1>1, <1>3
  <2>2. data # None /\ ~failed => data.age <= Poll + next
    <3>1. data # None => data.age \in Nat
      BY Constants DEF CacheInv, TypeOK, Snapshot
    <3>2. data # None /\ ~failed => data.age <= Poll + now
      BY <2>1 DEF CacheInv, ScheduleInv
    <3>3. QED
      BY <1>2, <3>1, <3>2, CacheAssumption
  <2>3. QED
    BY <1>3, <2>1, <2>2 DEF CacheInv, ScheduleInv, Receive, timerVars
<1>13. QED
  BY <1>7, <1>10, <1>11, <1>12 DEF CacheInv

LEMMA OpenKeeps == ASSUME CacheInv, NEW r \in Requests, Open(r) PROVE CacheInv'
<1> DEFINE opened == [meta |-> data.meta, floor |-> saved, shown |-> None]
<1>1. opened \in Page
  BY DEF Open, CacheInv, TypeOK, Snapshot, Page
<1>2. page \in [Requests -> Page \cup {None}] /\ page' = [page EXCEPT ![r] = opened]
  BY DEF Open, CacheInv, TypeOK
<1>3. TypeOK'
  BY <1>1, <1>2 DEF CacheInv, TypeOK, Open, refreshVars, timerVars
<1>4. RefreshInv' /\ LagInv' /\ ScheduleInv'
  BY DEF CacheInv, RefreshInv, LagInv, ScheduleInv, Open, refreshVars, timerVars
<1>5. PageInv'
  <2>1. saved' = saved /\ saved \in Nat
    BY CacheAssumption DEF Open, CacheInv, TypeOK, Versions
  <2>2. ASSUME NEW q \in Requests, page'[q] # None
        PROVE  /\ page'[q].floor <= saved
               /\ Editing /\ page'[q].shown # None => page'[q].shown >= page'[q].floor
    <3>1. CASE q = r
      BY <1>2, <2>1, <3>1
    <3>2. CASE q # r
      BY <1>2, <2>2, <3>2 DEF CacheInv, PageInv
    <3>3. QED
      BY <3>1, <3>2
  <2>3. QED
    BY <2>1, <2>2 DEF PageInv
<1>6. QED
  BY <1>3, <1>4, <1>5 DEF CacheInv

LEMMA ShowKeeps == ASSUME CacheInv, NEW r \in Requests, Show(r) PROVE CacheInv'
<1> DEFINE seen == RequestData(page[r].meta)
<1>1. page \in [Requests -> Page \cup {None}] /\ page[r] # None /\ page[r] \in Page
  BY DEF Show, UnderWay, CacheInv, TypeOK
<1>2. seen \in Versions
  BY <1>1 DEF RequestData, CacheInv, TypeOK, Page
<1>3. page' = [page EXCEPT ![r] = [page[r] EXCEPT !.shown = seen]]
  BY DEF Show
<1>4. [page[r] EXCEPT !.shown = seen] \in Page
  BY <1>1, <1>2 DEF Page
<1>5. TypeOK'
  BY <1>1, <1>3, <1>4 DEF CacheInv, TypeOK, Show, refreshVars, timerVars
<1>6. RefreshInv' /\ LagInv' /\ ScheduleInv'
  BY DEF CacheInv, RefreshInv, LagInv, ScheduleInv, Show, refreshVars, timerVars
<1>7. PageInv'
  <2>1. saved' = saved /\ saved \in Nat
    BY CacheAssumption DEF Show, CacheInv, TypeOK, Versions
  <2>2. ASSUME NEW q \in Requests, page'[q] # None
        PROVE  /\ page'[q].floor <= saved
               /\ Editing /\ page'[q].shown # None => page'[q].shown >= page'[q].floor
    <3>1. CASE q = r
      <4>1. page'[q].floor = page[r].floor /\ page'[q].shown = seen
        BY <1>1, <1>3, <3>1 DEF Page
      <4>2. page[r].floor <= saved /\ page[r].floor \in Nat
        BY <1>1, CacheAssumption DEF CacheInv, PageInv, Page, Versions
      <4>3. Editing => seen = saved
        BY DEF RequestData
      <4>4. QED
        BY <2>1, <4>1, <4>2, <4>3
    <3>2. CASE q # r
      BY <1>1, <1>3, <2>2, <3>2 DEF CacheInv, PageInv
    <3>3. QED
      BY <3>1, <3>2
  <2>3. QED
    BY <2>1, <2>2 DEF PageInv
<1>8. QED
  BY <1>5, <1>6, <1>7 DEF CacheInv

LEMMA UpstreamChangesKeeps ==
    ASSUME CacheInv, NEW p \in Changing, NEW v \in Values, UpstreamChanges(p, v)
    PROVE  CacheInv'
<1>1. TypeOK'
  BY DEF CacheInv, TypeOK, UpstreamChanges, refreshVars, timerVars
<1>2. RefreshInv' /\ LagInv' /\ ScheduleInv' /\ PageInv'
  BY DEF CacheInv, RefreshInv, LagInv, ScheduleInv, PageInv, UpstreamChanges, refreshVars, timerVars
<1>3. QED
  BY <1>1, <1>2 DEF CacheInv

LEMMA SavedKeeps == ASSUME CacheInv, Saved PROVE CacheInv'
<1>1. saved \in Nat /\ saved' = saved + 1 /\ saved' \in Versions
  BY CacheAssumption DEF CacheInv, TypeOK, Versions, Saved
<1>2. TypeOK'
  BY <1>1 DEF CacheInv, TypeOK, Saved, refreshVars, timerVars
<1>3. RefreshInv' /\ LagInv' /\ ScheduleInv'
  BY DEF CacheInv, RefreshInv, LagInv, ScheduleInv, Saved, refreshVars, timerVars
<1>4. PageInv'
  <2>1. ASSUME NEW r \in Requests, page[r] # None
        PROVE  page[r].floor \in Nat /\ page[r].floor <= saved
    BY <2>1, CacheAssumption DEF CacheInv, TypeOK, PageInv, Page, Versions
  <2>2. ASSUME NEW r \in Requests, page[r] # None
        PROVE  page[r].floor <= saved'
    BY <1>1, <2>1, <2>2
  <2>3. page' = page
    BY DEF Saved
  <2>4. QED
    BY <2>2, <2>3 DEF CacheInv, PageInv
<1>5. QED
  BY <1>2, <1>3, <1>4 DEF CacheInv

LEMMA RestartKeeps == ASSUME CacheInv, Restart PROVE CacheInv'
<1>1. TypeOK'
  <2>1. stage' \in 0..(Len(Calls) + 1) /\ elapsed' \in 0..CallTime /\ ticker' \in 0..Poll
    BY Constants DEF Restart
  <2>2. meta' \in Versions
    BY CacheAssumption DEF Restart, Versions
  <2>3. got' \in [Parts -> Reading \cup {None}] /\ page' \in [Requests -> Page \cup {None}]
    BY DEF Restart, NoParts
  <2>4. QED
    BY <2>1, <2>2, <2>3 DEF CacheInv, TypeOK, Restart
<1>2. RefreshInv'
  BY Constants DEF Restart, RefreshInv, NoParts
<1>3. LagInv' /\ ScheduleInv' /\ PageInv'
  BY Constants DEF Restart, LagInv, ScheduleInv, PageInv
<1>4. QED
  BY <1>1, <1>2, <1>3 DEF CacheInv

\* When time may pass, no refresh is due and the call under way has time left.
LEMMA TimeMayPass ==
    ASSUME CacheInv, Tick
    PROVE  /\ InCall => elapsed < CallTime /\ stage # 0
           /\ ~InCall => stage = 0 /\ phase = "serving" /\ ~pending
<1>1. stage \in 0..(Len(Calls) + 1) /\ elapsed \in 0..CallTime
  BY DEF CacheInv, TypeOK
<1>2. stage # Len(Calls) + 1 /\ elapsed # CallTime /\ ~(stage = 0 /\ RefreshDue)
  BY DEF Tick, Urgent
<1>3. InCall => elapsed < CallTime /\ stage # 0
  BY <1>1, <1>2, Constants DEF InCall
<1>4. ~InCall => stage = 0
  BY <1>1, <1>2, Constants DEF InCall
<1>5. phase \in {"starting", "serving"}
  BY DEF CacheInv, TypeOK
<1>6. QED
  BY <1>2, <1>3, <1>4, <1>5 DEF RefreshDue

LEMMA TickKeeps == ASSUME CacheInv, Tick PROVE CacheInv'
<1> DEFINE now == TakenBy(stage, elapsed)
<1>1. /\ stage \in 0..(Len(Calls) + 1) /\ elapsed \in 0..CallTime
      /\ reply \in Reading \cup {None} /\ got \in [Parts -> Reading \cup {None}]
      /\ data \in Snapshot \cup {None} /\ ticker \in 0..Poll /\ ticker >= 1
      /\ phase \in {"starting", "serving"} /\ pending \in BOOLEAN
  BY DEF CacheInv, TypeOK, ScheduleInv
<1>2. stage' = stage /\ phase' = phase /\ failed' = failed /\ page' = page /\ saved' = saved
  BY DEF Tick
<1>3. elapsed' \in 0..CallTime /\ (InCall => elapsed' = elapsed + 1) /\ (~InCall => elapsed' = elapsed)
  BY <1>1, TimeMayPass, CacheAssumption DEF Tick
<1>4. reply' \in Reading \cup {None} /\ (reply' # None => reply # None /\ reply'.age <= reply.age + 1)
  <2>1. CASE reply = None
    BY <2>1 DEF Tick
  <2>2. CASE reply # None
    BY <1>1, <2>2, OlderReading DEF Tick
  <2>3. QED
    BY <2>1, <2>2
<1>6. ASSUME NEW p \in Parts
      PROVE  /\ got'[p] \in Reading \cup {None}
             /\ got[p] # None => got'[p] # None
             /\ got'[p] # None => got[p] \in Reading /\ got[p] # None /\ got'[p].age <= got[p].age + 1
  <2>1. CASE got[p] = None
    BY <2>1 DEF Tick
  <2>2. CASE got[p] # None
    <3>1. got[p] \in Reading /\ got'[p] = [got[p] EXCEPT !.age = Older(@)]
      BY <1>1, <2>2 DEF Tick
    <3>2. got'[p] \in Reading /\ got'[p].age <= got[p].age + 1
      BY <3>1, OlderReading
    <3>3. got'[p] # None
      BY <3>2, Constants, CacheAssumption DEF Reading
    <3>4. QED
      BY <2>2, <3>1, <3>2, <3>3
  <2>3. QED
    BY <2>1, <2>2
<1>7. got' \in [Parts -> Reading \cup {None}]
  BY <1>6 DEF Tick
<1>8. /\ data' \in Snapshot \cup {None}
      /\ data' # None => /\ data # None /\ data \in Snapshot
                        /\ data'.lag = data.lag
                        /\ data'.age \in Nat /\ data'.age <= data.age + 1
  <2>1. CASE data = None
    BY <2>1 DEF Tick
  <2>2. CASE data # None
    <3>1. data \in Snapshot /\ data' = [data EXCEPT !.age = Older(@)]
      BY <1>1, <2>2 DEF Tick
    <3>2. Older(data.age) \in 0..AgeCap /\ Older(data.age) <= data.age + 1
      BY <3>1, OlderAge DEF Snapshot
    <3>3. data' \in Snapshot /\ data'.lag = data.lag /\ data'.age = Older(data.age)
      BY <3>1, <3>2 DEF Snapshot
    <3>4. QED
      BY <2>2, <3>1, <3>2, <3>3, Constants
  <2>3. QED
    BY <2>1, <2>2
<1>9. ticker' \in 0..Poll /\ ticker' >= 1 /\ pending' \in BOOLEAN
  <2>1. CASE phase = "serving"
    <3>1. ticker' = (IF ticker = 1 THEN Poll ELSE ticker - 1)
      BY <2>1 DEF Tick
    <3>2. ticker' \in 0..Poll /\ ticker' >= 1
      BY <1>1, <3>1, CacheAssumption
    <3>3. pending' = (pending \/ ticker = 1)
      BY <2>1 DEF Tick
    <3>4. pending' \in BOOLEAN
      BY <3>3
    <3>5. QED
      BY <3>2, <3>4
  <2>2. CASE phase # "serving"
    BY <1>1, <2>2 DEF Tick
  <2>3. QED
    BY <2>1, <2>2
<1>10. TypeOK'
  BY <1>1, <1>2, <1>3, <1>4, <1>7, <1>8, <1>9 DEF CacheInv, TypeOK, Tick
<1>11. InCall => now \in Nat /\ TakenBy(stage, elapsed)' = now + 1 /\ stage # 0
  BY <1>2, <1>3, TimeMayPass, TimeTaken
<1>12. RefreshInv'
  <2>1. CASE InCall
    <3>1. stage # 0 /\ stage # Len(Calls) + 1
      BY <2>1, Constants DEF InCall
    <3>2. reply' # None => reply'.age <= elapsed'
      <4>1. SUFFICES ASSUME reply' # None PROVE reply'.age <= elapsed'
        OBVIOUS
      <4>2. reply' \in Reading /\ reply \in Reading /\ reply'.age <= reply.age + 1
        BY <1>1, <1>4, <4>1
      <4>3. reply.age \in Nat /\ reply'.age \in Nat
        BY <4>2, Constants DEF Reading
      <4>4. reply.age <= elapsed
        BY <1>4, <4>1 DEF CacheInv, RefreshInv
      <4>5. QED
        BY <1>1, <1>3, <2>1, <4>2, <4>3, <4>4, CacheAssumption
    <3>3. ASSUME NEW p \in Parts, got'[p] # None PROVE got'[p].age <= TakenBy(stage, elapsed)'
      <4>1. got'[p] \in Reading /\ got[p] \in Reading /\ got'[p].age <= got[p].age + 1
        BY <1>6, <3>3
      <4>2. got[p].age \in Nat /\ got'[p].age \in Nat
        BY <4>1, Constants DEF Reading
      <4>3. got[p].age <= now
        BY <1>6, <3>3 DEF CacheInv, RefreshInv
      <4>4. QED
        BY <1>11, <2>1, <4>1, <4>2, <4>3
    <3>4. QED
      BY <1>2, <1>6, <3>1, <3>2, <3>3 DEF CacheInv, RefreshInv
  <2>2. CASE ~InCall
    <3>1. stage = 0 /\ stage' = 0 /\ 0 # Len(Calls) + 1
      BY <1>2, <2>2, TimeMayPass, Constants
    <3>2. elapsed = 0 /\ reply = None /\ got = NoParts
      BY <3>1 DEF CacheInv, RefreshInv
    <3>3. elapsed' = 0 /\ reply' = None /\ got' = NoParts
      BY <1>3, <2>2, <3>2 DEF Tick, NoParts
    <3>4. QED
      BY <3>1, <3>3, Constants DEF RefreshInv, NoParts
  <2>3. QED
    BY <2>1, <2>2
<1>13. LagInv'
  BY <1>8, CacheAssumption DEF CacheInv, LagInv
<1>14. ScheduleInv'
  <2>1. data' # None => phase' = "serving"
    BY <1>2, <1>8 DEF CacheInv, ScheduleInv
  <2>2. ASSUME data' # None, ~failed'
        PROVE  /\ stage' = 0 /\ ~pending' => data'.age + ticker' <= Poll
               /\ stage' = 0 /\ pending'  => data'.age <= Poll
               /\ stage' # 0 => data'.age <= Poll + TakenBy(stage, elapsed)'
    <3>1. data # None /\ ~failed /\ data'.age \in Nat /\ data.age \in Nat /\ data'.age <= data.age + 1
      BY <1>2, <1>8, <2>2, Constants DEF Snapshot
    <3>2. phase = "serving"
      BY <3>1 DEF CacheInv, ScheduleInv
    <3>3. /\ ticker' = IF ticker = 1 THEN Poll ELSE ticker - 1
          /\ pending' = (pending \/ ticker = 1)
      BY <3>2 DEF Tick
    <3>4. CASE InCall
      <4>1. stage' # 0
        BY <1>2, <1>11, <3>4
      <4>2. data.age <= Poll + now
        BY <1>2, <3>1, <4>1 DEF CacheInv, ScheduleInv
      <4>3. data'.age <= Poll + TakenBy(stage, elapsed)'
        BY <1>11, <3>1, <3>4, <4>2, CacheAssumption
      <4>4. QED
        BY <4>1, <4>3
    <3>5. CASE ~InCall
      <4>1. stage = 0 /\ stage' = 0 /\ ~pending
        BY <1>2, <3>5, TimeMayPass
      <4>2. data.age + ticker <= Poll
        BY <3>1, <4>1 DEF CacheInv, ScheduleInv
      <4>3. CASE ticker = 1
        <5>1. pending'
          BY <3>3, <4>3
        <5>2. data'.age <= Poll
          BY <3>1, <4>2, <4>3, CacheAssumption
        <5>3. QED
          BY <4>1, <5>1, <5>2
      <4>4. CASE ticker # 1
        <5>1. ~pending' /\ ticker' = ticker - 1
          BY <3>3, <4>1, <4>4
        <5>2. data'.age + ticker' <= Poll
          BY <1>1, <3>1, <4>2, <5>1, CacheAssumption
        <5>3. QED
          BY <4>1, <5>1, <5>2
      <4>5. QED
        BY <4>3, <4>4
    <3>6. QED
      BY <3>4, <3>5
  <2>3. QED
    BY <1>9, <2>1, <2>2 DEF ScheduleInv
<1>15. PageInv'
  BY <1>2 DEF CacheInv, PageInv
<1>16. QED
  BY <1>10, <1>12, <1>13, <1>14, <1>15 DEF CacheInv

LEMMA StutterKeeps == ASSUME CacheInv, UNCHANGED vars PROVE CacheInv'
<1>1. TypeOK'
  BY DEF CacheInv, TypeOK, vars, refreshVars, timerVars
<1>2. RefreshInv' /\ LagInv' /\ ScheduleInv' /\ PageInv'
  BY DEF CacheInv, RefreshInv, LagInv, ScheduleInv, PageInv, vars, refreshVars, timerVars
<1>3. QED
  BY <1>1, <1>2 DEF CacheInv

LEMMA StepKeepsCacheInv == CacheInv /\ [Next]_vars => CacheInv'
<1>1. SUFFICES ASSUME CacheInv, [Next]_vars PROVE CacheInv'
  OBVIOUS
<1>2. CASE Begin
  BY <1>1, <1>2, BeginKeeps
<1>3. CASE MetadataFails
  BY <1>1, <1>3, MetadataFailsKeeps
<1>4. CASE Read
  BY <1>1, <1>4, ReadKeeps
<1>5. CASE Receive
  BY <1>1, <1>5, ReceiveKeeps
<1>6. CASE CallFails
  BY <1>1, <1>6, CallFailsKeeps
<1>7. CASE Publish
  BY <1>1, <1>7, PublishKeeps
<1>8. CASE \E r \in Requests : Open(r) \/ Show(r)
  BY <1>1, <1>8, OpenKeeps, ShowKeeps
<1>9. CASE \E p \in Changing, v \in Values : UpstreamChanges(p, v)
  BY <1>1, <1>9, UpstreamChangesKeeps
<1>10. CASE Saved
  BY <1>1, <1>10, SavedKeeps
<1>11. CASE Restart
  BY <1>1, <1>11, RestartKeeps
<1>12. CASE Tick
  BY <1>1, <1>12, TickKeeps
<1>13. CASE UNCHANGED vars
  BY <1>1, <1>13, StutterKeeps
<1>14. QED
  BY <1>1, <1>2, <1>3, <1>4, <1>5, <1>6, <1>7, <1>8, <1>9, <1>10, <1>11, <1>12, <1>13 DEF Next

\* The inductive invariant of the snapshot cache.
THEOREM CacheInvHolds == Spec => []CacheInv
<1>1. QED
  BY InitCacheInv, StepKeepsCacheInv, PTL DEF Spec

-----------------------------------------------------------------------------
(* What it implies. *)

\* Every variable keeps its type: among others, what is published has every
\* part, for both control planes, whichever refreshes fail where.
THEOREM CacheTypes == Spec => []TypeOK
<1>1. CacheInv => TypeOK
  BY DEF CacheInv
<1>2. QED
  BY <1>1, CacheInvHolds, PTL

\* While /healthz says 200, nothing a page is decided on is older than three
\* intervals and one refresh: for every interval, timeout and number of calls.
THEOREM HealthyIsRecent == Spec => []HealthyMeansRecent
<1>1. CacheInv => HealthyMeansRecent
  <2>1. SUFFICES ASSUME CacheInv, Healthy, NEW p \in Parts
                 PROVE  data.age + data.lag[p] <= StaleAfter + Span
    BY DEF HealthyMeansRecent
  <2>2. data \in Snapshot /\ data.age <= StaleAfter /\ data.lag[p] <= Span
    BY <2>1 DEF Healthy, CacheInv, TypeOK, LagInv
  <2>3. data.age \in Nat /\ data.lag[p] \in Nat
    BY <2>2, Constants DEF Snapshot
  <2>4. StaleAfter \in Nat /\ Span \in Nat
    BY Constants
  <2>5. QED
    BY <2>2, <2>3, <2>4
<1>2. QED
  BY <1>1, CacheInvHolds, PTL

\* A warm process turns unhealthy only because a refresh failed, for every
\* interval that leaves a refresh two of the three intervals.
THEOREM StaleAfterFailure == Spec => []StaleMeansFailure
<1>1. CacheInv => StaleMeansFailure
  <2>1. SUFFICES ASSUME CacheInv, Span <= 2 * Poll, data # None, ~failed
                 PROVE  data.age <= StaleAfter
    BY DEF StaleMeansFailure, Healthy
  <2>2. data.age \in Nat /\ Poll \in Nat /\ Span \in Nat /\ StaleAfter = 3 * Poll
    BY <2>1, Constants DEF CacheInv, TypeOK, Snapshot
  <2>3. CASE stage = 0
    <3>1. data.age <= Poll \/ data.age + ticker <= Poll
      BY <2>1, <2>3 DEF CacheInv, ScheduleInv
    <3>2. ticker \in Nat
      BY <2>1, CacheAssumption DEF CacheInv, TypeOK
    <3>3. QED
      BY <2>2, <3>1, <3>2
  <2>4. CASE stage # 0
    <3>1. data.age <= Poll + TakenBy(stage, elapsed)
      BY <2>1, <2>4 DEF CacheInv, ScheduleInv
    <3>2. TakenBy(stage, elapsed) \in Nat /\ TakenBy(stage, elapsed) <= Span
      BY <2>1, <2>4, TimeTaken
    <3>3. QED
      BY <2>1, <2>2, <3>1, <3>2
  <2>5. QED
    BY <2>3, <2>4
<1>2. QED
  BY <1>1, CacheInvHolds, PTL

\* A page asked for after a confirmed save shows it, for any number of open
\* requests and whatever a poll publishes in between.
THEOREM ConfirmedSavesShown == Spec => []ConfirmedSavesAreShown
<1>1. CacheInv => ConfirmedSavesAreShown
  BY DEF CacheInv, PageInv, ConfirmedSavesAreShown
<1>2. QED
  BY <1>1, CacheInvHolds, PTL
=============================================================================
