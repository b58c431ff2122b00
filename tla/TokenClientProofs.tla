-------------------------- MODULE TokenClientProofs ---------------------------
(***************************************************************************)
(* Proofs about the access tokens of the upstream clients, for both        *)
(* clients and any number of callers and of tokens.                        *)
(***************************************************************************)
EXTENDS TokenClient, TLAPS

\* c.mu is with whoever authenticates, and an accepted token is the newest.
MutexInv == \A c \in Callers :
    /\ stage[c] \in {"authenticating", "granted"} => owner = c
    /\ granted[c] # None <=> stage[c] = "granted"
    /\ granted[c] # None => granted[c] = issued /\ (stored # None => stored < issued)

\* No token is used before it is issued, and a refused one stays refused.
OrderInv ==
    /\ stored # None => stored <= issued
    /\ valid \subseteq 1..issued
    /\ \A c \in Callers :
        /\ using[c] # None => using[c] <= issued
        /\ rejected[c] # None => rejected[c] <= issued /\ rejected[c] \notin valid

\* The token a call came with at first, and whether the server accepted a
\* token at some moment of the call.
First(c) == IF rejected[c] # None THEN rejected[c] ELSE using[c]
Recent(c, t) == t \in valid \/ c \in shaken

\* What a call finds stored after its first token is that token or a newer one
\* that was issued during the call.
CallInv(c) ==
    /\ stage[c] = "start" => rejected[c] = None /\ using[c] = None
    /\ stage[c] = "again" => rejected[c] # None
    /\ stage[c] = "sent"  => using[c] # None
    /\ stage[c] = "ready" => stored # None /\ (rejected[c] # None => rejected[c] < stored)
    /\ stage[c] = "refused" => c \in shaken
    /\ stage[c] = "sent" /\ rejected[c] # None => Recent(c, using[c])
    /\ stage[c] \notin Ended /\ First(c) # None =>
        /\ stored # None /\ First(c) <= stored
        /\ stored # First(c) => Recent(c, stored)
        /\ \A d \in Callers : granted[d] # None => Recent(c, granted[d])

\* A token nobody could go on with.
Outdated(t) == t \notin valid \/ t \in expiring \/ t \in spent

\* Whoever authenticates has found the stored token outdated; the newest token
\* is stored, on its way or outdated.
RenewalInv ==
    provider = "tailscale" =>
        /\ \A t \in Tokens : t < issued => Outdated(t)
        /\ issued # 0 => stored = issued \/ (\E c \in Callers : granted[c] = issued) \/ Outdated(issued)
        /\ \A c \in Callers : stage[c] = "authenticating" /\ stored # None => Outdated(stored)

CallsInv == \A c \in Callers : CallInv(c)
TokenInv == TypeOK /\ MutexInv /\ OrderInv /\ CallsInv /\ RenewalInv

-----------------------------------------------------------------------------
(* Facts every action needs. *)

LEMMA Typing ==
    ASSUME TypeOK
    PROVE  /\ issued \in Nat /\ MaxTokens \in Nat /\ None \notin Nat /\ None \notin Tokens
           /\ stored \in Tokens \cup {None}
           /\ \A t \in Tokens : t \in Nat /\ t >= 1
           /\ \A c \in Callers : /\ c # None /\ stage[c] \in Stages
                               /\ using[c] \in Tokens \cup {None}
                               /\ rejected[c] \in Tokens \cup {None}
                               /\ granted[c] \in Tokens \cup {None}
BY TokenAssumption DEF TypeOK, Tokens

\* While c.mu is free, no token is on its way to be stored.
LEMMA FreeMutex ==
    ASSUME TokenInv, MutexFree
    PROVE  \A c \in Callers : /\ granted[c] = None
                            /\ stage[c] # "authenticating" /\ stage[c] # "granted"
BY Typing DEF TokenInv, MutexInv, MutexFree

\* Only its holder has a token on its way.
LEMMA OneGranted ==
    ASSUME TokenInv, NEW c \in Callers, stage[c] \in {"authenticating", "granted"}
    PROVE  /\ owner = c
           /\ \A d \in Callers \ {c} :
                /\ granted[d] = None
                /\ stage[d] # "authenticating" /\ stage[d] # "granted"
BY DEF TokenInv, MutexInv

\* What happens elsewhere leaves a call's part of the invariant alone, as long
\* as the stored token and those on their way stay recent for it.
LEMMA OtherCall ==
    ASSUME TokenInv, NEW c \in Callers,
           stage'[c] = stage[c], using'[c] = using[c], rejected'[c] = rejected[c],
           c \in shaken => c \in shaken',
           stage[c] \notin Ended => \A t \in valid : t \in valid' \/ c \in shaken',
           stored' = stored,
           \A d \in Callers : granted'[d] # None => granted'[d] = granted[d] \/ granted'[d] \in valid'
    PROVE  CallInv(c)'
<1>1. CallInv(c)
  BY DEF TokenInv, CallsInv
<1>2. First(c)' = First(c)
  BY DEF First
<1>3. ASSUME NEW t, stage[c] \notin Ended, Recent(c, t)
      PROVE  t \in valid' \/ c \in shaken'
  BY <1>3 DEF Recent
<1>4. stage[c] = "sent" /\ rejected[c] # None => using'[c] \in valid' \/ c \in shaken'
  BY <1>1, <1>3 DEF CallInv, Ended
<1>5. stage[c] \notin Ended /\ First(c) # None =>
        /\ stored # None /\ First(c) <= stored
        /\ stored # First(c) => stored \in valid' \/ c \in shaken'
        /\ \A d \in Callers : granted'[d] # None => granted'[d] \in valid' \/ c \in shaken'
  BY <1>1, <1>3 DEF CallInv
<1>6. QED
  BY <1>1, <1>2, <1>4, <1>5 DEF CallInv, Recent

\* What is outdated stays so.
LEMMA OutdatedStays ==
    ASSUME valid' \subseteq valid \/ (TokenInv /\ valid' = valid \cup {issued + 1}),
           expiring \subseteq expiring', spent \subseteq spent',
           NEW t \in Tokens, t <= issued, Outdated(t)
    PROVE  Outdated(t)'
<1>1. CASE valid' \subseteq valid
  BY <1>1 DEF Outdated
<1>2. CASE TokenInv /\ valid' = valid \cup {issued + 1}
  <2>1. t # issued + 1
    BY <1>2, Typing DEF TokenInv
  <2>2. QED
    BY <1>2, <2>1 DEF Outdated
<1>3. QED
  BY <1>1, <1>2

LEMMA InitTokenInv == Init => TokenInv
<1>1. SUFFICES ASSUME Init PROVE TokenInv
  OBVIOUS
<1>2. TypeOK
  BY <1>1, TokenAssumption DEF Init, TypeOK, Tokens, Stages
<1>3. MutexInv /\ OrderInv
  BY <1>1 DEF Init, MutexInv, OrderInv
<1>4. CallsInv
  BY <1>1 DEF Init, CallsInv, CallInv, First, Ended
<1>5. RenewalInv
  BY <1>1, TokenAssumption DEF Init, RenewalInv, Tokens
<1>6. QED
  BY <1>2, <1>3, <1>4, <1>5 DEF TokenInv

-----------------------------------------------------------------------------
(* Every action preserves the invariant. *)

LEMMA BeginKeeps == ASSUME TokenInv, NEW c \in Callers, Begin(c) PROVE TokenInv'
<1>1. TypeOK'
  BY DEF TokenInv, TypeOK, Begin, Go, clientVars, Stages
<1>2. /\ stage' = [stage EXCEPT ![c] = "start"] /\ stage[c] \in Ended
      /\ using' = [using EXCEPT ![c] = None] /\ rejected' = [rejected EXCEPT ![c] = None]
      /\ stage \in [Callers -> Stages] /\ using \in [Callers -> Tokens \cup {None}]
      /\ rejected \in [Callers -> Tokens \cup {None}] /\ shaken' = shaken \ {c}
      /\ UNCHANGED <<provider, issued, valid, expiring, stored, owner, granted, spent>>
  BY DEF TokenInv, TypeOK, Begin, Go, clientVars
<1>3. MutexInv' /\ OrderInv' /\ RenewalInv'
  BY <1>2 DEF TokenInv, MutexInv, OrderInv, RenewalInv, Outdated, Ended
<1>4. ASSUME NEW d \in Callers PROVE CallInv(d)'
  <2>1. CASE d = c
    BY <1>2, <2>1 DEF CallInv, First
  <2>2. CASE d # c
    BY <1>2, <2>2, OtherCall
  <2>3. QED
    BY <2>1, <2>2
<1>5. QED
  BY <1>1, <1>3, <1>4 DEF TokenInv, CallsInv

LEMMA TakeStoredKeeps == ASSUME TokenInv, NEW c \in Callers, TakeStored(c) PROVE TokenInv'
<1>1. /\ stored \in Tokens /\ stored # None /\ stored <= issued
      /\ \A d \in Callers : granted[d] = None
  BY Typing, FreeMutex DEF TokenInv, OrderInv, TakeStored, Usable
<1>2. /\ stage \in [Callers -> Stages] /\ using \in [Callers -> Tokens \cup {None}]
      /\ stage[c] \in {"start", "again"}
      /\ UNCHANGED <<provider, issued, valid, expiring, stored, owner, rejected, granted, shaken, spent>>
  BY DEF TokenInv, TypeOK, TakeStored, clientVars, Wants
<1>3. \/ /\ provider = "tailscale"
         /\ stage' = [stage EXCEPT ![c] = "sent"] /\ using' = [using EXCEPT ![c] = stored]
         /\ stored # rejected[c]
      \/ /\ stage' = [stage EXCEPT ![c] = "ready"] /\ using' = using
         /\ stage[c] = "start"
  <2>1. provider = "tailscale" \/ provider = "npm"
    BY TokenAssumption DEF TokenInv, TypeOK
  <2>2. QED
    BY <2>1 DEF TakeStored, Usable, Go
<1>4. TypeOK'
  BY <1>1, <1>2, <1>3 DEF TokenInv, TypeOK, Stages
<1>5. MutexInv'
  BY <1>2, <1>3 DEF TokenInv, MutexInv
<1>6. OrderInv'
  BY <1>1, <1>2, <1>3 DEF TokenInv, OrderInv
<1>7. RenewalInv'
  BY <1>2, <1>3 DEF TokenInv, RenewalInv, Outdated
<1>8. ASSUME NEW d \in Callers PROVE CallInv(d)'
  <2>1. CASE d = c
    <3>1. CallInv(c) /\ stored \in Nat
      BY <1>1, Typing DEF TokenInv, CallsInv
    <3>2. CASE stage[c] = "start"
      BY <1>1, <1>2, <1>3, <2>1, <3>1, <3>2 DEF CallInv, First
    <3>3. CASE stage[c] = "again"
      <4>1. rejected[c] # None /\ stored # rejected[c] /\ First(c) = rejected[c] /\ First(c)' = First(c)
        BY <1>2, <1>3, <3>1, <3>3 DEF CallInv, First
      <4>2. Recent(c, stored) /\ First(c) <= stored
        BY <3>1, <3>3, <4>1 DEF CallInv, Ended
      <4>3. stage'[c] = "sent" /\ using'[c] = stored
        BY <1>2, <1>3, <3>3
      <4>4. QED
        BY <1>1, <1>2, <2>1, <4>1, <4>2, <4>3 DEF CallInv, Recent
    <3>4. QED
      BY <1>2, <3>2, <3>3
  <2>2. CASE d # c
    BY <1>2, <1>3, <2>2, OtherCall
  <2>3. QED
    BY <2>1, <2>2
<1>9. QED
  BY <1>4, <1>5, <1>6, <1>7, <1>8 DEF TokenInv, CallsInv

LEMMA AuthenticateKeeps == ASSUME TokenInv, NEW c \in Callers, Authenticate(c) PROVE TokenInv'
<1>1. /\ stage \in [Callers -> Stages] /\ stage' = [stage EXCEPT ![c] = "authenticating"]
      /\ stage[c] \in {"start", "again"} /\ owner' = c /\ owner = None
      /\ UNCHANGED <<provider, issued, valid, expiring, stored, using, rejected, granted, shaken, spent>>
  BY DEF TokenInv, TypeOK, Authenticate, Go, Wants, MutexFree
<1>2. TypeOK'
  BY <1>1 DEF TokenInv, TypeOK, Stages
<1>3. MutexInv'
  BY <1>1, FreeMutex DEF TokenInv, MutexInv, MutexFree
<1>4. OrderInv'
  BY <1>1 DEF TokenInv, OrderInv
<1>5. RenewalInv'
  <2>1. provider = "tailscale" /\ stored # None => Outdated(stored)
    BY DEF Authenticate, Usable, TokenInv, OrderInv, Outdated
  <2>2. QED
    BY <1>1, <2>1 DEF TokenInv, RenewalInv, Outdated
<1>6. ASSUME NEW d \in Callers PROVE CallInv(d)'
  <2>1. CASE d = c
    BY <1>1, <2>1 DEF TokenInv, CallsInv, CallInv, First, Recent, Ended
  <2>2. CASE d # c
    BY <1>1, <2>2, OtherCall
  <2>3. QED
    BY <2>1, <2>2
<1>7. QED
  BY <1>2, <1>3, <1>4, <1>5, <1>6 DEF TokenInv, CallsInv

LEMMA IssueKeeps == ASSUME TokenInv, NEW c \in Callers, Issue(c) PROVE TokenInv'
<1>1. /\ stage \in [Callers -> Stages] /\ granted \in [Callers -> Tokens \cup {None}]
      /\ stage[c] = "authenticating" /\ stage' = [stage EXCEPT ![c] = "granted"]
      /\ issued' = issued + 1 /\ issued' \in Tokens /\ issued \in Nat
      /\ valid' = valid \cup {issued + 1} /\ granted' = [granted EXCEPT ![c] = issued + 1]
      /\ UNCHANGED <<provider, expiring, stored, owner, using, rejected, shaken, spent>>
  BY TokenAssumption DEF TokenInv, TypeOK, Issue, Go, Tokens, clientVars
<1>2. owner = c /\ \A d \in Callers \ {c} : granted[d] = None
  BY <1>1, OneGranted
<1>3. TypeOK'
  <2>1. issued' \in 0..MaxTokens
    BY <1>1, Typing DEF TokenInv, Tokens
  <2>2. valid' \subseteq Tokens
    BY <1>1 DEF TokenInv, TypeOK
  <2>3. granted' \in [Callers -> Tokens \cup {None}] /\ stage' \in [Callers -> Stages]
    BY <1>1 DEF Stages
  <2>4. QED
    BY <1>1, <2>1, <2>2, <2>3 DEF TokenInv, TypeOK
<1>4. stored # None => stored \in Nat /\ stored <= issued
  BY Typing DEF TokenInv, OrderInv
<1>5. MutexInv'
  <2>1. stored # None => stored < issued + 1
    BY <1>1, <1>4
  <2>2. granted'[c] = issued + 1 /\ issued + 1 # None
    BY <1>1, Typing DEF TokenInv
  <2>3. QED
    BY <1>1, <1>2, <2>1, <2>2 DEF TokenInv, MutexInv
<1>6. OrderInv'
  <2>1. ASSUME NEW d \in Callers
        PROVE  /\ using[d] # None => using[d] <= issued + 1
               /\ rejected[d] # None => rejected[d] <= issued + 1 /\ rejected[d] \notin valid'
    <3>1. /\ using[d] # None => using[d] \in Nat /\ using[d] <= issued
          /\ rejected[d] # None => rejected[d] \in Nat /\ rejected[d] <= issued /\ rejected[d] \notin valid
      BY Typing DEF TokenInv, OrderInv
    <3>2. rejected[d] # None => rejected[d] # issued + 1
      BY <1>1, <3>1
    <3>3. rejected[d] # None => rejected[d] \notin valid'
      BY <1>1, <3>1, <3>2
    <3>4. QED
      BY <1>1, <3>1, <3>3
  <2>2. valid' \subseteq 1..(issued + 1)
    <3>1. valid \subseteq 1..issued
      BY DEF TokenInv, OrderInv
    <3>2. 1..issued \subseteq 1..(issued + 1) /\ issued + 1 \in 1..(issued + 1)
      BY <1>1
    <3>3. QED
      BY <1>1, <3>1, <3>2
  <2>3. stored # None => stored <= issued + 1
    BY <1>1, <1>4
  <2>4. QED
    BY <1>1, <2>1, <2>2, <2>3 DEF OrderInv
<1>7. RenewalInv'
  <2>1. SUFFICES ASSUME provider = "tailscale" PROVE RenewalInv'
    BY <1>1 DEF RenewalInv
  <2>2. ASSUME NEW t \in Tokens, t <= issued, Outdated(t) PROVE Outdated(t)'
    BY <1>1, <2>2, OutdatedStays
  <2>3. ASSUME NEW t \in Tokens, t < issued' PROVE Outdated(t)
    <3>1. t \in Nat /\ t <= issued
      BY <1>1, <2>3, Typing DEF TokenInv
    <3>2. CASE t < issued
      BY <2>1, <3>2 DEF TokenInv, RenewalInv
    <3>3. CASE t = issued
      <4>1. \A d \in Callers : granted[d] # issued
        BY <1>1, <1>2, Typing DEF TokenInv, MutexInv
      <4>2. t # 0
        BY Typing DEF TokenInv
      <4>3. QED
        BY <1>1, <2>1, <3>3, <4>1, <4>2, Typing DEF TokenInv, RenewalInv
    <3>4. QED
      BY <1>1, <3>1, <3>2, <3>3
  <2>4. \A t \in Tokens : t < issued' => Outdated(t)'
    <3>1. SUFFICES ASSUME NEW t \in Tokens, t < issued' PROVE Outdated(t)'
      OBVIOUS
    <3>2. t <= issued
      BY <1>1, <3>1, Typing DEF TokenInv
    <3>3. QED
      BY <2>2, <2>3, <3>1, <3>2
  <2>5. granted'[c] = issued'
    BY <1>1
  <2>6. \A d \in Callers : stage'[d] # "authenticating"
    BY <1>1, OneGranted
  <2>7. QED
    BY <2>4, <2>5, <2>6 DEF RenewalInv
<1>8. ASSUME NEW d \in Callers PROVE CallInv(d)'
  <2>1. \A e \in Callers : granted'[e] # None => granted'[e] = granted[e] \/ granted'[e] \in valid'
    BY <1>1
  <2>2. CASE d = c
    <3>1. CallInv(c)
      BY DEF TokenInv, CallsInv
    <3>2. First(c)' = First(c) /\ stage'[c] = "granted"
      BY <1>1 DEF First
    <3>3. \A e \in Callers : granted'[e] # None => granted'[e] \in valid'
      BY <1>1, <1>2
    <3>4. QED
      BY <1>1, <2>2, <3>1, <3>2, <3>3 DEF CallInv, Recent, Ended
  <2>3. CASE d # c
    BY <1>1, <2>1, <2>3, OtherCall
  <2>4. QED
    BY <2>2, <2>3
<1>9. QED
  BY <1>3, <1>5, <1>6, <1>7, <1>8 DEF TokenInv, CallsInv

LEMMA StoreKeeps == ASSUME TokenInv, NEW c \in Callers, Store(c) PROVE TokenInv'
<1>1. /\ stage \in [Callers -> Stages] /\ granted \in [Callers -> Tokens \cup {None}]
      /\ using \in [Callers -> Tokens \cup {None}]
      /\ stage[c] = "granted" /\ stored' = granted[c] /\ owner' = None
      /\ granted' = [granted EXCEPT ![c] = None]
      /\ UNCHANGED <<provider, issued, valid, expiring, rejected, shaken, spent>>
  BY DEF TokenInv, TypeOK, Store
<1>2. \/ /\ stage' = [stage EXCEPT ![c] = "sent"] /\ using' = [using EXCEPT ![c] = granted[c]]
      \/ stage' = [stage EXCEPT ![c] = "ready"] /\ using' = using
  BY DEF Store, Go
<1>3. /\ granted[c] \in Tokens /\ granted[c] # None /\ granted[c] = issued
      /\ stored # None => stored \in Nat /\ stored < issued
      /\ issued \in Nat
  BY <1>1, Typing DEF TokenInv, MutexInv
<1>4. \A d \in Callers \ {c} :
        granted[d] = None /\ stage[d] # "authenticating" /\ stage[d] # "granted"
  BY <1>1, OneGranted
<1>5. TypeOK'
  BY <1>1, <1>2, <1>3 DEF TokenInv, TypeOK, Stages
<1>6. MutexInv'
  BY <1>1, <1>2, <1>4 DEF MutexInv
<1>7. OrderInv'
  BY <1>1, <1>2, <1>3 DEF TokenInv, OrderInv
<1>8. RenewalInv'
  <2>1. stored' = issued' /\ \A d \in Callers : stage'[d] # "authenticating"
    BY <1>1, <1>2, <1>3, <1>4
  <2>2. QED
    BY <1>1, <2>1 DEF TokenInv, RenewalInv, Outdated
<1>9. ASSUME NEW d \in Callers PROVE CallInv(d)'
  <2>1. \A e \in Callers : granted'[e] = None
    BY <1>1, <1>4
  <2>2. CallInv(d)
    BY DEF TokenInv, CallsInv
  <2>3. stage[d] \notin Ended /\ First(d) # None =>
          /\ Recent(d, issued) /\ First(d) \in Nat /\ First(d) < issued
    <3>1. SUFFICES ASSUME stage[d] \notin Ended, First(d) # None
                   PROVE  Recent(d, issued) /\ First(d) \in Nat /\ First(d) < issued
      OBVIOUS
    <3>2. First(d) <= stored /\ stored # None /\ Recent(d, granted[c])
      BY <1>3, <2>2, <3>1 DEF CallInv
    <3>3. First(d) \in Nat
      BY <3>1, Typing DEF TokenInv, First
    <3>4. QED
      BY <1>3, <3>2, <3>3
  <2>4. CASE d = c
    <3>1. CASE rejected[c] # None
      <4>1. Recent(c, issued) /\ rejected[c] \in Nat /\ rejected[c] < issued
        BY <1>1, <2>3, <2>4, <3>1 DEF First, Ended
      <4>2. First(c)' = rejected[c]
        BY <1>1, <3>1 DEF First
      <4>3. QED
        BY <1>1, <1>2, <1>3, <2>1, <2>4, <4>1, <4>2 DEF CallInv, Recent
    <3>2. CASE rejected[c] = None
      <4>1. rejected'[c] = None /\ First(c)' = using'[c]
        BY <1>1, <3>2 DEF First
      <4>2. CASE using'[c] = granted[c] /\ stage'[c] = "sent"
        BY <1>1, <1>3, <2>1, <2>4, <4>1, <4>2 DEF CallInv, Recent
      <4>3. CASE using' = using /\ stage'[c] = "ready"
        <5>1. using[c] = First(c)
          BY <3>2 DEF First
        <5>2. using[c] # None => Recent(c, issued) /\ using[c] \in Nat /\ using[c] < issued
          BY <1>1, <2>3, <2>4, <5>1 DEF Ended
        <5>3. QED
          BY <1>1, <1>3, <2>1, <2>4, <4>1, <4>3, <5>2 DEF CallInv, Recent
      <4>4. QED
        BY <1>1, <1>2, <4>2, <4>3
    <3>3. QED
      BY <3>1, <3>2
  <2>5. CASE d # c
    <3>1. stage'[d] = stage[d] /\ using'[d] = using[d] /\ rejected'[d] = rejected[d]
      BY <1>1, <1>2, <2>5
    <3>2. First(d)' = First(d)
      BY <3>1 DEF First
    <3>3. stage[d] = "ready" /\ rejected[d] # None => rejected[d] < issued
      BY <2>3 DEF First, Ended
    <3>4. stage[d] \notin Ended /\ First(d) # None =>
            /\ First(d) <= issued /\ Recent(d, issued)
      BY <1>3, <2>3
    <3>5. QED
      BY <1>1, <1>3, <2>1, <2>2, <3>1, <3>2, <3>3, <3>4 DEF CallInv, Recent
  <2>6. QED
    BY <2>4, <2>5
<1>10. QED
  BY <1>5, <1>6, <1>7, <1>8, <1>9 DEF TokenInv, CallsInv

LEMMA AuthenticationFailsKeeps ==
    ASSUME TokenInv, NEW c \in Callers, AuthenticationFails(c) PROVE TokenInv'
<1>1. /\ stage \in [Callers -> Stages] /\ granted \in [Callers -> Tokens \cup {None}]
      /\ stage[c] \in {"authenticating", "granted"} /\ stage' = [stage EXCEPT ![c] = "failed"]
      /\ owner' = None /\ granted' = [granted EXCEPT ![c] = None]
      /\ spent' = (IF granted[c] = None THEN spent ELSE spent \cup {granted[c]})
      /\ UNCHANGED <<provider, issued, valid, expiring, stored, using, rejected, shaken>>
  BY DEF TokenInv, TypeOK, AuthenticationFails, Go
<1>2. \A d \in Callers \ {c} :
        granted[d] = None /\ stage[d] # "authenticating" /\ stage[d] # "granted"
  BY <1>1, OneGranted
<1>3. TypeOK'
  BY <1>1 DEF TokenInv, TypeOK, Stages
<1>4. MutexInv' /\ OrderInv'
  BY <1>1, <1>2 DEF TokenInv, MutexInv, OrderInv
<1>5. RenewalInv'
  <2>1. SUFFICES ASSUME provider = "tailscale" PROVE RenewalInv'
    BY <1>1 DEF RenewalInv
  <2>2. \A t : Outdated(t) => Outdated(t)'
    BY <1>1 DEF Outdated
  <2>3. \A d \in Callers : stage'[d] # "authenticating"
    BY <1>1, <1>2
  <2>4. issued # 0 => stored = issued \/ Outdated(issued)'
    <3>1. (\E d \in Callers : granted[d] = issued) => granted[c] = issued \/ issued = 0
      BY <1>2, Typing DEF TokenInv
    <3>2. granted[c] = issued => issued \in spent'
      BY <1>1, Typing DEF TokenInv
    <3>3. QED
      BY <1>1, <2>1, <2>2, <3>1, <3>2 DEF TokenInv, RenewalInv, Outdated
  <2>5. QED
    BY <1>1, <2>1, <2>2, <2>3, <2>4 DEF TokenInv, RenewalInv
<1>6. ASSUME NEW d \in Callers PROVE CallInv(d)'
  <2>1. CASE d = c
    BY <1>1, <2>1 DEF CallInv, Ended
  <2>2. CASE d # c
    BY <1>1, <2>2, OtherCall
  <2>3. QED
    BY <2>1, <2>2
<1>7. QED
  BY <1>3, <1>4, <1>5, <1>6 DEF TokenInv, CallsInv

LEMMA SendKeeps == ASSUME TokenInv, NEW c \in Callers, Send(c) PROVE TokenInv'
<1>1. /\ stage \in [Callers -> Stages] /\ using \in [Callers -> Tokens \cup {None}]
      /\ stage[c] = "ready" /\ stage' = [stage EXCEPT ![c] = "sent"]
      /\ using' = [using EXCEPT ![c] = stored]
      /\ \A d \in Callers : granted[d] = None
      /\ UNCHANGED <<provider, issued, valid, expiring, stored, owner, rejected, granted, shaken, spent>>
  BY FreeMutex DEF TokenInv, TypeOK, Send, Go, clientVars
<1>2. /\ CallInv(c) /\ stored # None /\ stored \in Nat /\ stored <= issued
      /\ rejected[c] # None => rejected[c] < stored /\ rejected[c] \in Nat
  BY <1>1, Typing DEF TokenInv, CallsInv, CallInv, OrderInv
<1>3. TypeOK'
  BY <1>1 DEF TokenInv, TypeOK, Stages
<1>4. MutexInv' /\ OrderInv'
  BY <1>1, <1>2 DEF TokenInv, MutexInv, OrderInv
<1>5. RenewalInv'
  BY <1>1 DEF TokenInv, RenewalInv, Outdated
<1>6. ASSUME NEW d \in Callers PROVE CallInv(d)'
  <2>1. CASE d = c
    <3>1. CASE rejected[c] = None
      BY <1>1, <1>2, <2>1, <3>1 DEF CallInv, First
    <3>2. CASE rejected[c] # None
      <4>1. First(c) = rejected[c] /\ First(c)' = rejected[c] /\ stored # rejected[c]
        BY <1>1, <1>2, <3>2 DEF First
      <4>2. Recent(c, stored)
        BY <1>1, <1>2, <3>2, <4>1 DEF CallInv, Ended
      <4>3. QED
        BY <1>1, <1>2, <2>1, <3>2, <4>1, <4>2 DEF CallInv, Recent
    <3>3. QED
      BY <3>1, <3>2
  <2>2. CASE d # c
    BY <1>1, <2>2, OtherCall
  <2>3. QED
    BY <2>1, <2>2
<1>7. QED
  BY <1>3, <1>4, <1>5, <1>6 DEF TokenInv, CallsInv

LEMMA ServedKeeps ==
    ASSUME TokenInv, NEW c \in Callers, Served(c) \/ RequestFails(c) PROVE TokenInv'
<1>1. PICK s \in {"served", "failed"} :
        /\ stage \in [Callers -> Stages]
        /\ stage[c] = "sent" /\ stage' = [stage EXCEPT ![c] = s]
        /\ UNCHANGED <<provider, issued, valid, expiring, stored, owner, using, rejected, granted, shaken, spent>>
  BY DEF TokenInv, TypeOK, Served, RequestFails, Go, clientVars
<1>2. TypeOK'
  BY <1>1 DEF TokenInv, TypeOK, Stages
<1>3. MutexInv' /\ OrderInv' /\ RenewalInv'
  BY <1>1 DEF TokenInv, MutexInv, OrderInv, RenewalInv, Outdated
<1>4. ASSUME NEW d \in Callers PROVE CallInv(d)'
  <2>1. CASE d = c
    BY <1>1, <2>1 DEF CallInv, Ended
  <2>2. CASE d # c
    BY <1>1, <2>2, OtherCall
  <2>3. QED
    BY <2>1, <2>2
<1>5. QED
  BY <1>2, <1>3, <1>4 DEF TokenInv, CallsInv

LEMMA UnauthorizedKeeps == ASSUME TokenInv, NEW c \in Callers, Unauthorized(c) PROVE TokenInv'
<1>1. /\ stage \in [Callers -> Stages] /\ rejected \in [Callers -> Tokens \cup {None}]
      /\ stage[c] = "sent" /\ using[c] \notin valid
      /\ UNCHANGED <<provider, issued, valid, expiring, stored, owner, using, granted, shaken, spent>>
  BY DEF TokenInv, TypeOK, Unauthorized, clientVars
<1>2. CallInv(c) /\ using[c] # None /\ using[c] \in Tokens /\ using[c] <= issued
  BY <1>1, Typing DEF TokenInv, CallsInv, CallInv, OrderInv
<1>3. \/ /\ rejected[c] = None
         /\ stage' = [stage EXCEPT ![c] = "again"] /\ rejected' = [rejected EXCEPT ![c] = using[c]]
      \/ /\ rejected[c] # None
         /\ stage' = [stage EXCEPT ![c] = "refused"] /\ rejected' = rejected
  BY DEF Unauthorized, Go
<1>4. TypeOK'
  BY <1>1, <1>2, <1>3 DEF TokenInv, TypeOK, Stages
<1>5. MutexInv' /\ OrderInv' /\ RenewalInv'
  BY <1>1, <1>2, <1>3 DEF TokenInv, MutexInv, OrderInv, RenewalInv, Outdated
<1>6. ASSUME NEW d \in Callers PROVE CallInv(d)'
  <2>1. CASE d = c
    <3>1. CASE rejected[c] = None
      BY <1>1, <1>2, <1>3, <2>1, <3>1 DEF CallInv, First, Recent, Ended
    <3>2. CASE rejected[c] # None
      <4>1. c \in shaken
        BY <1>1, <1>2, <3>2 DEF CallInv, Recent
      <4>2. QED
        BY <1>1, <1>3, <2>1, <3>2, <4>1 DEF CallInv, Ended
    <3>3. QED
      BY <3>1, <3>2
  <2>2. CASE d # c
    BY <1>1, <1>3, <2>2, OtherCall
  <2>3. QED
    BY <2>1, <2>2
<1>7. QED
  BY <1>4, <1>5, <1>6 DEF TokenInv, CallsInv

LEMMA RevokeKeeps == ASSUME TokenInv, NEW t \in Tokens, Revoke(t) PROVE TokenInv'
<1>1. /\ valid' = valid \ {t}
      /\ shaken' = shaken \cup {c \in Callers : stage[c] \notin Ended}
      /\ UNCHANGED <<provider, issued, expiring, stored, owner, stage, using, rejected, granted, spent>>
  BY DEF Revoke, clientVars, callVars
<1>2. TypeOK'
  BY <1>1 DEF TokenInv, TypeOK
<1>3. MutexInv' /\ OrderInv' /\ RenewalInv'
  BY <1>1 DEF TokenInv, MutexInv, OrderInv, RenewalInv, Outdated
<1>4. ASSUME NEW d \in Callers PROVE CallInv(d)'
  BY <1>1, OtherCall
<1>5. QED
  BY <1>2, <1>3, <1>4 DEF TokenInv, CallsInv

LEMMA ExpiringKeeps == ASSUME TokenInv, NEW t \in Tokens, Expiring(t) PROVE TokenInv'
<1>1. /\ expiring' = expiring \cup {t}
      /\ UNCHANGED <<provider, issued, valid, stored, owner, stage, using, rejected, granted, shaken, spent>>
  BY DEF Expiring, clientVars, callVars
<1>2. TypeOK'
  BY <1>1 DEF TokenInv, TypeOK
<1>3. MutexInv' /\ OrderInv' /\ RenewalInv'
  BY <1>1 DEF TokenInv, MutexInv, OrderInv, RenewalInv, Outdated
<1>4. ASSUME NEW d \in Callers PROVE CallInv(d)'
  BY <1>1, OtherCall
<1>5. QED
  BY <1>2, <1>3, <1>4 DEF TokenInv, CallsInv

LEMMA RestartKeeps == ASSUME TokenInv, Restart PROVE TokenInv'
<1>1. 1..issued \subseteq Tokens
  BY TokenAssumption DEF TokenInv, TypeOK, Tokens
<1>2. TypeOK'
  BY <1>1 DEF TokenInv, TypeOK, Restart, Stages
<1>3. MutexInv' /\ OrderInv'
  BY DEF TokenInv, MutexInv, OrderInv, Restart
<1>4. CallsInv'
  BY DEF CallsInv, CallInv, First, Ended, Restart
<1>5. RenewalInv'
  <2>1. spent' = 1..issued /\ issued' = issued /\ stored' = None
    BY DEF Restart
  <2>2. ASSUME NEW t \in Nat, t >= 1, t <= issued PROVE t \in spent'
    BY <2>1, <2>2, Typing DEF TokenInv
  <2>3. \A t \in Tokens : t < issued' => Outdated(t)'
    BY <2>1, <2>2, Typing DEF TokenInv, Outdated
  <2>4. issued' # 0 => Outdated(issued)'
    BY <2>1, <2>2, Typing DEF TokenInv, Outdated
  <2>5. QED
    BY <2>1, <2>3, <2>4 DEF RenewalInv
<1>6. QED
  BY <1>2, <1>3, <1>4, <1>5 DEF TokenInv

LEMMA StutterKeeps == ASSUME TokenInv, UNCHANGED vars PROVE TokenInv'
<1>1. UNCHANGED <<provider, issued, valid, expiring, stored, owner, stage, using, rejected, granted, shaken, spent>>
  BY DEF vars, clientVars, callVars
<1>2. TypeOK' /\ MutexInv' /\ OrderInv' /\ RenewalInv'
  BY <1>1 DEF TokenInv, TypeOK, MutexInv, OrderInv, RenewalInv, Outdated
<1>3. ASSUME NEW d \in Callers PROVE CallInv(d)'
  BY <1>1, OtherCall
<1>4. QED
  BY <1>2, <1>3 DEF TokenInv, CallsInv

LEMMA StepKeepsTokenInv == TokenInv /\ [Next]_vars => TokenInv'
<1>1. SUFFICES ASSUME TokenInv, [Next]_vars PROVE TokenInv'
  OBVIOUS
<1>2. ASSUME NEW c \in Callers, Begin(c) \/ Proceeds(c) \/ Answered(c) PROVE TokenInv'
  <2>1. CASE Begin(c)
    BY <1>1, <2>1, BeginKeeps
  <2>2. CASE Proceeds(c)
    BY <1>1, <2>2, TakeStoredKeeps, AuthenticateKeeps, SendKeeps DEF Proceeds
  <2>3. CASE Answered(c)
    BY <1>1, <2>3, IssueKeeps, StoreKeeps, AuthenticationFailsKeeps, ServedKeeps,
       UnauthorizedKeeps DEF Answered
  <2>4. QED
    BY <1>2, <2>1, <2>2, <2>3
<1>3. CASE \E t \in Tokens : Revoke(t) \/ Expiring(t)
  BY <1>1, <1>3, RevokeKeeps, ExpiringKeeps
<1>4. CASE Restart
  BY <1>1, <1>4, RestartKeeps
<1>5. CASE UNCHANGED vars
  BY <1>1, <1>5, StutterKeeps
<1>6. QED
  BY <1>1, <1>2, <1>3, <1>4, <1>5 DEF Next

\* The inductive invariant of the token client.
THEOREM TokenInvHolds == Spec => []TokenInv
<1>1. QED
  BY InitTokenInv, StepKeepsTokenInv, PTL DEF Spec

-----------------------------------------------------------------------------
(* What it implies. *)

\* A call that is refused for its token had a token revoked under it: with any
\* number of callers renewing at once, none uses up another one's retry.
THEOREM RefusalsHaveACause == Spec => []RefusalHasACause
<1>1. TokenInv => RefusalHasACause
  BY DEF TokenInv, CallsInv, CallInv, RefusalHasACause
<1>2. QED
  BY <1>1, TokenInvHolds, PTL

\* However many callers find the stored token outdated, one of them renews it.
THEOREM RenewalsAreShared == Spec => []RenewalsCoalesce
<1>1. TokenInv => RenewalsCoalesce
  BY DEF TokenInv, RenewalInv, Outdated, RenewalsCoalesce
<1>2. QED
  BY <1>1, TokenInvHolds, PTL

\* The stored token only gives way to a newer one, whoever stores it when.
THEOREM TokensMoveForward == Spec => TokenMovesForward
<1>1. TokenInv /\ [Next]_vars => (stored # None /\ stored' # None => stored' >= stored)
  <2>1. SUFFICES ASSUME TokenInv, [Next]_vars, stored # None, stored' # None
                 PROVE  stored' >= stored
    OBVIOUS
  <2>2. stored \in Nat
    BY <2>1, Typing DEF TokenInv
  <2>3. CASE \E c \in Callers : Store(c)
    <3>1. PICK c \in Callers : Store(c)
      BY <2>3
    <3>2. granted[c] # None /\ granted[c] = issued /\ stored < issued /\ stored' = granted[c]
      BY <2>1, <3>1 DEF TokenInv, MutexInv, Store
    <3>3. issued \in Nat
      BY <2>1, Typing DEF TokenInv
    <3>4. QED
      BY <2>2, <3>2, <3>3
  <2>4. CASE ~\E c \in Callers : Store(c)
    <3>1. stored' = stored
      BY <2>1, <2>4 DEF Next, vars, clientVars, Begin, Proceeds, Answered, TakeStored, Authenticate,
         Send, Issue, AuthenticationFails, Served, Unauthorized, RequestFails, Revoke, Expiring, Restart
    <3>2. QED
      BY <2>2, <3>1
  <2>5. QED
    BY <2>3, <2>4
<1>2. TokenInv /\ [Next]_vars => [stored # None /\ stored' # None => stored' >= stored]_vars
  BY <1>1
<1>3. QED
  BY <1>2, TokenInvHolds, PTL DEF Spec, TokenMovesForward
=============================================================================
