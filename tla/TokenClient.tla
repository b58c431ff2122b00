----------------------------- MODULE TokenClient -----------------------------
(***************************************************************************)
(* Access tokens of the upstream clients: token, doAPI and                 *)
(* authenticateLocked of tailscale.go, ensureToken, doRequest and          *)
(* authenticate of npm.go.                                                 *)
(*                                                                         *)
(* Several callers share one client.  c.mu is held from the look at the    *)
(* stored token to the end of an authentication.  The server may revoke a  *)
(* token at any time, and a request is judged when it arrives.  A token    *)
(* that the client's clock calls expiring is not used for a new request.   *)
(***************************************************************************)
EXTENDS Naturals

CONSTANTS
    Providers,  \* the clients to consider, of "tailscale" and "npm"
    Callers,    \* goroutines using the client
    MaxTokens,  \* bound: tokens the server issues
    None        \* the absent value

ASSUME TokenAssumption ==
    /\ Providers \subseteq {"tailscale", "npm"}
    /\ MaxTokens \in Nat
    /\ None \notin Callers /\ None \notin Nat

Tokens == 1..MaxTokens

VARIABLES
    provider,  \* whose client it is
    issued,    \* number of tokens issued, which is also the newest one
    valid,     \* tokens the server accepts
    stored,    \* c.accessToken, c.token
    expiring,  \* tokens the client's clock no longer trusts
    owner,     \* the caller holding c.mu across an authentication
    stage,     \* how far each call is
    using,     \* the token a request carries
    rejected,  \* the token the call's first request was refused with
    granted,   \* the token in an authentication's response
    shaken,    \* history: calls during which a token was revoked
    spent      \* history: tokens lost on their way, refused, or forgotten

clientVars == <<stored, owner>>
callVars   == <<stage, using, rejected, granted>>
vars == <<provider, issued, valid, expiring, clientVars, callVars, shaken, spent>>

\* "ready" is npm.go's step between ensureToken and send, which reads the
\* token again.
Stages == {"idle", "start", "again", "authenticating", "granted", "ready", "sent"}
          \cup {"served", "refused", "failed"}
Ended == {"idle", "served", "refused", "failed"}

TypeOK ==
    /\ provider \in Providers
    /\ issued \in 0..MaxTokens
    /\ valid \subseteq Tokens
    /\ stored \in Tokens \cup {None}
    /\ expiring \subseteq Tokens
    /\ owner \in Callers \cup {None}
    /\ stage \in [Callers -> Stages]
    /\ using \in [Callers -> Tokens \cup {None}]
    /\ rejected \in [Callers -> Tokens \cup {None}]
    /\ granted \in [Callers -> Tokens \cup {None}]
    /\ shaken \subseteq Callers
    /\ spent \subseteq Tokens

Init ==
    /\ provider \in Providers
    /\ issued = 0 /\ valid = {} /\ stored = None /\ expiring = {}
    /\ owner = None
    /\ stage = [c \in Callers |-> "idle"]
    /\ using = [c \in Callers |-> None]
    /\ rejected = [c \in Callers |-> None]
    /\ granted = [c \in Callers |-> None]
    /\ shaken = {} /\ spent = {}

-----------------------------------------------------------------------------
Go(c, s) == stage' = [stage EXCEPT ![c] = s]

Begin(c) ==
    /\ stage[c] \in Ended
    /\ Go(c, "start")
    /\ using' = [using EXCEPT ![c] = None]
    /\ rejected' = [rejected EXCEPT ![c] = None]
    /\ shaken' = shaken \ {c}
    /\ UNCHANGED <<provider, issued, valid, expiring, clientVars, granted, spent>>

FaultyMutexFree == TRUE
MutexFree == owner = None

ForgetfulUsable(c) == stored # None /\ stored \notin expiring
\* The stored token will do: not the one this call was refused with, and far
\* enough from its expiry.  After a 401 npm.go does not look.
Usable(c) ==
    /\ stored # None /\ stored \notin expiring
    /\ provider = "tailscale" => stored # rejected[c]
    /\ provider = "npm" => stage[c] = "start"

Wants(c) == stage[c] \in {"start", "again"}

\* token returns what is stored; ensureToken finds nothing to do.
TakeStored(c) ==
    /\ Wants(c) /\ MutexFree /\ Usable(c)
    /\ IF provider = "tailscale"
       THEN Go(c, "sent") /\ using' = [using EXCEPT ![c] = stored]
       ELSE Go(c, "ready") /\ UNCHANGED using
    /\ UNCHANGED <<provider, issued, valid, expiring, clientVars, rejected, granted, shaken, spent>>

Authenticate(c) ==
    /\ Wants(c) /\ MutexFree /\ ~Usable(c)
    /\ Go(c, "authenticating")
    /\ owner' = c
    /\ UNCHANGED <<provider, issued, valid, expiring, stored, using, rejected, granted, shaken, spent>>

\* The server issues a token; its response is on the way.
Issue(c) ==
    /\ stage[c] = "authenticating" /\ issued < MaxTokens
    /\ issued' = issued + 1
    /\ valid' = valid \cup {issued'}
    /\ granted' = [granted EXCEPT ![c] = issued']
    /\ Go(c, "granted")
    /\ UNCHANGED <<provider, expiring, clientVars, using, rejected, shaken, spent>>

CarelessStore(c) ==
    /\ stage[c] = "granted"
    /\ stored' \in {granted[c], 0}
    /\ owner' = None
    /\ granted' = [granted EXCEPT ![c] = None]
    /\ Go(c, "failed")
    /\ UNCHANGED <<provider, issued, valid, expiring, using, rejected, shaken, spent>>
\* A response that is not blank, of the right type and scope is accepted and
\* stored, and c.mu released.
Store(c) ==
    /\ stage[c] = "granted"
    /\ stored' = granted[c]
    /\ owner' = None
    /\ granted' = [granted EXCEPT ![c] = None]
    /\ IF provider = "tailscale"
       THEN Go(c, "sent") /\ using' = [using EXCEPT ![c] = granted[c]]
       ELSE Go(c, "ready") /\ UNCHANGED using
    /\ UNCHANGED <<provider, issued, valid, expiring, rejected, shaken, spent>>

FaultyAuthenticationFails(c) ==
    /\ stage[c] \in {"authenticating", "granted"}
    /\ Go(c, "failed")
    /\ granted' = [granted EXCEPT ![c] = None]
    /\ spent' = IF granted[c] = None THEN spent ELSE spent \cup {granted[c]}
    /\ UNCHANGED <<provider, issued, valid, expiring, clientVars, using, rejected, shaken>>
\* No answer, an error, or one that is not accepted.  What is stored stays.
AuthenticationFails(c) ==
    /\ stage[c] \in {"authenticating", "granted"}
    /\ Go(c, "failed")
    /\ owner' = None
    /\ granted' = [granted EXCEPT ![c] = None]
    /\ spent' = IF granted[c] = None THEN spent ELSE spent \cup {granted[c]}
    /\ UNCHANGED <<provider, issued, valid, expiring, stored, using, rejected, shaken>>

\* npm.go's send reads the token that is stored by now.
Send(c) ==
    /\ stage[c] = "ready" /\ MutexFree
    /\ using' = [using EXCEPT ![c] = stored]
    /\ Go(c, "sent")
    /\ UNCHANGED <<provider, issued, valid, expiring, clientVars, rejected, granted, shaken, spent>>

Served(c) ==
    /\ stage[c] = "sent" /\ using[c] \in valid
    /\ Go(c, "served")
    /\ UNCHANGED <<provider, issued, valid, expiring, clientVars, using, rejected, granted, shaken, spent>>

\* 401: once more with another token, and no third time.
Unauthorized(c) ==
    /\ stage[c] = "sent" /\ using[c] \notin valid
    /\ IF rejected[c] = None
       THEN Go(c, "again") /\ rejected' = [rejected EXCEPT ![c] = using[c]]
       ELSE Go(c, "refused") /\ UNCHANGED rejected
    /\ UNCHANGED <<provider, issued, valid, expiring, clientVars, using, granted, shaken, spent>>

\* The request gets no answer or another status.
RequestFails(c) ==
    /\ stage[c] = "sent"
    /\ Go(c, "failed")
    /\ UNCHANGED <<provider, issued, valid, expiring, clientVars, using, rejected, granted, shaken, spent>>

-----------------------------------------------------------------------------
(* The server revokes or expires a token; the clock moves on. *)

Revoke(t) ==
    /\ t \in valid
    /\ valid' = valid \ {t}
    /\ shaken' = shaken \cup {c \in Callers : stage[c] \notin Ended}
    /\ UNCHANGED <<provider, issued, expiring, clientVars, callVars, spent>>

Expiring(t) ==
    /\ t \notin expiring /\ t <= issued
    /\ expiring' = expiring \cup {t}
    /\ UNCHANGED <<provider, issued, valid, clientVars, callVars, shaken, spent>>

\* A restart forgets the token and every call.
Restart ==
    /\ stored' = None /\ owner' = None
    /\ stage' = [c \in Callers |-> "idle"]
    /\ using' = [c \in Callers |-> None]
    /\ rejected' = [c \in Callers |-> None]
    /\ granted' = [c \in Callers |-> None]
    /\ spent' = 1..issued
    /\ UNCHANGED <<provider, issued, valid, expiring, shaken>>

Answered(c) == Issue(c) \/ Store(c) \/ AuthenticationFails(c) \/ Served(c) \/ Unauthorized(c) \/ RequestFails(c)
Proceeds(c) == TakeStored(c) \/ Authenticate(c) \/ Send(c)

Next ==
    \/ \E c \in Callers : Begin(c) \/ Proceeds(c) \/ Answered(c)
    \/ \E t \in Tokens : Revoke(t) \/ Expiring(t)
    \/ Restart

Spec == Init /\ [][Next]_vars

\* Requests are answered or time out; a mutex that is free again and again is
\* obtained.
Fairness == \A c \in Callers : WF_vars(Answered(c)) /\ SF_vars(Proceeds(c))
FairSpec == Spec /\ Fairness

-----------------------------------------------------------------------------
(* Properties. *)

\* A call is refused for its token only if a token was revoked while the call
\* was under way: neither a token revoked long ago nor other callers' renewals
\* can use up its one retry.
RefusalHasACause == \A c \in Callers : stage[c] = "refused" => c \in shaken

\* Callers share one renewal (tailscale.go): a token is only ever requested
\* once every older one is revoked, expiring or lost.
RenewalsCoalesce ==
    provider = "tailscale" =>
        \A t \in Tokens : t < issued => t \notin valid \/ t \in expiring \/ t \in spent

\* The stored token never gives way to an older one.
TokenMovesForward == [][stored # None /\ stored' # None => stored' >= stored]_vars

\* Every call ends: a failed authentication does not keep c.mu.
CallsEnd == \A c \in Callers : stage[c] = "start" ~> stage[c] \in Ended
=============================================================================
