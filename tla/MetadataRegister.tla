-------------------------- MODULE MetadataRegister --------------------------
(***************************************************************************)
(* What the metadata editor promises its users: one register holding the   *)
(* whole document.  A save is a compare-and-swap against the value the     *)
(* user was shown, it is answered "saved" only when nothing can undo it,   *)
(* and at most one save at a time is undecided.                            *)
(***************************************************************************)
CONSTANTS
    Users,
    Values,     \* whole documents, and what a torn one looks like
    EditPairs,  \* <<v, w>>: w is v with one entry edited
    Unread      \* what a user saw who never read

VARIABLES
    value,      \* what a reader of the store finds
    possible,   \* what it may find after a power loss
    seen,       \* the value each user's pending edit starts from
    saver,      \* the user whose save is under way, or Unread
    answer      \* what each user was told of the last save

vars == <<value, possible, seen, saver, answer>>

Init ==
    /\ value \in Values
    /\ possible = {value}
    /\ seen = [u \in Users |-> Unread]
    /\ saver = Unread
    /\ answer = [u \in Users |-> "none"]

\* A user is only ever shown a value that nothing can undo.
Read(u) ==
    /\ possible = {value}
    /\ seen' = [seen EXCEPT ![u] = value]
    /\ answer' = [answer EXCEPT ![u] = "none"]
    /\ UNCHANGED <<value, possible, saver>>

\* Compare and swap: the user's edit starts from the current, settled value.
Swap(u) ==
    /\ saver = Unread
    /\ seen[u] = value /\ possible = {value}
    /\ \E w \in Values : /\ <<value, w>> \in EditPairs
                         /\ value' = w
                         /\ possible' = possible \cup {w}
    /\ saver' = u
    /\ UNCHANGED <<seen, answer>>

Acknowledge(u) ==
    /\ saver = u
    /\ possible' = {value}
    /\ saver' = Unread
    /\ answer' = [answer EXCEPT ![u] = "saved"]
    /\ UNCHANGED <<value, seen>>

Doubt(u) ==
    /\ saver = u
    /\ saver' = Unread
    /\ answer' = [answer EXCEPT ![u] = "uncertain"]
    /\ UNCHANGED <<value, possible, seen>>

\* Any other answer, also to a save refused because an earlier one is in doubt.
Refuse(u) ==
    /\ saver # u
    /\ \E a \in {"none", "uncertain"} : answer' = [answer EXCEPT ![u] = a]
    /\ UNCHANGED <<value, possible, seen, saver>>

\* Syncing rules out outcomes, never the value itself.
Settle ==
    /\ possible' \in {S \in SUBSET possible : value \in S}
    /\ UNCHANGED <<value, seen, saver, answer>>

\* The server goes away: users with a save under way hear nothing, and a power
\* loss picks one of the possible values.
Crash ==
    /\ saver' = Unread
    /\ \E lost \in SUBSET Users :
          answer' = [u \in Users |-> IF u \in lost THEN "none" ELSE answer[u]]
    /\ \/ UNCHANGED <<value, possible>>
       \/ value' \in possible /\ possible' = {value'}
    /\ UNCHANGED seen

\* A hand edit while no save is under way.
Replace ==
    /\ saver = Unread
    /\ value' \in Values
    /\ \E torn \in SUBSET Values : possible' = possible \cup {value'} \cup torn
    /\ UNCHANGED <<seen, saver, answer>>

Next ==
    \/ \E u \in Users : Read(u) \/ Swap(u) \/ Acknowledge(u) \/ Doubt(u) \/ Refuse(u)
    \/ Settle \/ Crash \/ Replace

Spec == Init /\ [][Next]_vars
=============================================================================
