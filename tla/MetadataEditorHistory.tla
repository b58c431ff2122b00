----------------------- MODULE MetadataEditorHistory ------------------------
(***************************************************************************)
(* The metadata editor with history variables, for properties of a save    *)
(* that depend on what happened while it was under way.                    *)
(***************************************************************************)
EXTENDS MetadataEditor

VARIABLES
    raced,   \* saves whose file was replaced by others after their last disk check
    moved,   \* saves whose eligibility may have changed since their final check
    touched  \* tabs whose form is older than some save that changed the file

HistoryVars == <<vars, raced, moved, touched>>

HistoryInit == Init /\ raced = {} /\ moved = {} /\ touched = {}

HistoryNext ==
    /\ Next
    /\ raced' = {c \in Clients :
          /\ stage'[c] \in {"rechecked", "authorised"}
          /\ c \in raced \/ (stage'[c] = stage[c] /\ file' # file)}
    /\ moved' = {c \in Clients :
          /\ stage'[c] \in {"authorised", "renamed"}
          /\ c \in moved \/ snap' # snap \/ expired' # expired}
    /\ touched' = {c \in Clients :
          /\ ~\E p \in Procs, id \in Ids : Get(c, p, id)
          /\ \/ c \in touched
             \/ form[c] # None /\ \E d \in Clients \ {c} : Rename(d) /\ file'.bytes # file.bytes}

HistorySpec == HistoryInit /\ [][HistoryNext]_HistoryVars

-----------------------------------------------------------------------------
\* A live operator's file is overwritten only if it arrived after the save's
\* second disk check: the window the documentation admits is no larger.
FinishedHandEditSurvives ==
    [][\A c \in Clients : Rename(c) /\ c \notin raced => file.bytes = form[c].seen]_HistoryVars

\* A host hidden, retargeted or gone stale, or a token expired, at any time
\* before the final check and still so at the check, stops the save: what is
\* renamed was allowed by the newest snapshot the final check could read.
RevokedSaveNeverLands ==
    \A c \in Clients \ moved :
        stage[c] \in {"authorised", "renamed"} =>
            HostVisible(form[c].id, form[c].target) /\ ValidCSRF(c, at[c])

\* docs/reference/service-metadata.md: "any intervening edit, even to an
\* unrelated service, conflicts".
AnyInterveningEditConflicts ==
    \A c \in touched : stage[c] # "renamed"
=============================================================================
