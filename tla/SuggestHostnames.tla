-------------------------- MODULE SuggestHostnames ---------------------------
(***************************************************************************)
(* One run of suggest-hostnames from its input to the file, while others   *)
(* that were confirmed write to the same path.                             *)
(***************************************************************************)
EXTENDS HostnameSuggestions, ProposalFile

allSuggestVars == <<suggestVars, fileVars>>

\* Before, the file is of no account to this run: what others and the operator
\* do to it earlier they may as well do then.
Published == stage = "publish"

Publishes == Published /\ FileStep /\ UNCHANGED suggestVars

Searches == SuggestStep /\ UNCHANGED fileVars

AllSuggestInit == SuggestInit /\ ProposalFileInit
AllSuggestStep == Publishes \/ Searches

AllSuggestSpec == AllSuggestInit /\ [][AllSuggestStep]_allSuggestVars
=============================================================================
