------------------------- MODULE HostnameSuggestions -------------------------
(***************************************************************************)
(* suggest-hostnames up to the operator's answer: hostname_suggestions.go  *)
(* and hostname_suggestions_command.go.                                    *)
(*                                                                         *)
(* Candidate names from the control plane and stdin meet NPM's wildcard    *)
(* hosts in a graph.  A search takes it apart into connected components    *)
(* and proposes only pairs that are a component by themselves.  The order  *)
(* in which Go walks the maps of edges is any.  A hostname is the sequence *)
(* of its labels from the top level down; where it came from is left out.  *)
(***************************************************************************)
EXTENDS Inventory, Integers, SequencesExt

CONSTANTS
    Canonical,      \* every raw name's hostname, None where it has none
    Feeds,          \* what stdin may hold: sequences of raw names, None unasked
    Proxies,        \* what NPM may answer, sequences of proxy hosts
    Overrides,      \* metadata files: by ID the name and whether there is a URL
    MaxRecords, MaxFields, MaxCandidates, MaxHosts, MaxDomains, MaxSuffixes, MaxEdges, MaxEntries

\* usable: enabled, with a supported destination some rule matches.
\* other: neither a wildcard of a valid suffix nor a concrete name.
Domain == [kind : {"wildcard"}, suffix : Seq(STRING)] \cup [kind : {"concrete", "other"}]
ProxyHost == [id : Int, usable : BOOLEAN, domains : Seq(Domain)]

ASSUME SuggestionsAssumption ==
    /\ DOMAIN Canonical = RawNames
    /\ \A f \in Feeds : f # None => f \in Seq(RawNames)
    /\ \A p \in Proxies : p \in Seq(ProxyHost)
    /\ \A m \in Overrides : m # None => \A i \in DOMAIN m : m[i].name \in Seq(STRING) \cup {None}

VARIABLES
    feed, proxies, metadata, toFile,  \* what this run of the command is given
    stage,        \* where the command is
    answer,       \* how it ended
    edges,        \* hostEdges and idEdges: pairs of a hostname and an ID
    hostQueue, idQueue, turn,  \* of the search: the queues, and which loop runs
    visitedHosts, visitedIDs,
    hosts, ids,   \* componentHostnames, componentIDs
    suggestions, ambiguities, proposal

given == <<feed, proxies, metadata, toFile>>
searchVars ==
    <<edges, hostQueue, idQueue, turn, visitedHosts, visitedIDs, hosts, ids, suggestions, ambiguities>>
suggestVars == <<given, stage, answer, searchVars, proposal, inventoryVars>>

Goto(s) == stage' = s /\ UNCHANGED answer
Ends(a) == stage' = "ended" /\ answer' = a

-----------------------------------------------------------------------------
(* Candidates and eligible hosts. *)

\* Invalid names of the control plane are skipped.
Candidates ==
    ({Canonical[r] : r \in names} \ {None})
    \cup (IF feed = None THEN {} ELSE {Canonical[r] : r \in Range(feed)})

CandidatesFit == fields <= MaxFields /\ Cardinality(Candidates) <= MaxCandidates

Known == {k \in DOMAIN proxies : proxies[k].id > 0}
Considered == {k \in Known : proxies[k].usable}
WildcardSuffixes(k) == {d.suffix : d \in {e \in Range(proxies[k].domains) : e.kind = "wildcard"}}
Concrete(k) == \E d \in Range(proxies[k].domains) : d.kind = "concrete"

HostsFit ==
    /\ Len(proxies) <= MaxHosts
    /\ \A j, k \in Known : j # k => proxies[j].id # proxies[k].id
    /\ MapThenSumSet(LAMBDA k : Len(proxies[k].domains), Considered) <= MaxDomains
    /\ MapThenSumSet(LAMBDA k : Cardinality(WildcardSuffixes(k)), Considered) <= MaxSuffixes

HasURL(id) == metadata # None /\ id \in DOMAIN metadata /\ metadata[id].url
ExistingName(id) == IF metadata # None /\ id \in DOMAIN metadata THEN metadata[id].name ELSE None

Eligible ==
    {k \in Considered : ~Concrete(k) /\ WildcardSuffixes(k) # {} /\ ~HasURL(proxies[k].id)}

HostnameMatchesSuffix(h, s) == IsStrictPrefix(s, h)

Edges ==
    {<<c[1], proxies[c[2]].id>> : c \in
        {e \in Candidates \X Eligible : \E s \in WildcardSuffixes(e[2]) : HostnameMatchesSuffix(e[1], s)}}

IDsOf(h)  == {e[2] : e \in {f \in edges : f[1] = h}}
HostsOf(i) == {e[1] : e \in {f \in edges : f[2] = i}}
EdgeHosts == {e[1] : e \in edges}

-----------------------------------------------------------------------------
(* Loading. *)

ReadStdin ==
    /\ stage = "stdin"
    /\ IF feed = None \/ (Len(feed) <= MaxRecords /\ \A r \in Range(feed) : Canonical[r] # None)
       THEN Goto("metadata")
       ELSE Ends("failed")
    /\ UNCHANGED <<given, searchVars, proposal, inventoryVars>>

\* The file may be unreadable.
LoadMetadata ==
    /\ stage = "metadata"
    /\ Goto("load") \/ Ends("failed")
    /\ UNCHANGED <<given, searchVars, proposal, inventoryVars>>

LoadControlPlane ==
    /\ stage = "load"
    /\ InventoryStep
    /\ UNCHANGED <<given, stage, answer, searchVars, proposal>>

ControlPlaneFails ==
    /\ stage = "load" /\ call = "failed"
    /\ Ends("failed")
    /\ UNCHANGED <<given, searchVars, proposal, inventoryVars>>

\* The proxy hosts come last; then everything up to the search is computed.
FetchProxyHosts ==
    /\ stage = "load" /\ call = "loaded"
    /\ \/ /\ CandidatesFit /\ HostsFit /\ Cardinality(Edges) <= MaxEdges
          /\ edges' = Edges
          /\ Goto("search")
       \/ /\ Ends("failed")
          /\ UNCHANGED edges
    /\ UNCHANGED <<given, hostQueue, idQueue, turn, visitedHosts, visitedIDs, hosts, ids>>
    /\ UNCHANGED <<suggestions, ambiguities, proposal, inventoryVars>>

-----------------------------------------------------------------------------
(* The search. *)

Searching == stage = "search"

\* The names are taken in order; which comes first orders the review only.
StartComponent(h) ==
    /\ Searching /\ hosts = <<>> /\ hostQueue = <<>>
    /\ h \in EdgeHosts \ visitedHosts
    /\ hostQueue' = <<h>>
    /\ turn' = "hosts"
    /\ UNCHANGED <<given, stage, answer, edges, idQueue, visitedHosts, visitedIDs, hosts, ids>>
    /\ UNCHANGED <<suggestions, ambiguities, proposal, inventoryVars>>

VisitHostname ==
    /\ Searching /\ turn = "hosts" /\ hostQueue # <<>>
    /\ hostQueue' = Tail(hostQueue)
    /\ LET h == Head(hostQueue)
       IN  IF h \in visitedHosts THEN UNCHANGED <<idQueue, visitedHosts, hosts>>
           ELSE /\ visitedHosts' = visitedHosts \cup {h}
                /\ hosts' = Append(hosts, h)
                /\ \E s \in SetToSeqs(IDsOf(h) \ visitedIDs) : idQueue' = idQueue \o s
    /\ turn' = IF hostQueue' = <<>> THEN "ids" ELSE "hosts"
    /\ UNCHANGED <<given, stage, answer, edges, visitedIDs, ids, suggestions, ambiguities>>
    /\ UNCHANGED <<proposal, inventoryVars>>

\* Wrong: the other names of an ID are not followed.
HastyVisitID ==
    /\ Searching /\ turn = "ids" /\ idQueue # <<>>
    /\ idQueue' = Tail(idQueue)
    /\ LET i == Head(idQueue)
       IN  IF i \in visitedIDs THEN UNCHANGED <<visitedIDs, ids>>
           ELSE /\ visitedIDs' = visitedIDs \cup {i}
                /\ ids' = Append(ids, i)
    /\ turn' = IF idQueue' = <<>> THEN "hosts" ELSE "ids"
    /\ UNCHANGED <<given, stage, answer, edges, hostQueue, visitedHosts, hosts, suggestions, ambiguities>>
    /\ UNCHANGED <<proposal, inventoryVars>>

VisitID ==
    /\ Searching /\ turn = "ids" /\ idQueue # <<>>
    /\ idQueue' = Tail(idQueue)
    /\ LET i == Head(idQueue)
       IN  IF i \in visitedIDs THEN UNCHANGED <<hostQueue, visitedIDs, ids>>
           ELSE /\ visitedIDs' = visitedIDs \cup {i}
                /\ ids' = Append(ids, i)
                /\ \E s \in SetToSeqs(HostsOf(i) \ visitedHosts) : hostQueue' = hostQueue \o s
    /\ turn' = IF idQueue' = <<>> THEN "hosts" ELSE "ids"
    /\ UNCHANGED <<given, stage, answer, edges, visitedHosts, hosts, suggestions, ambiguities>>
    /\ UNCHANGED <<proposal, inventoryVars>>

CloseComponent ==
    /\ Searching /\ hosts # <<>> /\ hostQueue = <<>> /\ idQueue = <<>>
    /\ IF Len(hosts) = 1 /\ Len(ids) = 1
       THEN /\ suggestions' = suggestions \cup {<<Head(hosts), Head(ids)>>}
            /\ UNCHANGED ambiguities
       ELSE /\ ambiguities' = ambiguities \cup {[hosts |-> hosts, ids |-> ids]}
            /\ UNCHANGED suggestions
    /\ hosts' = <<>> /\ ids' = <<>>
    /\ UNCHANGED <<given, stage, answer, edges, hostQueue, idQueue, turn, visitedHosts, visitedIDs>>
    /\ UNCHANGED <<proposal, inventoryVars>>

\* buildHostnameSuggestionProposal: an existing name stays.
Propose ==
    /\ Searching /\ hosts = <<>> /\ hostQueue = <<>> /\ EdgeHosts \subseteq visitedHosts
    /\ IF Cardinality(suggestions) > MaxEntries
       THEN Ends("failed") /\ UNCHANGED proposal
       ELSE /\ proposal' = {[id |-> s[2], host |-> s[1], name |-> FirstOf(ExistingName(s[2]), s[1])] :
                                s \in suggestions}
            /\ Goto("review")
    /\ UNCHANGED <<given, searchVars, inventoryVars>>

-----------------------------------------------------------------------------
(* The operator. *)

\* Without a suggestion there is nothing to confirm.
Review ==
    /\ stage = "review"
    /\ \/ IF suggestions = {} THEN Ends("empty") ELSE Goto("confirm")
       \/ Ends("failed")
    /\ UNCHANGED <<given, searchVars, proposal, inventoryVars>>

\* After anything else than yes, no or a blank line the question comes again.
Confirm(reply) ==
    /\ stage = "confirm"
    /\ CASE reply = "yes" -> Goto(IF toFile THEN "publish" ELSE "print")
         [] reply = "no"  -> Ends("rejected")
         [] reply = "eof" -> Ends("failed")
    /\ UNCHANGED <<given, searchVars, proposal, inventoryVars>>

PrintProposal ==
    /\ stage = "print"
    /\ Ends("printed") \/ Ends("failed")
    /\ UNCHANGED <<given, searchVars, proposal, inventoryVars>>

SuggestInit ==
    /\ InventoryInit
    /\ feed \in Feeds /\ proxies \in Proxies /\ metadata \in Overrides /\ toFile \in BOOLEAN
    /\ stage = "stdin" /\ answer = "none"
    /\ edges = {} /\ hostQueue = <<>> /\ idQueue = <<>> /\ turn = "hosts"
    /\ visitedHosts = {} /\ visitedIDs = {} /\ hosts = <<>> /\ ids = <<>>
    /\ suggestions = {} /\ ambiguities = {} /\ proposal = {}

SuggestStep ==
    \/ ReadStdin \/ LoadMetadata \/ LoadControlPlane \/ ControlPlaneFails \/ FetchProxyHosts
    \/ \E h \in EdgeHosts : StartComponent(h)
    \/ VisitHostname \/ VisitID \/ CloseComponent \/ Propose
    \/ Review \/ PrintProposal
    \/ \E reply \in {"yes", "no", "eof"} : Confirm(reply)

-----------------------------------------------------------------------------

\* The hosts that share an ID with one of a set's.
Neighbours(set) == UNION {HostsOf(i) : i \in UNION {IDsOf(h) : h \in set}}

\* What is reviewed does not depend on the order of the search: a pair is
\* suggested exactly if neither end has another edge, everything else is in one
\* ambiguity, which holds a whole component and no more, each name and ID once;
\* and the proposal gives no host two entries, no entry another's hostname, and
\* nothing to a host that has a link
\* (buildHostnameSuggestions, buildHostnameSuggestionProposal).
SuggestionsAreUnambiguous ==
    stage \in {"review", "confirm", "print", "publish"} =>
        /\ suggestions = {e \in edges : IDsOf(e[1]) = {e[2]} /\ HostsOf(e[2]) = {e[1]}}
        /\ \A e \in edges \ suggestions :
            Cardinality({a \in ambiguities : e[1] \in Range(a.hosts) /\ e[2] \in Range(a.ids)}) = 1
        /\ \A a \in ambiguities :
            LET set == Range(a.hosts)
            IN  /\ Neighbours(set) = set /\ Range(a.ids) = UNION {IDsOf(h) : h \in set}
                /\ \A part \in (SUBSET set) \ {{}, set} : ~(Neighbours(part) \subseteq part)
                /\ IsInjective(a.hosts) /\ IsInjective(a.ids)
        /\ \A p, q \in proposal : p.id = q.id \/ p.host = q.host => p = q
        /\ {<<p.host, p.id>> : p \in proposal} = suggestions
        /\ \A p \in proposal, k \in Known :
            proxies[k].id = p.id => proxies[k].usable /\ ~Concrete(k) /\ ~HasURL(p.id)
=============================================================================
