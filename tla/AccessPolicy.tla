---------------------------- MODULE AccessPolicy -----------------------------
(***************************************************************************)
(* The policy as controlplane.go loads it: which documents are accepted,   *)
(* which rules remain, and which sources of a grant may be a person.       *)
(*                                                                         *)
(* A selector is a text of a known class.  Ports in the destinations of    *)
(* legacy rules are stripped by the code and left out here.  Sources and   *)
(* destinations of a rule are sets: which of several matching ones a       *)
(* report names is left out.  A document whose JSON does not have these    *)
(* shapes is not loaded; tagOwners is decoded and never read.              *)
(***************************************************************************)
EXTENDS Naturals, Sequences, Functions

CONSTANTS
    Kind,    \* the class of every selector text
    Covers,  \* the addresses in each CIDR
    Short    \* bare legacy names and the short login each stands for

Texts == DOMAIN Kind
\* "role" is an autogroup of people, "device" one of machines, "autogroup" any
\* other; "reserved" is ipset:, svc: and posture:; "text" is a plain word.
Kinds == {"any", "address", "cidr", "group", "tag", "self", "role", "device"}
         \cup {"autogroup", "reserved", "login", "text"}

ASSUME SelectorAssumption ==
    /\ Kind \in [Texts -> Kinds]
    /\ Short \in [{s \in Texts : Kind[s] = "text"} -> {s \in Texts : Kind[s] = "login"}]
    /\ IsInjective(Short)
    /\ Covers \in [{s \in Texts : Kind[s] = "cidr"} -> SUBSET {s \in Texts : Kind[s] = "address"}]

Nonroot == "autogroup:nonroot"
Member  == "autogroup:member"

\* What an entry says beyond its usual fields; an empty field says nothing.
Beyond == {"proto", "srcPosture", "via", "app", "unknown"}

\* Other sections that are not empty; the code knows seven as benign.
Sections == {"benign", "postures", "ipsets", "unknown"}

\* A capability of a grant, a rule, an SSH rule and a node attribute on the wire.
\* form: the rest of an SSH rule is well formed and its accounts are supported.
Capability == [protocol : {"any", "tcp", "other", "malformed"}, all : BOOLEAN,
               start : Nat, end : Nat]
WireACL    == [action : {"accept", "other"}, src : SUBSET Texts, dst : SUBSET Texts,
               more : SUBSET Beyond]
WireGrant  == [src : SUBSET Texts, dst : SUBSET Texts, ip : SUBSET Capability,
               more : SUBSET Beyond]
WireSSH    == [form : {"supported", "other"}, action : {"accept", "check"},
               src : SUBSET Texts, dst : SUBSET Texts, users : SUBSET STRING]
WireAttr   == [target : SUBSET Texts, attr : SUBSET {"funnel", "other"}, more : SUBSET Beyond]

-----------------------------------------------------------------------------
(* Logins. *)

\* Fully qualified: a login that no bare name stands for.
ExactLogin(l) == l \in Texts /\ Kind[l] = "login" /\ l \notin Range(Short)

Normal(l) == IF Kind[l] = "text" THEN Short[l] ELSE l

\* The policy source forms of a login: itself, and for a short one the bare name.
IdentityTokens(l) == {Normal(l)} \cup {b \in DOMAIN Short : Short[b] = Normal(l)}

-----------------------------------------------------------------------------
(* Sources and destinations of grants. *)

\* Host aliases are machines even where they look like logins.
SourceKind(s, doc) ==
    CASE Kind[s] = "any"                                -> "wildcard"
      [] Kind[s] \in {"address", "cidr", "tag", "device"} -> "machine"
      [] Kind[s] = "group" /\ s \in DOMAIN doc.groups     -> "group"
      [] Kind[s] = "role"                               -> "role"
      [] Kind[s] \in {"login", "text"} /\ s \in DOMAIN doc.hosts -> "machine"
      [] Kind[s] = "login" /\ s \notin DOMAIN doc.hosts -> "human"
      [] OTHER                                          -> "unsupported"

BrowserEligible(s, doc) == SourceKind(s, doc) \in {"wildcard", "human", "group", "role"}

Reserved(s) == Kind[s] # "text"

GrantDestination(s, doc) ==
    \/ Kind[s] \in {"any", "self", "address", "cidr", "tag"}
    \/ ~Reserved(s) /\ s \in DOMAIN doc.hosts

SupportedCapability(c) ==
    /\ c.protocol # "malformed"
    /\ c.all \/ (1 <= c.start /\ c.start <= c.end /\ c.end <= 65535)

SupportedGrant(r, doc) ==
    /\ r.more = {}
    /\ r.src # {} /\ r.dst # {} /\ r.ip # {}
    /\ \A c \in r.ip : SupportedCapability(c)
    /\ \A s \in r.src : SourceKind(s, doc) # "unsupported"
    /\ \A d \in r.dst : GrantDestination(d, doc)
    /\ (\E d \in r.dst : Kind[d] = "self")
          => \A s \in r.src : SourceKind(s, doc) \in {"human", "group", "role"}

-----------------------------------------------------------------------------
(* What else a document may hold, and the document as a whole. *)

\* The protocol of a legacy rule is ignored, as its ports are.
SupportedACL(r) ==
    /\ r.more \subseteq {"proto"}
    /\ r.action = "accept"
    /\ \A s \in r.src \cup r.dst : Kind[s] # "reserved"

FunnelTarget(s, doc) ==
    \/ Kind[s] \in {"any", "tag", "login"} \/ s = Member
    \/ Kind[s] = "group" /\ s \in DOMAIN doc.groups

SupportedAttr(a, doc) ==
    /\ a.more = {}
    /\ a.target # {} /\ a.attr = {"funnel"}
    /\ \A s \in a.target : FunnelTarget(s, doc)

\* A document with anything else in it is rejected as a whole.
Accepted(doc, provider) ==
    /\ doc.sections \subseteq {"benign"}
    /\ \A k \in DOMAIN doc.acls : SupportedACL(doc.acls[k])
    /\ provider = "headscale" => doc.grants = <<>> /\ doc.attrs = <<>>
    /\ \A k \in DOMAIN doc.grants : SupportedGrant(doc.grants[k], doc)
    /\ \A k \in DOMAIN doc.attrs : SupportedAttr(doc.attrs[k], doc)

\* Legacy rules first, then grants, which keep the sources a person may match.
AccessRules(doc) ==
    [k \in DOMAIN doc.acls |->
        [kind |-> "acl", src |-> doc.acls[k].src, dst |-> doc.acls[k].dst, ip |-> {}]]
    \o
    [k \in DOMAIN doc.grants |->
        [kind |-> "grant", dst |-> doc.grants[k].dst, ip |-> doc.grants[k].ip,
         src  |-> {s \in doc.grants[k].src : BrowserEligible(s, doc)}]]

PermitsTCP(rule, port) ==
    \/ rule.kind = "acl"
    \/ /\ port \in 1..65535
       /\ \E c \in rule.ip : c.protocol \in {"any", "tcp"} /\ (c.all \/ port \in c.start..c.end)

-----------------------------------------------------------------------------
(* The ssh section, which one rule makes unsupported for all. *)

SupportedSSHSource(s, doc) ==
    \/ ExactLogin(s)
    \/ Kind[s] = "group" /\ s \in DOMAIN doc.groups /\ \A m \in doc.groups[s] : ExactLogin(m)
    \/ Kind[s] = "role"

SupportedSSHRule(r, doc) ==
    /\ r.form = "supported"
    /\ r.src # {} /\ r.dst # {} /\ r.users # {}
    /\ \A s \in r.src : SupportedSSHSource(s, doc)
    /\ \A d \in r.dst : Kind[d] \in {"self", "tag"}

SSHState(doc, provider) ==
    IF doc.ssh = <<>> THEN "absent"
    ELSE IF provider = "tailscale" /\ \A k \in DOMAIN doc.ssh : SupportedSSHRule(doc.ssh[k], doc)
    THEN "supported" ELSE "unsupported"
=============================================================================
