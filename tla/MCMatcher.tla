------------------------------ MODULE MCMatcher ------------------------------
(***************************************************************************)
(* Small policies for the matcher.  Texts stand for their class; two       *)
(* addresses, both the tailnet's, one of them in the CIDR.                 *)
(***************************************************************************)
EXTENDS Matcher

MCKind ==
    [t \in {"*"} |-> "any"] @@
    [t \in {"a1", "a2", "lan"} |-> "address"] @@
    [t \in {"net"} |-> "cidr"] @@
    [t \in {"group:g", "group:h"} |-> "group"] @@
    [t \in {"tag:t"} |-> "tag"] @@
    [t \in {"autogroup:self"} |-> "self"] @@
    [t \in {"autogroup:member", "autogroup:admin"} |-> "role"] @@
    [t \in {"autogroup:tagged"} |-> "device"] @@
    [t \in {"autogroup:internet"} |-> "autogroup"] @@
    [t \in {"svc:s"} |-> "reserved"] @@
    [t \in {"ann@x", "bob@x", "ann@", "nas@"} |-> "login"] @@
    [t \in {"ann", "nas"} |-> "text"]
MCCovers == "net" :> {"a1"}
MCShort == "ann" :> "ann@" @@ "nas" :> "nas@"
MCTailnet == {"a1", "a2"}

-----------------------------------------------------------------------------
(* Policies.  One rule at a time, then several. *)

Nothing == <<>>

TwoGroups == {"group:g" :> {"ann@x", "ann@"} @@ "group:h" :> {"bob@x"},
              "group:g" :> {"ann"} @@ "group:h" :> {"ann@x", "bob@x"}}
Aliases   == {Nothing, "nas" :> "a1", "nas" :> "net"}

Cap(protocol, start, end) == [protocol |-> protocol, all |-> FALSE, start |-> start, end |-> end]
AnyCap == [protocol |-> "any", all |-> TRUE, start |-> 0, end |-> 0]

ACL(s, d)         == [action |-> "accept", src |-> {s}, dst |-> {d}, more |-> {}]
Grant(s, d, c)    == [src |-> {s}, dst |-> {d}, ip |-> {c}, more |-> {}]
SSH(s, d, act, users) ==
    [form |-> "supported", action |-> act, src |-> {s}, dst |-> {d}, users |-> users]
Doc(groups, hosts, acls, grants, ssh) ==
    [groups |-> groups, hosts |-> hosts, acls |-> acls, grants |-> grants, ssh |-> ssh,
     attrs |-> <<>>, sections |-> {}]

Sources == {"*", "ann@x", "ann", "group:g", "group:h", "tag:t", "nas",
            "autogroup:member", "autogroup:tagged", "svc:s"}
Destinations == {"*", "a1", "net", "nas", "tag:t", "autogroup:self", "autogroup:internet"}
Caps == {AnyCap, Cap("tcp", 22, 79), Cap("tcp", 80, 80), Cap("other", 80, 80),
         Cap("tcp", 80, 79), Cap("any", 0, 80), Cap("any", 80, 65535), Cap("any", 80, 65536)}

ACLDocuments ==
    {Doc(g, h, <<ACL(s, d)>>, <<>>, <<>>) :
        g \in TwoGroups, h \in Aliases, s \in Sources, d \in Destinations}
GrantDocuments ==
    {Doc(g, h, <<>>, <<Grant(s, d, c)>>, <<>>) :
        g \in TwoGroups, h \in Aliases, s \in Sources, d \in Destinations, c \in Caps}

\* Several rules for the same hosts.
MixedDocuments ==
    {Doc(g, h, <<ACL(s, "net"), ACL("ann", d)>>, <<Grant("autogroup:member", d, AnyCap)>>, <<>>) :
        g \in TwoGroups, h \in Aliases, s \in {"group:g", "group:h"}, d \in {"nas", "*"}}

People == "group:g" :> {"ann@x"} @@ "group:h" :> {"ann@x", "bob@x"}

\* One ssh rule against what may or may not open TCP/22.
SSHDocuments ==
    {Doc(People, Nothing, acls, grants, <<SSH(s, d, act, {Nonroot, "dev"})>>) :
        acls \in {<<>>, <<ACL("*", "*")>>},
        grants \in {<<Grant(t, e, c)>> : t \in {"ann@x", "group:h", "autogroup:member", "tag:t"},
                                         e \in {"tag:t", "autogroup:self"},
                                         c \in {Cap("tcp", 22, 22), Cap("tcp", 80, 80)}}
                   \cup {<<>>},
        s \in {"ann@x", "group:h", "autogroup:member", "tag:t"},
        d \in {"tag:t", "autogroup:self"}, act \in {"accept"}}

\* Two ssh rules for the same machine.
CheckDocuments ==
    {Doc(People, Nothing, <<>>, <<Grant("autogroup:member", "*", AnyCap)>>,
         <<SSH(s, "tag:t", act, us), SSH("group:h", "tag:t", bct, vs)>>) :
        s \in {"ann@x", "bob@x"}, act \in {"accept", "check"}, bct \in {"accept", "check"},
        us \in {{"dev"}, {Nonroot}, {"root", "dev"}}, vs \in {{"dev"}, {Nonroot}, {"root", Nonroot}}}

\* Rules with conditions, and what else a policy may say beside two plain ones.
PlainDocument == Doc(People, Nothing, <<ACL("ann@x", "a1")>>, <<Grant("group:h", "a2", AnyCap)>>, <<>>)
Attr(s, attr, more) == [target |-> {s}, attr |-> {attr}, more |-> more]
ConditionDocuments ==
    {Doc(People, Nothing, <<[ACL("*", "*") EXCEPT !.more = {m}]>>, <<>>, <<>>) : m \in Beyond}
    \cup {Doc(People, Nothing, <<>>, <<[Grant("*", "*", AnyCap) EXCEPT !.more = {m}]>>, <<>>) : m \in Beyond}
    \cup {[PlainDocument EXCEPT !.sections = ss] : ss \in SUBSET Sections}
    \cup {[PlainDocument EXCEPT !.attrs = <<Attr(s, attr, more)>>] :
            s \in {"*", "ann@x", "group:g", "tag:t", "autogroup:member", "autogroup:admin", "a1", "nas"},
            attr \in {"funnel", "other"}, more \in {{}, {"app"}, {"unknown"}}}

MCDocuments == ConditionDocuments \cup ACLDocuments \cup GrantDocuments \cup MixedDocuments \cup SSHDocuments \cup CheckDocuments

\* A host alias with the name of a user.
ClashingDocuments ==
    {Doc(Nothing, "ann" :> "a1", <<ACL(s, d)>>, <<>>, <<>>) :
        s \in Sources, d \in Destinations}

-----------------------------------------------------------------------------
(* Proxies, devices and presentation metadata. *)

Named(lower, exact) == [lower |-> lower, exact |-> exact]
Host(name, host, port, domain) ==
    [enabled |-> TRUE, domain |-> domain, name |-> name, scheme |-> "web", host |-> host, port |-> port]
Proxies == <<Host(Named(1, 0), "a1", 80, "concrete"), Host(Named(0, 0), "nas", 80, "wildcard"),
             Host(Named(1, 1), "a2", 80, "concrete"),
             [Host(Named(1, 1), "a1", 80, "concrete") EXCEPT !.enabled = FALSE],
             Host(Named(1, 1), "a1", 80, "none"), Host(Named(2, 0), "a1", 0, "concrete")>>

Devices == <<[tags |-> {"tag:t"}, addresses |-> {"a1"}, owner |-> None, capable |-> TRUE, canonical |-> TRUE],
             [tags |-> {}, addresses |-> {"a2"}, owner |-> "ann@x", capable |-> TRUE, canonical |-> FALSE],
             [tags |-> {"tag:t"}, addresses |-> {"a2", "lan"}, owner |-> "ann@", capable |-> FALSE, canonical |-> TRUE],
             [tags |-> {"tag:t"}, addresses |-> {"lan"}, owner |-> None, capable |-> TRUE, canonical |-> FALSE]>>

Entry(category, order) == [name |-> None, url |-> TRUE, category |-> category, order |-> order]
Metadata ==
    {None,
     4 :> Entry(Named(0, 0), None),
     1 :> Entry(Named(0, 0), 1) @@ 2 :> Entry(Named(0, 1), 2) @@ 3 :> Entry(Named(0, 0), 3),
     1 :> Entry(None, 2) @@ 3 :> Entry(Named(0, 0), None)}

Directory == "ann@x" :> {"autogroup:member", "autogroup:admin"}

MCInventories ==
    {[proxies |-> Proxies, nodes |-> Devices, roles |-> r, metadata |-> m] :
        r \in {Nothing, Directory}, m \in Metadata}
=============================================================================
