---------------------------- MODULE MatcherProofs ----------------------------
(***************************************************************************)
(* Proofs about the matcher, for all policies, snapshots and users.        *)
(***************************************************************************)
EXTENDS Matcher, FiniteSetTheorems, SequenceTheorems, WellFoundedInduction, TLAPS

\* No group is a member of a group.
PlainGroups ==
    \A doc \in Documents : \A g \in DOMAIN doc.groups :
        \A m \in doc.groups[g] : Kind[m] # "group"

\* The set buildIdentitySet is to return.
Identities ==
    IdentityTokens(login)
        \cup {g \in DOMAIN document.groups : document.groups[g] \cap IdentityTokens(login) # {}}

\* The set it has once it has visited all groups but those left.
IdentitiesBut(left) ==
    IdentityTokens(login)
        \cup {g \in DOMAIN document.groups \ left : document.groups[g] \cap IdentityTokens(login) # {}}

\* What a request and the answers derive from.
Setting ==
    /\ document \in Documents /\ inventory \in Inventories /\ login \in Logins
    /\ Accepted(document, provider)
    /\ unvisited \subseteq DOMAIN document.groups
    /\ phase = "groups" => login # None

\* Services in some sorting of what a set of identities matches, and the machines.
AnswerBy(set) ==
    \E s \in Sortings(Matches(login, set)) :
        answer = [services |-> s, machines |-> Machines(login)]

\* Whatever the groups are.
BaseInv ==
    /\ Setting
    /\ answer # None =>
        \/ login = None /\ answer = [services |-> <<>>, machines |-> {}]
        \/ login # None /\ \E set : AnswerBy(set)

\* With plain groups the loop computes one set.
LoopInv ==
    /\ Setting
    /\ phase = "groups" => ids = IdentitiesBut(unvisited)
    /\ answer # None =>
        \/ login = None /\ answer = [services |-> <<>>, machines |-> {}]
        \/ login # None /\ AnswerBy(Identities)

-----------------------------------------------------------------------------
(* The order of the cards. *)

\* A nonempty set of naturals has a least element.
LEMMA LeastElement ==
    ASSUME NEW T \in SUBSET Nat, T # {}
    PROVE  \E m \in T : \A k \in T : m <= k
<1>1. IsWellFoundedOn(OpToRel(<, Nat), Nat)
  BY NatLessThanWellFounded
<1>2. PICK m \in T : \A k \in T : <<k, m>> \notin OpToRel(<, Nat)
  BY <1>1, WFMin
<1>3. \A k \in T : ~(k < m)
  BY <1>2 DEF OpToRel
<1>4. QED
  BY <1>3

\* Categories: a strict order that tells any two apart, with the empty one last.
LEMMA CategoryOrder ==
    ASSUME NEW a \in Label \cup {None}, NEW b \in Label \cup {None}, NEW c \in Label \cup {None}
    PROVE  /\ ~CategoryLess(a, a)
           /\ CategoryLess(a, b) /\ CategoryLess(b, c) => CategoryLess(a, c)
           /\ a # b => CategoryLess(a, b) \/ CategoryLess(b, a)
BY MatcherAssumption DEF CategoryLess, Label

\* Explicit positions: the same, with a missing one last.
LEMMA PositionOrder ==
    ASSUME NEW a \in Int \cup {None}, NEW b \in Int \cup {None}, NEW c \in Int \cup {None}
    PROVE  /\ ~OrderLess(a, a)
           /\ OrderLess(a, b) /\ OrderLess(b, c) => OrderLess(a, c)
           /\ a # b => OrderLess(a, b) \/ OrderLess(b, a)
BY MatcherAssumption DEF OrderLess

\* Names and then IDs.
LEMMA NameOrder ==
    ASSUME NEW c \in Card, NEW d \in Card, NEW e \in Card
    PROVE  /\ ~NameLess(c, c)
           /\ NameLess(c, d) /\ NameLess(d, e) => NameLess(c, e)
           /\ c.id # d.id => NameLess(c, d) \/ NameLess(d, c)
BY DEF NameLess, Card, Label

\* serviceCardLess is a strict order that tells any two cards apart: what
\* sort.Slice needs to sort at all, and to have one result.
THEOREM CardOrder ==
    ASSUME NEW c \in Card, NEW d \in Card, NEW e \in Card, NEW organized \in BOOLEAN
    PROVE  /\ ~ServiceCardLess(c, c, organized)
           /\ ServiceCardLess(c, d, organized) /\ ServiceCardLess(d, e, organized)
                => ServiceCardLess(c, e, organized)
           /\ c.id # d.id => ServiceCardLess(c, d, organized) \/ ServiceCardLess(d, c, organized)
<1>1. /\ {c.category, d.category, e.category} \subseteq Label \cup {None}
      /\ {c.order, d.order, e.order} \subseteq Int \cup {None}
  BY DEF Card
<1>2. ~ServiceCardLess(c, c, organized)
  BY <1>1, CategoryOrder, PositionOrder, NameOrder DEF ServiceCardLess
<1>3. ASSUME ServiceCardLess(c, d, organized), ServiceCardLess(d, e, organized)
      PROVE  ServiceCardLess(c, e, organized)
  <2>1. CASE ~organized
    BY <1>3, <2>1, NameOrder DEF ServiceCardLess
  <2>2. CASE organized /\ c.category = d.category /\ d.category = e.category
    BY <1>1, <1>3, <2>2, CategoryOrder, PositionOrder, NameOrder DEF ServiceCardLess
  <2>3. CASE organized /\ ~(c.category = d.category /\ d.category = e.category)
    <3>1. /\ c.category = d.category \/ CategoryLess(c.category, d.category)
          /\ d.category = e.category \/ CategoryLess(d.category, e.category)
      BY <1>3, <2>3 DEF ServiceCardLess
    <3>2. CategoryLess(c.category, e.category)
      BY <1>1, <2>3, <3>1, CategoryOrder
    <3>3. QED
      BY <2>3, <3>2 DEF ServiceCardLess
  <2>4. QED
    BY <2>1, <2>2, <2>3
<1>4. ASSUME c.id # d.id
      PROVE  ServiceCardLess(c, d, organized) \/ ServiceCardLess(d, c, organized)
  BY <1>1, <1>4, CategoryOrder, PositionOrder, NameOrder DEF ServiceCardLess
<1>5. QED
  BY <1>2, <1>3, <1>4

-----------------------------------------------------------------------------
(* Cards and their sorting. *)

\* Cards have the type they should, and take no place where there is no metadata.
LEMMA CardType ==
    ASSUME inventory \in Inventories, NEW id \in DOMAIN inventory.proxies
    PROVE  /\ ResolveServiceCard(id) \in Card
           /\ ResolveServiceCard(id).id = id
           /\ ~Organized => ResolveServiceCard(id).category = None
<1>1. inventory.proxies[id] \in Proxy /\ id \in Nat
  BY MatcherAssumption
<1>2. OverrideFor(id) \in Override
  BY MatcherAssumption DEF OverrideFor, Override
<1>3. ~Organized => OverrideFor(id).category = None
  BY DEF OverrideFor, Organized
<1>4. QED
  BY <1>1, <1>2, <1>3 DEF ResolveServiceCard, Override, Proxy, Card

\* A match is known by the ID of its card.
LEMMA MatchType ==
    ASSUME inventory \in Inventories, NEW set, NEW m \in Matches(login, set)
    PROVE  /\ m.card \in Card
           /\ m.card.id \in DOMAIN inventory.proxies
           /\ m = [card |-> ResolveServiceCard(m.card.id),
                   rule |-> Min(MatchingRules(inventory.proxies[m.card.id], login, set))]
<1>1. PICK id \in DOMAIN inventory.proxies :
        m = [card |-> ResolveServiceCard(id),
             rule |-> Min(MatchingRules(inventory.proxies[id], login, set))]
  BY DEF Matches
<1>2. m.card = ResolveServiceCard(id)
  BY <1>1
<1>3. QED
  BY <1>1, <1>2, CardType

\* There are finitely many matches.
LEMMA MatchesFinite ==
    ASSUME inventory \in Inventories, NEW set
    PROVE  IsFiniteSet(Matches(login, set))
<1> DEFINE Id == {m.card.id : m \in Matches(login, set)}
           f  == [m \in Matches(login, set) |-> m.card.id]
<1>1. IsFiniteSet(DOMAIN inventory.proxies)
  BY MatcherAssumption
<1>2. f \in Injection(Matches(login, set), DOMAIN inventory.proxies)
  <2>1. f \in [Matches(login, set) -> DOMAIN inventory.proxies]
    BY MatchType
  <2>2. \A m, n \in Matches(login, set) : f[m] = f[n] => m = n
    BY MatchType
  <2>3. QED
    BY <2>1, <2>2 DEF Injection, IsInjective
<1>3. QED
  BY <1>1, <1>2, FS_Injection

\* A sequence of all elements, each once, has every one of them.
LEMMA SequenceOfAll ==
    ASSUME NEW S, IsFiniteSet(S), NEW s \in SetToSeqs(S), NEW x \in S
    PROVE  \E i \in 1..Cardinality(S) : s[i] = x
<1> DEFINE D == 1..Cardinality(S)
<1>1. Cardinality(S) \in Nat
  BY FS_CardinalityType
<1>2. IsFiniteSet(D) /\ Cardinality(D) = Cardinality(S)
  BY <1>1, FS_Interval
<1>3. s \in Injection(D, S)
  BY DEF SetToSeqs, Injection, IsInjective
<1>4. s \in Surjection(D, S)
  BY <1>2, <1>3, FS_Injection
<1>5. QED
  BY <1>4 DEF Surjection

\* Functions are equal that are equal everywhere.
LEMMA SameFunction ==
    ASSUME NEW D, NEW S, NEW f \in [D -> S], NEW g \in [D -> S], \A i \in D : f[i] = g[i]
    PROVE  f = g
<1>1. f = [i \in D |-> f[i]] /\ g = [i \in D |-> g[i]]
  OBVIOUS
<1>2. QED
  BY <1>1

\* The sort has one result: at the first place where two differ, the order
\* would have to hold both ways.
LEMMA OneSorting ==
    ASSUME inventory \in Inventories, NEW set,
           NEW s \in Sortings(Matches(login, set)), NEW t \in Sortings(Matches(login, set))
    PROVE  s = t
<1> DEFINE S == Matches(login, set)
           D == 1..Cardinality(S)
           Differ == {i \in D : s[i] # t[i]}
<1>1. IsFiniteSet(S) /\ Cardinality(S) \in Nat
  BY MatchesFinite, FS_CardinalityType
<1>2. /\ s \in SetToSeqs(S) /\ t \in SetToSeqs(S)
      /\ s \in [D -> S] /\ t \in [D -> S]
      /\ \A i, j \in D : i # j => s[i] # s[j] /\ t[i] # t[j]
  BY DEF Sortings, SetToSeqs
<1>3. \A i, j \in D : i < j => /\ ~ServiceCardLess(s[j].card, s[i].card, Organized)
                               /\ ~ServiceCardLess(t[j].card, t[i].card, Organized)
  BY <1>2 DEF Sortings
<1>4. SUFFICES ASSUME Differ # {} PROVE FALSE
  <2>1. Differ = {} => \A i \in D : s[i] = t[i]
    OBVIOUS
  <2>2. (\A i \in D : s[i] = t[i]) => s = t
    <3> HIDE DEF S, D
    <3>1. QED
      BY <1>2, SameFunction
  <2>3. QED
    BY <2>1, <2>2
<1>5. PICK i \in Differ : \A k \in Differ : i <= k
  <2>1. Differ \in SUBSET Nat
    BY <1>1
  <2>2. QED
    BY <1>4, <2>1, LeastElement
<1>6. PICK j \in D : t[j] = s[i]
  BY <1>1, <1>2, <1>5, SequenceOfAll
<1>7. PICK k \in D : s[k] = t[i]
  BY <1>1, <1>2, <1>5, SequenceOfAll
<1>8. i < j /\ i < k
  BY <1>1, <1>2, <1>5, <1>6, <1>7
<1>9. /\ ~ServiceCardLess(s[i].card, t[i].card, Organized)
      /\ ~ServiceCardLess(t[i].card, s[i].card, Organized)
  BY <1>3, <1>5, <1>6, <1>7, <1>8
<1>10. s[i] \in S /\ t[i] \in S /\ s[i] # t[i]
  BY <1>2, <1>5
<1>11. s[i].card.id # t[i].card.id
  BY <1>10, MatchType
<1>12. s[i].card \in Card /\ t[i].card \in Card /\ Organized \in BOOLEAN
  BY <1>10, MatchType DEF Organized
<1>13. QED
  BY <1>9, <1>11, <1>12, CardOrder

-----------------------------------------------------------------------------
(* Steps. *)

\* Requests change nothing the matching reads.
LEMMA SameMatching ==
    ASSUME UNCHANGED snapshot, NEW CONSTANT set
    PROVE  /\ Sortings(Matches(login, set))' = Sortings(Matches(login, set))
           /\ Machines(login)' = Machines(login)
<1>1. /\ document' = document /\ inventory' = inventory
      /\ provider' = provider /\ login' = login
  BY DEF snapshot
<1>2. QED
  BY <1>1 DEF Sortings, Matches, Organized, ResolveServiceCard, OverrideFor, MatchingRules,
     SourceGranted, DestinationGranted, MatchDestination, MatchResolvedDestination, Alias,
     TagAddresses, SelfAddresses, Roles, Machines, ProjectionAvailable, HasTarget,
     SSHAccess, AccessByUser, SSHRuleApplies, SSHIdentitySet, Action, MachineGranted

\* A sorting stays one while the snapshot stays.
LEMMA SameAnswer ==
    ASSUME UNCHANGED snapshot, NEW CONSTANT set, AnswerBy(set), answer' = answer
    PROVE  AnswerBy(set)'
BY SameMatching DEF AnswerBy

\* What is read, and where answers come from.
LEMMA BaseHolds == Spec => []BaseInv
<1>1. ASSUME Init PROVE BaseInv
  BY <1>1 DEF Init, BaseInv, Setting
<1>2. ASSUME BaseInv, [Next]_vars PROVE BaseInv'
  <2>1. /\ UNCHANGED snapshot
        /\ document' = document /\ inventory' = inventory
        /\ login' = login /\ provider' = provider
    BY <1>2 DEF Next, Refuse, Request, VisitGroup, Render, vars, snapshot
  <2>2. Setting'
    BY <1>2, <2>1 DEF BaseInv, Setting, Next, Refuse, Request, VisitGroup, Render, vars
  <2>3. CASE UNCHANGED answer
    BY <1>2, <2>1, <2>2, <2>3, SameAnswer DEF BaseInv
  <2>4. CASE Refuse
    BY <2>1, <2>2, <2>4 DEF BaseInv, Refuse
  <2>5. CASE Render
    <3>1. PICK s \in Sortings(Matches(login, ids)) :
            answer' = [services |-> s, machines |-> Machines(login)]
      BY <2>5 DEF Render
    <3>2. PICK set : set = ids
      OBVIOUS
    <3>3. s \in Sortings(Matches(login, set))' /\ Machines(login)' = Machines(login)
      BY <2>1, <3>1, <3>2, SameMatching
    <3>4. AnswerBy(set)'
      BY <3>1, <3>3 DEF AnswerBy
    <3>5. login' # None
      BY <1>2, <2>1, <2>5 DEF BaseInv, Setting, Render
    <3>6. QED
      BY <2>2, <3>4, <3>5 DEF BaseInv
  <2>6. QED
    BY <1>2, <2>3, <2>4, <2>5 DEF Next, Request, VisitGroup, vars
<1>3. QED
  BY <1>1, <1>2, PTL DEF Spec

\* With plain groups a group is of interest or not whatever was visited before.
LEMMA PlainMembers ==
    ASSUME PlainGroups, document \in Documents, NEW left, NEW g \in DOMAIN document.groups
    PROVE  document.groups[g] \cap IdentitiesBut(left) # {}
              <=> document.groups[g] \cap IdentityTokens(login) # {}
<1>1. \A m \in document.groups[g] : Kind[m] # "group"
  BY DEF PlainGroups
<1>2. \A h \in DOMAIN document.groups : Kind[h] = "group"
  BY MatcherAssumption
<1>3. document.groups[g] \cap IdentitiesBut(left) \subseteq IdentityTokens(login)
  BY <1>1, <1>2 DEF IdentitiesBut
<1>4. QED
  BY <1>3 DEF IdentitiesBut

\* The loop over plain groups computes the same set in every order.
LEMMA LoopHolds == ASSUME PlainGroups PROVE Spec => []LoopInv
<1>1. ASSUME Init PROVE LoopInv
  BY <1>1 DEF Init, LoopInv, Setting
<1>2. ASSUME LoopInv, [Next]_vars PROVE LoopInv'
  <2>1. /\ UNCHANGED snapshot
        /\ document' = document /\ inventory' = inventory
        /\ login' = login /\ provider' = provider
    BY <1>2 DEF Next, Refuse, Request, VisitGroup, Render, vars, snapshot
  <2>2. Setting'
    BY <1>2, <2>1 DEF LoopInv, Setting, Next, Refuse, Request, VisitGroup, Render, vars
  <2>3. Identities' = Identities /\ \A left : IdentitiesBut(left)' = IdentitiesBut(left)
    BY <2>1 DEF Identities, IdentitiesBut
  <2>4. (answer # None /\ answer' = answer) =>
            \/ login' = None /\ answer' = [services |-> <<>>, machines |-> {}]
            \/ login' # None /\ AnswerBy(Identities)'
    BY <1>2, <2>1, <2>3, SameMatching DEF LoopInv, AnswerBy
  <2>5. CASE Refuse
    BY <1>2, <2>1, <2>2, <2>5 DEF LoopInv, Setting, Refuse
  <2>6. CASE Request
    <3>1. ids' = IdentitiesBut(unvisited')
      BY <2>1, <2>6 DEF Request, IdentitiesBut
    <3>2. QED
      BY <2>1, <2>2, <2>3, <2>4, <2>6, <3>1 DEF LoopInv, Request, IdentitiesBut
  <2>7. ASSUME NEW g \in unvisited, VisitGroup(g) PROVE LoopInv'
    <3>1. ids = IdentitiesBut(unvisited) /\ g \in DOMAIN document.groups
      BY <1>2, <2>7 DEF LoopInv, Setting, VisitGroup
    <3>2. document.groups[g] \cap ids # {} <=> document.groups[g] \cap IdentityTokens(login) # {}
      BY <1>2, <3>1, PlainMembers DEF LoopInv, Setting
    <3>3. ids' = IdentitiesBut(unvisited \ {g})
      BY <2>7, <3>1, <3>2 DEF VisitGroup, IdentitiesBut
    <3>4. QED
      BY <2>1, <2>2, <2>4, <2>7, <3>3 DEF LoopInv, VisitGroup, IdentitiesBut
  <2>8. CASE Render
    <3>1. ids = Identities
      BY <1>2, <2>8 DEF LoopInv, Render, IdentitiesBut, Identities
    <3>2. PICK s \in Sortings(Matches(login, Identities)) :
            answer' = [services |-> s, machines |-> Machines(login)]
      BY <2>8, <3>1 DEF Render
    <3>3. AnswerBy(Identities)'
      BY <2>1, <2>3, <3>2, SameMatching DEF AnswerBy
    <3>4. login' # None /\ phase' = "idle"
      BY <1>2, <2>1, <2>8 DEF LoopInv, Setting, Render
    <3>5. QED
      BY <2>2, <3>3, <3>4 DEF LoopInv
  <2>9. CASE UNCHANGED vars
    BY <1>2, <2>1, <2>2, <2>4, <2>9 DEF LoopInv, vars, IdentitiesBut
  <2>10. QED
    BY <1>2, <2>5, <2>6, <2>7, <2>8, <2>9 DEF Next
<1>3. QED
  BY <1>1, <1>2, PTL DEF Spec

-----------------------------------------------------------------------------
(* Theorems. *)

\* Without groups in groups, map order and sort.Slice are both invisible: all
\* answers to one user from one snapshot are the same.
THEOREM OneAnswer == ASSUME PlainGroups PROVE Spec => AnswersAgree
<1>1. ASSUME LoopInv, LoopInv', [Next]_vars, answer # None PROVE answer' = answer
  <2>1. CASE Refuse
    BY <1>1, <2>1 DEF LoopInv, Refuse
  <2>2. CASE Render
    <3>1. ids = Identities /\ login # None /\ inventory \in Inventories
      BY <1>1, <2>2 DEF LoopInv, Setting, Render, IdentitiesBut, Identities
    <3>2. PICK s \in Sortings(Matches(login, Identities)) :
            answer = [services |-> s, machines |-> Machines(login)]
      BY <1>1, <3>1 DEF LoopInv, AnswerBy
    <3>3. PICK t \in Sortings(Matches(login, Identities)) :
            answer' = [services |-> t, machines |-> Machines(login)]
      BY <2>2, <3>1 DEF Render
    <3>4. s = t
      BY <3>1, OneSorting
    <3>5. QED
      BY <3>2, <3>3, <3>4
  <2>3. QED
    BY <1>1, <2>1, <2>2 DEF Next, Request, VisitGroup, vars
<1>2. Spec => []LoopInv
  BY LoopHolds
<1>3. QED
  BY <1>1, <1>2, PTL DEF Spec, AnswersAgree

\* The cards of an answer, as far as the sections see them.
LEMMA SortedCards ==
    ASSUME inventory \in Inventories, NEW set, NEW s \in Sortings(Matches(login, set))
    PROVE  /\ DOMAIN s = 1..Cardinality(Matches(login, set))
           /\ Cardinality(Matches(login, set)) \in Nat
           /\ \A i \in DOMAIN s : s[i] \in Matches(login, set) /\ s[i].card \in Card
           /\ \A i \in DOMAIN s : ~Organized => s[i].card.category = None
           /\ \A i, j \in DOMAIN s : i < j =>
                    ~ServiceCardLess(s[j].card, s[i].card, Organized)
<1>1. s \in [1..Cardinality(Matches(login, set)) -> Matches(login, set)]
  BY DEF Sortings, SetToSeqs
<1>2. \A m \in Matches(login, set) :
        /\ m.card \in Card
        /\ ~Organized => m.card.category = None
  BY MatchType, CardType
<1>3. QED
  BY <1>1, <1>2, MatchesFinite, FS_CardinalityType DEF Sortings

\* The order of the cards gives renderServiceSections one run of each category.
THEOREM SectionsHold == Spec => []OneSectionPerCategory
<1>1. ASSUME BaseInv, answer # None PROVE OneSectionPerCategory
  <2>1. CASE answer = [services |-> <<>>, machines |-> {}]
    BY <2>1 DEF OneSectionPerCategory, SectionStarts
  <2>2. CASE \E set : AnswerBy(set)
    <3> DEFINE s == answer.services
               Category(i) == s[i].card.category
    <3>1. inventory \in Inventories /\ \E set : s \in Sortings(Matches(login, set))
      BY <1>1, <2>2 DEF BaseInv, Setting, AnswerBy
    <3>2. PICK n \in Nat : DOMAIN s = 1..n
      BY <3>1, SortedCards
    <3>3. /\ \A i \in DOMAIN s : s[i].card \in Card /\ (~Organized => Category(i) = None)
          /\ \A i, j \in DOMAIN s : i < j => ~ServiceCardLess(s[j].card, s[i].card, Organized)
      BY <3>1, SortedCards
    <3>4. \A i \in DOMAIN s : Category(i) \in Label \cup {None}
      BY <3>3 DEF Card
    <3>5. \A i, j \in DOMAIN s : i < j => ~CategoryLess(Category(j), Category(i))
      <4>1. SUFFICES ASSUME NEW i \in DOMAIN s, NEW j \in DOMAIN s, i < j
                     PROVE  ~CategoryLess(Category(j), Category(i))
        OBVIOUS
      <4>2. CASE Organized
        BY <3>3, <4>1, <4>2 DEF ServiceCardLess
      <4>3. CASE ~Organized
        BY <3>3, <4>1, <4>3 DEF CategoryLess
      <4>4. QED
        BY <4>2, <4>3
    <3> HIDE DEF s, Category
    <3>6. ASSUME NEW i \in DOMAIN s, NEW j \in DOMAIN s, i < j, Category(i) = Category(j)
          PROVE  Category(j - 1) = Category(j)
      <4>1. j - 1 \in DOMAIN s /\ j - 1 < j /\ (i = j - 1 \/ i < j - 1)
        BY <3>2, <3>6
      <4>2. i < j - 1 => ~CategoryLess(Category(j - 1), Category(j))
        BY <3>5, <3>6, <4>1
      <4>3. ~CategoryLess(Category(j), Category(j - 1))
        BY <3>5, <4>1
      <4>4. QED
        BY <3>4, <3>6, <4>1, <4>2, <4>3, CategoryOrder
    <3>7. \A i, j \in DOMAIN s : (i < j /\ Category(i) = None) => Category(j) = None
      BY <3>5 DEF CategoryLess
    <3>8. \A i \in SectionStarts(s) : i \in DOMAIN s /\ (i = 1 \/ Category(i) # Category(i - 1))
      BY DEF SectionStarts, Category
    <3>9. \A i, j \in SectionStarts(s) : Category(i) = Category(j) => i = j
      <4>1. SUFFICES ASSUME NEW i \in SectionStarts(s), NEW j \in SectionStarts(s),
                            Category(i) = Category(j), i < j
                     PROVE  FALSE
        BY <3>2, <3>8
      <4>2. j # 1
        BY <3>2, <3>8, <4>1
      <4>3. QED
        BY <3>6, <3>8, <4>1, <4>2
    <3>10. QED
      BY <3>7, <3>9 DEF OneSectionPerCategory, s, Category
  <2>3. QED
    BY <1>1, <2>1, <2>2 DEF BaseInv
<1>2. BaseInv => OneSectionPerCategory
  BY <1>1 DEF OneSectionPerCategory
<1>3. QED
  BY <1>2, BaseHolds, PTL

-----------------------------------------------------------------------------
(* Machines. *)

\* Min is least, and exists.
LEMMA MinInSet ==
    ASSUME NEW T \in SUBSET Nat, T # {}
    PROVE  Min(T) \in T /\ \A k \in T : Min(T) <= k
BY LeastElement DEF Min

\* An exact login is named by itself and by the groups it is a member of.
LEMMA ExactName ==
    ASSUME document \in Documents, login \in Logins, ExactLogin(login), NEW s \in Texts
    PROVE  NamedBy(s, login) <=> s \in SSHIdentitySet(login)
<1>1. \A t \in Texts : (Person(t) /\ Normal(t) = Normal(login)) <=> t = login
  <2>1. SUFFICES ASSUME NEW t \in Texts
                 PROVE  (Person(t) /\ Normal(t) = Normal(login)) <=> t = login
    OBVIOUS
  <2>2. Normal(login) = login /\ Person(login)
    BY DEF ExactLogin, Normal, Person
  <2>3. CASE Kind[t] = "text"
    <3>1. Short[t] \in Range(Short)
      BY <2>3, SelectorAssumption DEF Range
    <3>2. QED
      BY <2>2, <2>3, <3>1 DEF Normal, ExactLogin
  <2>4. CASE Kind[t] # "text"
    BY <2>2, <2>4 DEF Normal, Person
  <2>5. QED
    BY <2>3, <2>4
<1>2. \A g \in DOMAIN document.groups : document.groups[g] \subseteq Texts
  BY MatcherAssumption
<1>3. QED
  BY <1>1, <1>2 DEF NamedBy, SSHIdentitySet

\* The matcher applies the ssh rules the policy means.
LEMMA RulesApply ==
    ASSUME document \in Documents, login \in Logins, ExactLogin(login),
           NEW n, NEW k \in DOMAIN document.ssh
    PROVE  SSHRuleApplies(document.ssh[k], n, login) <=> k \in SSHRulesFor(n, login)
<1>1. document.ssh[k].src \subseteq Texts
  <2>1. document.ssh \in Seq(WireSSH)
    BY MatcherAssumption
  <2>2. document.ssh[k] \in WireSSH
    BY <2>1
  <2>3. QED
    BY <2>2 DEF WireSSH
<1>2. \A s \in document.ssh[k].src : NamedBy(s, login) <=> s \in SSHIdentitySet(login)
  BY <1>1, ExactName
<1>3. QED
  BY <1>2 DEF SSHRuleApplies, SSHRulesFor

\* The rules for an account on a machine, and those of them that check.
RulesFor(n, u) == {k \in SSHRulesFor(n, login) : u \in document.ssh[k].users}
ChecksFor(n, u) == {k \in RulesFor(n, u) : document.ssh[k].action = "check"}

\* Every account of an applying rule has one entry, by a check rule if there is one.
LEMMA AccountEntries ==
    ASSUME document \in Documents, login \in Logins, ExactLogin(login), NEW n
    PROVE  /\ \A u : RulesFor(n, u) # {} => \E a \in AccessByUser(n, login) : a.user = u
           /\ \A a \in AccessByUser(n, login) :
                /\ RulesFor(n, a.user) # {}
                /\ ChecksFor(n, a.user) # {} => Action(a) = "check"
<1> DEFINE For(u) == {k \in DOMAIN document.ssh :
                        u \in document.ssh[k].users /\ SSHRuleApplies(document.ssh[k], n, login)}
           Checks(u) == {k \in For(u) : document.ssh[k].action = "check"}
<1>1. \A u : For(u) = RulesFor(n, u) /\ Checks(u) = ChecksFor(n, u)
  <2>1. SSHRulesFor(n, login) \subseteq DOMAIN document.ssh
    BY DEF SSHRulesFor
  <2>2. QED
    BY <2>1, RulesApply DEF RulesFor, ChecksFor
<1>2. DOMAIN document.ssh \subseteq Nat
  <2>1. document.ssh \in Seq(WireSSH)
    BY MatcherAssumption
  <2>2. QED
    BY <2>1
<1>3. AccessByUser(n, login) =
        {[user |-> u, rule |-> Min(IF Checks(u) # {} THEN Checks(u) ELSE For(u))] :
            u \in {v \in UNION {document.ssh[k].users : k \in DOMAIN document.ssh} : For(v) # {}}}
  BY DEF AccessByUser
<1>4. ASSUME NEW u, RulesFor(n, u) # {}
      PROVE  \E a \in AccessByUser(n, login) : a.user = u
  <2>1. For(u) # {}
    BY <1>1, <1>4
  <2>2. u \in UNION {document.ssh[k].users : k \in DOMAIN document.ssh}
    BY <2>1
  <2> DEFINE a == [user |-> u, rule |-> Min(IF Checks(u) # {} THEN Checks(u) ELSE For(u))]
  <2>3. u \in {v \in UNION {document.ssh[k].users : k \in DOMAIN document.ssh} : For(v) # {}}
    BY <2>1, <2>2
  <2>4. a \in AccessByUser(n, login)
    <3> HIDE DEF For, Checks
    <3>1. QED
      BY <1>3, <2>3
  <2>5. QED
    BY <2>4
<1>5. ASSUME NEW a \in AccessByUser(n, login), ChecksFor(n, a.user) # {}
      PROVE  Action(a) = "check"
  <2>1. PICK u : a = [user |-> u, rule |-> Min(IF Checks(u) # {} THEN Checks(u) ELSE For(u))]
    BY <1>3, <1>5
  <2>2. Checks(u) # {} /\ a.rule = Min(Checks(u))
    BY <1>1, <1>5, <2>1
  <2>3. Checks(u) \in SUBSET Nat
    BY <1>2
  <2>4. a.rule \in Checks(u)
    BY <2>2, <2>3, MinInSet
  <2>5. QED
    BY <2>4 DEF Action
<1>6. ASSUME NEW a \in AccessByUser(n, login) PROVE RulesFor(n, a.user) # {}
  <2>1. PICK u \in {v \in UNION {document.ssh[k].users : k \in DOMAIN document.ssh} : For(v) # {}} :
          a = [user |-> u, rule |-> Min(IF Checks(u) # {} THEN Checks(u) ELSE For(u))]
    BY <1>3, <1>6
  <2>2. a.user = u /\ For(u) # {}
    BY <2>1
  <2>3. QED
    BY <1>1, <2>2
<1>7. QED
  BY <1>4, <1>5, <1>6

\* No check that the policy puts on an account is left out of what is shown.
THEOREM ChecksHold == Spec => []CheckIsNotBypassed
<1>1. ASSUME BaseInv, answer # None, NEW m \in answer.machines
      PROVE  LET ChecksOn(u) ==
                    {k \in SSHRulesFor(m.id, login) :
                        /\ document.ssh[k].action = "check"
                        /\ u \in document.ssh[k].users
                            \/ (u # "root" /\ Nonroot \in document.ssh[k].users)}
             IN  /\ \A a \in m.access : Action(a) = "accept" => ChecksOn(a.user) = {}
                 /\ \A k \in SSHRulesFor(m.id, login) : \A u \in document.ssh[k].users :
                     \/ \E a \in m.access : a.user = u
                     \/ u # "root" /\ \E a \in m.access : a.user = Nonroot /\ Action(a) = "check"
  <2> DEFINE n == m.id
             all == AccessByUser(n, login)
             pruned == \E a \in all : a.user = Nonroot /\ Action(a) = "check"
  <2>1. m \in Machines(login)
    BY <1>1 DEF BaseInv, AnswerBy
  <2>2. /\ ExactLogin(login)
        /\ m.access = SSHAccess(n, login)
    BY <2>1 DEF Machines
  <2>3. m.access = IF pruned
                   THEN {a \in all : a.user \in {"root", Nonroot} \/ Action(a) = "check"}
                   ELSE all
    BY <2>2 DEF SSHAccess
  <2>4. /\ \A u : RulesFor(n, u) # {} => \E a \in all : a.user = u
        /\ \A a \in all : ChecksFor(n, a.user) # {} => Action(a) = "check"
    BY <1>1, <2>2, AccountEntries DEF BaseInv, Setting
  <2> HIDE DEF n, all
  <2>5. ChecksFor(n, Nonroot) # {} => pruned
    <3>1. ChecksFor(n, Nonroot) # {} => RulesFor(n, Nonroot) # {}
      BY DEF ChecksFor
    <3>2. QED
      BY <2>4, <3>1
  <2>6. ASSUME NEW a \in m.access, Action(a) = "accept",
               NEW k \in SSHRulesFor(n, login), document.ssh[k].action = "check",
               a.user \in document.ssh[k].users
                   \/ (a.user # "root" /\ Nonroot \in document.ssh[k].users)
        PROVE  FALSE
    <3>1. a \in all
      BY <2>3, <2>6
    <3>2. ChecksFor(n, a.user) = {}
      BY <2>4, <2>6, <3>1
    <3>3. a.user \notin document.ssh[k].users
      BY <2>6, <3>2 DEF ChecksFor, RulesFor
    <3>4. ChecksFor(n, Nonroot) # {} /\ a.user # "root"
      BY <2>6, <3>3 DEF ChecksFor, RulesFor
    <3>5. a.user = Nonroot
      BY <2>3, <2>5, <2>6, <3>4
    <3>6. QED
      BY <3>2, <3>4, <3>5
  <2>7. ASSUME NEW k \in SSHRulesFor(n, login), NEW u \in document.ssh[k].users
        PROVE  \/ \E a \in m.access : a.user = u
               \/ u # "root" /\ \E a \in m.access : a.user = Nonroot /\ Action(a) = "check"
    <3>1. PICK a \in all : a.user = u
      BY <2>4, <2>7 DEF RulesFor
    <3>2. CASE pruned
      BY <2>3, <3>1, <3>2
    <3>3. CASE ~pruned
      BY <2>3, <3>1, <3>3
    <3>4. QED
      BY <3>2, <3>3
  <2>8. QED
    BY <2>6, <2>7 DEF n
<1>2. BaseInv => CheckIsNotBypassed
  BY <1>1 DEF CheckIsNotBypassed
<1>3. QED
  BY <1>2, BaseHolds, PTL

-----------------------------------------------------------------------------
(* The policy. *)

\* The rules of a legacy section and of grants as accessRules lists them.
Legacy(k) == [kind |-> "acl", src |-> document.acls[k].src, dst |-> document.acls[k].dst, ip |-> {}]
Granting(k) ==
    [kind |-> "grant", dst |-> document.grants[k].dst, ip |-> document.grants[k].ip,
     src |-> {s \in document.grants[k].src : BrowserEligible(s, document)}]

\* Rules on the wire are what they seem.
LEMMA RuleTypes ==
    ASSUME document \in Documents
    PROVE  /\ \A k \in DOMAIN document.acls : document.acls[k] \in WireACL
           /\ \A k \in DOMAIN document.grants : document.grants[k] \in WireGrant
           /\ \A k \in DOMAIN document.ssh : document.ssh[k] \in WireSSH
<1>1. /\ document.acls \in Seq(WireACL) /\ document.grants \in Seq(WireGrant)
      /\ document.ssh \in Seq(WireSSH)
  BY MatcherAssumption
<1>2. QED
  BY <1>1

\* Two sequences in a row have the elements of both.
LEMMA Joined ==
    ASSUME NEW R, NEW f \in Seq(R), NEW g \in Seq(R)
    PROVE  /\ \A k \in DOMAIN (f \o g) :
                \/ \E i \in DOMAIN f : (f \o g)[k] = f[i]
                \/ \E i \in DOMAIN g : (f \o g)[k] = g[i]
           /\ \A i \in DOMAIN f : \E k \in DOMAIN (f \o g) : (f \o g)[k] = f[i]
           /\ \A i \in DOMAIN g : \E k \in DOMAIN (f \o g) : (f \o g)[k] = g[i]
           /\ DOMAIN (f \o g) \subseteq Nat
<1>1. PICK p \in Nat : p = Len(f) /\ DOMAIN f = 1..p
  OBVIOUS
<1>2. PICK q \in Nat : q = Len(g) /\ DOMAIN g = 1..q
  OBVIOUS
<1> DEFINE h == f \o g
<1>3. /\ DOMAIN h = 1..(p + q)
      /\ \A k \in 1..(p + q) : h[k] = IF k <= p THEN f[k] ELSE g[k - p]
  <2>1. h \in Seq(R) /\ Len(h) = p + q
    BY <1>1, <1>2, ConcatProperties
  <2>2. DOMAIN h = 1..(p + q)
    BY <2>1
  <2>3. QED
    BY <1>1, <1>2, <2>2, ConcatProperties
<1> HIDE DEF h
<1>4. ASSUME NEW k \in DOMAIN h
      PROVE  (\E i \in DOMAIN f : h[k] = f[i]) \/ (\E i \in DOMAIN g : h[k] = g[i])
  <2>1. CASE k <= p
    BY <1>1, <1>3, <1>4, <2>1
  <2>2. CASE ~(k <= p)
    <3>1. k - p \in 1..q /\ h[k] = g[k - p]
      BY <1>3, <1>4, <2>2
    <3>2. QED
      BY <1>2, <3>1
  <2>3. QED
    BY <2>1, <2>2
<1>5. ASSUME NEW i \in DOMAIN f PROVE \E k \in DOMAIN h : h[k] = f[i]
  <2>1. i \in 1..(p + q) /\ h[i] = f[i]
    BY <1>1, <1>3, <1>5
  <2>2. QED
    BY <1>3, <2>1
<1>6. ASSUME NEW i \in DOMAIN g PROVE \E k \in DOMAIN h : h[k] = g[i]
  <2>1. p + i \in 1..(p + q) /\ h[p + i] = g[i]
    BY <1>2, <1>3, <1>6
  <2>2. QED
    BY <1>3, <2>1
<1>7. DOMAIN h \subseteq Nat
  BY <1>3
<1>8. QED
  BY <1>4, <1>5, <1>6, <1>7 DEF h

\* accessRules loses no rule and adds none.
LEMMA AllRules ==
    ASSUME document \in Documents
    PROVE  LET rules == AccessRules(document)
           IN  /\ \A k \in DOMAIN rules :
                    \/ \E i \in DOMAIN document.acls : rules[k] = Legacy(i)
                    \/ \E i \in DOMAIN document.grants : rules[k] = Granting(i)
               /\ \A i \in DOMAIN document.acls : \E k \in DOMAIN rules : rules[k] = Legacy(i)
               /\ \A i \in DOMAIN document.grants : \E k \in DOMAIN rules : rules[k] = Granting(i)
               /\ DOMAIN rules \subseteq Nat
<1> DEFINE first  == [k \in DOMAIN document.acls |-> Legacy(k)]
           second == [k \in DOMAIN document.grants |-> Granting(k)]
           R == {first[k] : k \in DOMAIN first} \cup {second[k] : k \in DOMAIN second}
<1>1. AccessRules(document) = first \o second
  BY DEF AccessRules, Legacy, Granting
<1>2. document.acls \in Seq(WireACL) /\ document.grants \in Seq(WireGrant)
  BY MatcherAssumption
<1>3. /\ first \in Seq(R) /\ second \in Seq(R)
      /\ DOMAIN first = DOMAIN document.acls /\ DOMAIN second = DOMAIN document.grants
  <2>1. PICK p \in Nat : DOMAIN document.acls = 1..p
    BY <1>2
  <2>2. PICK q \in Nat : DOMAIN document.grants = 1..q
    BY <1>2
  <2>3. first \in [1..p -> R] /\ second \in [1..q -> R]
    BY <2>1, <2>2
  <2>4. QED
    BY <2>1, <2>2, <2>3
<1>4. /\ \A k \in DOMAIN first : first[k] = Legacy(k)
      /\ \A k \in DOMAIN second : second[k] = Granting(k)
  OBVIOUS
<1> DEFINE rules == AccessRules(document)
<1> HIDE DEF first, second, R, rules
<1>5. /\ \A k \in DOMAIN rules :
            (\E i \in DOMAIN first : rules[k] = first[i]) \/ (\E i \in DOMAIN second : rules[k] = second[i])
      /\ \A i \in DOMAIN first : \E k \in DOMAIN rules : rules[k] = first[i]
      /\ \A i \in DOMAIN second : \E k \in DOMAIN rules : rules[k] = second[i]
      /\ DOMAIN rules \subseteq Nat
  <2>1. rules = first \o second
    BY <1>1 DEF rules
  <2>2. /\ \A k \in DOMAIN (first \o second) :
                \/ \E i \in DOMAIN first : (first \o second)[k] = first[i]
                \/ \E i \in DOMAIN second : (first \o second)[k] = second[i]
        /\ \A i \in DOMAIN first :
                \E k \in DOMAIN (first \o second) : (first \o second)[k] = first[i]
        /\ \A i \in DOMAIN second :
                \E k \in DOMAIN (first \o second) : (first \o second)[k] = second[i]
        /\ DOMAIN (first \o second) \subseteq Nat
    BY <1>3, Joined, Zenon
  <2>3. QED
    BY <2>1, <2>2, Zenon
<1>6. QED
  BY <1>3, <1>4, <1>5 DEF rules

\* The set a finished loop leaves names the user and nobody else.
LEMMA IdentitiesName ==
    ASSUME document \in Documents, login \in Logins, login # None, NEW s \in Texts
    PROVE  s \in Identities <=> NamedBy(s, login)
<1>1. \A t \in Texts : t \in IdentityTokens(login) <=> (Person(t) /\ Normal(t) = Normal(login))
  <2>1. SUFFICES ASSUME NEW t \in Texts
                 PROVE  t \in IdentityTokens(login) <=> (Person(t) /\ Normal(t) = Normal(login))
    OBVIOUS
  <2>2. login \in Texts /\ Kind[login] \in {"login", "text"}
    BY MatcherAssumption
  <2>3. Kind[Normal(login)] = "login"
    BY <2>2, SelectorAssumption DEF Normal
  <2>4. DOMAIN Short = {b \in Texts : Kind[b] = "text"}
    BY SelectorAssumption
  <2>5. CASE Kind[t] = "text"
    BY <2>3, <2>4, <2>5 DEF IdentityTokens, Normal, Person
  <2>6. CASE Kind[t] # "text"
    BY <2>3, <2>4, <2>6 DEF IdentityTokens, Normal, Person
  <2>7. QED
    BY <2>5, <2>6
<1>2. \A g \in DOMAIN document.groups : document.groups[g] \subseteq Texts
  BY MatcherAssumption
<1>3. QED
  BY <1>1, <1>2 DEF Identities, NamedBy

\* A destination matches the hosts it denotes.
LEMMA DestinationDenotes ==
    ASSUME document \in Documents, NEW d \in Texts, NEW h \in Texts
    PROVE  MatchDestination(d, h, login) <=> h \in Denotes(d, login)
<1> DEFINE t == IF Kind[d] = "text" /\ d \in DOMAIN document.hosts THEN document.hosts[d] ELSE d
<1>1. t \in Texts
  BY MatcherAssumption
<1>2. MatchDestination(d, h, login) <=> MatchResolvedDestination(t, h, login)
  BY DEF MatchDestination, Alias, Reserved
<1>3. h \in Denotes(d, login) <=>
        h \in (CASE Kind[t] = "any"  -> Texts
                 [] Kind[t] = "tag"  -> {t} \cup TagAddresses(t)
                 [] Kind[t] = "self" -> {t} \cup SelfAddresses(login)
                 [] Kind[t] = "cidr" -> {t} \cup Covers[t]
                 [] OTHER            -> {t})
  BY DEF Denotes
<1> HIDE DEF t
<1>4. QED
  BY <1>1, <1>2, <1>3 DEF MatchResolvedDestination

\* A role names the user only where it is a role.
LEMMA RoleTexts ==
    ASSUME inventory \in Inventories, NEW s \in Roles(login)
    PROVE  s \in Texts /\ Kind[s] = "role"
BY MatcherAssumption DEF Roles

\* A legacy rule matches a host as the policy says.
LEMMA LegacyMatches ==
    ASSUME Setting, login # None, NEW i \in DOMAIN document.acls, NEW h \in Texts
    PROVE  (SourceGranted(Legacy(i), Identities, login) /\ DestinationGranted(Legacy(i), h, login))
              <=> /\ \E s \in document.acls[i].src : Kind[s] = "any" \/ NamedBy(s, login)
                  /\ \E d \in document.acls[i].dst : h \in Denotes(d, login)
<1>1. document.acls[i].src \subseteq Texts /\ document.acls[i].dst \subseteq Texts
  BY RuleTypes DEF Setting, WireACL
<1>2. \A s \in document.acls[i].src : s \in Identities <=> NamedBy(s, login)
  BY <1>1, IdentitiesName DEF Setting
<1>3. \A d \in document.acls[i].dst : MatchDestination(d, h, login) <=> h \in Denotes(d, login)
  BY <1>1, DestinationDenotes DEF Setting
<1>4. QED
  BY <1>2, <1>3 DEF SourceGranted, DestinationGranted, Legacy

\* A grant keeps its ports.
LEMMA SamePorts ==
    ASSUME document \in Documents, NEW i \in DOMAIN document.grants, NEW n
    PROVE  PermitsTCP(Granting(i), n) <=> TCP(document.grants[i], n)
<1> DEFINE caps == document.grants[i].ip
           In(c)  == c.protocol \in {"any", "tcp"} /\ (c.all \/ n \in c.start..c.end)
           Out(c) == c.protocol \in {"any", "tcp"} /\ (c.all \/ (c.start <= n /\ n <= c.end))
           Port == n \in 1..65535
<1>1. \A c \in caps : c.start \in Nat /\ c.end \in Nat
  BY RuleTypes DEF WireGrant, Capability
<1>2. ASSUME Port, NEW c \in caps PROVE In(c) <=> Out(c)
  <2>1. n \in c.start..c.end <=> (c.start <= n /\ n <= c.end)
    <3>1. n \in Nat
      BY <1>2
    <3>2. c.start \in Nat /\ c.end \in Nat
      BY <1>1
    <3>3. QED
      BY <3>1, <3>2
  <2>2. QED
    BY <2>1, Zenon
<1>3. TCP(document.grants[i], n) <=> (Port /\ \E c \in caps : Out(c))
  BY DEF TCP
<1>4. PermitsTCP(Granting(i), n) <=> (Port /\ \E c \in caps : In(c))
  BY DEF PermitsTCP, Granting
<1> HIDE DEF caps, In, Out, Port
<1>5. QED
  BY <1>2, <1>3, <1>4

\* A grant does, for any set that names the user as Identities does.
LEMMA GrantMatches ==
    ASSUME Setting, login # None, NEW i \in DOMAIN document.grants, NEW h \in Texts,
           NEW port, NEW set, \A s \in Texts : s \in set <=> NamedBy(s, login)
    PROVE  (/\ PermitsTCP(Granting(i), port)
            /\ SourceGranted(Granting(i), set, login)
            /\ DestinationGranted(Granting(i), h, login))
              <=> /\ TCP(document.grants[i], port)
                  /\ \E s \in document.grants[i].src : Kind[s] = "any" \/ NamedByGrant(s, login)
                  /\ \E d \in document.grants[i].dst : h \in Denotes(d, login)
<1> DEFINE rule == document.grants[i]
<1>1. rule \in WireGrant
  BY RuleTypes DEF Setting
<1>2. rule.src \subseteq Texts /\ rule.dst \subseteq Texts /\ rule.ip \subseteq Capability
  BY <1>1 DEF WireGrant
<1>3. \A s \in rule.src : SourceKind(s, document) # "unsupported"
  BY DEF Setting, Accepted, SupportedGrant
<1>4. ASSUME NEW s \in rule.src
      PROVE  (BrowserEligible(s, document) /\ (Kind[s] = "any" \/ s \in set \/ s \in Roles(login)))
                <=> (Kind[s] = "any" \/ NamedByGrant(s, login))
  <2>1. s \in Texts /\ (s \in set <=> NamedBy(s, login))
    BY <1>2
  <2>2. s \in Roles(login) => Kind[s] = "role"
    BY RoleTexts DEF Setting
  <2>3. NamedBy(s, login) => Kind[s] \in {"login", "text"} \/ (Kind[s] = "group" /\ s \in DOMAIN document.groups)
    BY MatcherAssumption DEF NamedBy, Person, Setting
  <2>4. CASE Kind[s] = "any"
    BY <2>4 DEF BrowserEligible, SourceKind
  <2>5. CASE Kind[s] = "role"
    BY <2>1, <2>3, <2>5 DEF BrowserEligible, SourceKind, NamedByGrant
  <2>6. CASE Kind[s] = "group"
    BY <1>3, <2>1, <2>2, <2>6 DEF BrowserEligible, SourceKind, NamedByGrant, Person
  <2>7. CASE Kind[s] = "login" \/ Kind[s] = "text"
    BY <1>3, <2>1, <2>2, <2>7 DEF BrowserEligible, SourceKind, NamedByGrant, Person
  <2>8. CASE Kind[s] \notin {"any", "role", "group", "login", "text"}
    BY <2>1, <2>2, <2>3, <2>8 DEF NamedByGrant
  <2>9. QED
    BY <2>4, <2>5, <2>6, <2>7, <2>8
<1>5. SourceGranted(Granting(i), set, login)
        <=> \E s \in rule.src : Kind[s] = "any" \/ NamedByGrant(s, login)
  BY <1>4 DEF SourceGranted, Granting
<1>6. \A d \in rule.dst : MatchDestination(d, h, login) <=> h \in Denotes(d, login)
  BY <1>2, DestinationDenotes DEF Setting
<1>7. DestinationGranted(Granting(i), h, login) <=> \E d \in rule.dst : h \in Denotes(d, login)
  BY <1>6 DEF DestinationGranted, Granting
<1>8. PermitsTCP(Granting(i), port) <=> TCP(document.grants[i], port)
  BY SamePorts DEF Setting
<1>9. QED
  BY <1>5, <1>7, <1>8

\* No rule of an accepted policy has a condition that is not evaluated.
LEMMA NoConditions ==
    ASSUME Setting
    PROVE  /\ \A i \in DOMAIN document.acls : Unconditional(document.acls[i])
           /\ \A i \in DOMAIN document.grants : Unconditional(document.grants[i])
BY DEF Setting, Accepted, SupportedACL, SupportedGrant, Unconditional

\* Some rule matches a proxy host exactly when the policy allows it.
LEMMA RulesMatch ==
    ASSUME Setting, login # None, NEW p \in Proxy
    PROVE  MatchingRules(p, login, Identities) # {}
              <=> ACLAllows(login, p) \/ GrantAllows(login, p.host, p.port)
<1> DEFINE rules == AccessRules(document)
           Good(r) == /\ PermitsTCP(r, p.port)
                      /\ SourceGranted(r, Identities, login)
                      /\ DestinationGranted(r, p.host, login)
<1>1. p.host \in Texts
  BY DEF Proxy
<1>2. \A s \in Texts : s \in Identities <=> NamedBy(s, login)
  BY IdentitiesName DEF Setting
<1>3. ACLAllows(login, p) <=> \E i \in DOMAIN document.acls : Good(Legacy(i))
  <2>1. \A i \in DOMAIN document.acls : PermitsTCP(Legacy(i), p.port)
    BY DEF PermitsTCP, Legacy
  <2>2. \A i \in DOMAIN document.acls :
            Good(Legacy(i)) <=>
                /\ \E s \in document.acls[i].src : Kind[s] = "any" \/ NamedBy(s, login)
                /\ \E d \in document.acls[i].dst : p.host \in Denotes(d, login)
    BY <1>1, <2>1, LegacyMatches
  <2>3. QED
    BY <2>2, NoConditions DEF ACLAllows
<1>4. GrantAllows(login, p.host, p.port) <=> \E i \in DOMAIN document.grants : Good(Granting(i))
  BY <1>1, <1>2, GrantMatches, NoConditions DEF GrantAllows
<1>5. MatchingRules(p, login, Identities) # {} <=> \E k \in DOMAIN rules : Good(rules[k])
  BY DEF MatchingRules
<1>6. /\ \A k \in DOMAIN rules :
            \/ \E i \in DOMAIN document.acls : rules[k] = Legacy(i)
            \/ \E i \in DOMAIN document.grants : rules[k] = Granting(i)
      /\ \A i \in DOMAIN document.acls : \E k \in DOMAIN rules : rules[k] = Legacy(i)
      /\ \A i \in DOMAIN document.grants : \E k \in DOMAIN rules : rules[k] = Granting(i)
  BY AllRules DEF Setting
<1> HIDE DEF rules, Good
<1>7. (\E k \in DOMAIN rules : Good(rules[k]))
        <=> \/ \E i \in DOMAIN document.acls : Good(Legacy(i))
            \/ \E i \in DOMAIN document.grants : Good(Granting(i))
  <2>1. ASSUME NEW k \in DOMAIN rules, Good(rules[k])
        PROVE  \/ \E i \in DOMAIN document.acls : Good(Legacy(i))
               \/ \E i \in DOMAIN document.grants : Good(Granting(i))
    BY <1>6, <2>1
  <2>2. ASSUME NEW i \in DOMAIN document.acls, Good(Legacy(i))
        PROVE  \E k \in DOMAIN rules : Good(rules[k])
    BY <1>6, <2>2
  <2>3. ASSUME NEW i \in DOMAIN document.grants, Good(Granting(i))
        PROVE  \E k \in DOMAIN rules : Good(rules[k])
    BY <1>6, <2>3
  <2>4. QED
    BY <2>1, <2>2, <2>3
<1>8. QED
  BY <1>3, <1>4, <1>5, <1>7

\* The cards shown are those of the hosts the policy lets the user reach.
THEOREM CardsFollowPolicy == ASSUME PlainGroups PROVE Spec => []CardsMatchPolicy
<1>1. ASSUME LoopInv, answer # None, login # None
      PROVE  {answer.services[i].card.id : i \in DOMAIN answer.services}
                = {id \in DOMAIN inventory.proxies :
                    LET p == inventory.proxies[id]
                    IN  /\ p.enabled /\ p.domain # "none"
                        /\ ACLAllows(login, p) \/ GrantAllows(login, p.host, p.port)}
  <2> DEFINE S == Matches(login, Identities)
             s == answer.services
  <2>1. Setting /\ inventory \in Inventories
    BY <1>1 DEF LoopInv, Setting
  <2>2. s \in Sortings(S)
    BY <1>1 DEF LoopInv, AnswerBy
  <2>3. /\ \A i \in DOMAIN s : s[i] \in S
        /\ \A m \in S : \E i \in DOMAIN s : s[i] = m
    <3>1. IsFiniteSet(S) /\ s \in SetToSeqs(S) /\ DOMAIN s = 1..Cardinality(S)
      BY <2>1, <2>2, MatchesFinite DEF Sortings, SetToSeqs
    <3>2. s \in [1..Cardinality(S) -> S]
      BY <3>1 DEF SetToSeqs
    <3> HIDE DEF S, s
    <3>3. \A m \in S : \E i \in 1..Cardinality(S) : s[i] = m
      BY <3>1, SequenceOfAll
    <3>4. \A i \in DOMAIN s : s[i] \in S
      BY <3>1, <3>2
    <3>5. QED
      BY <3>1, <3>3, <3>4
  <2>4. {s[i].card.id : i \in DOMAIN s} = {m.card.id : m \in S}
    <3> HIDE DEF S, s
    <3>1. QED
      BY <2>3
  <2>5. {m.card.id : m \in S}
          = {id \in DOMAIN inventory.proxies :
                /\ inventory.proxies[id].enabled
                /\ inventory.proxies[id].domain # "none"
                /\ MatchingRules(inventory.proxies[id], login, Identities) # {}}
    <3> DEFINE Shown == {i \in DOMAIN inventory.proxies :
                          /\ inventory.proxies[i].enabled
                          /\ inventory.proxies[i].domain # "none"
                          /\ MatchingRules(inventory.proxies[i], login, Identities) # {}}
               M(id) == [card |-> ResolveServiceCard(id),
                         rule |-> Min(MatchingRules(inventory.proxies[id], login, Identities))]
    <3>1. \A id \in Shown : M(id).card.id = id
      BY <2>1, CardType
    <3>2. S = {M(id) : id \in Shown}
      BY DEF Matches
    <3> HIDE DEF Shown, M, S
    <3>3. {m.card.id : m \in S} = Shown
      BY <3>1, <3>2
    <3>4. QED
      BY <3>3 DEF Shown
  <2>6. \A id \in DOMAIN inventory.proxies :
          MatchingRules(inventory.proxies[id], login, Identities) # {}
            <=> \/ ACLAllows(login, inventory.proxies[id])
                \/ GrantAllows(login, inventory.proxies[id].host, inventory.proxies[id].port)
    <3>1. \A id \in DOMAIN inventory.proxies : inventory.proxies[id] \in Proxy
      BY <2>1, MatcherAssumption
    <3>2. QED
      BY <1>1, <2>1, <3>1, RulesMatch
  <2>7. QED
    BY <2>4, <2>5, <2>6
<1>2. LoopInv => CardsMatchPolicy
  BY <1>1 DEF CardsMatchPolicy
<1>3. QED
  BY <1>2, LoopHolds, PTL

\* Folding accounts leaves a machine some account, where the ssh section is supported.
LEMMA SomeAccess ==
    ASSUME Setting, ExactLogin(login), SSHState(document, provider) = "supported", NEW n
    PROVE  SSHAccess(n, login) # {} <=> SSHRulesFor(n, login) # {}
<1> DEFINE all == AccessByUser(n, login)
           pruned == \E a \in all : a.user = Nonroot /\ Action(a) = "check"
<1>1. SSHAccess(n, login) = IF pruned
                            THEN {a \in all : a.user \in {"root", Nonroot} \/ Action(a) = "check"}
                            ELSE all
  BY DEF SSHAccess
<1>2. /\ \A u : RulesFor(n, u) # {} => \E a \in all : a.user = u
      /\ \A a \in all : RulesFor(n, a.user) # {}
  BY AccountEntries DEF Setting
<1>3. \A k \in DOMAIN document.ssh : document.ssh[k].users # {}
  BY DEF SSHState, SupportedSSHRule
<1> HIDE DEF all
<1>4. ASSUME SSHRulesFor(n, login) # {} PROVE all # {}
  <2>1. PICK k \in SSHRulesFor(n, login) : k \in DOMAIN document.ssh
    BY <1>4 DEF SSHRulesFor
  <2>2. PICK u : u \in document.ssh[k].users
    BY <1>3, <2>1
  <2>3. QED
    BY <1>2, <2>1, <2>2 DEF RulesFor
<1>5. all # {} => SSHRulesFor(n, login) # {}
  BY <1>2 DEF RulesFor
<1>6. SSHAccess(n, login) # {} <=> all # {}
  BY <1>1
<1>7. QED
  BY <1>4, <1>5, <1>6

\* Some grant of TCP/22 matches a machine exactly when the policy allows it.
LEMMA GrantsOpenMachine ==
    ASSUME Setting, login # None, ExactLogin(login), NEW n \in DOMAIN inventory.nodes
    PROVE  MachineGranted(n, login)
              <=> \E a \in inventory.nodes[n].addresses \cap Tailnet : GrantAllows(login, a, 22)
<1> DEFINE rules == AccessRules(document)
           Good(r, a) == /\ PermitsTCP(r, 22)
                         /\ SourceGranted(r, SSHIdentitySet(login), login)
                         /\ DestinationGranted(r, a, login)
           Addresses == inventory.nodes[n].addresses \cap Tailnet
<1>1. Addresses \subseteq Texts
  BY MatcherAssumption
<1>2. \A s \in Texts : s \in SSHIdentitySet(login) <=> NamedBy(s, login)
  BY ExactName DEF Setting
<1>3. \A a \in Addresses :
        GrantAllows(login, a, 22) <=> \E i \in DOMAIN document.grants : Good(Granting(i), a)
  BY <1>1, <1>2, GrantMatches, NoConditions DEF GrantAllows
<1>4. MachineGranted(n, login)
        <=> \E k \in DOMAIN rules : rules[k].kind = "grant" /\ \E a \in Addresses : Good(rules[k], a)
  BY DEF MachineGranted
<1>5. /\ \A k \in DOMAIN rules :
            \/ \E i \in DOMAIN document.acls : rules[k] = Legacy(i)
            \/ \E i \in DOMAIN document.grants : rules[k] = Granting(i)
      /\ \A i \in DOMAIN document.grants : \E k \in DOMAIN rules : rules[k] = Granting(i)
  BY AllRules DEF Setting
<1>6. /\ \A i \in DOMAIN document.acls : Legacy(i).kind # "grant"
      /\ \A i \in DOMAIN document.grants : Granting(i).kind = "grant"
  BY DEF Legacy, Granting
<1> HIDE DEF rules, Good, Addresses
<1>7. ASSUME NEW k \in DOMAIN rules, rules[k].kind = "grant", NEW a \in Addresses, Good(rules[k], a)
      PROVE  \E i \in DOMAIN document.grants : Good(Granting(i), a)
  BY <1>5, <1>6, <1>7
<1>8. ASSUME NEW a \in Addresses, NEW i \in DOMAIN document.grants, Good(Granting(i), a)
      PROVE  \E k \in DOMAIN rules : rules[k].kind = "grant" /\ Good(rules[k], a)
  BY <1>5, <1>6, <1>8
<1>9. (\E k \in DOMAIN rules : rules[k].kind = "grant" /\ \E a \in Addresses : Good(rules[k], a))
        <=> \E a \in Addresses : \E i \in DOMAIN document.grants : Good(Granting(i), a)
  BY <1>7, <1>8
<1>10. QED
  BY <1>3, <1>4, <1>9 DEF Addresses

\* The machines listed are those the ssh section and, on their own, the grants
\* let the user into.
THEOREM MachinesFollowPolicy == Spec => []MachinesMatchPolicy
<1>1. ASSUME BaseInv, answer # None, login # None
      PROVE  {m.id : m \in answer.machines}
                = {n \in DOMAIN inventory.nodes :
                    LET node == inventory.nodes[n]
                    IN  /\ provider = "tailscale" /\ SSHState(document, provider) = "supported"
                        /\ ExactLogin(login) /\ login \in DOMAIN inventory.roles
                        /\ node.capable
                        /\ SSHRulesFor(n, login) # {}
                        /\ \E a \in node.addresses \cap Tailnet : GrantAllows(login, a, 22)}
  <2> DEFINE Ready == ProjectionAvailable /\ ExactLogin(login) /\ login \in DOMAIN inventory.roles
             Shown(n) == /\ inventory.nodes[n].capable
                         /\ HasTarget(n)
                         /\ SSHAccess(n, login) # {}
                         /\ MachineGranted(n, login)
  <2>1. Setting /\ answer.machines = Machines(login)
    BY <1>1 DEF BaseInv, AnswerBy
  <2>2. {m.id : m \in Machines(login)} = {n \in DOMAIN inventory.nodes : Ready /\ Shown(n)}
    <3>1. CASE ~Ready
      BY <3>1 DEF Machines
    <3>2. CASE Ready
      <4> DEFINE M(n) == [id |-> n, access |-> SSHAccess(n, login)]
                 Chosen == {n \in DOMAIN inventory.nodes : Shown(n)}
      <4>1. Machines(login) = {M(n) : n \in Chosen}
        BY <3>2 DEF Machines
      <4>2. \A n \in Chosen : M(n).id = n
        OBVIOUS
      <4> HIDE DEF M, Chosen
      <4>3. {m.id : m \in Machines(login)} = Chosen
        BY <4>1, <4>2
      <4>4. QED
        BY <3>2, <4>3 DEF Chosen
    <3>3. QED
      BY <3>1, <3>2
  <2>3. ASSUME Ready, NEW n \in DOMAIN inventory.nodes
        PROVE  Shown(n) <=> /\ inventory.nodes[n].capable
                            /\ SSHRulesFor(n, login) # {}
                            /\ \E a \in inventory.nodes[n].addresses \cap Tailnet :
                                    GrantAllows(login, a, 22)
    <3>1. SSHAccess(n, login) # {} <=> SSHRulesFor(n, login) # {}
      BY <2>1, <2>3, SomeAccess DEF ProjectionAvailable
    <3>2. MachineGranted(n, login)
            <=> \E a \in inventory.nodes[n].addresses \cap Tailnet : GrantAllows(login, a, 22)
      BY <1>1, <2>1, <2>3, GrantsOpenMachine
    <3>3. QED
      BY <3>1, <3>2 DEF HasTarget
  <2> HIDE DEF Shown
  <2>4. QED
    BY <2>1, <2>2, <2>3 DEF ProjectionAvailable
<1>2. BaseInv => MachinesMatchPolicy
  BY <1>1 DEF MachinesMatchPolicy
<1>3. QED
  BY <1>2, BaseHolds, PTL

-----------------------------------------------------------------------------
(* Types. *)

\* Everything a request compares is a selector text, and between two requests
\* no group is left to visit.
RequestTypes ==
    /\ phase \in {"idle", "groups"}
    /\ ids \subseteq Texts
    /\ phase = "idle" => unvisited = {}

\* A user's forms are selector texts.
LEMMA TokenTexts ==
    ASSUME login \in Logins, login # None
    PROVE  IdentityTokens(login) \subseteq Texts
<1>1. login \in Texts /\ Kind[login] \in {"login", "text"}
  BY MatcherAssumption
<1>2. Kind[login] = "text" => Short[login] \in Texts
  BY <1>1, SelectorAssumption
<1>3. DOMAIN Short \subseteq Texts
  BY SelectorAssumption
<1>4. QED
  BY <1>1, <1>2, <1>3 DEF IdentityTokens, Normal

LEMMA RequestTypesHold == Spec => [](BaseInv /\ RequestTypes)
<1>1. Init => RequestTypes
  BY DEF Init, RequestTypes
<1>2. ASSUME BaseInv, RequestTypes, [Next]_vars PROVE RequestTypes'
  <2>1. CASE Request
    BY <1>2, <2>1, TokenTexts DEF BaseInv, Setting, RequestTypes, Request, snapshot
  <2>2. ASSUME NEW g \in unvisited, VisitGroup(g) PROVE RequestTypes'
    <3>1. g \in Texts
      BY <1>2, <2>2, MatcherAssumption DEF BaseInv, Setting
    <3>2. QED
      BY <1>2, <2>2, <3>1 DEF RequestTypes, VisitGroup
  <2>3. CASE Refuse
    BY <1>2, <2>3 DEF RequestTypes, Refuse
  <2>4. CASE Render
    BY <1>2, <2>4 DEF RequestTypes, Render
  <2>5. QED
    BY <1>2, <2>1, <2>2, <2>3, <2>4 DEF RequestTypes, Next, vars
<1>3. Spec => []BaseInv
  BY BaseHolds
<1>4. QED
  BY <1>1, <1>2, <1>3, PTL DEF Spec

\* A card quotes a rule of the policy.
LEMMA QuotedRule ==
    ASSUME Setting, NEW set, NEW m \in Matches(login, set)
    PROVE  m.rule \in DOMAIN AccessRules(document)
<1> DEFINE rules == MatchingRules(inventory.proxies[m.card.id], login, set)
<1>1. m.rule = Min(rules)
  BY MatchType DEF Setting
<1>2. rules # {}
  <2>1. PICK id \in DOMAIN inventory.proxies :
          /\ m.card = ResolveServiceCard(id)
          /\ MatchingRules(inventory.proxies[id], login, set) # {}
    BY DEF Matches
  <2>2. m.card.id = id
    BY <2>1, CardType DEF Setting
  <2>3. QED
    BY <2>1, <2>2
<1>3. rules \subseteq DOMAIN AccessRules(document)
  BY DEF MatchingRules
<1>4. DOMAIN AccessRules(document) \subseteq Nat
  BY AllRules DEF Setting
<1>5. Min(rules) \in rules
  BY <1>2, <1>3, <1>4, MinInSet
<1>6. QED
  BY <1>1, <1>3, <1>5

\* What is shown refers to the snapshot it was made from: cards to rules of its
\* policy, machines to nodes of its inventory that have some account to offer.
THEOREM AnswersRefer == Spec => []TypeOK
<1>1. ASSUME BaseInv, RequestTypes, answer # None
      PROVE  /\ \A i \in DOMAIN answer.services :
                /\ answer.services[i].card \in Card
                /\ answer.services[i].rule \in DOMAIN AccessRules(document)
             /\ \A m \in answer.machines : m.id \in DOMAIN inventory.nodes /\ m.access # {}
  <2>1. CASE answer = [services |-> <<>>, machines |-> {}]
    <3>1. answer.services = <<>> /\ answer.machines = {}
      BY <2>1
    <3>2. QED
      BY <3>1
  <2>2. ASSUME NEW set, AnswerBy(set)
        PROVE  /\ \A i \in DOMAIN answer.services :
                  /\ answer.services[i].card \in Card
                  /\ answer.services[i].rule \in DOMAIN AccessRules(document)
               /\ \A m \in answer.machines : m.id \in DOMAIN inventory.nodes /\ m.access # {}
    <3>1. PICK s \in Sortings(Matches(login, set)) :
            answer = [services |-> s, machines |-> Machines(login)]
      BY <2>2 DEF AnswerBy
    <3>2. \A i \in DOMAIN s : s[i] \in Matches(login, set) /\ s[i].card \in Card
      BY <1>1, SortedCards DEF BaseInv, Setting
    <3>3. \A i \in DOMAIN s : s[i].rule \in DOMAIN AccessRules(document)
      BY <1>1, <3>2, QuotedRule DEF BaseInv
    <3>4. \A m \in Machines(login) : m.id \in DOMAIN inventory.nodes /\ m.access # {}
      BY DEF Machines
    <3>5. answer.services = s /\ answer.machines = Machines(login)
      BY <3>1
    <3>6. QED
      BY <3>2, <3>3, <3>4, <3>5
  <2>3. QED
    BY <1>1, <2>1, <2>2 DEF BaseInv
<1>2. BaseInv /\ RequestTypes => TypeOK
  BY <1>1 DEF BaseInv, Setting, RequestTypes, TypeOK
<1>3. QED
  BY <1>2, RequestTypesHold, PTL
=============================================================================
