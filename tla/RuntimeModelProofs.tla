--------------------------- MODULE RuntimeModelProofs ---------------------------
(***************************************************************************)
(* Proofs about RuntimeModel, for any nodes, services, domains and inputs: *)
(* what is built refers to what it defines, sends a host to the service    *)
(* that names it most specifically, serves the mode that was asked for, is *)
(* accepted again at every later start, and is what RuntimeController says.*)
(***************************************************************************)
EXTENDS RuntimeModel, FiniteSetTheorems, WellFoundedInduction, TLAPS

-----------------------------------------------------------------------------
(* Minima, orders and sequences *)

\* The least element of a set of natural numbers that is not empty.
LEMMA MinIsLeast ==
  ASSUME NEW S \in SUBSET Nat, S # {}
  PROVE  Min(S) \in S /\ \A n \in S : Min(S) <= n
<1>1. PICK least \in S : \A n \in S : <<n, least>> \notin OpToRel(<, Nat)
  BY NatLessThanWellFounded, WFMin
<1>2. ASSUME NEW n \in S
      PROVE  least <= n
  <2>1. <<n, least>> \in Nat \X Nat /\ <<n, least>> \notin OpToRel(<, Nat)
    BY <1>1
  <2>2. ~(n < least)
    BY <2>1 DEF OpToRel
  <2>3. QED
    BY <2>2
<1>3. QED
  BY <1>1, <1>2 DEF Min

\* A strict total order.
IsStrictOrder(set, order) ==
  /\ \A x \in set : <<x, x>> \notin order
  /\ \A x, y \in set : x = y \/ <<x, y>> \in order \/ <<y, x>> \in order
  /\ \A x, y, z \in set : <<x, y>> \in order /\ <<y, z>> \in order => <<x, z>> \in order

\* Ordered lists a finite set once, and in its order.
LEMMA OrderedFacts ==
  ASSUME NEW set, IsFiniteSet(set), NEW order, IsStrictOrder(set, order)
  PROVE  /\ Cardinality(set) \in Nat
         /\ Ordered(set, order) \in Seq(set)
         /\ Len(Ordered(set, order)) = Cardinality(set)
         /\ \A x \in set : \E k \in 1..Cardinality(set) : Ordered(set, order)[k] = x
         /\ \A i, j \in 1..Cardinality(set) :
              i < j => <<Ordered(set, order)[i], Ordered(set, order)[j]>> \in order
<1> DEFINE n == Cardinality(set)
           Upto(x) == {y \in set : y = x \/ <<y, x>> \in order}
           Place(x) == Cardinality(Upto(x))
           listed == Ordered(set, order)
<1>1. n \in Nat /\ IsFiniteSet(1..n) /\ Cardinality(1..n) = n
  BY FS_CardinalityType, FS_Interval
<1>2. ASSUME NEW x \in set
      PROVE  IsFiniteSet(Upto(x)) /\ Place(x) \in 1..n
  <2>1. Upto(x) \in SUBSET set /\ x \in Upto(x)
    OBVIOUS
  <2>2. IsFiniteSet(Upto(x)) /\ Place(x) <= n
    BY <2>1, FS_Subset
  <2>3. Place(x) \in Nat /\ Place(x) # 0
    BY <2>1, <2>2, FS_CardinalityType, FS_EmptySet
  <2>4. QED
    BY <1>1, <2>2, <2>3
<1>3. ASSUME NEW x \in set, NEW y \in set, <<x, y>> \in order
      PROVE  Place(x) < Place(y)
  <2>1. Upto(x) \in SUBSET Upto(y)
    BY <1>3 DEF IsStrictOrder
  <2>2. y \in Upto(y) /\ y \notin Upto(x)
    BY <1>3 DEF IsStrictOrder
  <2>3. Place(x) <= Place(y) /\ Place(x) # Place(y)
    BY <1>2, <2>1, <2>2, FS_Subset
  <2>4. QED
    BY <1>2, <2>3
<1>4. \A k \in 1..n : \E x \in set : Place(x) = k
  <2> DEFINE place == [x \in set |-> Place(x)]
  <2>1. place \in [set -> 1..n]
    BY <1>2
  <2>2. ASSUME NEW x \in set, NEW y \in set, place[x] = place[y]
        PROVE  x = y
    <3>1. Place(x) = Place(y) /\ Place(x) \in Nat
      BY <1>2, <2>2
    <3>2. <<x, y>> \notin order /\ <<y, x>> \notin order
      BY <1>3, <3>1
    <3>3. QED
      BY <3>2 DEF IsStrictOrder
  <2>3. place \in Injection(set, 1..n)
    BY <2>1, <2>2 DEF Injection, IsInjective
  <2>4. place \in Surjection(set, 1..n)
    BY <1>1, <2>3, FS_Injection
  <2>5. QED
    BY <2>4 DEF Surjection
<1>5. listed = [k \in 1..n |-> CHOOSE x \in set : Place(x) = k]
  BY DEF Ordered
<1>6. ASSUME NEW k \in 1..n
      PROVE  listed[k] \in set /\ Place(listed[k]) = k
  <2> HIDE DEF listed, Place
  <2>1. listed[k] = CHOOSE x \in set : Place(x) = k
    BY <1>5
  <2>2. QED
    BY <1>4, <2>1
<1>7. listed \in Seq(set) /\ Len(listed) = n
  <2>1. listed \in [1..n -> set]
    BY <1>5, <1>6
  <2>2. QED
    BY <1>1, <2>1
<1>8. ASSUME NEW x \in set
      PROVE  \E k \in 1..n : listed[k] = x
  <2>1. Place(x) \in 1..n /\ listed[Place(x)] \in set /\ Place(listed[Place(x)]) = Place(x)
    BY <1>2, <1>6
  <2>2. <<x, listed[Place(x)]>> \notin order /\ <<listed[Place(x)], x>> \notin order
    BY <1>3, <2>1
  <2>3. QED
    BY <2>1, <2>2 DEF IsStrictOrder
<1>9. ASSUME NEW i \in 1..n, NEW j \in 1..n, i < j
      PROVE  <<listed[i], listed[j]>> \in order
  <2>1. /\ listed[i] \in set /\ listed[j] \in set
        /\ Place(listed[i]) = i /\ Place(listed[j]) = j
    BY <1>6
  <2> HIDE DEF listed, Place
  <2>2. listed[i] # listed[j]
    BY <1>9, <2>1
  <2>3. <<listed[j], listed[i]>> \in order => Place(listed[j]) < Place(listed[i])
    BY <1>3, <2>1
  <2>4. <<listed[j], listed[i]>> \notin order
    BY <1>9, <2>1, <2>3
  <2>5. QED
    BY <2>1, <2>2, <2>4 DEF IsStrictOrder
<1>10. QED
  BY <1>1, <1>7, <1>8, <1>9

\* The places of a list.
LEMMA PlacesAreFinite ==
  ASSUME NEW T, NEW list \in Seq(T)
  PROVE  /\ DOMAIN list = 1..Len(list) /\ Len(list) \in Nat
         /\ IsFiniteSet(DOMAIN list) /\ Cardinality(DOMAIN list) = Len(list)
<1>1. DOMAIN list = 1..Len(list) /\ Len(list) \in Nat
  OBVIOUS
<1>2. ASSUME NEW n \in Nat
      PROVE  IsFiniteSet(1..n) /\ Cardinality(1..n) = n
  BY FS_Interval
<1>3. IsFiniteSet(1..Len(list)) /\ Cardinality(1..Len(list)) = Len(list)
  BY ONLY <1>1, <1>2
<1>4. QED
  BY <1>1, <1>3

\* A function of the numbers up to a length is a list.
LEMMA ListFacts ==
  ASSUME NEW T, NEW n \in Nat, NEW list \in [1..n -> T]
  PROVE  list \in Seq(T) /\ Len(list) = n /\ DOMAIN list = 1..n
OBVIOUS

\* SetToSeq lists a finite set once.
LEMMA SetToSeqFacts ==
  ASSUME NEW S, IsFiniteSet(S)
  PROVE  /\ SetToSeq(S) \in Seq(S)
         /\ ToSet(SetToSeq(S)) = S
         /\ \A i, j \in DOMAIN SetToSeq(S) : SetToSeq(S)[i] = SetToSeq(S)[j] => i = j
<1> DEFINE n == Cardinality(S)
           f == SetToSeq(S)
<1>1. PICK g \in Bijection(1..n, S) : TRUE
  BY FS_CardinalityType DEF ExistsBijection
<1>2. g \in [1..n -> S] /\ IsInjective(g)
  BY <1>1 DEF Bijection, Injection, IsInjective
<1>3. f \in [1..n -> S] /\ IsInjective(f)
  BY <1>2 DEF SetToSeq
<1>4. n \in Nat /\ Cardinality(1..n) = n
  BY FS_CardinalityType, FS_Interval
<1>5. f \in Surjection(1..n, S)
  BY <1>3, <1>4, FS_Injection DEF Injection
<1>6. ToSet(f) = S
  BY <1>3, <1>5 DEF Surjection, ToSet
<1>7. f \in Seq(S)
  BY <1>3, <1>4
<1>8. QED
  BY <1>3, <1>6, <1>7 DEF IsInjective

-----------------------------------------------------------------------------
(* Domains in their order *)

\* The domains are finitely many.
LEMMA DomainsAreFinite == IsFiniteSet(Domains)
<1>1. DOMAIN Lexical = 1..Len(Lexical) /\ Len(Lexical) \in Nat
  BY ConstantsAssumption
<1>2. Lexical \in Surjection(1..Len(Lexical), Domains)
  BY <1>1, ConstantsAssumption DEF Surjection, Domains, ToSet
<1>3. IsFiniteSet(1..Len(Lexical))
  BY <1>1, FS_Interval
<1>4. QED
  BY <1>2, <1>3, FS_Surjection

\* The rank of a domain finds it.
LEMMA RankFacts ==
  ASSUME NEW named, named.domain \in Domains
  PROVE  Rank(named) \in Nat /\ Lexical[Rank(named)] = named.domain
<1>1. DOMAIN Lexical \subseteq Nat
  BY ConstantsAssumption
<1>2. \E i \in DOMAIN Lexical : Lexical[i] = named.domain
  BY DEF Domains, ToSet
<1>3. QED
  BY <1>1, <1>2 DEF Rank

Ascending(domains) ==
  \A i, j \in DOMAIN domains : i < j => Rank(domains[i]) <= Rank(domains[j])

\* Sorting moves the places of a list, and puts them in order.
LEMMA SortedFacts ==
  ASSUME NEW T, NEW domains \in Seq(T),
         \A i \in DOMAIN domains : domains[i].domain \in Domains
  PROVE  \E places \in [DOMAIN domains -> DOMAIN domains] :
           /\ Sorted(domains) = [k \in DOMAIN domains |-> domains[places[k]]]
           /\ \A i, j \in DOMAIN domains : places[i] = places[j] => i = j
           /\ \A i \in DOMAIN domains : \E k \in DOMAIN domains : places[k] = i
           /\ Ascending(Sorted(domains))
<1> DEFINE n == Len(domains)
           Before(i, j) == \/ Rank(domains[i]) < Rank(domains[j])
                           \/ Rank(domains[i]) = Rank(domains[j]) /\ i < j
           order == Pairs(DOMAIN domains, Before)
           places == Ordered(DOMAIN domains, order)
<1>1. DOMAIN domains = 1..n /\ n \in Nat
  OBVIOUS
<1>2. IsFiniteSet(DOMAIN domains) /\ Cardinality(DOMAIN domains) = n
  BY PlacesAreFinite
<1>3. \A i \in DOMAIN domains : Rank(domains[i]) \in Nat
  BY RankFacts
<1>4. \A i, j \in DOMAIN domains : <<i, j>> \in order <=> Before(i, j)
  BY DEF Pairs
<1>5. IsStrictOrder(DOMAIN domains, order)
  <2> HIDE DEF order
  <2>1. QED
    BY <1>1, <1>3, <1>4 DEF IsStrictOrder
<1> HIDE DEF order
<1>6. /\ places \in Seq(DOMAIN domains) /\ Len(places) = n
      /\ \A i \in DOMAIN domains : \E k \in 1..n : places[k] = i
      /\ \A i, j \in 1..n : i < j => <<places[i], places[j]>> \in order
  <2> DEFINE D == DOMAIN domains
             size == Cardinality(D)
  <2>0. IsFiniteSet(D) /\ IsStrictOrder(D, order) /\ places = Ordered(D, order)
    BY <1>2, <1>5
  <2> HIDE DEF D, places
  <2>1. /\ places \in Seq(D) /\ Len(places) = size
        /\ \A i \in D : \E k \in 1..size : places[k] = i
        /\ \A i, j \in 1..size : i < j => <<places[i], places[j]>> \in order
    BY <2>0, OrderedFacts
  <2>2. QED
    BY <1>2, <2>1 DEF D
<1>7. Sorted(domains) = [k \in DOMAIN domains |-> domains[places[k]]]
  BY DEF Sorted, order
<1> HIDE DEF places
<1>8. places \in [DOMAIN domains -> DOMAIN domains]
  BY <1>1, <1>6
<1>9. \A i, j \in DOMAIN domains : i < j => Before(places[i], places[j])
  BY <1>1, <1>4, <1>6, <1>8
<1>10. \A i, j \in DOMAIN domains : places[i] = places[j] => i = j
  <2>1. \A i, j \in DOMAIN domains : i < j => places[i] # places[j]
    BY <1>1, <1>3, <1>8, <1>9
  <2>2. QED
    BY <1>1, <2>1
<1>11. Ascending(Sorted(domains))
  <2>1. ASSUME NEW i \in DOMAIN domains, NEW j \in DOMAIN domains, i < j
        PROVE  Rank(Sorted(domains)[i]) <= Rank(Sorted(domains)[j])
    <3>1. Sorted(domains)[i] = domains[places[i]] /\ Sorted(domains)[j] = domains[places[j]]
      BY <1>7
    <3>2. Rank(domains[places[i]]) <= Rank(domains[places[j]])
      BY <1>3, <1>8, <1>9, <2>1
    <3>3. QED
      BY <3>1, <3>2
  <2>2. DOMAIN Sorted(domains) = DOMAIN domains
    BY <1>7
  <2>3. QED
    BY <2>1, <2>2 DEF Ascending
<1>12. QED
  BY <1>1, <1>6, <1>7, <1>8, <1>10, <1>11

\* A list in order is sorted.
LEMMA SortedAgain ==
  ASSUME NEW T, NEW domains \in Seq(T), Ascending(domains),
         \A i \in DOMAIN domains : domains[i].domain \in Domains
  PROVE  Sorted(domains) = domains
<1> DEFINE n == Len(domains)
           Before(i, j) == \/ Rank(domains[i]) < Rank(domains[j])
                           \/ Rank(domains[i]) = Rank(domains[j]) /\ i < j
           order == Pairs(DOMAIN domains, Before)
           places == Ordered(DOMAIN domains, order)
           Upto(i) == {j \in DOMAIN domains : j = i \/ <<j, i>> \in order}
<1>1. DOMAIN domains = 1..n /\ n \in Nat
  OBVIOUS
<1>2. Cardinality(DOMAIN domains) = n
  BY PlacesAreFinite
<1>3. \A i \in DOMAIN domains : Rank(domains[i]) \in Nat
  BY RankFacts
<1>4. \A i, j \in DOMAIN domains : <<i, j>> \in order <=> Before(i, j)
  BY DEF Pairs
<1>5. \A i, j \in DOMAIN domains : <<i, j>> \in order <=> i < j
  <2> HIDE DEF order
  <2>1. ASSUME NEW i \in DOMAIN domains, NEW j \in DOMAIN domains
        PROVE  Before(i, j) <=> i < j
    <3>1. i \in Nat /\ j \in Nat /\ Rank(domains[i]) \in Nat /\ Rank(domains[j]) \in Nat
      BY <1>1, <1>3
    <3>2. /\ i < j => Rank(domains[i]) <= Rank(domains[j])
          /\ j < i => Rank(domains[j]) <= Rank(domains[i])
      BY DEF Ascending
    <3>3. QED
      BY <3>1, <3>2
  <2>2. QED
    BY <1>4, <2>1
<1> HIDE DEF order
<1>6. ASSUME NEW i \in DOMAIN domains
      PROVE  Cardinality(Upto(i)) = i
  <2>1. Upto(i) = 1..i
    BY <1>1, <1>5
  <2>2. i \in Nat /\ ~(1 > i)
    BY <1>1
  <2>3. Cardinality(1..i) = i
    BY <2>2, FS_Interval
  <2>4. QED
    BY <2>1, <2>3
<1>7. places = [k \in 1..n |-> CHOOSE i \in DOMAIN domains : Cardinality(Upto(i)) = k]
  BY <1>2 DEF Ordered
<1>8. Sorted(domains) = [k \in DOMAIN domains |-> domains[places[k]]]
  BY DEF Sorted, order
<1> HIDE DEF places, Upto
<1>9. \A k \in DOMAIN domains : places[k] = k
  BY <1>1, <1>6, <1>7
<1>10. QED
  BY <1>1, <1>8, <1>9

-----------------------------------------------------------------------------
(* Normalising *)

\* The form of a model that has been accepted.
NormalRoute(route, selector) ==
  /\ ValidRoute(route, selector)
  /\ \A i \in DOMAIN route.domains : route.domains[i].plain
  /\ Ascending(route.domains)

NormalForm(value) ==
  LET nodes == Available(value.pool)
  IN  /\ value \in Model
      /\ UniqueNodes(value.pool)
      /\ \A tag \in Tags : value.selectors[tag] # Absent =>
           ValidSelector(value.selectors[tag], nodes)
      /\ value.selectors[Proxy] # Absent => value.selectors[Proxy].nodes = nodes \cup {Direct}
      /\ \A s \in Chosen(value.routes) : NormalRoute(value.routes[s], value.selectors[s])
      /\ DisjointRoutes(value.routes)

\* What is chosen is a route, and is not nothing.
LEMMA ChosenRoutes ==
  ASSUME NEW value \in Model, NEW s \in Chosen(value.routes)
  PROVE  /\ s \in Services /\ value.routes[s] \in Route /\ value.routes[s] # Absent
         /\ value.routes[s].domains \in Seq(Spelled) /\ value.routes[s].enabled \in BOOLEAN
BY DEF Model, Chosen, Route

\* Domains that are valid, and those that have been brought to one spelling.
LEMMA SpelledFacts ==
  ASSUME NEW list \in Seq(Spelled), \A i \in DOMAIN list : list[i].domain # Invalid
  PROVE  \A i \in DOMAIN list :
           /\ list[i] \in Spelled /\ list[i].domain \in Domains
           /\ [domain |-> list[i].domain, plain |-> TRUE] \in Spelled
           /\ list[i].plain => [domain |-> list[i].domain, plain |-> TRUE] = list[i]
<1>1. ASSUME NEW named \in Spelled, named.domain # Invalid
      PROVE  /\ named.domain \in Domains
             /\ [domain |-> named.domain, plain |-> TRUE] \in Spelled
             /\ named.plain => [domain |-> named.domain, plain |-> TRUE] = named
  BY <1>1 DEF Spelled
<1>2. \A i \in DOMAIN list : list[i] \in Spelled
  OBVIOUS
<1>3. QED
  BY <1>1, <1>2

\* The domains of one list are those of another one, place by place.
Rearranged(after, before) ==
  /\ DOMAIN after = DOMAIN before
  /\ \E places \in [DOMAIN before -> DOMAIN before] :
       /\ \A i, j \in DOMAIN before : places[i] = places[j] => i = j
       /\ \A i \in DOMAIN before : after[i].domain = before[places[i]].domain

\* The canonical form of a route with valid domains: the same domains, each at one
\* place, in one spelling and in order.
LEMMA CanonicalFacts ==
  ASSUME NEW route \in Route,
         \A i \in DOMAIN route.domains : route.domains[i].domain # Invalid
  PROVE  /\ CanonicalRoute(route) \in Route
         /\ CanonicalRoute(route).enabled = route.enabled
         /\ \A i \in DOMAIN CanonicalRoute(route).domains : CanonicalRoute(route).domains[i].plain
         /\ Ascending(CanonicalRoute(route).domains)
         /\ Rearranged(CanonicalRoute(route).domains, route.domains)
<1> DEFINE D == DOMAIN route.domains
           spelled == [i \in D |-> [domain |-> route.domains[i].domain, plain |-> TRUE]]
           after == CanonicalRoute(route)
<1>1. route.domains \in Seq(Spelled) /\ route.enabled \in BOOLEAN
  BY DEF Route
<1>2. D = 1..Len(route.domains) /\ Len(route.domains) \in Nat
  BY <1>1
<1>3. \A i \in D : /\ route.domains[i].domain \in Domains
                   /\ [domain |-> route.domains[i].domain, plain |-> TRUE] \in Spelled
  BY <1>1, SpelledFacts
<1>4. spelled \in Seq(Spelled) /\ DOMAIN spelled = D
  <2>1. \A i \in D : spelled[i] \in Spelled
    BY <1>3
  <2>2. spelled \in [1..Len(route.domains) -> Spelled]
    BY <1>2, <2>1
  <2>3. QED
    BY <1>2, <2>2
<1>5. \A i \in D : spelled[i].domain = route.domains[i].domain /\ spelled[i].plain = TRUE
  OBVIOUS
<1>6. after = [route EXCEPT !.domains = Sorted(spelled)]
  BY DEF CanonicalRoute
<1> HIDE DEF spelled
<1>7. PICK places \in [D -> D] :
        /\ Sorted(spelled) = [k \in D |-> spelled[places[k]]]
        /\ \A i, j \in D : places[i] = places[j] => i = j
        /\ Ascending(Sorted(spelled))
  <2>1. \A i \in DOMAIN spelled : spelled[i].domain \in Domains
    BY <1>3, <1>4, <1>5
  <2>2. \E places \in [DOMAIN spelled -> DOMAIN spelled] :
           /\ Sorted(spelled) = [k \in DOMAIN spelled |-> spelled[places[k]]]
           /\ \A i, j \in DOMAIN spelled : places[i] = places[j] => i = j
           /\ \A i \in DOMAIN spelled : \E k \in DOMAIN spelled : places[k] = i
           /\ Ascending(Sorted(spelled))
    BY <1>4, <2>1, SortedFacts
  <2> HIDE DEF D
  <2>3. QED
    BY <1>4, <2>2
<1>8. Sorted(spelled) \in Seq(Spelled) /\ DOMAIN Sorted(spelled) = D
  BY <1>2, <1>4, <1>7
<1> HIDE DEF D
<1>9. after \in Route /\ after.enabled = route.enabled /\ after.domains = Sorted(spelled)
  BY <1>6, <1>8 DEF Route
<1> HIDE DEF after
<1>10. \A i \in D : Sorted(spelled)[i] = spelled[places[i]] /\ places[i] \in D
  BY <1>7
<1>11. \A i \in D : /\ Sorted(spelled)[i].plain
                    /\ Sorted(spelled)[i].domain = route.domains[places[i]].domain
  BY <1>5, <1>10
<1>12. /\ DOMAIN after.domains = D /\ Ascending(after.domains)
       /\ \A i \in D : after.domains[i].plain
  BY <1>7, <1>8, <1>9, <1>11
<1>13. Rearranged(after.domains, route.domains)
  <2>1. /\ \A i, j \in D : places[i] = places[j] => i = j
        /\ \A i \in D : after.domains[i].domain = route.domains[places[i]].domain
    BY <1>7, <1>9, <1>11
  <2>2. QED
    BY <1>12, <2>1 DEF D, Rearranged
<1>14. QED
  BY <1>9, <1>12, <1>13 DEF D, after

\* The route in canonical form stays as it is.
LEMMA CanonicalAgain ==
  ASSUME NEW route \in Route, Ascending(route.domains),
         \A i \in DOMAIN route.domains :
           route.domains[i].domain # Invalid /\ route.domains[i].plain
  PROVE  CanonicalRoute(route) = route
<1> DEFINE spelled == [i \in DOMAIN route.domains |->
                         [domain |-> route.domains[i].domain, plain |-> TRUE]]
<1>1. route.domains \in Seq(Spelled)
  BY DEF Route
<1>2. \A i \in DOMAIN route.domains : spelled[i] = route.domains[i]
  BY <1>1, SpelledFacts
<1>3. spelled = route.domains
  <2> DEFINE list == route.domains
  <2>1. list = [i \in DOMAIN list |-> list[i]]
    BY <1>1
  <2>2. QED
    BY <1>2, <2>1
<1>4. \A i \in DOMAIN route.domains : route.domains[i].domain \in Domains
  BY <1>1, SpelledFacts
<1>5. Sorted(spelled) = route.domains
  BY <1>1, <1>3, <1>4, SortedAgain
<1>6. CanonicalRoute(route) = [route EXCEPT !.domains = Sorted(spelled)]
  BY DEF CanonicalRoute
<1> HIDE DEF spelled
<1>7. QED
  BY <1>5, <1>6 DEF Route

\* What the default selector is filled with.
LEMMA FilledFacts ==
  ASSUME NEW selectors \in [Tags -> Selector \cup {Absent}], NEW nodes \in SUBSET Nodes
  PROVE  /\ Filled(selectors, nodes) \in [Tags -> Selector \cup {Absent}]
         /\ \A tag \in Tags : /\ Filled(selectors, nodes)[tag] = Absent <=> selectors[tag] = Absent
                              /\ tag # Proxy => Filled(selectors, nodes)[tag] = selectors[tag]
         /\ Filled(selectors, nodes)[Proxy] # Absent =>
              Filled(selectors, nodes)[Proxy].nodes = nodes \cup {Direct}
<1>1. ASSUME NEW selector \in Selector
      PROVE  /\ [selector EXCEPT !.nodes = nodes \cup {Direct}] \in Selector
             /\ [selector EXCEPT !.nodes = nodes \cup {Direct}].nodes = nodes \cup {Direct}
  BY DEF Selector
<1>2. Proxy \in Tags
  BY DEF Tags
<1>3. \A tag \in Tags :
        Filled(selectors, nodes)[tag] =
          IF tag = Proxy /\ selectors[tag] # Absent
          THEN [selectors[tag] EXCEPT !.nodes = nodes \cup {Direct}] ELSE selectors[tag]
  BY DEF Filled
<1>4. Absent \notin Selector
  BY SentinelsAssumption
<1>5. \A tag \in Tags : Filled(selectors, nodes)[tag] \in Selector \cup {Absent}
  BY <1>1, <1>3
<1>6. Filled(selectors, nodes) \in [Tags -> Selector \cup {Absent}]
  BY <1>5 DEF Filled
<1>7. ASSUME NEW tag \in Tags
      PROVE  /\ Filled(selectors, nodes)[tag] = Absent <=> selectors[tag] = Absent
             /\ tag # Proxy => Filled(selectors, nodes)[tag] = selectors[tag]
  BY <1>1, <1>3, <1>4
<1>8. Filled(selectors, nodes)[Proxy] # Absent =>
        Filled(selectors, nodes)[Proxy].nodes = nodes \cup {Direct}
  BY <1>1, <1>2, <1>3
<1>9. QED
  BY <1>6, <1>7, <1>8

\* The available nodes are nodes.
LEMMA AvailableNodes ==
  ASSUME NEW value \in Model
  PROVE  Available(value.pool) \in SUBSET Nodes
<1>1. value.pool \in Seq(Node)
  BY DEF Model
<1>2. \A i \in DOMAIN value.pool : value.pool[i] \in Node
  BY <1>1
<1>3. \A i \in DOMAIN value.pool : value.pool[i].id \in Nodes
  BY <1>2 DEF Node
<1>4. QED
  BY <1>3 DEF Available

\* The fields of the model that normalising returns.
LEMMA NormalizeFacts ==
  ASSUME NEW given \in Model, NormalizeRuntimeModel(given) # Refused
  PROVE  LET after == NormalizeRuntimeModel(given)
             selectors == Filled(given.selectors, Available(given.pool))
         IN  /\ after \in Model /\ after.pool = given.pool /\ after.selectors = selectors
             /\ \A s \in Services : after.routes[s] =
                  IF given.routes[s] = Absent THEN Absent ELSE CanonicalRoute(given.routes[s])
             /\ UniqueNodes(given.pool)
             /\ \A tag \in Tags :
                  selectors[tag] # Absent => ValidSelector(selectors[tag], Available(given.pool))
             /\ \A s \in Chosen(given.routes) : ValidRoute(given.routes[s], selectors[s])
             /\ DisjointRoutes(given.routes)
<1> DEFINE after == NormalizeRuntimeModel(given)
           nodes == Available(given.pool)
           selectors == Filled(given.selectors, nodes)
           routes == [s \in Services |->
             IF given.routes[s] = Absent THEN Absent ELSE CanonicalRoute(given.routes[s])]
<1>1. /\ UniqueNodes(given.pool)
      /\ \A tag \in Tags : selectors[tag] # Absent => ValidSelector(selectors[tag], nodes)
      /\ \A s \in Chosen(given.routes) : ValidRoute(given.routes[s], selectors[s])
      /\ DisjointRoutes(given.routes)
      /\ after = [given EXCEPT !.selectors = selectors, !.routes = routes]
  BY DEF NormalizeRuntimeModel
<1>2. selectors \in [Tags -> Selector \cup {Absent}]
  BY AvailableNodes, FilledFacts DEF Model
<1>3. ASSUME NEW s \in Services, given.routes[s] # Absent
      PROVE  CanonicalRoute(given.routes[s]) \in Route
  <2>1. s \in Chosen(given.routes)
    BY <1>3 DEF Chosen
  <2>2. given.routes[s] \in Route
    BY <1>3 DEF Model
  <2>3. \A i \in DOMAIN given.routes[s].domains : given.routes[s].domains[i].domain # Invalid
    BY <1>1, <2>1 DEF ValidRoute
  <2>4. QED
    BY <2>2, <2>3, CanonicalFacts
<1>4. routes \in [Services -> Route \cup {Absent}]
  BY <1>3
<1> HIDE DEF selectors, routes
<1>5. after \in Model /\ after.pool = given.pool /\ after.selectors = selectors /\ after.routes = routes
  BY <1>1, <1>2, <1>4 DEF Model
<1> HIDE DEF after
<1>6. \A s \in Services : after.routes[s] =
        IF given.routes[s] = Absent THEN Absent ELSE CanonicalRoute(given.routes[s])
  BY <1>5 DEF routes
<1>7. QED
  BY <1>1, <1>5, <1>6 DEF after, selectors

\* Two enabled routes that name one domain are one route, at one place.
LEMMA DisjointMeans ==
  ASSUME NEW routes, DisjointRoutes(routes), NEW s \in Enabled(routes), NEW t \in Enabled(routes),
         NEW i \in DOMAIN routes[s].domains, NEW j \in DOMAIN routes[t].domains,
         routes[s].domains[i].domain = routes[t].domains[j].domain
  PROVE  s = t /\ i = j
BY DEF DisjointRoutes, Key

\* A model that is accepted comes out in normal form.
LEMMA NormalizedIsNormal ==
  ASSUME NEW given \in Model, NormalizeRuntimeModel(given) # Refused
  PROVE  NormalForm(NormalizeRuntimeModel(given))
<1> DEFINE after == NormalizeRuntimeModel(given)
           nodes == Available(given.pool)
           selectors == Filled(given.selectors, nodes)
<1>1. /\ after \in Model /\ after.pool = given.pool /\ after.selectors = selectors
      /\ \A s \in Services : after.routes[s] =
           IF given.routes[s] = Absent THEN Absent ELSE CanonicalRoute(given.routes[s])
      /\ UniqueNodes(given.pool)
      /\ \A tag \in Tags : selectors[tag] # Absent => ValidSelector(selectors[tag], nodes)
      /\ \A s \in Chosen(given.routes) : ValidRoute(given.routes[s], selectors[s])
      /\ DisjointRoutes(given.routes)
  BY NormalizeFacts
<1>2. selectors[Proxy] # Absent => selectors[Proxy].nodes = nodes \cup {Direct}
  BY AvailableNodes, FilledFacts DEF Model
<1> HIDE DEF after, selectors
<1>3. ASSUME NEW s \in Chosen(after.routes)
      PROVE  /\ s \in Chosen(given.routes)
             /\ given.routes[s] \in Route
             /\ \A i \in DOMAIN given.routes[s].domains :
                  given.routes[s].domains[i].domain # Invalid
             /\ after.routes[s] = CanonicalRoute(given.routes[s])
  <2>1. s \in Services /\ after.routes[s] # Absent
    BY DEF Chosen
  <2>2. given.routes[s] # Absent /\ after.routes[s] = CanonicalRoute(given.routes[s])
    BY <1>1, <2>1
  <2>3. s \in Chosen(given.routes)
    BY <2>1, <2>2 DEF Chosen
  <2>4. given.routes[s] \in Route
    BY <2>3, ChosenRoutes
  <2>5. QED
    BY <1>1, <2>2, <2>3, <2>4 DEF ValidRoute
<1>4. ASSUME NEW s \in Chosen(after.routes)
      PROVE  NormalRoute(after.routes[s], after.selectors[s])
  <2> DEFINE before == given.routes[s]
             route == after.routes[s]
  <2>1. /\ ValidRoute(before, selectors[s]) /\ before \in Route /\ route = CanonicalRoute(before)
        /\ \A i \in DOMAIN before.domains : before.domains[i].domain # Invalid
    BY <1>1, <1>3
  <2> HIDE DEF before, route
  <2>2. /\ route \in Route /\ Rearranged(route.domains, before.domains)
        /\ \A i \in DOMAIN route.domains : route.domains[i].plain
        /\ Ascending(route.domains)
    BY <2>1, CanonicalFacts
  <2>3. \A i \in DOMAIN route.domains : route.domains[i].domain # Invalid
    BY <2>1, <2>2 DEF Rearranged
  <2>4. before.domains # <<>> /\ before.domains \in Seq(Spelled) /\ selectors[s] # Absent
    BY <2>1 DEF ValidRoute, Route
  <2>5. 1 \in DOMAIN before.domains
    BY <2>4
  <2>6. route.domains # <<>>
    BY <2>2, <2>5 DEF Rearranged
  <2>7. NormalRoute(route, selectors[s])
    BY <2>2, <2>3, <2>4, <2>6 DEF NormalRoute, ValidRoute
  <2>8. QED
    BY <1>1, <2>7 DEF route
<1>5. ASSUME NEW s \in Enabled(after.routes), NEW t \in Enabled(after.routes),
             NEW i \in DOMAIN after.routes[s].domains, NEW j \in DOMAIN after.routes[t].domains,
             after.routes[s].domains[i].domain = after.routes[t].domains[j].domain
      PROVE  s = t /\ i = j
  <2>1. /\ s \in Chosen(after.routes) /\ after.routes[s].enabled
        /\ t \in Chosen(after.routes) /\ after.routes[t].enabled
    BY DEF Enabled
  <2>2. \A u \in {s, t} :
          /\ given.routes[u] \in Route /\ u \in Chosen(given.routes)
          /\ after.routes[u] = CanonicalRoute(given.routes[u])
          /\ \A k \in DOMAIN given.routes[u].domains : given.routes[u].domains[k].domain # Invalid
    BY <1>3, <2>1
  <2>3. \A u \in {s, t} :
          /\ after.routes[u].enabled = given.routes[u].enabled
          /\ Rearranged(after.routes[u].domains, given.routes[u].domains)
    BY <2>2, CanonicalFacts
  <2>4. s \in Enabled(given.routes) /\ t \in Enabled(given.routes)
    BY <2>1, <2>2, <2>3 DEF Enabled
  <2> DEFINE first == given.routes[s].domains
             second == given.routes[t].domains
  <2>5. PICK p \in [DOMAIN first -> DOMAIN first] :
          /\ \A k, l \in DOMAIN first : p[k] = p[l] => k = l
          /\ \A k \in DOMAIN first : after.routes[s].domains[k].domain = first[p[k]].domain
    BY <2>3 DEF Rearranged
  <2>6. PICK q \in [DOMAIN second -> DOMAIN second] :
          \A k \in DOMAIN second : after.routes[t].domains[k].domain = second[q[k]].domain
    BY <2>3 DEF Rearranged
  <2>7. i \in DOMAIN first /\ j \in DOMAIN second
    BY <2>3 DEF Rearranged
  <2>8. first[p[i]].domain = second[q[j]].domain /\ p[i] \in DOMAIN first /\ q[j] \in DOMAIN second
    BY <1>5, <2>5, <2>6, <2>7
  <2>9. s = t
    BY <1>1, <2>4, <2>8, DisjointMeans
  <2>10. first[p[i]].domain = first[p[j]].domain /\ j \in DOMAIN first /\ p[j] \in DOMAIN first
    BY <1>5, <2>5, <2>7, <2>9
  <2>11. p[i] = p[j]
    BY <1>1, <2>4, <2>8, <2>10, DisjointMeans
  <2>12. QED
    BY <2>5, <2>7, <2>9, <2>10, <2>11
<1>6. DisjointRoutes(after.routes)
  BY <1>5 DEF DisjointRoutes, Key
<1>7. QED
  BY <1>1, <1>2, <1>4, <1>6 DEF NormalForm, after, selectors

\* A model in normal form is accepted again, as it is.
LEMMA NormalStaysNormal ==
  ASSUME NEW value, NormalForm(value)
  PROVE  NormalizeRuntimeModel(value) = value
<1> DEFINE nodes == Available(value.pool)
           selectors == Filled(value.selectors, nodes)
           routes == [s \in Services |->
             IF value.routes[s] = Absent THEN Absent ELSE CanonicalRoute(value.routes[s])]
<1>1. /\ value \in Model /\ UniqueNodes(value.pool) /\ DisjointRoutes(value.routes)
      /\ \A tag \in Tags :
           value.selectors[tag] # Absent => ValidSelector(value.selectors[tag], nodes)
      /\ value.selectors[Proxy] # Absent => value.selectors[Proxy].nodes = nodes \cup {Direct}
      /\ \A s \in Chosen(value.routes) : NormalRoute(value.routes[s], value.selectors[s])
  BY DEF NormalForm
<1>2. selectors = value.selectors
  <2>1. ASSUME NEW selector \in Selector, selector.nodes = nodes \cup {Direct}
        PROVE  [selector EXCEPT !.nodes = nodes \cup {Direct}] = selector
    BY <2>1 DEF Selector
  <2>2. value.selectors \in [Tags -> Selector \cup {Absent}]
    BY <1>1 DEF Model
  <2>3. \A tag \in Tags : selectors[tag] = value.selectors[tag]
    BY <1>1, <2>1, <2>2 DEF Filled
  <2>4. selectors = [tag \in Tags |-> selectors[tag]]
    BY DEF Filled
  <2> HIDE DEF selectors
  <2>5. QED
    BY <2>2, <2>3, <2>4
<1>3. routes = value.routes
  <2>1. ASSUME NEW s \in Services, value.routes[s] # Absent
        PROVE  CanonicalRoute(value.routes[s]) = value.routes[s]
    <3>1. s \in Chosen(value.routes)
      BY <2>1 DEF Chosen
    <3>2. value.routes[s] \in Route /\ NormalRoute(value.routes[s], value.selectors[s])
      BY <1>1, <3>1, ChosenRoutes
    <3>3. QED
      BY <3>2, CanonicalAgain DEF NormalRoute, ValidRoute
  <2>2. value.routes = [s \in Services |-> value.routes[s]]
    BY <1>1 DEF Model
  <2>3. QED
    BY <2>1, <2>2
<1>4. \A s \in Chosen(value.routes) : ValidRoute(value.routes[s], selectors[s])
  BY <1>1, <1>2 DEF NormalRoute
<1>5. NormalizeRuntimeModel(value) = [value EXCEPT !.selectors = selectors, !.routes = routes]
  BY <1>1, <1>2, <1>4 DEF NormalizeRuntimeModel
<1> HIDE DEF selectors, routes
<1>6. QED
  BY <1>1, <1>2, <1>3, <1>5 DEF Model

-----------------------------------------------------------------------------
(* Outbounds *)

\* The tags of the nodes are those of the available ones, each once.
LEMMA NodeTagsFacts ==
  ASSUME model \in Model
  PROVE  /\ NodeTags \in Seq(Nodes)
         /\ ToSet(NodeTags) = Available(model.pool)
         /\ NodeTags = <<>> <=> Available(model.pool) = {}
         /\ UniqueNodes(model.pool) =>
              \A i, j \in DOMAIN NodeTags : NodeTags[i] = NodeTags[j] => i = j
<1> DEFINE pool == model.pool
           Usable == {i \in DOMAIN pool : pool[i].available}
           order == Pairs(Usable, <)
           places == Ordered(Usable, order)
           n == Cardinality(Usable)
<1>1. pool \in Seq(Node)
  BY DEF Model
<1>2. \A i \in DOMAIN pool : pool[i].id \in Nodes
  <2>1. \A i \in DOMAIN pool : pool[i] \in Node
    BY <1>1
  <2>2. QED
    BY <2>1 DEF Node
<1>3. IsFiniteSet(Usable) /\ Usable \in SUBSET Nat /\ DOMAIN pool \in SUBSET Nat
  <2>1. IsFiniteSet(DOMAIN pool) /\ DOMAIN pool = 1..Len(pool) /\ Len(pool) \in Nat
    BY <1>1, PlacesAreFinite
  <2>2. Usable \in SUBSET DOMAIN pool
    OBVIOUS
  <2>3. QED
    BY <2>1, <2>2, FS_Subset
<1>4. \A i, j \in Usable : <<i, j>> \in order <=> i < j
  BY DEF Pairs
<1> HIDE DEF Usable, order
<1>5. IsStrictOrder(Usable, order)
  BY <1>3, <1>4 DEF IsStrictOrder
<1>6. /\ n \in Nat /\ places \in Seq(Usable) /\ Len(places) = n
      /\ \A i \in Usable : \E k \in 1..n : places[k] = i
      /\ \A i, j \in 1..n : i < j => <<places[i], places[j]>> \in order
  BY <1>3, <1>5, OrderedFacts
<1>7. NodeTags = [k \in DOMAIN places |-> pool[places[k]].id]
  BY DEF NodeTags, Usable, order
<1> HIDE DEF places, n
<1>8. DOMAIN places = 1..n /\ \A k \in 1..n : places[k] \in Usable
  BY <1>6
<1>9. Usable \in SUBSET DOMAIN pool
  BY DEF Usable
<1>10. NodeTags \in [1..n -> Nodes]
  BY <1>2, <1>7, <1>8, <1>9
<1>11. NodeTags \in Seq(Nodes) /\ DOMAIN NodeTags = 1..n
  BY <1>6, <1>10
<1>12. ToSet(NodeTags) = {pool[i].id : i \in Usable}
  <2>1. ToSet(NodeTags) = {NodeTags[k] : k \in 1..n}
    BY <1>11 DEF ToSet
  <2>2. \A k \in 1..n : NodeTags[k] = pool[places[k]].id
    BY <1>7, <1>8
  <2>3. QED
    BY <1>6, <1>8, <2>1, <2>2
<1>13. ToSet(NodeTags) = Available(pool)
  BY <1>12 DEF Available, Usable
<1>14. NodeTags = <<>> <=> Available(pool) = {}
  <2>1. ToSet(NodeTags) = {NodeTags[k] : k \in DOMAIN NodeTags}
    BY DEF ToSet
  <2>2. NodeTags = <<>> => DOMAIN NodeTags = {}
    OBVIOUS
  <2>3. DOMAIN NodeTags = {} => NodeTags = <<>>
    <3>1. DOMAIN NodeTags = 1..Len(NodeTags) /\ Len(NodeTags) \in Nat
      BY <1>11
    <3>2. DOMAIN NodeTags = {} => Len(NodeTags) = 0
      BY <3>1
    <3>3. QED
      BY <1>11, <3>2
  <2>4. QED
    BY <1>13, <2>1, <2>2, <2>3
<1>15. ASSUME UniqueNodes(pool), NEW i \in DOMAIN NodeTags, NEW j \in DOMAIN NodeTags,
              NodeTags[i] = NodeTags[j]
       PROVE  i = j
  <2>1. pool[places[i]].id = pool[places[j]].id /\ places[i] \in DOMAIN pool /\ places[j] \in DOMAIN pool
    BY <1>7, <1>8, <1>9, <1>11, <1>15
  <2>2. places[i] = places[j]
    BY <1>15, <2>1 DEF UniqueNodes, IsInjective
  <2>3. i \in 1..n /\ j \in 1..n /\ i \in Nat /\ j \in Nat
    BY <1>6, <1>11
  <2>4. \A k, l \in 1..n : k < l => places[k] < places[l]
    BY <1>4, <1>6, <1>8
  <2>5. places[i] \in Nat /\ places[j] \in Nat
    BY <1>3, <1>8, <2>3
  <2>6. ~(i < j) /\ ~(j < i)
    BY <2>2, <2>3, <2>4, <2>5
  <2>7. QED
    BY <2>3, <2>6
<1>16. QED
  BY <1>11, <1>13, <1>14, <1>15

-----------------------------------------------------------------------------
(* Rules *)

\* The rules of the enabled routes.
RulesOf(routes) ==
  UNION {{Rule("suffix", routes[s].domains[i].domain, s) : i \in DOMAIN routes[s].domains} :
           s \in Enabled(routes)}

\* They are finitely many, and each has a domain of its own.
LEMMA RulesOfFacts ==
  ASSUME NEW value, NormalForm(value)
  PROVE  /\ IsFiniteSet(RulesOf(value.routes))
         /\ \A r \in RulesOf(value.routes) :
              /\ r.kind = "suffix" /\ r.domain \in Domains /\ r.outbound \in Enabled(value.routes)
              /\ r \in OptionRule /\ r = Rule("suffix", r.domain, r.outbound)
              /\ \E i \in DOMAIN value.routes[r.outbound].domains :
                   value.routes[r.outbound].domains[i].domain = r.domain
         /\ \A s \in Enabled(value.routes) : \A i \in DOMAIN value.routes[s].domains :
              Rule("suffix", value.routes[s].domains[i].domain, s) \in RulesOf(value.routes)
         /\ \A q, r \in RulesOf(value.routes) : q.domain = r.domain => q = r
<1> DEFINE routes == value.routes
           All == [c \in Services \X Domains |-> Rule("suffix", c[2], c[1])]
           Possible == {Rule("suffix", c[2], c[1]) : c \in Services \X Domains}
<1>1. ASSUME NEW s \in Enabled(routes), NEW i \in DOMAIN routes[s].domains
      PROVE  s \in Services /\ routes[s].domains[i].domain \in Domains
  <2>1. s \in Chosen(routes)
    BY DEF Enabled
  <2>2. s \in Services /\ routes[s].domains \in Seq(Spelled) /\ NormalRoute(routes[s], value.selectors[s])
    BY <2>1, ChosenRoutes DEF NormalForm
  <2>3. \A k \in DOMAIN routes[s].domains : routes[s].domains[k].domain # Invalid
    BY <2>2 DEF NormalRoute, ValidRoute
  <2>4. QED
    BY <2>2, <2>3, SpelledFacts
<1>2. ASSUME NEW r \in RulesOf(routes)
      PROVE  /\ r.kind = "suffix" /\ r.domain \in Domains /\ r.outbound \in Enabled(routes)
             /\ r \in OptionRule /\ r = Rule("suffix", r.domain, r.outbound)
             /\ r \in Possible
             /\ \E i \in DOMAIN routes[r.outbound].domains :
                  routes[r.outbound].domains[i].domain = r.domain
  <2>0. PICK s \in Enabled(routes) : \E i \in DOMAIN routes[s].domains :
          r = Rule("suffix", routes[s].domains[i].domain, s)
    BY DEF RulesOf
  <2>1. PICK i \in DOMAIN routes[s].domains : r = Rule("suffix", routes[s].domains[i].domain, s)
    BY <2>0
  <2>2. r.kind = "suffix" /\ r.domain = routes[s].domains[i].domain /\ r.outbound = s
    BY <2>1 DEF Rule
  <2>3. s \in Services /\ r.domain \in Domains
    BY <1>1, <2>2
  <2>4. r \in OptionRule
    BY <2>1, <2>2, <2>3 DEF Rule, OptionRule
  <2>5. r \in Possible
    <3>1. <<s, r.domain>> \in Services \X Domains
      BY <2>3
    <3>2. r = Rule("suffix", <<s, r.domain>>[2], <<s, r.domain>>[1])
      BY <2>1, <2>2
    <3>3. QED
      BY <3>1, <3>2
  <2>6. QED
    BY <2>1, <2>2, <2>3, <2>4, <2>5
<1>3. IsFiniteSet(RulesOf(routes))
  <2>1. IsFiniteSet(Services \X Domains)
    BY ConstantsAssumption, DomainsAreFinite, FS_Product
  <2>2. All \in Surjection(Services \X Domains, Possible)
    BY DEF Surjection
  <2>3. IsFiniteSet(Possible)
    BY <2>1, <2>2, FS_Surjection
  <2>4. RulesOf(routes) \in SUBSET Possible
    BY <1>2
  <2>5. QED
    BY <2>3, <2>4, FS_Subset
<1>4. ASSUME NEW q \in RulesOf(routes), NEW r \in RulesOf(routes), q.domain = r.domain
      PROVE  q = r
  <2>1. DisjointRoutes(routes)
    BY DEF NormalForm
  <2>2. q.outbound = r.outbound
    BY <1>2, <1>4, <2>1, DisjointMeans
  <2>3. QED
    BY <1>2, <1>4, <2>2
<1>5. \A s \in Enabled(routes) : \A i \in DOMAIN routes[s].domains :
        Rule("suffix", routes[s].domains[i].domain, s) \in RulesOf(routes)
  BY DEF RulesOf
<1>6. QED
  BY <1>2, <1>3, <1>4, <1>5

\* The service rules are the rules of the enabled routes, each once, the more specific
\* one first.
LEMMA ServiceRulesFacts ==
  ASSUME NormalForm(model)
  PROVE  /\ ServiceRules \in Seq(RulesOf(model.routes))
         /\ \A r \in RulesOf(model.routes) : \E k \in DOMAIN ServiceRules : ServiceRules[k] = r
         /\ \A i, j \in DOMAIN ServiceRules :
              i < j => MoreSpecific(ServiceRules[i], ServiceRules[j])
<1> DEFINE rules == RulesOf(model.routes)
           order == Pairs(rules, MoreSpecific)
           n == Cardinality(rules)
<1>1. ServiceRules = Ordered(rules, order)
  BY DEF ServiceRules, RulesOf
<1>2. IsFiniteSet(rules) /\ \A r \in rules : r.domain \in Domains
  BY RulesOfFacts
<1>3. \A q, r \in rules : q.domain = r.domain => q = r
  BY RulesOfFacts
<1>4. \A r \in rules : /\ Rank(r) \in Nat /\ Lexical[Rank(r)] = r.domain
                       /\ Len(r.domain) \in Nat
  <2>1. \A domain \in Domains : domain \in Seq(STRING)
    BY ConstantsAssumption DEF Domains, ToSet
  <2>2. QED
    BY <1>2, <2>1, RankFacts
<1>5. \A q, r \in rules : <<q, r>> \in order <=> MoreSpecific(q, r)
  BY DEF Pairs
<1> HIDE DEF rules, order
<1>6. IsStrictOrder(rules, order)
  <2>1. \A r \in rules : ~MoreSpecific(r, r)
    BY <1>4 DEF MoreSpecific
  <2>2. \A q, r \in rules : q = r \/ MoreSpecific(q, r) \/ MoreSpecific(r, q)
    <3>1. \A q, r \in rules : Rank(q) = Rank(r) => q = r
      BY <1>3, <1>4
    <3>2. QED
      BY <1>4, <3>1 DEF MoreSpecific
  <2>3. \A q, r, s \in rules : MoreSpecific(q, r) /\ MoreSpecific(r, s) => MoreSpecific(q, s)
    BY <1>4 DEF MoreSpecific
  <2>4. QED
    BY <1>5, <2>1, <2>2, <2>3 DEF IsStrictOrder
<1>7. /\ n \in Nat /\ ServiceRules \in Seq(rules) /\ Len(ServiceRules) = n
      /\ \A r \in rules : \E k \in 1..n : ServiceRules[k] = r
      /\ \A i, j \in 1..n : i < j => <<ServiceRules[i], ServiceRules[j]>> \in order
  BY <1>1, <1>2, <1>6, OrderedFacts
<1> HIDE DEF n
<1>8. DOMAIN ServiceRules = 1..n /\ \A k \in 1..n : ServiceRules[k] \in rules
  BY <1>7
<1>9. \A i, j \in DOMAIN ServiceRules :
        i < j => MoreSpecific(ServiceRules[i], ServiceRules[j])
  BY <1>5, <1>7, <1>8
<1>10. QED
  BY <1>7, <1>8, <1>9 DEF rules

\* How many rules are in front of the service rules, and behind them.
InFront(st) == IF st.proxyMode = "tun" THEN 2 ELSE 1
Behind(st)  == IF st.routeMode = "rule" THEN 1 ELSE 0

\* A list of rules: sniffing, with TUN the interception of DNS, the service rules by
\* their specificity unless everything goes direct, the China rule.
RulePlan(value, st, list) ==
  \E n \in Nat :
    /\ list \in Seq(OptionRule) /\ Len(list) = InFront(st) + n + Behind(st)
    /\ list[1] = Rule("sniff", <<>>, Absent)
    /\ st.proxyMode = "tun" => list[2] = Rule("dns", <<>>, Absent)
    /\ st.routeMode = "rule" => list[InFront(st) + n + 1] = Rule("china", <<>>, Direct)
    /\ \A i \in InFront(st) + 1..InFront(st) + n : list[i] \in RulesOf(value.routes)
    /\ \A i, j \in InFront(st) + 1..InFront(st) + n : i < j => MoreSpecific(list[i], list[j])
    /\ st.routeMode = "direct" => n = 0
    /\ st.routeMode # "direct" => \A r \in RulesOf(value.routes) :
         \E i \in InFront(st) + 1..InFront(st) + n : list[i] = r

\* The elements of a list put together of three.
Joined(list, a, b, c) ==
  /\ Len(list) = Len(a) + Len(b) + Len(c)
  /\ \A i \in 1..Len(a) : list[i] = a[i]
  /\ \A i \in 1..Len(b) : list[Len(a) + i] = b[i]
  /\ \A i \in 1..Len(c) : list[Len(a) + Len(b) + i] = c[i]

LEMMA ThreeParts ==
  ASSUME NEW T, NEW a \in Seq(T), NEW b \in Seq(T), NEW c \in Seq(T)
  PROVE  a \o b \o c \in Seq(T) /\ Joined(a \o b \o c, a, b, c)
<1>1. /\ a \o b \in Seq(T) /\ Len(a \o b) = Len(a) + Len(b)
      /\ Len(a) \in Nat /\ Len(b) \in Nat /\ Len(c) \in Nat
      /\ \A i \in 1..Len(a) : (a \o b)[i] = a[i]
      /\ \A i \in 1..Len(b) : (a \o b)[Len(a) + i] = b[i]
  OBVIOUS
<1> DEFINE ab == a \o b
<1> HIDE DEF ab
<1>2. /\ ab \o c \in Seq(T) /\ Len(ab \o c) = Len(ab) + Len(c)
      /\ \A i \in 1..Len(ab) : (ab \o c)[i] = ab[i]
      /\ \A i \in 1..Len(c) : (ab \o c)[Len(ab) + i] = c[i]
  BY <1>1 DEF ab
<1>3. QED
  BY <1>1, <1>2 DEF ab, Joined

LEMMA TwoParts ==
  ASSUME NEW T, NEW a \in Seq(T), NEW b \in Seq(T), NEW c \in Seq(T), Len(c) = 0
  PROVE  a \o b \in Seq(T) /\ Joined(a \o b, a, b, c)
<1>1. /\ a \o b \in Seq(T) /\ Len(a \o b) = Len(a) + Len(b)
      /\ Len(a) \in Nat /\ Len(b) \in Nat
      /\ \A i \in 1..Len(a) : (a \o b)[i] = a[i]
      /\ \A i \in 1..Len(b) : (a \o b)[Len(a) + i] = b[i]
  OBVIOUS
<1>2. 1..Len(c) = {} /\ Len(a) + Len(b) + Len(c) = Len(a) + Len(b)
  BY <1>1
<1>3. QED
  BY <1>1, <1>2 DEF Joined

\* What planRoute begins with.
LEMMA PlannedRulesFacts ==
  /\ PlannedRules \in Seq(OptionRule)
  /\ Len(PlannedRules) = InFront(settings) + Behind(settings)
  /\ PlannedRules[1] = Rule("sniff", <<>>, Absent)
  /\ settings.proxyMode = "tun" => PlannedRules[2] = Rule("dns", <<>>, Absent)
  /\ settings.routeMode = "rule" => PlannedRules[InFront(settings) + 1] = Rule("china", <<>>, Direct)
<1> DEFINE a == <<Rule("sniff", <<>>, Absent)>>
           b == IF settings.proxyMode = "tun" THEN <<Rule("dns", <<>>, Absent)>> ELSE <<>>
           c == IF settings.routeMode = "rule" THEN <<Rule("china", <<>>, Direct)>> ELSE <<>>
<1>1. /\ Rule("sniff", <<>>, Absent) \in OptionRule
      /\ Rule("dns", <<>>, Absent) \in OptionRule
      /\ Rule("china", <<>>, Direct) \in OptionRule
  BY DEF Rule, OptionRule
<1>2. a \in Seq(OptionRule) /\ Len(a) = 1 /\ a[1] = Rule("sniff", <<>>, Absent)
  BY <1>1
<1>3. /\ b \in Seq(OptionRule) /\ Len(b) = InFront(settings) - 1
      /\ settings.proxyMode = "tun" => b[1] = Rule("dns", <<>>, Absent)
  BY <1>1 DEF InFront
<1>4. /\ c \in Seq(OptionRule) /\ Len(c) = Behind(settings)
      /\ settings.routeMode = "rule" => c[1] = Rule("china", <<>>, Direct)
  BY <1>1 DEF Behind
<1>5. PlannedRules = a \o b \o c
  BY DEF PlannedRules
<1> HIDE DEF a, b, c
<1>6. PlannedRules \in Seq(OptionRule) /\ Joined(PlannedRules, a, b, c)
  BY <1>2, <1>3, <1>4, <1>5, ThreeParts
<1>7. /\ InFront(settings) \in {1, 2} /\ Behind(settings) \in {0, 1}
      /\ settings.proxyMode = "tun" => InFront(settings) = 2
      /\ settings.routeMode = "rule" => Behind(settings) = 1
  BY DEF InFront, Behind
<1>8. QED
  BY <1>2, <1>3, <1>4, <1>6, <1>7 DEF Joined

\* The rules of a plan.
LEMMA RulesFacts ==
  ASSUME NormalForm(model)
  PROVE  RulePlan(model, settings, Rules)
<1> DEFINE f == InFront(settings)
           b == Behind(settings)
           known == RulesOf(model.routes)
<1>1. /\ f \in {1, 2} /\ b \in {0, 1}
      /\ settings.proxyMode = "tun" => f = 2
      /\ settings.routeMode = "rule" => b = 1
  BY DEF InFront, Behind
<1>2. /\ PlannedRules \in Seq(OptionRule) /\ Len(PlannedRules) = f + b
      /\ PlannedRules[1] = Rule("sniff", <<>>, Absent)
      /\ settings.proxyMode = "tun" => PlannedRules[2] = Rule("dns", <<>>, Absent)
      /\ settings.routeMode = "rule" => PlannedRules[f + 1] = Rule("china", <<>>, Direct)
  BY PlannedRulesFacts
<1> HIDE DEF f, b
<1>3. CASE settings.routeMode = "direct"
  <2>1. b = 0 /\ Rules = PlannedRules
    BY <1>3 DEF Behind, b, Rules
  <2>2. /\ 0 \in Nat /\ Rules \in Seq(OptionRule) /\ Len(Rules) = f + 0 + b
        /\ Rules[1] = Rule("sniff", <<>>, Absent)
        /\ settings.proxyMode = "tun" => Rules[2] = Rule("dns", <<>>, Absent)
        /\ settings.routeMode # "rule" /\ f + 1..f + 0 = {}
    BY <1>1, <1>2, <1>3, <2>1
  <2>3. QED
    BY <1>3, <2>2 DEF RulePlan, f, b
<1>4. CASE settings.routeMode # "direct"
  <2> DEFINE n == Len(ServiceRules)
             first == SubSeq(PlannedRules, 1, f)
             last == SubSeq(PlannedRules, f + 1, f + b)
  <2>1. Rules = first \o ServiceRules \o last
    BY <1>2, <1>4 DEF Rules, Reserved, InFront, f
  <2>2. /\ first \in Seq(OptionRule) /\ Len(first) = f
        /\ \A i \in 1..f : first[i] = PlannedRules[i]
    BY <1>1, <1>2
  <2>3. /\ last \in Seq(OptionRule) /\ Len(last) = b
        /\ b = 1 => last[1] = PlannedRules[f + 1]
    BY <1>1, <1>2
  <2> HIDE DEF first, last
  <2>4. /\ ServiceRules \in Seq(known)
        /\ \A r \in known : \E k \in DOMAIN ServiceRules : ServiceRules[k] = r
        /\ \A i, j \in DOMAIN ServiceRules :
             i < j => MoreSpecific(ServiceRules[i], ServiceRules[j])
    BY ServiceRulesFacts
  <2>5. known \in SUBSET OptionRule
    BY RulesOfFacts
  <2> HIDE DEF known
  <2>6. /\ ServiceRules \in Seq(OptionRule) /\ n \in Nat /\ DOMAIN ServiceRules = 1..n
        /\ \A k \in 1..n : ServiceRules[k] \in known
    BY <2>4, <2>5
  <2>7. Rules \in Seq(OptionRule) /\ Joined(Rules, first, ServiceRules, last)
    BY <2>1, <2>2, <2>3, <2>6, ThreeParts
  <2>8. /\ Rules \in Seq(OptionRule) /\ Len(Rules) = Len(first) + Len(ServiceRules) + Len(last)
        /\ \A i \in 1..Len(first) : Rules[i] = first[i]
        /\ \A i \in 1..Len(ServiceRules) : Rules[Len(first) + i] = ServiceRules[i]
        /\ \A i \in 1..Len(last) : Rules[Len(first) + Len(ServiceRules) + i] = last[i]
    BY <2>7 DEF Joined
  <2> HIDE DEF n
  <2>9. Rules \in Seq(OptionRule) /\ Len(Rules) = f + n + b
    BY <2>2, <2>3, <2>8 DEF n
  <2>10. /\ Rules[1] = Rule("sniff", <<>>, Absent)
         /\ settings.proxyMode = "tun" => Rules[2] = Rule("dns", <<>>, Absent)
    BY <1>1, <1>2, <2>2, <2>8
  <2>11. settings.routeMode = "rule" => Rules[f + n + 1] = Rule("china", <<>>, Direct)
    BY <1>1, <1>2, <2>2, <2>3, <2>8 DEF n
  <2>12. ASSUME NEW i \in f + 1..f + n
         PROVE  i - f \in 1..n /\ Rules[i] = ServiceRules[i - f]
    <3>1. i - f \in 1..n /\ f + (i - f) = i
      BY <1>1, <2>6
    <3>2. Rules[f + (i - f)] = ServiceRules[i - f]
      BY <2>2, <2>8, <3>1 DEF n
    <3>3. QED
      BY <3>1, <3>2
  <2>13. \A i \in f + 1..f + n : Rules[i] \in known
    BY <2>6, <2>12
  <2>14. ASSUME NEW i \in f + 1..f + n, NEW j \in f + 1..f + n, i < j
         PROVE  MoreSpecific(Rules[i], Rules[j])
    <3>1. i - f < j - f
      BY <1>1, <2>6, <2>14
    <3>2. QED
      BY <2>4, <2>6, <2>12, <3>1
  <2>15. ASSUME NEW r \in known
         PROVE  \E i \in f + 1..f + n : Rules[i] = r
    <3>1. PICK k \in 1..n : ServiceRules[k] = r
      BY <2>4, <2>6
    <3>2. f + k \in f + 1..f + n
      BY <1>1, <2>6
    <3>3. Rules[f + k] = r
      BY <2>2, <2>8, <3>1 DEF n
    <3>4. QED
      BY <3>2, <3>3
  <2>16. /\ n \in Nat
         /\ Rules \in Seq(OptionRule) /\ Len(Rules) = f + n + b
         /\ Rules[1] = Rule("sniff", <<>>, Absent)
         /\ settings.proxyMode = "tun" => Rules[2] = Rule("dns", <<>>, Absent)
         /\ settings.routeMode = "rule" => Rules[f + n + 1] = Rule("china", <<>>, Direct)
         /\ \A i \in f + 1..f + n : Rules[i] \in known
         /\ \A i, j \in f + 1..f + n : i < j => MoreSpecific(Rules[i], Rules[j])
         /\ \A r \in known : \E i \in f + 1..f + n : Rules[i] = r
    BY <2>6, <2>9, <2>10, <2>11, <2>13, <2>14, <2>15
  <2>17. QED
    BY <1>4, <2>16, Zenon DEF RulePlan, f, b, known
<1>5. QED
  BY <1>3, <1>4

-----------------------------------------------------------------------------
(* Outbounds of a plan *)

TagsOf(list)   == {list[i].tag : i \in DOMAIN list}
Distinct(list) == \A i, j \in DOMAIN list : list[i].tag = list[j].tag => i = j

\* A list has the outbounds of three, and every tag once.
Collected(list, a, b, c) ==
  /\ Distinct(list)
  /\ TagsOf(list) = TagsOf(a) \cup TagsOf(b) \cup TagsOf(c)
  /\ \A i \in DOMAIN list : \/ \E k \in DOMAIN a : list[i] = a[k]
                            \/ \E k \in DOMAIN b : list[i] = b[k]
                            \/ \E k \in DOMAIN c : list[i] = c[k]

\* Lists with different tags, put together, have them all, and each once.
LEMMA JoinedTags ==
  ASSUME NEW T, NEW list \in Seq(T), NEW a \in Seq(T), NEW b \in Seq(T), NEW c \in Seq(T),
         Joined(list, a, b, c), Distinct(a), Distinct(b), Distinct(c),
         TagsOf(a) \cap TagsOf(b) = {}, TagsOf(a) \cap TagsOf(c) = {}, TagsOf(b) \cap TagsOf(c) = {}
  PROVE  Collected(list, a, b, c)
<1> DEFINE la == Len(a)
           lb == Len(b)
           lc == Len(c)
<1>1. /\ la \in Nat /\ lb \in Nat /\ lc \in Nat
      /\ DOMAIN a = 1..la /\ DOMAIN b = 1..lb /\ DOMAIN c = 1..lc
      /\ DOMAIN list = 1..la + lb + lc
  BY DEF Joined
<1>2. /\ \A i \in 1..la : list[i] = a[i]
      /\ \A i \in 1..lb : list[la + i] = b[i]
      /\ \A i \in 1..lc : list[la + lb + i] = c[i]
  BY DEF Joined
<1> HIDE DEF la, lb, lc
<1>3. ASSUME NEW i \in 1..la + lb + lc
      PROVE  \/ i \in 1..la /\ list[i] = a[i]
             \/ i - la \in 1..lb /\ list[i] = b[i - la] /\ i > la
             \/ i - la - lb \in 1..lc /\ list[i] = c[i - la - lb] /\ i > la + lb
  <2>1. \/ i \in 1..la
        \/ i - la \in 1..lb /\ la + (i - la) = i /\ i > la
        \/ i - la - lb \in 1..lc /\ la + lb + (i - la - lb) = i /\ i > la + lb
    BY <1>1
  <2>2. i - la \in 1..lb => list[la + (i - la)] = b[i - la]
    BY <1>2
  <2>3. i - la - lb \in 1..lc => list[la + lb + (i - la - lb)] = c[i - la - lb]
    BY <1>2
  <2>4. QED
    BY <1>2, <2>1, <2>2, <2>3
<1>4. \A i \in DOMAIN list : \/ \E k \in DOMAIN a : list[i] = a[k]
                             \/ \E k \in DOMAIN b : list[i] = b[k]
                             \/ \E k \in DOMAIN c : list[i] = c[k]
  BY <1>1, <1>3
<1>5. TagsOf(list) = TagsOf(a) \cup TagsOf(b) \cup TagsOf(c)
  <2>1. TagsOf(list) \subseteq TagsOf(a) \cup TagsOf(b) \cup TagsOf(c)
    BY <1>4 DEF TagsOf
  <2>2. ASSUME NEW k \in DOMAIN a
        PROVE  \E i \in DOMAIN list : list[i] = a[k]
    <3>1. k \in DOMAIN list
      BY <1>1
    <3>2. QED
      BY <1>1, <1>2, <3>1
  <2>3. ASSUME NEW k \in DOMAIN b
        PROVE  \E i \in DOMAIN list : list[i] = b[k]
    <3>1. la + k \in DOMAIN list
      BY <1>1
    <3>2. QED
      BY <1>1, <1>2, <3>1
  <2>4. ASSUME NEW k \in DOMAIN c
        PROVE  \E i \in DOMAIN list : list[i] = c[k]
    <3>1. la + lb + k \in DOMAIN list
      BY <1>1
    <3>2. QED
      BY <1>1, <1>2, <3>1
  <2>5. TagsOf(a) \subseteq TagsOf(list)
    BY <2>2 DEF TagsOf
  <2>6. TagsOf(b) \subseteq TagsOf(list)
    BY <2>3 DEF TagsOf
  <2>7. TagsOf(c) \subseteq TagsOf(list)
    BY <2>4 DEF TagsOf
  <2>8. QED
    BY <2>1, <2>5, <2>6, <2>7
<1>6. ASSUME NEW i \in 1..la + lb + lc, NEW j \in 1..la + lb + lc, list[i].tag = list[j].tag
      PROVE  i = j
  <2>1. /\ \A k \in 1..la : a[k].tag \in TagsOf(a)
        /\ \A k \in 1..lb : b[k].tag \in TagsOf(b)
        /\ \A k \in 1..lc : c[k].tag \in TagsOf(c)
    BY <1>1 DEF TagsOf
  <2>2. CASE i \in 1..la /\ list[i] = a[i]
    <3>1. j \in 1..la /\ list[j] = a[j]
      BY <1>3, <1>6, <2>1, <2>2
    <3>2. QED
      BY <1>1, <1>6, <2>2, <3>1 DEF Distinct
  <2>3. CASE i - la \in 1..lb /\ list[i] = b[i - la] /\ i > la
    <3>1. j - la \in 1..lb /\ list[j] = b[j - la] /\ j > la
      BY <1>3, <1>6, <2>1, <2>3
    <3>2. i - la = j - la
      BY <1>1, <1>6, <2>3, <3>1 DEF Distinct
    <3>3. QED
      BY <1>1, <3>2
  <2>4. CASE i - la - lb \in 1..lc /\ list[i] = c[i - la - lb] /\ i > la + lb
    <3>1. j - la - lb \in 1..lc /\ list[j] = c[j - la - lb] /\ j > la + lb
      BY <1>3, <1>6, <2>1, <2>4
    <3>2. i - la - lb = j - la - lb
      BY <1>1, <1>6, <2>4, <3>1 DEF Distinct
    <3>3. QED
      BY <1>1, <3>2
  <2>5. QED
    BY <1>3, <2>2, <2>3, <2>4
<1>7. Distinct(list)
  BY <1>1, <1>6 DEF Distinct
<1>8. QED
  BY <1>4, <1>5, <1>7 DEF Collected

\* The selectors there are, listed once.
LEMMA SelectorsFacts ==
  ASSUME NEW tags \in SUBSET Tags
  PROVE  /\ Selectors(tags) \in Seq(tags)
         /\ \A i \in DOMAIN Selectors(tags) : model.selectors[Selectors(tags)[i]] # Absent
         /\ \A tag \in tags : model.selectors[tag] # Absent =>
              \E i \in DOMAIN Selectors(tags) : Selectors(tags)[i] = tag
         /\ \A i, j \in DOMAIN Selectors(tags) : Selectors(tags)[i] = Selectors(tags)[j] => i = j
<1> DEFINE present == {tag \in tags : model.selectors[tag] # Absent}
           list == SetToSeq(present)
<1>1. IsFiniteSet(present)
  <2>1. IsFiniteSet(Services) /\ IsFiniteSet({Proxy})
    BY ConstantsAssumption, FS_Singleton
  <2>2. IsFiniteSet(Tags)
    BY <2>1, FS_Union DEF Tags
  <2>3. present \in SUBSET Tags
    OBVIOUS
  <2>4. QED
    BY <2>2, <2>3, FS_Subset
<1>2. Selectors(tags) = list
  BY DEF Selectors
<1> HIDE DEF present
<1>3. /\ list \in Seq(present) /\ ToSet(list) = present
      /\ \A i, j \in DOMAIN list : list[i] = list[j] => i = j
  BY <1>1, SetToSeqFacts
<1> HIDE DEF list
<1>4. \A i \in DOMAIN list : list[i] \in present
  BY <1>3
<1>5. \A tag \in present : \E i \in DOMAIN list : list[i] = tag
  BY <1>3 DEF ToSet
<1>6. present \in SUBSET tags /\ \A tag \in tags : tag \in present <=> model.selectors[tag] # Absent
  BY DEF present
<1>7. list \in Seq(tags)
  BY <1>3, <1>6
<1>8. QED
  BY <1>2, <1>3, <1>4, <1>5, <1>6, <1>7

\* A list of outbounds in which all tags are different, each group has members that are
\* there and one of them, the selected one of a selector, to begin with.
OutboundPlan(value, list) ==
  LET nodes == Available(value.pool)
  IN  /\ list \in Seq(OptionOutbound) /\ Distinct(list)
      /\ {Direct} \cup nodes \subseteq TagsOf(list)
      /\ nodes # {} => Proxy \in TagsOf(list)
      /\ \A tag \in Tags : value.selectors[tag] # Absent => tag \in TagsOf(list)
      /\ \A i \in DOMAIN list :
           /\ list[i].members \subseteq nodes \cup {Direct}
           /\ list[i].default \in list[i].members \cup {Absent}
           /\ list[i].tag \in Tags /\ value.selectors[list[i].tag] # Absent =>
                list[i].default = value.selectors[list[i].tag].selected

LEMMA OutboundFacts ==
  ASSUME NEW tag \in Tags \cup Nodes \cup {Direct, URLTest},
         NEW members \in SUBSET (Nodes \cup {Direct}), NEW default \in Nodes \cup {Direct, Absent}
  PROVE  /\ Outbound(tag, members, default) \in OptionOutbound
         /\ Outbound(tag, members, default).tag = tag
         /\ Outbound(tag, members, default).members = members
         /\ Outbound(tag, members, default).default = default
BY DEF Outbound, OptionOutbound

\* In normal form a selector is made of available nodes and the direct outbound.
LEMMA SelectorFacts ==
  ASSUME NEW value, NormalForm(value), NEW tag \in Tags, value.selectors[tag] # Absent
  PROVE  /\ value.selectors[tag].nodes \subseteq Available(value.pool) \cup {Direct}
         /\ value.selectors[tag].selected \in value.selectors[tag].nodes
         /\ value.selectors[tag].selected \in Nodes \cup {Direct}
         /\ tag = Proxy => value.selectors[tag].nodes = Available(value.pool) \cup {Direct}
<1>1. value \in Model /\ Available(value.pool) \in SUBSET Nodes
  BY AvailableNodes DEF NormalForm
<1>2. ValidSelector(value.selectors[tag], Available(value.pool))
  BY DEF NormalForm
<1>3. QED
  BY <1>1, <1>2 DEF NormalForm, ValidSelector, SelectedIsMember

\* Without nodes there is only the direct outbound, and every selector goes there.
LEMMA WithoutNodesFacts ==
  ASSUME NormalForm(model), Available(model.pool) = {}
  PROVE  OutboundPlan(model, WithoutNodes)
<1> DEFINE tags == Selectors(Tags)
           a == <<Plain(Direct)>>
           b == DirectSelectors
           c == <<>>
<1>1. /\ tags \in Seq(Tags)
      /\ \A i \in DOMAIN tags : model.selectors[tags[i]] # Absent
      /\ \A tag \in Tags : model.selectors[tag] # Absent => \E i \in DOMAIN tags : tags[i] = tag
      /\ \A i, j \in DOMAIN tags : tags[i] = tags[j] => i = j
  BY SelectorsFacts
<1>2. b = [i \in DOMAIN tags |-> Outbound(tags[i], {Direct}, Direct)]
  BY DEF DirectSelectors
<1> HIDE DEF tags, b
<1>3. DOMAIN tags = 1..Len(tags) /\ Len(tags) \in Nat /\ \A i \in DOMAIN tags : tags[i] \in Tags
  BY <1>1
<1>4. \A i \in DOMAIN tags :
        /\ b[i] \in OptionOutbound /\ b[i].tag = tags[i]
        /\ b[i].members = {Direct} /\ b[i].default = Direct
  BY <1>2, <1>3, OutboundFacts
<1>5. b \in Seq(OptionOutbound) /\ DOMAIN b = DOMAIN tags
  <2>1. b \in [1..Len(tags) -> OptionOutbound]
    BY <1>2, <1>3, <1>4
  <2>2. QED
    BY <1>3, <2>1, ListFacts
<1>6. /\ a \in Seq(OptionOutbound) /\ Len(a) = 1 /\ DOMAIN a = {1}
      /\ a[1].tag = Direct /\ a[1].members = {} /\ a[1].default = Absent
  <2>1. /\ Plain(Direct) \in OptionOutbound /\ Plain(Direct).tag = Direct
        /\ Plain(Direct).members = {} /\ Plain(Direct).default = Absent
    BY OutboundFacts DEF Plain
  <2>2. QED
    BY <2>1
<1>7. WithoutNodes = a \o b
  BY DEF WithoutNodes, b
<1>8. c \in Seq(OptionOutbound) /\ Len(c) = 0 /\ DOMAIN c = {}
  OBVIOUS
<1> HIDE DEF a, c
<1>9. WithoutNodes \in Seq(OptionOutbound) /\ Joined(WithoutNodes, a, b, c)
  BY <1>5, <1>6, <1>7, <1>8, TwoParts
<1>10. Distinct(a) /\ TagsOf(a) = {Direct}
  BY <1>6 DEF Distinct, TagsOf
<1>11. /\ Distinct(b) /\ TagsOf(b) \subseteq Tags
       /\ \A tag \in Tags : model.selectors[tag] # Absent => tag \in TagsOf(b)
  <2>1. Distinct(b)
    BY <1>1, <1>4, <1>5 DEF Distinct
  <2>2. \A tag \in Tags : tag \in TagsOf(b) <=> \E i \in DOMAIN tags : tags[i] = tag
    BY <1>4, <1>5 DEF TagsOf
  <2>3. TagsOf(b) \subseteq Tags
    BY <1>3, <1>4, <1>5 DEF TagsOf
  <2>4. QED
    BY <1>1, <2>1, <2>2, <2>3
<1>12. Distinct(c) /\ TagsOf(c) = {}
  BY <1>8 DEF Distinct, TagsOf
<1>13. Direct \notin Tags
  BY ConstantsAssumption DEF Tags
<1>14. Collected(WithoutNodes, a, b, c)
  <2>1. TagsOf(a) \cap TagsOf(b) = {} /\ TagsOf(a) \cap TagsOf(c) = {} /\ TagsOf(b) \cap TagsOf(c) = {}
    BY <1>10, <1>11, <1>12, <1>13
  <2>2. QED
    BY <1>5, <1>6, <1>8, <1>9, <1>10, <1>11, <1>12, <2>1, JoinedTags
<1>15. \A tag \in Tags : model.selectors[tag] # Absent => model.selectors[tag].selected = Direct
  BY SelectorFacts
<1> DEFINE list == WithoutNodes
<1> HIDE DEF list
<1>16. ASSUME NEW i \in DOMAIN list
       PROVE  /\ list[i].members \subseteq {Direct}
              /\ list[i].default \in list[i].members \cup {Absent}
              /\ list[i].tag \in Tags /\ model.selectors[list[i].tag] # Absent =>
                   list[i].default = model.selectors[list[i].tag].selected
  <2>1. CASE \E k \in DOMAIN a : list[i] = a[k]
    BY <1>6, <1>13, <2>1
  <2>2. CASE \E k \in DOMAIN b : list[i] = b[k]
    BY <1>4, <1>5, <1>15, <2>2
  <2>3. QED
    BY <1>8, <1>14, <2>1, <2>2 DEF Collected, list
<1>17. QED
  BY <1>9, <1>10, <1>11, <1>12, <1>14, <1>16 DEF Collected, OutboundPlan, list

\* With nodes there are they, the direct outbound, the automatic group, the default
\* selector, and the selectors of services.
LEMMA WithNodesFacts ==
  ASSUME NormalForm(model), Available(model.pool) # {}
  PROVE  OutboundPlan(model, Outbounds) /\ ValidOutbounds
<1> DEFINE nodes == Available(model.pool)
           tags == Selectors(Services)
           a == [i \in DOMAIN NodeTags |-> Plain(NodeTags[i])]
           b == <<Plain(Direct), Outbound(URLTest, nodes, Absent),
                  Outbound(Proxy, nodes \cup {Direct}, DefaultNode)>>
           c == ServiceSelectors
           list == Outbounds
<1>1. /\ NodeTags \in Seq(Nodes) /\ ToSet(NodeTags) = nodes /\ NodeTags # <<>>
      /\ \A i, j \in DOMAIN NodeTags : NodeTags[i] = NodeTags[j] => i = j
      /\ nodes \in SUBSET Nodes
  BY NodeTagsFacts, AvailableNodes DEF NormalForm
<1>2. /\ tags \in Seq(Services)
      /\ \A i \in DOMAIN tags : model.selectors[tags[i]] # Absent
      /\ \A s \in Services : model.selectors[s] # Absent => \E i \in DOMAIN tags : tags[i] = s
      /\ \A i, j \in DOMAIN tags : tags[i] = tags[j] => i = j
  <2>1. Services \in SUBSET Tags
    BY DEF Tags
  <2>2. QED
    BY <2>1, SelectorsFacts
<1>3. \A tag \in Tags : model.selectors[tag] # Absent =>
        /\ Members(tag) = model.selectors[tag].nodes /\ Members(tag) \subseteq nodes \cup {Direct}
        /\ model.selectors[tag].selected \in Members(tag)
        /\ model.selectors[tag].selected \in Nodes \cup {Direct}
  BY <1>1, SelectorFacts DEF Members
<1>4. ValidOutbounds
  BY <1>3 DEF ValidOutbounds, Tags
<1>5. /\ DefaultNode \in nodes \cup {Direct}
      /\ model.selectors[Proxy] # Absent => DefaultNode = model.selectors[Proxy].selected
  <2>1. NodeTags[1] \in nodes
    <3>1. 1 \in DOMAIN NodeTags
      BY <1>1
    <3>2. QED
      BY <1>1, <3>1 DEF ToSet
  <2>2. Proxy \in Tags
    BY DEF Tags
  <2>3. QED
    BY <1>3, <2>1, <2>2 DEF DefaultNode
<1>6. list = a \o b \o c
  BY <1>1 DEF Outbounds
<1>7. c = [i \in DOMAIN tags |->
             Outbound(tags[i], Members(tags[i]), model.selectors[tags[i]].selected)]
  BY DEF ServiceSelectors
<1> HIDE DEF list, nodes, tags, a, c
<1>8. \A i \in DOMAIN NodeTags : NodeTags[i] \in nodes /\ NodeTags[i] \in Nodes
  BY <1>1 DEF ToSet
<1>9. /\ a \in Seq(OptionOutbound) /\ DOMAIN a = DOMAIN NodeTags
      /\ \A i \in DOMAIN a : /\ a[i].tag = NodeTags[i] /\ a[i].members = {}
                             /\ a[i].default = Absent
  <2>1. \A i \in DOMAIN NodeTags :
          /\ a[i] \in OptionOutbound /\ a[i].tag = NodeTags[i] /\ a[i].members = {}
          /\ a[i].default = Absent
    BY <1>8, OutboundFacts DEF a, Plain
  <2>2. DOMAIN NodeTags = 1..Len(NodeTags) /\ Len(NodeTags) \in Nat
    BY <1>1
  <2>3. a \in [1..Len(NodeTags) -> OptionOutbound]
    BY <2>1, <2>2 DEF a
  <2>4. a \in Seq(OptionOutbound) /\ DOMAIN a = 1..Len(NodeTags)
    BY <2>2, <2>3, ListFacts
  <2>5. QED
    BY <2>1, <2>2, <2>4
<1>10. Distinct(a) /\ TagsOf(a) = nodes
  <2>1. Distinct(a)
    BY <1>1, <1>9 DEF Distinct
  <2>2. TagsOf(a) = {NodeTags[i] : i \in DOMAIN NodeTags}
    BY <1>9 DEF TagsOf
  <2>3. QED
    BY <1>1, <2>1, <2>2 DEF ToSet
<1>11. /\ b \in Seq(OptionOutbound) /\ DOMAIN b = {1, 2, 3}
       /\ b[1].tag = Direct /\ b[1].members = {} /\ b[1].default = Absent
       /\ b[2].tag = URLTest /\ b[2].members = nodes /\ b[2].default = Absent
       /\ b[3].tag = Proxy /\ b[3].members = nodes \cup {Direct} /\ b[3].default = DefaultNode
  <2>1. /\ Plain(Direct) \in OptionOutbound /\ Plain(Direct).tag = Direct
        /\ Plain(Direct).members = {} /\ Plain(Direct).default = Absent
    BY OutboundFacts DEF Plain
  <2>2. /\ Outbound(URLTest, nodes, Absent) \in OptionOutbound
        /\ Outbound(URLTest, nodes, Absent).tag = URLTest
        /\ Outbound(URLTest, nodes, Absent).members = nodes
        /\ Outbound(URLTest, nodes, Absent).default = Absent
    <3>1. nodes \in SUBSET (Nodes \cup {Direct}) /\ Absent \in Nodes \cup {Direct, Absent}
      BY <1>1
    <3>2. URLTest \in Tags \cup Nodes \cup {Direct, URLTest}
      OBVIOUS
    <3>3. QED
      BY ONLY <3>1, <3>2, OutboundFacts
  <2>3. /\ Outbound(Proxy, nodes \cup {Direct}, DefaultNode) \in OptionOutbound
        /\ Outbound(Proxy, nodes \cup {Direct}, DefaultNode).tag = Proxy
        /\ Outbound(Proxy, nodes \cup {Direct}, DefaultNode).members = nodes \cup {Direct}
        /\ Outbound(Proxy, nodes \cup {Direct}, DefaultNode).default = DefaultNode
    <3>1. Proxy \in Tags /\ DefaultNode \in Nodes \cup {Direct}
      BY <1>1, <1>5 DEF Tags
    <3>2. QED
      BY <1>1, <3>1, OutboundFacts
  <2>4. QED
    BY <2>1, <2>2, <2>3
<1> HIDE DEF b
<1>12. Distinct(b) /\ TagsOf(b) = {Direct, URLTest, Proxy}
  BY <1>11, ConstantsAssumption DEF Distinct, TagsOf
<1>13. /\ c \in Seq(OptionOutbound) /\ DOMAIN c = DOMAIN tags
       /\ \A i \in DOMAIN c :
            /\ tags[i] \in Services /\ c[i].tag = tags[i] /\ c[i].members = Members(tags[i])
            /\ c[i].default = model.selectors[tags[i]].selected
  <2>1. ASSUME NEW i \in DOMAIN tags
        PROVE  /\ tags[i] \in Services /\ c[i] \in OptionOutbound /\ c[i].tag = tags[i]
               /\ c[i].members = Members(tags[i])
               /\ c[i].default = model.selectors[tags[i]].selected
    <3>1. tags[i] \in Services /\ tags[i] \in Tags /\ model.selectors[tags[i]] # Absent
      BY <1>2 DEF Tags
    <3>2. /\ Members(tags[i]) \in SUBSET (Nodes \cup {Direct})
          /\ model.selectors[tags[i]].selected \in Nodes \cup {Direct, Absent}
      BY <1>1, <1>3, <3>1
    <3>3. QED
      BY <1>7, <3>1, <3>2, OutboundFacts
  <2>2. DOMAIN tags = 1..Len(tags) /\ Len(tags) \in Nat
    BY <1>2
  <2>3. c \in [1..Len(tags) -> OptionOutbound]
    BY <1>7, <2>1, <2>2
  <2>4. c \in Seq(OptionOutbound) /\ DOMAIN c = 1..Len(tags)
    BY <2>2, <2>3, ListFacts
  <2>5. QED
    BY <2>1, <2>2, <2>4
<1>14. /\ Distinct(c) /\ TagsOf(c) \subseteq Services
       /\ \A s \in Services : model.selectors[s] # Absent => s \in TagsOf(c)
  <2>1. Distinct(c)
    BY <1>2, <1>13 DEF Distinct
  <2>2. TagsOf(c) = {tags[i] : i \in DOMAIN tags}
    BY <1>13 DEF TagsOf
  <2>3. QED
    BY <1>2, <1>13, <2>1, <2>2
<1>15. list \in Seq(OptionOutbound) /\ Joined(list, a, b, c)
  BY <1>6, <1>9, <1>11, <1>13, ThreeParts
<1>16. Collected(list, a, b, c)
  <2>1. TagsOf(a) \cap TagsOf(b) = {} /\ TagsOf(a) \cap TagsOf(c) = {} /\ TagsOf(b) \cap TagsOf(c) = {}
    BY <1>1, <1>10, <1>12, <1>14, ConstantsAssumption
  <2>2. QED
    BY <1>9, <1>10, <1>11, <1>12, <1>13, <1>14, <1>15, <2>1, JoinedTags
<1>17. ASSUME NEW i \in DOMAIN list
       PROVE  /\ list[i].members \subseteq nodes \cup {Direct}
              /\ list[i].default \in list[i].members \cup {Absent}
              /\ list[i].tag \in Tags /\ model.selectors[list[i].tag] # Absent =>
                   list[i].default = model.selectors[list[i].tag].selected
  <2>1. CASE \E k \in DOMAIN a : list[i] = a[k]
    <3>1. list[i].tag \in Nodes /\ list[i].members = {} /\ list[i].default = Absent
      BY <1>8, <1>9, <2>1
    <3>2. list[i].tag \notin Tags
      BY <3>1, ConstantsAssumption DEF Tags
    <3>3. QED
      BY <3>1, <3>2
  <2>2. CASE \E k \in DOMAIN b : list[i] = b[k]
    <3>1. Direct \notin Tags /\ URLTest \notin Tags
      BY ConstantsAssumption DEF Tags
    <3>2. QED
      BY <1>5, <1>11, <2>2, <3>1
  <2>3. CASE \E k \in DOMAIN c : list[i] = c[k]
    BY <1>2, <1>3, <1>13, <2>3 DEF Tags
  <2>4. QED
    BY <1>16, <2>1, <2>2, <2>3 DEF Collected
<1>18. {Direct} \cup nodes \subseteq TagsOf(list) /\ Proxy \in TagsOf(list)
       /\ \A tag \in Tags : model.selectors[tag] # Absent => tag \in TagsOf(list)
  BY <1>10, <1>12, <1>14, <1>16 DEF Collected, Tags
<1>19. OutboundPlan(model, list)
  BY <1>15, <1>16, <1>17, <1>18 DEF Collected, OutboundPlan, nodes
<1>20. QED
  BY <1>4, <1>19 DEF list

\* The outbounds of a plan, which is never refused for one of them.
LEMMA OutboundsFacts ==
  ASSUME NormalForm(model)
  PROVE  OutboundPlan(model, Outbounds) /\ ValidOutbounds
<1>1. NodeTags = <<>> <=> Available(model.pool) = {}
  BY NodeTagsFacts DEF NormalForm
<1>2. CASE Available(model.pool) = {}
  BY <1>1, <1>2, WithoutNodesFacts DEF Outbounds, ValidOutbounds
<1>3. CASE Available(model.pool) # {}
  BY <1>3, WithNodesFacts
<1>4. QED
  BY <1>2, <1>3

-----------------------------------------------------------------------------
(* Settings and plans *)

\* A port that is valid survives its conversion to sixteen bits.
LEMMA PortFits ==
  ASSUME NEW n \in 1..LastPort
  PROVE  n % (LastPort + 1) = n
<1>1. ASSUME NEW last \in Nat, NEW k \in 1..last
      PROVE  k % (last + 1) = k
  OBVIOUS
<1>2. LastPort \in Nat
  BY DEF LastPort
<1>3. QED
  BY ONLY <1>1, <1>2

\* The settings that are read, and those that are read of what was saved.
LEMMA BuildSettingsFacts ==
  ASSUME NEW asked \in Request
  PROVE  /\ BuildSettings(asked) \in Settings \cup {Refused}
         /\ BuildSettings(Canonical(asked)) = BuildSettings(asked)
         /\ BuildSettings(asked) # Refused =>
              /\ BuildSettings(asked) \in Settings
              /\ ValidSettings(BuildSettings(asked))
              /\ BuildSettings(asked).cache = FALSE
              /\ BuildSettings(asked).port = asked.port
              /\ BuildSettings(asked).proxyMode =
                   IF asked.mobile THEN "tun" ELSE asked.proxyMode
<1> DEFINE read(some) == [address |-> some.address, port |-> some.port, ipv6 |-> some.ipv6,
                          proxyMode |-> Canonical(some).proxyMode,
                          routeMode |-> some.routeMode, cache |-> Cached]
<1>1. \A some : BuildSettings(some) =
        IF read(some).routeMode # "unset" /\ ValidSettings(read(some)) THEN read(some) ELSE Refused
  BY DEF BuildSettings
<1>2. Canonical(asked).proxyMode = IF asked.mobile THEN "tun" ELSE asked.proxyMode
  BY DEF Canonical, Request
<1>3. /\ Canonical(asked).mobile = asked.mobile
      /\ Canonical(asked).address = asked.address /\ Canonical(asked).port = asked.port
      /\ Canonical(asked).ipv6 = asked.ipv6 /\ Canonical(asked).routeMode = asked.routeMode
      /\ Canonical(Canonical(asked)).proxyMode = Canonical(asked).proxyMode
  BY DEF Canonical, Request
<1>4. read(Canonical(asked)) = read(asked)
  BY <1>2, <1>3
<1>5. /\ read(asked).cache = FALSE /\ read(asked).port = asked.port
      /\ read(asked).proxyMode = IF asked.mobile THEN "tun" ELSE asked.proxyMode
  BY <1>2 DEF Cached
<1>6. ASSUME ValidSettings(read(asked)), read(asked).routeMode # "unset"
      PROVE  read(asked) \in Settings
  <2>1. /\ asked.port \in 1..LastPort /\ Canonical(asked).proxyMode \in {"mixed", "tun"}
        /\ asked.routeMode \in {"rule", "direct", "all"}
    BY <1>6 DEF ValidSettings
  <2>2. asked.address \in STRING /\ asked.ipv6 \in BOOLEAN
    BY DEF Request
  <2>3. QED
    BY <2>1, <2>2 DEF Settings, Cached
<1> HIDE DEF read
<1>7. QED
  BY <1>1, <1>4, <1>5, <1>6

\* What is built of a model in normal form and of settings that have been read: it is
\* refused only for an address.
PlanFacts(value, st, blueprint) ==
  /\ blueprint = Refused => st.proxyMode = "mixed" /\ st.address # "ip"
  /\ blueprint # Refused =>
       /\ blueprint \in Blueprint
       /\ \E inbound \in blueprint.inbounds : TRUE
       /\ \A inbound \in blueprint.inbounds :
            inbound.type = st.proxyMode /\ (inbound.type = "mixed" => inbound.port = st.port)
       /\ OutboundPlan(value, blueprint.outbounds)
       /\ RulePlan(value, st, blueprint.rules)
       /\ blueprint.dns # Absent <=> st.proxyMode = "tun"
       /\ blueprint.dns # Absent => blueprint.dns.final \in blueprint.dns.servers
       /\ st.routeMode = "rule" => "china" \in blueprint.ruleSets
       /\ blueprint.final =
            IF st.routeMode = "direct" \/ Available(value.pool) = {} THEN Direct ELSE Proxy
       /\ blueprint.cache = FALSE

LEMMA BuildFacts ==
  ASSUME NormalForm(model), settings \in Settings, ValidSettings(settings),
         settings.cache = FALSE
  PROVE  PlanFacts(model, settings, BuildNormalized)
<1> DEFINE blueprint == PlanRuntimeModel
<1>1. /\ settings.port \in 1..LastPort /\ settings.proxyMode \in {"mixed", "tun"}
      /\ settings.routeMode \in {"rule", "direct", "all"} /\ settings.ipv6 \in BOOLEAN
  BY DEF Settings
<1>2. OutboundPlan(model, Outbounds) /\ ValidOutbounds
  BY OutboundsFacts
<1>3. RulePlan(model, settings, Rules)
  BY RulesFacts
<1>4. /\ blueprint.inbounds = Inbounds /\ blueprint.outbounds = Outbounds
      /\ blueprint.dns = DNS /\ blueprint.rules = Rules /\ blueprint.ruleSets = RuleSets
      /\ blueprint.final = FinalOutbound /\ blueprint.cache = CacheEnabled
  BY DEF PlanRuntimeModel
<1>5. /\ Inbounds \in SUBSET OptionInbound
      /\ \E inbound \in Inbounds : TRUE
      /\ \A inbound \in Inbounds :
           /\ inbound.type = settings.proxyMode
           /\ inbound.type = "mixed" => inbound.port = settings.port
  <2>1. CASE settings.proxyMode = "tun"
    <3>1. Inbounds = {[type |-> "tun",
                       addresses |-> {"v4"} \cup (IF settings.ipv6 THEN {"v6"} ELSE {})]}
      BY <2>1 DEF Inbounds
    <3>2. {"v4"} \cup (IF settings.ipv6 THEN {"v6"} ELSE {}) \in SUBSET {"v4", "v6"}
      BY <1>1
    <3>3. QED
      BY <2>1, <3>1, <3>2 DEF OptionInbound
  <2>2. CASE settings.proxyMode = "mixed"
    <3>1. Inbounds = {[type |-> "mixed", port |-> settings.port]}
      BY <1>1, <2>2, PortFits DEF Inbounds
    <3>2. QED
      BY <1>1, <2>2, <3>1 DEF OptionInbound
  <2>3. QED
    BY <1>1, <2>1, <2>2
<1>6. /\ DNS \in OptionDNS \cup {Absent}
      /\ DNS # Absent <=> settings.proxyMode = "tun"
      /\ DNS # Absent => DNS.final \in DNS.servers
  <2>1. [servers |-> {PublicDNS}, final |-> PublicDNS] \in OptionDNS
    BY DEF OptionDNS
  <2>2. Absent \notin OptionDNS
    BY SentinelsAssumption
  <2>3. QED
    BY <2>1, <2>2 DEF DNS
<1>7. RuleSets \in SUBSET {"china"} /\ (settings.routeMode = "rule" => "china" \in RuleSets)
  BY DEF RuleSets
<1>8. /\ FinalOutbound \in {Proxy, Direct}
      /\ FinalOutbound = IF settings.routeMode = "direct" \/ Available(model.pool) = {}
                         THEN Direct ELSE Proxy
  BY NodeTagsFacts DEF FinalOutbound, NormalForm
<1>9. CacheEnabled = FALSE
  BY DEF CacheEnabled
<1>10. Outbounds \in Seq(OptionOutbound) /\ Rules \in Seq(OptionRule)
  BY <1>2, <1>3 DEF OutboundPlan, RulePlan
<1>11. blueprint \in Blueprint
  BY <1>5, <1>6, <1>7, <1>8, <1>9, <1>10 DEF PlanRuntimeModel, Blueprint
<1> HIDE DEF blueprint
<1>12. blueprint # Refused
  BY <1>11, SentinelsAssumption
<1>13. Emit(blueprint) = blueprint
  BY <1>2, <1>4 DEF Emit, OutboundPlan, Distinct, IsInjective
<1>14. BuildNormalized = IF ValidInbounds THEN blueprint ELSE Refused
  BY <1>2, <1>13 DEF BuildNormalized, blueprint
<1>15. CASE ValidInbounds
  BY <1>2, <1>3, <1>4, <1>5, <1>6, <1>7, <1>8, <1>9, <1>11, <1>12, <1>14, <1>15 DEF PlanFacts
<1>16. CASE ~ValidInbounds
  BY <1>14, <1>16 DEF PlanFacts, ValidInbounds
<1>17. QED
  BY <1>15, <1>16

-----------------------------------------------------------------------------
(* The invariant *)

\* At every stage: what has been read, in which form the model is, and what was built.
IInv ==
  /\ TypeOK
  /\ stage \in {"given", "set"} => model \in Model
  /\ stage \in {"set", "normal", "built"} =>
       settings = BuildSettings(request) /\ settings # Refused
  /\ Normalised => NormalForm(model)
  /\ stage = "built" => PlanFacts(model, settings, plan)

LEMMA InitIInv == Init => IInv
<1> SUFFICES ASSUME Init PROVE IInv
  OBVIOUS
<1>1. PICK i \in DOMAIN Inputs : \E input \in Inputs[i] :
        /\ request = input.settings
        /\ model \in {input.model, Preview(input.model.pool)}
  BY DEF Init
<1>2. PICK input \in Inputs[i] :
        /\ request = input.settings
        /\ model \in {input.model, Preview(input.model.pool)}
  BY <1>1
<1>3. input \in [settings: Request, model: Model]
  BY InputsAssumption
<1>4. input.settings \in Request /\ input.model \in Model
  BY <1>3
<1>5. Preview(input.model.pool) \in Model
  <2>1. input.model.pool \in Seq(Node)
    BY <1>4 DEF Model
  <2>2. QED
    BY <2>1 DEF Preview, Model
<1>6. request \in Request /\ model \in Model
  BY <1>2, <1>4, <1>5
<1>7. settings = Absent /\ stage = "given" /\ plan = Absent
  BY DEF Init
<1>8. QED
  BY <1>6, <1>7 DEF IInv, TypeOK, Normalised

LEMMA StepIInv == IInv /\ [Next]_vars => IInv'
<1> SUFFICES ASSUME IInv, [Next]_vars PROVE IInv'
  OBVIOUS
<1>1. /\ request \in Request /\ settings \in Settings \cup {Absent, Refused}
      /\ model \in Model \cup {Refused}
      /\ stage \in {"given", "set", "normal", "built", "refused"}
      /\ plan \in Blueprint \cup {Absent, Refused}
  BY DEF IInv, TypeOK
<1>2. CASE ReadSettings
  <2>1. /\ stage = "given" /\ settings' = BuildSettings(request)
        /\ stage' = IF settings' = Refused THEN "refused" ELSE "set"
        /\ request' = request /\ model' = model /\ plan' = plan
    BY <1>2 DEF ReadSettings
  <2>2. settings' \in Settings \cup {Refused} /\ model \in Model
    BY <1>1, <2>1, BuildSettingsFacts DEF IInv
  <2>3. TypeOK'
    BY <1>1, <2>1, <2>2 DEF TypeOK
  <2>4. settings' = BuildSettings(request')
    BY <2>1
  <2>5. stage' \in {"set", "refused"} /\ (stage' = "set" => settings' # Refused)
    BY <2>1
  <2>6. QED
    BY <2>1, <2>2, <2>3, <2>4, <2>5 DEF IInv, Normalised
<1>3. CASE Normalize
  <2>1. /\ stage = "set" /\ model' = NormalizeRuntimeModel(model)
        /\ stage' = IF model' = Refused THEN "refused" ELSE "normal"
        /\ request' = request /\ settings' = settings /\ plan' = plan
    BY <1>3 DEF Normalize
  <2>2. model \in Model /\ settings = BuildSettings(request) /\ settings # Refused
    BY <2>1 DEF IInv
  <2>3. model' # Refused => NormalForm(model')
    BY <2>1, <2>2, NormalizedIsNormal
  <2>4. model' \in Model \cup {Refused}
    BY <2>3 DEF NormalForm
  <2>5. TypeOK'
    BY <1>1, <2>1, <2>4 DEF TypeOK
  <2>6. settings' = BuildSettings(request') /\ settings' # Refused
    BY <2>1, <2>2
  <2>7. stage' \in {"normal", "refused"} /\ (stage' = "normal" => model' # Refused)
    BY <2>1
  <2>8. QED
    BY <2>3, <2>5, <2>6, <2>7 DEF IInv, Normalised
<1>4. CASE Build
  <2>1. /\ stage = "normal" /\ plan' = BuildNormalized /\ stage' = "built"
        /\ request' = request /\ settings' = settings /\ model' = model
    BY <1>4 DEF Build
  <2>2. NormalForm(model) /\ settings = BuildSettings(request) /\ settings # Refused
    BY <2>1 DEF IInv, Normalised
  <2>3. settings \in Settings /\ ValidSettings(settings) /\ settings.cache = FALSE
    BY <1>1, <2>2, BuildSettingsFacts
  <2>4. PlanFacts(model, settings, plan')
    BY <2>1, <2>2, <2>3, BuildFacts
  <2>5. plan' \in Blueprint \cup {Refused}
    BY <2>4 DEF PlanFacts
  <2>6. TypeOK'
    BY <1>1, <2>1, <2>5 DEF TypeOK
  <2>7. settings' = BuildSettings(request') /\ settings' # Refused
    BY <2>1, <2>2
  <2>8. NormalForm(model') /\ PlanFacts(model', settings', plan')
    BY <2>1, <2>2, <2>4
  <2>9. QED
    BY <2>1, <2>6, <2>7, <2>8 DEF IInv, Normalised
<1>5. CASE UNCHANGED vars
  <2>1. /\ request' = request /\ settings' = settings /\ model' = model /\ stage' = stage
        /\ plan' = plan
    BY <1>5 DEF vars
  <2>2. TypeOK'
    BY <1>1, <2>1 DEF TypeOK
  <2>3. /\ stage' \in {"set", "normal", "built"} =>
             settings' = BuildSettings(request') /\ settings' # Refused
        /\ stage' \in {"given", "set"} => model' \in Model
    BY <2>1 DEF IInv
  <2>4. /\ stage' \in {"normal", "built"} => NormalForm(model')
        /\ stage' = "built" => PlanFacts(model', settings', plan')
    BY <2>1 DEF IInv, Normalised
  <2>5. QED
    BY <2>2, <2>3, <2>4 DEF IInv, Normalised
<1>6. QED
  BY <1>2, <1>3, <1>4, <1>5 DEF Next

LEMMA Invariant == Spec => []IInv
<1>1. QED
  BY InitIInv, StepIInv, PTL DEF Spec

\* Every variable has its type at every stage.
THEOREM TypeTheorem == Spec => []TypeOK
<1>1. IInv => TypeOK
  BY DEF IInv
<1>2. QED
  BY <1>1, Invariant, PTL

-----------------------------------------------------------------------------
(* The properties *)

\* The first rule that matches, if one does.
LEMMA FirstMatchFacts ==
  ASSUME NEW name, NEW query, plan.rules \in Seq(OptionRule)
  PROVE  LET first == FirstMatch(name, query)
         IN  \/ first = 0 /\ \A i \in 1..Len(plan.rules) : ~Matches(plan.rules[i], name, query)
             \/ /\ first \in 1..Len(plan.rules) /\ Matches(plan.rules[first], name, query)
                /\ \A i \in 1..Len(plan.rules) : i < first => ~Matches(plan.rules[i], name, query)
<1> DEFINE I == {i \in 1..Len(plan.rules) : Matches(plan.rules[i], name, query)}
<1>1. FirstMatch(name, query) = IF I # {} THEN Min(I) ELSE 0
  BY DEF FirstMatch, SelectInSeq
<1>2. I \in SUBSET Nat
  OBVIOUS
<1>3. CASE I = {}
  BY <1>1, <1>3
<1>4. CASE I # {}
  <2>1. Min(I) \in I /\ \A n \in I : Min(I) <= n
    BY <1>2, <1>4, MinIsLeast
  <2>2. \A i \in 1..Len(plan.rules) : i < Min(I) => ~Matches(plan.rules[i], name, query)
    BY <1>2, <2>1
  <2>3. QED
    BY <1>1, <1>4, <2>1, <2>2
<1>5. QED
  BY <1>3, <1>4

\* What holds of a plan that was built.
LEMMA PlannedFacts ==
  ASSUME IInv, Planned
  PROVE  /\ plan \in Blueprint /\ PlanFacts(model, settings, plan) /\ NormalForm(model)
         /\ RulePlan(model, settings, plan.rules) /\ OutboundPlan(model, plan.outbounds)
         /\ plan.rules \in Seq(OptionRule)
         /\ settings \in Settings /\ request \in Request
         /\ settings = BuildSettings(request) /\ settings # Refused
<1>1. stage = "built" /\ plan # Refused /\ Normalised
  BY DEF Planned, Normalised
<1>2. PlanFacts(model, settings, plan) /\ NormalForm(model)
  BY <1>1 DEF IInv
<1>3. /\ plan \in Blueprint
      /\ RulePlan(model, settings, plan.rules) /\ OutboundPlan(model, plan.outbounds)
  BY <1>1, <1>2 DEF PlanFacts
<1>4. request \in Request /\ settings = BuildSettings(request) /\ settings # Refused
  BY <1>1 DEF IInv, TypeOK
<1>5. settings \in Settings
  BY <1>4, BuildSettingsFacts
<1>6. QED
  BY <1>2, <1>3, <1>4, <1>5 DEF RulePlan

\* Every rule of a plan, by its place.
LEMMA RuleKinds ==
  ASSUME IInv, Planned
  PROVE  \E n \in Nat :
           /\ Len(plan.rules) = InFront(settings) + n + Behind(settings)
           /\ InFront(settings) \in {1, 2} /\ Behind(settings) \in {0, 1}
           /\ \A i \in 1..InFront(settings) :
                /\ plan.rules[i].kind = IF i = 1 THEN "sniff" ELSE "dns"
                /\ plan.rules[i].outbound = Absent
           /\ \A i \in InFront(settings) + 1..InFront(settings) + n :
                plan.rules[i] \in RulesOf(model.routes) /\ plan.rules[i].kind = "suffix"
           /\ \A i \in InFront(settings) + n + 1..Len(plan.rules) :
                /\ plan.rules[i].kind = "china" /\ plan.rules[i].outbound = Direct
                /\ settings.routeMode = "rule" /\ i = InFront(settings) + n + 1
           /\ settings.routeMode = "rule" => InFront(settings) + n + 1 \in 1..Len(plan.rules)
           /\ \A i, j \in InFront(settings) + 1..InFront(settings) + n :
                i < j => MoreSpecific(plan.rules[i], plan.rules[j])
           /\ settings.routeMode = "direct" => n = 0
           /\ settings.routeMode # "direct" => \A r \in RulesOf(model.routes) :
                \E i \in InFront(settings) + 1..InFront(settings) + n : plan.rules[i] = r
<1> DEFINE f == InFront(settings)
           b == Behind(settings)
           list == plan.rules
<1>1. RulePlan(model, settings, list) /\ NormalForm(model)
  BY PlannedFacts
<1>2. PICK n \in Nat :
        /\ list \in Seq(OptionRule) /\ Len(list) = f + n + b
        /\ list[1] = Rule("sniff", <<>>, Absent)
        /\ settings.proxyMode = "tun" => list[2] = Rule("dns", <<>>, Absent)
        /\ settings.routeMode = "rule" => list[f + n + 1] = Rule("china", <<>>, Direct)
        /\ \A i \in f + 1..f + n : list[i] \in RulesOf(model.routes)
        /\ \A i, j \in f + 1..f + n : i < j => MoreSpecific(list[i], list[j])
        /\ settings.routeMode = "direct" => n = 0
        /\ settings.routeMode # "direct" => \A r \in RulesOf(model.routes) :
             \E i \in f + 1..f + n : list[i] = r
  BY <1>1 DEF RulePlan
<1>3. /\ f \in {1, 2} /\ b \in {0, 1}
      /\ settings.proxyMode = "tun" <=> f = 2
      /\ settings.routeMode = "rule" <=> b = 1
  BY DEF InFront, Behind
<1>4. \A r \in RulesOf(model.routes) : r.kind = "suffix"
  BY <1>1, RulesOfFacts
<1> HIDE DEF f, b, list
<1>5. \A i \in 1..f : /\ list[i].kind = IF i = 1 THEN "sniff" ELSE "dns"
                      /\ list[i].outbound = Absent
  <2>1. list[1].kind = "sniff" /\ list[1].outbound = Absent
    BY <1>2 DEF Rule
  <2>2. f = 2 => list[2].kind = "dns" /\ list[2].outbound = Absent
    BY <1>2, <1>3 DEF Rule
  <2>3. \A i \in 1..f : i = 1 \/ (i = 2 /\ f = 2)
    BY <1>3
  <2>4. QED
    BY <2>1, <2>2, <2>3
<1>6. \A i \in f + n + 1..Len(list) :
        /\ list[i].kind = "china" /\ list[i].outbound = Direct
        /\ settings.routeMode = "rule" /\ i = f + n + 1
  <2>1. b = 1 => list[f + n + 1].kind = "china" /\ list[f + n + 1].outbound = Direct
    BY <1>2, <1>3 DEF Rule
  <2>2. \A i \in f + n + 1..Len(list) : b = 1 /\ i = f + n + 1
    BY <1>2, <1>3
  <2>3. QED
    BY <1>3, <2>1, <2>2
<1>7. settings.routeMode = "rule" => f + n + 1 \in 1..Len(list)
  BY <1>2, <1>3
<1>8. \A i \in f + 1..f + n : list[i] \in RulesOf(model.routes) /\ list[i].kind = "suffix"
  BY <1>2, <1>4
<1>9. QED
  BY <1>2, <1>3, <1>5, <1>6, <1>7, <1>8 DEF f, b, list

\* The mode that was asked for is served, by every plan.
THEOREM ModeTheorem == Spec => []ModeIsServed
<1> SUFFICES ASSUME IInv, Planned
             PROVE  LET tun == \E inbound \in plan.inbounds : inbound.type = "tun"
                    IN  /\ tun <=> request.mobile \/ request.proxyMode = "tun"
                        /\ \A inbound \in plan.inbounds :
                             inbound.type = "mixed" => inbound.port = request.port
                        /\ tun <=> plan.dns # Absent
                        /\ \A name \in Hosts : tun <=> Intercepted(name)
  <2>1. IInv => ModeIsServed
    BY DEF ModeIsServed
  <2>2. QED
    BY <2>1, Invariant, PTL
<1> DEFINE tun == \E inbound \in plan.inbounds : inbound.type = "tun"
<1>1. /\ plan \in Blueprint /\ PlanFacts(model, settings, plan) /\ plan.rules \in Seq(OptionRule)
      /\ request \in Request /\ settings = BuildSettings(request) /\ settings # Refused
  BY PlannedFacts
<1>2. /\ \E inbound \in plan.inbounds : TRUE
      /\ \A inbound \in plan.inbounds :
           inbound.type = settings.proxyMode /\ (inbound.type = "mixed" => inbound.port = settings.port)
      /\ plan.dns # Absent <=> settings.proxyMode = "tun"
  BY <1>1 DEF PlanFacts, Planned
<1>3. tun <=> settings.proxyMode = "tun"
  BY <1>2
<1>4. /\ settings.port = request.port
      /\ settings.proxyMode = IF request.mobile THEN "tun" ELSE request.proxyMode
  BY <1>1, BuildSettingsFacts
<1>5. ASSUME NEW name \in Hosts
      PROVE  settings.proxyMode = "tun" <=> Intercepted(name)
  <2> DEFINE first == FirstMatch(name, TRUE)
  <2>1. \/ first = 0 /\ \A i \in 1..Len(plan.rules) : ~Matches(plan.rules[i], name, TRUE)
        \/ /\ first \in 1..Len(plan.rules) /\ Matches(plan.rules[first], name, TRUE)
           /\ \A i \in 1..Len(plan.rules) : i < first => ~Matches(plan.rules[i], name, TRUE)
    BY <1>1, FirstMatchFacts
  <2>2. Intercepted(name) <=> first # 0 /\ plan.rules[first].kind = "dns"
    BY DEF Intercepted
  <2> HIDE DEF first
  <2>3. PICK n \in Nat :
          /\ Len(plan.rules) = InFront(settings) + n + Behind(settings)
          /\ InFront(settings) \in {1, 2} /\ Behind(settings) \in {0, 1}
          /\ \A i \in 1..InFront(settings) : plan.rules[i].kind = IF i = 1 THEN "sniff" ELSE "dns"
          /\ \A i \in InFront(settings) + 1..InFront(settings) + n : plan.rules[i].kind = "suffix"
          /\ \A i \in InFront(settings) + n + 1..Len(plan.rules) : plan.rules[i].kind = "china"
    BY RuleKinds
  <2>4. settings.proxyMode = "tun" <=> InFront(settings) = 2
    BY DEF InFront
  <2>5. CASE settings.proxyMode = "tun"
    <3>1. plan.rules[1].kind = "sniff" /\ plan.rules[2].kind = "dns" /\ 2 \in 1..Len(plan.rules)
      BY <2>3, <2>4, <2>5
    <3>2. Matches(plan.rules[2], name, TRUE) /\ ~Matches(plan.rules[1], name, TRUE)
      BY <3>1 DEF Matches
    <3>3. first \in 1..Len(plan.rules) /\ Matches(plan.rules[first], name, TRUE) /\ ~(2 < first)
      BY <2>1, <3>1, <3>2
    <3>4. first # 1
      BY <3>2, <3>3
    <3>5. first = 2
      BY <1>1, <3>3, <3>4
    <3>6. QED
      BY <2>2, <2>5, <3>1, <3>5
  <2>6. CASE settings.proxyMode # "tun"
    <3>1. InFront(settings) = 1
      BY <2>3, <2>4, <2>6
    <3>2. \A i \in 1..Len(plan.rules) : \/ i \in 1..InFront(settings) /\ i = 1
                                        \/ i \in InFront(settings) + 1..InFront(settings) + n
                                        \/ i \in InFront(settings) + n + 1..Len(plan.rules)
      BY <2>3, <3>1
    <3>3. \A i \in 1..Len(plan.rules) : plan.rules[i].kind # "dns"
      BY <2>3, <3>2
    <3>4. QED
      BY <2>1, <2>2, <2>6, <3>3
  <2>7. QED
    BY <2>5, <2>6
<1>6. QED
  BY <1>2, <1>3, <1>4, <1>5

\* What has been accepted once is accepted at every later start.
THEOREM AcceptedTheorem == Spec => []AcceptedStaysAccepted
<1>1. ASSUME IInv
      PROVE  AcceptedStaysAccepted
  <2>1. stage = "built" /\ ValidInbounds => plan # Refused
    BY <1>1 DEF IInv, PlanFacts, ValidInbounds
  <2>2. Normalised => NormalizeRuntimeModel(model) = model
    BY <1>1, NormalStaysNormal DEF IInv
  <2>3. Normalised => BuildSettings(Canonical(request)) = settings
    BY <1>1, BuildSettingsFacts DEF IInv, TypeOK, Normalised
  <2>4. QED
    BY <2>1, <2>2, <2>3 DEF AcceptedStaysAccepted
<1>2. QED
  BY <1>1, Invariant, PTL

\* An enabled route has a selector.
LEMMA EnabledRoutes ==
  ASSUME NEW value, NormalForm(value), NEW s \in Enabled(value.routes)
  PROVE  /\ s \in Services /\ s \in Tags /\ s \in Chosen(value.routes)
         /\ value.selectors[s] # Absent
<1>1. s \in Chosen(value.routes)
  BY DEF Enabled
<1>2. s \in Services
  BY <1>1 DEF Chosen
<1>3. NormalRoute(value.routes[s], value.selectors[s])
  BY <1>1 DEF NormalForm
<1>4. QED
  BY <1>1, <1>2, <1>3 DEF NormalRoute, ValidRoute, Tags

\* Whatever a plan refers to is in the plan.
THEOREM ClosedTheorem == Spec => []PlanIsClosed
<1> SUFFICES ASSUME IInv, Planned
             PROVE  /\ \A i \in DOMAIN plan.outbounds :
                         /\ plan.outbounds[i].members \subseteq TagsOf(plan.outbounds)
                         /\ plan.outbounds[i].default \in plan.outbounds[i].members \cup {Absent}
                    /\ \A i \in DOMAIN plan.rules :
                         /\ plan.rules[i].outbound \in TagsOf(plan.outbounds) \cup {Absent}
                         /\ plan.rules[i].kind = "china" => "china" \in plan.ruleSets
                    /\ plan.final \in TagsOf(plan.outbounds)
                    /\ plan.dns # Absent => plan.dns.final \in plan.dns.servers
  <2>1. IInv => PlanIsClosed
    BY DEF PlanIsClosed, TagsOf
  <2>2. QED
    BY <2>1, Invariant, PTL
<1> DEFINE tags == TagsOf(plan.outbounds)
<1>1. /\ PlanFacts(model, settings, plan) /\ NormalForm(model)
      /\ OutboundPlan(model, plan.outbounds) /\ plan.rules \in Seq(OptionRule)
  BY PlannedFacts
<1>2. /\ settings.routeMode = "rule" => "china" \in plan.ruleSets
      /\ plan.final = IF settings.routeMode = "direct" \/ Available(model.pool) = {}
                      THEN Direct ELSE Proxy
      /\ plan.dns # Absent => plan.dns.final \in plan.dns.servers
  BY <1>1 DEF PlanFacts, Planned
<1>3. /\ Direct \in tags /\ Available(model.pool) \subseteq tags
      /\ Available(model.pool) # {} => Proxy \in tags
      /\ \A tag \in Tags : model.selectors[tag] # Absent => tag \in tags
      /\ \A i \in DOMAIN plan.outbounds :
           /\ plan.outbounds[i].members \subseteq Available(model.pool) \cup {Direct}
           /\ plan.outbounds[i].default \in plan.outbounds[i].members \cup {Absent}
  BY <1>1 DEF OutboundPlan
<1> HIDE DEF tags
<1>4. ASSUME NEW i \in DOMAIN plan.rules
      PROVE  /\ plan.rules[i].outbound \in tags \cup {Absent}
             /\ plan.rules[i].kind = "china" => "china" \in plan.ruleSets
  <2>1. PICK n \in Nat :
          /\ InFront(settings) \in {1, 2}
          /\ \A k \in 1..InFront(settings) :
               /\ plan.rules[k].kind = IF k = 1 THEN "sniff" ELSE "dns"
               /\ plan.rules[k].outbound = Absent
          /\ \A k \in InFront(settings) + 1..InFront(settings) + n :
               plan.rules[k] \in RulesOf(model.routes) /\ plan.rules[k].kind = "suffix"
          /\ \A k \in InFront(settings) + n + 1..Len(plan.rules) :
               /\ plan.rules[k].kind = "china" /\ plan.rules[k].outbound = Direct
               /\ settings.routeMode = "rule"
    BY RuleKinds
  <2>2. i \in 1..Len(plan.rules)
    BY <1>1
  <2>3. CASE i \in 1..InFront(settings)
    BY <2>1, <2>3
  <2>4. CASE i \in InFront(settings) + 1..InFront(settings) + n
    <3>1. plan.rules[i].outbound \in Enabled(model.routes) /\ plan.rules[i].kind = "suffix"
      BY <1>1, <2>1, <2>4, RulesOfFacts
    <3>2. plan.rules[i].outbound \in tags
      BY <1>1, <1>3, <3>1, EnabledRoutes
    <3>3. QED
      BY <3>1, <3>2
  <2>5. CASE i \in InFront(settings) + n + 1..Len(plan.rules)
    BY <1>2, <1>3, <2>1, <2>5
  <2>6. QED
    BY <2>1, <2>2, <2>3, <2>4, <2>5
<1>5. QED
  BY <1>2, <1>3, <1>4 DEF tags

\* RuntimeController accepts what is accepted, and says with which selections a daemon
\* begins that loads what is built.
THEOREM ControllerTheorem == Spec => []ControllerAgrees
<1>1. ASSUME NEW value, NormalForm(value)
      PROVE  Controller!Normal(Abstract(value), Available(value.pool))
  <2> DEFINE content == Abstract(value)
             Named(s) == {value.routes[s].domains[i].domain : i \in DOMAIN value.routes[s].domains}
  <2>1. /\ content.selectors = value.selectors
        /\ \A s \in Services : content.routes[s] =
             IF value.routes[s] = Absent THEN Absent
             ELSE [enabled |-> value.routes[s].enabled, domains |-> Named(s)]
    BY DEF Abstract
  <2> HIDE DEF content, Named
  <2>2. \A tag \in Tags : value.selectors[tag] # Absent =>
          /\ value.selectors[tag].nodes \subseteq Available(value.pool) \cup {Direct}
          /\ value.selectors[tag].selected \in value.selectors[tag].nodes
    BY <1>1, SelectorFacts
  <2>3. ASSUME NEW s \in Services, content.routes[s] # Absent
        PROVE  /\ value.routes[s] # Absent /\ s \in Chosen(value.routes)
               /\ content.routes[s].enabled = value.routes[s].enabled
               /\ content.routes[s].domains = Named(s)
    <3>1. value.routes[s] # Absent
      BY <2>1, <2>3
    <3>2. content.routes[s] = [enabled |-> value.routes[s].enabled, domains |-> Named(s)]
      BY <2>1, <3>1
    <3>3. s \in Chosen(value.routes)
      BY <3>1 DEF Chosen
    <3>4. QED
      BY <3>1, <3>2, <3>3
  <2>4. ASSUME NEW s \in Services, content.routes[s] # Absent
        PROVE  content.selectors[s] # Absent /\ content.routes[s].domains # {}
    <3>1. NormalRoute(value.routes[s], value.selectors[s])
      BY <1>1, <2>3, <2>4 DEF NormalForm
    <3>2. value.routes[s].domains # <<>> /\ value.selectors[s] # Absent
      BY <3>1 DEF NormalRoute, ValidRoute
    <3>3. value.routes[s].domains \in Seq(Spelled)
      BY <1>1, <2>3, <2>4, ChosenRoutes DEF NormalForm
    <3>4. 1 \in DOMAIN value.routes[s].domains
      BY <3>2, <3>3
    <3>5. Named(s) # {}
      BY <3>4 DEF Named
    <3>6. QED
      BY <2>1, <2>3, <2>4, <3>2, <3>5
  <2>5. ASSUME NEW s \in Services, NEW t \in Services, s # t,
               content.routes[s] # Absent, content.routes[s].enabled,
               content.routes[t] # Absent, content.routes[t].enabled
        PROVE  content.routes[s].domains \cap content.routes[t].domains = {}
    <3>1. s \in Enabled(value.routes) /\ t \in Enabled(value.routes)
      BY <2>3, <2>5 DEF Enabled
    <3>2. DisjointRoutes(value.routes)
      BY <1>1 DEF NormalForm
    <3>3. \A i \in DOMAIN value.routes[s].domains, j \in DOMAIN value.routes[t].domains :
            value.routes[s].domains[i].domain # value.routes[t].domains[j].domain
      BY <2>5, <3>1, <3>2, DisjointMeans
    <3>4. Named(s) \cap Named(t) = {}
      BY <3>3 DEF Named
    <3>5. QED
      BY <2>3, <2>5, <3>4
  <2>6. Controller!Normal(content, Available(value.pool))
    BY <2>1, <2>2, <2>4, <2>5 DEF Controller!Normal, Controller!Tags, Controller!EnabledRoute, Tags
  <2>7. QED
    BY <2>6 DEF content
<1>2. ASSUME IInv, Planned, NEW tag \in Tags, model.selectors[tag] # Absent
      PROVE  Begins(tag) = {Controller!Loaded(Abstract(model)).live[tag]}
  <2>1. /\ PlanFacts(model, settings, plan) /\ OutboundPlan(model, plan.outbounds)
    BY <1>2, PlannedFacts
  <2>2. plan.cache = FALSE
    BY <1>2, <2>1 DEF PlanFacts, Planned
  <2>3. /\ tag \in TagsOf(plan.outbounds)
        /\ \A i \in DOMAIN plan.outbounds : plan.outbounds[i].tag = tag =>
             plan.outbounds[i].default = model.selectors[tag].selected
    BY <1>2, <2>1 DEF OutboundPlan
  <2>4. Begins(tag) = {model.selectors[tag].selected}
    BY <2>2, <2>3 DEF Begins, TagsOf
  <2>5. Controller!Loaded(Abstract(model)).live[tag] = model.selectors[tag].selected
    BY <1>2 DEF Controller!Loaded, Controller!Tags, Abstract, Tags
  <2>6. QED
    BY <2>4, <2>5
<1>3. ASSUME IInv
      PROVE  ControllerAgrees
  BY <1>1, <1>2, <1>3 DEF ControllerAgrees, IInv
<1>4. QED
  BY <1>3, Invariant, PTL

\* The claims to a host are the rules of the enabled routes that match it.
LEMMA ClaimsAreRules ==
  ASSUME NormalForm(model), NEW name
  PROVE  /\ \A r \in RulesOf(model.routes) :
              Matches(r, name, FALSE) <=> <<r.outbound, r.domain>> \in Claims(name)
         /\ \A claim \in Claims(name) :
              /\ Rule("suffix", claim[2], claim[1]) \in RulesOf(model.routes)
              /\ Matches(Rule("suffix", claim[2], claim[1]), name, FALSE)
<1>1. ASSUME NEW r \in RulesOf(model.routes)
      PROVE  Matches(r, name, FALSE) <=> <<r.outbound, r.domain>> \in Claims(name)
  <2>1. /\ r.kind = "suffix" /\ r.domain \in Domains /\ r.outbound \in Enabled(model.routes)
        /\ \E i \in DOMAIN model.routes[r.outbound].domains :
             model.routes[r.outbound].domains[i].domain = r.domain
    BY RulesOfFacts
  <2>2. Matches(r, name, FALSE) <=> IsSuffix(r.domain, name)
    BY <2>1 DEF Matches
  <2>3. <<r.outbound, r.domain>> \in Enabled(model.routes) \X Domains
    BY <2>1
  <2>4. <<r.outbound, r.domain>> \in Claims(name) <=> IsSuffix(r.domain, name)
    BY <2>1, <2>3 DEF Claims
  <2>5. QED
    BY <2>2, <2>4
<1>2. ASSUME NEW claim \in Claims(name)
      PROVE  /\ Rule("suffix", claim[2], claim[1]) \in RulesOf(model.routes)
             /\ Matches(Rule("suffix", claim[2], claim[1]), name, FALSE)
  <2>1. /\ claim[1] \in Enabled(model.routes) /\ IsSuffix(claim[2], name)
        /\ \E i \in DOMAIN model.routes[claim[1]].domains :
             model.routes[claim[1]].domains[i].domain = claim[2]
    BY DEF Claims
  <2>2. Rule("suffix", claim[2], claim[1]) \in RulesOf(model.routes)
    BY <2>1, RulesOfFacts
  <2>3. Matches(Rule("suffix", claim[2], claim[1]), name, FALSE)
    BY <2>1 DEF Rule, Matches
  <2>4. QED
    BY <2>2, <2>3
<1>3. QED
  BY <1>1, <1>2

\* In every state of the invariant in which a plan exists, a host goes where the closest
\* of the domains that name it says.
LEMMA RoutedByClosest ==
  ASSUME IInv, Planned, NEW name \in Hosts
  PROVE  IF settings.routeMode # "direct" /\ Claims(name) # {}
         THEN \E c \in Closest(name) : Routed(name) = c[1]
         ELSE Routed(name) = IF settings.routeMode = "rule" /\ name \in China
                             THEN Direct ELSE plan.final
<1> DEFINE first == FirstMatch(name, FALSE)
           rules == plan.rules
           known == RulesOf(model.routes)
           f == InFront(settings)
<1>1. NormalForm(model) /\ rules \in Seq(OptionRule)
  BY PlannedFacts
<1>2. \/ first = 0 /\ \A i \in 1..Len(rules) : ~Matches(rules[i], name, FALSE)
      \/ /\ first \in 1..Len(rules) /\ Matches(rules[first], name, FALSE)
         /\ \A i \in 1..Len(rules) : i < first => ~Matches(rules[i], name, FALSE)
  BY <1>1, FirstMatchFacts
<1>3. Routed(name) = IF first = 0 THEN plan.final ELSE rules[first].outbound
  BY DEF Routed
<1>4. PICK n \in Nat :
        /\ Len(rules) = f + n + Behind(settings)
        /\ f \in {1, 2} /\ Behind(settings) \in {0, 1}
        /\ \A i \in 1..f : rules[i].kind = IF i = 1 THEN "sniff" ELSE "dns"
        /\ \A i \in f + 1..f + n : rules[i] \in known /\ rules[i].kind = "suffix"
        /\ \A i \in f + n + 1..Len(rules) :
             /\ rules[i].kind = "china" /\ rules[i].outbound = Direct
             /\ settings.routeMode = "rule" /\ i = f + n + 1
        /\ settings.routeMode = "rule" => f + n + 1 \in 1..Len(rules)
        /\ \A i, j \in f + 1..f + n : i < j => MoreSpecific(rules[i], rules[j])
        /\ settings.routeMode = "direct" => n = 0
        /\ settings.routeMode # "direct" => \A r \in known : \E i \in f + 1..f + n : rules[i] = r
  BY RuleKinds
<1> HIDE DEF first, f, known, rules
<1>5. /\ \A i \in 1..f : ~Matches(rules[i], name, FALSE)
      /\ \A i \in f + n + 1..Len(rules) : Matches(rules[i], name, FALSE) <=> name \in China
  BY <1>4 DEF Matches
<1>6. \A i \in 1..Len(rules) : i \in 1..f \/ i \in f + 1..f + n \/ i \in f + n + 1..Len(rules)
  BY <1>4
<1>7. \A i \in f + 1..f + n : i \in 1..Len(rules) /\ i < f + n + 1
  BY <1>4
<1>8. \A r \in known : Matches(r, name, FALSE) <=> <<r.outbound, r.domain>> \in Claims(name)
  BY <1>1, ClaimsAreRules DEF known
<1>9. \A claim \in Claims(name) :
        /\ Rule("suffix", claim[2], claim[1]) \in known
        /\ Matches(Rule("suffix", claim[2], claim[1]), name, FALSE)
  BY <1>1, ClaimsAreRules DEF known
<1>10. CASE settings.routeMode # "direct" /\ Claims(name) # {}
  <2>1. ASSUME NEW claim \in Claims(name)
        PROVE  \E k \in f + 1..f + n : /\ rules[k].domain = claim[2]
                                       /\ Matches(rules[k], name, FALSE)
    <3>1. PICK k \in f + 1..f + n : rules[k] = Rule("suffix", claim[2], claim[1])
      BY <1>4, <1>9, <1>10
    <3>2. Rule("suffix", claim[2], claim[1]).domain = claim[2]
      BY DEF Rule
    <3>3. Matches(Rule("suffix", claim[2], claim[1]), name, FALSE)
      BY <1>9
    <3>4. rules[k].domain = claim[2] /\ Matches(rules[k], name, FALSE)
      BY <3>1, <3>2, <3>3, Zenon
    <3>5. QED
      BY <3>4
  <2>2. first \in f + 1..f + n /\ Matches(rules[first], name, FALSE)
    <3>1. PICK k \in f + 1..f + n : Matches(rules[k], name, FALSE)
      BY <1>10, <2>1
    <3>2. k \in 1..Len(rules) /\ k < f + n + 1
      BY <1>7
    <3>3. first \in 1..Len(rules) /\ Matches(rules[first], name, FALSE) /\ ~(k < first)
      BY <1>2, <3>1, <3>2
    <3>4. first \notin 1..f /\ first \notin f + n + 1..Len(rules)
      BY <1>4, <1>5, <3>2, <3>3
    <3>5. QED
      BY <1>6, <3>3, <3>4
  <2>3. rules[first] \in known
    BY <1>4, <2>2
  <2> DEFINE c == <<rules[first].outbound, rules[first].domain>>
  <2>4. c \in Claims(name)
    BY <1>8, <2>2, <2>3
  <2>5. ASSUME NEW other \in Claims(name)
        PROVE  Len(other[2]) <= Len(c[2])
    <3>1. PICK k \in f + 1..f + n : rules[k].domain = other[2] /\ Matches(rules[k], name, FALSE)
      BY <2>1
    <3>2. first \in Nat /\ k \in Nat /\ ~(k < first)
      <4>1. first \in Nat /\ k \in Nat /\ first # 0
        BY <1>4, <2>2
      <4>2. k \in 1..Len(rules)
        BY <1>7
      <4>3. k < first => ~Matches(rules[k], name, FALSE)
        BY <1>2, <4>1, <4>2
      <4>4. QED
        BY <3>1, <4>1, <4>3
    <3>3. rules[k] = rules[first] \/ MoreSpecific(rules[first], rules[k])
      BY <1>4, <2>2, <3>2
    <3>4. Len(rules[k].domain) \in Nat /\ Len(rules[first].domain) \in Nat
      <4>1. \A domain \in Domains : Len(domain) \in Nat
        BY ConstantsAssumption DEF Domains, ToSet
      <4>2. rules[k] \in known
        BY <1>4
      <4>3. \A r \in known : r.domain \in Domains
        BY <1>1, RulesOfFacts DEF known
      <4>4. QED
        BY <2>3, <4>1, <4>2, <4>3
    <3>5. Len(rules[k].domain) <= Len(rules[first].domain)
      BY <3>3, <3>4 DEF MoreSpecific
    <3>6. QED
      BY <3>1, <3>5
  <2>6. c \in Closest(name)
    BY <2>4, <2>5 DEF Closest
  <2>7. first # 0
    BY <1>4, <2>2
  <2>8. Routed(name) = c[1]
    BY <1>3, <2>7
  <2>9. QED
    BY <1>10, <2>6, <2>8
<1>11. CASE ~(settings.routeMode # "direct" /\ Claims(name) # {})
  <2>1. \A i \in f + 1..f + n : ~Matches(rules[i], name, FALSE)
    <3>1. CASE settings.routeMode = "direct"
      <4>1. f + 1..f + n = {}
        BY <1>4, <3>1
      <4>2. QED
        BY <4>1
    <3>2. CASE Claims(name) = {}
      BY <1>4, <1>8, <3>2
    <3>3. QED
      BY <1>11, <3>1, <3>2
  <2>2. CASE settings.routeMode = "rule" /\ name \in China
    <3>1. f + n + 1 \in 1..Len(rules) /\ f + n + 1 \in f + n + 1..Len(rules)
      BY <1>4, <2>2
    <3>2. Matches(rules[f + n + 1], name, FALSE)
      BY <1>5, <2>2, <3>1
    <3>3. first \in 1..Len(rules) /\ Matches(rules[first], name, FALSE)
      BY <1>2, <3>1, <3>2
    <3>4. first \in f + n + 1..Len(rules)
      BY <1>5, <1>6, <2>1, <3>3
    <3>5. first # 0 /\ rules[first].outbound = Direct
      BY <1>4, <3>3, <3>4
    <3>6. QED
      BY <1>3, <1>11, <2>2, <3>5
  <2>3. CASE ~(settings.routeMode = "rule" /\ name \in China)
    <3>1. \A i \in f + n + 1..Len(rules) : ~Matches(rules[i], name, FALSE)
      BY <1>4, <1>5, <2>3
    <3>2. \A i \in 1..Len(rules) : ~Matches(rules[i], name, FALSE)
      BY <1>5, <1>6, <2>1, <3>1
    <3>3. first = 0
      BY <1>2, <3>2
    <3>4. QED
      BY <1>3, <1>11, <2>3, <3>3
  <2>4. QED
    BY <2>2, <2>3
<1>12. QED
  BY <1>10, <1>11

\* A host goes to the service that names it most specifically, and only a host that no
\* service names goes by country or to the default.
THEOREM ClosestTheorem == Spec => []ClosestServiceWins
<1>1. IInv => ClosestServiceWins
  BY RoutedByClosest DEF ClosestServiceWins
<1>2. QED
  BY <1>1, Invariant, PTL

=============================================================================
