------------------------ MODULE ProviderDocumentProofs ------------------------
(***************************************************************************)
(* Proofs about ProviderDocument, for any documents, answers, addresses    *)
(* and subscriptions: identities are unique and stable, available nodes    *)
(* can be used, a restart restores what was there, the endpoints follow    *)
(* the pool, and exchanges stay within their limits.                       *)
(***************************************************************************)
EXTENDS ProviderDocument, FiniteSetTheorems, WellFoundedInduction, TLAPS

-----------------------------------------------------------------------------
(* Minima and sequences *)

\* A set of natural numbers that is not empty has a least element.
LEMMA MinIsLeast ==
  ASSUME NEW S \in SUBSET Nat, S # {}
  PROVE  Min(S) \in S /\ \A n \in S : Min(S) <= n
<1>1. PICK least \in S : \A n \in S : <<n, least>> \notin OpToRel(<, Nat)
  BY NatLessThanWellFounded, WFMin
<1>2. ASSUME NEW n \in S
      PROVE  least <= n
  <2>1. <<n, least>> \in Nat \X Nat /\ <<n, least>> \notin OpToRel(<, Nat)
    BY <1>1
  <2>2. ~(n < least)
    BY <2>1 DEF OpToRel
  <2>3. QED
    BY <2>2
<1>3. QED
  BY <1>1, <1>2 DEF Min

\* SetToSeq lists a finite set without repetition.
LEMMA SetToSeqFacts ==
  ASSUME NEW S, IsFiniteSet(S)
  PROVE  /\ SetToSeq(S) \in Seq(S)
         /\ ToSet(SetToSeq(S)) = S
         /\ \A i, j \in DOMAIN SetToSeq(S) : SetToSeq(S)[i] = SetToSeq(S)[j] => i = j
<1> DEFINE n == Cardinality(S)
           f == SetToSeq(S)
<1>1. PICK g \in Bijection(1..n, S) : TRUE
  BY FS_CardinalityType DEF ExistsBijection
<1>2. g \in [1..n -> S] /\ IsInjective(g)
  BY <1>1 DEF Bijection, Injection, IsInjective
<1>3. f \in [1..n -> S] /\ IsInjective(f)
  BY <1>2 DEF SetToSeq
<1>4. n \in Nat
  BY FS_CardinalityType
<1>5. f \in Injection(1..n, S)
  BY <1>3 DEF Injection
<1>6. f \in Surjection(1..n, S)
  <2>1. Cardinality(1..n) = n
    BY <1>4, FS_Interval
  <2>2. QED
    BY <1>5, <2>1, FS_Injection
<1>7. ToSet(f) = S
  BY <1>3, <1>6 DEF Surjection, ToSet
<1>8. f \in Seq(S)
  BY <1>3, <1>4
<1>9. \A i, j \in DOMAIN f : f[i] = f[j] => i = j
  BY <1>3 DEF IsInjective
<1>10. QED
  BY <1>7, <1>8, <1>9

\* The entries of a document that are nodes are a sequence of entries.
LEMMA NodeEntriesAreEntries ==
  ASSUME NEW document \in Seq(Outbound)
  PROVE  /\ NodeEntries(document) \in Seq(Outbound)
         /\ \A k \in DOMAIN NodeEntries(document) : \E i \in DOMAIN document :
              NodeEntries(document)[k] = document[i]
<1> DEFINE Places == {i \in DOMAIN document : IsNode(document[i])}
           Rank(i) == Cardinality({j \in Places : j <= i})
<1>1. Places \in SUBSET (1..Len(document)) /\ IsFiniteSet(Places)
  <2>1. DOMAIN document = 1..Len(document) /\ Len(document) \in Nat
    OBVIOUS
  <2>2. Places \in SUBSET (1..Len(document))
    BY <2>1
  <2>3. IsFiniteSet(1..Len(document))
    BY <2>1, FS_Interval
  <2>4. QED
    BY <2>2, <2>3, FS_Subset
<1>2. Cardinality(Places) \in Nat
  BY <1>1, FS_CardinalityType
<1>3. ASSUME NEW i \in Places
      PROVE  IsFiniteSet({j \in Places : j <= i}) /\ Rank(i) \in 1..Cardinality(Places)
  <2> DEFINE Upto == {j \in Places : j <= i}
  <2>1. Upto \in SUBSET Places /\ i \in Upto
    BY <1>1
  <2>2. IsFiniteSet(Upto) /\ Rank(i) <= Cardinality(Places)
    BY <1>1, <2>1, FS_Subset
  <2>3. Rank(i) \in Nat /\ Rank(i) # 0
    BY <2>1, <2>2, FS_CardinalityType, FS_EmptySet
  <2>4. QED
    BY <1>2, <2>2, <2>3
<1>4. ASSUME NEW i \in Places, NEW j \in Places, i < j
      PROVE  Rank(i) # Rank(j)
  <2>1. {l \in Places : l <= i} \in SUBSET {l \in Places : l <= j}
    BY <1>1, <1>4
  <2>2. {l \in Places : l <= i} # {l \in Places : l <= j}
    BY <1>1, <1>4
  <2>3. QED
    BY <1>3, <2>1, <2>2, FS_Subset
<1>5. \A k \in 1..Cardinality(Places) : \E i \in Places : Rank(i) = k
  <2> DEFINE rank == [i \in Places |-> Rank(i)]
  <2>1. rank \in Injection(Places, 1..Cardinality(Places))
    <3>1. ASSUME NEW i \in Places, NEW j \in Places, rank[i] = rank[j]
          PROVE  i = j
      <4>1. Rank(i) = Rank(j)
        BY <3>1
      <4>2. ~(i < j) /\ ~(j < i)
        BY <1>4, <4>1
      <4>3. QED
        BY <1>1, <4>2
    <3>2. rank \in [Places -> 1..Cardinality(Places)]
      BY <1>3
    <3>3. QED
      BY <3>1, <3>2 DEF Injection, IsInjective
  <2>2. IsFiniteSet(1..Cardinality(Places)) /\ Cardinality(1..Cardinality(Places)) = Cardinality(Places)
    BY <1>2, FS_Interval
  <2>3. rank \in Surjection(Places, 1..Cardinality(Places))
    BY <2>1, <2>2, FS_Injection
  <2>4. QED
    BY <2>3 DEF Surjection
<1>6. \A k \in 1..Cardinality(Places) :
        (CHOOSE i \in Places : Rank(i) = k) \in Places
  BY <1>5
<1>7. NodeEntries(document) =
        [k \in 1..Cardinality(Places) |-> document[CHOOSE i \in Places : Rank(i) = k]]
  BY DEF NodeEntries
<1>8. \A k \in 1..Cardinality(Places) : \E i \in DOMAIN document :
        NodeEntries(document)[k] = document[i]
  BY <1>6, <1>7
<1>9. \A k \in 1..Cardinality(Places) : NodeEntries(document)[k] \in Outbound
  BY <1>8
<1>10. DOMAIN NodeEntries(document) = 1..Cardinality(Places)
  BY <1>7
<1>11. NodeEntries(document) = [k \in 1..Cardinality(Places) |-> NodeEntries(document)[k]]
  BY <1>7
<1> HIDE DEF Places
<1>12. NodeEntries(document) \in Seq(Outbound)
  BY <1>2, <1>9, <1>11
<1>13. QED
  BY <1>8, <1>10, <1>12

-----------------------------------------------------------------------------
(* The parser *)

\* Sanitizing keeps everything that the identity, the name and the endpoint of a
\* node are read from, except the tag.
LEMMA SanitizeKeeps ==
  ASSUME NEW entry \in Outbound
  PROVE  /\ Sanitize(entry) \in Outbound
         /\ Sanitize(entry).type = entry.type
         /\ ServerOf(Sanitize(entry)) = ServerOf(entry)
         /\ PortOf(Sanitize(entry)) = PortOf(entry)
         /\ EndpointValid(Sanitize(entry)) <=> EndpointValid(entry)
<1>1. /\ DOMAIN entry = {"type", "tag", "server", "address", "port", "tls", "fingerprint",
                        "transport", "network"}
      /\ entry.tls \subseteq STRING /\ entry.fingerprint \in STRING /\ entry.network \in STRING
  BY DEF Outbound
<1>2. Sanitize(entry) \in Outbound
  BY TextsAssumption DEF Outbound, Sanitize, Port
<1>3. \A field \in {"type", "server", "address", "port"} : Sanitize(entry)[field] = entry[field]
  BY <1>1 DEF Sanitize
<1>4. /\ Sanitize(entry).type = entry.type /\ Sanitize(entry).server = entry.server
      /\ Sanitize(entry).address = entry.address /\ Sanitize(entry).port = entry.port
  BY <1>3
<1>5. QED
  BY <1>2, <1>4 DEF ServerOf, PortOf, EndpointValid

\* What is known of a node by the JSON it is stored with.
Sound(n) ==
  /\ n.type = n.json.type
  /\ n.server = ServerOf(n.json)
  /\ n.port = PortOf(n.json)
  /\ n.outbound = Decodes(n.json)
  /\ n.phase = IF Decodes(n.json) /\ EndpointValid(n.json) THEN "ready" ELSE "failed"

\* The server and the port of an entry.
LEMMA EndpointTypes ==
  ASSUME NEW entry \in Outbound
  PROVE  ServerOf(entry) \in STRING /\ PortOf(entry) \in Int
<1>1. entry.server \in STRING /\ entry.address \in STRING /\ entry.port \in Port
  BY DEF Outbound
<1>2. entry.port.value \in Int
  BY <1>1 DEF Port
<1>3. ServerOf(entry) \in STRING
  BY <1>1 DEF ServerOf
<1>4. PortOf(entry) \in Int
  BY <1>2 DEF PortOf
<1>5. QED
  BY <1>3, <1>4

\* The node made of an entry.
LEMMA NodeOfIsSound ==
  ASSUME NEW nodes \in Seq(Outbound), NEW i \in DOMAIN nodes, NEW country \in Country
  PROVE  NodeOf(nodes, i, country) \in Parsed /\ Sound(NodeOf(nodes, i, country))
<1> DEFINE entry == nodes[i]
           node == NodeOf(nodes, i, country)
<1>1. entry \in Outbound
  OBVIOUS
<1>2. node = [id |-> DocumentId(nodes, i), name |-> NameOf(entry), country |-> country,
              server |-> ServerOf(entry), port |-> PortOf(entry), type |-> entry.type,
              phase |-> PhaseOf(entry), json |-> Sanitize(entry),
              outbound |-> Decodes(Sanitize(entry))]
  BY DEF NodeOf
<1>3. \A j \in DOMAIN nodes : nodes[j].type \in STRING /\ NameOf(nodes[j]) \in STRING
  <2>1. \A j \in DOMAIN nodes : nodes[j] \in Outbound
    OBVIOUS
  <2>2. QED
    BY <2>1 DEF Outbound, NameOf
<1>4. DocumentId(nodes, i) \in (STRING \X STRING) \X Nat
  <2> DEFINE key == <<nodes[i].type, NameOf(nodes[i])>>
             Before == {j \in 1..(i - 1) : <<nodes[j].type, NameOf(nodes[j])>> = key}
  <2>1. i \in Nat
    OBVIOUS
  <2>2. IsFiniteSet(1..(i - 1))
    BY <2>1, FS_Interval
  <2>3. Cardinality(Before) \in Nat
    <3>1. Before \in SUBSET (1..(i - 1))
      OBVIOUS
    <3>2. IsFiniteSet(Before)
      BY <2>2, <3>1, FS_Subset
    <3>3. QED
      BY <3>2, FS_CardinalityType
  <2>4. DocumentId(nodes, i) = <<key, Cardinality(Before) + 1>>
    BY DEF DocumentId
  <2>5. key \in STRING \X STRING
    BY <1>3
  <2>6. QED
    BY <2>3, <2>4, <2>5
<1>5. PhaseOf(entry) = IF Decodes(Sanitize(entry)) /\ EndpointValid(Sanitize(entry))
                       THEN "ready" ELSE "failed"
  BY <1>1, SanitizeKeeps DEF PhaseOf
<1>6. Decodes(Sanitize(entry)) \in BOOLEAN
  BY DEF Decodes
<1>7. node \in Parsed
  BY <1>1, <1>2, <1>3, <1>4, <1>5, <1>6, SanitizeKeeps, EndpointTypes DEF Parsed, Node
<1>8. Sound(node)
  BY <1>1, <1>2, <1>5, SanitizeKeeps DEF Sound
<1>9. QED
  BY <1>7, <1>8

\* What the parser makes of a document of the network.
LEMMA ParseIsSound ==
  ASSUME NEW exchange \in Exchanges, NEW parsed \in Parse(exchange.document)
  PROVE  parsed \in Seq(Parsed) /\ \A i \in DOMAIN parsed : Sound(parsed[i])
<1> DEFINE document == exchange.document
           nodes == NodeEntries(document)
           Names == {NameOf(nodes[i]) : i \in DOMAIN nodes}
<1>1. document \in Seq(Outbound)
  BY InputsAssumption
<1>2. nodes \in Seq(Outbound)
  BY <1>1, NodeEntriesAreEntries
<1>3. \A name \in Names : name \in DOMAIN CountryCodes
  BY <1>1, NodeEntriesAreEntries, NamesAssumption
<1>4. PICK c : /\ \A name \in Names : c[name] \in CountryCodes[name]
               /\ parsed = [i \in DOMAIN nodes |-> NodeOf(nodes, i, c[NameOf(nodes[i])])]
  BY DEF Parse
<1>5. \A name \in Names : c[name] \in Country
  BY <1>3, <1>4 DEF Country
<1>6. \A i \in DOMAIN nodes : parsed[i] \in Parsed /\ Sound(parsed[i])
  BY <1>2, <1>4, <1>5, NodeOfIsSound
<1>7. DOMAIN parsed = 1..Len(nodes) /\ Len(nodes) \in Nat /\ DOMAIN nodes = 1..Len(nodes)
  BY <1>2, <1>4
<1>8. parsed = [i \in 1..Len(nodes) |-> parsed[i]]
  BY <1>4, <1>7
<1>9. parsed \in Seq(Parsed)
  BY <1>6, <1>7, <1>8
<1>10. QED
  BY <1>6, <1>7, <1>9

-----------------------------------------------------------------------------
(* Identities *)

\* The identity of a node is that of its subscription and settings, whatever the
\* identity it had.
LEMMA IdentityOfSourced ==
  ASSUME NEW X, NEW n \in Node(X), NEW id \in Ids
  PROVE  /\ Identity(id, n) \in Ids \X Outbound
         /\ [n EXCEPT !.id = Identity(id, n)] \in Sourced
         /\ Identity(id, [n EXCEPT !.id = Identity(id, n)]) = Identity(id, n)
         /\ \A y : Sound([n EXCEPT !.id = y]) <=> Sound(n)
<1>1. Identity(id, n) \in Ids \X Outbound
  BY TextsAssumption DEF Identity, Node, Outbound
<1>2. \A y : /\ [n EXCEPT !.id = y].json = n.json
             /\ [n EXCEPT !.id = y].type = n.type
             /\ [n EXCEPT !.id = y].server = n.server
             /\ [n EXCEPT !.id = y].port = n.port
             /\ [n EXCEPT !.id = y].outbound = n.outbound
             /\ [n EXCEPT !.id = y].phase = n.phase
  BY DEF Node
<1>3. [n EXCEPT !.id = Identity(id, n)] \in Sourced
  BY <1>1 DEF Node, Sourced
<1>4. Identity(id, [n EXCEPT !.id = Identity(id, n)]) = Identity(id, n)
  BY <1>2 DEF Identity
<1>5. \A y : Sound([n EXCEPT !.id = y]) <=> Sound(n)
  BY <1>2 DEF Sound
<1>6. QED
  BY <1>1, <1>3, <1>4, <1>5

\* The entries WithSource keeps: the first of those with one identity.
Firsts(nodes, id) ==
  {j \in DOMAIN nodes : \A k \in 1..(j - 1) : Identity(id, nodes[k]) # Identity(id, nodes[j])}

Kept(nodes, id) == {[nodes[i] EXCEPT !.id = Identity(id, nodes[i])] : i \in Firsts(nodes, id)}

\* Every identity of a sequence of nodes is kept, once.
LEMMA KeptIdentities ==
  ASSUME NEW X, NEW nodes \in Seq(Node(X)), NEW id \in Ids
  PROVE  /\ IsFiniteSet(Kept(nodes, id))
         /\ \A i \in DOMAIN nodes : \E j \in Firsts(nodes, id) :
              Identity(id, nodes[j]) = Identity(id, nodes[i])
         /\ \A i, j \in Firsts(nodes, id) :
              Identity(id, nodes[i]) = Identity(id, nodes[j]) => i = j
<1>1. DOMAIN nodes = 1..Len(nodes) /\ Len(nodes) \in Nat
  OBVIOUS
<1>2. IsFiniteSet(Firsts(nodes, id))
  <2>1. Firsts(nodes, id) \in SUBSET (1..Len(nodes))
    BY <1>1 DEF Firsts
  <2>2. IsFiniteSet(1..Len(nodes))
    BY <1>1, FS_Interval
  <2>3. QED
    BY <2>1, <2>2, FS_Subset
<1>3. IsFiniteSet(Kept(nodes, id))
  <2> DEFINE kept == [i \in Firsts(nodes, id) |-> [nodes[i] EXCEPT !.id = Identity(id, nodes[i])]]
  <2>1. kept \in Surjection(Firsts(nodes, id), Kept(nodes, id))
    BY DEF Kept, Surjection
  <2>2. QED
    BY <1>2, <2>1, FS_Surjection
<1>4. ASSUME NEW i \in DOMAIN nodes
      PROVE  \E j \in Firsts(nodes, id) : Identity(id, nodes[j]) = Identity(id, nodes[i])
  <2> DEFINE Same == {j \in DOMAIN nodes : Identity(id, nodes[j]) = Identity(id, nodes[i])}
  <2>1. Same \in SUBSET Nat /\ Same # {}
    BY <1>1
  <2>2. Min(Same) \in Same /\ \A j \in Same : Min(Same) <= j
    BY <2>1, MinIsLeast
  <2>3. \A k \in 1..(Min(Same) - 1) : Identity(id, nodes[k]) # Identity(id, nodes[Min(Same)])
    <3>1. ASSUME NEW k \in 1..(Min(Same) - 1)
          PROVE  k \notin Same /\ k \in DOMAIN nodes
      <4>1. Min(Same) \in 1..Len(nodes)
        BY <1>1, <2>2
      <4>2. k \in 1..Len(nodes) /\ ~(Min(Same) <= k)
        BY <1>1, <4>1
      <4>3. k \notin Same
        BY <2>2, <4>2
      <4>4. QED
        BY <1>1, <4>2, <4>3
    <3>2. QED
      BY <2>2, <3>1
  <2>4. Min(Same) \in Firsts(nodes, id)
    BY <2>2, <2>3 DEF Firsts
  <2>5. QED
    BY <2>2, <2>4
<1>5. ASSUME NEW i \in Firsts(nodes, id), NEW j \in Firsts(nodes, id),
             Identity(id, nodes[i]) = Identity(id, nodes[j])
      PROVE  i = j
  <2>1. i \in Nat /\ j \in Nat /\ i >= 1 /\ j >= 1
    BY <1>1 DEF Firsts
  <2>2. ~(i < j) /\ ~(j < i)
    BY <1>5, <2>1 DEF Firsts
  <2>3. QED
    BY <2>1, <2>2
<1>6. QED
  BY <1>3, <1>4, <1>5

\* The nodes of a subscription: sourced, each with its own identity, in the order
\* WithSource gives them, so that sourcing them again changes nothing.
Own(id, nodes) ==
  /\ nodes \in Seq(Sourced)
  /\ \A i \in DOMAIN nodes : nodes[i].id = Identity(id, nodes[i])
  /\ \A i, j \in DOMAIN nodes : nodes[i].id = nodes[j].id => i = j
  /\ nodes = SetToSeq(ToSet(nodes))

\* WithSource makes the nodes of a document those of a subscription, with the
\* settings of the document.
LEMMA WithSourceFacts ==
  ASSUME NEW X, NEW nodes \in Seq(Node(X)), NEW id \in Ids
  PROVE  /\ Own(id, WithSource(nodes, id))
         /\ \A k \in DOMAIN WithSource(nodes, id) : \E i \in DOMAIN nodes :
              WithSource(nodes, id)[k] = [nodes[i] EXCEPT !.id = Identity(id, nodes[i])]
         /\ \A i \in DOMAIN nodes : \E k \in DOMAIN WithSource(nodes, id) :
              WithSource(nodes, id)[k].id = Identity(id, nodes[i])
<1> DEFINE sourced == WithSource(nodes, id)
           kept == Kept(nodes, id)
<1>1. sourced = SetToSeq(kept)
  BY DEF WithSource, Kept, Firsts
<1>2. IsFiniteSet(kept)
  BY KeptIdentities
<1>3. /\ sourced \in Seq(kept)
      /\ ToSet(sourced) = kept
      /\ \A k, l \in DOMAIN sourced : sourced[k] = sourced[l] => k = l
  BY <1>1, <1>2, SetToSeqFacts
<1>4. \A k \in DOMAIN sourced : \E i \in Firsts(nodes, id) :
        sourced[k] = [nodes[i] EXCEPT !.id = Identity(id, nodes[i])]
  BY <1>3 DEF ToSet, Kept
<1>5. \A i \in Firsts(nodes, id) : i \in DOMAIN nodes /\ nodes[i] \in Node(X)
  BY DEF Firsts
<1>6. \A i \in Firsts(nodes, id) :
        LET n == [nodes[i] EXCEPT !.id = Identity(id, nodes[i])]
        IN  n \in Sourced /\ n.id = Identity(id, nodes[i]) /\ n.id = Identity(id, n)
  <2>1. ASSUME NEW i \in Firsts(nodes, id)
        PROVE  [nodes[i] EXCEPT !.id = Identity(id, nodes[i])].id = Identity(id, nodes[i])
    BY <1>5 DEF Node
  <2>2. QED
    BY <1>5, <2>1, IdentityOfSourced
<1>7. kept \subseteq Sourced
  BY <1>6 DEF Kept
<1>8. sourced \in Seq(Sourced)
  BY <1>3, <1>7
<1>9. \A k \in DOMAIN sourced : sourced[k].id = Identity(id, sourced[k])
  BY <1>4, <1>6
<1>10. ASSUME NEW k \in DOMAIN sourced, NEW l \in DOMAIN sourced, sourced[k].id = sourced[l].id
       PROVE  k = l
  <2>1. PICK i \in Firsts(nodes, id) : sourced[k] = [nodes[i] EXCEPT !.id = Identity(id, nodes[i])]
    BY <1>4
  <2>2. PICK j \in Firsts(nodes, id) : sourced[l] = [nodes[j] EXCEPT !.id = Identity(id, nodes[j])]
    BY <1>4
  <2>3. Identity(id, nodes[i]) = Identity(id, nodes[j])
    BY <1>6, <1>10, <2>1, <2>2
  <2>4. sourced[k] = sourced[l]
    BY <2>1, <2>2, <2>3, KeptIdentities
  <2>5. QED
    BY <1>3, <2>4
<1>11. ASSUME NEW i \in DOMAIN nodes
       PROVE  \E k \in DOMAIN sourced : sourced[k].id = Identity(id, nodes[i])
  <2>1. PICK j \in Firsts(nodes, id) : Identity(id, nodes[j]) = Identity(id, nodes[i])
    BY KeptIdentities
  <2>2. [nodes[j] EXCEPT !.id = Identity(id, nodes[j])] \in ToSet(sourced)
    BY <1>3 DEF Kept
  <2>3. QED
    BY <1>6, <2>1, <2>2 DEF ToSet
<1>12. sourced = SetToSeq(ToSet(sourced))
  BY <1>1, <1>3
<1>13. Own(id, sourced)
  BY <1>8, <1>9, <1>10, <1>12 DEF Own
<1>14. QED
  BY <1>4, <1>5, <1>11, <1>13

\* Sourcing the nodes of a subscription again changes nothing.
LEMMA WithSourceAgain ==
  ASSUME NEW id \in Ids, NEW nodes, Own(id, nodes)
  PROVE  WithSource(nodes, id) = nodes
<1>1. nodes \in Seq(Sourced) /\ DOMAIN nodes = 1..Len(nodes) /\ Len(nodes) \in Nat
  BY DEF Own
<1>2. Firsts(nodes, id) = DOMAIN nodes
  <2>1. ASSUME NEW j \in DOMAIN nodes, NEW k \in 1..(j - 1)
        PROVE  Identity(id, nodes[k]) # Identity(id, nodes[j])
    <3>1. k \in DOMAIN nodes /\ k # j
      BY <1>1
    <3>2. QED
      BY <3>1 DEF Own
  <2>2. QED
    BY <2>1 DEF Firsts
<1>3. \A i \in DOMAIN nodes : [nodes[i] EXCEPT !.id = Identity(id, nodes[i])] = nodes[i]
  <2>1. \A i \in DOMAIN nodes : nodes[i] \in Sourced /\ nodes[i].id = Identity(id, nodes[i])
    BY <1>1 DEF Own
  <2>2. QED
    BY <2>1 DEF Sourced, Node
<1>4. Kept(nodes, id) = ToSet(nodes)
  BY <1>2, <1>3 DEF Kept, ToSet
<1>5. WithSource(nodes, id) = SetToSeq(Kept(nodes, id))
  BY DEF WithSource, Kept, Firsts
<1>6. QED
  BY <1>4, <1>5 DEF Own

-----------------------------------------------------------------------------
(* The invariant *)

\* What a subscription is in memory, by what is stored of it: the typed outbounds
\* are there for the JSON that decodes.
Recovered(item) ==
  [item EXCEPT !.nodes =
    [i \in DOMAIN item.nodes |->
      [item.nodes[i] EXCEPT !.outbound = Decodes(item.nodes[i].json)]]]

\* The endpoints of a subscription are those of its ready nodes.
EndpointsMatch(item) ==
  LET Ready == {item.nodes[i] : i \in {j \in DOMAIN item.nodes : item.nodes[j].phase = "ready"}}
  IN  /\ \A n \in Ready : n.server \in Literals => n.server \in item.endpoints
      /\ \A address \in item.endpoints : \E n \in Ready : Reaches(address, n)

SoundItem(id, item) ==
  /\ item \in Item
  /\ item.url = "https"
  /\ Own(id, item.nodes)
  /\ \A i \in DOMAIN item.nodes : Sound(item.nodes[i])
  /\ Identities(item) = {<<id, settings>> : settings \in Settings(item.hash)}
  /\ EndpointsMatch(item)

TypeOK ==
  /\ loaded \in BOOLEAN
  /\ items \in [Ids -> Item \cup {Absent}]
  /\ stored \in [Ids -> Item \cup {Absent}]

\* What is stored can be recovered as a sound subscription.
StoreInv == \A id \in Ids : stored[id] # Absent => SoundItem(id, Recovered(stored[id]))

\* Memory holds what can be recovered from the store.
MemoryInv ==
  \A id \in Ids :
    items[id] = IF loaded /\ stored[id] # Absent THEN Recovered(stored[id]) ELSE Absent

WireInv ==
  /\ \A request \in wire.sent : request.scheme = "https"
  /\ Cardinality(wire.sent) <= Tries * MaxRequests
  /\ wire.kind = "document" => wire.read = wire.size

IInv == TypeOK /\ StoreInv /\ MemoryInv /\ pool = NodePool(items) /\ WireInv

-----------------------------------------------------------------------------
(* Sound subscriptions *)

\* A subscription without nodes is sound.
LEMMA NewItemIsSound ==
  ASSUME NEW id \in Ids
  PROVE  SoundItem(id, NewItem("https"))
<1> DEFINE item == NewItem("https")
<1>1. item \in Item
  BY DEF NewItem, Item, Schemes
<1>2. item.nodes = <<>> /\ item.hash = <<>> /\ item.endpoints = {} /\ item.url = "https"
  BY DEF NewItem
<1>3. Own(id, item.nodes)
  <2>1. ToSet(<<>>) = {}
    BY DEF ToSet
  <2>2. SetToSeq({}) \in Seq({})
    BY FS_EmptySet, SetToSeqFacts
  <2>3. SetToSeq({}) = <<>>
    BY <2>2
  <2>4. DOMAIN <<>> = {} /\ <<>> \in Seq(Sourced)
    OBVIOUS
  <2>5. Own(id, <<>>)
    BY <2>1, <2>3, <2>4 DEF Own
  <2>6. QED
    BY <1>2, <2>5
<1>4. Identities(item) = {<<id, settings>> : settings \in Settings(item.hash)}
  <2>1. DOMAIN item.nodes = {} /\ DOMAIN item.hash = {}
    BY <1>2
  <2>2. Identities(item) = {} /\ Settings(item.hash) = {}
    BY <2>1 DEF Identities, Settings
  <2>3. QED
    BY <2>2
<1>5. EndpointsMatch(item)
  BY <1>2 DEF EndpointsMatch
<1>6. QED
  BY <1>1, <1>2, <1>3, <1>4, <1>5 DEF SoundItem

\* What a subscription is sound by are its nodes, its hash and its endpoints.
LEMMA SoundByNodes ==
  ASSUME NEW id \in Ids, NEW item, SoundItem(id, item), NEW other \in Item,
         other.url = item.url, other.nodes = item.nodes, other.hash = item.hash,
         other.endpoints = item.endpoints
  PROVE  SoundItem(id, other)
<1>1. Identities(other) = Identities(item)
  BY DEF Identities
<1>2. EndpointsMatch(item) <=> EndpointsMatch(other)
  BY DEF EndpointsMatch
<1>3. QED
  BY <1>1, <1>2 DEF SoundItem

\* A toggle and the outcome of an update without a document keep it so.
LEMMA MarkedIsSound ==
  ASSUME NEW id \in Ids, NEW item, SoundItem(id, item), NEW enabled \in BOOLEAN,
         NEW status \in {"ready", "failed"}
  PROVE  /\ SoundItem(id, [item EXCEPT !.enabled = enabled])
         /\ SoundItem(id, [item EXCEPT !.status = status])
<1> DEFINE toggled == [item EXCEPT !.enabled = enabled]
           marked == [item EXCEPT !.status = status]
<1>1. item \in Item
  BY DEF SoundItem
<1>2. toggled \in Item /\ marked \in Item
  BY <1>1 DEF Item
<1>3. /\ toggled.url = item.url /\ toggled.nodes = item.nodes
      /\ toggled.hash = item.hash /\ toggled.endpoints = item.endpoints
  BY <1>1 DEF Item
<1>4. /\ marked.url = item.url /\ marked.nodes = item.nodes
      /\ marked.hash = item.hash /\ marked.endpoints = item.endpoints
  BY <1>1 DEF Item
<1>5. QED
  BY <1>2, <1>3, <1>4, SoundByNodes

\* Nodes of different subscriptions have different identities.
LEMMA IdentityNamesSubscription ==
  ASSUME NEW i, NEW j, NEW m, NEW n, Identity(i, m) = Identity(j, n)
  PROVE  i = j
BY DEF Identity

\* The server and the phase of a sound node are those of every node with the same
\* identity.
LEMMA SameIdentity ==
  ASSUME NEW X, NEW Y, NEW m \in Node(X), NEW n \in Node(Y), NEW id \in Ids,
         Identity(id, m) = Identity(id, n), Sound(m), Sound(n)
  PROVE  m.server = n.server /\ m.phase = n.phase
<1>1. m.json \in Outbound /\ n.json \in Outbound
  BY DEF Node
<1>2. [m.json EXCEPT !.tag = ""] = [n.json EXCEPT !.tag = ""]
  BY DEF Identity
<1>3. \A field \in {"type", "server", "address", "port", "tls"} : m.json[field] = n.json[field]
  <2>1. \A field \in {"type", "server", "address", "port", "tls"} :
          /\ [m.json EXCEPT !.tag = ""][field] = m.json[field]
          /\ [n.json EXCEPT !.tag = ""][field] = n.json[field]
    BY <1>1 DEF Outbound
  <2>2. QED
    BY <1>2, <2>1
<1>4. /\ m.json.type = n.json.type /\ m.json.server = n.json.server
      /\ m.json.address = n.json.address /\ m.json.port = n.json.port
      /\ m.json.tls = n.json.tls
  BY <1>3
<1>5. /\ ServerOf(m.json) = ServerOf(n.json)
      /\ EndpointValid(m.json) <=> EndpointValid(n.json)
      /\ Decodes(m.json) <=> Decodes(n.json)
  BY <1>4 DEF ServerOf, PortOf, EndpointValid, Decodes
<1>6. QED
  BY <1>5 DEF Sound

\* A document that is parsed makes a subscription sound, whatever the resolver
\* answers.
LEMMA FilledIsSound ==
  ASSUME NEW id \in Ids, SoundItem(id, items[id]),
         NEW parsed \in Seq(Parsed), \A i \in DOMAIN parsed : Sound(parsed[i]),
         NEW answered \in SUBSET Known(parsed)
  PROVE  SoundItem(id, Filled(id, parsed, answered))
<1> DEFINE item == Filled(id, parsed, answered)
           resolved == [s \in answered |-> Addresses[s]]
           endpoints == Endpoints(parsed, resolved)
           sourced == WithSource(parsed, id)
<1>1. items[id] \in Item /\ items[id].url = "https"
  BY DEF SoundItem
<1>2. /\ Own(id, sourced)
      /\ \A k \in DOMAIN sourced : \E i \in DOMAIN parsed :
           sourced[k] = [parsed[i] EXCEPT !.id = Identity(id, parsed[i])]
      /\ \A i \in DOMAIN parsed : \E k \in DOMAIN sourced :
           sourced[k].id = Identity(id, parsed[i])
  BY WithSourceFacts DEF Parsed
<1>3. \A i \in DOMAIN parsed : parsed[i] \in Parsed /\ parsed[i].server \in STRING
  <2>1. \A i \in DOMAIN parsed : parsed[i] \in Parsed
    OBVIOUS
  <2>2. QED
    BY <2>1 DEF Parsed, Node
<1>4. answered \subseteq DOMAIN Addresses \ Literals
  BY DEF Known, Lookups
<1>5. endpoints \subseteq STRING
  <2>1. UNION {resolved[s] : s \in DOMAIN resolved} \subseteq STRING
    BY <1>4, InputsAssumption
  <2>2. QED
    BY <1>3, <2>1 DEF Endpoints
<1>6. item \in Item
  BY <1>1, <1>2, <1>5 DEF Filled, Item, Own
<1>7. /\ item.url = "https" /\ item.nodes = sourced /\ item.hash = parsed
      /\ item.endpoints = endpoints
  BY <1>1 DEF Filled, Item
<1>8. \A k \in DOMAIN sourced : sourced[k] \in Sourced /\ Sound(sourced[k])
  <2>1. \A k \in DOMAIN sourced : sourced[k] \in Sourced
    BY <1>2 DEF Own
  <2>2. ASSUME NEW k \in DOMAIN sourced
        PROVE  Sound(sourced[k])
    <3>1. PICK i \in DOMAIN parsed : sourced[k] = [parsed[i] EXCEPT !.id = Identity(id, parsed[i])]
      BY <1>2
    <3>2. parsed[i] \in Node((STRING \X STRING) \X Nat) /\ Sound(parsed[i])
      BY <1>3 DEF Parsed
    <3>3. Sound([parsed[i] EXCEPT !.id = Identity(id, parsed[i])])
      BY <3>2, IdentityOfSourced
    <3>4. QED
      BY <3>1, <3>3
  <2>3. QED
    BY <2>1, <2>2
<1>9. Identities(item) = {<<id, settings>> : settings \in Settings(item.hash)}
  <2>1. Identities(item) = {sourced[k].id : k \in DOMAIN sourced}
    BY <1>7 DEF Identities
  <2>2. {<<id, settings>> : settings \in Settings(item.hash)} =
          {Identity(id, parsed[i]) : i \in DOMAIN parsed}
    BY <1>7 DEF Settings, Identity
  <2>3. \A k \in DOMAIN sourced : \E i \in DOMAIN parsed : sourced[k].id = Identity(id, parsed[i])
    <3>1. ASSUME NEW k \in DOMAIN sourced
          PROVE  \E i \in DOMAIN parsed : sourced[k].id = Identity(id, parsed[i])
      <4>1. PICK i \in DOMAIN parsed : sourced[k] = [parsed[i] EXCEPT !.id = Identity(id, parsed[i])]
        BY <1>2
      <4>2. QED
        BY <1>3, <4>1 DEF Parsed, Node
    <3>2. QED
      BY <3>1
  <2>4. \A i \in DOMAIN parsed : \E k \in DOMAIN sourced : sourced[k].id = Identity(id, parsed[i])
    BY <1>2
  <2>5. QED
    BY <2>1, <2>2, <2>3, <2>4
<1>10. ASSUME NEW k \in DOMAIN sourced
       PROVE  \E i \in DOMAIN parsed :
                parsed[i].server = sourced[k].server /\ parsed[i].phase = sourced[k].phase
  <2>1. PICK i \in DOMAIN parsed : sourced[k] = [parsed[i] EXCEPT !.id = Identity(id, parsed[i])]
    BY <1>2
  <2>2. QED
    BY <1>3, <2>1 DEF Parsed, Node
<1>11. ASSUME NEW i \in DOMAIN parsed
       PROVE  \E k \in DOMAIN sourced :
                sourced[k].server = parsed[i].server /\ sourced[k].phase = parsed[i].phase
  <2>1. PICK k \in DOMAIN sourced : sourced[k].id = Identity(id, parsed[i])
    BY <1>2
  <2>2. Identity(id, sourced[k]) = Identity(id, parsed[i])
    BY <1>2, <2>1 DEF Own
  <2>3. QED
    BY <1>3, <1>8, <2>2, SameIdentity DEF Sourced, Parsed
<1>12. EndpointsMatch(item)
  <2> DEFINE Ready == {sourced[k] : k \in {j \in DOMAIN sourced : sourced[j].phase = "ready"}}
  <2>1. ASSUME NEW n \in Ready, n.server \in Literals
        PROVE  n.server \in endpoints
    <3>1. PICK i \in DOMAIN parsed : parsed[i].server = n.server /\ parsed[i].phase = "ready"
      BY <1>10
    <3>2. QED
      BY <2>1, <3>1 DEF Endpoints
  <2>2. ASSUME NEW address \in endpoints
        PROVE  \E n \in Ready : Reaches(address, n)
    <3>1. PICK i \in DOMAIN parsed :
            /\ parsed[i].phase = "ready"
            /\ \/ parsed[i].server \in Literals /\ address = parsed[i].server
               \/ /\ parsed[i].server \in answered
                  /\ address \in Addresses[parsed[i].server]
      <4>1. CASE address \in {parsed[i].server : i \in {j \in DOMAIN parsed :
                   parsed[j].phase = "ready" /\ parsed[j].server \in Literals}}
        BY <4>1
      <4>2. CASE address \in UNION {resolved[s] : s \in DOMAIN resolved}
        <5>1. PICK s \in answered : address \in Addresses[s]
          BY <4>2
        <5>2. s \in {parsed[i].server : i \in {j \in DOMAIN parsed : parsed[j].phase = "ready"}}
          BY <5>1 DEF Known, Lookups
        <5>3. QED
          BY <5>1, <5>2
      <4>3. QED
        BY <2>2, <4>1, <4>2 DEF Endpoints
    <3>2. PICK k \in DOMAIN sourced :
            sourced[k].server = parsed[i].server /\ sourced[k].phase = "ready"
      BY <1>11, <3>1
    <3>3. sourced[k] \in Ready /\ Reaches(address, sourced[k])
      BY <1>4, <3>1, <3>2 DEF Reaches
    <3>4. QED
      BY <3>3
  <2>3. QED
    BY <1>7, <2>1, <2>2 DEF EndpointsMatch
<1>13. QED
  BY <1>2, <1>6, <1>7, <1>8, <1>9, <1>12 DEF SoundItem

-----------------------------------------------------------------------------
(* The store *)

\* What is stored of a sound subscription is a subscription, and recovers it.
LEMMA EncodedIsRecovered ==
  ASSUME NEW id \in Ids, NEW item, SoundItem(id, item)
  PROVE  Encoded(item) \in Item /\ Recovered(Encoded(item)) = item
<1> DEFINE bare == [i \in DOMAIN item.nodes |-> [item.nodes[i] EXCEPT !.outbound = FALSE]]
           full == [i \in DOMAIN bare |-> [bare[i] EXCEPT !.outbound = Decodes(bare[i].json)]]
<1>1. item \in Item /\ item.nodes \in Seq(Sourced)
  BY DEF SoundItem, Own
<1>2. \A i \in DOMAIN item.nodes : item.nodes[i] \in Sourced /\ Sound(item.nodes[i])
  BY <1>1 DEF SoundItem
<1>3. \A i \in DOMAIN item.nodes : bare[i] \in Sourced
  BY <1>2 DEF Sourced, Node
<1>4. bare \in Seq(Sourced)
  <2>1. DOMAIN item.nodes = 1..Len(item.nodes) /\ Len(item.nodes) \in Nat
    BY <1>1
  <2>2. bare \in [1..Len(item.nodes) -> Sourced]
    BY <1>3, <2>1
  <2>3. QED
    BY <2>1, <2>2
<1>5. Encoded(item) = [item EXCEPT !.nodes = bare]
  BY DEF Encoded
<1>6. Encoded(item) \in Item /\ Encoded(item).nodes = bare
  BY <1>1, <1>4, <1>5 DEF Item
<1>7. \A i \in DOMAIN item.nodes : full[i] = item.nodes[i]
  <2>1. ASSUME NEW i \in DOMAIN item.nodes
        PROVE  [[item.nodes[i] EXCEPT !.outbound = FALSE] EXCEPT
                  !.outbound = Decodes([item.nodes[i] EXCEPT !.outbound = FALSE].json)]
                = item.nodes[i]
    <3>1. [item.nodes[i] EXCEPT !.outbound = FALSE].json = item.nodes[i].json
      BY <1>2 DEF Sourced, Node
    <3>2. Decodes(item.nodes[i].json) = item.nodes[i].outbound
      BY <1>2 DEF Sound
    <3>3. QED
      BY <1>2, <3>1, <3>2 DEF Sourced, Node
  <2>2. QED
    BY <2>1
<1>8. full = item.nodes
  <2>1. DOMAIN full = DOMAIN item.nodes
    OBVIOUS
  <2>2. item.nodes = [i \in DOMAIN item.nodes |-> item.nodes[i]]
    BY <1>1
  <2>3. full = [i \in DOMAIN full |-> full[i]]
    OBVIOUS
  <2> HIDE DEF full
  <2>4. QED
    BY <1>7, <2>1, <2>2, <2>3
<1>9. Recovered(Encoded(item)) = [[item EXCEPT !.nodes = bare] EXCEPT !.nodes = full]
  BY <1>5, <1>6 DEF Recovered
<1>10. [[item EXCEPT !.nodes = bare] EXCEPT !.nodes = item.nodes] = item
  BY <1>1 DEF Item
<1>11. QED
  BY <1>6, <1>8, <1>9, <1>10

\* The start decodes what it can load into what was there.
LEMMA DecodedIsRecovered ==
  ASSUME NEW id \in Ids, TypeOK, StoreInv, stored[id] # Absent, Loadable(stored[id])
  PROVE  Decoded(id) = Recovered(stored[id])
<1> DEFINE item == stored[id]
           restored == [i \in DOMAIN item.nodes |-> Restored(item.nodes[i])]
           recovered == [i \in DOMAIN item.nodes |->
                          [item.nodes[i] EXCEPT !.outbound = Decodes(item.nodes[i].json)]]
<1>1. item \in Item /\ SoundItem(id, Recovered(item))
  BY DEF TypeOK, StoreInv
<1>2. \A i \in DOMAIN item.nodes : Decodes(item.nodes[i].json) = TRUE
  <2>1. \A i \in DOMAIN item.nodes : Decodes(item.nodes[i].json)
    BY DEF Loadable
  <2>2. \A json : Decodes(json) \in BOOLEAN
    BY DEF Decodes
  <2>3. QED
    BY <2>1, <2>2
<1>3. restored = recovered
  BY <1>2 DEF Restored
<1>4. Recovered(item) = [item EXCEPT !.nodes = recovered]
  BY DEF Recovered
<1>5. Recovered(item).nodes = recovered
  BY <1>1, <1>4 DEF Item
<1>6. WithSource(recovered, id) = recovered
  BY <1>1, <1>5, WithSourceAgain DEF SoundItem
<1>7. Decoded(id) = [item EXCEPT !.nodes = WithSource(restored, id)]
  BY DEF Decoded
<1>8. QED
  BY <1>3, <1>4, <1>6, <1>7

\* A command that publishes a sound subscription, or none, keeps the store and
\* memory together.
LEMMA PublishKeeps ==
  ASSUME TypeOK, StoreInv, MemoryInv, loaded, NEW id \in Ids, NEW item,
         item = Absent \/ SoundItem(id, item), Publish(id, item)
  PROVE  TypeOK' /\ StoreInv' /\ MemoryInv' /\ pool' = NodePool(items')
<1>1. /\ items' = [items EXCEPT ![id] = item]
      /\ stored' = [stored EXCEPT ![id] = IF item = Absent THEN Absent ELSE Encoded(item)]
      /\ pool' = NodePool(items')
      /\ loaded' = loaded
  BY DEF Publish, Written
<1>2. item # Absent => /\ item \in Item /\ Encoded(item) \in Item /\ Encoded(item) # Absent
                      /\ Recovered(Encoded(item)) = item
  BY EncodedIsRecovered, InputsAssumption DEF SoundItem
<1>3. TypeOK'
  BY <1>1, <1>2 DEF TypeOK
<1>4. StoreInv'
  BY <1>1, <1>2 DEF StoreInv, TypeOK
<1>5. MemoryInv'
  BY <1>1, <1>2 DEF MemoryInv, TypeOK
<1>6. QED
  BY <1>1, <1>3, <1>4, <1>5

-----------------------------------------------------------------------------
(* Exchanges *)

\* An attempt sends at least one request, at most MaxRequests, all of them by HTTPS.
LEMMA AttemptIsBounded ==
  ASSUME NEW answers \in Seq(Answers)
  PROVE  /\ Requests(answers) \in 1..MaxRequests
         /\ \A n \in 1..Requests(answers) : Target(answers, n) = "https"
<1> DEFINE Stops == {n \in 1..(Len(answers) + 1) : Ends(answers, n)}
           last == Requests(answers)
<1>1. Len(answers) \in Nat /\ MaxRequests \in Nat \ {0}
  BY ExchangeAssumption
<1>2. Len(answers) + 1 \in Stops
  <2>1. Answer(answers, Len(answers) + 1) = Lost
    BY <1>1 DEF Answer
  <2>2. Lost.kind # "redirect"
    BY DEF Lost
  <2>3. QED
    BY <1>1, <2>1, <2>2 DEF Ends
<1>3. last \in Stops /\ \A n \in Stops : last <= n
  <2>1. Stops \in SUBSET Nat /\ Stops # {}
    BY <1>1, <1>2
  <2>2. QED
    BY <2>1, MinIsLeast DEF Requests
<1>4. last \in 1..(Len(answers) + 1)
  BY <1>3
<1>5. last <= MaxRequests
  <2> SUFFICES ASSUME last > MaxRequests
               PROVE  FALSE
    BY <1>1, <1>4
  <2>1. MaxRequests \in Stops
    BY <1>1, <1>4 DEF Ends, Follows
  <2>2. QED
    BY <1>1, <1>3, <1>4, <2>1
<1>6. ASSUME NEW n \in 1..last, n # 1
      PROVE  Answer(answers, n - 1).scheme = "https"
  <2>1. n - 1 \in 1..(Len(answers) + 1) /\ ~(last <= n - 1)
    BY <1>1, <1>4, <1>6
  <2>2. ~Ends(answers, n - 1)
    BY <1>3, <2>1
  <2>3. QED
    BY <2>2 DEF Ends, Follows
<1>7. QED
  BY <1>1, <1>4, <1>5, <1>6 DEF Target

\* A fetch stays within HTTPS, its attempts and its redirects, and hands on whole
\* bodies only.
LEMMA FetchIsSound ==
  ASSUME NEW attempts \in Seq(Seq(Answers))
  PROVE  LET got == Fetch(attempts)
         IN  /\ \A request \in got.sent : request.scheme = "https"
             /\ Cardinality(got.sent) <= Tries * MaxRequests
             /\ got.kind = "document" => got.read = got.size
<1> DEFINE got == Fetch(attempts)
           answer == Final(Try(attempts, LastTry(attempts)))
<1>1. Tries \in Nat \ {0} /\ MaxRequests \in Nat \ {0} /\ MaxBody \in Nat \ {0}
  BY ExchangeAssumption DEF Tries
<1>2. \A t \in Nat \ {0} : Try(attempts, t) \in Seq(Answers)
  BY DEF Try
<1>3. LastTry(attempts) \in 1..Tries
  <2> DEFINE Ending == {t \in 1..Tries : t = Tries \/ ~Retried(Final(Try(attempts, t)))}
  <2>1. Tries \in Ending /\ Ending \in SUBSET Nat
    BY <1>1
  <2>2. Min(Ending) \in Ending
    BY <2>1, MinIsLeast
  <2>3. QED
    BY <2>2 DEF LastTry
<1>4. ASSUME NEW request \in Sent(attempts)
      PROVE  \E t \in 1..Tries : \E n \in 1..MaxRequests :
               request = [try |-> t, request |-> n, scheme |-> "https"]
  <2>1. PICK t \in 1..LastTry(attempts) : \E n \in 1..Requests(Try(attempts, t)) :
          request = [try |-> t, request |-> n, scheme |-> Target(Try(attempts, t), n)]
    BY <1>4 DEF Sent
  <2>2. t \in 1..Tries /\ t \in Nat \ {0}
    BY <1>1, <1>3
  <2>3. /\ Requests(Try(attempts, t)) \in 1..MaxRequests
        /\ \A n \in 1..Requests(Try(attempts, t)) : Target(Try(attempts, t), n) = "https"
    BY <1>2, <2>2, AttemptIsBounded
  <2>4. QED
    BY <1>1, <2>1, <2>2, <2>3
<1>5. Cardinality(Sent(attempts)) <= Tries * MaxRequests
  <2> DEFINE Slots == (1..Tries) \X (1..MaxRequests)
             slot == [request \in Sent(attempts) |-> <<request.try, request.request>>]
  <2>1. slot \in [Sent(attempts) -> Slots]
    BY <1>4
  <2>2. ASSUME NEW r \in Sent(attempts), NEW s \in Sent(attempts), slot[r] = slot[s]
        PROVE  r = s
    <3>1. r.try = s.try /\ r.request = s.request
      BY <2>2
    <3>2. QED
      BY <1>4, <3>1
  <2>3. slot \in Injection(Sent(attempts), Slots)
    BY <2>1, <2>2 DEF Injection, IsInjective
  <2>4. /\ IsFiniteSet(1..Tries) /\ Cardinality(1..Tries) = Tries
        /\ IsFiniteSet(1..MaxRequests) /\ Cardinality(1..MaxRequests) = MaxRequests
    BY <1>1, FS_Interval
  <2>5. IsFiniteSet(Slots) /\ Cardinality(Slots) = Tries * MaxRequests
    BY <2>4, FS_Product
  <2>6. QED
    BY <2>3, <2>5, FS_Injection
<1>6. got.sent = Sent(attempts) /\ got.read = Read(answer) /\ got.size = answer.size
  BY DEF Fetch
<1>7. got.kind = "document" => Read(answer) \in 1..MaxBody
  BY DEF Fetch
<1>8. got.kind = "document" => got.read = got.size
  BY <1>1, <1>6, <1>7 DEF Read
<1>9. QED
  BY <1>4, <1>5, <1>6, <1>8

-----------------------------------------------------------------------------
(* Every step keeps the invariant *)

\* The value of wire when nothing was exchanged.
LEMMA NoExchangeIsSound ==
  ASSUME wire' = NoExchange
  PROVE  WireInv'
<1>1. wire'.sent = {} /\ wire'.kind = "none"
  BY DEF NoExchange
<1>2. Cardinality({}) = 0 /\ Tries \in Nat /\ MaxRequests \in Nat
  BY FS_EmptySet, ExchangeAssumption DEF Tries
<1>3. 0 <= Tries * MaxRequests
  BY <1>2
<1>4. QED
  BY <1>1, <1>2, <1>3 DEF WireInv

\* Nothing is stored, in memory or in the pool at first.
LEMMA InitInvariant == Init => IInv
<1> SUFFICES ASSUME Init PROVE IInv
  OBVIOUS
<1>1. TypeOK /\ StoreInv /\ MemoryInv
  BY DEF Init, TypeOK, StoreInv, MemoryInv
<1>2. pool = NodePool(items)
  BY DEF Init, NodePool
<1>3. WireInv
  <2>1. wire.sent = {} /\ wire.kind = "none"
    BY DEF Init, NoExchange
  <2>2. Cardinality({}) = 0 /\ Tries \in Nat /\ MaxRequests \in Nat
    BY FS_EmptySet, ExchangeAssumption DEF Tries
  <2>3. 0 <= Tries * MaxRequests
    BY <2>2
  <2>4. QED
    BY <2>1, <2>2, <2>3 DEF WireInv
<1>4. QED
  BY <1>1, <1>2, <1>3 DEF IInv

\* What is in memory is sound.
LEMMA ItemsAreSound ==
  ASSUME IInv, NEW id \in Ids, items[id] # Absent
  PROVE  /\ loaded /\ stored[id] # Absent /\ items[id] = Recovered(stored[id])
         /\ SoundItem(id, items[id])
BY DEF IInv, StoreInv, MemoryInv

\* A new subscription.
LEMMA AddKeeps ==
  ASSUME IInv, NEW id \in Ids, NEW address \in Inputs, AddSubscription(id, address)
  PROVE  IInv'
<1>1. loaded /\ Publish(id, NewItem("https")) /\ wire' = NoExchange
  BY DEF AddSubscription, Accepts
<1>2. SoundItem(id, NewItem("https"))
  BY NewItemIsSound
<1>3. TypeOK' /\ StoreInv' /\ MemoryInv' /\ pool' = NodePool(items')
  BY <1>1, <1>2, PublishKeeps DEF IInv
<1>4. QED
  BY <1>1, <1>3, NoExchangeIsSound DEF IInv

\* A removal.
LEMMA RemoveKeeps ==
  ASSUME IInv, NEW id \in Ids, RemoveSubscription(id)
  PROVE  IInv'
<1>1. loaded /\ Publish(id, Absent) /\ wire' = NoExchange
  BY DEF RemoveSubscription
<1>2. TypeOK' /\ StoreInv' /\ MemoryInv' /\ pool' = NodePool(items')
  BY <1>1, PublishKeeps DEF IInv
<1>3. QED
  BY <1>1, <1>2, NoExchangeIsSound DEF IInv

\* A toggle.
LEMMA SetEnabledKeeps ==
  ASSUME IInv, NEW id \in Ids, NEW enabled \in BOOLEAN, SetEnabled(id, enabled)
  PROVE  IInv'
<1>1. /\ loaded /\ items[id] # Absent /\ wire' = NoExchange
      /\ Publish(id, [items[id] EXCEPT !.enabled = enabled])
  BY DEF SetEnabled
<1>2. SoundItem(id, [items[id] EXCEPT !.enabled = enabled])
  BY <1>1, ItemsAreSound, MarkedIsSound
<1>3. TypeOK' /\ StoreInv' /\ MemoryInv' /\ pool' = NodePool(items')
  BY <1>1, <1>2, PublishKeeps DEF IInv
<1>4. QED
  BY <1>1, <1>3, NoExchangeIsSound DEF IInv

\* An update, whatever the provider and the resolver answer.
LEMMA UpdateKeeps ==
  ASSUME IInv, NEW id \in Ids, NEW exchange \in Exchanges, Update(id, exchange)
  PROVE  IInv'
<1>1. loaded /\ items[id] # Absent /\ wire' = Fetched[exchange]
  BY DEF Update
<1>2. SoundItem(id, items[id])
  BY <1>1, ItemsAreSound
<1>3. \E item : SoundItem(id, item) /\ Publish(id, item)
  <2>1. CASE Publish(id, [items[id] EXCEPT !.status = "ready"])
    BY <1>2, <2>1, MarkedIsSound
  <2>2. CASE Publish(id, Failed(items[id]))
    <3>1. SoundItem(id, [items[id] EXCEPT !.status = "failed"])
      BY <1>2, MarkedIsSound
    <3>2. QED
      BY <2>2, <3>1 DEF Failed
  <2>3. CASE \E parsed \in Parsings[exchange] : \E answered \in SUBSET Known(parsed) :
               Publish(id, Filled(id, parsed, answered))
    <3>1. PICK parsed \in Parsings[exchange] : \E answered \in SUBSET Known(parsed) :
                 Publish(id, Filled(id, parsed, answered))
      BY <2>3
    <3>2. parsed \in Parse(exchange.document)
      BY <3>1 DEF Parsings
    <3>3. parsed \in Seq(Parsed) /\ \A i \in DOMAIN parsed : Sound(parsed[i])
      BY <3>2, ParseIsSound
    <3>4. PICK answered \in SUBSET Known(parsed) : Publish(id, Filled(id, parsed, answered))
      BY <3>1
    <3>5. SoundItem(id, Filled(id, parsed, answered))
      BY <1>2, <3>3, FilledIsSound
    <3>6. QED
      BY <3>4, <3>5
  <2>4. QED
    BY <2>1, <2>2, <2>3 DEF Update
<1>4. TypeOK' /\ StoreInv' /\ MemoryInv' /\ pool' = NodePool(items')
  BY <1>1, <1>3, PublishKeeps DEF IInv
<1>5. WireInv'
  <2>1. exchange.answers \in Seq(Seq(Answers))
    BY InputsAssumption
  <2>2. wire' = Fetch(exchange.answers)
    BY <1>1 DEF Fetched
  <2>3. QED
    BY <2>1, <2>2, FetchIsSound DEF WireInv
<1>6. QED
  BY <1>4, <1>5 DEF IInv

\* The end of the process leaves the store alone.
LEMMA StopKeeps ==
  ASSUME IInv, Stop
  PROVE  IInv'
<1>1. /\ loaded' = FALSE /\ items' = [id \in Ids |-> Absent] /\ pool' = {}
      /\ wire' = NoExchange /\ stored' = stored
  BY DEF Stop, Forget
<1>2. TypeOK'
  BY <1>1 DEF IInv, TypeOK
<1>3. StoreInv'
  BY <1>1 DEF IInv, StoreInv
<1>4. MemoryInv'
  BY <1>1 DEF MemoryInv
<1>5. pool' = NodePool(items')
  BY <1>1 DEF NodePool
<1>6. QED
  BY <1>1, <1>2, <1>3, <1>4, <1>5, NoExchangeIsSound DEF IInv

\* A start that succeeds recovers every subscription.
LEMMA LoadKeeps ==
  ASSUME IInv, Load
  PROVE  IInv'
<1>1. /\ loaded' = TRUE /\ items' = [id \in Ids |-> Decoded(id)]
      /\ pool' = NodePool(items') /\ UNCHANGED <<stored, wire>>
      /\ \A id \in Ids : Loadable(stored[id])
  BY DEF Load
<1>2. ASSUME NEW id \in Ids
      PROVE  /\ Decoded(id) = IF stored[id] # Absent THEN Recovered(stored[id]) ELSE Absent
             /\ Decoded(id) \in Item \cup {Absent}
  <2>1. CASE stored[id] = Absent
    BY <2>1 DEF Decoded
  <2>2. CASE stored[id] # Absent
    <3>1. Decoded(id) = Recovered(stored[id])
      BY <1>1, <2>2, DecodedIsRecovered DEF IInv
    <3>2. SoundItem(id, Recovered(stored[id]))
      BY <2>2 DEF IInv, StoreInv
    <3>3. QED
      BY <2>2, <3>1, <3>2 DEF SoundItem
  <2>3. QED
    BY <2>1, <2>2
<1>3. TypeOK'
  BY <1>1, <1>2 DEF IInv, TypeOK
<1>4. StoreInv'
  BY <1>1 DEF IInv, StoreInv
<1>5. MemoryInv'
  BY <1>1, <1>2 DEF MemoryInv
<1>6. WireInv'
  BY <1>1 DEF IInv, WireInv
<1>7. QED
  BY <1>1, <1>3, <1>4, <1>5, <1>6 DEF IInv

LEMMA StepInvariant == IInv /\ [Next]_vars => IInv'
<1> SUFFICES ASSUME IInv, [Next]_vars PROVE IInv'
  OBVIOUS
<1>1. CASE Stop
  BY <1>1, StopKeeps
<1>2. CASE Load
  BY <1>2, LoadKeeps
<1>3. ASSUME NEW id \in Ids, NEW address \in Inputs, AddSubscription(id, address)
      PROVE  IInv'
  BY <1>3, AddKeeps
<1>4. ASSUME NEW id \in Ids, RemoveSubscription(id)
      PROVE  IInv'
  BY <1>4, RemoveKeeps
<1>5. ASSUME NEW id \in Ids, NEW enabled \in BOOLEAN, SetEnabled(id, enabled)
      PROVE  IInv'
  BY <1>5, SetEnabledKeeps
<1>6. ASSUME NEW id \in Ids, NEW exchange \in Exchanges, Update(id, exchange)
      PROVE  IInv'
  BY <1>6, UpdateKeeps
<1>7. CASE UNCHANGED vars
  BY <1>7 DEF vars, IInv, TypeOK, StoreInv, MemoryInv, WireInv
<1>8. QED
  BY <1>1, <1>2, <1>3, <1>4, <1>5, <1>6, <1>7 DEF Next

\* The store, memory and the pool agree and are sound in every reachable state.
THEOREM InvariantTheorem == Spec => []IInv
BY InitInvariant, StepInvariant, PTL DEF Spec

\* Memory and the store hold subscriptions or nothing.
THEOREM TypeTheorem == Spec => []TypeOK
<1>1. IInv => TypeOK
  BY DEF IInv
<1>2. QED
  BY <1>1, InvariantTheorem, PTL

-----------------------------------------------------------------------------
(* The properties *)

\* A node of the pool is a node of a sound subscription.
LEMMA PoolNodes ==
  ASSUME IInv, NEW n \in pool
  PROVE  \E id \in Ids : /\ items[id] # Absent /\ items[id].enabled
                         /\ SoundItem(id, items[id])
                         /\ \E i \in DOMAIN items[id].nodes : n = items[id].nodes[i]
<1>1. PICK id \in Ids : /\ items[id] # Absent /\ items[id].enabled
                        /\ n \in ToSet(items[id].nodes)
  BY DEF IInv, NodePool
<1>2. SoundItem(id, items[id])
  BY <1>1, ItemsAreSound
<1>3. QED
  BY <1>1, <1>2 DEF ToSet

\* For any providers, documents and answers, an identity names one node of the pool.
THEOREM IdentityTheorem == Spec => []IdentityIsUnique
<1>1. ASSUME IInv, NEW m \in pool, NEW n \in pool, m.id = n.id
      PROVE  m = n
  <2>1. PICK id \in Ids : /\ SoundItem(id, items[id])
                          /\ \E i \in DOMAIN items[id].nodes : m = items[id].nodes[i]
    BY <1>1, PoolNodes
  <2>2. PICK jd \in Ids : /\ SoundItem(jd, items[jd])
                          /\ \E j \in DOMAIN items[jd].nodes : n = items[jd].nodes[j]
    BY <1>1, PoolNodes
  <2>3. m.id = Identity(id, m) /\ n.id = Identity(jd, n)
    BY <2>1, <2>2 DEF SoundItem, Own
  <2>4. id = jd
    BY <1>1, <2>3, IdentityNamesSubscription
  <2>5. QED
    BY <1>1, <2>1, <2>2, <2>4 DEF SoundItem, Own
<1>2. IInv => IdentityIsUnique
  BY <1>1 DEF IdentityIsUnique
<1>3. QED
  BY <1>2, InvariantTheorem, PTL

\* A sound node that is available decodes and has an endpoint.
LEMMA SoundIsUsable ==
  ASSUME NEW n, Sound(n), IsAvailable(n)
  PROVE  Decodes(n.json) /\ (n.type = "tor" \/ (n.server # "" /\ n.port \in PortNumbers))
<1>1. Decodes(n.json) /\ EndpointValid(n.json)
  BY DEF Sound, IsAvailable
<1>2. n.type = n.json.type /\ n.server = ServerOf(n.json) /\ n.port = PortOf(n.json)
  BY DEF Sound
<1>3. \/ n.type = "tor"
      \/ n.server # "" /\ n.port \in PortNumbers
  BY <1>1, <1>2 DEF EndpointValid
<1>4. QED
  BY <1>1, <1>3

\* For any documents, an available node decodes and has an endpoint.
THEOREM AvailableTheorem == Spec => []AvailableIsUsable
<1>1. ASSUME IInv, NEW n \in pool
      PROVE  Sound(n)
  BY <1>1, PoolNodes DEF SoundItem
<1>2. IInv => AvailableIsUsable
  BY <1>1, SoundIsUsable DEF AvailableIsUsable
<1>3. QED
  BY <1>2, InvariantTheorem, PTL

\* For any history of updates, a restart that succeeds brings back what was there.
THEOREM RestartTheorem == Spec => []RestartRestores
<1>1. ASSUME IInv, NEW id \in Ids, loaded, Loadable(stored[id])
      PROVE  Decoded(id) = items[id]
  <2>1. CASE stored[id] = Absent
    BY <1>1, <2>1 DEF Decoded, IInv, MemoryInv
  <2>2. CASE stored[id] # Absent
    BY <1>1, <2>2, DecodedIsRecovered DEF IInv, MemoryInv
  <2>3. QED
    BY <2>1, <2>2
<1>2. IInv => RestartRestores
  BY <1>1 DEF RestartRestores
<1>3. QED
  BY <1>2, InvariantTheorem, PTL

\* For any answers of the resolver, the endpoints are those of the pool's ready
\* nodes.
THEOREM EndpointsTheorem == Spec => []EndpointsFollowPool
<1> DEFINE Ready == {n \in pool : n.phase = "ready"}
           listed == ResolvedEndpoints(items, TRUE)
<1>1. ASSUME IInv, NEW n \in Ready, n.server \in Literals
      PROVE  n.server \in listed
  <2>1. PICK id \in Ids : /\ items[id] # Absent /\ items[id].enabled
                          /\ SoundItem(id, items[id])
                          /\ \E i \in DOMAIN items[id].nodes : n = items[id].nodes[i]
    BY <1>1, PoolNodes
  <2>2. n.server \in items[id].endpoints
    BY <1>1, <2>1 DEF SoundItem, EndpointsMatch
  <2>3. QED
    BY <2>1, <2>2 DEF ResolvedEndpoints
<1>2. ASSUME IInv, NEW address \in listed
      PROVE  \E n \in Ready : Reaches(address, n)
  <2>1. PICK id \in Ids : /\ items[id] # Absent /\ items[id].enabled
                          /\ address \in items[id].endpoints
    BY <1>2 DEF ResolvedEndpoints
  <2>2. SoundItem(id, items[id])
    BY <1>2, <2>1, ItemsAreSound
  <2>3. PICK i \in DOMAIN items[id].nodes :
          items[id].nodes[i].phase = "ready" /\ Reaches(address, items[id].nodes[i])
    BY <2>1, <2>2 DEF SoundItem, EndpointsMatch
  <2>4. items[id].nodes[i] \in pool
    BY <1>2, <2>1 DEF IInv, NodePool, ToSet
  <2>5. QED
    BY <2>3, <2>4
<1>3. IInv => EndpointsFollowPool
  BY <1>1, <1>2 DEF EndpointsFollowPool
<1>4. QED
  BY <1>3, InvariantTheorem, PTL

\* For any answers, and any numbers of retries and redirects, an exchange keeps to
\* HTTPS and its limits, and every subscription is one that Fetch accepts.
THEOREM ExchangesTheorem == Spec => []ExchangesAreSound
<1>1. IInv => ExchangesAreSound
  <2>1. ASSUME IInv, NEW id \in Ids, items[id] # Absent
        PROVE  items[id].url = "https"
    BY <2>1, ItemsAreSound DEF SoundItem
  <2>2. QED
    BY <2>1 DEF IInv, WireInv, ExchangesAreSound
<1>2. QED
  BY <1>1, InvariantTheorem, PTL

\* A document with the same settings as the one before leaves the identities alone.
THEOREM RenamingTheorem == Spec => RenamingKeepsIdentity
<1> DEFINE KeepsIdentities(id) ==
      /\ items[id] # Absent /\ items'[id] # Absent
      /\ Settings(items[id].hash) = Settings(items'[id].hash)
      => Identities(items[id]) = Identities(items'[id])
<1>1. ASSUME IInv, IInv', NEW id \in Ids
      PROVE  KeepsIdentities(id)
  <2> SUFFICES ASSUME items[id] # Absent, items'[id] # Absent,
                      Settings(items[id].hash) = Settings(items'[id].hash)
               PROVE  Identities(items[id]) = Identities(items'[id])
    OBVIOUS
  <2>1. Identities(items[id]) = {<<id, settings>> : settings \in Settings(items[id].hash)}
    BY <1>1, ItemsAreSound DEF SoundItem
  <2>2. SoundItem(id, items[id])'
    BY <1>1 DEF IInv, StoreInv, MemoryInv
  <2>3. Identities(items'[id]) = {<<id, settings>> : settings \in Settings(items'[id].hash)}
    BY <2>2 DEF SoundItem
  <2>4. QED
    BY <2>1, <2>3
<1>2. IInv /\ IInv' => [\A id \in Ids : KeepsIdentities(id)]_vars
  BY <1>1
<1>3. QED
  BY <1>2, InvariantTheorem, PTL DEF RenamingKeepsIdentity
=============================================================================
