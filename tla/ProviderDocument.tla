-------------------------- MODULE ProviderDocument --------------------------
(***************************************************************************)
(* From a subscription's address to the node pool (src/profile, and what   *)
(* src/subscriptions does with it): the exchange that fetches a provider's *)
(* sing-box document (ProviderExchange), parsing and sanitizing outbounds, *)
(* node identity, the addresses of the servers, the encrypted store, which *)
(* keeps a node's JSON and not its typed outbound, and the start that      *)
(* decodes it again.                                                       *)
(*                                                                         *)
(* An entry of a document is a record of what the parser looks at; "" is a *)
(* field that is missing.  Hashes are modelled as injective: a node's      *)
(* identity is the tuple that is hashed.  The country of a node is any     *)
(* code CountryCode.tla allows for its name.                               *)
(***************************************************************************)
EXTENDS ProviderExchange

CONSTANTS
  Ids,          \* subscription identifiers
  Inputs,       \* the addresses users may enter
  Exchanges,    \* what the network may answer to each attempt, with the document of
                \* its bodies and how many JSON values they hold
  NodeTypes,    \* outbound types that are nodes
  CountryCodes, \* CountryCodes[name]: the codes a node of that name may get
  Addresses,    \* Addresses[server]: what the resolver answers, for the servers it knows
  Literals,     \* servers that are written as an address
  Absent        \* not a subscription

ASSUME ConstantsAssumption ==
  /\ "tor" \in NodeTypes
  /\ NodeTypes \cap {"selector", "urltest", ""} = {}
  /\ \A name \in DOMAIN CountryCodes : CountryCodes[name] # {}

\* What the parser looks at in an outbound.
Port == [kind : {"absent", "number", "text"}, value : Int]
Outbound ==
  [type : STRING, tag : STRING, server : STRING, address : STRING, port : Port,
   tls : SUBSET STRING, fingerprint : STRING, transport : BOOLEAN, network : STRING]

Country == UNION {CountryCodes[name] : name \in DOMAIN CountryCodes}

\* A node, identified within its document or by its settings.
Node(identities) ==
  [id : identities, name : STRING, country : Country, server : STRING, port : Int,
   type : STRING, phase : {"ready", "failed"}, json : Outbound, outbound : BOOLEAN]
Parsed  == Node((STRING \X STRING) \X Nat)
Sourced == Node(Ids \X Outbound)

Item ==
  [url : Schemes, nodes : Seq(Sourced), hash : Seq(Parsed), endpoints : SUBSET STRING,
   enabled : BOOLEAN, status : {"idle", "ready", "failed"}]

ASSUME InputsAssumption ==
  /\ Exchanges \subseteq
       [answers : Seq(Seq(Answers)), document : Seq(Outbound), values : Nat]
  /\ \A server \in DOMAIN Addresses : Addresses[server] \subseteq STRING
  /\ Absent \notin Item

\* The texts the code itself writes into an outbound are texts.
ASSUME TextsAssumption == {"", "chrome", "tcp"} \subseteq STRING

VARIABLES
  loaded,  \* the manager has loaded the store
  items,   \* the subscriptions in memory
  stored,  \* the subscriptions in the store
  pool,    \* NodePool of the last snapshot
  wire     \* the last exchange

vars == <<loaded, items, stored, pool, wire>>

-----------------------------------------------------------------------------
(* Parsing *)

IsNode(entry) == entry.type \in NodeTypes

NameOf(entry) == IF entry.tag = "" THEN entry.type ELSE entry.tag

ASSUME NamesAssumption ==
  \A exchange \in Exchanges : \A i \in DOMAIN exchange.document :
    NameOf(exchange.document[i]) \in DOMAIN CountryCodes

\* valueFrom: the first of two spellings of a field.
ServerOf(entry) == IF entry.server # "" THEN entry.server ELSE entry.address

\* toInt: text that holds a number is read as one, anything else is 0.
PortOf(entry) ==
  IF entry.port.kind \in {"number", "text"} THEN entry.port.value ELSE 0

RemovedFields == {"alpn", "pq_signature_schemes_enabled", "dynamic_record_sizing_disabled"}

RemovedFingerprints == {"chrome_psk", "chrome_psk_shuffle",
  "chrome_padding_psk_shuffle", "chrome_pq", "chrome_pq_psk"}

\* sanitizeOutboundJSON: fields that sing-box no longer knows, or that
\* TargetLib sets itself, are taken out before the outbound is decoded.
Sanitize(entry) ==
  [entry EXCEPT
    !.tls = @ \ RemovedFields,
    !.fingerprint = IF @ \in RemovedFingerprints THEN "chrome" ELSE @,
    !.network = IF entry.type = "trojan" /\ entry.transport /\ @ = "" THEN "tcp" ELSE @]

PortNumbers == 1..65535

\* sing-box decodes an outbound it knows every field of, whose port is a number
\* of 16 bits.
Decodes(json) ==
  /\ json.address = ""
  /\ json.tls \cap RemovedFields = {}
  /\ \/ json.port.kind = "absent"
     \/ json.port.kind = "number" /\ json.port.value \in {0} \cup PortNumbers

EndpointMutant(entry) == ServerOf(entry) # ""

\* requiresServerEndpoint
EndpointValid(entry) ==
  \/ entry.type = "tor"
  \/ ServerOf(entry) # "" /\ PortOf(entry) \in PortNumbers

PhaseOf(entry) ==
  IF Decodes(Sanitize(entry)) /\ EndpointValid(entry) THEN "ready" ELSE "failed"

\* The identity of a node within its document; a name that is repeated is
\* numbered.
DocumentId(nodes, i) ==
  LET key == <<nodes[i].type, NameOf(nodes[i])>>
      Before == {j \in 1..(i - 1) : <<nodes[j].type, NameOf(nodes[j])>> = key}
  IN  <<key, Cardinality(Before) + 1>>

\* outbound: the typed outbound is there.
NodeOf(nodes, i, country) ==
  LET entry == nodes[i]
  IN  [id |-> DocumentId(nodes, i), name |-> NameOf(entry), country |-> country,
       server |-> ServerOf(entry), port |-> PortOf(entry),
       type |-> entry.type, phase |-> PhaseOf(entry),
       json |-> Sanitize(entry), outbound |-> Decodes(Sanitize(entry))]

\* decodeJSONNumber: a body is one JSON value, nothing comes after it.
IsDocument(values) == values = 1

\* The entries that are nodes, in the order of the document.
NodeEntries(document) ==
  LET Places == {i \in DOMAIN document : IsNode(document[i])}
  IN  [k \in 1..Cardinality(Places) |->
        document[CHOOSE i \in Places : Cardinality({j \in Places : j <= i}) = k]]

\* The results of Parse: one for each choice of country codes, none when the
\* document has no usable outbound.
Parse(document) ==
  LET nodes == NodeEntries(document)
      Names == {NameOf(nodes[i]) : i \in DOMAIN nodes}
      Codes == {c \in [Names -> UNION {CountryCodes[name] : name \in Names}] :
                    \A name \in Names : c[name] \in CountryCodes[name]}
  IN  IF nodes = <<>> THEN {}
      ELSE {[i \in DOMAIN nodes |-> NodeOf(nodes, i, c[NameOf(nodes[i])])] : c \in Codes}

-----------------------------------------------------------------------------
(* Identity *)

IdentityMutant(id, node) == <<id, node.json>>
OwnerMutant(id, node) == <<[node.json EXCEPT !.tag = ""]>>

\* A node is identified by its subscription and its connection settings.
Identity(id, node) == <<id, [node.json EXCEPT !.tag = ""]>>

\* WithSource: nodes with the same settings are one node, the first of them;
\* the result is ordered by the hash of the identity, an arbitrary order.
WithSource(nodes, id) ==
  SetToSeq({[nodes[i] EXCEPT !.id = Identity(id, nodes[i])] :
    i \in {j \in DOMAIN nodes :
             \A k \in 1..(j - 1) : Identity(id, nodes[k]) # Identity(id, nodes[j])}})

IsAvailable(node) == node.outbound /\ node.phase # "failed"

\* NodePool: the nodes of the enabled subscriptions.
NodePool(subscriptions) ==
  UNION {ToSet(subscriptions[id].nodes) :
           id \in {i \in Ids : subscriptions[i] # Absent /\ subscriptions[i].enabled}}

EndpointsMutant(nodes, resolved) == UNION {resolved[s] : s \in DOMAIN resolved}

Lookups(nodes) ==
  {nodes[i].server : i \in {j \in DOMAIN nodes : nodes[j].phase = "ready"}}
    \ (Literals \cup {""})

Known(nodes) == Lookups(nodes) \cap DOMAIN Addresses

\* ResolveEndpoints: the address of every ready node; a lookup that fails, or
\* is cancelled, is left out without an error.
Endpoints(nodes, resolved) ==
  {nodes[i].server : i \in {j \in DOMAIN nodes :
      nodes[j].phase = "ready" /\ nodes[j].server \in Literals}}
    \cup UNION {resolved[s] : s \in DOMAIN resolved}

\* What the platform is told to keep out of its tunnel.
ResolvedEndpoints(subscriptions, enabledOnly) ==
  UNION {subscriptions[id].endpoints :
           id \in {i \in Ids : subscriptions[i] # Absent
                                /\ (enabledOnly => subscriptions[i].enabled)}}

-----------------------------------------------------------------------------
(* The store *)

\* What cbor keeps: the typed outbound is not part of the record.
Encoded(item) ==
  [item EXCEPT !.nodes = [i \in DOMAIN @ |-> [@[i] EXCEPT !.outbound = FALSE]]]

\* Put, Delete
Written(id, item) ==
  [stored EXCEPT ![id] = IF item = Absent THEN Absent ELSE Encoded(item)]

\* RestoreNodeOutbound fails for JSON that does not decode, and Load with it.
Loadable(item) ==
  item # Absent => \A i \in DOMAIN item.nodes : Decodes(item.nodes[i].json)

RestoredMutant(node) == [node EXCEPT !.outbound = TRUE, !.phase = "ready"]

Restored(node) == [node EXCEPT !.outbound = TRUE]

Decoded(id) ==
  IF stored[id] = Absent THEN Absent
  ELSE [stored[id] EXCEPT !.nodes =
          WithSource([i \in DOMAIN @ |-> Restored(@[i])], id)]

-----------------------------------------------------------------------------
(* The manager *)

NewItem(url) ==
  [url |-> url, nodes |-> <<>>, hash |-> <<>>, endpoints |-> {}, enabled |-> TRUE,
   status |-> "idle"]

NoExchange == [kind |-> "none", sent |-> {}, read |-> 0, size |-> 0]

Init ==
  /\ loaded = FALSE
  /\ items = [id \in Ids |-> Absent]
  /\ stored = [id \in Ids |-> Absent]
  /\ pool = {}
  /\ wire = NoExchange

\* A command that is stored and published; readers take the pool from the new
\* snapshot.
Publish(id, item) ==
  /\ items' = [items EXCEPT ![id] = item]
  /\ stored' = Written(id, item)
  /\ pool' = NodePool(items')
  /\ UNCHANGED loaded

AddSubscription(id, address) ==
  /\ loaded
  /\ items[id] = Absent
  /\ Accepts(address)
  /\ Publish(id, NewItem(address.scheme))
  /\ wire' = NoExchange

RemoveSubscription(id) ==
  /\ loaded
  /\ items[id] # Absent
  /\ Publish(id, Absent)
  /\ wire' = NoExchange

SetEnabled(id, enabled) ==
  /\ loaded
  /\ items[id] # Absent
  /\ Publish(id, [items[id] EXCEPT !.enabled = enabled])
  /\ wire' = NoExchange

\* The document is not there or cannot be parsed: the nodes stay.
Failed(item) == [item EXCEPT !.status = "failed"]

\* The nodes a document yields, with the addresses the resolver knows now.
Filled(id, parsed, answered) ==
  [items[id] EXCEPT
    !.nodes = WithSource(parsed, id),
    !.hash = parsed,
    !.endpoints = Endpoints(parsed, [s \in answered |-> Addresses[s]]),
    !.status = "ready"]

\* What each exchange comes to.
Fetched == [exchange \in Exchanges |-> Fetch(exchange.answers)]
Parsings == [exchange \in Exchanges |->
  IF Fetched[exchange].kind = "document" /\ IsDocument(exchange.values)
  THEN Parse(exchange.document) ELSE {}]

\* Fetch sends nothing to an address that is not HTTPS.  A 304 is accepted whatever
\* the subscription holds.
Update(id, exchange) ==
  LET got == Fetched[exchange]
      parsings == Parsings[exchange]
  IN  /\ loaded
      /\ items[id] # Absent /\ items[id].url = "https"
      /\ wire' = got
      /\ \/ /\ got.kind = "notModified"
            /\ Publish(id, [items[id] EXCEPT !.status = "ready"])
         \/ /\ got.kind # "notModified" /\ parsings = {}
            /\ Publish(id, Failed(items[id]))
         \/ \E parsed \in parsings : \E answered \in SUBSET Known(parsed) :
              Publish(id, Filled(id, parsed, answered))

\* The snapshot goes with the process.
Forget == pool' = {}

\* The process ends, in order or not: only the store is left.
Stop ==
  /\ loaded
  /\ loaded' = FALSE
  /\ items' = [id \in Ids |-> Absent]
  /\ Forget
  /\ wire' = NoExchange
  /\ UNCHANGED stored

\* Load: one subscription that cannot be decoded fails the start.
Load ==
  /\ ~loaded
  /\ \A id \in Ids : Loadable(stored[id])
  /\ loaded' = TRUE
  /\ items' = [id \in Ids |-> Decoded(id)]
  /\ pool' = NodePool(items')
  /\ UNCHANGED <<stored, wire>>

Next ==
  \/ Stop
  \/ Load
  \/ \E id \in Ids :
       \/ \E address \in Inputs : AddSubscription(id, address)
       \/ RemoveSubscription(id)
       \/ \E enabled \in BOOLEAN : SetEnabled(id, enabled)
       \/ \E exchange \in Exchanges : Update(id, exchange)

Spec == Init /\ [][Next]_vars
-----------------------------------------------------------------------------
(* Properties *)

\* A node identity chosen for a service names one node, also when two providers,
\* or two entries of one, offer the same server.
IdentityIsUnique == \A m, n \in pool : m.id = n.id => m = n

\* A node offered for selection is one sing-box can be started with: it decodes,
\* after the fields that were removed are gone, and has an endpoint.
AvailableIsUsable ==
  \A n \in pool : IsAvailable(n) =>
    /\ Decodes(n.json)
    /\ n.type = "tor" \/ (n.server # "" /\ n.port \in PortNumbers)

\* A restart that succeeds brings back every subscription as it was: the same
\* identities, the same nodes available, no failed node revived.
RestartRestores ==
  \A id \in Ids :
    loaded /\ Loadable(stored[id]) => Decoded(id) = items[id]

Settings(nodes) == {[nodes[i].json EXCEPT !.tag = ""] : i \in DOMAIN nodes}
Identities(item) == {item.nodes[i].id : i \in DOMAIN item.nodes}

\* A document that only renames, reorders or repeats its outbounds leaves every
\* identity alone, so that a fixed node that was chosen stays chosen.
RenamingKeepsIdentity ==
  [][\A id \in Ids :
       /\ items[id] # Absent /\ items'[id] # Absent
       /\ Settings(items[id].hash) = Settings(items'[id].hash)
       => Identities(items[id]) = Identities(items'[id])]_vars

\* An address is the literal server of a node, or was answered for its server.
Reaches(address, n) ==
  \/ address = n.server /\ n.server \in Literals
  \/ n.server \in DOMAIN Addresses \ Literals /\ address \in Addresses[n.server]

\* Whatever the resolver answers and whichever subscriptions fail, are turned off
\* or removed, the list the platform keeps out of its tunnel holds the server of
\* every node of the pool that is ready and written as an address, and nothing that
\* does not lead to a ready node of the pool.
EndpointsFollowPool ==
  LET Ready  == {n \in pool : n.phase = "ready"}
      listed == ResolvedEndpoints(items, TRUE)
  IN  /\ \A n \in Ready : n.server \in Literals => n.server \in listed
      /\ \A address \in listed : \E n \in Ready : Reaches(address, n)

\* Whatever redirects and failures a provider answers with, an update sends
\* nothing in clear and no more requests than its attempts and redirects allow,
\* and parses a document as it was sent or not at all; and what AddRequest
\* accepts, however it was wrapped, Fetch accepts, so that no subscription is
\* listed that could never be updated.
ExchangesAreSound ==
  /\ \A request \in wire.sent : request.scheme = "https"
  /\ Cardinality(wire.sent) <= Tries * MaxRequests
  /\ wire.kind = "document" => wire.read = wire.size
  /\ \A id \in Ids : items[id] # Absent => items[id].url = "https"

\* docs/DESIGN.md: the platform restarts the service and the last configuration
\* is restored.  What is stored can always be loaded.
StoredCanBeLoaded == \A id \in Ids : Loadable(stored[id])

=============================================================================
