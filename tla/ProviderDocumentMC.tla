------------------------- MODULE ProviderDocumentMC -------------------------
(* Small inputs for ProviderDocument: two servers, one of them written as an  *)
(* address, renamed and repeated nodes, legacy fields, broken outbounds; the  *)
(* sequences of answers at the limits of redirects, retries and body size;    *)
(* addresses at the limits of wrapping; names with one country, two or none.  *)
EXTENDS ProviderDocument, TLC

Entry ==
  [type |-> "vless", tag |-> "hong kong", server |-> "proxy.example", address |-> "",
   port |-> [kind |-> "number", value |-> 443], tls |-> {}, fingerprint |-> "",
   transport |-> FALSE, network |-> ""]

Renamed == [Entry EXCEPT !.tag = "us hk"]
Legacy == [Entry EXCEPT !.type = "trojan", !.tag = "", !.server = "10.0.0.1",
             !.tls = RemovedFields, !.fingerprint = "chrome_pq", !.transport = TRUE,
             !.port = [kind |-> "number", value |-> 8443]]
NoPort == [Entry EXCEPT !.port = [kind |-> "absent", value |-> 0], !.server = "10.0.0.2"]
Unnamed == [Entry EXCEPT !.type = "tor", !.tag = "", !.server = ""]
TextPort == [Legacy EXCEPT !.port = [kind |-> "text", value |-> 8443]]
Group == [Entry EXCEPT !.type = "selector"]

Documents ==
  {<<Group, Entry, Legacy>>, <<Legacy, Renamed, Entry>>, <<Entry, Renamed, NoPort>>,
   <<Group>>, <<Unnamed, Legacy>>, <<Entry, TextPort>>}

Whole == Body(1, TRUE)
Turns(n) == [i \in 1..n |-> Redirect("https")]

\* The answers that end without a document, and those that take more than one
\* request to one.
Refusals ==
  {<<<<Status(404)>>>>, <<<<Body(0, TRUE)>>>>, <<<<Body(1, FALSE)>>>>,
   <<<<Body(MaxBody + 1, TRUE)>>>>, <<<<Body(MaxBody + 2, TRUE)>>>>,
   [t \in 1..(Tries + 1) |-> Turns(MaxRequests + 1)]}
Detours ==
  {<<Turns(MaxRequests - 1) \o <<Whole>>>>, <<<<Status(503)>>, <<Status(429)>>, <<Whole>>>>,
   <<<<Status(500)>>, <<Lost>>, <<Status(500)>>, <<Whole>>>>, <<<<Body(MaxBody, TRUE)>>>>,
   <<<<Redirect("http"), Whole>>, <<Whole>>>>,
   <<<<Redirect("https"), Redirect("http")>>, <<Lost>>, <<Whole>>>>}

Exchange(answers, document) ==
  [answers |-> answers, document |-> document, values |-> 1]

MCExchanges ==
  {Exchange(<<<<Whole>>>>, document) : document \in Documents}
    \cup {Exchange(answers, <<Entry>>) : answers \in Refusals \cup Detours}
    \cup {Exchange(<<<<Status(304)>>>>, <<>>),
          [Exchange(<<<<Whole>>>>, <<Entry>>) EXCEPT !.values = 2]}

Links(n) == [i \in 1..n |-> "link"]
MCInputs ==
  [scheme : {"https", "http", "vmess"},
   wraps : {<<>>, <<"text">>, <<"link", "text", "encoded">>, <<"encoded", "encoded", "encoded", "encoded">>,
            Links(8), Links(10), Links(11)}]

MCTypes == {"vless", "trojan", "tor"}
MCAddresses == "proxy.example" :> {"192.0.2.1", "10.0.0.2"}
MCLiterals == {"10.0.0.1", "10.0.0.2"}

-----------------------------------------------------------------------------
\* Countries: the names above, letter by letter.

Names == INSTANCE CountryCode WITH
  Letters <- {"h", "o", "n", "g", "k", "u", "s", "t", "r", "j", "a"},
  Indicators <- {"H", "K"},
  FlagCode <- [pair \in {"H", "K"} \X {"H", "K"} |-> pair],
  Aliases <- ("HK" :> {<<"h", "k">>, <<"h", "o", "n", "g", " ", "k", "o", "n", "g">>})
             @@ ("US" :> {<<"u", "s">>}),
  Space <- " ",
  Foreign <- {}

Spelled ==
  ("hong kong" :> <<"h", "o", "n", "g", " ", "k", "o", "n", "g">>)
  @@ ("us hk" :> <<"u", "s", " ", "h", "k">>)
  @@ ("trojan" :> <<"t", "r", "o", "j", "a", "n">>)
  @@ ("tor" :> <<"t", "o", "r">>)

MCCountries == [name \in DOMAIN Spelled |-> Names!InferCountryCodes(Spelled[name])]

=============================================================================
