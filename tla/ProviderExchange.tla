-------------------------- MODULE ProviderExchange --------------------------
(***************************************************************************)
(* The address a user gives for a subscription, and the exchange that      *)
(* fetches it: NormalizeSubscriptionURL and HTTPFetcher.Fetch, with the    *)
(* HTTP client's redirects and the retries, as functions of what the user  *)
(* entered and of what the network answers, attempt by attempt and request *)
(* by request.                                                             *)
(*                                                                         *)
(* An address is a scheme, wrapped from outside to inside in import links  *)
(* (clash://...?url=), percent encodings or surrounding text.              *)
(***************************************************************************)
EXTENDS Integers, SequencesExt

CONSTANTS
  Retries,      \* attempts after the first one
  MaxRequests,  \* requests of one attempt, redirects included
  MaxBody       \* MaxBodyBytes, in units of the sizes below

ASSUME ExchangeAssumption ==
  /\ Retries \in Nat
  /\ MaxRequests \in Nat \ {0}
  /\ MaxBody \in Nat \ {0}

-----------------------------------------------------------------------------
(* Addresses *)

MaxDepth == 8
Decodings == 0..2

Schemes == {"http", "https"}

Suffix(wraps, k) == SubSeq(wraps, k, Len(wraps))

\* How many times the address inside is percent-encoded.
Level(wraps) == Cardinality({i \in DOMAIN wraps : wraps[i] \in {"link", "encoded"}})

\* extractEmbeddedURL: after up to two decodings, an address that is still
\* encoded once is normalized one level deeper, a plain one is taken.
Embedded(wraps, depth) ==
  \E i \in Decodings :
    \/ Level(wraps) = i + 1 /\ depth < MaxDepth
    \/ Level(wraps) = i

\* NormalizeSubscriptionURL follows links down to MaxDepth; the rest is an
\* address, or text in which one is found.
Normalizes(wraps) ==
  \E k \in 1..(Len(wraps) + 1) :
    /\ k - 1 <= MaxDepth
    /\ \A i \in 1..(k - 1) : wraps[i] = "link"
    /\ k = Len(wraps) + 1 \/ Embedded(Suffix(wraps, k), k - 1)

\* AddRequest: the address that was found must be an HTTPS address.
Accepts(address) ==
  /\ address.scheme \in Schemes
  /\ Normalizes(address.wraps)
  /\ address.scheme = "https"

-----------------------------------------------------------------------------
(* Requests and answers *)

Answers == [kind : {"lost", "redirect", "status"}, scheme : STRING, status : Nat,
            size : Nat, whole : BOOLEAN]

Lost == [kind |-> "lost", scheme |-> "", status |-> 0, size |-> 0, whole |-> FALSE]
Redirect(scheme) == [Lost EXCEPT !.kind = "redirect", !.scheme = scheme]
Status(code) == [Lost EXCEPT !.kind = "status", !.status = code]

\* whole: the connection lasts to the end of the body.
Body(size, whole) ==
  [Lost EXCEPT !.kind = "status", !.status = 200, !.size = size, !.whole = whole]

FollowsMutant(scheme, n) == n < MaxRequests

\* secureRedirectPolicy, for the redirect that answers the n-th request.
Follows(scheme, n) == n < MaxRequests /\ scheme = "https"

\* The answer to the n-th request of an attempt; answers that run out are lost.
Answer(answers, n) == IF n <= Len(answers) THEN answers[n] ELSE Lost

\* An attempt ends with the first answer that is no redirect, or is one that is
\* not followed: an error then.
Ends(answers, n) ==
  Answer(answers, n).kind = "redirect" => ~Follows(Answer(answers, n).scheme, n)

\* The requests of an attempt, and its final answer.
Requests(answers) == Min({n \in 1..(Len(answers) + 1) : Ends(answers, n)})
Final(answers) ==
  LET last == Answer(answers, Requests(answers))
  IN  IF last.kind = "redirect" THEN Lost ELSE last

\* Where the n-th request goes: to the address, then where it is redirected.
Target(answers, n) == IF n = 1 THEN "https" ELSE Answer(answers, n - 1).scheme

Tries == Retries + 1

\* The retry condition.
Retried(answer) ==
  answer.kind = "lost" \/ answer.status = 429 \/ answer.status >= 500

\* The client's Get: attempts until one is not retried.
Try(attempts, t) == IF t <= Len(attempts) THEN attempts[t] ELSE <<>>
LastTry(attempts) ==
  Min({t \in 1..Tries : t = Tries \/ ~Retried(Final(Try(attempts, t)))})
Sent(attempts) ==
  UNION {{[try |-> t, request |-> n, scheme |-> Target(Try(attempts, t), n)] :
            n \in 1..Requests(Try(attempts, t))} : t \in 1..LastTry(attempts)}

\* The body is read up to one byte beyond the limit.
Read(answer) == IF answer.size <= MaxBody THEN answer.size ELSE MaxBody + 1

\* What Fetch makes of the answers to each attempt.
Fetch(attempts) ==
  LET answer == Final(Try(attempts, LastTry(attempts)))
      kind == IF answer.kind = "lost" THEN "failed"
              ELSE IF answer.status = 304 THEN "notModified"
              ELSE IF /\ answer.status \in 200..299
                      /\ answer.whole
                      /\ Read(answer) \in 1..MaxBody
                   THEN "document" ELSE "failed"
  IN  [kind |-> kind, sent |-> Sent(attempts), read |-> Read(answer), size |-> answer.size]

=============================================================================
