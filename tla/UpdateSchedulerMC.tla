-------------------------- MODULE UpdateSchedulerMC --------------------------
(* What the documentation says of automatic updates, which needs to remember   *)
(* who began the last update of a subscription.                                *)
EXTENDS UpdateScheduler

VARIABLE automatic \* the subscriptions whose last update the scheduler began

Begins(id) == flight[id] = None /\ flight'[id] # None

\* A goroutine of the group waits for the update that begins.
BeginsAutomatically(id) ==
  Begins(id) /\ \E s \in Slots : slot'[s] = [pc |-> "wait", id |-> id]

Remembered ==
  {id \in Ids : IF Begins(id) THEN BeginsAutomatically(id) ELSE id \in automatic}

RememberingSpec ==
  /\ Init /\ automatic = {}
  /\ [][Next /\ automatic' = Remembered]_<<vars, automatic>>
  /\ Fairness

\* docs/GRPC.md: automatic updates have a minimum interval of five minutes.  The
\* scheduler starts no update before the minimum has passed since its last one, or
\* the retry delay when that failed.
AutomaticUpdatesRest ==
  [][\A id \in Ids :
       BeginsAutomatically(id) => rest[id] = 0 \/ id \notin automatic]_<<vars, automatic>>
=============================================================================
