-------------------------- MODULE SubscriptionsMC --------------------------
(* Small instances of Subscriptions for TLC. *)
EXTENDS Subscriptions, TLC

\* Handlers and pipelines are interchangeable.
Symmetry == Permutations(Callers) \cup Permutations(Flights)
=============================================================================
