------------------------------ MODULE Exchange ------------------------------
(***************************************************************************)
(* What a tunnel promises the client of a request, whatever happens on the *)
(* way: the upstream runs it at most once, and what the client gets as the *)
(* answer is the outcome of that run.  A failed request may have run, may  *)
(* still run, or may never run.                                            *)
(***************************************************************************)
EXTENDS Naturals

CONSTANT Requests

VARIABLES
    outcome,   \* what the client has seen of each request
    runs       \* how often the upstream has run it

exchangeVars == <<outcome, runs>>

ExchangeInit ==
    /\ outcome = [d \in Requests |-> "none"]
    /\ runs = [d \in Requests |-> 0]

Submit(d) ==
    /\ outcome[d] = "none"
    /\ outcome' = [outcome EXCEPT ![d] = "pending"]
    /\ UNCHANGED runs

Run(d) ==
    /\ outcome[d] # "none" /\ runs[d] = 0
    /\ runs' = [runs EXCEPT ![d] = 1]
    /\ UNCHANGED outcome

Answer(d) ==
    /\ outcome[d] = "pending" /\ runs[d] = 1
    /\ outcome' = [outcome EXCEPT ![d] = "answered"]
    /\ UNCHANGED runs

(* A request fails at once, or later.  When tunneld dies, all of them do.  *)
Fail(D) ==
    /\ \A d \in D : outcome[d] \in {"none", "pending"}
    /\ outcome' = [d \in Requests |-> IF d \in D THEN "failed" ELSE outcome[d]]
    /\ UNCHANGED runs

ExchangeNext ==
    \/ \E d \in Requests : Submit(d) \/ Run(d) \/ Answer(d)
    \/ \E D \in SUBSET Requests : Fail(D)

ExchangeSpec == ExchangeInit /\ [][ExchangeNext]_exchangeVars
=============================================================================
