---------------------------- MODULE BudgetAccount ----------------------------
(***************************************************************************)
(* What the ledger promises about a tenant's money, with no counters, rows *)
(* of requests, leases, processes or transactions: every attempt takes at  *)
(* most one hold, a hold is admitted against everything held and spent so  *)
(* far, and it ends once, either settled at a cost or released for free.   *)
(***************************************************************************)
EXTENDS Money

CONSTANTS Tenants, Attempts, Estimates, Costs, Limits, Deltas, MaxMicrounits, NoLimit, None

VARIABLES hold, limit, adjusted

vars == <<hold, limit, adjusted>>

Free == [state |-> "none", tenant |-> None, amount |-> 0, settled |-> 0]

In(t, s) == {a \in Attempts : hold[a].tenant = t /\ hold[a].state = s}

Held(t) == Total(In(t, "reserved"), [a \in Attempts |-> hold[a].amount])

Spent(t) == Total(In(t, "settled"), [a \in Attempts |-> hold[a].settled]) + adjusted[t]

Init ==
  /\ hold = [a \in Attempts |-> Free]
  /\ limit = [t \in Tenants |-> NoLimit]
  /\ adjusted = [t \in Tenants |-> 0]

Reserve(a, t, amount) ==
  /\ hold[a].state = "none"
  /\ Held(t) + amount <= MaxMicrounits
  /\ limit[t] # NoLimit => Spent(t) + Held(t) + amount <= limit[t]
  /\ hold' = [hold EXCEPT ![a] =
       [state |-> "reserved", tenant |-> t, amount |-> amount, settled |-> 0]]
  /\ UNCHANGED <<limit, adjusted>>

Settle(a, cost) ==
  /\ hold[a].state = "reserved"
  /\ Spent(hold[a].tenant) + cost <= MaxMicrounits
  /\ hold' = [hold EXCEPT ![a].state = "settled", ![a].settled = cost]
  /\ UNCHANGED <<limit, adjusted>>

Release(S) ==
  /\ \A a \in S : hold[a].state = "reserved"
  /\ hold' = [a \in Attempts |->
       IF a \in S THEN [hold[a] EXCEPT !.state = "released"] ELSE hold[a]]
  /\ UNCHANGED <<limit, adjusted>>

SetLimit(t, l) ==
  /\ limit' = [limit EXCEPT ![t] = l]
  /\ UNCHANGED <<hold, adjusted>>

Adjust(t, delta) ==
  /\ Spent(t) + delta \in 0..MaxMicrounits
  /\ adjusted' = [adjusted EXCEPT ![t] = @ + delta]
  /\ UNCHANGED <<hold, limit>>

Next ==
  \/ \E a \in Attempts, t \in Tenants, m \in Estimates : Reserve(a, t, m)
  \/ \E a \in Attempts, c \in Costs : Settle(a, c)
  \/ \E S \in SUBSET Attempts : Release(S)
  \/ \E t \in Tenants, l \in Limits \cup {NoLimit} : SetLimit(t, l)
  \/ \E t \in Tenants, d \in Deltas : Adjust(t, d)

Spec == Init /\ [][Next]_vars
=============================================================================
