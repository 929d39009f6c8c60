-------------------------- MODULE LedgerRefinement --------------------------
(***************************************************************************)
(* The ledger implements the abstract account.  A hold is the reservation  *)
(* row; the abstract totals are the counters because the books balance.    *)
(***************************************************************************)
EXTENDS LedgerProofs

\* The abstract totals are the counters of the account.
LEMMA TotalsAreCounters ==
  ASSUME IInv, NEW t \in Tenants
  PROVE  Promise!Held(t) = account[t].reserved /\ Promise!Spent(t) = account[t].settled
<1>1. Promise!In(t, "reserved") = Rows(t, "reserved") /\ Promise!In(t, "settled") = Rows(t, "settled")
  BY DEF Promise!In, Rows
<1>2. /\ account[t].reserved = Total(Rows(t, "reserved"), Amount)
      /\ account[t].settled = Total(Rows(t, "settled"), Settled) + adjusted[t]
  BY DEF IInv, Books, BudgetConserved
<1>0. ASSUME NEW S, NEW f PROVE Promise!Total(S, f) = Total(S, f)
  BY DEF Promise!Total, Promise!Units, Promise!Cardinality, Total, Units, Cardinality
<1>3. Promise!Held(t) = Total(Rows(t, "reserved"), Amount)
  BY <1>0, <1>1, Zenon DEF Promise!Held, Amount
<1>4. Promise!Spent(t) = Total(Rows(t, "settled"), Settled) + adjusted[t]
  BY <1>0, <1>1, Zenon DEF Promise!Spent, Settled
<1> QED BY <1>2, <1>3, <1>4

\* A committed begin_attempt is a hold on the account.
LEMMA RefineCommit ==
  ASSUME IInv, NEW a \in Attempts, begin_attempt_commit(a)
  PROVE  Promise!Next
<1> DEFINE t == request[attempt[a].request].tenant
           m == attempt[a].estimate
<1>1. t \in Tenants /\ m \in Estimates /\ reservation[a].state = "none"
  BY DEF IInv, Shape, Linked, AttemptMatchesReservation, begin_attempt_commit
<1>2. account[t].reserved + m <= MaxMicrounits
  BY DEF begin_attempt_commit, WithinLimit
<1>3. account[t].limit # NoLimit => account[t].settled + account[t].reserved + m <= account[t].limit
  BY DEF begin_attempt_commit, WithinLimit
<1>4. reservation' = [reservation EXCEPT ![a] =
        [state |-> "reserved", tenant |-> t, amount |-> m, settled |-> 0]]
  BY DEF begin_attempt_commit
<1>5. [q \in Tenants |-> account[q].limit]' = [q \in Tenants |-> account[q].limit]
      /\ adjusted' = adjusted
  BY DEF IInv, Shape, TypeOK, Accounts, begin_attempt_commit
<1>6. [q \in Tenants |-> account[q].limit][t] = account[t].limit
  BY <1>1
<1> HIDE DEF t, m
<1>7. Promise!Reserve(a, t, m)
  BY <1>1, <1>2, <1>3, <1>4, <1>5, <1>6, TotalsAreCounters DEF Promise!Reserve
<1> QED BY <1>1, <1>7 DEF Promise!Next

\* finalize_attempt is a settlement of the attempt's hold.
LEMMA RefineSettle ==
  ASSUME IInv, NEW a \in Attempts, NEW o \in Terminal, NEW c \in Costs, finalize_attempt(a, o, c)
  PROVE  Promise!Next
<1> DEFINE t == reservation[a].tenant
<1>1. t \in Tenants /\ reservation[a].state = "reserved" /\ reservation[a] \in ReservationRows
  BY DEF IInv, Shape, TypeOK, Linked, finalize_attempt, settle_budget
<1>2. account[t].settled + c <= MaxMicrounits
  BY DEF finalize_attempt, settle_budget
<1>3. reservation' = [reservation EXCEPT ![a].state = "settled", ![a].settled = c]
  <2>1. reservation' = [reservation EXCEPT ![a] =
          [reservation[a] EXCEPT !.state = "settled", !.settled = c]]
    BY DEF finalize_attempt, settle_budget
  <2> QED BY <2>1 DEF IInv, Shape, TypeOK, ReservationRows
<1>4. [q \in Tenants |-> account[q].limit]' = [q \in Tenants |-> account[q].limit]
  <2>1. ASSUME NEW q \in Tenants PROVE account'[q].limit = account[q].limit
    <3>1. account'[q] = IF q = t THEN [account[t] EXCEPT !.reserved = account[t].reserved - reservation[a].amount,
                                                        !.settled = account[t].settled + c]
                        ELSE account[q]
      BY <1>1 DEF IInv, Shape, TypeOK, finalize_attempt, settle_budget
    <3>2. account[q] \in Accounts
      BY DEF IInv, Shape, TypeOK
    <3> QED BY <3>1, <3>2 DEF Accounts
  <2> QED BY <2>1
<1>5. adjusted' = adjusted
  BY DEF finalize_attempt
<1>6. Promise!Settle(a, c)
  BY <1>1, <1>2, <1>3, <1>4, <1>5, TotalsAreCounters DEF Promise!Settle
<1> QED BY <1>6 DEF Promise!Next

\* reconcile_expired releases a set of holds at once.
LEMMA RefineReconcile ==
  ASSUME IInv, reconcile_rows, adjusted' = adjusted
  PROVE  Promise!Next
<1> DEFINE S == {a \in ExpiredAttempts : reservation[a].state = "reserved"}
<1>1. S \in SUBSET Attempts /\ \A a \in S : reservation[a].state = "reserved"
  BY DEF ExpiredAttempts
<1>2. reservation' = [a \in Attempts |->
        IF a \in S THEN [reservation[a] EXCEPT !.state = "released"] ELSE reservation[a]]
  <2>1. reservation' = [a \in Attempts |-> reservation'[a]]
    BY DEF reconcile_rows
  <2>2. ASSUME NEW a \in Attempts
        PROVE  reservation'[a] =
          IF a \in S THEN [reservation[a] EXCEPT !.state = "released"] ELSE reservation[a]
    BY ReconcileReservation
  <2> HIDE DEF S
  <2> QED BY <2>1, <2>2
<1>3. [q \in Tenants |-> account[q].limit]' = [q \in Tenants |-> account[q].limit]
  <2>1. ASSUME NEW q \in Tenants PROVE account'[q].limit = account[q].limit
    <3>1. account'[q] =
            [account[q] EXCEPT !.reserved = account[q].reserved - Total(Released(q), Amount)]
      BY DEF reconcile_rows
    <3>2. account[q] \in Accounts
      BY DEF IInv, Shape, TypeOK
    <3> QED BY <3>1, <3>2 DEF Accounts
  <2> QED BY <2>1
<1> HIDE DEF S
<1>4. Promise!Release(S)
  BY <1>1, <1>2, <1>3 DEF Promise!Release
<1> QED BY <1>1, <1>4 DEF Promise!Next

\* update_budget sets the limit of the account.
LEMMA RefineUpdate ==
  ASSUME IInv, NEW t \in Tenants, NEW l \in Limits \cup {NoLimit}, update_budget(t, l)
  PROVE  Promise!Next
<1>1. [q \in Tenants |-> account[q].limit]' = [[q \in Tenants |-> account[q].limit] EXCEPT ![t] = l]
  BY DEF IInv, Shape, TypeOK, Accounts, update_budget
<1>2. reservation' = reservation /\ adjusted' = adjusted
  BY DEF update_budget
<1>3. Promise!SetLimit(t, l)
  BY <1>1, <1>2 DEF Promise!SetLimit
<1> QED BY <1>3 DEF Promise!Next

\* adjust_budget is an administrator's correction of the account.
LEMMA RefineAdjust ==
  ASSUME IInv, NEW t \in Tenants, NEW d \in Deltas, adjust_budget(t, d)
  PROVE  Promise!Next
<1>1. [q \in Tenants |-> account[q].limit]' = [q \in Tenants |-> account[q].limit]
  BY DEF IInv, Shape, TypeOK, Accounts, adjust_budget
<1>2. /\ reservation' = reservation /\ adjusted' = [adjusted EXCEPT ![t] = adjusted[t] + d]
      /\ account[t].settled + d \in 0..MaxMicrounits
  BY DEF adjust_budget
<1>3. Promise!Adjust(t, d)
  BY <1>1, <1>2, TotalsAreCounters DEF Promise!Adjust
<1> QED BY <1>3 DEF Promise!Next

\* Every step of the ledger is a step of the abstract account or leaves it as
\* it was.
LEMMA RefineNext == IInv /\ [Next]_vars => [Promise!Next]_(Promise!vars)
<1> SUFFICES ASSUME IInv, [Next]_vars PROVE [Promise!Next]_(Promise!vars)
  OBVIOUS
<1>1. ASSUME reservation' = reservation, account' = account, adjusted' = adjusted
      PROVE  [Promise!Next]_(Promise!vars)
  BY <1>1 DEF Promise!vars
<1>2. CASE DataPlane
  BY <1>1, <1>2, RefineCommit, RefineSettle
  DEF DataPlane, begin_request, begin_attempt_insert, begin_attempt_rollback,
      finalize_request, renew_lease
<1>3. CASE Operator
  BY <1>1, <1>3, RefineReconcile, RefineUpdate, RefineAdjust
  DEF Operator, reconcile_expired, start, crash
<1>4. CASE tick
  BY <1>1, <1>4 DEF tick
<1>5. CASE UNCHANGED vars
  BY <1>1, <1>5 DEF vars
<1> QED BY <1>2, <1>3, <1>4, <1>5 DEF Next

\* The ledger keeps the promise of the abstract account: with counters,
\* leases, crashes and reconcilers it admits, settles and releases exactly as
\* if every decision were taken on the exact sums.
THEOREM Refinement == Spec => KeepsPromise
<1>1. Init => Promise!Init
  BY DEF Init, Promise!Init, Promise!Free, NoReservation
<1> QED BY <1>1, RefineNext, Invariant, PTL DEF Spec, KeepsPromise, Promise!Spec
=============================================================================
