---------------------------- MODULE LedgerProofs ----------------------------
(***************************************************************************)
(* Proofs about the ledger for any tenants, processes, requests, amounts   *)
(* and lease duration, and any finite set of attempts.                     *)
(***************************************************************************)
EXTENDS Ledger, MoneyTheorems

\* Rows that exist refer to rows that exist, as the foreign keys of the
\* migrations require.
Linked ==
  /\ \A r \in Requests : request[r].state # "absent" =>
       request[r].tenant \in Tenants /\ request[r].owner \in Instances
  /\ \A a \in Attempts : attempt[a].state # "absent" =>
       /\ attempt[a].request \in Requests
       /\ request[attempt[a].request].state # "absent"
       /\ attempt[a].owner \in Instances
       /\ attempt[a].estimate \in Estimates
  /\ \A a \in Attempts : attempt[a].state \notin Terminal => attempt[a].billing = "none"
  /\ \A a \in Attempts : reservation[a].state # "none" => reservation[a].tenant \in Tenants

Shape == TypeOK /\ Linked

USE DEF Terminal

\* An empty ledger has well-formed, linked rows.
LEMMA InitShape == Init => Shape
<1> SUFFICES ASSUME Init PROVE Shape
  OBVIOUS
<1> USE MaxAssumption, TTLAssumption
<1>1. NoRequest \in RequestRows /\ NoAttempt \in AttemptRows /\ NoReservation \in ReservationRows
  BY DEF NoRequest, NoAttempt, NoReservation, RequestRows, AttemptRows, ReservationRows
<1>2. [limit |-> NoLimit, reserved |-> 0, settled |-> 0] \in Accounts
  BY DEF Accounts
<1>3. TypeOK
  BY <1>1, <1>2 DEF Init, TypeOK
<1>4. Linked
  BY DEF Init, Linked, NoRequest, NoAttempt, NoReservation
<1> QED BY <1>3, <1>4 DEF Shape

\* Inserting a gateway request (begin_request_with_metadata) keeps the rows
\* well formed and linked.
LEMMA ShapeBeginRequest ==
  ASSUME Shape, NEW i \in Instances, NEW r \in Requests, NEW t \in Tenants,
         NEW k \in Keys \cup {NoKey}, begin_request(i, r, t, k)
  PROVE  Shape'
<1>1. TypeOK'
  BY TTLAssumption DEF Shape, TypeOK, RequestRows, begin_request
<1>2. Linked'
  BY DEF Shape, TypeOK, Linked, begin_request
<1> QED BY <1>1, <1>2 DEF Shape

\* Inserting a Provider attempt under a live request (the first half of
\* begin_attempt) keeps the rows well formed and linked.
LEMMA ShapeInsert ==
  ASSUME Shape, NEW i \in Instances, NEW a \in Attempts, NEW r \in Requests,
         NEW e \in Estimates, begin_attempt_insert(i, a, r, e)
  PROVE  Shape'
<1>1. TypeOK'
  BY TTLAssumption DEF Shape, TypeOK, AttemptRows, begin_attempt_insert
<1>2. Linked'
  BY DEF Shape, TypeOK, AttemptRows, Linked, begin_attempt_insert
<1> QED BY <1>1, <1>2 DEF Shape

\* Committing begin_attempt keeps every amount within BIGINT and gives the
\* attempt a reservation in its request's tenant.
LEMMA ShapeCommit ==
  ASSUME Shape, NEW a \in Attempts, begin_attempt_commit(a)
  PROVE  Shape'
<1> DEFINE t == request[attempt[a].request].tenant
<1>1. t \in Tenants /\ attempt[a].estimate \in Estimates /\ attempt[a].estimate \in 0..MaxMicrounits
  BY AmountsAssumption DEF Shape, Linked, begin_attempt_commit
<1>2. account' \in [Tenants -> Accounts]
  <2> DEFINE row == [account[t] EXCEPT !.reserved = account[t].reserved + attempt[a].estimate]
  <2>1. account[t] \in Accounts
    BY <1>1 DEF Shape, TypeOK
  <2>2. account[t].reserved + attempt[a].estimate \in 0..MaxMicrounits
    <3>1. account[t].reserved + attempt[a].estimate <= MaxMicrounits
      BY DEF begin_attempt_commit, WithinLimit
    <3>2. account[t].reserved \in Nat
      BY <2>1, MaxAssumption DEF Accounts
    <3>3. attempt[a].estimate \in Nat
      BY <1>1, MaxAssumption
    <3> HIDE DEF t
    <3> QED BY <3>1, <3>2, <3>3, MaxAssumption
  <2>3. row \in Accounts
    BY <2>1, <2>2 DEF Accounts
  <2>4. account' = [account EXCEPT ![t] = row]
    BY DEF begin_attempt_commit
  <2> HIDE DEF row
  <2> QED BY <1>1, <2>3, <2>4 DEF Shape, TypeOK
<1>3. reservation' \in [Attempts -> ReservationRows]
  BY <1>1 DEF Shape, TypeOK, ReservationRows, begin_attempt_commit
<1>4. attempt' \in [Attempts -> AttemptRows]
  <2> DEFINE row == [attempt[a] EXCEPT !.state = "started"]
  <2>1. row \in AttemptRows
    BY DEF Shape, TypeOK, AttemptRows
  <2>2. attempt' = [attempt EXCEPT ![a] = row]
    BY DEF begin_attempt_commit
  <2> HIDE DEF row
  <2> QED BY <2>1, <2>2 DEF Shape, TypeOK
<1>5. TypeOK'
  BY <1>2, <1>3, <1>4 DEF Shape, TypeOK, begin_attempt_commit
<1>6. Linked'
  BY <1>1 DEF Shape, TypeOK, AttemptRows, ReservationRows, Linked, begin_attempt_commit
<1> QED BY <1>5, <1>6 DEF Shape

\* Rolling begin_attempt back removes an attempt that had no reservation.
LEMMA ShapeRollback ==
  ASSUME Shape, NEW a \in Attempts, begin_attempt_rollback(a)
  PROVE  Shape'
<1>1. TypeOK'
  BY TTLAssumption DEF Shape, TypeOK, AttemptRows, NoAttempt, begin_attempt_rollback
<1>2. Linked'
  BY DEF Shape, TypeOK, AttemptRows, NoAttempt, Linked, begin_attempt_rollback
<1> QED BY <1>1, <1>2 DEF Shape

\* finalize_attempt and settle_budget_pg keep the account within its CHECK
\* constraints and the rows linked.
LEMMA ShapeFinalizeAttempt ==
  ASSUME Shape, NEW a \in Attempts, NEW o \in Terminal, NEW c \in Costs,
         finalize_attempt(a, o, c)
  PROVE  Shape'
<1> DEFINE t == reservation[a].tenant
<1>1. t \in Tenants /\ c \in 0..MaxMicrounits
      /\ reservation[a].amount \in Nat
  BY AmountsAssumption, MaxAssumption
  DEF Shape, TypeOK, ReservationRows, Linked, finalize_attempt, settle_budget
<1>2. account' \in [Tenants -> Accounts]
  <2> DEFINE row == [account[t] EXCEPT !.reserved = account[t].reserved - reservation[a].amount,
                                       !.settled = account[t].settled + c]
  <2>1. account[t] \in Accounts
    BY <1>1 DEF Shape, TypeOK
  <2>2. /\ account[t].reserved - reservation[a].amount \in 0..MaxMicrounits
        /\ account[t].settled + c \in 0..MaxMicrounits
    BY <1>1, <2>1, MaxAssumption DEF Accounts, finalize_attempt, settle_budget
  <2>3. row \in Accounts
    BY <2>1, <2>2 DEF Accounts
  <2>4. account' = [account EXCEPT ![t] = row]
    BY DEF finalize_attempt, settle_budget
  <2> HIDE DEF row
  <2> QED BY <1>1, <2>3, <2>4 DEF Shape, TypeOK
<1>3. reservation' \in [Attempts -> ReservationRows]
  <2> DEFINE row == [reservation[a] EXCEPT !.state = "settled", !.settled = c]
  <2>1. reservation[a] \in ReservationRows
    BY DEF Shape, TypeOK
  <2>2. row \in ReservationRows
    BY <2>1 DEF ReservationRows
  <2>3. reservation' = [reservation EXCEPT ![a] = row]
    BY DEF finalize_attempt, settle_budget
  <2> HIDE DEF row
  <2> QED BY <2>2, <2>3 DEF Shape, TypeOK
<1>4. attempt' \in [Attempts -> AttemptRows]
  <2> DEFINE row == [attempt[a] EXCEPT !.state = o, !.cost = c, !.billing = "reported",
                                       !.lease = 0]
  <2>1. attempt[a] \in AttemptRows /\ 0 \in 0..TTL
    BY TTLAssumption DEF Shape, TypeOK
  <2>2. row \in AttemptRows
    BY <2>1 DEF AttemptRows
  <2>3. attempt' = [attempt EXCEPT ![a] = row]
    BY DEF finalize_attempt
  <2> HIDE DEF row
  <2> QED BY <2>2, <2>3 DEF Shape, TypeOK
<1>5. TypeOK'
  BY <1>2, <1>3, <1>4 DEF Shape, TypeOK, finalize_attempt
<1>6. Linked'
  BY <1>1 DEF Shape, TypeOK, AttemptRows, ReservationRows, Linked, finalize_attempt, settle_budget
<1> QED BY <1>5, <1>6 DEF Shape

\* finalize_request_usage changes only columns of a request that keep its type.
LEMMA ShapeFinalizeRequest ==
  ASSUME Shape, NEW r \in Requests, NEW o \in Terminal, NEW c \in Costs,
         NEW b \in BOOLEAN, finalize_request(r, o, c, b)
  PROVE  Shape'
<1> DEFINE row == [request[r] EXCEPT !.state = o, !.cost = c, !.chargeable = b, !.lease = 0]
<1>1. request[r] \in RequestRows /\ 0 \in 0..TTL
  BY TTLAssumption DEF Shape, TypeOK
<1>2. row \in RequestRows /\ row.tenant = request[r].tenant /\ row.owner = request[r].owner
      /\ row.state = o
  BY <1>1 DEF RequestRows
<1>3. request' = [request EXCEPT ![r] = row]
  BY DEF finalize_request
<1> HIDE DEF row
<1>4. TypeOK'
  BY <1>2, <1>3 DEF Shape, TypeOK, finalize_request
<1>5. Linked'
  BY <1>2, <1>3 DEF Shape, TypeOK, Linked, finalize_request
<1> QED BY <1>4, <1>5 DEF Shape

\* renew_lease leaves leases within their time to live.
LEMMA ShapeRenew ==
  ASSUME Shape, NEW r \in Requests, renew_lease(r)
  PROVE  Shape'
<1>1. request' \in [Requests -> RequestRows]
  BY TTLAssumption DEF Shape, TypeOK, RequestRows, renew_lease
<1>2. attempt' \in [Attempts -> AttemptRows]
  BY TTLAssumption DEF Shape, TypeOK, AttemptRows, renew_lease
<1>3. TypeOK'
  BY <1>1, <1>2 DEF Shape, TypeOK, renew_lease
<1>4. \A q \in Requests : /\ request'[q].state = request[q].state
                          /\ request'[q].tenant = request[q].tenant
                          /\ request'[q].owner = request[q].owner
  BY DEF Shape, TypeOK, RequestRows, renew_lease
<1>5. \A a \in Attempts : /\ attempt'[a].state = attempt[a].state
                          /\ attempt'[a].request = attempt[a].request
                          /\ attempt'[a].owner = attempt[a].owner
                          /\ attempt'[a].estimate = attempt[a].estimate
                          /\ attempt'[a].billing = attempt[a].billing
  BY DEF Shape, TypeOK, AttemptRows, renew_lease
<1>6. Linked'
  BY <1>4, <1>5 DEF Shape, TypeOK, Linked, renew_lease
<1> QED BY <1>3, <1>6 DEF Shape

\* Time only lowers leases, never below zero.
LEMMA ShapeTick ==
  ASSUME Shape, tick
  PROVE  Shape'
<1>1. \A l \in 0..TTL : Excess(l, 1) \in 0..TTL
  BY TTLAssumption DEF Excess
<1>2. request' \in [Requests -> RequestRows]
  <2>1. ASSUME NEW r \in Requests
        PROVE  [request[r] EXCEPT !.lease = Excess(request[r].lease, 1)] \in RequestRows
    <3>1. request[r] \in RequestRows
      BY DEF Shape, TypeOK
    <3>2. Excess(request[r].lease, 1) \in 0..TTL
      BY <1>1, <3>1 DEF RequestRows
    <3> QED BY <3>1, <3>2 DEF RequestRows
  <2> QED BY <2>1 DEF tick
<1>3. attempt' \in [Attempts -> AttemptRows]
  <2>1. ASSUME NEW a \in Attempts
        PROVE  [attempt[a] EXCEPT !.lease = Excess(attempt[a].lease, 1)] \in AttemptRows
    <3>1. attempt[a] \in AttemptRows
      BY DEF Shape, TypeOK
    <3>2. Excess(attempt[a].lease, 1) \in 0..TTL
      BY <1>1, <3>1 DEF AttemptRows
    <3> QED BY <3>1, <3>2 DEF AttemptRows
  <2> QED BY <2>1 DEF tick
<1>4. TypeOK'
  BY <1>2, <1>3 DEF Shape, TypeOK, tick
<1>5. \A q \in Requests : /\ request'[q].state = request[q].state
                          /\ request'[q].tenant = request[q].tenant
                          /\ request'[q].owner = request[q].owner
  BY DEF Shape, TypeOK, RequestRows, tick
<1>6. \A a \in Attempts : /\ attempt'[a].state = attempt[a].state
                          /\ attempt'[a].request = attempt[a].request
                          /\ attempt'[a].owner = attempt[a].owner
                          /\ attempt'[a].estimate = attempt[a].estimate
                          /\ attempt'[a].billing = attempt[a].billing
  BY DEF Shape, TypeOK, AttemptRows, tick
<1>7. Linked'
  BY <1>5, <1>6 DEF Shape, TypeOK, Linked, tick
<1> QED BY <1>4, <1>7 DEF Shape

\* A process that starts or dies changes no row.
LEMMA ShapeCrash ==
  ASSUME Shape, NEW i \in Instances, crash(i)
  PROVE  Shape'
<1>1. NoAttempt \in AttemptRows
  BY TTLAssumption DEF NoAttempt, AttemptRows
<1>2. TypeOK'
  BY <1>1 DEF Shape, TypeOK, crash
<1>3. Linked'
  BY DEF Shape, TypeOK, Linked, NoAttempt, crash
<1> QED BY <1>2, <1>3 DEF Shape

\* update_budget replaces a limit by another limit.
LEMMA ShapeUpdate ==
  ASSUME Shape, NEW t \in Tenants, NEW l \in Limits \cup {NoLimit}, update_budget(t, l)
  PROVE  Shape'
<1>1. account' \in [Tenants -> Accounts]
  BY DEF Shape, TypeOK, Accounts, update_budget
<1>2. l # NoLimit => Excess(account[t].settled + account[t].reserved, l) \in Nat
  BY LimitsAssumption, MaxAssumption DEF Shape, TypeOK, Accounts, Excess
<1>3. excused' \in [Tenants -> Nat]
  BY <1>2 DEF Shape, TypeOK, update_budget
<1>4. TypeOK'
  BY <1>1, <1>3 DEF Shape, TypeOK, update_budget
<1>5. Linked'
  BY DEF Shape, TypeOK, Linked, update_budget
<1> QED BY <1>4, <1>5 DEF Shape

\* adjust_budget stays within the account's CHECK constraints.
LEMMA ShapeAdjust ==
  ASSUME Shape, NEW t \in Tenants, NEW d \in Deltas, adjust_budget(t, d)
  PROVE  Shape'
<1>1. account' \in [Tenants -> Accounts]
  BY DEF Shape, TypeOK, Accounts, adjust_budget
<1>2. d \in Int /\ Excess(excused[t] + d, 0) \in Nat
  BY DeltasAssumption DEF Shape, TypeOK, Excess
<1>3. excused' \in [Tenants -> Nat] /\ adjusted' \in [Tenants -> Int]
  BY <1>2 DEF Shape, TypeOK, adjust_budget
<1>4. TypeOK'
  BY <1>1, <1>3 DEF Shape, TypeOK, adjust_budget
<1>5. Linked'
  BY DEF Shape, TypeOK, Linked, adjust_budget
<1> QED BY <1>4, <1>5 DEF Shape

\* The totals of the ledger are over finite sets of natural amounts.
LEMMA AmountsNatural ==
  ASSUME Shape
  PROVE  /\ \A S \in SUBSET Attempts : IsFiniteSet(S)
         /\ \A a \in Attempts : /\ Amount[a] \in Nat /\ Amount[a] = reservation[a].amount
                                /\ Settled[a] \in Nat /\ Settled[a] = reservation[a].settled
                                /\ Overrun[a] \in Nat
                                /\ Overrun[a] = Excess(reservation[a].settled, reservation[a].amount)
         /\ \A S \in SUBSET Attempts : /\ Total(S, Amount) \in Nat
                                       /\ Total(S, Settled) \in Nat
                                       /\ Total(S, Overrun) \in Nat
<1>1. ASSUME NEW S \in SUBSET Attempts PROVE IsFiniteSet(S)
  BY FiniteAssumption, FS_Subset
<1>2. ASSUME NEW a \in Attempts
      PROVE  reservation[a].amount \in Nat /\ reservation[a].settled \in Nat
  BY AmountsAssumption, MaxAssumption DEF Shape, TypeOK, ReservationRows
<1>3. ASSUME NEW a \in Attempts
      PROVE  /\ Amount[a] \in Nat /\ Amount[a] = reservation[a].amount
             /\ Settled[a] \in Nat /\ Settled[a] = reservation[a].settled
             /\ Overrun[a] \in Nat
             /\ Overrun[a] = Excess(reservation[a].settled, reservation[a].amount)
  BY <1>2 DEF Amount, Settled, Overrun, Excess
<1>4. ASSUME NEW S \in SUBSET Attempts
      PROVE  /\ Total(S, Amount) \in Nat
             /\ Total(S, Settled) \in Nat
             /\ Total(S, Overrun) \in Nat
  <2>1. /\ \A x \in S : Amount[x] \in Nat
        /\ \A x \in S : Settled[x] \in Nat
        /\ \A x \in S : Overrun[x] \in Nat
    BY <1>3
  <2> QED BY <1>1, <2>1, TotalType
<1> QED BY <1>1, <1>3, <1>4

\* What reconciliation does to a row.
LEMMA ReconcileAttempt ==
  ASSUME reconcile_rows, NEW a \in Attempts
  PROVE  attempt'[a] = IF a \in ExpiredAttempts
           THEN [attempt[a] EXCEPT !.state = "failed", !.billing = "unreconciled"] ELSE attempt[a]
BY DEF reconcile_rows

\* What reconcile_expired does to the reservation of one attempt.
LEMMA ReconcileReservation ==
  ASSUME reconcile_rows, NEW a \in Attempts
  PROVE  reservation'[a] = IF a \in ExpiredAttempts /\ reservation[a].state = "reserved"
           THEN [reservation[a] EXCEPT !.state = "released"] ELSE reservation[a]
BY DEF reconcile_rows

\* What reconcile_expired does to one request row.
LEMMA ReconcileRequest ==
  ASSUME reconcile_rows, NEW r \in Requests
  PROVE  request'[r] = IF r \in ExpiredRequests
           THEN [request[r] EXCEPT !.state = "failed", !.chargeable = FALSE] ELSE request[r]
BY DEF reconcile_rows

\* reconcile_expired, which ends many rows in one transaction, keeps them well
\* formed, linked and within the CHECK constraints.
LEMMA ShapeReconcile ==
  ASSUME Shape, reconcile_rows, instance' \in [Instances -> {"new", "live", "dead"}],
         UNCHANGED <<adjusted, excused>>
  PROVE  Shape'
<1>1. \A t \in Tenants : /\ Total(Released(t), Amount) \in Nat
                         /\ account[t].reserved >= Total(Released(t), Amount)
  <2>1. \A t \in Tenants : Released(t) \in SUBSET Attempts
    BY DEF Released, ExpiredAttempts
  <2> QED BY <2>1, AmountsNatural DEF reconcile_rows
<1>2. account' \in [Tenants -> Accounts]
  <2>1. ASSUME NEW t \in Tenants
        PROVE  [account[t] EXCEPT !.reserved = account[t].reserved - Total(Released(t), Amount)]
                 \in Accounts
    <3> DEFINE m == Total(Released(t), Amount)
    <3>1. account[t] \in Accounts
      BY DEF Shape, TypeOK
    <3>2. m \in Nat /\ account[t].reserved >= m
      BY <1>1
    <3> HIDE DEF m
    <3>3. account[t].reserved - m \in 0..MaxMicrounits
      BY <3>1, <3>2, MaxAssumption DEF Accounts
    <3>4. [account[t] EXCEPT !.reserved = account[t].reserved - m] \in Accounts
      BY <3>1, <3>3 DEF Accounts
    <3> QED BY <3>4 DEF m
  <2>2. account' = [t \in Tenants |->
          [account[t] EXCEPT !.reserved = account[t].reserved - Total(Released(t), Amount)]]
    BY DEF reconcile_rows
  <2> QED BY <2>1, <2>2
<1>3. ASSUME NEW a \in Attempts
      PROVE  /\ attempt'[a] \in AttemptRows
             /\ attempt'[a].state = "absent" <=> attempt[a].state = "absent"
             /\ attempt'[a].request = attempt[a].request
             /\ attempt'[a].owner = attempt[a].owner
             /\ attempt'[a].estimate = attempt[a].estimate
             /\ attempt'[a].state \notin Terminal => attempt'[a] = attempt[a]
  <2>1. attempt[a] \in AttemptRows
    BY DEF Shape, TypeOK
  <2>2. attempt'[a] = IF a \in ExpiredAttempts
          THEN [attempt[a] EXCEPT !.state = "failed", !.billing = "unreconciled"] ELSE attempt[a]
    BY ReconcileAttempt
  <2>3. a \in ExpiredAttempts => attempt[a].state = "started"
    BY DEF ExpiredAttempts
  <2>4. CASE a \notin ExpiredAttempts
    BY <2>1, <2>2, <2>4
  <2>5. CASE a \in ExpiredAttempts
    <3>1. attempt'[a] = [attempt[a] EXCEPT !.state = "failed", !.billing = "unreconciled"]
      BY <2>2, <2>5
    <3>2. attempt'[a] \in AttemptRows /\ attempt'[a].state = "failed"
      BY <2>1, <3>1 DEF AttemptRows
    <3> QED BY <2>1, <2>3, <2>5, <3>1, <3>2 DEF AttemptRows
  <2> QED BY <2>4, <2>5
<1>4. ASSUME NEW a \in Attempts
      PROVE  /\ reservation'[a] \in ReservationRows
             /\ reservation'[a].state = "none" <=> reservation[a].state = "none"
             /\ reservation'[a].tenant = reservation[a].tenant
  <2>1. reservation[a] \in ReservationRows
    BY DEF Shape, TypeOK
  <2>2. reservation'[a] = IF a \in ExpiredAttempts /\ reservation[a].state = "reserved"
          THEN [reservation[a] EXCEPT !.state = "released"] ELSE reservation[a]
    BY ReconcileReservation
  <2> QED BY <2>1, <2>2 DEF ReservationRows
<1>5. ASSUME NEW r \in Requests
      PROVE  /\ request'[r] \in RequestRows
             /\ request'[r].state = "absent" <=> request[r].state = "absent"
             /\ request'[r].tenant = request[r].tenant
             /\ request'[r].owner = request[r].owner
  <2>1. request[r] \in RequestRows
    BY DEF Shape, TypeOK
  <2>2. request'[r] = IF r \in ExpiredRequests
          THEN [request[r] EXCEPT !.state = "failed", !.chargeable = FALSE] ELSE request[r]
    BY ReconcileRequest
  <2>3. r \in ExpiredRequests => request[r].state = "started"
    BY DEF ExpiredRequests
  <2>4. CASE r \notin ExpiredRequests
    BY <2>1, <2>2, <2>4
  <2>5. CASE r \in ExpiredRequests
    <3>1. request'[r] = [request[r] EXCEPT !.state = "failed", !.chargeable = FALSE]
      BY <2>2, <2>5
    <3>2. request'[r] \in RequestRows /\ request'[r].state = "failed"
      BY <2>1, <3>1 DEF RequestRows
    <3> QED BY <2>1, <2>3, <2>5, <3>1, <3>2 DEF RequestRows
  <2> QED BY <2>4, <2>5
<1>6. /\ attempt' \in [Attempts -> AttemptRows]
      /\ reservation' \in [Attempts -> ReservationRows]
      /\ request' \in [Requests -> RequestRows]
  <2>1. /\ attempt' = [a \in Attempts |-> attempt'[a]]
        /\ reservation' = [a \in Attempts |-> reservation'[a]]
        /\ request' = [r \in Requests |-> request'[r]]
    BY DEF reconcile_rows
  <2> QED BY <1>3, <1>4, <1>5, <2>1
<1>7. TypeOK'
  BY <1>2, <1>6 DEF Shape, TypeOK
<1>8. Linked'
  BY <1>3, <1>4, <1>5 DEF Shape, Linked
<1> QED BY <1>7, <1>8 DEF Shape

\* Every transaction leaves well-formed rows that refer to existing rows.
LEMMA NextShape == Shape /\ [Next]_vars => Shape'
<1> SUFFICES ASSUME Shape, [Next]_vars PROVE Shape'
  OBVIOUS
<1>1. CASE DataPlane
  BY <1>1, ShapeBeginRequest, ShapeInsert, ShapeCommit, ShapeRollback,
     ShapeFinalizeAttempt, ShapeFinalizeRequest, ShapeRenew DEF DataPlane
<1>2. ASSUME NEW i \in Instances, reconcile_expired(i) \/ start(i) PROVE Shape'
  <2>1. reconcile_rows /\ UNCHANGED <<adjusted, excused>>
    BY <1>2 DEF reconcile_expired, start
  <2>2. instance' \in [Instances -> {"new", "live", "dead"}]
    BY <1>2 DEF reconcile_expired, start, Shape, TypeOK
  <2> QED BY <2>1, <2>2, ShapeReconcile
<1>3. CASE Operator
  BY <1>2, <1>3, ShapeCrash, ShapeUpdate, ShapeAdjust DEF Operator
<1>4. CASE tick
  BY <1>4, ShapeTick
<1>5. CASE UNCHANGED vars
  BY <1>5 DEF vars, Shape, TypeOK, Linked
<1> QED BY <1>1, <1>3, <1>4, <1>5 DEF Next

\* Every row has the columns of its table and no amount is ever negative or
\* beyond BIGINT: the CHECK constraints of the migrations never fire.
THEOREM TypeCorrect == Spec => []TypeOK
<1>1. Spec => []Shape
  BY InitShape, NextShape, PTL DEF Spec
<1>2. Shape => TypeOK
  BY DEF Shape
<1> QED BY <1>1, <1>2, PTL

-----------------------------------------------------------------------------
(* The attempt row and its reservation agree.                              *)

\* Transactions that keep these columns keep the agreement.
LEMMA MatchesFrame ==
  ASSUME Shape, AttemptMatchesReservation, UNCHANGED reservation,
         \A r \in Requests : request[r].state # "absent" => request'[r].tenant = request[r].tenant,
         \A a \in Attempts : /\ attempt'[a].state = attempt[a].state
                             /\ attempt'[a].billing = attempt[a].billing
                             /\ attempt'[a].cost = attempt[a].cost
                             /\ attempt'[a].request = attempt[a].request
  PROVE  AttemptMatchesReservation'
<1> SUFFICES ASSUME NEW a \in Attempts
             PROVE  /\ attempt'[a].state \in {"absent", "opening"} <=> reservation'[a].state = "none"
                    /\ attempt'[a].state = "started" <=> reservation'[a].state = "reserved"
                    /\ attempt'[a].billing = "reported" <=> reservation'[a].state = "settled"
                    /\ attempt'[a].billing = "unreconciled" <=> reservation'[a].state = "released"
                    /\ reservation'[a].state = "settled" => reservation'[a].settled = attempt'[a].cost
                    /\ reservation'[a].state # "none" =>
                         reservation'[a].tenant = request'[attempt'[a].request].tenant
  BY DEF AttemptMatchesReservation
<1>1. reservation[a].state # "none" =>
        attempt[a].request \in Requests /\ request[attempt[a].request].state # "absent"
  BY DEF AttemptMatchesReservation, Shape, Linked
<1> QED BY <1>1 DEF AttemptMatchesReservation

\* An attempt is opened or dropped before it has a reservation.
LEMMA MatchesOpening ==
  ASSUME Shape, AttemptMatchesReservation, UNCHANGED <<request, reservation>>,
         NEW S \in SUBSET Attempts,
         \A a \in S : /\ attempt[a].state \in {"absent", "opening"}
                      /\ attempt'[a].state \in {"absent", "opening"}
                      /\ attempt'[a].billing = "none",
         \A a \in Attempts \ S : attempt'[a] = attempt[a]
  PROVE  AttemptMatchesReservation'
BY DEF AttemptMatchesReservation

\* A committed begin_attempt leaves a started attempt with a reserved
\* reservation.
LEMMA MatchesCommit ==
  ASSUME Shape, AttemptMatchesReservation, NEW a \in Attempts, begin_attempt_commit(a)
  PROVE  AttemptMatchesReservation'
<1>1. /\ reservation'[a].state = "reserved"
      /\ reservation'[a].tenant = request[attempt[a].request].tenant
      /\ attempt'[a].state = "started" /\ attempt'[a].request = attempt[a].request
      /\ attempt'[a].billing = attempt[a].billing
  BY DEF Shape, TypeOK, AttemptRows, begin_attempt_commit
<1>2. attempt[a].billing = "none"
  BY DEF Shape, Linked, begin_attempt_commit
<1>3. \A b \in Attempts \ {a} : attempt'[b] = attempt[b] /\ reservation'[b] = reservation[b]
  BY DEF Shape, TypeOK, begin_attempt_commit
<1>4. request' = request
  BY DEF begin_attempt_commit
<1> QED BY <1>1, <1>2, <1>3, <1>4 DEF AttemptMatchesReservation

\* finalize_attempt ends attempt and reservation in one transaction.
LEMMA MatchesFinalize ==
  ASSUME Shape, AttemptMatchesReservation, NEW a \in Attempts, NEW o \in Terminal,
         NEW c \in Costs, finalize_attempt(a, o, c)
  PROVE  AttemptMatchesReservation'
<1>1. reservation[a] \in ReservationRows /\ attempt[a] \in AttemptRows
  BY DEF Shape, TypeOK
<1>2. /\ reservation'[a] = [reservation[a] EXCEPT !.state = "settled", !.settled = c]
      /\ attempt'[a] = [attempt[a] EXCEPT !.state = o, !.cost = c, !.billing = "reported",
                                          !.lease = 0]
  BY DEF Shape, TypeOK, finalize_attempt, settle_budget
<1>3. /\ reservation'[a].state = "settled" /\ reservation'[a].settled = c
      /\ reservation'[a].tenant = reservation[a].tenant
  BY <1>1, <1>2 DEF ReservationRows
<1>4. /\ attempt'[a].state = o /\ attempt'[a].cost = c /\ attempt'[a].billing = "reported"
      /\ attempt'[a].request = attempt[a].request
  BY <1>1, <1>2 DEF AttemptRows
<1>5. \A b \in Attempts \ {a} : attempt'[b] = attempt[b] /\ reservation'[b] = reservation[b]
  BY DEF Shape, TypeOK, finalize_attempt, settle_budget
<1>6. request' = request /\ reservation[a].state = "reserved"
  BY DEF finalize_attempt, settle_budget
<1> QED BY <1>3, <1>4, <1>5, <1>6 DEF AttemptMatchesReservation

\* reconcile_expired releases exactly the reservations of the attempts it ends.
LEMMA MatchesReconcile ==
  ASSUME Shape, AttemptMatchesReservation, reconcile_rows
  PROVE  AttemptMatchesReservation'
<1> SUFFICES ASSUME NEW a \in Attempts
             PROVE  /\ attempt'[a].state \in {"absent", "opening"} <=> reservation'[a].state = "none"
                    /\ attempt'[a].state = "started" <=> reservation'[a].state = "reserved"
                    /\ attempt'[a].billing = "reported" <=> reservation'[a].state = "settled"
                    /\ attempt'[a].billing = "unreconciled" <=> reservation'[a].state = "released"
                    /\ reservation'[a].state = "settled" => reservation'[a].settled = attempt'[a].cost
                    /\ reservation'[a].state # "none" =>
                         reservation'[a].tenant = request'[attempt'[a].request].tenant
  BY DEF AttemptMatchesReservation
<1>1. reservation[a] \in ReservationRows /\ attempt[a] \in AttemptRows
  BY DEF Shape, TypeOK
<1>2. \A r \in Requests : request'[r].tenant = request[r].tenant
  BY DEF Shape, TypeOK, RequestRows, reconcile_rows
<1>3. reservation[a].state # "none" => attempt[a].request \in Requests
  BY DEF AttemptMatchesReservation, Shape, Linked
<1>4. CASE a \notin ExpiredAttempts
  <2>1. attempt'[a] = attempt[a] /\ reservation'[a] = reservation[a]
    BY <1>4 DEF reconcile_rows
  <2> QED BY <1>2, <1>3, <2>1 DEF AttemptMatchesReservation
<1>5. CASE a \in ExpiredAttempts
  <2>1. attempt[a].state = "started" /\ reservation[a].state = "reserved"
    BY <1>5 DEF ExpiredAttempts, AttemptMatchesReservation
  <2>2. /\ attempt'[a] = [attempt[a] EXCEPT !.state = "failed", !.billing = "unreconciled"]
        /\ reservation'[a] = [reservation[a] EXCEPT !.state = "released"]
    BY <1>5, <2>1 DEF reconcile_rows
  <2>3. /\ attempt'[a].state = "failed" /\ attempt'[a].billing = "unreconciled"
        /\ attempt'[a].request = attempt[a].request
    BY <1>1, <2>2 DEF AttemptRows
  <2>4. reservation'[a].state = "released" /\ reservation'[a].tenant = reservation[a].tenant
    BY <1>1, <2>2 DEF ReservationRows
  <2> QED BY <1>2, <1>3, <2>1, <2>3, <2>4 DEF AttemptMatchesReservation
<1> QED BY <1>4, <1>5

\* Attempt and reservation states agree after every step of the ledger.
LEMMA NextMatches ==
  ASSUME Shape, AttemptMatchesReservation, [Next]_vars
  PROVE  AttemptMatchesReservation'
<1>1. ASSUME NEW i \in Instances, NEW r \in Requests, NEW t \in Tenants,
             NEW k \in Keys \cup {NoKey}, begin_request(i, r, t, k)
      PROVE  AttemptMatchesReservation'
  <2>1. \A q \in Requests : request[q].state # "absent" => request'[q].tenant = request[q].tenant
    BY <1>1 DEF Shape, TypeOK, begin_request
  <2> QED BY <1>1, <2>1, MatchesFrame DEF begin_request
<1>2. ASSUME NEW i \in Instances, NEW a \in Attempts, NEW r \in Requests, NEW e \in Estimates,
             begin_attempt_insert(i, a, r, e)
      PROVE  AttemptMatchesReservation'
  <2>1. /\ \A b \in {a} : /\ attempt[b].state \in {"absent", "opening"}
                          /\ attempt'[b].state \in {"absent", "opening"}
                          /\ attempt'[b].billing = "none"
        /\ \A b \in Attempts \ {a} : attempt'[b] = attempt[b]
        /\ UNCHANGED <<request, reservation>> /\ {a} \in SUBSET Attempts
    BY <1>2 DEF Shape, TypeOK, begin_attempt_insert
  <2> QED BY <2>1, MatchesOpening
<1>3. ASSUME NEW a \in Attempts, begin_attempt_rollback(a)
      PROVE  AttemptMatchesReservation'
  <2>1. /\ \A b \in {a} : /\ attempt[b].state \in {"absent", "opening"}
                          /\ attempt'[b].state \in {"absent", "opening"}
                          /\ attempt'[b].billing = "none"
        /\ \A b \in Attempts \ {a} : attempt'[b] = attempt[b]
        /\ UNCHANGED <<request, reservation>> /\ {a} \in SUBSET Attempts
    BY <1>3 DEF Shape, TypeOK, begin_attempt_rollback, NoAttempt
  <2> QED BY <2>1, MatchesOpening
<1>4. ASSUME NEW i \in Instances, crash(i)
      PROVE  AttemptMatchesReservation'
  <2> DEFINE S == {a \in Attempts : attempt[a].state = "opening" /\ attempt[a].owner = i}
  <2>1. /\ \A b \in S : /\ attempt[b].state \in {"absent", "opening"}
                        /\ attempt'[b].state \in {"absent", "opening"}
                        /\ attempt'[b].billing = "none"
        /\ \A b \in Attempts \ S : attempt'[b] = attempt[b]
        /\ UNCHANGED <<request, reservation>> /\ S \in SUBSET Attempts
    BY <1>4 DEF crash, NoAttempt
  <2> QED BY <2>1, MatchesOpening
<1>5. ASSUME NEW r \in Requests, NEW o \in Terminal, NEW c \in Costs, NEW b \in BOOLEAN,
             finalize_request(r, o, c, b)
      PROVE  AttemptMatchesReservation'
  <2>1. \A q \in Requests : request'[q].tenant = request[q].tenant
    BY <1>5 DEF Shape, TypeOK, RequestRows, finalize_request
  <2> QED BY <1>5, <2>1, MatchesFrame DEF finalize_request
<1>6. ASSUME NEW r \in Requests, renew_lease(r)
      PROVE  AttemptMatchesReservation'
  <2>1. \A q \in Requests : request'[q].tenant = request[q].tenant
    BY <1>6 DEF Shape, TypeOK, RequestRows, renew_lease
  <2>2. \A a \in Attempts : /\ attempt'[a].state = attempt[a].state
                            /\ attempt'[a].billing = attempt[a].billing
                            /\ attempt'[a].cost = attempt[a].cost
                            /\ attempt'[a].request = attempt[a].request
    BY <1>6 DEF Shape, TypeOK, AttemptRows, renew_lease
  <2> QED BY <1>6, <2>1, <2>2, MatchesFrame DEF renew_lease
<1>7. CASE tick
  <2>1. \A q \in Requests : request'[q].tenant = request[q].tenant
    BY <1>7 DEF Shape, TypeOK, RequestRows, tick
  <2>2. \A a \in Attempts : /\ attempt'[a].state = attempt[a].state
                            /\ attempt'[a].billing = attempt[a].billing
                            /\ attempt'[a].cost = attempt[a].cost
                            /\ attempt'[a].request = attempt[a].request
    BY <1>7 DEF Shape, TypeOK, AttemptRows, tick
  <2> QED BY <1>7, <2>1, <2>2, MatchesFrame DEF tick
<1>8. CASE DataPlane
  BY <1>8, <1>1, <1>2, <1>3, <1>5, <1>6, MatchesCommit, MatchesFinalize DEF DataPlane
<1>9. ASSUME UNCHANGED <<request, attempt, reservation>>
      PROVE  AttemptMatchesReservation'
  BY <1>9, MatchesFrame
<1>10. CASE Operator
  BY <1>10, <1>4, <1>9, MatchesReconcile
  DEF Operator, reconcile_expired, start, update_budget, adjust_budget
<1> QED BY <1>7, <1>8, <1>9, <1>10 DEF Next, vars

-----------------------------------------------------------------------------
(* The books balance.                                                      *)

Books == BudgetConserved /\ HardAdmission

\* A reservation adds a row and the same amount to the reserved counter, and
\* only below the limit.
LEMMA BooksCommit ==
  ASSUME Shape, AttemptMatchesReservation, Books, NEW a \in Attempts, begin_attempt_commit(a)
  PROVE  Books'
<1> DEFINE u == request[attempt[a].request].tenant
           e == attempt[a].estimate
<1>1. Shape'
  BY ShapeCommit
<1>2. u \in Tenants /\ e \in Nat /\ reservation[a].state = "none"
  <2>1. attempt[a].state = "opening"
    BY DEF begin_attempt_commit
  <2>2. u \in Tenants /\ e \in Estimates
    BY <2>1 DEF Shape, Linked
  <2>3. reservation[a].state = "none"
    BY <2>1 DEF AttemptMatchesReservation
  <2>4. Estimates \subseteq Nat
    BY AmountsAssumption, MaxAssumption
  <2> QED BY <2>2, <2>3, <2>4, Zenon
<1>3. reservation' = [reservation EXCEPT ![a] =
        [state |-> "reserved", tenant |-> u, amount |-> e, settled |-> 0]]
  BY DEF begin_attempt_commit
<1>4. /\ \A b \in Attempts : b # a => reservation'[b] = reservation[b]
      /\ reservation'[a] = [state |-> "reserved", tenant |-> u, amount |-> e, settled |-> 0]
  BY <1>3 DEF Shape, TypeOK
<1>5. ASSUME NEW t \in Tenants
      PROVE  /\ Rows(t, "settled")' = Rows(t, "settled")
             /\ Rows(t, "reserved")' = IF t = u THEN Rows(t, "reserved") \cup {a}
                                       ELSE Rows(t, "reserved")
             /\ a \notin Rows(t, "reserved") /\ a \notin Rows(t, "settled")
  BY <1>2, <1>4 DEF Rows
<1>6. /\ \A b \in Attempts : b # a => Amount'[b] = Amount[b] /\ Settled'[b] = Settled[b]
                                       /\ Overrun'[b] = Overrun[b]
      /\ Amount'[a] = e
  BY <1>4 DEF Amount, Settled, Overrun
<1>7. ASSUME NEW t \in Tenants
      PROVE  /\ Total(Rows(t, "settled")', Settled') = Total(Rows(t, "settled"), Settled)
             /\ Total(Rows(t, "settled")', Overrun') = Total(Rows(t, "settled"), Overrun)
             /\ Total(Rows(t, "reserved")', Amount') =
                  Total(Rows(t, "reserved"), Amount) + (IF t = u THEN e ELSE 0)
  <2> DEFINE R == Rows(t, "reserved")
             S == Rows(t, "settled")
  <2>1. S \in SUBSET Attempts /\ R \in SUBSET Attempts /\ IsFiniteSet(R)
    BY AmountsNatural DEF Rows
  <2>2. /\ \A b \in S : Settled'[b] = Settled[b] /\ Overrun'[b] = Overrun[b]
        /\ \A b \in R : Amount'[b] = Amount[b]
    BY <1>5, <1>6, <2>1
  <2>3. /\ Total(S, Settled') = Total(S, Settled) /\ Total(S, Overrun') = Total(S, Overrun)
        /\ Total(R, Amount') = Total(R, Amount)
    BY <2>2, TotalCongruence
  <2>4. Total(R, Amount) \in Nat /\ \A b \in R \cup {a} : Amount'[b] \in Nat
    BY <1>2, <1>6, <2>1, <2>2, AmountsNatural
  <2>5. a \notin R
    BY <1>5
  <2> HIDE DEF R, S
  <2>6. Total(R \cup {a}, Amount') = Total(R, Amount') + Amount'[a]
    BY <2>1, <2>4, <2>5, TotalAdd
  <2>7. CASE t = u
    <3>1. Rows(t, "reserved")' = R \cup {a} /\ Rows(t, "settled")' = S
      BY <1>5, <2>7 DEF R, S
    <3> QED BY <1>6, <2>3, <2>6, <2>7, <3>1 DEF R, S
  <2>8. CASE t # u
    <3>1. Rows(t, "reserved")' = R /\ Rows(t, "settled")' = S
      BY <1>5, <2>8 DEF R, S
    <3> QED BY <2>3, <2>4, <2>8, <3>1 DEF R, S
  <2> QED BY <2>7, <2>8
<1>8. ASSUME NEW t \in Tenants
      PROVE  /\ account'[t].reserved = account[t].reserved + (IF t = u THEN e ELSE 0)
             /\ account'[t].settled = account[t].settled /\ account'[t].limit = account[t].limit
             /\ account[t].reserved \in Nat /\ account[t].settled \in Nat
             /\ account[t].limit # NoLimit => account[t].limit \in Nat
             /\ adjusted'[t] = adjusted[t] /\ excused'[t] = excused[t] /\ excused[t] \in Nat
             /\ Total(Rows(t, "settled"), Overrun) \in Nat
  <2>1. Rows(t, "settled") \in SUBSET Attempts
    BY DEF Rows
  <2>2. Total(Rows(t, "settled"), Overrun) \in Nat
    BY <2>1, AmountsNatural
  <2>3. account[t] \in Accounts /\ excused[t] \in Nat /\ adjusted[t] \in Int
    BY DEF Shape, TypeOK
  <2>4. account'[t] = IF t = u THEN [account[t] EXCEPT !.reserved = account[t].reserved + e]
                      ELSE account[t]
    BY <1>2 DEF Shape, TypeOK, begin_attempt_commit
  <2>5. adjusted' = adjusted /\ excused' = excused
    BY DEF begin_attempt_commit
  <2> HIDE DEF u, e
  <2> QED BY <1>2, <2>2, <2>3, <2>4, <2>5, MaxAssumption, LimitsAssumption DEF Accounts
<1>9. account[u].limit # NoLimit => account[u].settled + account[u].reserved + e <= account[u].limit
  BY DEF begin_attempt_commit, WithinLimit
<1>10. BudgetConserved'
  BY <1>7, <1>8 DEF Books, BudgetConserved
<1>11. HardAdmission'
  <2> SUFFICES ASSUME NEW t \in Tenants, account'[t].limit # NoLimit
               PROVE  account'[t].settled + account'[t].reserved
                        <= account'[t].limit + Total(Rows(t, "settled")', Overrun') + excused'[t]
    BY DEF HardAdmission
  <2>1. CASE t = u
    <3>1. /\ account'[t].reserved = account[t].reserved + e
          /\ account'[t].settled = account[t].settled /\ account'[t].limit = account[t].limit
          /\ excused'[t] = excused[t]
      BY <1>8, <2>1
    <3>2. /\ account[t].reserved \in Nat /\ account[t].settled \in Nat /\ excused[t] \in Nat
          /\ account[t].limit \in Nat /\ Total(Rows(t, "settled"), Overrun) \in Nat
      BY <1>8, <3>1
    <3>3. account[t].settled + account[t].reserved + e <= account[t].limit
      BY <1>9, <2>1, <3>1
    <3>4. Total(Rows(t, "settled")', Overrun') = Total(Rows(t, "settled"), Overrun)
      BY <1>7
    <3> HIDE DEF u, e
    <3> QED BY <1>2, <3>1, <3>2, <3>3, <3>4
  <2>2. CASE t # u
    BY <1>7, <1>8, <2>2 DEF Books, HardAdmission
  <2> QED BY <2>1, <2>2
<1> QED BY <1>10, <1>11 DEF Books

\* A settlement moves one row from reserved to settled, and the spend it adds
\* beyond the amount it frees is its overrun.
LEMMA BooksSettle ==
  ASSUME Shape, AttemptMatchesReservation, Books, NEW a \in Attempts, NEW o \in Terminal,
         NEW c \in Costs, finalize_attempt(a, o, c)
  PROVE  Books'
<1> DEFINE u == reservation[a].tenant
           m == reservation[a].amount
<1>1. /\ reservation[a] \in ReservationRows /\ reservation[a].state = "reserved"
      /\ u \in Tenants /\ m \in Nat /\ c \in Nat
  BY AmountsAssumption, MaxAssumption
  DEF Shape, TypeOK, ReservationRows, Linked, finalize_attempt, settle_budget
<1>2. /\ reservation'[a] = [reservation[a] EXCEPT !.state = "settled", !.settled = c]
      /\ \A b \in Attempts : b # a => reservation'[b] = reservation[b]
  BY DEF Shape, TypeOK, finalize_attempt, settle_budget
<1>3. /\ reservation'[a].state = "settled" /\ reservation'[a].settled = c
      /\ reservation'[a].tenant = u /\ reservation'[a].amount = m
  BY <1>1, <1>2 DEF ReservationRows
<1>4. ASSUME NEW t \in Tenants
      PROVE  /\ Rows(t, "settled")' = IF t = u THEN Rows(t, "settled") \cup {a}
                                      ELSE Rows(t, "settled")
             /\ Rows(t, "reserved")' = IF t = u THEN Rows(t, "reserved") \ {a}
                                       ELSE Rows(t, "reserved")
             /\ a \notin Rows(t, "settled")
             /\ t = u => a \in Rows(t, "reserved")
  BY <1>1, <1>2, <1>3 DEF Rows
<1>5. /\ \A b \in Attempts : /\ Amount'[b] = Amount[b]
                             /\ b # a => Settled'[b] = Settled[b] /\ Overrun'[b] = Overrun[b]
      /\ Settled'[a] = c /\ Overrun'[a] = Excess(c, m) /\ Amount[a] = m
  BY <1>2, <1>3 DEF Amount, Settled, Overrun
<1>6. Excess(c, m) \in Nat /\ Excess(c, m) >= c - m
  BY <1>1 DEF Excess
<1>7. ASSUME NEW t \in Tenants
      PROVE  /\ Total(Rows(t, "settled")', Settled') =
                  Total(Rows(t, "settled"), Settled) + (IF t = u THEN c ELSE 0)
             /\ Total(Rows(t, "settled")', Overrun') =
                  Total(Rows(t, "settled"), Overrun) + (IF t = u THEN Excess(c, m) ELSE 0)
             /\ Total(Rows(t, "reserved")', Amount') =
                  Total(Rows(t, "reserved"), Amount) - (IF t = u THEN m ELSE 0)
  <2> DEFINE R == Rows(t, "reserved")
             S == Rows(t, "settled")
  <2>1. S \in SUBSET Attempts /\ R \in SUBSET Attempts /\ IsFiniteSet(R) /\ IsFiniteSet(S)
    BY AmountsNatural DEF Rows
  <2>2. /\ \A b \in S : Settled'[b] = Settled[b] /\ Overrun'[b] = Overrun[b]
        /\ \A b \in R : Amount'[b] = Amount[b]
        /\ \A b \in R \ {a} : Amount'[b] = Amount[b]
    BY <1>4, <1>5, <2>1
  <2>3. /\ Total(S, Settled') = Total(S, Settled) /\ Total(S, Overrun') = Total(S, Overrun)
        /\ Total(R, Amount') = Total(R, Amount)
        /\ Total(R \ {a}, Amount') = Total(R \ {a}, Amount)
    BY <2>2, TotalCongruence
  <2>4. /\ Total(R, Amount) \in Nat /\ Total(S, Settled) \in Nat /\ Total(S, Overrun) \in Nat
        /\ \A b \in R : Amount[b] \in Nat
        /\ \A b \in S : Settled[b] \in Nat /\ Overrun[b] \in Nat
    BY <2>1, AmountsNatural
  <2>5. /\ \A b \in S \cup {a} : Settled'[b] \in Nat
        /\ \A b \in S \cup {a} : Overrun'[b] \in Nat
    BY <1>1, <1>5, <1>6, <2>2, <2>4
  <2>6. a \notin S
    BY <1>4
  <2> HIDE DEF R, S
  <2>7. CASE t = u
    <3>1. /\ Rows(t, "reserved")' = R \ {a} /\ Rows(t, "settled")' = S \cup {a} /\ a \in R
      BY <1>4, <2>7 DEF R, S
    <3>2. Total(S \cup {a}, Settled') = Total(S, Settled') + Settled'[a]
      BY <2>1, <2>5, <2>6, TotalAdd
    <3>3. Total(S \cup {a}, Overrun') = Total(S, Overrun') + Overrun'[a]
      BY <2>1, <2>5, <2>6, TotalAdd
    <3>4. Total(R \ {a}, Amount) = Total(R, Amount) - Amount[a]
      BY <2>1, <2>4, <3>1, TotalRemove
    <3> QED BY <1>5, <2>3, <2>7, <3>1, <3>2, <3>3, <3>4 DEF R, S
  <2>8. CASE t # u
    <3>1. Rows(t, "reserved")' = R /\ Rows(t, "settled")' = S
      BY <1>4, <2>8 DEF R, S
    <3> QED BY <2>3, <2>4, <2>8, <3>1 DEF R, S
  <2> QED BY <2>7, <2>8
<1>8. ASSUME NEW t \in Tenants
      PROVE  /\ account'[t].reserved = account[t].reserved - (IF t = u THEN m ELSE 0)
             /\ account'[t].settled = account[t].settled + (IF t = u THEN c ELSE 0)
             /\ account'[t].limit = account[t].limit
             /\ account[t].reserved \in Nat /\ account[t].settled \in Nat
             /\ account[t].limit # NoLimit => account[t].limit \in Nat
             /\ adjusted'[t] = adjusted[t] /\ adjusted[t] \in Int
             /\ excused'[t] = excused[t] /\ excused[t] \in Nat
  <2>1. account[t] \in Accounts /\ excused[t] \in Nat /\ adjusted[t] \in Int
    BY DEF Shape, TypeOK
  <2>2. account'[t] = IF t = u
          THEN [account[t] EXCEPT !.reserved = account[t].reserved - m,
                                  !.settled = account[t].settled + c]
          ELSE account[t]
    BY <1>1 DEF Shape, TypeOK, finalize_attempt, settle_budget
  <2>3. UNCHANGED <<adjusted, excused>>
    BY DEF finalize_attempt
  <2> QED BY <1>1, <2>1, <2>2, <2>3, MaxAssumption, LimitsAssumption DEF Accounts
<1>9. \A t \in Tenants : /\ Total(Rows(t, "settled"), Overrun) \in Nat
                         /\ Total(Rows(t, "settled"), Settled) \in Nat
  BY AmountsNatural DEF Rows
<1>10. BudgetConserved'
  <2> SUFFICES ASSUME NEW t \in Tenants
               PROVE  /\ account'[t].reserved = Total(Rows(t, "reserved")', Amount')
                      /\ account'[t].settled = Total(Rows(t, "settled")', Settled') + adjusted'[t]
    BY DEF BudgetConserved
  <2>1. /\ account[t].reserved = Total(Rows(t, "reserved"), Amount)
        /\ account[t].settled = Total(Rows(t, "settled"), Settled) + adjusted[t]
    BY DEF Books, BudgetConserved
  <2>2. account'[t].reserved = Total(Rows(t, "reserved")', Amount')
    BY <1>7, <1>8, <2>1
  <2>3. account'[t].settled = Total(Rows(t, "settled")', Settled') + adjusted'[t]
    BY <1>1, <1>7, <1>8, <1>9, <2>1
  <2> QED BY <2>2, <2>3
<1>11. HardAdmission'
  <2> SUFFICES ASSUME NEW t \in Tenants, account'[t].limit # NoLimit
               PROVE  account'[t].settled + account'[t].reserved
                        <= account'[t].limit + Total(Rows(t, "settled")', Overrun') + excused'[t]
    BY DEF HardAdmission
  <2>1. account[t].settled + account[t].reserved
          <= account[t].limit + Total(Rows(t, "settled"), Overrun) + excused[t]
    BY <1>8 DEF Books, HardAdmission
  <2> QED BY <1>1, <1>6, <1>7, <1>8, <1>9, <2>1
<1> QED BY <1>10, <1>11 DEF Books

\* Reconciliation takes the expired rows out of the reserved ones and their
\* total out of the reserved counter.
LEMMA BooksReconcile ==
  ASSUME Shape, AttemptMatchesReservation, Books, reconcile_rows,
         UNCHANGED <<adjusted, excused>>
  PROVE  Books'
<1>1. ASSUME NEW a \in Attempts
      PROVE  /\ reservation'[a].tenant = reservation[a].tenant
             /\ reservation'[a].amount = reservation[a].amount
             /\ reservation'[a].settled = reservation[a].settled
             /\ reservation'[a].state = IF a \in ExpiredAttempts /\ reservation[a].state = "reserved"
                                        THEN "released" ELSE reservation[a].state
  <2>1. reservation[a] \in ReservationRows
    BY DEF Shape, TypeOK
  <2>2. reservation'[a] = IF a \in ExpiredAttempts /\ reservation[a].state = "reserved"
          THEN [reservation[a] EXCEPT !.state = "released"] ELSE reservation[a]
    BY ReconcileReservation
  <2> QED BY <2>1, <2>2 DEF ReservationRows
<1>2. Amount' = Amount /\ Settled' = Settled /\ Overrun' = Overrun
  BY <1>1 DEF Amount, Settled, Overrun
<1>3. ASSUME NEW t \in Tenants
      PROVE  /\ Rows(t, "settled")' = Rows(t, "settled")
             /\ Rows(t, "reserved")' = Rows(t, "reserved") \ Released(t)
             /\ Released(t) \subseteq Rows(t, "reserved")
             /\ Rows(t, "reserved") \in SUBSET Attempts
  BY <1>1 DEF Rows, Released
<1>4. ASSUME NEW t \in Tenants
      PROVE  /\ Total(Rows(t, "reserved")', Amount') =
                  Total(Rows(t, "reserved"), Amount) - Total(Released(t), Amount)
             /\ Total(Released(t), Amount) \in Nat
  <2> DEFINE R == Rows(t, "reserved")
             X == Released(t)
  <2>1. X \subseteq R /\ R \in SUBSET Attempts /\ X \in SUBSET Attempts
    BY <1>3
  <2>2. IsFiniteSet(R) /\ (\A b \in R : Amount[b] \in Nat) /\ Total(X, Amount) \in Nat
    BY <2>1, AmountsNatural
  <2>3. Rows(t, "reserved")' = R \ X
    BY <1>3
  <2> HIDE DEF R, X
  <2>4. Total(R \ X, Amount) = Total(R, Amount) - Total(X, Amount)
    BY <2>1, <2>2, TotalMinus
  <2> QED BY <1>2, <2>2, <2>3, <2>4 DEF R, X
<1>5. ASSUME NEW t \in Tenants
      PROVE  /\ account'[t].reserved = account[t].reserved - Total(Released(t), Amount)
             /\ account'[t].settled = account[t].settled /\ account'[t].limit = account[t].limit
             /\ account[t].reserved \in Nat /\ account[t].settled \in Nat
             /\ account[t].limit # NoLimit => account[t].limit \in Nat
             /\ excused[t] \in Nat /\ adjusted[t] \in Int
  <2>1. account[t] \in Accounts /\ excused[t] \in Nat /\ adjusted[t] \in Int
    BY DEF Shape, TypeOK
  <2>2. account'[t] =
          [account[t] EXCEPT !.reserved = account[t].reserved - Total(Released(t), Amount)]
    BY DEF reconcile_rows
  <2> QED BY <2>1, <2>2, MaxAssumption, LimitsAssumption DEF Accounts
<1>6. BudgetConserved'
  BY <1>2, <1>3, <1>4, <1>5 DEF Books, BudgetConserved
<1>7. HardAdmission'
  <2> SUFFICES ASSUME NEW t \in Tenants, account'[t].limit # NoLimit
               PROVE  account'[t].settled + account'[t].reserved
                        <= account'[t].limit + Total(Rows(t, "settled")', Overrun') + excused'[t]
    BY DEF HardAdmission
  <2>1. account[t].settled + account[t].reserved
          <= account[t].limit + Total(Rows(t, "settled"), Overrun) + excused[t]
    BY <1>5 DEF Books, HardAdmission
  <2>2. Rows(t, "settled")' = Rows(t, "settled") /\ Rows(t, "settled") \in SUBSET Attempts
    BY <1>3 DEF Rows
  <2>3. Total(Rows(t, "settled")', Overrun') = Total(Rows(t, "settled"), Overrun)
    BY <1>2, <2>2
  <2>4. Total(Rows(t, "settled"), Overrun) \in Nat
    BY <2>2, AmountsNatural
  <2> QED BY <1>4, <1>5, <2>1, <2>3, <2>4
<1> QED BY <1>6, <1>7 DEF Books

\* The administrator's actions leave the rows alone.
LEMMA BooksAdmin ==
  ASSUME Shape, Books, NEW t \in Tenants,
         \/ \E l \in Limits \cup {NoLimit} : update_budget(t, l)
         \/ \E d \in Deltas : adjust_budget(t, d)
  PROVE  Books'
<1>1. reservation' = reservation
  BY DEF update_budget, adjust_budget
<1>2. /\ Amount' = Amount /\ Settled' = Settled /\ Overrun' = Overrun
      /\ \A q \in Tenants : /\ Rows(q, "settled")' = Rows(q, "settled")
                            /\ Rows(q, "reserved")' = Rows(q, "reserved")
                            /\ Total(Rows(q, "settled"), Overrun) \in Nat
                            /\ Total(Rows(q, "settled"), Settled) \in Nat
                            /\ Total(Rows(q, "reserved"), Amount) \in Nat
  <2>1. \A q \in Tenants : /\ Rows(q, "settled") \in SUBSET Attempts
                           /\ Rows(q, "reserved") \in SUBSET Attempts
    BY DEF Rows
  <2>2. /\ Amount' = Amount /\ Settled' = Settled /\ Overrun' = Overrun
        /\ \A q \in Tenants : /\ Rows(q, "settled")' = Rows(q, "settled")
                              /\ Rows(q, "reserved")' = Rows(q, "reserved")
    BY <1>1 DEF Amount, Settled, Overrun, Rows
  <2> QED BY <2>1, <2>2, AmountsNatural
<1>3. ASSUME NEW q \in Tenants
      PROVE  /\ account[q] \in Accounts /\ excused[q] \in Nat /\ adjusted[q] \in Int
             /\ account[q].reserved \in Nat /\ account[q].settled \in Nat
             /\ account[q].limit # NoLimit => account[q].limit \in Nat
  <2>1. account[q] \in Accounts /\ excused[q] \in Nat /\ adjusted[q] \in Int
    BY DEF Shape, TypeOK
  <2>2. account[q].reserved \in Nat /\ account[q].settled \in Nat
    BY <2>1, MaxAssumption DEF Accounts
  <2>3. account[q].limit # NoLimit => account[q].limit \in Nat
    <3>1. account[q].limit \in Limits \cup {NoLimit}
      BY <2>1 DEF Accounts
    <3>2. Limits \subseteq Nat
      BY MaxAssumption, LimitsAssumption
    <3> QED BY <3>1, <3>2, Zenon
  <2> QED BY <2>1, <2>2, <2>3
<1>4. ASSUME NEW l \in Limits \cup {NoLimit}, update_budget(t, l) PROVE Books'
  <2>1. \A q \in Tenants : /\ account'[q].reserved = account[q].reserved
                           /\ account'[q].settled = account[q].settled
                           /\ account'[q].limit = IF q = t THEN l ELSE account[q].limit
                           /\ adjusted'[q] = adjusted[q]
    BY <1>3, <1>4 DEF Shape, TypeOK, Accounts, update_budget
  <2>2. BudgetConserved'
    BY <1>2, <2>1 DEF Books, BudgetConserved
  <2>3. \A q \in Tenants : q # t => excused'[q] = excused[q]
    BY <1>4 DEF Shape, TypeOK, update_budget
  <2>4. l # NoLimit => /\ l \in Nat /\ excused'[t] \in Nat
                       /\ excused'[t] >= account[t].settled + account[t].reserved - l
    BY <1>3, <1>4, MaxAssumption, LimitsAssumption DEF Shape, TypeOK, update_budget, Excess
  <2>5. HardAdmission'
    <3> SUFFICES ASSUME NEW q \in Tenants, account'[q].limit # NoLimit
                 PROVE  account'[q].settled + account'[q].reserved
                          <= account'[q].limit + Total(Rows(q, "settled")', Overrun') + excused'[q]
      BY DEF HardAdmission
    <3>1. CASE q = t
      BY <1>2, <1>3, <2>1, <2>4, <3>1
    <3>2. CASE q # t
      BY <1>2, <2>1, <2>3, <3>2 DEF Books, HardAdmission
    <3> QED BY <3>1, <3>2
  <2> QED BY <2>2, <2>5 DEF Books
<1>5. ASSUME NEW d \in Deltas, adjust_budget(t, d) PROVE Books'
  <2>0. d \in Int
    BY DeltasAssumption
  <2>1. \A q \in Tenants : /\ account'[q].reserved = account[q].reserved
                           /\ account'[q].settled = account[q].settled + (IF q = t THEN d ELSE 0)
                           /\ account'[q].limit = account[q].limit
                           /\ adjusted'[q] = adjusted[q] + (IF q = t THEN d ELSE 0)
    BY <1>3, <1>5, <2>0 DEF Shape, TypeOK, Accounts, adjust_budget
  <2>2. BudgetConserved'
    BY <1>2, <1>3, <2>0, <2>1 DEF Books, BudgetConserved
  <2>3. /\ \A q \in Tenants : q # t => excused'[q] = excused[q]
        /\ excused'[t] \in Nat /\ excused'[t] >= excused[t] + d
    BY <1>3, <1>5, <2>0 DEF Shape, TypeOK, adjust_budget, Excess
  <2>4. HardAdmission'
    <3> SUFFICES ASSUME NEW q \in Tenants, account'[q].limit # NoLimit
                 PROVE  account'[q].settled + account'[q].reserved
                          <= account'[q].limit + Total(Rows(q, "settled")', Overrun') + excused'[q]
      BY DEF HardAdmission
    <3>1. account[q].settled + account[q].reserved
            <= account[q].limit + Total(Rows(q, "settled"), Overrun) + excused[q]
      BY <2>1 DEF Books, HardAdmission
    <3>2. /\ account[q].settled \in Nat /\ account[q].reserved \in Nat /\ excused[q] \in Nat
          /\ account[q].limit \in Nat /\ Total(Rows(q, "settled"), Overrun) \in Nat
      BY <1>2, <1>3, <2>1
    <3>3. Total(Rows(q, "settled")', Overrun') = Total(Rows(q, "settled"), Overrun)
      BY <1>2
    <3>4. CASE q = t
      BY <2>0, <2>1, <2>3, <3>1, <3>2, <3>3, <3>4
    <3>5. CASE q # t
      BY <2>1, <2>3, <3>1, <3>2, <3>3, <3>5
    <3> QED BY <3>4, <3>5
  <2> QED BY <2>2, <2>4 DEF Books
<1> QED BY <1>4, <1>5

IInv == Shape /\ AttemptMatchesReservation /\ Books

\* The inductive invariant holds of an empty ledger.
LEMMA InitIInv == Init => IInv
<1> SUFFICES ASSUME Init PROVE IInv
  OBVIOUS
<1>1. \A t \in Tenants : Rows(t, "reserved") = {} /\ Rows(t, "settled") = {}
  BY DEF Init, Rows, NoReservation
<1>2. \A t \in Tenants : account[t].reserved = 0 /\ account[t].settled = 0
                         /\ adjusted[t] = 0 /\ account[t].limit = NoLimit
  BY DEF Init
<1>3. Books
  BY <1>1, <1>2, TotalEmpty DEF Books, BudgetConserved, HardAdmission
<1>4. AttemptMatchesReservation
  BY DEF Init, AttemptMatchesReservation, NoAttempt, NoReservation
<1> QED BY <1>3, <1>4, InitShape DEF IInv

\* Every transaction of the ledger preserves the inductive invariant.
LEMMA NextIInv == IInv /\ [Next]_vars => IInv'
<1> SUFFICES ASSUME IInv, [Next]_vars PROVE IInv'
  OBVIOUS
<1>1. Shape /\ AttemptMatchesReservation /\ Books
  BY DEF IInv
<1>2. Shape' /\ AttemptMatchesReservation'
  BY <1>1, NextShape, NextMatches
<1>3. ASSUME reservation' = reservation, account' = account,
             adjusted' = adjusted, excused' = excused
      PROVE  Books'
  BY <1>1, <1>3 DEF Books, BudgetConserved, HardAdmission, Rows, Amount, Settled, Overrun
<1>4. Books'
  <2>1. CASE DataPlane
    BY <1>1, <1>3, <2>1, BooksCommit, BooksSettle
    DEF DataPlane, begin_request, begin_attempt_insert, begin_attempt_rollback,
        finalize_request, renew_lease
  <2>2. CASE Operator
    BY <1>1, <1>3, <2>2, BooksReconcile, BooksAdmin
    DEF Operator, reconcile_expired, start, crash
  <2>3. CASE tick
    BY <1>3, <2>3 DEF tick
  <2>4. CASE UNCHANGED vars
    BY <1>3, <2>4 DEF vars
  <2> QED BY <2>1, <2>2, <2>3, <2>4 DEF Next
<1> QED BY <1>2, <1>4 DEF IInv

\* The inductive invariant holds throughout.
THEOREM Invariant == Spec => []IInv
BY InitIInv, NextIInv, PTL DEF Spec

\* Whatever the interleaving of transactions, crashes and reconcilers, the
\* counters of every account are the sums of its rows.
THEOREM Conservation == Spec => []BudgetConserved
<1>1. IInv => BudgetConserved
  BY DEF IInv, Books
<1> QED BY <1>1, Invariant, PTL

\* Spend and reservations exceed a limit only by settlements above their
\* estimates or by what an administrator caused.
THEOREM Admission == Spec => []HardAdmission
<1>1. IInv => HardAdmission
  BY DEF IInv, Books
<1> QED BY <1>1, Invariant, PTL

\* An attempt row and its reservation always agree on how the attempt ended.
THEOREM Agreement == Spec => []AttemptMatchesReservation
<1>1. IInv => AttemptMatchesReservation
  BY DEF IInv
<1> QED BY <1>1, Invariant, PTL

-----------------------------------------------------------------------------
(* Ended rows never change.                                                *)

\* A row that ended has no lease left to run out.
Ended ==
  /\ \A a \in Attempts : attempt[a].state \in Terminal => attempt[a].lease = 0
  /\ \A r \in Requests : request[r].state \in Terminal => request[r].lease = 0

\* One step of HistoryIsFinal.
Final ==
  /\ \A a \in Attempts : reservation[a].state \in {"settled", "released"} =>
       reservation'[a] = reservation[a] /\ attempt'[a] = attempt[a]
  /\ \A r \in Requests : request[r].state \in Terminal => request'[r] = request[r]

\* No transaction changes an ended attempt or a settled or released
\* reservation.
LEMMA FinalAttempts ==
  ASSUME IInv, Ended, [Next]_vars, NEW a \in Attempts
  PROVE  /\ attempt[a].state \in Terminal =>
              attempt'[a] = attempt[a] /\ reservation'[a] = reservation[a]
         /\ attempt'[a].state \in Terminal => attempt'[a].lease = 0
<1>1. /\ attempt[a] \in AttemptRows /\ reservation[a] \in ReservationRows
      /\ DOMAIN attempt = Attempts /\ DOMAIN reservation = Attempts
      /\ attempt \in [Attempts -> AttemptRows] /\ reservation \in [Attempts -> ReservationRows]
      /\ attempt[a].state \in Terminal => attempt[a].lease = 0
      /\ reservation[a].state = "reserved" <=> attempt[a].state = "started"
  BY DEF IInv, Shape, TypeOK, Ended, AttemptMatchesReservation
<1> DEFINE Goal == /\ attempt[a].state \in Terminal =>
                        attempt'[a] = attempt[a] /\ reservation'[a] = reservation[a]
                   /\ attempt'[a].state \in Terminal => attempt'[a].lease = 0
<1>2. ASSUME attempt'[a] = attempt[a], reservation'[a] = reservation[a]
      PROVE  Goal
  BY <1>1, <1>2
<1>3. ASSUME NEW i \in Instances, NEW b \in Attempts, NEW r \in Requests, NEW e \in Estimates,
             begin_attempt_insert(i, b, r, e)
      PROVE  Goal
  BY <1>1, <1>3 DEF begin_attempt_insert
<1>4. ASSUME NEW b \in Attempts, begin_attempt_commit(b)
      PROVE  Goal
  <2>1. CASE a = b
    <3>1. attempt[a].state = "opening" /\ attempt'[a].state = "started"
      BY <1>1, <1>4, <2>1 DEF begin_attempt_commit, AttemptRows
    <3> QED BY <3>1
  <2>2. CASE a # b
    BY <1>1, <1>4, <2>2 DEF begin_attempt_commit
  <2> QED BY <2>1, <2>2
<1>5. ASSUME NEW b \in Attempts, begin_attempt_rollback(b)
      PROVE  Goal
  BY <1>1, <1>5 DEF begin_attempt_rollback, NoAttempt
<1>6. ASSUME NEW b \in Attempts, NEW o \in Terminal, NEW c \in Costs, finalize_attempt(b, o, c)
      PROVE  Goal
  <2>1. CASE a = b
    <3>1. /\ attempt[a].state = "started"
          /\ attempt'[a] = [attempt[a] EXCEPT !.state = o, !.cost = c, !.billing = "reported",
                                              !.lease = 0]
      BY <1>1, <1>6, <2>1 DEF finalize_attempt
    <3>2. attempt'[a].lease = 0
      BY <1>1, <3>1 DEF AttemptRows
    <3> QED BY <3>1, <3>2
  <2>2. CASE a # b
    BY <1>1, <1>6, <2>2 DEF finalize_attempt, settle_budget
  <2> QED BY <2>1, <2>2
<1>7. ASSUME NEW r \in Requests, renew_lease(r)
      PROVE  Goal
  <2>1. /\ reservation' = reservation
        /\ attempt'[a] = IF attempt[a].request = r /\ attempt[a].state = "started"
                         THEN [attempt[a] EXCEPT !.lease = TTL] ELSE attempt[a]
    BY <1>7 DEF renew_lease
  <2>2. attempt[a].state = "started" => [attempt[a] EXCEPT !.lease = TTL].state = "started"
    BY <1>1 DEF AttemptRows
  <2> QED BY <1>1, <2>1, <2>2
<1>8. ASSUME reconcile_rows
      PROVE  Goal
  <2>0. /\ attempt'[a] = IF a \in ExpiredAttempts
             THEN [attempt[a] EXCEPT !.state = "failed", !.billing = "unreconciled"] ELSE attempt[a]
        /\ reservation'[a] = IF a \in ExpiredAttempts /\ reservation[a].state = "reserved"
             THEN [reservation[a] EXCEPT !.state = "released"] ELSE reservation[a]
    BY <1>8, ReconcileAttempt, ReconcileReservation
  <2>1. CASE a \in ExpiredAttempts
    <3>1. attempt[a].state = "started" /\ attempt[a].lease = 0
      BY <2>1 DEF ExpiredAttempts
    <3>2. attempt'[a] = [attempt[a] EXCEPT !.state = "failed", !.billing = "unreconciled"]
      BY <2>0, <2>1
    <3>3. attempt'[a].lease = attempt[a].lease
      BY <1>1, <3>2 DEF AttemptRows
    <3> QED BY <3>1, <3>3
  <2>2. CASE a \notin ExpiredAttempts
    BY <1>1, <2>0, <2>2
  <2> QED BY <2>1, <2>2
<1>9. ASSUME NEW i \in Instances, crash(i)
      PROVE  Goal
  BY <1>1, <1>9 DEF crash, NoAttempt
<1>10. ASSUME tick
       PROVE  Goal
  <2>1. /\ reservation' = reservation
        /\ attempt'[a] = [attempt[a] EXCEPT !.lease = Excess(attempt[a].lease, 1)]
    BY <1>10 DEF tick
  <2>2. /\ attempt'[a].state = attempt[a].state
        /\ attempt[a].lease = 0 => attempt'[a] = attempt[a]
    BY <1>1, <2>1 DEF AttemptRows, Excess
  <2>3. CASE attempt[a].state \in Terminal
    <3>1. attempt'[a] = attempt[a] /\ reservation'[a] = reservation[a]
      BY <1>1, <2>1, <2>2, <2>3
    <3> QED BY <1>2, <3>1
  <2>4. CASE attempt[a].state \notin Terminal
    BY <2>2, <2>4
  <2> QED BY <2>3, <2>4
<1> HIDE DEF Goal
<1>11. ASSUME DataPlane PROVE Goal
  <2>1. ASSUME NEW i \in Instances, NEW r \in Requests, NEW t \in Tenants,
               NEW k \in Keys \cup {NoKey}, begin_request(i, r, t, k)
        PROVE  Goal
    BY <1>2, <2>1 DEF begin_request
  <2>2. ASSUME NEW r \in Requests, NEW o \in Terminal, NEW c \in Costs, NEW b \in BOOLEAN,
               finalize_request(r, o, c, b)
        PROVE  Goal
    BY <1>2, <2>2 DEF finalize_request
  <2> QED BY <1>3, <1>4, <1>5, <1>6, <1>7, <1>11, <2>1, <2>2 DEF DataPlane
<1>12. ASSUME Operator PROVE Goal
  BY <1>2, <1>8, <1>9, <1>12 DEF Operator, reconcile_expired, start, update_budget, adjust_budget
<1>13. Goal
  BY <1>2, <1>10, <1>11, <1>12 DEF Next, vars
<1> QED BY <1>13 DEF Goal

\* No transaction changes an ended gateway request.
LEMMA FinalRequests ==
  ASSUME IInv, Ended, [Next]_vars, NEW r \in Requests
  PROVE  /\ request[r].state \in Terminal => request'[r] = request[r]
         /\ request'[r].state \in Terminal => request'[r].lease = 0
<1> DEFINE Goal == /\ request[r].state \in Terminal => request'[r] = request[r]
                   /\ request'[r].state \in Terminal => request'[r].lease = 0
<1>1. /\ request[r] \in RequestRows /\ request \in [Requests -> RequestRows]
      /\ request[r].state \in Terminal => request[r].lease = 0
  BY DEF IInv, Shape, TypeOK, Ended
<1>2. ASSUME request'[r] = request[r]
      PROVE  Goal
  BY <1>1, <1>2
<1>3. ASSUME NEW i \in Instances, NEW q \in Requests, NEW t \in Tenants,
             NEW k \in Keys \cup {NoKey}, begin_request(i, q, t, k)
      PROVE  Goal
  BY <1>1, <1>3 DEF begin_request
<1>4. ASSUME NEW q \in Requests, NEW o \in Terminal, NEW c \in Costs, NEW b \in BOOLEAN,
             finalize_request(q, o, c, b)
      PROVE  Goal
  <2>1. CASE q = r
    <3>1. /\ request[r].state = "started"
          /\ request'[r] = [request[r] EXCEPT !.state = o, !.cost = c, !.chargeable = b, !.lease = 0]
      BY <1>1, <1>4, <2>1 DEF finalize_request
    <3>2. request'[r].lease = 0
      BY <1>1, <3>1 DEF RequestRows
    <3> QED BY <3>1, <3>2
  <2>2. CASE q # r
    BY <1>1, <1>4, <2>2 DEF finalize_request
  <2> QED BY <2>1, <2>2
<1>5. ASSUME NEW q \in Requests, renew_lease(q)
      PROVE  Goal
  <2>1. request' = IF request[q].state = "started"
                   THEN [request EXCEPT ![q].lease = TTL] ELSE request
    BY <1>5 DEF renew_lease
  <2>2. CASE request[q].state = "started" /\ q = r
    BY <1>1, <2>1, <2>2 DEF RequestRows
  <2>3. CASE ~(request[q].state = "started" /\ q = r)
    <3>1. request'[r] = request[r]
      BY <1>1, <2>1, <2>3
    <3> QED BY <1>1, <3>1
  <2> QED BY <2>2, <2>3
<1>6. ASSUME reconcile_rows
      PROVE  Goal
  <2>0. request'[r] = IF r \in ExpiredRequests
          THEN [request[r] EXCEPT !.state = "failed", !.chargeable = FALSE] ELSE request[r]
    BY <1>6, ReconcileRequest
  <2>1. CASE r \in ExpiredRequests
    <3>1. request[r].state = "started" /\ request[r].lease = 0
      BY <2>1 DEF ExpiredRequests
    <3>2. request'[r] = [request[r] EXCEPT !.state = "failed", !.chargeable = FALSE]
      BY <2>0, <2>1
    <3>3. request'[r].lease = request[r].lease
      BY <1>1, <3>2 DEF RequestRows
    <3> QED BY <3>1, <3>3
  <2>2. CASE r \notin ExpiredRequests
    BY <1>1, <2>0, <2>2
  <2> QED BY <2>1, <2>2
<1>7. ASSUME tick
      PROVE  Goal
  <2>1. request'[r] = [request[r] EXCEPT !.lease = Excess(request[r].lease, 1)]
    BY <1>7 DEF tick
  <2>2. /\ request'[r].state = request[r].state
        /\ request[r].lease = 0 => request'[r] = request[r]
    BY <1>1, <2>1 DEF RequestRows, Excess
  <2> QED BY <1>1, <2>2
<1> HIDE DEF Goal
<1>8. ASSUME DataPlane PROVE Goal
  <2>1. ASSUME NEW i \in Instances, NEW a \in Attempts, NEW q \in Requests, NEW e \in Estimates,
               begin_attempt_insert(i, a, q, e)
        PROVE  Goal
    BY <1>2, <2>1 DEF begin_attempt_insert
  <2>2. ASSUME NEW a \in Attempts, begin_attempt_commit(a) \/ begin_attempt_rollback(a)
        PROVE  Goal
    BY <1>2, <2>2 DEF begin_attempt_commit, begin_attempt_rollback
  <2>3. ASSUME NEW a \in Attempts, NEW o \in Terminal, NEW c \in Costs, finalize_attempt(a, o, c)
        PROVE  Goal
    BY <1>2, <2>3 DEF finalize_attempt
  <2> QED BY <1>3, <1>4, <1>5, <1>8, <2>1, <2>2, <2>3 DEF DataPlane
<1>9. ASSUME Operator PROVE Goal
  BY <1>2, <1>6, <1>9 DEF Operator, reconcile_expired, start, crash, update_budget, adjust_budget
<1>10. Goal
  BY <1>2, <1>7, <1>8, <1>9 DEF Next, vars
<1> QED BY <1>10 DEF Goal

\* A settled or released reservation and an ended attempt or request never
\* change: late finalizers, second finalizers and late heartbeats do nothing.
THEOREM Finality == Spec => HistoryIsFinal
<1>1. Init => Ended
  BY DEF Init, Ended, NoAttempt, NoRequest
<1>2. IInv /\ Ended /\ [Next]_vars => Ended' /\ Final
  <2> SUFFICES ASSUME IInv, Ended, [Next]_vars PROVE Ended' /\ Final
    OBVIOUS
  <2>1. \A a \in Attempts : reservation[a].state \in {"settled", "released"} =>
                              attempt[a].state \in Terminal
    BY DEF IInv, Shape, TypeOK, AttemptRows, AttemptMatchesReservation
  <2> QED BY <2>1, FinalAttempts, FinalRequests DEF Ended, Final
<1>3. Spec => [][Final]_vars
  BY <1>1, <1>2, Invariant, PTL DEF Spec
<1> QED BY <1>3 DEF HistoryIsFinal, Final
=============================================================================
