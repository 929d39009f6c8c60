------------------------------- MODULE Ledger -------------------------------
(***************************************************************************)
(* The relational request/attempt/budget ledger of                         *)
(* src/src/enterprise_ledger.rs on its PostgreSQL backend.                 *)
(*                                                                         *)
(* A client request owns one row; every Provider attempt made for it owns  *)
(* a row and a budget reservation.  Rows carry the id of the gateway       *)
(* process that created them and a lease; a heartbeat renews the leases of *)
(* a running request, and a reconciler terminates the rows whose lease     *)
(* ran out.  One action is one committed transaction, except begin_attempt *)
(* whose first statement reads the request row without locking it and so   *)
(* takes two steps.                                                        *)
(***************************************************************************)
EXTENDS Money

CONSTANTS
  Tenants,     \* catalogued tenant scopes
  Instances,   \* process ids, one per start of a gateway (instance_id)
  Requests,    \* ledger ids
  Attempts,    \* attempt ids
  Keys,        \* idempotency keys
  Estimates,   \* costs estimated before an attempt, in micro-units
  Costs,       \* costs reported when a row is finalized
  Limits,      \* budget limits an administrator may set
  Deltas,      \* adjustments an administrator may post
  TTL,         \* lease duration in clock ticks
  MaxMicrounits, \* the largest BIGINT; a statement that overflows it fails
  NoLimit,     \* limit_microunits IS NULL
  NoKey,       \* the request carried no Idempotency-Key
  None         \* no owner, no request

ASSUME MaxAssumption == MaxMicrounits \in Nat
ASSUME AmountsAssumption == Estimates \cup Costs \subseteq 0..MaxMicrounits
ASSUME LimitsAssumption == Limits \subseteq 0..MaxMicrounits
ASSUME DeltasAssumption == Deltas \subseteq Int
ASSUME TTLAssumption == TTL \in Nat \ {0}
ASSUME NullAssumption == NoLimit \notin Nat /\ NoKey \notin Keys
ASSUME FiniteAssumption == IsFiniteSet(Attempts)

VARIABLES
  instance,     \* [Instances -> {"new", "live", "dead"}]
  request,      \* modelport_gateway_requests
  attempt,      \* modelport_provider_attempts
  reservation,  \* modelport_budget_reservations
  account,      \* modelport_budget_accounts
  adjusted,     \* sum of the `adjustment` rows of modelport_budget_events
  excused       \* history: spend above the limit that an administrator caused

vars == <<instance, request, attempt, reservation, account, adjusted, excused>>

Terminal == {"completed", "failed", "cancelled"}

NoRequest == [state |-> "absent", tenant |-> None, owner |-> None, lease |-> 0,
              key |-> NoKey, cost |-> 0, chargeable |-> FALSE]

NoAttempt == [state |-> "absent", request |-> None, owner |-> None, lease |-> 0,
              estimate |-> 0, cost |-> 0, billing |-> "none"]

NoReservation == [state |-> "none", tenant |-> None, amount |-> 0, settled |-> 0]

\* Reservation rows of a tenant in a given state.
Rows(t, s) == {a \in Attempts : reservation[a].tenant = t /\ reservation[a].state = s}

Amount == [a \in Attempts |-> reservation[a].amount]

Settled == [a \in Attempts |-> reservation[a].settled]

\* How far a settlement exceeded the estimate that was reserved for it.
Overrun == [a \in Attempts |-> Excess(reservation[a].settled, reservation[a].amount)]

Init ==
  /\ instance = [i \in Instances |-> "new"]
  /\ request = [r \in Requests |-> NoRequest]
  /\ attempt = [a \in Attempts |-> NoAttempt]
  /\ reservation = [a \in Attempts |-> NoReservation]
  /\ account = [t \in Tenants |-> [limit |-> NoLimit, reserved |-> 0, settled |-> 0]]
  /\ adjusted = [t \in Tenants |-> 0]
  /\ excused = [t \in Tenants |-> 0]

-----------------------------------------------------------------------------
(* The data plane's transactions.                                          *)

\* Mutant: the key is claimed only while its request is running.
begin_request_after_end(i, r, t, k) ==
  /\ instance[i] = "live"
  /\ request[r].state = "absent"
  /\ k # NoKey => \A q \in Requests :
       ~(request[q].tenant = t /\ request[q].key = k /\ request[q].state = "started")
  /\ request' = [request EXCEPT ![r] =
       [state |-> "started", tenant |-> t, owner |-> i, lease |-> TTL,
        key |-> k, cost |-> 0, chargeable |-> FALSE]]
  /\ UNCHANGED <<instance, attempt, reservation, account, adjusted, excused>>

\* INSERT ... ON CONFLICT (tenant, idempotency_key_hash) DO NOTHING.  A
\* conflict returns idempotency_conflict and changes nothing, whatever the
\* fingerprint and however long ago the first request ended.
begin_request(i, r, t, k) ==
  /\ instance[i] = "live"
  /\ request[r].state = "absent"
  /\ k # NoKey => \A q \in Requests : ~(request[q].tenant = t /\ request[q].key = k)
  /\ request' = [request EXCEPT ![r] =
       [state |-> "started", tenant |-> t, owner |-> i, lease |-> TTL,
        key |-> k, cost |-> 0, chargeable |-> FALSE]]
  /\ UNCHANGED <<instance, attempt, reservation, account, adjusted, excused>>

\* First statement of begin_attempt: INSERT INTO attempts SELECT ... FROM
\* requests.  The lease starts at the transaction's now(); the row is not
\* visible to other transactions before the commit.
begin_attempt_insert(i, a, r, estimate) ==
  /\ instance[i] = "live"
  /\ attempt[a].state = "absent"
  /\ request[r].state = "started" /\ request[r].owner = i
  /\ attempt' = [attempt EXCEPT ![a] =
       [state |-> "opening", request |-> r, owner |-> i, lease |-> TTL,
        estimate |-> estimate, cost |-> 0, billing |-> "none"]]
  /\ UNCHANGED <<instance, request, reservation, account, adjusted, excused>>

\* Mutant: the admission check forgets the reservations of other attempts.
WithinLimit_settled_only(acc, amount) ==
  /\ acc.reserved + amount <= MaxMicrounits
  /\ acc.limit # NoLimit => acc.settled + amount <= acc.limit

WithinLimit(acc, amount) ==
  /\ acc.reserved + amount <= MaxMicrounits
  /\ acc.limit # NoLimit => acc.settled + acc.reserved + amount <= acc.limit

\* The rest of begin_attempt up to its commit: the conditional UPDATE of the
\* account, the reservation row and its event.
begin_attempt_commit(a) ==
  LET t == request[attempt[a].request].tenant IN
  /\ attempt[a].state = "opening"
  /\ WithinLimit(account[t], attempt[a].estimate)
  /\ account' = [account EXCEPT ![t].reserved = @ + attempt[a].estimate]
  /\ reservation' = [reservation EXCEPT ![a] =
       [state |-> "reserved", tenant |-> t, amount |-> attempt[a].estimate, settled |-> 0]]
  /\ attempt' = [attempt EXCEPT ![a].state = "started"]
  /\ UNCHANGED <<instance, request, adjusted, excused>>

\* begin_attempt without a commit: QuotaExceeded when the account cannot take
\* the reservation, or a database error.  The attempt row goes with it.
begin_attempt_rollback(a) ==
  /\ attempt[a].state = "opening"
  /\ attempt' = [attempt EXCEPT ![a] = NoAttempt]
  /\ UNCHANGED <<instance, request, reservation, account, adjusted, excused>>

\* Mutant: settlement does not give the reserved amount back.
settle_budget_keeping_hold(a, cost) ==
  LET t == reservation[a].tenant IN
  /\ reservation[a].state = "reserved"
  /\ account[t].settled + cost <= MaxMicrounits
  /\ reservation' = [reservation EXCEPT ![a] =
       [@ EXCEPT !.state = "settled", !.settled = cost]]
  /\ account' = [account EXCEPT ![t].settled = @ + cost]

\* settle_budget_pg: the open reservation becomes settled and its amount
\* moves from reserved to the settled cost.
settle_budget(a, cost) ==
  LET t == reservation[a].tenant IN
  /\ reservation[a].state = "reserved"
  /\ account[t].reserved >= reservation[a].amount
  /\ account[t].settled + cost <= MaxMicrounits
  /\ reservation' = [reservation EXCEPT ![a] =
       [@ EXCEPT !.state = "settled", !.settled = cost]]
  /\ account' = [account EXCEPT ![t] =
       [@ EXCEPT !.reserved = account[t].reserved - reservation[a].amount,
                 !.settled = account[t].settled + cost]]

\* finalize_attempt of the owning process.  On a terminal row it returns Ok
\* and changes nothing.
finalize_attempt(a, outcome, cost) ==
  /\ attempt[a].state = "started"
  /\ instance[attempt[a].owner] = "live"
  /\ attempt' = [attempt EXCEPT ![a] =
       [@ EXCEPT !.state = outcome, !.cost = cost, !.billing = "reported", !.lease = 0]]
  /\ settle_budget(a, cost)
  /\ UNCHANGED <<instance, request, adjusted, excused>>

\* Mutant: the UPDATE lacks `AND state = 'started'`.
finalize_request_any_state(r, outcome, cost, chargeable) ==
  /\ request[r].state # "absent"
  /\ instance[request[r].owner] = "live"
  /\ request' = [request EXCEPT ![r] =
       [@ EXCEPT !.state = outcome, !.cost = cost, !.chargeable = chargeable, !.lease = 0]]
  /\ UNCHANGED <<instance, attempt, reservation, account, adjusted, excused>>

\* finalize_request_usage of the owning process.  On a terminal row it
\* returns missing_scoped_record and changes nothing.
finalize_request(r, outcome, cost, chargeable) ==
  /\ request[r].state = "started"
  /\ instance[request[r].owner] = "live"
  /\ request' = [request EXCEPT ![r] =
       [@ EXCEPT !.state = outcome, !.cost = cost, !.chargeable = chargeable, !.lease = 0]]
  /\ UNCHANGED <<instance, attempt, reservation, account, adjusted, excused>>

\* Mutant: the heartbeat renews the request row only.
renew_lease_request_only(r) ==
  /\ request[r].state # "absent" /\ instance[request[r].owner] = "live"
  /\ request' = IF request[r].state = "started"
                THEN [request EXCEPT ![r].lease = TTL] ELSE request
  /\ UNCHANGED <<instance, attempt, reservation, account, adjusted, excused>>

\* One beat of maintain_lease: the request row, then all its open attempts.
renew_lease(r) ==
  /\ request[r].state # "absent" /\ instance[request[r].owner] = "live"
  /\ request' = IF request[r].state = "started"
                THEN [request EXCEPT ![r].lease = TTL] ELSE request
  /\ attempt' = [a \in Attempts |->
       IF attempt[a].request = r /\ attempt[a].state = "started"
       THEN [attempt[a] EXCEPT !.lease = TTL] ELSE attempt[a]]
  /\ UNCHANGED <<instance, reservation, account, adjusted, excused>>

-----------------------------------------------------------------------------
(* The reconciler, the administrator, and the environment.                 *)

\* Mutant: a process reconciles only the attempts of running processes.
ExpiredAttempts_of_live ==
  {a \in Attempts : /\ attempt[a].state = "started" /\ attempt[a].lease = 0
                    /\ instance[attempt[a].owner] = "live"}

ExpiredAttempts == {a \in Attempts : attempt[a].state = "started" /\ attempt[a].lease = 0}

ExpiredRequests == {r \in Requests : request[r].state = "started" /\ request[r].lease = 0}

\* Open reservations of tenant t that release_budget_pg closes.
Released(t) == ExpiredAttempts \cap Rows(t, "reserved")

\* Mutant: reconciliation ends the rows without releasing their budget.
reconcile_rows_without_release ==
  /\ attempt' = [a \in Attempts |->
       IF a \in ExpiredAttempts
       THEN [attempt[a] EXCEPT !.state = "failed", !.billing = "unreconciled"]
       ELSE attempt[a]]
  /\ request' = [r \in Requests |->
       IF r \in ExpiredRequests
       THEN [request[r] EXCEPT !.state = "failed", !.chargeable = FALSE]
       ELSE request[r]]
  /\ UNCHANGED <<reservation, account>>

\* reconcile_expired: expired attempts become failed, unreconciled and
\* uncharged and release their reservations; then expired requests likewise.
\* The two sets are selected independently of each other.
reconcile_rows ==
  /\ \A t \in Tenants : account[t].reserved >= Total(Released(t), Amount)
  /\ attempt' = [a \in Attempts |->
       IF a \in ExpiredAttempts
       THEN [attempt[a] EXCEPT !.state = "failed", !.billing = "unreconciled"]
       ELSE attempt[a]]
  /\ reservation' = [a \in Attempts |->
       IF a \in ExpiredAttempts /\ reservation[a].state = "reserved"
       THEN [reservation[a] EXCEPT !.state = "released"] ELSE reservation[a]]
  /\ account' = [t \in Tenants |->
       [account[t] EXCEPT !.reserved = @ - Total(Released(t), Amount)]]
  /\ request' = [r \in Requests |->
       IF r \in ExpiredRequests
       THEN [request[r] EXCEPT !.state = "failed", !.chargeable = FALSE]
       ELSE request[r]]

\* A beat of spawn_reconciler in a running process.
reconcile_expired(i) ==
  /\ instance[i] = "live"
  /\ ExpiredAttempts # {} \/ ExpiredRequests # {}
  /\ reconcile_rows
  /\ UNCHANGED <<instance, adjusted, excused>>

\* serve(): a process reconciles before it accepts traffic.
start(i) ==
  /\ instance[i] = "new"
  /\ reconcile_rows
  /\ instance' = [instance EXCEPT ![i] = "live"]
  /\ UNCHANGED <<adjusted, excused>>

\* A process dies: its handles are gone and its open transactions roll back.
\* Its id is never used again.
crash(i) ==
  /\ instance[i] = "live"
  /\ instance' = [instance EXCEPT ![i] = "dead"]
  /\ attempt' = [a \in Attempts |->
       IF attempt[a].state = "opening" /\ attempt[a].owner = i
       THEN NoAttempt ELSE attempt[a]]
  /\ UNCHANGED <<request, reservation, account, adjusted, excused>>

\* The administrator's limit replaces the old one without looking at spend.
update_budget(t, limit) ==
  /\ account' = [account EXCEPT ![t].limit = limit]
  /\ excused' = [excused EXCEPT ![t] =
       IF limit = NoLimit THEN 0
       ELSE Excess(account[t].settled + account[t].reserved, limit)]
  /\ UNCHANGED <<instance, request, attempt, reservation, adjusted>>

\* Mutant: the adjustment is not checked against a negative balance.
adjust_budget_unchecked(t, delta) ==
  /\ account[t].settled + delta <= MaxMicrounits
  /\ account' = [account EXCEPT ![t].settled = @ + delta]
  /\ adjusted' = [adjusted EXCEPT ![t] = @ + delta]
  /\ excused' = [excused EXCEPT ![t] = Excess(@ + delta, 0)]
  /\ UNCHANGED <<instance, request, attempt, reservation>>

\* An append-only correction of settled spend; it may not become negative.
adjust_budget(t, delta) ==
  /\ account[t].settled + delta \in 0..MaxMicrounits
  /\ account' = [account EXCEPT ![t].settled = @ + delta]
  /\ adjusted' = [adjusted EXCEPT ![t] = @ + delta]
  /\ excused' = [excused EXCEPT ![t] = Excess(@ + delta, 0)]
  /\ UNCHANGED <<instance, request, attempt, reservation>>

\* The database clock advances: every open lease is one tick closer to its
\* lease_expires_at, which it has reached at 0.
tick ==
  /\ request' = [r \in Requests |-> [request[r] EXCEPT !.lease = Excess(@, 1)]]
  /\ attempt' = [a \in Attempts |-> [attempt[a] EXCEPT !.lease = Excess(@, 1)]]
  /\ UNCHANGED <<instance, reservation, account, adjusted, excused>>

DataPlane ==
  \/ \E i \in Instances, r \in Requests, t \in Tenants, k \in Keys \cup {NoKey} :
       begin_request(i, r, t, k)
  \/ \E i \in Instances, a \in Attempts, r \in Requests, e \in Estimates :
       begin_attempt_insert(i, a, r, e)
  \/ \E a \in Attempts : begin_attempt_commit(a) \/ begin_attempt_rollback(a)
  \/ \E a \in Attempts, o \in Terminal, c \in Costs : finalize_attempt(a, o, c)
  \/ \E r \in Requests, o \in Terminal, c \in Costs, b \in BOOLEAN :
       finalize_request(r, o, c, b)
  \/ \E r \in Requests : renew_lease(r)

Operator ==
  \/ \E i \in Instances : reconcile_expired(i) \/ start(i) \/ crash(i)
  \/ \E t \in Tenants, l \in Limits \cup {NoLimit} : update_budget(t, l)
  \/ \E t \in Tenants, d \in Deltas : adjust_budget(t, d)

Next == DataPlane \/ Operator \/ tick

Spec == Init /\ [][Next]_vars

-----------------------------------------------------------------------------
(* Properties.                                                             *)

RequestRows ==
  [state : {"absent", "started"} \cup Terminal, tenant : Tenants \cup {None},
   owner : Instances \cup {None}, lease : 0..TTL, key : Keys \cup {NoKey},
   cost : Costs \cup {0}, chargeable : BOOLEAN]

AttemptRows ==
  [state : {"absent", "opening", "started"} \cup Terminal,
   request : Requests \cup {None}, owner : Instances \cup {None}, lease : 0..TTL,
   estimate : Estimates \cup {0}, cost : Costs \cup {0},
   billing : {"none", "reported", "unreconciled"}]

ReservationRows ==
  [state : {"none", "reserved", "settled", "released"}, tenant : Tenants \cup {None},
   amount : Estimates \cup {0}, settled : Costs \cup {0}]

Accounts == [limit : Limits \cup {NoLimit}, reserved : 0..MaxMicrounits,
             settled : 0..MaxMicrounits]

\* Every row has the columns of its table, and the CHECK constraints of the
\* migrations (no negative limit, reserved or settled amount) hold.
TypeOK ==
  /\ instance \in [Instances -> {"new", "live", "dead"}]
  /\ request \in [Requests -> RequestRows]
  /\ attempt \in [Attempts -> AttemptRows]
  /\ reservation \in [Attempts -> ReservationRows]
  /\ account \in [Tenants -> Accounts]
  /\ adjusted \in [Tenants -> Int]
  /\ excused \in [Tenants -> Nat]

\* The reserved counter of an account is the sum of its open reservations and
\* the settled counter is the sum of its settlements and adjustments, across
\* concurrent attempts, crashes and reconciliation.  It is what makes the
\* `reserved_microunits >= $1` guards of settle and release always hold.
BudgetConserved ==
  \A t \in Tenants :
    /\ account[t].reserved = Total(Rows(t, "reserved"), Amount)
    /\ account[t].settled = Total(Rows(t, "settled"), Settled) + adjusted[t]

\* "Distributed hard admission control": spend plus reservations exceed the
\* limit only by what settled above its estimate or an administrator caused.
HardAdmission ==
  \A t \in Tenants : account[t].limit # NoLimit =>
    account[t].settled + account[t].reserved
      <= account[t].limit + Total(Rows(t, "settled"), Overrun) + excused[t]

\* An attempt holds budget exactly while it is started, is charged exactly
\* when its owner reported an outcome, and loses its hold exactly when it was
\* reconciled: the two rows of finalize_attempt and reconcile_expired agree.
AttemptMatchesReservation ==
  \A a \in Attempts :
    /\ attempt[a].state \in {"absent", "opening"} <=> reservation[a].state = "none"
    /\ attempt[a].state = "started" <=> reservation[a].state = "reserved"
    /\ attempt[a].billing = "reported" <=> reservation[a].state = "settled"
    /\ attempt[a].billing = "unreconciled" <=> reservation[a].state = "released"
    /\ reservation[a].state = "settled" => reservation[a].settled = attempt[a].cost
    /\ reservation[a].state # "none" =>
         reservation[a].tenant = request[attempt[a].request].tenant

\* A settled or released reservation and a terminal attempt or request row
\* never change again: a late finalize_attempt after reconciliation, a second
\* finalization or a late heartbeat is a no-op.
HistoryIsFinal ==
  [][/\ \A a \in Attempts :
          reservation[a].state \in {"settled", "released"} =>
            reservation'[a] = reservation[a] /\ attempt'[a] = attempt[a]
     /\ \A r \in Requests : request[r].state \in Terminal => request'[r] = request[r]]_vars

\* The budget held by an attempt whose process died is given back, as long as
\* some process stays up to reconcile.
OrphansReleased ==
  (\E i \in Instances : <>[](instance[i] = "live")) =>
    \A a \in Attempts :
      (attempt[a].state = "started" /\ instance[attempt[a].owner] = "dead")
        ~> (reservation[a].state = "released")
-----------------------------------------------------------------------------
(* Refinement.                                                             *)

Promise == INSTANCE BudgetAccount WITH
  hold <- reservation, limit <- [t \in Tenants |-> account[t].limit]

\* The transactions of the ledger, with its counters, leases, crashes and
\* reconciler, implement the account that admits, settles and releases holds
\* against exact totals.
KeepsPromise == Promise!Spec
=============================================================================
