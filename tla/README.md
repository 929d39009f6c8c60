# A TLA+ verification of the ModelPort gateway

ModelPort is an LLM gateway written in Rust (`src/src/`). Clients send
inference requests; the gateway authenticates them, plans a list of candidate
Providers, tries them in order, streams or returns the answer, and keeps a
relational ledger of what was sent and what it cost against hard budgets.
Administrators change users, keys, Providers and policies through documents
that several gateway processes share in one PostgreSQL database.

This directory holds TLA+ modules of the stateful parts, the TLC models that
check them on small instances, and TLAPS proofs of the properties of the
ledger for every size. `PROJECT.json` maps each definition to the lines it
models and lists runs, mutants, hazards, findings and theorems.

## The parts of the system

| Part | Source | Model |
|---|---|---|
| Request and attempt ledger, hard budgets, leases | `enterprise_ledger.rs` | `Ledger`, `BudgetAccount`, `Money` |
| Inference handler, retry, fallback, tool repair, stream finalizer | `routes/client_api.rs` | `Inference` (composed with `Ledger`) |
| Local inference scheduler | `governance.rs` | `LocalScheduler` |
| Versioned documents, readiness, restore | `storage.rs`, `auth.rs`, `control.rs`, `governance.rs`, `cli.rs` | `StateStore` |
| Two-person change requests | `governance.rs`, `routes/governance.rs`, `routes.rs` | `Governance` |
| Hybrid project policy, attempt ordering | `governance.rs` | planned |
| Stream lifecycle, shutdown drain | `stream_lifecycle.rs`, `finalization.rs`, `server.rs` | planned |
| Administrator login, lockout, sessions; OIDC | `auth.rs`, `oidc.rs` | planned |
| API keys, Provider health, credential pools | `control.rs` | planned |
| Rate limiter | `routes.rs` | planned |
| Quotas and spend policy | `enterprise_ledger.rs` | planned |
| Smart router | `smart_router.rs` | filter planned; scoring is floating point |
| SSE translators | `providers/openai_stream.rs`, `providers/openai_client_stream.rs` | planned |
| Exchange types and protocol translation | `exchange.rs`, `types.rs`, `fidelity.rs`, `tool_use.rs`, `providers/` | not modelled: conversions of JSON trees without shared state |
| Configuration | `config.rs`, `domain.rs`, `deployment.rs` | not modelled: parsing and validation |
| HTTP client, database pool, pricing, metrics, views, dashboard | `http.rs`, `database.rs`, `pricing.rs`, `metrics.rs`, ... | not modelled: I/O, tables and formatting; their outcomes are inputs of the modules above |
| Java gateway | `java-gateway/` | planned: an independent second implementation |

How they interact: a request is accepted by a process, which writes a request
row and keeps its lease alive; each attempt first passes the policy and the
local scheduler, then reserves budget in the ledger, then calls the Provider,
then settles; the answer's body may outlive the handler, in which case a
finalizer writes the last rows. A reconciler in every process ends the rows of
processes that died. Policies, users and keys come from the documents of
`StateStore`; a high-risk change of them needs an approved change request.

## Modules

**`Money`** defines sums of amounts over sets of rows. `Total(S, f)` is the
cardinality of the set of units `<<x, n>>` with `n` up to `f[x]`, so that the
provers can reason about it without recursion.

**`Ledger`** has a variable per table (`request`, `attempt`, `reservation`,
`account`), the state of each process (`instance`), and two history variables
that only properties read: `adjusted`, what administrators added to an account,
and `excused`, what an administrator's change allows it to exceed its limit by.
An action is one transaction: `begin_request`, `finalize_attempt`,
`finalize_request`, `renew_lease`, `reconcile_expired`, `update_budget`,
`adjust_budget`. `begin_attempt` is two steps, the insert and the conditional
`UPDATE` that takes the reservation, because other transactions on the account
come between them. A lease is the number of clock ticks until it expires.
`crash` and `start` stop and start a process at any point.

**`BudgetAccount`** is what the ledger promises, without rows: an account with
reserve, settle, release, limit and adjustment. `Ledger!KeepsPromise` is its
specification under a refinement mapping.

**`Inference`** adds to `Ledger` the flow of each request through
`handle_inference` (`flow[r].pc`) and the usage each attempt really had
(`usage`, a history variable). Its actions conjoin a step of the handler with
the ledger transaction it makes. The candidate list is a count: which Provider
is next does not matter to the books. Refusals before sending (overflow
to the cloud, no credential, quota, spend policy, validation, rate limit) are
`refuse`, a refusal by the local scheduler is `break`; errors of the Provider
are results of `replied`; the client may disconnect at any point; `heartbeat`
is `maintain_lease`.

**`LocalScheduler`** follows `acquire` critical section by critical section,
with the semaphore, the per-user counters, both queues, `Notify` permits,
deadlines, cancellation of the future and the `Drop` of the lease.

**`StateStore`** models the compare-and-swap of whole documents: the worker
thread's statement in flight (it may be executed after its process gave up or
died), the process's copy with its roll-back, `persistence_degraded`, readiness
checks as the two reads they are, first start on an empty database and the
`restore` command. A document is the sequence of the updates it contains. What
stores keep in memory only (sessions, login attempts, Provider health) is left
out. The file back end is not modelled.

**`Governance`** models change requests in the governance document and the
handlers that check an approval, carry out its effect and record it, in the
separate critical sections the code uses, with failed saves and restarts.

**`MoneyTheorems`, `LedgerProofs`, `LedgerRefinement`, `InferenceProofs`** hold
the proofs. Modules named `MC...` only add symmetry sets and constant
definitions for TLC. Definitions marked `Mutant` are faulty variants of the
definition after them; no specification uses them.

## What the runs show

| Run | Question | Bounds |
|---|---|---|
| `ledger` | books, admission, agreement of rows, finality, refinement of the abstract account | 2 processes, 1 request, 2 attempts, amounts 1..2, limit 3, adjustments of one, counter maximum 4, lease 1 |
| `inference` | totals of completed requests, charge only for sent attempts, own usage of buffered attempts, every step is a ledger step | 1 request, 3 attempts, 2 candidates, 2 processes, lease 1, late heartbeats |
| `inference_ends` | the reconciler never ends what is being served if heartbeats are on time; every row ends; the budget of a dead process's attempt is given back | 2 attempts, 1 candidate, 2 processes, lease of 3 ticks, a heartbeat in each |
| `inference_idempotency` | one request per key ever sends, also after a crash | 2 requests, 1 key, 1 process that may restart, lease 1 |
| `local_scheduler` | one execution, counters agree with queues, no lost wake-up, order | 3 calls, 2 users, 2 interactive and 1 batch places |
| `local_scheduler_live` | nobody queued is stranded | 3 calls, 2 users, connected callers |
| `state_store` | served documents are committed ones, ready means current, no lost update | 2 processes, 1 document, 2 updates |
| `state_store_restore` | restore keeps a copy and is all or nothing; a process that is behind is flagged | 1 process, 3 documents, 1 update, the command |
| `governance` | no effect without two administrators, no policy without its record, applied is final | 3 administrators, 2 changes, 3 handlers |

Why the bounds are enough for the cases that matter: two attempts compete for
a limit of 3 with amounts of 1 and 2, so both fitting, one fitting and an
overrun all occur; two processes give a dead owner and a live reconciler; three
attempts with two candidates give a retry, a fallback and a tool repair in one
request; three calls give a holder, a front and one behind it; two updates from
two processes give every conflict between a pair of writers. `inference_idempotency` has one process
because the key is checked in the database, which does not know which process
asks; a restart of that process separates the two requests.

The remaining runs end in a counterexample; each is a finding in
`PROJECT.json`:

- `inference_attempt_usage`: after a fallback, a streaming attempt's own row is
  charged with the usage of the failed attempts as well (`docs/API.md:628`).
- `local_scheduler_cancel`: a caller that disconnects while queued leaves its
  entry and its count behind (`docs/adr/0005`, line 56).
- `governance_reuse`: two handlers that passed the check both carry out one
  approved change (`docs/API.md:478`).

Deadlock is checked in `ledger`, where the clock can always tick. It is not in
the other runs: their requests, calls and updates are used up and the system
may then stop.

## Fairness

- Inference (and with it the ledger): each awaited call returns, because the
  pool, the Provider call and an idle stream have timeouts; the clock ticks; a
  process that stays up keeps reconciling (`spawn_reconciler` is a loop over an
  interval). No fairness is assumed of heartbeats, clients or restarts; in
  `inference_ends` the clock waits for the heartbeat due in each tick, the
  punctuality that `maintain_lease`'s interval of a third of the lease aims at.
  The two liveness properties assume that some process stays up.
- LocalScheduler: tasks are scheduled and a lease is eventually dropped. No
  deadline is assumed to pass, and callers stay connected.
- StateStore: readiness is polled, and its read of the database succeeds again
  and again (strong fairness: the database may fail in between).

## What is proved

For any sets of tenants, processes, requests, keys and amounts, any lease and
any finite set of attempts, under the assumptions `MaxAssumption`,
`AmountsAssumption`, `LimitsAssumption`, `DeltasAssumption`, `TTLAssumption`,
`NullAssumption`, `FiniteAssumption` of `Ledger` and `CandidatesAssumption`,
`UsagesAssumption`, `PunctualAssumption`, `NoneAssumption` of `Inference`:

- `TypeCorrect`: `Spec => []TypeOK`.
- `Invariant`: `Spec => []IInv`, with
  `IInv == Shape /\ AttemptMatchesReservation /\ Books`.
- `Conservation`, `Admission`, `Agreement`: `BudgetConserved`, `HardAdmission`
  and `AttemptMatchesReservation` from `IInv`.
- `Finality`: `HistoryIsFinal`, with the further invariant that rows which have
  ended carry no lease.
- `Refinement`: `Spec => KeepsPromise`.
- `Composition`: `ISpec => UsesLedger`; each step of the gateway is a step of
  the ledger or leaves it alone.
- `GatewayBooks`: the gateway inherits conservation, admission and agreement.

The argument: conservation alone is not inductive. Releasing an expired
reservation lowers the counter by the sum of the released amounts, which is
right only if the reservations of expired attempts are exactly open ones of the
same tenant; hence `AttemptMatchesReservation`. That in turn needs that rows
refer to rows which exist (`Linked`, part of `Shape`). `Books` joins
conservation with admission. The sums are handled by `MoneyTheorems`: the total
of a disjoint union, of a set without one element, and after one function value
changed.

Only model-checked: all liveness properties, the properties of `Inference` about
totals and keys, and everything about `LocalScheduler`, `StateStore` and
`Governance`. Liveness under fairness, `ENABLED`, induction over data and
`RECURSIVE` operators are outside what the prover can do here.

## Observations without a run

- When an attempt fails and every later candidate is refused before it is sent,
  the failed attempt is in the request total twice: the loop has merged it into
  `prior_attempt_usage`, and `RequestCost` adds the estimate of the last sent
  attempt. `docs/API.md:624` speaks of totals that "include every sent attempt".
  `CompletedTotalsExact` is therefore stated for completed requests only.
- `GovernanceStore::is_ready` never reads PostgreSQL, while
  `docs/OPERATIONS.md:47` says that `/readyz` verifies that governance storage
  can be reached. `Probed` is the set of documents whose check does.
- A readiness check reads the persisted revision without the mutex and then
  loads the local one (`auth.rs:601`). If a write of the same process commits in
  between, the store is marked degraded until its next write although nothing
  failed.
- A failed last attempt whose tool use was rejected is charged with the
  Provider's usage in its row and with the estimate in the request total.
- The lease of a request can expire before that of an attempt opened later; the
  next heartbeat that finds the request ended does nothing.
- `renew_lease` locks a request and then its attempts, `reconcile_expired`
  attempts and then requests. PostgreSQL breaks such a deadlock by aborting one;
  `Ledger` has transactions as atomic steps and does not show it.
- If the answer to a compare-and-swap that committed is lost, the process keeps
  its old revision and conflicts until it restarts.
- `acquire`'s fast path can pass callers that are already queued.

## Plan

1. Stream lifecycle and shutdown drain (`finalization.rs`), composed with the
   finalizer of `Inference`.
2. Login, lockout, sessions and OIDC states; credential pools and cooldowns;
   rate limiter.
3. Hybrid policy and candidate filter as operators against reference
   definitions; SSE translators; quotas on top of `Ledger`.
4. Lock-level model of the ledger's transactions.
5. The Java gateway: budget, idempotency, circuit breaker.
6. Proofs: `NoLostUpdate` and `MemoryIsCommitted`, `TwoAdministrators`,
   `OneLocalExecution`, `OnlySentIsCharged`, `LiveIsNotReconciled`.
