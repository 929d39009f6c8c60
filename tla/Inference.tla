------------------------------ MODULE Inference ------------------------------
(***************************************************************************)
(* The inference handler of src/src/routes/client_api.rs driving the       *)
(* ledger: the loop over Provider candidates with retry, fallback and one  *)
(* tool-argument repair, the stream body with its finalizer, the lease     *)
(* heartbeat, client disconnects and process crashes.  Every await is a    *)
(* step boundary.                                                          *)
(***************************************************************************)
EXTENDS Ledger

CONSTANTS
  Candidates,     \* how many authorized candidates a request starts with
  Usages,         \* costs of the usage a Provider may report
  Punctual        \* TRUE: heartbeats and transactions keep up with the clock

ASSUME CandidatesAssumption == Candidates \in Nat
ASSUME UsagesAssumption == Usages \subseteq Nat /\ Costs = 0..MaxMicrounits
ASSUME PunctualAssumption == Punctual \in BOOLEAN
ASSUME NoneAssumption == None \notin Attempts

VARIABLES
  flow,   \* the handler or stream body serving a request
  usage   \* history: what each attempt itself consumed

ivars == <<flow, usage>>

allvars == <<vars, ivars>>

\* pc: "idle"; "ready" at the head of the attempt loop; "opening", "calling",
\* "settling" while begin_attempt, the Provider and finalize_attempt are
\* awaited; "finishing" in finalize_request_usage; "streaming" once the body
\* is the client's; "closing", "closed" before the two awaits of the spawned
\* stream finalizer; "done"; "gone" when the future was dropped.
Idle == [pc |-> "idle", stream |-> FALSE, left |-> 0, repair |-> FALSE,
         repaired |-> FALSE, cur |-> None, last |-> None, estimate |-> 0,
         prior |-> 0, charge |-> 0, result |-> "none", beat |-> FALSE]

\* Mutant: the lease outlives the handler.
Beating_after_done == {"ready", "opening", "calling", "settling", "finishing",
                       "streaming", "closing", "closed", "done"}

\* The handler holds the LedgerLease, so its heartbeat task runs.
Beating == {"ready", "opening", "calling", "settling", "finishing",
            "streaming", "closing", "closed"}

InHandler == {"ready", "opening", "calling", "settling", "finishing"}

\* Mutant: the conversion does not saturate.
cost_microunits_unbounded(c) == c

\* cost_microunits saturates.
cost_microunits(c) == IF c > MaxMicrounits THEN MaxMicrounits ELSE c

IInit ==
  /\ Init
  /\ flow = [r \in Requests |-> Idle]
  /\ usage = [a \in Attempts |-> 0]

-----------------------------------------------------------------------------
(* The handler.                                                            *)

\* Admission ends with the request row; the client sees 409 on a conflict.
accept(i, r, t, k, stream) ==
  /\ flow[r].pc = "idle"
  /\ begin_request(i, r, t, k)
  /\ flow' = [flow EXCEPT ![r] = [Idle EXCEPT !.pc = "ready", !.stream = stream,
                                              !.left = Candidates, !.beat = TRUE]]
  /\ UNCHANGED usage

\* Mutant: a repair uses up a Provider as well.
Pop_always_left(f) == [f EXCEPT !.repair = FALSE, !.left = @ - 1]

\* The next candidate is taken off the front: the repair, or a Provider.
Pop(f) == [f EXCEPT !.repair = FALSE, !.left = IF f.repair THEN @ ELSE @ - 1]

\* A candidate is refused before it is sent: credential, quota, spend policy,
\* validation or rate limit; or local admission overflows to the cloud.  The
\* loop continues.
refuse(r) ==
  /\ flow[r].pc = "ready" /\ (flow[r].repair \/ flow[r].left > 0)
  /\ flow' = [flow EXCEPT ![r] = [Pop(flow[r]) EXCEPT !.result = "refused"]]
  /\ UNCHANGED <<vars, usage>>

\* Local admission or begin_attempt fails: the loop breaks.
break(r) ==
  /\ flow[r].pc = "ready" /\ (flow[r].repair \/ flow[r].left > 0)
  /\ flow' = [flow EXCEPT ![r] = [@ EXCEPT !.pc = "finishing", !.result = "refused"]]
  /\ UNCHANGED <<vars, usage>>

exhaust(r) ==
  /\ flow[r].pc = "ready" /\ ~flow[r].repair /\ flow[r].left = 0
  /\ flow' = [flow EXCEPT ![r].pc = "finishing"]
  /\ UNCHANGED <<vars, usage>>

open(r, a, e) ==
  /\ flow[r].pc = "ready" /\ (flow[r].repair \/ flow[r].left > 0)
  /\ begin_attempt_insert(request[r].owner, a, r, e)
  /\ flow' = [flow EXCEPT ![r] = [Pop(flow[r]) EXCEPT !.pc = "opening", !.cur = a]]
  /\ UNCHANGED usage

\* begin_attempt returned Ok: the attempt counts as sent.
opened(r) ==
  LET a == flow[r].cur IN
  /\ flow[r].pc = "opening"
  /\ begin_attempt_commit(a)
  /\ flow' = [flow EXCEPT ![r] = [@ EXCEPT !.pc = "calling", !.last = a,
                                               !.estimate = attempt[a].estimate]]
  /\ usage' = [usage EXCEPT ![a] = attempt[a].estimate]

\* begin_attempt returned an error: the transaction rolled back, or committed
\* and the answer to COMMIT was lost.
open_failed(r) ==
  /\ flow[r].pc = "opening"
  /\ begin_attempt_rollback(flow[r].cur) \/ begin_attempt_commit(flow[r].cur)
  /\ flow' = [flow EXCEPT ![r] = [@ EXCEPT !.pc = "finishing", !.result = "refused"]]
  /\ UNCHANGED usage

\* The Provider answered.  Its answer decides the charge of the attempt:
\* usage it reported (u) or else the local estimate.
replied(r, result, u) ==
  /\ flow[r].pc = "calling"
  /\ result \in {"failed", "rejected"} => u = flow[r].estimate
  /\ IF flow[r].stream /\ result = "ok"
     THEN /\ flow' = [flow EXCEPT ![r] = [@ EXCEPT !.pc = "streaming", !.result = "ok"]]
          /\ UNCHANGED usage
     ELSE /\ flow' = [flow EXCEPT ![r] = [@ EXCEPT !.pc = "settling", !.result = result,
                                                       !.charge = u]]
          /\ usage' = [usage EXCEPT ![flow[r].cur] = u]
  /\ UNCHANGED vars

\* Mutant: the usage of the attempt that is repaired is not carried over.
Decide_dropping_repaired_usage(f, repair_enabled) ==
  IF f.result = "ok" THEN [f EXCEPT !.pc = "finishing"]
  ELSE IF f.result = "tool" /\ repair_enabled /\ ~f.repaired
  THEN [f EXCEPT !.pc = "ready", !.repair = TRUE, !.repaired = TRUE]
  ELSE IF f.result = "rejected" \/ f.left = 0 THEN [f EXCEPT !.pc = "finishing"]
  ELSE [f EXCEPT !.pc = "ready", !.prior = f.prior + f.charge]

\* What the loop does with the result of an attempt it sent: stop, repair the
\* tool arguments once with the same Provider, or fall back.
Decide(f, repair_enabled) ==
  IF f.result = "ok" THEN [f EXCEPT !.pc = "finishing"]
  ELSE IF f.result = "tool" /\ repair_enabled /\ ~f.repaired
  THEN [f EXCEPT !.pc = "ready", !.repair = TRUE, !.repaired = TRUE,
                 !.prior = f.prior + f.charge]
  ELSE IF f.result = "rejected" \/ f.left = 0 THEN [f EXCEPT !.pc = "finishing"]
  ELSE [f EXCEPT !.pc = "ready", !.prior = f.prior + f.charge]

\* Mutant: a buffered attempt is charged with the usage of the request so far.
settled_cumulative(r, repair_enabled) ==
  /\ flow[r].pc = "settling"
  /\ repair_enabled => ~flow[r].stream
  /\ \/ finalize_attempt(flow[r].cur, IF flow[r].result = "ok" THEN "completed" ELSE "failed",
                         cost_microunits(flow[r].prior + flow[r].charge))
     \/ UNCHANGED vars
  /\ flow' = [flow EXCEPT ![r] = Decide(flow[r], repair_enabled)]
  /\ UNCHANGED usage

\* finalize_attempt returned, with or without an error (an error is logged).
settled(r, repair_enabled) ==
  /\ flow[r].pc = "settling"
  /\ repair_enabled => ~flow[r].stream
  /\ \/ finalize_attempt(flow[r].cur, IF flow[r].result = "ok" THEN "completed" ELSE "failed",
                         cost_microunits(flow[r].charge))
     \/ UNCHANGED vars
  /\ flow' = [flow EXCEPT ![r] = Decide(flow[r], repair_enabled)]
  /\ UNCHANGED usage

\* Usage of the request: the attempts before the last sent one plus what the
\* successful response reported, or else the estimate of the last sent one.
RequestCost(f) ==
  cost_microunits(f.prior + IF f.result = "ok" THEN f.charge ELSE f.estimate)

\* Mutant: a request is chargeable whether or not an attempt was sent.
finish_always_chargeable(r) ==
  /\ flow[r].pc = "finishing"
  /\ \/ finalize_request(r, IF flow[r].result = "ok" THEN "completed" ELSE "failed",
                         RequestCost(flow[r]), TRUE)
     \/ UNCHANGED vars
  /\ flow' = [flow EXCEPT ![r].pc = "done"]
  /\ UNCHANGED usage

finish(r) ==
  /\ flow[r].pc = "finishing"
  /\ \/ finalize_request(r, IF flow[r].result = "ok" THEN "completed" ELSE "failed",
                         RequestCost(flow[r]), flow[r].last # None)
     \/ UNCHANGED vars
  /\ flow' = [flow EXCEPT ![r].pc = "done"]
  /\ UNCHANGED usage
-----------------------------------------------------------------------------
(* The stream body and its finalizer.                                      *)

\* The body ended, failed, or was dropped by the client.  The guard's context
\* is taken once and moved into a spawned task.  Usage observed on the stream
\* (or else the estimate) is merged with that of the earlier attempts.
stream_finish(r, result, u) ==
  /\ flow[r].pc = "streaming"
  /\ flow' = [flow EXCEPT ![r] = [@ EXCEPT !.pc = "closing", !.result = result,
                                               !.charge = flow[r].prior + u]]
  /\ usage' = [usage EXCEPT ![flow[r].cur] = u]
  /\ UNCHANGED vars

\* The finalizer's finalize_attempt, given the usage of the whole request.
close_attempt(r) ==
  /\ flow[r].pc = "closing"
  /\ \/ finalize_attempt(flow[r].cur, flow[r].result, cost_microunits(flow[r].charge))
     \/ UNCHANGED vars
  /\ flow' = [flow EXCEPT ![r].pc = "closed"]
  /\ UNCHANGED usage

\* The finalizer's finalize_request_usage; then the lease is dropped.
close_request(r) ==
  /\ flow[r].pc = "closed"
  /\ \/ finalize_request(r, flow[r].result, cost_microunits(flow[r].charge), TRUE)
     \/ UNCHANGED vars
  /\ flow' = [flow EXCEPT ![r].pc = "done"]
  /\ UNCHANGED usage

-----------------------------------------------------------------------------
(* Lease heartbeat, disconnects, crashes, time.                            *)

\* maintain_lease wakes every TTL/3 while the LedgerLease is held.
heartbeat(r) ==
  /\ flow[r].pc \in Beating
  /\ renew_lease(r)
  /\ flow' = [flow EXCEPT ![r].beat = TRUE]
  /\ UNCHANGED usage

\* The client disconnects before the response: the handler's future is
\* dropped at an await, and with it the lease.  An open transaction is rolled
\* back; a COMMIT already sent may still take effect.
disconnect(r) ==
  /\ flow[r].pc \in InHandler
  /\ IF flow[r].pc = "opening"
     THEN begin_attempt_rollback(flow[r].cur) \/ begin_attempt_commit(flow[r].cur)
     ELSE UNCHANGED vars
  /\ flow' = [flow EXCEPT ![r].pc = "gone"]
  /\ UNCHANGED usage

process_crash(i) ==
  /\ crash(i)
  /\ flow' = [r \in Requests |->
       IF request[r].owner = i /\ flow[r].pc \in Beating
       THEN [flow[r] EXCEPT !.pc = "gone"] ELSE flow[r]]
  /\ UNCHANGED usage

\* A tick is a heartbeat interval.  Every running flow beat since the last one
\* and no transaction of begin_attempt has been open for longer than one.
OnTime ==
  /\ \A r \in Requests : flow[r].pc \in Beating => flow[r].beat
  /\ \A a \in Attempts : attempt[a].state = "opening" => attempt[a].lease = TTL

clock ==
  /\ Punctual => OnTime
  /\ tick
  /\ flow' = [r \in Requests |-> [flow[r] EXCEPT !.beat = FALSE]]
  /\ UNCHANGED usage

Handler(r) ==
  \/ refuse(r) \/ break(r) \/ exhaust(r)
  \/ \E a \in Attempts, e \in Estimates : open(r, a, e)
  \/ opened(r) \/ open_failed(r)
  \/ \E result \in {"ok", "tool", "failed", "rejected"}, u \in Usages \cup Estimates :
       replied(r, result, u)
  \/ \E repair_enabled \in BOOLEAN : settled(r, repair_enabled)
  \/ finish(r)

Body(r) ==
  \/ \E result \in Terminal, u \in Usages \cup {flow[r].estimate} :
       stream_finish(r, result, u)
  \/ close_attempt(r) \/ close_request(r)

Environment ==
  \/ \E i \in Instances : process_crash(i)
  \/ \E i \in Instances : (start(i) \/ reconcile_expired(i)) /\ UNCHANGED ivars
  \/ clock

\* The administrator's actions of Ledger touch no request, attempt or flow
\* and are left out; a refused reservation is a rollback of begin_attempt.
INext ==
  \/ \E i \in Instances, r \in Requests, t \in Tenants, k \in Keys \cup {NoKey},
       stream \in BOOLEAN : accept(i, r, t, k, stream)
  \/ \E r \in Requests : Handler(r) \/ Body(r) \/ heartbeat(r) \/ disconnect(r)
  \/ Environment

ISpec == IInit /\ [][INext]_allvars

\* Every awaited call returns (pool, transport and stream-idle timeouts), the
\* clock runs and a running process keeps reconciling.
IFairSpec ==
  /\ ISpec
  /\ \A r \in Requests : WF_allvars(Handler(r)) /\ WF_allvars(Body(r))
  /\ WF_allvars(clock)
  /\ \A i \in Instances : WF_allvars(reconcile_expired(i) /\ UNCHANGED ivars)

-----------------------------------------------------------------------------
(* Properties.                                                             *)

Sent(r) == {a \in Attempts : attempt[a].request = r /\ reservation[a].state # "none"}

Flows ==
  [pc : Beating \cup {"idle", "done", "gone"}, stream : BOOLEAN, left : 0..Candidates,
   repair : BOOLEAN, repaired : BOOLEAN, cur : Attempts \cup {None},
   last : Attempts \cup {None}, estimate : Nat, prior : Nat, charge : Nat,
   result : {"none", "ok", "tool", "failed", "rejected", "refused"} \cup Terminal,
   beat : BOOLEAN]

\* The flow of every request is in a state the handler can be in.
FlowOK ==
  /\ flow \in [Requests -> Flows]
  /\ usage \in [Attempts -> Nat]

\* Only a sent attempt is chargeable: a request is charged, and has a cost,
\* only if some attempt of it took a reservation, whatever refusals, errors,
\* fallbacks and disconnects came before.
OnlySentIsCharged ==
  \A r \in Requests :
    /\ request[r].chargeable => Sent(r) # {}
    /\ request[r].cost > 0 => request[r].chargeable

\* A client that repeats a request with the same Idempotency-Key, to any
\* process and after any crash, disconnect or reconciliation of the first,
\* never makes the gateway send attempts for both.
OneEgressPerKey ==
  \A q, r \in Requests :
    /\ q # r /\ request[q].key # NoKey
    /\ request[q].key = request[r].key /\ request[q].tenant = request[r].tenant
    => Sent(q) = {} \/ Sent(r) = {}

\* A completed request costs what all the attempts sent for it consumed, the
\* failed ones before a fallback and the tool-repair attempt included.
CompletedTotalsExact ==
  \A r \in Requests : request[r].state = "completed" =>
    request[r].cost = cost_microunits(Total(Sent(r), usage))

\* The row of a buffered attempt is charged with its own usage.
BufferedAttemptsKeepOwnUsage ==
  \A a \in Attempts :
    attempt[a].billing = "reported" /\ ~flow[attempt[a].request].stream =>
      attempt[a].cost = cost_microunits(usage[a])

\* With punctual heartbeats the reconciler never ends a request that is still
\* being served, streamed or finalized, or an attempt of one.
LiveIsNotReconciled ==
  Punctual => \A r \in Requests : flow[r].pc \in Beating =>
    /\ request[r].state = "started"
    /\ \A a \in Attempts : attempt[a].request = r => attempt[a].billing # "unreconciled"

\* The handler and the finalizer change ledger rows only in the ways a
\* transaction of the ledger can.
UsesLedger == Spec

\* As long as some process stays up, every request row and every attempt row
\* becomes terminal: by its handler, its stream finalizer or a reconciler.
EveryRowEnds ==
  (\E i \in Instances : <>[](instance[i] = "live")) =>
    /\ \A r \in Requests : (request[r].state = "started") ~> (request[r].state \in Terminal)
    /\ \A a \in Attempts : (attempt[a].state = "started") ~> (attempt[a].state \in Terminal)

\* docs/API.md: "Attempt rows retain their own usage provenance independently."
AttemptRowsKeepOwnUsage ==
  \A a \in Attempts : attempt[a].billing = "reported" =>
    attempt[a].cost = cost_microunits(usage[a])
=============================================================================
