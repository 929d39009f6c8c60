--------------------------- MODULE InferenceProofs ---------------------------
(***************************************************************************)
(* The handler uses the ledger as the ledger allows, so what is proved of  *)
(* the ledger holds of the gateway; and only sent attempts are charged.    *)
(***************************************************************************)
EXTENDS Inference, LedgerProofs

USE DEF Beating, InHandler

\* A flow that awaits or streams an attempt knows which one, and a stream
\* finalizer has a terminal outcome.
Wired ==
  \A r \in Requests :
    /\ flow[r].pc \in {"opening", "calling", "settling", "streaming", "closing", "closed"} =>
         flow[r].cur \in Attempts
    /\ flow[r].pc \in {"closing", "closed"} => flow[r].result \in Terminal

FlowInv == FlowOK /\ Wired

\* Whatever usage adds up to, what is charged is a cost the ledger can take.
LEMMA CostType ==
  ASSUME NEW c \in Nat
  PROVE  cost_microunits(c) \in Costs
BY UsagesAssumption, MaxAssumption DEF cost_microunits

\* Before the first request every flow is idle and consistent with the ledger.
LEMMA InitFlowInv == IInit => FlowInv
<1> SUFFICES ASSUME IInit PROVE FlowInv
  OBVIOUS
<1>1. Idle \in Flows
  BY CandidatesAssumption DEF Idle, Flows
<1>2. FlowOK
  BY <1>1 DEF IInit, FlowOK
<1>3. Wired
  BY DEF IInit, Wired, Idle
<1> QED BY <1>2, <1>3 DEF FlowInv

\* A step that replaces the flow of one request.
LEMMA FlowStep ==
  ASSUME FlowInv, NEW r \in Requests, NEW f \in Flows, flow' = [flow EXCEPT ![r] = f],
         usage' \in [Attempts -> Nat],
         f.pc \in {"opening", "calling", "settling", "streaming", "closing", "closed"} =>
           f.cur \in Attempts,
         f.pc \in {"closing", "closed"} => f.result \in Terminal
  PROVE  FlowInv'
<1>1. FlowOK'
  BY DEF FlowInv, FlowOK
<1>2. Wired'
  BY DEF FlowInv, FlowOK, Wired
<1> QED BY <1>1, <1>2 DEF FlowInv

\* Choosing the next candidate of handle_inference leaves a well-formed flow.
LEMMA PopType ==
  ASSUME NEW f \in Flows, f.repair \/ f.left > 0
  PROVE  /\ Pop(f) \in Flows
         /\ Pop(f).pc = f.pc /\ Pop(f).cur = f.cur /\ Pop(f).last = f.last
         /\ Pop(f).prior = f.prior /\ Pop(f).estimate = f.estimate /\ Pop(f).result = f.result
<1> DEFINE n == IF f.repair THEN f.left ELSE f.left - 1
<1>1. n \in 0..Candidates
  BY CandidatesAssumption DEF Flows
<1>2. Pop(f) = [f EXCEPT !.repair = FALSE, !.left = n]
  BY DEF Pop
<1> HIDE DEF n
<1> QED BY <1>1, <1>2 DEF Flows

\* The decision after a settled attempt (stop, retry or repair) leaves a
\* well-formed flow.
LEMMA DecideType ==
  ASSUME NEW f \in Flows, NEW b \in BOOLEAN
  PROVE  /\ Decide(f, b) \in Flows /\ Decide(f, b).pc \in {"ready", "finishing"}
         /\ Decide(f, b).last = f.last /\ Decide(f, b).estimate = f.estimate
         /\ Decide(f, b).result = f.result
<1>1. f.prior + f.charge \in Nat
  BY DEF Flows
<1>2. /\ [f EXCEPT !.pc = "finishing"] \in Flows
      /\ [f EXCEPT !.pc = "finishing"].pc = "finishing"
      /\ [f EXCEPT !.pc = "finishing"].last = f.last
      /\ [f EXCEPT !.pc = "finishing"].estimate = f.estimate
      /\ [f EXCEPT !.pc = "finishing"].result = f.result
  BY DEF Flows
<1> DEFINE g == [f EXCEPT !.pc = "ready", !.prior = f.prior + f.charge]
           h == [f EXCEPT !.pc = "ready", !.repair = TRUE, !.repaired = TRUE,
                          !.prior = f.prior + f.charge]
<1>3. g \in Flows /\ g.pc = "ready" /\ g.last = f.last /\ g.estimate = f.estimate
      /\ g.result = f.result
  BY <1>1 DEF Flows
<1>4. h \in Flows /\ h.pc = "ready" /\ h.last = f.last /\ h.estimate = f.estimate
      /\ h.result = f.result
  BY <1>1 DEF Flows
<1>5. Decide(f, b) \in {[f EXCEPT !.pc = "finishing"], g, h}
  BY DEF Decide
<1> HIDE DEF g, h
<1> QED BY <1>2, <1>3, <1>4, <1>5

\* handle_inference begins a request: a ledger step that keeps the flows
\* consistent.
LEMMA AcceptStep ==
  ASSUME FlowInv, NEW i \in Instances, NEW r \in Requests, NEW t \in Tenants,
         NEW k \in Keys \cup {NoKey}, NEW stream \in BOOLEAN, accept(i, r, t, k, stream)
  PROVE  FlowInv' /\ [Next]_vars
<1> DEFINE f == [Idle EXCEPT !.pc = "ready", !.stream = stream, !.left = Candidates, !.beat = TRUE]
<1>1. f \in Flows /\ f.pc = "ready"
  <2>1. Idle \in Flows /\ Candidates \in 0..Candidates
    BY CandidatesAssumption DEF Idle, Flows
  <2> QED BY <2>1 DEF Flows
<1>2. flow' = [flow EXCEPT ![r] = f] /\ usage' \in [Attempts -> Nat]
  BY DEF accept, FlowInv, FlowOK
<1> HIDE DEF f
<1>3. FlowInv'
  BY <1>1, <1>2, FlowStep
<1>4. Next
  BY DEF accept, Next, DataPlane
<1> QED BY <1>3, <1>4

\* Refusing a candidate, giving up and running out of candidates change no row.
LEMMA LoopStep ==
  ASSUME FlowInv, NEW r \in Requests, refuse(r) \/ break(r) \/ exhaust(r)
  PROVE  FlowInv' /\ [Next]_vars
<1>1. flow[r] \in Flows /\ usage' \in [Attempts -> Nat] /\ UNCHANGED vars
  BY DEF refuse, break, exhaust, FlowInv, FlowOK
<1>2. CASE refuse(r)
  <2> DEFINE f == [Pop(flow[r]) EXCEPT !.result = "refused"]
  <2>1. Pop(flow[r]) \in Flows /\ Pop(flow[r]).pc = "ready"
    BY <1>1, <1>2, PopType DEF refuse
  <2>2. f \in Flows /\ f.pc = "ready"
    BY <2>1 DEF Flows
  <2>3. flow' = [flow EXCEPT ![r] = f]
    BY <1>2 DEF refuse
  <2> HIDE DEF f
  <2> QED BY <1>1, <2>2, <2>3, FlowStep
<1>3. CASE break(r)
  <2> DEFINE f == [flow[r] EXCEPT !.pc = "finishing", !.result = "refused"]
  <2>1. f \in Flows /\ f.pc = "finishing"
    BY <1>1 DEF Flows
  <2>2. flow' = [flow EXCEPT ![r] = f]
    BY <1>3 DEF break
  <2> HIDE DEF f
  <2> QED BY <1>1, <2>1, <2>2, FlowStep
<1>4. CASE exhaust(r)
  <2> DEFINE f == [flow[r] EXCEPT !.pc = "finishing"]
  <2>1. f \in Flows /\ f.pc = "finishing"
    BY <1>1 DEF Flows
  <2>2. flow' = [flow EXCEPT ![r] = f]
    BY <1>4 DEF exhaust
  <2> HIDE DEF f
  <2> QED BY <1>1, <2>1, <2>2, FlowStep
<1> QED BY <1>2, <1>3, <1>4

\* handle_inference inserts the attempt row of a candidate: a ledger step.
LEMMA OpenStep ==
  ASSUME IInv, FlowInv, NEW r \in Requests, NEW a \in Attempts, NEW e \in Estimates, open(r, a, e)
  PROVE  FlowInv' /\ [Next]_vars
<1> DEFINE f == [Pop(flow[r]) EXCEPT !.pc = "opening", !.cur = a]
<1>1. flow[r] \in Flows /\ usage' \in [Attempts -> Nat]
  BY DEF open, FlowInv, FlowOK
<1>2. Pop(flow[r]) \in Flows
  BY <1>1, PopType DEF open
<1>3. f \in Flows /\ f.pc = "opening" /\ f.cur = a
  BY <1>2 DEF Flows
<1>4. flow' = [flow EXCEPT ![r] = f]
  BY DEF open
<1> HIDE DEF f
<1>5. FlowInv'
  BY <1>1, <1>3, <1>4, FlowStep
<1>6. begin_attempt_insert(request[r].owner, a, r, e) /\ request[r].owner \in Instances
  BY DEF open, begin_attempt_insert, IInv, Shape, Linked
<1>7. Next
  BY <1>6 DEF Next, DataPlane
<1> QED BY <1>5, <1>7

\* begin_attempt returned: its commit is a ledger step of the current attempt.
LEMMA OpenedStep ==
  ASSUME IInv, FlowInv, NEW r \in Requests, opened(r)
  PROVE  FlowInv' /\ [Next]_vars
<1> DEFINE a == flow[r].cur
           e == attempt[a].estimate
           f == [flow[r] EXCEPT !.pc = "calling", !.last = a, !.estimate = e]
<1>1. flow[r] \in Flows /\ a \in Attempts /\ begin_attempt_commit(a)
  BY DEF opened, FlowInv, FlowOK, Wired
<1>2. e \in Nat
  <2>1. attempt[a].state = "opening"
    BY <1>1 DEF begin_attempt_commit
  <2>2. e \in Estimates
    BY <1>1, <2>1 DEF IInv, Shape, Linked
  <2> QED BY <2>2, AmountsAssumption, MaxAssumption
<1>3. f \in Flows /\ f.pc = "calling" /\ f.cur = flow[r].cur
  <2> HIDE DEF a, e
  <2> QED BY <1>1, <1>2 DEF Flows
<1>4. flow' = [flow EXCEPT ![r] = f] /\ usage' \in [Attempts -> Nat]
  BY <1>1, <1>2 DEF opened, FlowInv, FlowOK
<1> HIDE DEF f, e
<1>5. FlowInv'
  BY <1>1, <1>3, <1>4, FlowStep
<1> HIDE DEF a
<1>6. Next
  BY <1>1 DEF Next, DataPlane
<1> QED BY <1>5, <1>6

\* begin_attempt failed: its rollback is a ledger step.
LEMMA OpenFailedStep ==
  ASSUME FlowInv, NEW r \in Requests, open_failed(r)
  PROVE  FlowInv' /\ [Next]_vars
<1> DEFINE a == flow[r].cur
           f == [flow[r] EXCEPT !.pc = "finishing", !.result = "refused"]
<1>1. /\ flow[r] \in Flows /\ a \in Attempts
      /\ begin_attempt_commit(a) \/ begin_attempt_rollback(a)
      /\ usage' \in [Attempts -> Nat] /\ flow' = [flow EXCEPT ![r] = f]
  BY DEF open_failed, FlowInv, FlowOK, Wired
<1>2. f \in Flows /\ f.pc = "finishing"
  BY <1>1 DEF Flows
<1> HIDE DEF f, a
<1>3. FlowInv'
  BY <1>1, <1>2, FlowStep
<1>4. Next
  BY <1>1 DEF Next, DataPlane
<1> QED BY <1>3, <1>4

\* The Provider's answer changes the flow and no row.
LEMMA RepliedStep ==
  ASSUME FlowInv, NEW r \in Requests, NEW result \in {"ok", "tool", "failed", "rejected"},
         NEW u \in Usages \cup Estimates, replied(r, result, u)
  PROVE  FlowInv' /\ [Next]_vars
<1>1. flow[r] \in Flows /\ UNCHANGED vars /\ flow[r].cur \in Attempts
  BY DEF replied, FlowInv, FlowOK, Wired
<1>2. u \in Nat
  BY UsagesAssumption, AmountsAssumption, MaxAssumption
<1>3. CASE flow[r].stream /\ result = "ok"
  <2> DEFINE f == [flow[r] EXCEPT !.pc = "streaming", !.result = "ok"]
  <2>1. f \in Flows /\ f.pc = "streaming" /\ f.cur = flow[r].cur
    BY <1>1 DEF Flows
  <2>2. flow' = [flow EXCEPT ![r] = f] /\ usage' \in [Attempts -> Nat]
    BY <1>3 DEF replied, FlowInv, FlowOK
  <2> HIDE DEF f
  <2> QED BY <1>1, <2>1, <2>2, FlowStep
<1>4. CASE ~(flow[r].stream /\ result = "ok")
  <2> DEFINE f == [flow[r] EXCEPT !.pc = "settling", !.result = result, !.charge = u]
  <2>1. f \in Flows /\ f.pc = "settling" /\ f.cur = flow[r].cur
    BY <1>1, <1>2 DEF Flows
  <2>2. flow' = [flow EXCEPT ![r] = f] /\ usage' \in [Attempts -> Nat]
    BY <1>1, <1>2, <1>4 DEF replied, FlowInv, FlowOK
  <2> HIDE DEF f
  <2> QED BY <1>1, <2>1, <2>2, FlowStep
<1> QED BY <1>3, <1>4

\* handle_inference finalizes its current attempt: a ledger step.
LEMMA SettledStep ==
  ASSUME FlowInv, NEW r \in Requests, NEW b \in BOOLEAN, settled(r, b)
  PROVE  FlowInv' /\ [Next]_vars
<1> DEFINE a == flow[r].cur
           o == IF flow[r].result = "ok" THEN "completed" ELSE "failed"
           c == cost_microunits(flow[r].charge)
           f == Decide(flow[r], b)
<1>1. flow[r] \in Flows /\ a \in Attempts /\ flow[r].charge \in Nat
  BY DEF settled, FlowInv, FlowOK, Wired, Flows
<1>2. c \in Costs /\ o \in Terminal
  <2>1. c \in Costs
    BY <1>1, CostType
  <2>2. o \in Terminal
    BY DEF Terminal
  <2> QED BY <2>1, <2>2
<1>3. /\ finalize_attempt(a, o, c) \/ UNCHANGED vars
      /\ flow' = [flow EXCEPT ![r] = f] /\ usage' \in [Attempts -> Nat]
  BY DEF settled, FlowInv, FlowOK
<1>4. f \in Flows /\ f.pc \in {"ready", "finishing"}
  BY <1>1, DecideType
<1> HIDE DEF a, o, c, f
<1>5. FlowInv'
  BY <1>3, <1>4, FlowStep
<1>6. [Next]_vars
  BY <1>1, <1>2, <1>3 DEF Next, DataPlane
<1> QED BY <1>5, <1>6

\* handle_inference finalizes its request: a ledger step.
LEMMA FinishStep ==
  ASSUME FlowInv, NEW r \in Requests, finish(r)
  PROVE  FlowInv' /\ [Next]_vars
<1> DEFINE o == IF flow[r].result = "ok" THEN "completed" ELSE "failed"
           c == RequestCost(flow[r])
           b == flow[r].last # None
           f == [flow[r] EXCEPT !.pc = "done"]
<1>1. flow[r] \in Flows
  BY DEF FlowInv, FlowOK
<1>2. (flow[r].prior + IF flow[r].result = "ok" THEN flow[r].charge ELSE flow[r].estimate) \in Nat
  BY <1>1 DEF Flows
<1>3. c \in Costs /\ o \in Terminal /\ b \in BOOLEAN
  <2>1. c \in Costs
    BY <1>2, CostType DEF RequestCost
  <2>2. o \in Terminal /\ b \in BOOLEAN
    BY DEF Terminal
  <2> QED BY <2>1, <2>2
<1>4. /\ finalize_request(r, o, c, b) \/ UNCHANGED vars
      /\ flow' = [flow EXCEPT ![r] = f] /\ usage' \in [Attempts -> Nat]
  BY DEF finish, FlowInv, FlowOK
<1>5. f \in Flows /\ f.pc = "done"
  BY <1>1 DEF Flows
<1> HIDE DEF o, c, b, f
<1>6. FlowInv'
  BY <1>4, <1>5, FlowStep
<1>7. [Next]_vars
  BY <1>3, <1>4 DEF Next, DataPlane
<1> QED BY <1>6, <1>7

\* The stream ends and its finalizer is spawned: no row changes.
LEMMA StreamFinishStep ==
  ASSUME FlowInv, NEW r \in Requests, NEW result \in Terminal,
         NEW u \in Usages \cup {flow[r].estimate}, stream_finish(r, result, u)
  PROVE  FlowInv' /\ [Next]_vars
<1> DEFINE n == flow[r].prior + u
           f == [flow[r] EXCEPT !.pc = "closing", !.result = result, !.charge = n]
<1>1. flow[r] \in Flows /\ flow[r].cur \in Attempts /\ UNCHANGED vars
  BY DEF stream_finish, FlowInv, FlowOK, Wired
<1>2. u \in Nat /\ n \in Nat
  <2>1. flow[r].estimate \in Nat /\ flow[r].prior \in Nat
    BY <1>1 DEF Flows
  <2>2. u \in Nat
    BY <2>1, UsagesAssumption
  <2> QED BY <2>1, <2>2
<1>3. flow' = [flow EXCEPT ![r] = f] /\ usage' \in [Attempts -> Nat]
  BY <1>1, <1>2 DEF stream_finish, FlowInv, FlowOK
<1>4. f \in Flows /\ f.pc = "closing" /\ f.cur = flow[r].cur /\ f.result = result
  <2> HIDE DEF n
  <2> QED BY <1>1, <1>2 DEF Flows
<1> HIDE DEF f
<1> QED BY <1>1, <1>3, <1>4, FlowStep

\* StreamFinalizationContext::finalize ends the attempt and then the request:
\* ledger steps.
LEMMA CloseStep ==
  ASSUME FlowInv, NEW r \in Requests, close_attempt(r) \/ close_request(r)
  PROVE  FlowInv' /\ [Next]_vars
<1> DEFINE a == flow[r].cur
           o == flow[r].result
           c == cost_microunits(flow[r].charge)
<1>1. /\ flow[r] \in Flows /\ a \in Attempts /\ o \in Terminal /\ flow[r].charge \in Nat
      /\ usage' \in [Attempts -> Nat]
  BY DEF close_attempt, close_request, FlowInv, FlowOK, Wired, Flows
<1>2. c \in Costs
  BY <1>1, CostType
<1>3. CASE close_attempt(r)
  <2> DEFINE f == [flow[r] EXCEPT !.pc = "closed"]
  <2>1. flow' = [flow EXCEPT ![r] = f] /\ (finalize_attempt(a, o, c) \/ UNCHANGED vars)
    BY <1>3 DEF close_attempt
  <2>2. f \in Flows /\ f.pc = "closed" /\ f.cur = flow[r].cur /\ f.result = flow[r].result
    BY <1>1 DEF Flows
  <2> HIDE DEF f
  <2>3. FlowInv'
    BY <1>1, <2>1, <2>2, FlowStep
  <2>4. [Next]_vars
    <3> HIDE DEF a, o, c
    <3> QED BY <1>1, <1>2, <2>1 DEF Next, DataPlane
  <2> QED BY <2>3, <2>4
<1>4. CASE close_request(r)
  <2> DEFINE f == [flow[r] EXCEPT !.pc = "done"]
  <2>1. flow' = [flow EXCEPT ![r] = f] /\ (finalize_request(r, o, c, TRUE) \/ UNCHANGED vars)
    BY <1>4 DEF close_request
  <2>2. f \in Flows /\ f.pc = "done"
    BY <1>1 DEF Flows
  <2> HIDE DEF f
  <2>3. FlowInv'
    BY <1>1, <2>1, <2>2, FlowStep
  <2>4. [Next]_vars
    <3> HIDE DEF o, c
    <3> QED BY <1>1, <1>2, <2>1 DEF Next, DataPlane
  <2> QED BY <2>3, <2>4
<1> QED BY <1>3, <1>4

\* maintain_lease renews the leases of its request: a ledger step.
LEMMA HeartbeatStep ==
  ASSUME FlowInv, NEW r \in Requests, heartbeat(r)
  PROVE  FlowInv' /\ [Next]_vars
<1> DEFINE f == [flow[r] EXCEPT !.beat = TRUE]
<1>1. flow[r] \in Flows /\ usage' \in [Attempts -> Nat] /\ flow' = [flow EXCEPT ![r] = f]
  BY DEF heartbeat, FlowInv, FlowOK
<1>2. /\ f \in Flows /\ f.pc = flow[r].pc /\ f.cur = flow[r].cur /\ f.result = flow[r].result
  BY <1>1 DEF Flows
<1> HIDE DEF f
<1>3. /\ f.pc \in {"opening", "calling", "settling", "streaming", "closing", "closed"} =>
           f.cur \in Attempts
      /\ f.pc \in {"closing", "closed"} => f.result \in Terminal
  BY <1>2 DEF FlowInv, Wired
<1>4. FlowInv'
  BY <1>1, <1>2, <1>3, FlowStep
<1>5. Next
  BY DEF heartbeat, Next, DataPlane
<1> QED BY <1>4, <1>5

\* A client that disconnects drops handle_inference: at most an open
\* begin_attempt is rolled back.
LEMMA DisconnectStep ==
  ASSUME FlowInv, NEW r \in Requests, disconnect(r)
  PROVE  FlowInv' /\ [Next]_vars
<1> DEFINE a == flow[r].cur
           f == [flow[r] EXCEPT !.pc = "gone"]
<1>1. /\ flow[r] \in Flows /\ usage' \in [Attempts -> Nat] /\ flow' = [flow EXCEPT ![r] = f]
      /\ \/ a \in Attempts /\ (begin_attempt_commit(a) \/ begin_attempt_rollback(a))
         \/ UNCHANGED vars
  BY DEF disconnect, FlowInv, FlowOK, Wired
<1>2. f \in Flows /\ f.pc = "gone"
  BY <1>1 DEF Flows
<1> HIDE DEF f, a
<1>3. FlowInv'
  BY <1>1, <1>2, FlowStep
<1>4. [Next]_vars
  BY <1>1 DEF Next, DataPlane
<1> QED BY <1>3, <1>4

\* Steps of the environment end flows or keep them; the clock only forgets
\* that they beat.
LEMMA EnvironmentStep ==
  ASSUME FlowInv, Environment
  PROVE  FlowInv' /\ [Next]_vars
<1>1. ASSUME NEW i \in Instances, process_crash(i)
      PROVE  FlowInv' /\ [Next]_vars
  <2>1. ASSUME NEW r \in Requests
        PROVE  /\ [flow[r] EXCEPT !.pc = "gone"] \in Flows
               /\ [flow[r] EXCEPT !.pc = "gone"].pc = "gone"
    <3>1. flow[r] \in Flows
      BY DEF FlowInv, FlowOK
    <3> QED BY <3>1 DEF Flows
  <2>2. /\ flow' = [r \in Requests |->
             IF request[r].owner = i /\ flow[r].pc \in Beating
             THEN [flow[r] EXCEPT !.pc = "gone"] ELSE flow[r]]
        /\ usage' = usage /\ crash(i)
    BY <1>1 DEF process_crash
  <2>3. FlowOK'
    BY <2>1, <2>2 DEF FlowInv, FlowOK
  <2>4. Wired'
    BY <2>1, <2>2 DEF FlowInv, Wired
  <2>5. Next
    BY <2>2 DEF Next, Operator
  <2> QED BY <2>3, <2>4, <2>5 DEF FlowInv
<1>2. ASSUME NEW i \in Instances, start(i) \/ reconcile_expired(i), UNCHANGED ivars
      PROVE  FlowInv' /\ [Next]_vars
  <2>1. FlowInv'
    BY <1>2 DEF ivars, FlowInv, FlowOK, Wired
  <2>2. Next
    BY <1>2 DEF Next, Operator
  <2> QED BY <2>1, <2>2
<1>3. ASSUME clock
      PROVE  FlowInv' /\ [Next]_vars
  <2>1. ASSUME NEW r \in Requests
        PROVE  /\ [flow[r] EXCEPT !.beat = FALSE] \in Flows
               /\ [flow[r] EXCEPT !.beat = FALSE].pc = flow[r].pc
               /\ [flow[r] EXCEPT !.beat = FALSE].cur = flow[r].cur
               /\ [flow[r] EXCEPT !.beat = FALSE].result = flow[r].result
    <3>1. flow[r] \in Flows
      BY DEF FlowInv, FlowOK
    <3> QED BY <3>1 DEF Flows
  <2>2. /\ flow' = [r \in Requests |-> [flow[r] EXCEPT !.beat = FALSE]]
        /\ usage' = usage /\ tick
    BY <1>3 DEF clock
  <2>3. FlowOK'
    BY <2>1, <2>2 DEF FlowInv, FlowOK
  <2>4. Wired'
    BY <2>1, <2>2 DEF FlowInv, Wired
  <2>5. Next
    BY <2>2 DEF Next
  <2> QED BY <2>3, <2>4, <2>5 DEF FlowInv
<1> QED BY <1>1, <1>2, <1>3 DEF Environment

\* Every step of the gateway keeps the flows consistent with the rows and is a
\* step of the ledger or leaves it alone.
LEMMA NextFlowInv == IInv /\ FlowInv /\ [INext]_allvars => FlowInv' /\ [Next]_vars
<1> SUFFICES ASSUME IInv, FlowInv, [INext]_allvars PROVE FlowInv' /\ [Next]_vars
  OBVIOUS
<1>1. CASE UNCHANGED allvars
  BY <1>1 DEF allvars, ivars, vars, FlowInv, FlowOK, Wired
<1>2. ASSUME NEW r \in Requests, Handler(r) PROVE FlowInv' /\ [Next]_vars
  BY <1>2, LoopStep, OpenStep, OpenedStep, OpenFailedStep, RepliedStep, SettledStep, FinishStep
  DEF Handler
<1>3. ASSUME NEW r \in Requests, Body(r) PROVE FlowInv' /\ [Next]_vars
  BY <1>3, StreamFinishStep, CloseStep DEF Body
<1>4. CASE INext
  BY <1>2, <1>3, <1>4, AcceptStep, HeartbeatStep, DisconnectStep, EnvironmentStep DEF INext
<1> QED BY <1>1, <1>4

\* Handlers, stream finalizers, heartbeats and disconnects change the ledger
\* only through its transactions, with arguments those transactions accept.
THEOREM Composition == ISpec => UsesLedger
<1>1. IInit => Init
  BY DEF IInit
<1>2. ISpec => [](IInv /\ FlowInv) /\ Spec
  BY <1>1, InitIInv, NextIInv, InitFlowInv, NextFlowInv, PTL DEF ISpec, Spec
<1> QED BY <1>2, PTL DEF UsesLedger

\* In the running gateway the books of every tenant balance, admission is
\* hard, and every attempt agrees with its reservation.
THEOREM GatewayBooks ==
  ISpec => [](BudgetConserved /\ HardAdmission /\ AttemptMatchesReservation)
BY Composition, Conservation, Admission, Agreement, PTL DEF UsesLedger
=============================================================================
