--------------------------- MODULE LocalScheduler ---------------------------
(***************************************************************************)
(* LocalScheduler of src/src/governance.rs: admission of requests to the   *)
(* single local executor.  A call of acquire takes the execution permit at *)
(* once, overflows to the cloud, is refused, or joins the interactive or   *)
(* the batch queue and waits for its Notify or its deadline.  Steps are    *)
(* the critical sections of the state mutex and the operations on the      *)
(* semaphore and the Notify between them; the only await is at "asleep".   *)
(***************************************************************************)
EXTENDS Money, Sequences

CONSTANTS
  Calls,             \* calls of acquire, each with its own QueuedRequest id
  Users,
  Profiles,          \* what a caller may ask for: [user, mode, class, cloud]
  ExecutingPerUser,  \* executing_per_user
  QueuedPerUser,     \* queued_per_user
  QueueLimit,        \* global_interactive_queue and global_batch_queue, by class
  OverflowAfter,     \* overflow_after, in the unit of service times
  InitService,       \* DEFAULT_SERVICE_TIME
  Elapsed,           \* durations a lease may be held for
  Free               \* no call

Modes == {"local_strict", "local_first", "balanced", "cloud_first"}

Classes == {"interactive", "batch"}

ASSUME ProfilesAssumption ==
  Profiles # {} /\ Profiles \subseteq [user : Users, mode : Modes, class : Classes, cloud : BOOLEAN]
ASSUME LimitsAssumption ==
  /\ ExecutingPerUser \in Nat \ {0} /\ QueuedPerUser \in Nat
  /\ QueueLimit \in [Classes -> Nat] /\ OverflowAfter \in Nat
  /\ InitService \in Nat /\ Elapsed \subseteq Nat
ASSUME FreeAssumption == Free \notin Calls

VARIABLES
  permit,   \* the holder of the execution semaphore's only permit, or Free
  running,  \* running_by_user
  queued,   \* queued_by_user
  queue,    \* the interactive and the batch VecDeque
  token,    \* the permit stored in the Notify of a call
  service,  \* service_time_ms
  call      \* where each call is

vars == <<permit, running, queued, queue, token, service, call>>

\* pc: "new"; "fast" with the permit, before the per-user check; "estimate",
\* "enqueue"; "probe", "take", "asleep", "leave" in the waiting loop;
\* "dequeue", "start" with the permit; "running" with a LocalLease;
\* "unpermit" inside its Drop; "notify", "deliver" in notify_next, which
\* continues at `then`; and the results.
Results == {"done", "overflow", "user_limit", "queue_limit", "timeout", "gone"}

Init ==
  /\ permit = Free
  /\ running = [u \in Users |-> 0]
  /\ queued = [u \in Users |-> 0]
  /\ queue = [k \in Classes |-> <<>>]
  /\ token = [c \in Calls |-> FALSE]
  /\ service = InitService
  /\ call = [c \in Calls |-> [pc |-> "new", profile |-> CHOOSE p \in Profiles : TRUE,
                              then |-> "new", target |-> Free, expired |-> FALSE]]

Goto(c, pc) == call' = [call EXCEPT ![c].pc = pc]

User(c) == call[c].profile.user

Class(c) == call[c].profile.class

\* LocalFirst | Balanced
Hybrid(c) == call[c].profile.mode \in {"local_first", "balanced"}

-----------------------------------------------------------------------------
(* acquire: the fast path, the prediction and the queue.                   *)

\* try_acquire_owned
arrive(c, p) ==
  /\ call[c].pc = "new"
  /\ IF permit = Free THEN permit' = c ELSE UNCHANGED permit
  /\ call' = [call EXCEPT ![c] = [@ EXCEPT !.profile = p,
                                           !.pc = IF permit = Free THEN "fast" ELSE "estimate"]]
  /\ UNCHANGED <<running, queued, queue, token, service>>

\* With the permit in hand: one running request per user.
fast_path(c) ==
  /\ call[c].pc = "fast"
  /\ IF running[User(c)] < ExecutingPerUser
     THEN /\ running' = [running EXCEPT ![User(c)] = @ + 1]
          /\ Goto(c, "running")
          /\ UNCHANGED permit
     ELSE /\ permit' = Free
          /\ Goto(c, "estimate")
          /\ UNCHANGED running
  /\ UNCHANGED <<queued, queue, token, service>>

\* service_time_ms times the requests ahead of a newcomer of this class.
estimated_wait(class) ==
  service * (Len(queue["interactive"]) + (IF class = "batch" THEN Len(queue["batch"]) ELSE 0)
             + Total(Users, running))

predict(c) ==
  /\ call[c].pc = "estimate"
  /\ Goto(c, IF Hybrid(c) /\ call[c].profile.cloud /\ estimated_wait(Class(c)) > OverflowAfter
             THEN "overflow" ELSE "enqueue")
  /\ UNCHANGED <<permit, running, queued, queue, token, service>>

\* notify_next is called next and continues at pc.
NotifyThen(c, pc) == call' = [call EXCEPT ![c] = [@ EXCEPT !.pc = "notify", !.then = pc]]

enqueue(c) ==
  /\ call[c].pc = "enqueue"
  /\ \/ /\ queued[User(c)] >= QueuedPerUser
        /\ Goto(c, "user_limit")
        /\ UNCHANGED <<queued, queue>>
     \/ /\ queued[User(c)] < QueuedPerUser /\ Len(queue[Class(c)]) >= QueueLimit[Class(c)]
        /\ Goto(c, IF Hybrid(c) /\ call[c].profile.cloud THEN "overflow" ELSE "queue_limit")
        /\ UNCHANGED <<queued, queue>>
     \/ /\ queued[User(c)] < QueuedPerUser /\ Len(queue[Class(c)]) < QueueLimit[Class(c)]
        /\ queued' = [queued EXCEPT ![User(c)] = @ + 1]
        /\ queue' = [queue EXCEPT ![Class(c)] = Append(@, c)]
        /\ NotifyThen(c, "probe")
  /\ UNCHANGED <<permit, running, token, service>>

\* The front of the interactive queue, or else of the batch queue.
Next_in_line ==
  IF queue["interactive"] # <<>> THEN Head(queue["interactive"])
  ELSE IF queue["batch"] # <<>> THEN Head(queue["batch"]) ELSE Free

\* notify_next clones the Notify under the lock ...
notify_next(c) ==
  /\ call[c].pc = "notify"
  /\ call' = [call EXCEPT ![c] = [@ EXCEPT !.target = Next_in_line,
       !.pc = IF Next_in_line = Free THEN call[c].then ELSE "deliver"]]
  /\ UNCHANGED <<permit, running, queued, queue, token, service>>

\* ... and calls notify_one after it, which stores a permit in the Notify.
notify_one(c) ==
  /\ call[c].pc = "deliver"
  /\ token' = [token EXCEPT ![call[c].target] = TRUE]
  /\ call' = [call EXCEPT ![c] = [@ EXCEPT !.target = Free, !.pc = call[c].then]]
  /\ UNCHANGED <<permit, running, queued, queue, service>>

-----------------------------------------------------------------------------
(* acquire: the waiting loop.                                              *)

\* Mutant: any entry of the queue may be admitted.
Front_anywhere(c) ==
  /\ running[User(c)] < ExecutingPerUser
  /\ \E n \in DOMAIN queue[Class(c)] : queue[Class(c)][n] = c

Front(c) ==
  /\ running[User(c)] < ExecutingPerUser
  /\ Class(c) = "batch" => queue["interactive"] = <<>>
  /\ queue[Class(c)] # <<>> /\ Head(queue[Class(c)]) = c

\* Not admitted: wait on, or leave the queue past the deadline.
Missed(c) == IF call[c].expired THEN "leave" ELSE "asleep"

is_front(c) ==
  /\ call[c].pc = "probe"
  /\ Goto(c, IF Front(c) THEN "take" ELSE Missed(c))
  /\ UNCHANGED <<permit, running, queued, queue, token, service>>

take(c) ==
  /\ call[c].pc = "take"
  /\ IF permit = Free THEN permit' = c /\ Goto(c, "dequeue")
                      ELSE UNCHANGED permit /\ Goto(c, Missed(c))
  /\ UNCHANGED <<running, queued, queue, token, service>>

\* Mutant: queued_by_user is not lowered.
Removed_keeping_count(c) ==
  /\ queue' = [queue EXCEPT ![Class(c)] = SelectSeq(@, LAMBDA d : d # c)]
  /\ UNCHANGED queued

\* The critical section of remove_queued.
Removed(c) ==
  /\ queue' = [queue EXCEPT ![Class(c)] = SelectSeq(@, LAMBDA d : d # c)]
  /\ queued' = [queued EXCEPT ![User(c)] = Excess(@, 1)]

dequeue(c) ==
  /\ call[c].pc = "dequeue"
  /\ Removed(c)
  /\ NotifyThen(c, "start")
  /\ UNCHANGED <<permit, running, token, service>>

\* Mutant: the queued path does not count the lease.
start_lease_uncounted(c) ==
  /\ call[c].pc = "start"
  /\ Goto(c, "running")
  /\ UNCHANGED <<permit, running, queued, queue, token, service>>

start_lease(c) ==
  /\ call[c].pc = "start"
  /\ running' = [running EXCEPT ![User(c)] = @ + 1]
  /\ Goto(c, "running")
  /\ UNCHANGED <<permit, queued, queue, token, service>>

\* Mutant: the next in line is not notified after a timeout.
leave_silently(c) ==
  /\ call[c].pc = "leave"
  /\ Removed(c)
  /\ Goto(c, "timeout")
  /\ UNCHANGED <<permit, running, token, service>>

leave(c) ==
  /\ call[c].pc = "leave"
  /\ Removed(c)
  /\ NotifyThen(c, IF call[c].profile.mode # "local_strict" /\ call[c].profile.cloud
                   THEN "overflow" ELSE "timeout")
  /\ UNCHANGED <<permit, running, token, service>>

\* timeout(remaining, notify.notified()): by notification or at the deadline.
wake(c) ==
  /\ call[c].pc = "asleep"
  /\ token[c] \/ call[c].expired
  /\ token' = [token EXCEPT ![c] = FALSE]
  /\ Goto(c, "probe")
  /\ UNCHANGED <<permit, running, queued, queue, service>>
-----------------------------------------------------------------------------
(* The lease, the clock and the caller.                                    *)

\* Mutant: the moving average subtracts the new sample.
release_with_sign_slip(c, elapsed) ==
  /\ call[c].pc = "running"
  /\ running' = [running EXCEPT ![User(c)] = Excess(@, 1)]
  /\ service' = (service * 4 - elapsed) \div 5
  /\ Goto(c, "unpermit")
  /\ UNCHANGED <<permit, queued, queue, token>>

\* Drop of LocalLease: the user's count and the moving average first ...
release(c, elapsed) ==
  /\ call[c].pc = "running"
  /\ running' = [running EXCEPT ![User(c)] = Excess(@, 1)]
  /\ service' = LET e == IF elapsed = 0 THEN 1 ELSE elapsed IN
                IF service = 0 THEN e ELSE (service * 4 + e) \div 5
  /\ Goto(c, "unpermit")
  /\ UNCHANGED <<permit, queued, queue, token>>

\* Mutant: Drop does not call notify_next.
unpermit_silently(c) ==
  /\ call[c].pc = "unpermit"
  /\ permit' = Free
  /\ Goto(c, "done")
  /\ UNCHANGED <<running, queued, queue, token, service>>

\* ... then the permit, then notify_next.
unpermit(c) ==
  /\ call[c].pc = "unpermit"
  /\ permit' = Free
  /\ NotifyThen(c, "done")
  /\ UNCHANGED <<running, queued, queue, token, service>>

\* Calls that have pushed a QueuedRequest and not removed it.
Waiting(c) ==
  \/ call[c].pc \in {"probe", "take", "asleep", "leave", "dequeue"}
  \/ call[c].pc \in {"notify", "deliver"} /\ call[c].then = "probe"

\* strict_wait or overflow_after has passed since the call was queued.
expire(c) ==
  /\ call[c].pc \in {"probe", "take", "asleep"} /\ ~call[c].expired
  /\ call' = [call EXCEPT ![c].expired = TRUE]
  /\ UNCHANGED <<permit, running, queued, queue, token, service>>

\* The client disconnects and the future is dropped at its await: nothing
\* removes the QueuedRequest or lowers queued_by_user.
cancel(c) ==
  /\ call[c].pc = "asleep"
  /\ Goto(c, "gone")
  /\ UNCHANGED <<permit, running, queued, queue, token, service>>

\* Steps a call takes by itself.
Step(c) ==
  \/ fast_path(c) \/ predict(c) \/ enqueue(c) \/ notify_next(c) \/ notify_one(c)
  \/ is_front(c) \/ take(c) \/ dequeue(c) \/ start_lease(c) \/ leave(c)
  \/ wake(c) \/ unpermit(c)
  \/ \E e \in Elapsed : release(c, e)

\* Every caller stays connected until acquire returns.
NextConnected ==
  \E c \in Calls :
    \/ Step(c) \/ expire(c)
    \/ \E p \in Profiles : arrive(c, p)

Next == NextConnected \/ \E c \in Calls : cancel(c)

Spec == Init /\ [][Next]_vars

\* Tasks are scheduled and leases are dropped; no deadline need ever pass.
ConnectedSpec == Init /\ [][NextConnected]_vars /\ \A c \in Calls : WF_vars(Step(c))

-----------------------------------------------------------------------------
(* Properties.                                                             *)

Points == {"new", "fast", "estimate", "enqueue", "notify", "deliver", "probe", "take",
           "asleep", "leave", "dequeue", "start", "running", "unpermit"} \cup Results

\* Every variable has the shape of its Rust counterpart.
TypeOK ==
  /\ permit \in Calls \cup {Free}
  /\ running \in [Users -> Nat] /\ queued \in [Users -> Nat]
  /\ queue \in [Classes -> Seq(Calls)]
  /\ token \in [Calls -> BOOLEAN] /\ service \in Nat
  /\ call \in [Calls -> [pc : Points, profile : Profiles, then : Points,
                         target : Calls \cup {Free}, expired : BOOLEAN]]

\* The call owns the permit, in a local or in its LocalLease.
Holds(c) ==
  \/ call[c].pc \in {"fast", "dequeue", "start", "running", "unpermit"}
  \/ call[c].pc \in {"notify", "deliver"} /\ call[c].then = "start"

\* One local request executes at a time, and running_by_user counts exactly
\* the leases of each user: the permit and the counter, which acquire and the
\* Drop of LocalLease update in separate critical sections, never disagree.
OneLocalExecution ==
  /\ \A c \in Calls : Holds(c) <=> permit = c
  /\ \A u \in Users :
       running[u] = Cardinality({c \in Calls : call[c].pc = "running" /\ User(c) = u})

Entries(u) == {c \in Calls : User(c) = u /\ \E k \in Classes : \E n \in DOMAIN queue[k] :
                               queue[k][n] = c}

\* queued_by_user counts the queue entries of each user, every waiting call
\* has one entry in the queue of its class, and the limits hold.
QueuesAgree ==
  /\ \A u \in Users : queued[u] = Cardinality(Entries(u)) /\ queued[u] <= QueuedPerUser
  /\ \A k \in Classes :
       /\ Len(queue[k]) <= QueueLimit[k]
       /\ \A m, n \in DOMAIN queue[k] : queue[k][m] = queue[k][n] => m = n
  /\ \A c \in Calls : Waiting(c) => \E n \in DOMAIN queue[Class(c)] : queue[Class(c)][n] = c

\* A queued call that takes the permit is at the front of its queue, although
\* is_front, try_acquire_owned and remove_queued are three critical sections.
ServedInOrder ==
  \A c \in Calls : call[c].pc \in {"take", "dequeue"} => Head(queue[Class(c)]) = c

\* No wake-up is lost: while the permit is free, a sleeping call that is next
\* in line has been notified or a notification of it is on its way.
NoLostWakeup ==
  permit = Free /\ Next_in_line # Free /\ call[Next_in_line].pc = "asleep" =>
    \/ token[Next_in_line] \/ call[Next_in_line].expired
    \/ \E d \in Calls : \/ call[d].pc = "notify"
                        \/ call[d].pc = "deliver" /\ call[d].target = Next_in_line

\* If no caller disconnects while it is queued, every queued call leaves the
\* queue, whether or not any deadline passes.
NobodyStranded == \A c \in Calls : Waiting(c) ~> ~Waiting(c)

\* docs/adr/0005: "Each user may have one request executing locally and two
\* queued locally."  A call is refused for its user's queue limit only while
\* that many calls of the user are waiting.
UserMayQueue ==
  [][\A c \in Calls :
       call[c].pc = "enqueue" /\ call'[c].pc = "user_limit" =>
         Cardinality({d \in Calls : User(d) = User(c) /\ Waiting(d)}) >= QueuedPerUser]_vars
=============================================================================
