----------------------------- MODULE Governance -----------------------------
(***************************************************************************)
(* High-risk changes: GovernanceStore of src/src/governance.rs and the     *)
(* handlers of src/src/routes that create, approve and apply them.  A      *)
(* change needs two administrators.  The handlers that apply one check the *)
(* approval under the mutex, do their work without it, and record the      *)
(* change as applied under the mutex again.  One process; its document is  *)
(* saved with the compare-and-swap that StateStore models.                 *)
(***************************************************************************)
EXTENDS Naturals, Sequences, SequencesExt, FiniteSets

CONSTANTS
  Admins,
  Changes,   \* change request ids
  Handlers,  \* HTTP requests that apply a change
  None

ASSUME NoneAssumption == None \notin Changes

\* project_policy.upsert; and the actions whose effect is in another store:
\* budget.hard_limit, provider.*, identity.permission, ...
Actions == {"policy", "external"}

VARIABLES
  doc,        \* inner: the change requests and the project policy in force
  stored,     \* the same document in PostgreSQL
  stale,      \* a save was committed although it failed: the revision is behind
  handler,    \* where each of them is
  performed   \* how often the effect of a change was carried out

vars == <<doc, stored, stale, handler, performed>>

NoChange == [status |-> "none", action |-> "policy", approvals |-> <<>>]

Init ==
  /\ doc = [change |-> [c \in Changes |-> NoChange], policy |-> None]
  /\ stored = doc
  /\ stale = FALSE
  /\ handler = [h \in Handlers |-> [pc |-> "new", change |-> None]]
  /\ performed = [c \in Changes |-> 0]

Goto(h, pc, c) == handler' = [handler EXCEPT ![h] = [pc |-> pc, change |-> c]]

\* save_or_restore.  A committed save is kept, or its answer is lost: then the
\* process restores its snapshot and its revision is behind.  Any other save
\* fails, and so does every save of a process whose revision is behind.
Save(new, committed) ==
  /\ committed => ~stale
  /\ stored' = IF committed THEN new ELSE stored
  /\ \/ committed /\ doc' = new /\ UNCHANGED stale
     \/ UNCHANGED doc /\ stale' = (stale \/ committed)

With(c, change) == [doc EXCEPT !.change[c] = change]

create_change_request(a, c, action) ==
  /\ stored.change[c].status = "none"  \* a fresh UUID
  /\ \E ok \in BOOLEAN :
       Save(With(c, [status |-> "pending", action |-> action, approvals |-> <<a>>]), ok)
  /\ UNCHANGED <<handler, performed>>

\* The change with one more approval.
Signed(c, a) == [doc.change[c] EXCEPT !.status = "approved", !.approvals = Append(@, a)]

\* Mutant: the same administrator may approve again.
approve_twice(a, c) ==
  /\ doc.change[c].status \in {"pending", "approved"}
  /\ Len(doc.change[c].approvals) < 2
  /\ \E ok \in BOOLEAN : Save(With(c, Signed(c, a)), ok)
  /\ UNCHANGED <<handler, performed>>

approve_change_request(a, c) ==
  /\ doc.change[c].status \in {"pending", "approved"}
  /\ ~Contains(doc.change[c].approvals, a)
  /\ \E ok \in BOOLEAN : Save(With(c, Signed(c, a)), ok)
  /\ UNCHANGED <<handler, performed>>

Approved(c) == doc.change[c].status = "approved" /\ Len(doc.change[c].approvals) >= 2

\* approved_change, or verify_approved_change in require_high_risk_change.
approved_change(h, c) ==
  /\ handler[h].pc = "new"
  /\ Approved(c)
  /\ Goto(h, IF doc.change[c].action = "policy" THEN "policy" ELSE "effect", c)
  /\ UNCHANGED <<doc, stored, stale, performed>>

\* apply_project_policy checks again and builds the policy ...
recheck(h) ==
  /\ handler[h].pc = "policy"
  /\ Goto(h, IF Approved(handler[h].change) THEN "insert" ELSE "done", handler[h].change)
  /\ UNCHANGED <<doc, stored, stale, performed>>

\* Mutant: only the policy is saved.
apply_without_record(h) ==
  LET c == handler[h].change IN
  /\ handler[h].pc = "insert"
  /\ \E ok \in BOOLEAN :
       /\ Save([doc EXCEPT !.policy = c], ok)
       /\ performed' = [performed EXCEPT ![c] = @ + (IF ok THEN 1 ELSE 0)]
  /\ Goto(h, "done", c)

\* The change recorded as applied.
Applied(c) == With(c, [doc.change[c] EXCEPT !.status = "applied"])

\* ... and inserts it under the mutex, which it took anew.
apply_project_policy(h) ==
  LET c == handler[h].change IN
  /\ handler[h].pc = "insert"
  /\ \E ok \in BOOLEAN :
       /\ Save([Applied(c) EXCEPT !.policy = c], ok)
       /\ performed' = [performed EXCEPT ![c] = @ + (IF ok THEN 1 ELSE 0)]
  /\ Goto(h, "done", c)

\* Mutant: the effect is retried until its answer arrives.
effect_retried(h) ==
  /\ handler[h].pc = "effect"
  /\ \E pc \in {"effect", "mark"} : Goto(h, pc, handler[h].change)
  /\ performed' = [performed EXCEPT ![handler[h].change] = @ + 1]
  /\ UNCHANGED <<doc, stored, stale>>

\* update_budget, create_user, upsert_provider_override, ...: it succeeds ...
effect(h) ==
  /\ handler[h].pc = "effect"
  /\ Goto(h, "mark", handler[h].change)
  /\ performed' = [performed EXCEPT ![handler[h].change] = @ + 1]
  /\ UNCHANGED <<doc, stored, stale>>

\* Mutant: a failed effect makes the change applicable again.
effect_failed_reopens(h) ==
  LET c == handler[h].change IN
  /\ handler[h].pc = "effect"
  /\ \E ok \in BOOLEAN : Save(With(c, [doc.change[c] EXCEPT !.status = "approved"]), ok)
  /\ Goto(h, "done", c)
  /\ UNCHANGED performed

\* ... or fails.
effect_failed(h) ==
  /\ handler[h].pc = "effect"
  /\ Goto(h, "done", handler[h].change)
  /\ UNCHANGED <<doc, stored, stale, performed>>

mark_change_applied(h) ==
  LET c == handler[h].change IN
  /\ handler[h].pc = "mark"
  /\ IF Approved(c) THEN \E ok \in BOOLEAN : Save(Applied(c), ok)
     ELSE UNCHANGED <<doc, stored, stale>>
  /\ Goto(h, "done", c)
  /\ UNCHANGED performed

\* The process dies and starts again with the stored document.
restart ==
  /\ doc' = stored /\ stale' = FALSE
  /\ handler' = [h \in Handlers |-> IF handler[h].pc \in {"new", "done"} THEN handler[h]
                                    ELSE [handler[h] EXCEPT !.pc = "done"]]
  /\ UNCHANGED <<stored, performed>>

Next ==
  \/ \E a \in Admins, c \in Changes :
       \/ approve_change_request(a, c)
       \/ \E action \in Actions : create_change_request(a, c, action)
  \/ \E h \in Handlers :
       \/ \E c \in Changes : approved_change(h, c)
       \/ recheck(h) \/ apply_project_policy(h)
       \/ effect(h) \/ effect_failed(h) \/ mark_change_applied(h)
  \/ restart

Spec == Init /\ [][Next]_vars

-----------------------------------------------------------------------------
(* Properties.                                                             *)

ChangeRequests ==
  [status : {"none", "pending", "approved", "applied"}, action : Actions, approvals : Seq(Admins)]

Documents == [change : [Changes -> ChangeRequests], policy : Changes \cup {None}]

\* Every variable has the shape of its Rust counterpart.
TypeOK ==
  /\ doc \in Documents /\ stored \in Documents /\ stale \in BOOLEAN
  /\ handler \in [Handlers -> [pc : {"new", "policy", "insert", "effect", "mark", "done"},
                               change : Changes \cup {None}]]
  /\ performed \in [Changes -> 0..Cardinality(Handlers)]

\* Whatever fails or restarts in between, the effect of a high-risk change is
\* only ever carried out when two different administrators approved it, and
\* PostgreSQL keeps the evidence.
TwoAdministrators ==
  \A c \in Changes :
    performed[c] > 0 => Cardinality(Range(stored.change[c].approvals)) >= 2

\* The project policy that routing uses, and the one a restart would load,
\* comes from a change that two administrators approved and that is recorded
\* as applied in the same document.
PolicyIsApproved ==
  \A d \in {doc, stored} :
    d.policy # None => /\ d.change[d.policy].status = "applied"
                       /\ d.change[d.policy].action = "policy"
                       /\ Cardinality(Range(d.change[d.policy].approvals)) >= 2

\* A stored change request never loses an approval, and an applied one never
\* becomes applicable again, whatever save fails.
AppliedIsFinal ==
  [][\A c \in Changes :
       /\ IsPrefix(stored.change[c].approvals, stored'.change[c].approvals)
       /\ stored.change[c].status = "applied" => stored'.change[c] = stored.change[c]]_vars

\* docs/API.md: "an applied ID cannot be reused".  The effect of a change that
\* is recorded as applied is not carried out again.
AppliedIdNotReused ==
  [][\A c \in Changes :
       doc.change[c].status = "applied" => performed'[c] = performed[c]]_vars
=============================================================================
