----------------------------- MODULE StateStore -----------------------------
(***************************************************************************)
(* The document stores of src/src/storage.rs as AuthStore, ControlStore    *)
(* and GovernanceStore use them.  PostgreSQL keeps one document and one    *)
(* revision per namespace; every process keeps a copy of both, writes the  *)
(* whole document with a compare-and-swap on the revision, and restores    *)
(* its copy when the write fails.  A document is the sequence of the       *)
(* updates it contains.  Data of a process that its stores keep in memory  *)
(* and write only along with a later change (sessions and login attempts,  *)
(* Provider health) is no part of the document here.                       *)
(***************************************************************************)
EXTENDS Integers, Sequences, SequencesExt, FiniteSets

CONSTANTS
  Instances,   \* server processes sharing the database
  Namespaces,  \* "auth", "control", "governance": documents of modelport_state
  Probed,      \* namespaces whose readiness check reads the database
  Writes,      \* updates a handler may make, each made at most once
  Restored,    \* the document of a backup
  None

ASSUME NamespacesAssumption == Probed \subseteq Namespaces
ASSUME ValuesAssumption == Restored \notin Writes /\ None \notin Writes

VARIABLES
  committed,  \* per namespace, the documents committed so far; revision r is the r-th
  flight,     \* compare-and-swap statements on their way to PostgreSQL
  mem,        \* per instance and namespace: inner, revision, persistence_degraded
  probe,      \* per instance and namespace: a running readiness check
  result,     \* what the handler of an update returned
  cli         \* the restore command

vars == <<committed, flight, mem, probe, result, cli>>

Revision(n) == Len(committed[n])

\* The document of a revision; before the first write, the default document.
Document(n, r) == IF r = 0 THEN <<>> ELSE committed[n][r]

\* pc of the mutex-protected writer: "down"; "idle", mutex free; "waiting" for
\* the worker's answer; "swapped", "failed" with it; "stored" after revision.store.
Down == [pc |-> "down", doc |-> <<>>, previous |-> <<>>, revision |-> 0,
         degraded |-> FALSE, write |-> None, answer |-> 0]

Idle(doc, revision, degraded) ==
  [Down EXCEPT !.pc = "idle", !.doc = doc, !.revision = revision, !.degraded = degraded]

NoProbe == [pc |-> "none", seen |-> 0, start |-> <<>>]

Init ==
  /\ committed = [n \in Namespaces |-> <<>>]
  /\ flight = {}
  /\ mem = [i \in Instances |-> [n \in Namespaces |-> Down]]
  /\ probe = [i \in Instances |-> [n \in Namespaces |-> NoProbe]]
  /\ result = [w \in Writes |-> "none"]
  /\ cli = [pc |-> "new", seen |-> [n \in Namespaces |-> 0],
            saved |-> [n \in Namespaces |-> <<>>]]

-----------------------------------------------------------------------------
(* A process.                                                              *)

Pair == {"auth", "control"}

\* load of one namespace: read_versioned_or_default.
load(i, n) ==
  /\ mem[i][n].pc = "down"
  /\ n \in Pair => Revision(n) > 0
  /\ mem' = [mem EXCEPT ![i][n] = Idle(Document(n, Revision(n)), Revision(n), FALSE)]
  /\ UNCHANGED <<committed, flight, probe, result, cli>>

\* The first start on an empty database: bootstrap_initial_admins, and load of
\* ControlStore, write a first document with revision 0 expected.  A start
\* whose write conflicts, or whose answer is lost, ends with an error.
bootstrap(i, n) ==
  /\ mem[i][n].pc = "down" /\ n \in Pair /\ Revision(n) = 0
  /\ committed' = [committed EXCEPT ![n] = Append(@, <<>>)]
  /\ \/ mem' = [mem EXCEPT ![i][n] = Idle(<<>>, 1, FALSE)]
     \/ UNCHANGED mem
  /\ UNCHANGED <<flight, probe, result, cli>>

\* The process dies; statements it has sent may still be executed.
crash(i) ==
  /\ \E n \in Namespaces : mem[i][n].pc # "down"
  /\ mem' = [mem EXCEPT ![i] = [n \in Namespaces |-> Down]]
  /\ probe' = [probe EXCEPT ![i] = [n \in Namespaces |-> NoProbe]]
  /\ result' = [w \in Writes |-> IF \E n \in Namespaces : mem[i][n].write = w
                                 THEN "unknown" ELSE result[w]]
  /\ UNCHANGED <<committed, flight, cli>>

\* A mutation: with inner locked, snapshot it, change it, and send the
\* compare-and-swap with the revision of this process.
mutate(i, n, w) ==
  /\ mem[i][n].pc = "idle" /\ result[w] = "none"
  /\ LET new == Append(mem[i][n].doc, w) IN
     /\ mem' = [mem EXCEPT ![i][n] = [@ EXCEPT !.pc = "waiting", !.doc = new, !.write = w,
                                               !.previous = mem[i][n].doc]]
     /\ flight' = flight \cup {[ns |-> n, expected |-> mem[i][n].revision, doc |-> new, write |-> w]}
  /\ result' = [result EXCEPT ![w] = "pending"]
  /\ UNCHANGED <<committed, probe, cli>>

\* The process waiting for this statement, if it is still alive, has its answer.
Answered(s, pc, answer) ==
  mem' = [i \in Instances |-> [n \in Namespaces |->
            IF mem[i][n].pc = "waiting" /\ mem[i][n].write = s.write
            THEN [mem[i][n] EXCEPT !.pc = pc, !.answer = answer] ELSE mem[i][n]]]

\* Mutant: the UPDATE lacks `AND revision = $3`.
overwrite(s) ==
  /\ s \in flight
  /\ committed' = [committed EXCEPT ![s.ns] = Append(@, s.doc)]
  /\ flight' = flight \ {s}
  /\ Answered(s, "swapped", Revision(s.ns) + 1)
  /\ UNCHANGED <<probe, result, cli>>

\* compare_and_swap_postgres_value: UPDATE ... WHERE revision = $3, or the
\* first INSERT.
compare_and_swap(s) ==
  /\ s \in flight /\ s.expected = Revision(s.ns)
  /\ committed' = [committed EXCEPT ![s.ns] = Append(@, s.doc)]
  /\ flight' = flight \ {s}
  /\ Answered(s, "swapped", s.expected + 1)
  /\ UNCHANGED <<probe, result, cli>>

\* No row matches: state_conflict.
state_conflict(s) ==
  /\ s \in flight /\ s.expected # Revision(s.ns)
  /\ flight' = flight \ {s}
  /\ Answered(s, "conflict", 0)
  /\ UNCHANGED <<committed, probe, result, cli>>

\* The statement never reaches the database.
lose(s) ==
  /\ s \in flight
  /\ flight' = flight \ {s}
  /\ Answered(s, "failed", 0)
  /\ UNCHANGED <<committed, probe, result, cli>>

\* The connection fails while the statement may still be executed, or after
\* it was: the worker answers with a database error.
disconnect(i, n) ==
  /\ mem[i][n].pc \in {"waiting", "swapped"}
  /\ mem' = [mem EXCEPT ![i][n].pc = "failed"]
  /\ UNCHANGED <<committed, flight, probe, result, cli>>

\* save_locked with Ok: revision.store ...
store_revision(i, n) ==
  /\ mem[i][n].pc = "swapped"
  /\ mem' = [mem EXCEPT ![i][n] = [@ EXCEPT !.pc = "stored", !.revision = mem[i][n].answer]]
  /\ UNCHANGED <<committed, flight, probe, result, cli>>

\* ... then persistence_degraded.store(false), unlock, and the handler's Ok.
acknowledge(i, n) ==
  /\ mem[i][n].pc = "stored"
  /\ result' = [result EXCEPT ![mem[i][n].write] = "ok"]
  /\ mem' = [mem EXCEPT ![i][n] = Idle(mem[i][n].doc, mem[i][n].revision, FALSE)]
  /\ UNCHANGED <<committed, flight, probe, cli>>

\* Mutant: the snapshot is not put back.
keep_failed_change(i, n) ==
  /\ mem[i][n].pc \in {"failed", "conflict"}
  /\ result' = [result EXCEPT ![mem[i][n].write] = mem[i][n].pc]
  /\ mem' = [mem EXCEPT ![i][n] = Idle(mem[i][n].doc, mem[i][n].revision, TRUE)]
  /\ UNCHANGED <<committed, flight, probe, cli>>

\* Mutant: a failed save takes the revision back as well.
restore_previous_revision(i, n) ==
  /\ mem[i][n].pc \in {"failed", "conflict"}
  /\ result' = [result EXCEPT ![mem[i][n].write] = mem[i][n].pc]
  /\ mem' = [mem EXCEPT ![i][n] = Idle(mem[i][n].previous, mem[i][n].revision - 1, TRUE)]
  /\ UNCHANGED <<committed, flight, probe, cli>>

\* save_or_restore with Err: persistence_degraded.store(true), *inner = previous.
restore_previous(i, n) ==
  /\ mem[i][n].pc \in {"failed", "conflict"}
  /\ result' = [result EXCEPT ![mem[i][n].write] = mem[i][n].pc]
  /\ mem' = [mem EXCEPT ![i][n] = Idle(mem[i][n].previous, mem[i][n].revision, TRUE)]
  /\ UNCHANGED <<committed, flight, probe, cli>>
-----------------------------------------------------------------------------
(* Readiness.  It takes no lock: writers run between its steps.            *)

\* persistence_degraded.load; GovernanceStore::is_ready answers with that.
health_check(i, n) ==
  /\ mem[i][n].pc # "down" /\ ~mem[i][n].degraded /\ probe[i][n].pc = "none"
  /\ probe' = [probe EXCEPT ![i][n] = [NoProbe EXCEPT !.pc = IF n \in Probed THEN "read" ELSE "ready",
                                                      !.start = Document(n, Revision(n))]]
  /\ UNCHANGED <<committed, flight, mem, result, cli>>

\* read_versioned()?.revision
read_versioned(i, n) ==
  /\ probe[i][n].pc = "read"
  /\ probe' = [probe EXCEPT ![i][n] = [@ EXCEPT !.pc = "compare", !.seen = Revision(n)]]
  /\ UNCHANGED <<committed, flight, mem, result, cli>>

\* Mutant: a reachable database is enough.
compare_nothing(i, n) ==
  /\ probe[i][n].pc = "compare"
  /\ probe' = [probe EXCEPT ![i][n].pc = "ready"]
  /\ UNCHANGED <<committed, flight, mem, result, cli>>

\* revision.load and the comparison.
compare(i, n) ==
  /\ probe[i][n].pc = "compare"
  /\ probe' = [probe EXCEPT ![i][n].pc = IF probe[i][n].seen = mem[i][n].revision
                                         THEN "ready" ELSE "stale"]
  /\ UNCHANGED <<committed, flight, mem, result, cli>>

\* Mutant: the answer is an error but the flag stays as it is.
report_stale_only(i, n) ==
  /\ probe[i][n].pc = "stale"
  /\ probe' = [probe EXCEPT ![i][n] = NoProbe]
  /\ UNCHANGED <<committed, flight, mem, result, cli>>

\* persistence_degraded.store(true) of a stale instance.
mark_stale(i, n) ==
  /\ probe[i][n].pc = "stale"
  /\ mem' = [mem EXCEPT ![i][n].degraded = TRUE]
  /\ probe' = [probe EXCEPT ![i][n] = NoProbe]
  /\ UNCHANGED <<committed, flight, result, cli>>

\* The answer is given, or read_versioned failed.
probe_done(i, n) ==
  /\ probe[i][n].pc \in {"read", "ready"}
  /\ probe' = [probe EXCEPT ![i][n] = NoProbe]
  /\ UNCHANGED <<committed, flight, mem, result, cli>>

-----------------------------------------------------------------------------
(* restore_backup of src/src/cli.rs, over "auth" and "control".            *)

\* read_versioned of each store, one after the other.
restore_read(n) ==
  /\ <<cli.pc, n>> \in {<<"new", "auth">>, <<"auth", "control">>}
  /\ cli' = [cli EXCEPT !.pc = n, !.seen[n] = Revision(n), !.saved[n] = Document(n, Revision(n))]
  /\ UNCHANGED <<committed, flight, mem, probe, result>>

\* Mutant: the pair is written without the revisions that were read.
restore_backup_unchecked ==
  /\ cli.pc = "control"
  /\ cli' = [cli EXCEPT !.pc = "done"]
  /\ committed' = [n \in Namespaces |-> IF n \in Pair THEN Append(committed[n], <<Restored>>)
                                        ELSE committed[n]]
  /\ UNCHANGED <<flight, mem, probe, result>>

\* compare_and_swap_pair, after backup_existing_state wrote what was read.
restore_backup ==
  /\ cli.pc = "control"
  /\ cli' = [cli EXCEPT !.pc = "done"]
  /\ IF \A n \in Pair : cli.seen[n] = Revision(n)
     THEN committed' = [n \in Namespaces |-> IF n \in Pair THEN Append(committed[n], <<Restored>>)
                                             ELSE committed[n]]
     ELSE UNCHANGED committed
  /\ UNCHANGED <<flight, mem, probe, result>>

Readiness(i, n) ==
  \/ health_check(i, n) \/ read_versioned(i, n) \/ compare(i, n) \/ mark_stale(i, n)
  \/ probe_done(i, n)

Save(i, n) == store_revision(i, n) \/ acknowledge(i, n) \/ restore_previous(i, n)

Next ==
  \/ \E i \in Instances : crash(i)
  \/ \E i \in Instances, n \in Namespaces :
       \/ load(i, n) \/ bootstrap(i, n) \/ disconnect(i, n) \/ Save(i, n) \/ Readiness(i, n)
       \/ \E w \in Writes : mutate(i, n, w)
  \/ \E s \in flight : compare_and_swap(s) \/ state_conflict(s) \/ lose(s)
  \/ \E n \in Namespaces : restore_read(n)
  \/ restore_backup

Spec == Init /\ [][Next]_vars

\* An orchestrator polls readiness, and PostgreSQL is reachable again and again.
PolledSpec ==
  Spec /\ \A i \in Instances, n \in Namespaces :
            /\ WF_vars(health_check(i, n)) /\ SF_vars(read_versioned(i, n))
            /\ WF_vars(compare(i, n)) /\ WF_vars(mark_stale(i, n)) /\ WF_vars(probe_done(i, n))

-----------------------------------------------------------------------------
(* Properties.                                                             *)

Documents == Seq(Writes \cup {Restored})

\* Every variable has the shape of its Rust counterpart.
TypeOK ==
  /\ committed \in [Namespaces -> Seq(Documents)]
  /\ \A s \in flight : s \in [ns : Namespaces, expected : Nat, doc : Documents, write : Writes]
  /\ mem \in [Instances -> [Namespaces ->
       [pc : {"down", "idle", "waiting", "swapped", "conflict", "failed", "stored"},
        doc : Documents, previous : Documents, revision : Nat, degraded : BOOLEAN,
        write : Writes \cup {None}, answer : Nat]]]
  /\ probe \in [Instances -> [Namespaces ->
       [pc : {"none", "read", "compare", "stale", "ready"}, seen : Nat, start : Documents]]]
  /\ result \in [Writes -> {"none", "pending", "ok", "conflict", "failed", "unknown"}]
  /\ cli \in [pc : {"new", "auth", "control", "done"}, seen : [Namespaces -> Nat],
              saved : [Namespaces -> Documents]]

\* What a process serves when its mutex is free is exactly the document that
\* PostgreSQL committed at the process's revision: no failed, conflicting or
\* ambiguous write leaves a change active only in one process.
MemoryIsCommitted ==
  \A i \in Instances, n \in Namespaces :
    mem[i][n].pc = "idle" => /\ mem[i][n].revision <= Revision(n)
                             /\ mem[i][n].doc = Document(n, mem[i][n].revision)

\* Updates that were committed, whatever happened to them since.
Written(w) == \E n \in Namespaces : \E r \in DOMAIN committed[n] : Contains(committed[n][r], w)

\* Complete-document writes of several processes, some of them executed after
\* their process gave up on them or died, never overwrite each other: every
\* revision is the one before plus one new update, the first, or a backup.  An
\* update that returned Ok is committed and one that returned 409 never is.
NoLostUpdate ==
  /\ \A n \in Namespaces : \A r \in DOMAIN committed[n] :
       \/ committed[n][r] = <<Restored>> \/ (r = 1 /\ committed[n][r] = <<>>)
       \/ \E w \in Writes : /\ committed[n][r] = Append(Document(n, r - 1), w)
                            /\ ~Contains(Document(n, r - 1), w)
  /\ \A w \in Writes : result[w] = "ok" => Written(w)
  /\ \A w \in Writes : result[w] = "conflict" => ~Written(w)

\* An instance that answers ready for a store serves every update of it that
\* PostgreSQL held when the readiness check began.  GovernanceStore::is_ready
\* does not read PostgreSQL and promises no such thing.
ReadyIsCurrent ==
  \A i \in Instances, n \in Probed :
    probe[i][n].pc = "ready" => IsPrefix(probe[i][n].start, mem[i][n].doc)

Stale(i, n) == mem[i][n].pc # "down" /\ mem[i][n].revision # Revision(n)

\* Readiness fails closed: an instance that stays behind PostgreSQL, because
\* another process wrote or its own write was committed after it gave up on
\* it, is marked degraded.
StaleIsFlagged ==
  \A i \in Instances, n \in Probed : Stale(i, n) ~> (mem[i][n].degraded \/ ~Stale(i, n))

\* A restored backup replaces both documents or neither, and what it replaced
\* is what the command had saved: a concurrent writer's update is never
\* discarded without a copy.
RestoreKeepsACopy ==
  \A n \in Pair \cap Namespaces : \A r \in DOMAIN committed[n] :
    committed[n][r] = <<Restored>> =>
      /\ Document(n, r - 1) = cli.saved[n]
      /\ \A m \in Pair : <<Restored>> \in Range(committed[m])
=============================================================================
