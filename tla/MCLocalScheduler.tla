-------------------------- MODULE MCLocalScheduler --------------------------
(* Instances of LocalScheduler for TLC. *)
EXTENDS LocalScheduler, TLC

CONSTANTS u1, u2

Profile(u, mode, class, cloud) ==
  [user |-> u, mode |-> mode, class |-> class, cloud |-> cloud]

\* Two users, both classes, strict and hybrid modes.
MCProfiles ==
  {Profile(u1, "local_strict", "interactive", FALSE),
   Profile(u2, "local_strict", "batch", FALSE),
   Profile(u2, "balanced", "interactive", TRUE)}

\* One user's interactive requests and another's batch requests.
MCTwoClasses ==
  {Profile(u1, "local_strict", "interactive", FALSE),
   Profile(u2, "local_strict", "batch", FALSE)}

\* A single user.
MCOneUser == {Profile(u1, "local_strict", "interactive", FALSE)}

\* A longer interactive queue, as in the code's defaults.
MCQueues == [interactive |-> 2, batch |-> 1]

MCQueueOfTwo == [k \in Classes |-> 2]

Symmetry == Permutations(Calls)
=============================================================================
