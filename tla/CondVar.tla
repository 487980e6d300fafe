---- MODULE CondVar ----
(***************************************************************************)
(* std::condition_variable as the degraded-read workers use it:            *)
(*   while (!p) { unique_lock<mutex> lck(m); cv.wait(lck); }               *)
(* The predicate is tested before the mutex is taken, so a notification    *)
(* that comes after a failed test and before the sleep is lost, and the    *)
(* thread then sleeps although the predicate holds.                        *)
(*                                                                         *)
(* A thread whose predicate is false is somewhere in that loop; where,     *)
(* matters only when a notification arrives.  The thread then either sees  *)
(* the new value (it was asleep and is woken, or tests afterwards) or had  *)
(* tested before and misses it.  `missed' is the set of threads that are   *)
(* past a failed test and have missed every notification since: such a     *)
(* thread takes no step, and the next notification finds it asleep, or     *)
(* still on its way to sleep and is missed as well.                        *)
(***************************************************************************)

\* What notify_one or notify_all does to the set of threads that have missed a
\* notification; `waiting' are the threads that may be in the wait loop of the
\* condition variable, their predicate having been false until now.
Notify(missed, waiting) == {(missed \ waiting) \cup late : late \in SUBSET waiting}
====
