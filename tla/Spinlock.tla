------------------------------ MODULE Spinlock ------------------------------
(***************************************************************************)
(* The test-and-set lock of include/sys/spinlock.h.  A core that finds the *)
(* flag set spins, which is stuttering here: the step is enabled only when *)
(* __atomic_test_and_set returns false.  Nothing queues the cores that     *)
(* spin, and the lock does not remember who took it.                       *)
(***************************************************************************)

VARIABLE lock   \* spinlock_t.lock: TRUE is 1 (locked)

spinlock_init == lock = FALSE

spinlock_acquire ==
  /\ lock = FALSE
  /\ lock' = TRUE

spinlock_release == lock' = FALSE

=============================================================================
