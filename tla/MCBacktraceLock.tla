-------------------------- MODULE MCBacktraceLock --------------------------
(***************************************************************************)
(* BacktraceLock for three threads that nest their calls three deep: one   *)
(* thread to poison the mutex and two to meet the poisoned mutex.          *)
(***************************************************************************)
EXTENDS BacktraceLock

MCThreads == {"t1", "t2", "t3"}

=============================================================================
