-------------------------- MODULE MCControlRouter --------------------------
(* ControlRouter with two calls that race on one thread, or with one call  *)
(* at a time over two threads that load and unload, and a clock.           *)
EXTENDS ControlRouter, TLC

CONSTANTS c1, c2, t1, t2

VARIABLE race

MCInit == Init /\ race \in BOOLEAN /\ loaded = IF race THEN {t1} ELSE Threads

MCNext ==
  /\ Next
  /\ race' = race
  /\ IF race THEN now' = now /\ loads' = loads
     ELSE \A c, d \in Calls : c # d => pc'[c] = "idle" \/ pc'[d] = "idle"

MCSpec == MCInit /\ [][MCNext]_<< vars, race >>

MCSymmetry == Permutations({c1, c2})
=============================================================================
