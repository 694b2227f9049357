----------------------------- MODULE MCDerived ------------------------------
(* What LCO keeps beside its sessions, what it tells of them, and what its *)
(* harnesses claim: 23 components, checked one at a time.                  *)
EXTENDS DerivedStore, DerivedReports, DerivedHarness, TLC

\* Processes, users and agents may change places, and so may files and the like.
Symmetry == Permutations(Actors) \cup Permutations(Refs)

\* A behaviour is one of one of the parts: none of their steps changes the component.
Init == StoreInit \/ ReportInit \/ HarnessInit
Next == StoreNext \/ ReportNext \/ HarnessNext
Spec == Init /\ [][Next]_vars
=============================================================================
