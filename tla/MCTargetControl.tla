-------------------------- MODULE MCTargetControl --------------------------
(* TargetControl with two concurrent calls: of one process, or of two that *)
(* share the audit file.                                                   *)
EXTENDS TargetControl, TLC

CONSTANTS p1, p2, c1, c2, b1, b2

MCProcOf       == [c \in Calls |-> p1]
MCSharedProcOf == (c1 :> p1) @@ (c2 :> p2)

\* Two processes differ only in name, but ProcOf ties each to its call.
MCSharedSymmetry == Permutations({b1, b2})
MCSymmetry       == Permutations({c1, c2}) \cup MCSharedSymmetry
=============================================================================
