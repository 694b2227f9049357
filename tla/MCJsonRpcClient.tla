-------------------------- MODULE MCJsonRpcClient --------------------------
(* JsonRpcClient with a send or an idle delivery, and a steer. *)
EXTENDS JsonRpcClient

CONSTANTS o1, o2, o3

MCKindOf == [o \in Ops |-> CASE o = o1 -> "send"
                             [] o = o2 -> "steer"
                             [] o = o3 -> "idle_send"]

\* The send and the delivery are alternatives.
MCNext == Next /\ (phase'[o1] = "idle" \/ phase'[o3] = "idle")

MCSpec     == Init /\ [][MCNext]_vars
MCFairSpec == MCSpec /\ Fairness
=============================================================================
