--------------------------- MODULE ApprovalLedger ---------------------------
(***************************************************************************)
(* What the approval gate promises, without a file, a clock or a process:  *)
(* a dry run grants an approval for one control, and an approval is used   *)
(* at most once, for exactly the control it was granted for.               *)
(***************************************************************************)
EXTENDS Integers, Sequences

CONSTANTS Ids, Bindings, NoBinding

VARIABLES granted,   \* the control each approval was granted for
          uses       \* the controls performed under each approval

ledgerVars == << granted, uses >>

Init ==
  /\ granted = [a \in Ids |-> NoBinding]
  /\ uses    = [a \in Ids |-> << >>]

Grant(a, b) ==
  /\ granted[a] = NoBinding
  /\ granted' = [granted EXCEPT ![a] = b]
  /\ UNCHANGED uses

Use(a) ==
  /\ granted[a] # NoBinding
  /\ uses[a] = << >>
  /\ uses' = [uses EXCEPT ![a] = << granted[a] >>]
  /\ UNCHANGED granted

Next ==
  \/ \E a \in Ids, b \in Bindings : Grant(a, b)
  \/ \E a \in Ids : Use(a)

Spec == Init /\ [][Next]_ledgerVars
=============================================================================
