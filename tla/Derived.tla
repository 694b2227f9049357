------------------------------ MODULE Derived -------------------------------
(* Components that share no state and are checked one at a time: a        *)
(* behaviour chooses its component, and the variables that it does not     *)
(* use are off.                                                            *)
EXTENDS Integers, FiniteSets

CONSTANTS NoRow,    \* no row of a table
          NoResult  \* a probe is not settled

VARIABLES
  component, \* the component that the behaviour is of
  v1, v2, v3, v4, v5, v6, v7, v8, v9, v10, v11, v12, v13, v14, v15, v16 \* its variables, in their order

vars ==
  << component, v1, v2, v3, v4, v5, v6, v7, v8, v9, v10, v11, v12, v13, v14, v15, v16 >>

\* The rest of the variables are not used.
Only(c, n) ==
  /\ component = c
  /\ (n < 4 => v4 = "off") /\ (n < 5 => v5 = "off") /\ (n < 6 => v6 = "off")
  /\ (n < 7 => v7 = "off") /\ (n < 8 => v8 = "off") /\ (n < 9 => v9 = "off")
  /\ (n < 10 => v10 = "off") /\ (n < 11 => v11 = "off") /\ (n < 12 => v12 = "off")
  /\ (n < 13 => v13 = "off") /\ (n < 14 => v14 = "off") /\ (n < 15 => v15 = "off")
  /\ (n < 16 => v16 = "off")
=============================================================================
