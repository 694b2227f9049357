------------------------ MODULE ControlRouterProofs ------------------------
(***************************************************************************)
(* The control router, for any number of threads, calls and references.    *)
(***************************************************************************)
EXTENDS ControlRouter, SequenceTheorems, TLAPS

Targets     == [thread : Threads, state : {"idle", "active"}, turn : TurnIds, expires : Nat]
Projections == [thread : Threads, state : {"idle", "active"}, turn : TurnIds]
Hits        == [control : Controls, at : TurnIds]
Places      == {"idle", "list", "read", "turns", "decide", "sent"}
Goals       == {"route", "deliver", "interrupt"}

TypeInv ==
  /\ loaded \subseteq Threads
  /\ running \in [Threads -> TurnIds]
  /\ turns \in TurnIds
  /\ loads \in Nat
  /\ now \in Nat
  /\ targets \in Seq(Targets)
  /\ pc \in [Calls -> Places]
  /\ goal \in [Calls -> Goals]
  /\ ref \in [Calls -> Nat]
  /\ live \in [Calls -> BOOLEAN]
  /\ approval \in [Calls -> 0 .. MaxApprovals]
  /\ todo \in [Calls -> SUBSET Threads]
  /\ reading \in [Calls -> Threads \cup {Nobody}]
  /\ found \in [Calls -> SUBSET Projections]
  /\ granted \in [Ids -> Controls \cup {NoControl}]
  /\ uses \in [Ids -> Seq(Controls)]
  /\ held \in [Calls -> SUBSET TurnIds]
  /\ hits \in [Ids -> Seq(Hits)]

\* The turn a reading of the target saw is one the target went through.
SeenIn(p, t, heldTurns) ==
  /\ p.thread = t
  /\ (IF p.state = "idle" THEN 0 ELSE p.turn) \in heldTurns

\* What a call knows: of its target it has read only what it witnessed, and
\* what it has sent is what its approval was granted for.
CallInv(c) ==
  /\ pc[c] = "idle" => ref[c] = 0 /\ found[c] = {}
  /\ goal[c] = "route" => ref[c] = 0
  /\ pc[c] # "idle" /\ goal[c] # "route" => ref[c] # 0
  /\ pc[c] = "turns" => reading[c] \in Threads
  /\ ref[c] # 0 =>
       /\ ref[c] \in DOMAIN targets
       /\ running[TargetOf(c).thread] \in held[c]
       /\ pc[c] \in {"read", "turns"} => todo[c] \subseteq {TargetOf(c).thread}
       /\ pc[c] = "turns" => reading[c] = TargetOf(c).thread
       /\ \A p \in found[c] : SeenIn(p, TargetOf(c).thread, held[c])
  /\ pc[c] = "sent" =>
       goal[c] # "route" /\ approval[c] \in Ids /\ granted[approval[c]] = Bound(c)

HitInv ==
  \A a \in Ids : \A i \in DOMAIN hits[a] :
    /\ granted[a] \in Controls
    /\ hits[a][i].control.action # "send" =>
         /\ granted[a].action = hits[a][i].control.action
         /\ granted[a].turn = hits[a][i].at

\* What is performed or on its way has been claimed, once.
SpentInv ==
  /\ \A a \in Ids : hits[a] # << >> => uses[a] # << >>
  /\ \A c \in Calls : pc[c] = "sent" =>
       uses[approval[c]] # << >> /\ hits[approval[c]] = << >>
  /\ \A c, d \in Calls :
       pc[c] = "sent" /\ pc[d] = "sent" /\ approval[c] = approval[d] => c = d

RouterInv ==
  /\ TypeInv
  /\ \A c \in Calls : CallInv(c)
  /\ HitInv
  /\ SpentInv

----------------------------------------------------------------------------
(***************************************************************************)
(* A reference that was handed out names a thread.                         *)
(***************************************************************************)
LEMMA TargetFacts ==
  ASSUME TypeInv, NEW r \in DOMAIN targets
  PROVE  /\ r \in Nat /\ r # 0
         /\ targets[r] \in Targets /\ targets[r].thread \in Threads
<1>1. DOMAIN targets = 1 .. Len(targets) /\ Len(targets) \in Nat /\ targets \in Seq(Targets)
  BY LenProperties DEF TypeInv
<1>2. r \in 1 .. Len(targets)
  BY <1>1
<1>3. targets[r] \in Targets
  BY <1>1, <1>2, ElementOfSeq
<1> QED BY <1>1, <1>2, <1>3 DEF Targets

(***************************************************************************)
(* A control that is bound is a control, and an approval for one is not    *)
(* one that was not minted yet.                                            *)
(***************************************************************************)
LEMMA BoundFacts ==
  ASSUME TypeInv, NEW c \in Calls, ref[c] \in DOMAIN targets
  PROVE  /\ TargetOf(c) \in Targets /\ TargetOf(c).thread \in Threads
         /\ Bound(c) \in Controls /\ Bound(c) # NoControl
         /\ Asked(c) = Bound(c)
         /\ Bound(c).action = ActionOf(c) /\ Bound(c).thread = TargetOf(c).thread
<1>1. TargetOf(c) \in Targets
  BY TargetFacts DEF TargetOf
<1>2. /\ ActionOf(c) \in Actions /\ TargetOf(c).thread \in Threads
      /\ TargetOf(c).turn \in TurnIds /\ 0 \in TurnIds
  BY <1>1, BoundsAssumption DEF ActionOf, Actions, Targets, TurnIds
<1>3. /\ Bound(c) \in Controls /\ Bound(c).action = ActionOf(c)
      /\ Bound(c).thread = TargetOf(c).thread
  BY <1>2 DEF Bound, Controls
<1>4. Bound(c) # NoControl
  BY <1>2, NoControlAssumption DEF Bound, Actions, TurnIds
<1> QED BY <1>1, <1>2, <1>3, <1>4 DEF Asked, Bound

LEMMA MintedIsAControl ==
  ASSUME NEW b \in Controls PROVE b # NoControl
<1>1. PICK a \in Actions, t \in Threads, n \in TurnIds :
        b = [action |-> a, thread |-> t, turn |-> n]
  BY DEF Controls
<1> QED BY <1>1, NoControlAssumption DEF Actions, TurnIds

----------------------------------------------------------------------------
(***************************************************************************)
(* Types are kept.                                                         *)
(***************************************************************************)
LEMMA LeaveType ==
  ASSUME TypeInv, NEW c \in Calls, Leave(c)
  PROVE  /\ pc' \in [Calls -> Places] /\ goal' \in [Calls -> Goals]
         /\ ref' \in [Calls -> Nat] /\ live' \in [Calls -> BOOLEAN]
         /\ approval' \in [Calls -> 0 .. MaxApprovals]
         /\ todo' \in [Calls -> SUBSET Threads]
         /\ reading' \in [Calls -> Threads \cup {Nobody}]
         /\ found' \in [Calls -> SUBSET Projections]
BY BoundsAssumption DEF TypeInv, Leave, Places, Goals

LEMMA ReturnType ==
  ASSUME TypeInv, NEW c \in Calls, Return(c),
         UNCHANGED << codexVars, now, gateVars, hits >>,
         targets' \in Seq(Targets)
  PROVE  TypeInv'
<1>1. Leave(c) /\ held' = [held EXCEPT ![c] = {}]
  BY DEF Return
<1>2. held' \in [Calls -> SUBSET TurnIds]
  BY <1>1 DEF TypeInv
<1> QED BY <1>1, <1>2, LeaveType DEF TypeInv, codexVars, gateVars

LEMMA SkipType ==
  ASSUME TypeInv, NEW c \in Calls, NEW t, NEW ps \in SUBSET Projections, Skip(c, t, ps)
  PROVE  /\ pc' \in [Calls -> Places]
         /\ todo' \in [Calls -> SUBSET Threads]
         /\ reading' \in [Calls -> Threads \cup {Nobody}]
         /\ found' \in [Calls -> SUBSET Projections]
BY DEF TypeInv, Skip, Go, Places

LEMMA NextTypes ==
  ASSUME RouterInv, [Next]_vars
  PROVE  TypeInv'
<1> USE BoundsAssumption
<1>0. TypeInv
  BY DEF RouterInv
<1>1. ASSUME NEW c \in Calls, Route(c) PROVE TypeInv'
  BY <1>0, <1>1 DEF Route, Go, TypeInv, Places, Goals, codexVars, gateVars
<1>2. ASSUME NEW c \in Calls, NEW r \in DOMAIN targets, NEW a \in 0 .. MaxApprovals,
             NEW g \in {"deliver", "interrupt"}, Begin(c, g, r, a # 0, a)
      PROVE  TypeInv'
  <2>1. r \in Nat /\ targets[r].thread \in Threads
    BY <1>0, TargetFacts
  <2>2. held' \in [Calls -> SUBSET TurnIds]
    BY <1>0, <1>2, <2>1 DEF Begin, TypeInv
  <2>3. (a # 0) \in BOOLEAN
    OBVIOUS
  <2> QED BY <1>0, <1>2, <2>1, <2>2, <2>3
          DEF Begin, Go, TypeInv, Places, Goals, codexVars, gateVars
<1>3. ASSUME NEW c \in Calls,
             RequestFails(c) \/ Block(c) \/ Reject(c) \/ NotPerformed(c)
      PROVE  TypeInv'
  <2>1. Return(c) /\ UNCHANGED << codexVars, now, targets, gateVars, hits >>
    BY <1>3 DEF RequestFails, Block, Reject, NotPerformed
  <2> QED BY <1>0, <2>1, ReturnType DEF TypeInv
<1>4. ASSUME NEW c \in Calls, List(c) PROVE TypeInv'
  <2>1. UNCHANGED << codexVars, now, targets, gateVars, hits >>
    BY <1>4 DEF List
  <2>2. CASE Return(c)
    BY <1>0, <2>1, <2>2, ReturnType DEF TypeInv
  <2>3. CASE ~Return(c)
    <3>1. PICK wanted \in SUBSET Threads :
            /\ Go(c, "read")
            /\ todo' = [todo EXCEPT ![c] = wanted]
            /\ UNCHANGED << goal, ref, live, approval, reading, found, held >>
      BY <1>0, <1>4, <2>3 DEF List, TypeInv
    <3> QED BY <1>0, <2>1, <3>1 DEF TypeInv, Go, Places, codexVars, gateVars
  <2> QED BY <2>2, <2>3
<1>5. ASSUME NEW c \in Calls, ReadMetadata(c) PROVE TypeInv'
  <2>1. PICK t \in todo[c] :
          \/ Skip(c, t, {})
          \/ Skip(c, t, {Projection(t, "idle", 0)})
          \/ /\ Go(c, "turns")
             /\ reading' = [reading EXCEPT ![c] = t]
             /\ UNCHANGED << todo, found >>
    BY <1>5 DEF ReadMetadata
  <2>2. /\ t \in Threads
        /\ {} \in SUBSET Projections
        /\ {Projection(t, "idle", 0)} \in SUBSET Projections
    BY <1>0 DEF TypeInv, Projection, Projections, TurnIds
  <2>3. /\ pc' \in [Calls -> Places]
        /\ todo' \in [Calls -> SUBSET Threads]
        /\ reading' \in [Calls -> Threads \cup {Nobody}]
        /\ found' \in [Calls -> SUBSET Projections]
    <3>1. CASE Skip(c, t, {}) \/ Skip(c, t, {Projection(t, "idle", 0)})
      BY <1>0, <2>2, <3>1, SkipType
    <3>2. CASE /\ Go(c, "turns")
               /\ reading' = [reading EXCEPT ![c] = t]
               /\ UNCHANGED << todo, found >>
      BY <1>0, <2>2, <3>2 DEF TypeInv, Go, Places
    <3> QED BY <2>1, <3>1, <3>2
  <2> QED BY <1>0, <1>5, <2>3 DEF ReadMetadata, TypeInv, codexVars, gateVars
<1>6. ASSUME NEW c \in Calls, ReadTurns(c) PROVE TypeInv'
  <2>1. reading[c] \in Threads
    BY <1>6 DEF ReadTurns, RouterInv, CallInv
  <2> DEFINE ps == IF reading[c] \in loaded
                   THEN {Projection(reading[c], "active", running[reading[c]])} ELSE {}
  <2>2. Skip(c, reading[c], ps) /\ ps \in SUBSET Projections
    BY <1>0, <1>6, <2>1 DEF ReadTurns, TypeInv, Projection, Projections
  <2> HIDE DEF ps
  <2>3. /\ pc' \in [Calls -> Places]
        /\ todo' \in [Calls -> SUBSET Threads]
        /\ reading' \in [Calls -> Threads \cup {Nobody}]
        /\ found' \in [Calls -> SUBSET Projections]
    BY <1>0, <2>2, SkipType
  <2> QED BY <1>0, <1>6, <2>3 DEF ReadTurns, TypeInv, codexVars, gateVars
<1>7. ASSUME NEW c \in Calls, NEW hint, Select(c, hint) PROVE TypeInv'
  <2>1. ASSUME NEW p \in Selected(c, hint)
        PROVE  [thread |-> p.thread, state |-> p.state, turn |-> p.turn,
                expires |-> now + TTL] \in Targets
    <3>1. p \in Projections
      BY <1>0 DEF Selected, InState, TypeInv
    <3>2. now + TTL \in Nat
      BY <1>0 DEF TypeInv
    <3> QED BY <3>1, <3>2 DEF Projections, Targets
  <2>2. targets' \in Seq(Targets)
    <3>1. targets \in Seq(Targets)
      BY <1>0 DEF TypeInv
    <3>2. CASE UNCHANGED targets
      BY <3>1, <3>2
    <3>3. ASSUME NEW e \in Targets, targets' = Append(targets, e)
          PROVE  targets' \in Seq(Targets)
      BY <3>1, <3>3, AppendProperties
    <3> QED BY <1>7, <2>1, <3>2, <3>3 DEF Select
  <2> QED BY <1>0, <1>7, <2>2, ReturnType DEF Select
<1>8. ASSUME NEW c \in Calls, DryRun(c) PROVE TypeInv'
  <2>1. PICK a \in Ids : granted' = [granted EXCEPT ![a] = Bound(c)]
    BY <1>8 DEF DryRun
  <2>2. ref[c] \in DOMAIN targets
    BY <1>8 DEF DryRun, RouterInv, CallInv
  <2>3. Bound(c) \in Controls
    BY <1>0, <2>2, BoundFacts
  <2>4. granted' \in [Ids -> Controls \cup {NoControl}]
    BY <1>0, <2>1, <2>3 DEF TypeInv
  <2>5. Leave(c) /\ held' = [held EXCEPT ![c] = {}]
    BY <1>8 DEF DryRun, Return
  <2>6. held' \in [Calls -> SUBSET TurnIds]
    BY <1>0, <2>5 DEF TypeInv
  <2> QED BY <1>0, <1>8, <2>4, <2>5, <2>6, LeaveType DEF DryRun, TypeInv, codexVars
<1>9. ASSUME NEW c \in Calls, Claim(c) PROVE TypeInv'
  <2>1. ref[c] \in DOMAIN targets /\ approval[c] \in Ids
    BY <1>9 DEF Claim, Approved, RouterInv, CallInv
  <2>2. Bound(c) \in Controls
    BY <1>0, <2>1, BoundFacts
  <2>3. Append(uses[approval[c]], Bound(c)) \in Seq(Controls)
    BY <1>0, <2>1, <2>2, AppendProperties DEF TypeInv
  <2>4. uses' \in [Ids -> Seq(Controls)]
    BY <1>0, <1>9, <2>1, <2>3 DEF Claim, TypeInv
  <2> QED BY <1>0, <1>9, <2>4 DEF Claim, TypeInv, Go, Places, codexVars
<1>10. ASSUME held' \in [Calls -> SUBSET TurnIds], running' \in [Threads -> TurnIds],
              turns' \in TurnIds, UNCHANGED << loaded, loads, now, targets, gateVars >>
       PROVE  /\ UNCHANGED << callVars, hits >> => TypeInv'
              /\ \A c \in Calls : Leave(c) /\ hits' \in [Ids -> Seq(Hits)] => TypeInv'
  <2>1. ASSUME UNCHANGED << callVars, hits >> PROVE TypeInv'
    BY <1>0, <1>10, <2>1 DEF TypeInv, gateVars, callVars
  <2>2. ASSUME NEW c \in Calls, Leave(c), hits' \in [Ids -> Seq(Hits)] PROVE TypeInv'
    BY <1>0, <1>10, <2>2, LeaveType DEF TypeInv, gateVars
  <2> QED BY <2>1, <2>2
<1>11. ASSUME NEW t, NEW u \in TurnIds, NEW gone, Witnessed(t, u, gone)
       PROVE  held' \in [Calls -> SUBSET TurnIds]
  BY <1>0, <1>11 DEF Witnessed, TypeInv
<1>12. ASSUME NEW c \in Calls, Perform(c) PROVE TypeInv'
  <2>1. ref[c] \in DOMAIN targets /\ approval[c] \in Ids
    BY <1>12 DEF Perform, RouterInv, CallInv
  <2>2. Asked(c) \in Controls /\ Asked(c).thread \in Threads
    BY <1>0, <2>1, BoundFacts DEF Controls
  <2>3. running' \in [Threads -> TurnIds] /\ turns' \in TurnIds
    <3>1. /\ running \in [Threads -> TurnIds] /\ turns \in TurnIds /\ 0 \in TurnIds
          /\ turns < MaxTurns => turns + 1 \in TurnIds
      BY <1>0 DEF TypeInv, TurnIds
    <3>2. \/ turns < MaxTurns /\ turns' = turns + 1
             /\ running' = [running EXCEPT ![Asked(c).thread] = turns + 1]
          \/ UNCHANGED << running, turns >>
          \/ running' = [running EXCEPT ![Asked(c).thread] = 0] /\ UNCHANGED turns
      BY <1>12 DEF Perform
    <3> QED BY <2>2, <3>1, <3>2
  <2> DEFINE hit == [control |-> Asked(c), at |-> running[Asked(c).thread]]
  <2>4. hit \in Hits /\ hits' = [hits EXCEPT ![approval[c]] = Append(@, hit)]
    BY <1>0, <1>12, <2>1, <2>2 DEF TypeInv, Hits, Perform
  <2> HIDE DEF hit
  <2>5. hits' \in [Ids -> Seq(Hits)]
    <3>1. hits[approval[c]] \in Seq(Hits)
      BY <1>0, <2>1 DEF TypeInv
    <3>2. Append(hits[approval[c]], hit) \in Seq(Hits)
      BY <2>4, <3>1, AppendProperties
    <3> QED BY <1>0, <2>1, <2>4, <3>2 DEF TypeInv
  <2>6. running'[Asked(c).thread] \in TurnIds
    BY <2>2, <2>3
  <2>7. held' \in [Calls -> SUBSET TurnIds]
    BY <1>11, <1>12, <2>6 DEF Perform
  <2> QED BY <1>10, <1>12, <2>3, <2>5, <2>7 DEF Perform
<1>13. ASSUME NEW t \in Threads, TurnStarts(t) PROVE TypeInv'
  <2>1. running' \in [Threads -> TurnIds] /\ turns' \in TurnIds /\ turns + 1 \in TurnIds
    BY <1>0, <1>13 DEF TurnStarts, TypeInv, TurnIds
  <2> QED BY <1>10, <1>11, <1>13, <2>1 DEF TurnStarts
<1>14. ASSUME NEW t \in Threads, TurnEnds(t) PROVE TypeInv'
  <2>1. running' \in [Threads -> TurnIds] /\ turns' \in TurnIds /\ 0 \in TurnIds
    BY <1>0, <1>14 DEF TurnEnds, TypeInv, TurnIds
  <2> QED BY <1>10, <1>11, <1>14, <2>1 DEF TurnEnds
<1>15. ASSUME NEW t \in Threads, LoadOrUnload(t) PROVE TypeInv'
  <2>1. loaded' \subseteq Threads
    BY <1>0, <1>15 DEF LoadOrUnload, TypeInv
  <2> QED BY <1>0, <1>15, <2>1 DEF LoadOrUnload, TypeInv, callVars, gateVars
<1>16. ASSUME Tick PROVE TypeInv'
  BY <1>0, <1>16 DEF Tick, TypeInv, codexVars, callVars, gateVars
<1>17. ASSUME UNCHANGED vars PROVE TypeInv'
  BY <1>0, <1>17 DEF vars, TypeInv, codexVars, callVars, gateVars
<1> QED
  BY <1>1, <1>2, <1>3, <1>4, <1>5, <1>6, <1>7, <1>8, <1>9, <1>12, <1>13, <1>14,
     <1>15, <1>16, <1>17 DEF Next

----------------------------------------------------------------------------
(***************************************************************************)
(* What other actors do to what a call knows: nothing, as long as          *)
(* references and approvals stay and it witnesses the turns of its target. *)
(***************************************************************************)
SameCall(c) ==
  /\ pc'[c] = pc[c] /\ goal'[c] = goal[c] /\ ref'[c] = ref[c]
  /\ approval'[c] = approval[c] /\ todo'[c] = todo[c]
  /\ reading'[c] = reading[c] /\ found'[c] = found[c]

RefsStay == \A r \in DOMAIN targets : r \in DOMAIN targets' /\ targets'[r] = targets[r]

GrantsStay == \A a \in Ids : granted[a] # NoControl => granted'[a] = granted[a]

TurnWitnessed(c) ==
  /\ held[c] \subseteq held'[c]
  /\ ref[c] # 0 => running'[TargetOf(c).thread] \in held'[c]

LEMMA CallKept ==
  ASSUME TypeInv, NEW c \in Calls, CallInv(c), SameCall(c), RefsStay, GrantsStay,
         TurnWitnessed(c)
  PROVE  CallInv(c)'
<1>1. CASE ref[c] = 0
  BY <1>1 DEF CallInv, SameCall
<1>2. CASE ref[c] # 0
  <2>1. ref[c] \in DOMAIN targets
    BY <1>2 DEF CallInv
  <2>2. TargetOf(c)' = TargetOf(c) /\ ref'[c] = ref[c] /\ ref[c] \in DOMAIN targets'
    BY <2>1 DEF SameCall, RefsStay, TargetOf
  <2>3. ActionOf(c)' = ActionOf(c)
    BY <2>2 DEF ActionOf, SameCall
  <2>4. Bound(c)' = Bound(c)
    BY <2>2, <2>3 DEF Bound
  <2>5. \A p \in found'[c] : SeenIn(p, TargetOf(c)'.thread, held'[c])
    BY <1>2, <2>2 DEF CallInv, SameCall, TurnWitnessed, SeenIn
  <2>6. running'[TargetOf(c)'.thread] \in held'[c]
    BY <1>2, <2>2 DEF TurnWitnessed
  <2>7. pc'[c] = "sent" =>
          goal'[c] # "route" /\ approval'[c] \in Ids /\ granted'[approval'[c]] = Bound(c)'
    <3>1. SUFFICES ASSUME pc[c] = "sent"
                   PROVE  goal'[c] # "route" /\ approval'[c] \in Ids
                          /\ granted'[approval'[c]] = Bound(c)'
      BY DEF SameCall
    <3>2. /\ goal[c] # "route" /\ approval[c] \in Ids
          /\ granted[approval[c]] = Bound(c)
      BY <3>1 DEF CallInv
    <3>3. Bound(c) # NoControl
      BY <2>1, BoundFacts
    <3> QED BY <2>4, <3>2, <3>3 DEF SameCall, GrantsStay
  <2> QED BY <1>2, <2>2, <2>5, <2>6, <2>7 DEF CallInv, SameCall
<1> QED BY <1>1, <1>2

LEMMA CallOver ==
  ASSUME TypeInv, NEW c \in Calls, Leave(c)
  PROVE  CallInv(c)' /\ \A d \in Calls : d # c => SameCall(d)
<1>1. /\ pc'[c] = "idle" /\ goal'[c] = "route" /\ ref'[c] = 0 /\ found'[c] = {}
  BY DEF Leave, TypeInv
<1>2. \A d \in Calls : d # c => SameCall(d)
  BY DEF Leave, TypeInv, SameCall
<1> QED BY <1>1, <1>2 DEF CallInv

(***************************************************************************)
(* Codex performs a control: the other calls witness the turn of their     *)
(* target.                                                                 *)
(***************************************************************************)
LEMMA WitnessedByAll ==
  ASSUME TypeInv, NEW t \in Threads, NEW u, NEW gone \in SUBSET Calls,
         Witnessed(t, u, gone), running'[t] = u,
         \A s \in Threads : s # t => running'[s] = running[s],
         NEW c \in Calls \ gone, CallInv(c)
  PROVE  TurnWitnessed(c)
<1>1. held'[c] = IF c \in Witnesses(t) THEN held[c] \cup {u} ELSE held[c]
  BY DEF Witnessed
<1>2. ASSUME ref[c] # 0 PROVE running'[TargetOf(c).thread] \in held'[c]
  <2>1. ref[c] \in DOMAIN targets /\ running[TargetOf(c).thread] \in held[c]
    BY <1>2 DEF CallInv
  <2>2. TargetOf(c).thread \in Threads
    BY <2>1, BoundFacts
  <2>3. CASE TargetOf(c).thread = t
    BY <1>1, <1>2, <2>3 DEF Witnesses
  <2>4. CASE TargetOf(c).thread # t
    BY <1>1, <2>1, <2>2, <2>4
  <2> QED BY <2>3, <2>4
<1> QED BY <1>1, <1>2 DEF TurnWitnessed

LEMMA NextCalls ==
  ASSUME RouterInv, [Next]_vars
  PROVE  \A c \in Calls : CallInv(c)'
<1> USE BoundsAssumption
<1>0. TypeInv /\ \A c \in Calls : CallInv(c)
  BY DEF RouterInv
<1>1. UNCHANGED targets => RefsStay
  BY DEF RefsStay
<1>2. UNCHANGED granted => GrantsStay
  BY DEF GrantsStay
<1>3. ASSUME NEW c \in Calls, UNCHANGED << running, held >> PROVE TurnWitnessed(c)
  BY <1>0, <1>3 DEF TurnWitnessed, CallInv
\* A step of one call that leaves Codex alone.
<1>4. ASSUME NEW c \in Calls, RefsStay, GrantsStay, running' = running,
             CallInv(c)', \A d \in Calls : d # c => SameCall(d) /\ held'[d] = held[d]
      PROVE  \A d \in Calls : CallInv(d)'
  <2>1. SUFFICES ASSUME NEW d \in Calls, d # c PROVE CallInv(d)'
    BY <1>4
  <2>2. TurnWitnessed(d)
    BY <1>0, <1>4, <2>1 DEF TurnWitnessed, CallInv
  <2> QED BY <1>0, <1>4, <2>1, <2>2, CallKept
<1>5. ASSUME NEW c \in Calls, Return(c), RefsStay, GrantsStay, running' = running
      PROVE  \A d \in Calls : CallInv(d)'
  <2>1. Leave(c) /\ \A d \in Calls : d # c => held'[d] = held[d]
    BY <1>0, <1>5 DEF Return, TypeInv
  <2> QED BY <1>0, <1>4, <1>5, <2>1, CallOver
<1>6. ASSUME NEW c \in Calls, Route(c) PROVE \A d \in Calls : CallInv(d)'
  <2>1. /\ pc'[c] = "list" /\ goal'[c] = "route" /\ ref'[c] = 0 /\ pc[c] = "idle"
        /\ \A d \in Calls : d # c => SameCall(d) /\ held'[d] = held[d]
        /\ RefsStay /\ GrantsStay /\ running' = running
    BY <1>0, <1>1, <1>2, <1>6
    DEF Route, Go, TypeInv, CallInv, SameCall, codexVars, gateVars
  <2>2. CallInv(c)'
    BY <2>1 DEF CallInv
  <2> QED BY <1>4, <2>1, <2>2
<1>7. ASSUME NEW c \in Calls, NEW r \in DOMAIN targets, NEW a \in 0 .. MaxApprovals,
             NEW g \in {"deliver", "interrupt"}, Begin(c, g, r, a # 0, a)
      PROVE  \A d \in Calls : CallInv(d)'
  <2>1. /\ pc'[c] = "list" /\ goal'[c] = g /\ ref'[c] = r
        /\ found'[c] = {} /\ targets' = targets
        /\ held'[c] = {running[targets[r].thread]}
        /\ \A d \in Calls : d # c => SameCall(d) /\ held'[d] = held[d]
        /\ RefsStay /\ GrantsStay /\ running' = running
    BY <1>0, <1>1, <1>2, <1>7
    DEF Begin, Go, TypeInv, CallInv, SameCall, codexVars, gateVars
  <2>2. r # 0
    BY <1>0, TargetFacts
  <2>3. CallInv(c)'
    BY <2>1, <2>2 DEF CallInv, TargetOf
  <2> QED BY <1>4, <2>1, <2>3
<1>8. ASSUME NEW c \in Calls,
             RequestFails(c) \/ Block(c) \/ Reject(c) \/ NotPerformed(c)
      PROVE  \A d \in Calls : CallInv(d)'
  <2>1. Return(c) /\ UNCHANGED << codexVars, now, targets, gateVars, hits >>
    BY <1>8 DEF RequestFails, Block, Reject, NotPerformed
  <2> QED BY <1>1, <1>2, <1>5, <2>1 DEF codexVars, gateVars
<1>9. ASSUME NEW c \in Calls, List(c) PROVE \A d \in Calls : CallInv(d)'
  <2>1. UNCHANGED << codexVars, now, targets, gateVars, hits >> /\ pc[c] = "list"
    BY <1>9 DEF List
  <2>2. CASE Return(c)
    BY <1>1, <1>2, <1>5, <2>1, <2>2 DEF codexVars, gateVars
  <2>3. CASE ~Return(c)
    <3> DEFINE wanted == IF goal[c] = "route" THEN loaded
                         ELSE loaded \cap {TargetOf(c).thread}
    <3>1. /\ Go(c, "read")
          /\ todo' = [todo EXCEPT ![c] = wanted]
          /\ UNCHANGED << goal, ref, live, approval, reading, found, held >>
      BY <1>9, <2>3 DEF List
    <3>2. goal[c] # "route" => wanted \subseteq {TargetOf(c).thread}
      OBVIOUS
    <3> HIDE DEF wanted
    <3>3. pc'[c] = "read" /\ todo'[c] = wanted
      BY <1>0, <3>1 DEF TypeInv, Go
    <3>4. CallInv(c)
      BY <1>0
    <3>5. UNCHANGED << running, targets, goal, ref, approval, reading, found, held >>
      BY <2>1, <3>1 DEF codexVars
    <3>6. CallInv(c)'
      BY <2>1, <3>2, <3>3, <3>4, <3>5 DEF CallInv, TargetOf
    <3>7. \A d \in Calls : d # c => SameCall(d) /\ held'[d] = held[d]
      BY <1>0, <3>1 DEF TypeInv, Go, SameCall
    <3> QED BY <1>1, <1>2, <1>4, <2>1, <3>5, <3>6, <3>7 DEF gateVars
  <2> QED BY <2>2, <2>3
<1>10. ASSUME NEW c \in Calls, NEW t \in Threads, NEW ps \in SUBSET Projections,
              Skip(c, t, ps), pc[c] \in {"read", "turns"},
              ref[c] # 0 => \A p \in ps : SeenIn(p, TargetOf(c).thread, held[c]),
              UNCHANGED << codexVars, now, targets, goal, ref, live, approval,
                           gateVars, held, hits >>
       PROVE  \A d \in Calls : CallInv(d)'
  <2>1. /\ todo'[c] = todo[c] \ {t} /\ found'[c] = found[c] \cup ps
        /\ reading'[c] = Nobody /\ pc'[c] \in {"read", "decide"}
        /\ \A d \in Calls : d # c => SameCall(d)
    BY <1>0, <1>10 DEF Skip, Go, TypeInv, SameCall
  <2>2. CallInv(c)
    BY <1>0
  <2>3. UNCHANGED << running, granted >>
    BY <1>10 DEF codexVars, gateVars
  <2>4. CallInv(c)'
    BY <1>10, <2>1, <2>2, <2>3 DEF CallInv, TargetOf
  <2> QED BY <1>1, <1>2, <1>4, <1>10, <2>1, <2>3, <2>4
<1>11. ASSUME NEW c \in Calls, ReadMetadata(c) PROVE \A d \in Calls : CallInv(d)'
  <2>1. /\ pc[c] = "read"
        /\ UNCHANGED << codexVars, now, targets, goal, ref, live, approval, gateVars,
                        held, hits >>
    BY <1>11 DEF ReadMetadata
  <2>2. PICK t \in todo[c] :
          \/ Skip(c, t, {})
          \/ running[t] = 0 /\ Skip(c, t, {Projection(t, "idle", 0)})
          \/ /\ Go(c, "turns")
             /\ reading' = [reading EXCEPT ![c] = t]
             /\ UNCHANGED << todo, found >>
    BY <1>11 DEF ReadMetadata
  <2>3. /\ t \in Threads
        /\ {} \in SUBSET Projections
        /\ {Projection(t, "idle", 0)} \in SUBSET Projections
    BY <1>0 DEF TypeInv, Projection, Projections, TurnIds
  <2>4. ref[c] # 0 => t = TargetOf(c).thread /\ running[t] \in held[c]
    BY <1>0, <2>1 DEF CallInv
  <2>5. CASE Skip(c, t, {})
    BY <1>10, <2>1, <2>3, <2>5
  <2>6. CASE running[t] = 0 /\ Skip(c, t, {Projection(t, "idle", 0)})
    <3>1. ref[c] # 0 => \A p \in {Projection(t, "idle", 0)} :
                          SeenIn(p, TargetOf(c).thread, held[c])
      BY <2>4, <2>6 DEF SeenIn, Projection
    <3> QED BY <1>10, <2>1, <2>3, <2>6, <3>1
  <2>7. CASE /\ Go(c, "turns")
             /\ reading' = [reading EXCEPT ![c] = t]
             /\ UNCHANGED << todo, found >>
    <3>1. /\ pc'[c] = "turns" /\ reading'[c] = t
          /\ \A d \in Calls : d # c => SameCall(d)
      BY <1>0, <2>1, <2>7 DEF Go, TypeInv, SameCall
    <3>2. CallInv(c)
      BY <1>0
    <3>3. UNCHANGED << running, granted >>
      BY <2>1 DEF codexVars, gateVars
    <3>4. CallInv(c)'
      BY <2>1, <2>3, <2>4, <2>7, <3>1, <3>2, <3>3 DEF CallInv, TargetOf
    <3> QED BY <1>1, <1>2, <1>4, <2>1, <3>1, <3>3, <3>4
  <2> QED BY <2>2, <2>5, <2>6, <2>7
<1>12. ASSUME NEW c \in Calls, ReadTurns(c) PROVE \A d \in Calls : CallInv(d)'
  <2> DEFINE t == reading[c]
             ps == IF t \in loaded THEN {Projection(t, "active", running[t])} ELSE {}
  <2>1. /\ pc[c] = "turns" /\ Skip(c, t, ps)
        /\ UNCHANGED << codexVars, now, targets, goal, ref, live, approval, gateVars,
                        held, hits >>
    BY <1>12 DEF ReadTurns
  <2>2. /\ t \in Threads
        /\ ref[c] # 0 => t = TargetOf(c).thread /\ running[t] \in held[c]
    BY <1>0, <2>1 DEF CallInv
  <2>3. ps \in SUBSET Projections
    BY <1>0, <2>2 DEF TypeInv, Projection, Projections
  <2>4. ref[c] # 0 => \A p \in ps : SeenIn(p, TargetOf(c).thread, held[c])
    BY <2>2 DEF SeenIn, Projection
  <2> QED BY <1>10, <2>1, <2>2, <2>3, <2>4
<1>13. ASSUME NEW c \in Calls, NEW hint, Select(c, hint)
       PROVE  \A d \in Calls : CallInv(d)'
  <2>1. Return(c) /\ UNCHANGED << codexVars, now, gateVars, hits >>
    BY <1>13 DEF Select
  <2>2. RefsStay
    <3>1. targets \in Seq(Targets) /\ Len(targets) \in Nat /\ DOMAIN targets = 1 .. Len(targets)
      BY <1>0, LenProperties DEF TypeInv
    <3>2. CASE UNCHANGED targets
      BY <1>1, <3>2
    <3>3. ASSUME NEW e, targets' = Append(targets, e) PROVE RefsStay
      BY <3>1, <3>3 DEF RefsStay
    <3> QED BY <1>13, <3>2, <3>3 DEF Select
  <2> QED BY <1>2, <1>5, <2>1, <2>2 DEF codexVars, gateVars
<1>14. ASSUME NEW c \in Calls, DryRun(c) PROVE \A d \in Calls : CallInv(d)'
  <2>1. PICK a \in Ids : granted[a] = NoControl /\ granted' = [granted EXCEPT ![a] = Bound(c)]
    BY <1>14 DEF DryRun
  <2>2. GrantsStay
    BY <1>0, <2>1 DEF GrantsStay, TypeInv
  <2> QED BY <1>1, <1>5, <1>14, <2>2 DEF DryRun, codexVars
<1>15. ASSUME NEW c \in Calls, Claim(c) PROVE \A d \in Calls : CallInv(d)'
  <2>1. /\ pc'[c] = "sent" /\ approval[c] \in Ids /\ goal[c] # "route"
        /\ granted[approval[c]] = Bound(c) /\ pc[c] = "decide"
        /\ \A d \in Calls : d # c => SameCall(d)
        /\ UNCHANGED << running, targets, goal, ref, approval, todo, reading, found,
                        granted, held >>
    BY <1>0, <1>15 DEF Claim, Approved, Go, TypeInv, SameCall, codexVars
  <2>2. CallInv(c)
    BY <1>0
  <2>3. Bound(c)' = Bound(c)
    BY <2>1 DEF Bound, ActionOf, TargetOf
  <2>4. CallInv(c)'
    BY <2>1, <2>2, <2>3 DEF CallInv, TargetOf
  <2> QED BY <1>1, <1>2, <1>4, <2>1, <2>4
<1>16. ASSUME NEW c \in Calls, Perform(c) PROVE \A d \in Calls : CallInv(d)'
  <2> DEFINE t == Asked(c).thread
  <2>1. ref[c] \in DOMAIN targets
    BY <1>0, <1>16 DEF Perform, CallInv
  <2>2. t \in Threads
    BY <1>0, <2>1, BoundFacts DEF Controls
  <2>3. /\ \A s \in Threads : s # t => running'[s] = running[s]
        /\ Witnessed(t, running'[t], {c}) /\ Leave(c)
        /\ UNCHANGED << targets, granted >>
    BY <1>0, <1>16, <2>2 DEF Perform, TypeInv, gateVars
  <2>4. CallInv(c)' /\ \A d \in Calls : d # c => SameCall(d)
    BY <1>0, <2>3, CallOver
  <2>5. \A d \in Calls : d # c => TurnWitnessed(d)
    BY <1>0, <2>2, <2>3, WitnessedByAll
  <2> QED BY <1>0, <1>1, <1>2, <2>3, <2>4, <2>5, CallKept
<1>17. ASSUME UNCHANGED << targets, callVars, gateVars >>,
              \A c \in Calls : TurnWitnessed(c)
       PROVE  \A d \in Calls : CallInv(d)'
  <2>1. \A d \in Calls : SameCall(d)
    BY <1>17 DEF SameCall, callVars
  <2> QED BY <1>0, <1>1, <1>2, <1>17, <2>1, CallKept DEF gateVars
<1>18. ASSUME NEW t \in Threads, TurnStarts(t) PROVE \A d \in Calls : CallInv(d)'
  <2>1. /\ running'[t] = turns + 1 /\ Witnessed(t, turns + 1, {})
        /\ \A s \in Threads : s # t => running'[s] = running[s]
        /\ UNCHANGED << targets, callVars, gateVars >>
    BY <1>0, <1>18 DEF TurnStarts, TypeInv
  <2>2. \A d \in Calls : TurnWitnessed(d)
    BY <1>0, <2>1, WitnessedByAll
  <2> QED BY <1>17, <2>1, <2>2
<1>19. ASSUME NEW t \in Threads, TurnEnds(t) PROVE \A d \in Calls : CallInv(d)'
  <2>1. /\ running'[t] = 0 /\ Witnessed(t, 0, {})
        /\ \A s \in Threads : s # t => running'[s] = running[s]
        /\ UNCHANGED << targets, callVars, gateVars >>
    BY <1>0, <1>19 DEF TurnEnds, TypeInv
  <2>2. \A d \in Calls : TurnWitnessed(d)
    BY <1>0, <2>1, WitnessedByAll
  <2> QED BY <1>17, <2>1, <2>2
<1>20. ASSUME (\E t \in Threads : LoadOrUnload(t)) \/ Tick \/ UNCHANGED vars
       PROVE  \A d \in Calls : CallInv(d)'
  <2>1. UNCHANGED << running, held, targets, callVars, gateVars >>
    BY <1>20 DEF LoadOrUnload, Tick, vars, codexVars
  <2> QED BY <1>3, <1>17, <2>1
<1> QED
  BY <1>6, <1>7, <1>8, <1>9, <1>11, <1>12, <1>13, <1>14, <1>15, <1>16, <1>18,
     <1>19, <1>20 DEF Next

----------------------------------------------------------------------------
(***************************************************************************)
(* Approvals that were granted stay what they are.                         *)
(***************************************************************************)
LEMMA NextGrants ==
  ASSUME RouterInv, [Next]_vars
  PROVE  GrantsStay
<1>1. ASSUME NEW c \in Calls, DryRun(c) PROVE GrantsStay
  BY <1>1 DEF DryRun, GrantsStay, RouterInv, TypeInv
<1>2. ASSUME UNCHANGED granted PROVE GrantsStay
  BY <1>2 DEF GrantsStay
<1>3. \/ \E c \in Calls : DryRun(c)
      \/ UNCHANGED granted
  BY DEF Next, vars, Route, Begin, RequestFails, List, ReadMetadata, ReadTurns, Select,
     Block, Reject, Claim, Perform, NotPerformed, TurnStarts, TurnEnds, LoadOrUnload,
     Tick, gateVars
<1> QED BY <1>1, <1>2, <1>3

LEMMA NextHits ==
  ASSUME RouterInv, [Next]_vars
  PROVE  HitInv'
<1>0. TypeInv /\ HitInv /\ GrantsStay
  BY NextGrants DEF RouterInv
<1>1. ASSUME NEW a \in Ids, NEW i \in DOMAIN hits[a] PROVE granted'[a] = granted[a]
  BY <1>0, <1>1, MintedIsAControl DEF HitInv, GrantsStay
<1>2. CASE UNCHANGED hits
  BY <1>0, <1>1, <1>2 DEF HitInv, Controls, Actions, TurnIds
<1>3. ASSUME NEW c \in Calls, Perform(c) PROVE HitInv'
  <2> DEFINE t == Asked(c).thread
             new == [control |-> Asked(c), at |-> running[t]]
  <2>1. /\ approval[c] \in Ids /\ granted[approval[c]] = Bound(c)
        /\ ref[c] \in DOMAIN targets
    BY <1>3 DEF Perform, RouterInv, CallInv
  <2>2. Bound(c) \in Controls /\ Bound(c) # NoControl /\ Asked(c) = Bound(c)
    BY <1>0, <2>1, BoundFacts
  <2>3. granted'[approval[c]] = Bound(c)
    BY <1>3, <2>1 DEF Perform, gateVars
  <2>4. Asked(c).action # "send" => running[t] = Asked(c).turn
    BY <1>3 DEF Perform
  <2>5. hits' = [hits EXCEPT ![approval[c]] = Append(@, new)]
    BY <1>3 DEF Perform
  <2>6. new.control = Asked(c) /\ new.at = running[t]
    OBVIOUS
  <2> HIDE DEF new
  <2>7. /\ granted'[approval[c]] \in Controls
        /\ new.control.action # "send" =>
             /\ granted'[approval[c]].action = new.control.action
             /\ granted'[approval[c]].turn = new.at
    BY <2>2, <2>3, <2>4, <2>6
  <2>8. Controls' = Controls
    BY DEF Controls, Actions, TurnIds
  <2>9. ASSUME NEW a \in Ids, NEW i \in DOMAIN hits'[a]
        PROVE  \/ a = approval[c] /\ hits'[a][i] = new
               \/ i \in DOMAIN hits[a] /\ hits'[a][i] = hits[a][i]
    <3>1. hits[a] \in Seq(Hits) /\ (hits'[a] = hits[a] \/ (a = approval[c] /\ hits'[a] = Append(hits[a], new)))
      BY <1>0, <2>5 DEF TypeInv
    <3> QED BY <2>9, <3>1
  <2> QED BY <1>0, <1>1, <2>7, <2>8, <2>9 DEF HitInv
<1>4. (\E c \in Calls : Perform(c)) \/ UNCHANGED hits
  BY DEF Next, vars, Route, Begin, RequestFails, List, ReadMetadata, ReadTurns, Select,
     Block, DryRun, Reject, Claim, NotPerformed, TurnStarts, TurnEnds, LoadOrUnload,
     Tick, gateVars
<1> QED BY <1>2, <1>3, <1>4

(***************************************************************************)
(* A claim finds its approval unused, so that nothing was performed under  *)
(* it and no other call is on its way with it.                             *)
(***************************************************************************)
StillSent == \A c \in Calls : pc'[c] = "sent" => pc[c] = "sent" /\ approval'[c] = approval[c]

LEMMA NextSpent ==
  ASSUME RouterInv, [Next]_vars
  PROVE  SpentInv'
<1>0. /\ TypeInv /\ SpentInv
      /\ \A c \in Calls : pc[c] = "sent" => approval[c] \in Ids
  BY DEF RouterInv, CallInv
<1>1. ASSUME StillSent, UNCHANGED << uses, hits >> PROVE SpentInv'
  BY <1>0, <1>1 DEF SpentInv, StillSent
<1>2. ASSUME NEW c \in Calls, Claim(c) PROVE SpentInv'
  <2>1. /\ approval[c] \in Ids /\ uses[approval[c]] = << >>
        /\ uses' = [uses EXCEPT ![approval[c]] = Append(@, Bound(c))]
        /\ pc' = [pc EXCEPT ![c] = "sent"] /\ approval' = approval /\ hits' = hits
    BY <1>2 DEF Claim, Approved, Unused, Go
  <2>2. Append(<< >>, Bound(c)) # << >>
    OBVIOUS
  <2>3. \A a \in Ids : uses'[a] = uses[a] \/ (a = approval[c] /\ uses'[a] # << >>)
    BY <1>0, <2>1, <2>2 DEF TypeInv
  <2>4. uses'[approval[c]] # << >>
    BY <1>0, <2>1, <2>2 DEF TypeInv
  <2>5. \A d \in Calls : d # c => pc'[d] = pc[d]
    BY <1>0, <2>1 DEF TypeInv
  <2> QED BY <1>0, <2>1, <2>3, <2>4, <2>5 DEF SpentInv
<1>3. ASSUME NEW c \in Calls, Perform(c) PROVE SpentInv'
  <2>1. /\ pc[c] = "sent" /\ approval[c] \in Ids /\ uses' = uses /\ Leave(c)
        /\ \A a \in Ids : a # approval[c] => hits'[a] = hits[a]
    BY <1>0, <1>3 DEF Perform, gateVars, TypeInv
  <2>2. /\ pc'[c] = "idle"
        /\ \A d \in Calls : d # c => pc'[d] = pc[d] /\ approval'[d] = approval[d]
    BY <1>0, <2>1 DEF Leave, TypeInv
  <2> QED BY <1>0, <2>1, <2>2 DEF SpentInv
<1>4. ASSUME NEW d \in Calls, Leave(d) PROVE StillSent
  BY <1>0, <1>4 DEF Leave, TypeInv, StillSent
<1>5. ASSUME NEW d \in Calls, NEW place \in Places \ {"sent"}, Go(d, place), UNCHANGED approval
      PROVE  StillSent
  BY <1>0, <1>5 DEF Go, TypeInv, StillSent
<1>6. ASSUME NEW d \in Calls, NEW t, NEW ps, Skip(d, t, ps), UNCHANGED approval PROVE StillSent
  BY <1>5, <1>6 DEF Skip, Places
<1>7. ASSUME NEW d \in Calls,
             Route(d) \/ RequestFails(d) \/ List(d) \/ ReadMetadata(d) \/ ReadTurns(d)
               \/ (\E hint \in Threads \cup {Nobody} : Select(d, hint)) \/ Block(d)
               \/ DryRun(d) \/ Reject(d) \/ NotPerformed(d)
      PROVE  StillSent /\ UNCHANGED << uses, hits >>
  BY <1>4, <1>5, <1>6, <1>7
  DEF Route, RequestFails, List, ReadMetadata, ReadTurns, Select, Block, DryRun, Reject,
      NotPerformed, Return, gateVars, Places
<1>8. ASSUME NEW d \in Calls, NEW r \in DOMAIN targets, NEW a, NEW g, Begin(d, g, r, a # 0, a)
      PROVE  StillSent /\ UNCHANGED << uses, hits >>
  BY <1>0, <1>8 DEF Begin, Go, TypeInv, StillSent, gateVars
<1>9. ASSUME (\E t \in Threads : TurnStarts(t) \/ TurnEnds(t) \/ LoadOrUnload(t))
               \/ Tick \/ UNCHANGED vars
      PROVE  StillSent /\ UNCHANGED << uses, hits >>
  BY <1>9 DEF TurnStarts, TurnEnds, LoadOrUnload, Tick, vars, callVars, gateVars, StillSent
<1> QED BY <1>1, <1>2, <1>3, <1>7, <1>8, <1>9 DEF Next

LEMMA InitRouter == Init => RouterInv
<1> SUFFICES ASSUME Init PROVE RouterInv
  OBVIOUS
<1>1. TypeInv
  BY BoundsAssumption, EmptySeq DEF Init, TypeInv, Places, Goals, TurnIds
<1>2. \A c \in Calls : CallInv(c)
  BY DEF Init, CallInv
<1>3. HitInv
  BY DEF Init, HitInv
<1>4. SpentInv
  BY DEF Init, SpentInv
<1> QED BY <1>1, <1>2, <1>3, <1>4 DEF RouterInv

(***************************************************************************)
(* The invariant: what a call has read of its target it has witnessed, and *)
(* what it has sent is what its approval was granted for.                  *)
(***************************************************************************)
THEOREM RouterInvariant == Spec => []RouterInv
<1>1. Init => RouterInv
  BY InitRouter
<1>2. RouterInv /\ [Next]_vars => RouterInv'
  BY NextTypes, NextCalls, NextHits, NextSpent DEF RouterInv
<1> QED BY <1>1, <1>2, PTL DEF Spec

----------------------------------------------------------------------------
(***************************************************************************)
(* A call whose reading agrees with its reference has witnessed the turn   *)
(* the reference names.                                                    *)
(***************************************************************************)
LEMMA ValidWasWitnessed ==
  ASSUME RouterInv, NEW c \in Calls, goal[c] # "route", pc[c] = "decide", Valid(c)
  PROVE  (IF TargetOf(c).state = "idle" THEN 0 ELSE TargetOf(c).turn) \in held[c]
<1>1. ref[c] # 0 /\ ref[c] \in DOMAIN targets
  BY DEF RouterInv, CallInv
<1>2. TargetOf(c).state \in {"idle", "active"}
  BY <1>1, BoundFacts DEF RouterInv, Targets
<1>3. PICK current \in found[c] :
        /\ SeenIn(current, TargetOf(c).thread, held[c])
        /\ StillValid(TargetOf(c), current)
  BY <1>1 DEF Valid, RouterInv, CallInv
<1> QED BY <1>2, <1>3 DEF SeenIn, StillValid

LEMMA StepSpendsOnLive ==
  ASSUME RouterInv, [Next]_vars, NEW c \in Calls, pc[c] = "decide", pc'[c] = "sent"
  PROVE  (IF TargetOf(c).state = "idle" THEN 0 ELSE TargetOf(c).turn) \in held[c]
<1>0. TypeInv
  BY DEF RouterInv
<1>1. ASSUME NEW d \in Calls, Claim(d) PROVE d = c
  BY <1>0, <1>1 DEF Claim, Go, TypeInv
<1>2. ASSUME NEW d \in Calls, Leave(d) PROVE FALSE
  BY <1>0, <1>2 DEF Leave, TypeInv
<1>3. ASSUME NEW d \in Calls, NEW place \in Places \ {"sent"}, Go(d, place) PROVE FALSE
  BY <1>0, <1>3 DEF Go, TypeInv
<1>4. ASSUME NEW d \in Calls, NEW t, NEW ps, Skip(d, t, ps) PROVE FALSE
  BY <1>3, <1>4 DEF Skip, Places
<1>5. \E d \in Calls : Claim(d)
  BY <1>2, <1>3, <1>4
  DEF Next, vars, Route, Begin, RequestFails, List, ReadMetadata, ReadTurns, Select,
      Block, DryRun, Reject, Perform, NotPerformed, Return, TurnStarts, TurnEnds,
      LoadOrUnload, Tick, callVars, Places
<1>6. goal[c] # "route" /\ Valid(c)
  BY <1>1, <1>5 DEF Claim, Deliverable
<1> QED BY <1>6, ValidWasWitnessed

(***************************************************************************)
(* An approval is spent only on a target that was, during the call, in the *)
(* turn its reference names; and a steer or an interrupt hits the very     *)
(* turn its approval was granted for (validateTarget, deliver, interrupt). *)
(***************************************************************************)
THEOREM RouterHitsWhatWasApproved == Spec => HitsWhatWasApproved
<1>1. RouterInv /\ [Next]_vars =>
        [\A c \in Calls : pc[c] = "decide" /\ pc'[c] = "sent" =>
           (IF TargetOf(c).state = "idle" THEN 0 ELSE TargetOf(c).turn) \in held[c]]_vars
  BY StepSpendsOnLive
<1>2. RouterInv => ApprovedTurnIsTheOneHit
  BY DEF RouterInv, HitInv, ApprovedTurnIsTheOneHit
<1> QED
  BY <1>1, <1>2, RouterInvariant, PTL
  DEF Spec, HitsWhatWasApproved, SpentOnALiveTarget

----------------------------------------------------------------------------
(***************************************************************************)
(* A step of the router is a step of the ledger, or none: an approval is   *)
(* used when Codex performs its control.                                   *)
(***************************************************************************)
Performed == [a \in Ids |-> PerformedUnder(a)]

LEMMA NothingPerformed ==
  ASSUME NEW a \in Ids, hits[a] = << >>
  PROVE  PerformedUnder(a) = << >>
BY DEF PerformedUnder

LEMMA OneControl ==
  ASSUME NEW r
  PROVE  [i \in DOMAIN << r >> |-> << r >>[i].control] = << r.control >>
OBVIOUS

LEMMA StepKeepsLedger ==
  ASSUME RouterInv, [Next]_vars
  PROVE  [Ledger!Next]_(Ledger!ledgerVars)
<1>0. TypeInv /\ SpentInv
  BY DEF RouterInv
<1>1. ASSUME NEW c \in Calls, DryRun(c) PROVE Ledger!Next
  <2>1. PICK a \in Ids : granted[a] = NoControl /\ granted' = [granted EXCEPT ![a] = Bound(c)]
    BY <1>1 DEF DryRun
  <2>2. ref[c] \in DOMAIN targets
    BY <1>1 DEF DryRun, RouterInv, CallInv
  <2>3. Bound(c) \in Controls
    BY <1>0, <2>2, BoundFacts
  <2>4. Performed' = Performed
    BY <1>1 DEF DryRun, Performed, PerformedUnder
  <2>5. Ledger!Grant(a, Bound(c))
    BY <2>1, <2>4 DEF Ledger!Grant, Performed
  <2> QED BY <2>1, <2>3, <2>5 DEF Ledger!Next
<1>2. ASSUME NEW c \in Calls, Perform(c) PROVE Ledger!Next
  <2>0. PICK a \in Ids : a = approval[c]
    BY <1>0, <1>2 DEF Perform, RouterInv, CallInv, SpentInv, gateVars
  <2> DEFINE new == [control |-> Asked(c), at |-> running[Asked(c).thread]]
  <2>1. /\ granted[a] = Bound(c) /\ ref[c] \in DOMAIN targets
        /\ hits[a] = << >> /\ granted' = granted
        /\ hits' = [hits EXCEPT ![a] = Append(@, new)]
    BY <1>0, <1>2, <2>0 DEF Perform, RouterInv, CallInv, SpentInv, gateVars
  <2>2. Bound(c) # NoControl /\ Asked(c) = Bound(c)
    BY <1>0, <2>1, BoundFacts
  <2>3. hits'[a] = << new >> /\ new.control = granted[a]
    BY <1>0, <2>1, <2>2 DEF TypeInv
  <2>4. PerformedUnder(a)' = << granted[a] >>
    <3>1. PerformedUnder(a)' = [i \in DOMAIN hits'[a] |-> hits'[a][i].control]
      BY DEF PerformedUnder
    <3> HIDE DEF new
    <3>2. [i \in DOMAIN << new >> |-> << new >>[i].control] = << new.control >>
      BY OneControl
    <3> QED BY <2>3, <3>1, <3>2
  <2>5. \A b \in Ids : b # a => PerformedUnder(b)' = PerformedUnder(b)
    BY <1>0, <2>1 DEF PerformedUnder, TypeInv
  <2>6. Performed' = [Performed EXCEPT ![a] = << granted[a] >>]
    <3> HIDE DEF new
    <3>1. \A b \in Ids :
             PerformedUnder(b)' = IF b = a THEN << granted[a] >> ELSE PerformedUnder(b)
      BY <2>4, <2>5
    <3> QED BY <3>1 DEF Performed
  <2>7. Performed[a] = << >>
    BY <2>1, NothingPerformed DEF Performed
  <2>8. Ledger!Use(a)
    BY <2>1, <2>2, <2>6, <2>7 DEF Ledger!Use, Performed
  <2> QED BY <2>8 DEF Ledger!Next
<1>3. \/ \E c \in Calls : DryRun(c) \/ Perform(c)
      \/ UNCHANGED << granted, hits >>
  BY DEF Next, vars, Route, Begin, RequestFails, List, ReadMetadata, ReadTurns, Select,
     Block, Reject, Claim, NotPerformed, TurnStarts, TurnEnds, LoadOrUnload,
     Tick, gateVars
<1>4. ASSUME UNCHANGED << granted, hits >> PROVE UNCHANGED Ledger!ledgerVars
  <2>1. Performed' = Performed
    BY <1>4 DEF Performed, PerformedUnder
  <2> QED BY <1>4, <2>1 DEF Ledger!ledgerVars, Performed
<1> QED BY <1>1, <1>2, <1>3, <1>4

(***************************************************************************)
(* Through the router, too, Codex performs at most one control under an    *)
(* approval, the one it was granted for, however many calls race with it.  *)
(***************************************************************************)
THEOREM RouterKeepsTheLedger == Spec => KeepsTheLedger
<1>1. Init => Ledger!Init
  <2> SUFFICES ASSUME Init PROVE Ledger!Init
    OBVIOUS
  <2>1. \A a \in Ids : PerformedUnder(a) = << >>
    BY NothingPerformed DEF Init
  <2> QED BY <2>1 DEF Init, Ledger!Init
<1>2. RouterInv /\ [Next]_vars => [Ledger!Next]_(Ledger!ledgerVars)
  BY StepKeepsLedger
<1> QED
  BY <1>1, <1>2, RouterInvariant, PTL DEF Spec, KeepsTheLedger, Ledger!Spec
=============================================================================
