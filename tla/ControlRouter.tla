--------------------------- MODULE ControlRouter ---------------------------
(***************************************************************************)
(* createCodexControlRouter (packages/mcp-server/src/                      *)
(* codex-control-router.ts).  A route call projects every thread the Codex *)
(* daemon has loaded, one request after the other, and hands out an opaque *)
(* reference to the one it selects, with the state and the turn it saw.  A *)
(* delivery or an interrupt under that reference reads the thread again,   *)
(* and goes to the approval gate only when the reading agrees.             *)
(*                                                                         *)
(* Every request is awaited: threads start and end turns, load and unload  *)
(* between any two readings, and the tool calls of one MCP process run     *)
(* interleaved.  The gate is the ledger that TargetControl implements.     *)
(***************************************************************************)
EXTENDS Integers, Sequences, FiniteSets

CONSTANTS Threads,
          Calls,         \* tool calls in flight at once
          Nobody,        \* no thread: no hint, nothing selected
          NoControl,     \* what an approval not minted yet is for
          TTL,           \* lifetime of a reference
          MaxTime, MaxTurns, MaxLoads,       \* bounds on the environment
          MaxRefs, MaxApprovals              \* bounds on the router

ASSUME NobodyAssumption == Nobody \notin Threads
ASSUME NoControlAssumption ==
  \A a \in {"send", "steer", "interrupt"}, t \in Threads, n \in 0 .. MaxTurns :
    NoControl # [action |-> a, thread |-> t, turn |-> n]
ASSUME BoundsAssumption ==
  {TTL, MaxTime, MaxTurns, MaxLoads, MaxRefs, MaxApprovals} \subseteq Nat

VARIABLES
  loaded,     \* Codex: the threads the daemon has loaded
  running,    \* Codex: the turn in progress of each thread, 0 when idle
  turns,      \* Codex: turns started so far
  loads,      \* Codex: threads loaded or unloaded so far
  now,
  targets,    \* the references: targets[ref]
  pc,         \* where a call is
  goal,       \* what it does
  ref,        \* its targetRef
  live,       \* dryRun === false
  approval,   \* its approvalAuditId, 0 for none
  todo,       \* threads it has still to read
  reading,    \* the thread whose turns it reads now
  found,      \* the projections it has made
  granted,    \* the gate: the control of each approval
  uses,       \* the gate: its uses
  held,       \* history: the turns the target went through during the call
  hits        \* history: what Codex performed under each approval, and in which turn

codexVars == << loaded, running, turns, loads >>
callVars  == << pc, goal, ref, live, approval, todo, reading, found >>
gateVars  == << granted, uses >>
vars      == << codexVars, now, targets, callVars, gateVars, held, hits >>

TurnIds     == 0 .. MaxTurns
Ids         == 1 .. MaxApprovals
Actions     == {"send", "steer", "interrupt"}
Controls    == [action : Actions, thread : Threads, turn : TurnIds]

Init ==
  /\ loaded \in SUBSET Threads
  /\ running = [t \in Threads |-> 0]
  /\ turns = 0 /\ loads = 0 /\ now = 0
  /\ targets = << >>
  /\ pc = [c \in Calls |-> "idle"]
  /\ goal = [c \in Calls |-> "route"]
  /\ ref = [c \in Calls |-> 0]
  /\ live = [c \in Calls |-> FALSE]
  /\ approval = [c \in Calls |-> 0]
  /\ todo = [c \in Calls |-> {}]
  /\ reading = [c \in Calls |-> Nobody]
  /\ found = [c \in Calls |-> {}]
  /\ granted = [a \in Ids |-> NoControl]
  /\ uses = [a \in Ids |-> << >>]
  /\ held = [c \in Calls |-> {}]
  /\ hits = [a \in Ids |-> << >>]

----------------------------------------------------------------------------
TargetOf(c) == targets[ref[c]]

\* The call is over: whatever it returned, it keeps nothing.
Leave(c) ==
  /\ pc' = [pc EXCEPT ![c] = "idle"]
  /\ goal' = [goal EXCEPT ![c] = "route"]
  /\ ref' = [ref EXCEPT ![c] = 0]
  /\ live' = [live EXCEPT ![c] = FALSE]
  /\ approval' = [approval EXCEPT ![c] = 0]
  /\ todo' = [todo EXCEPT ![c] = {}]
  /\ reading' = [reading EXCEPT ![c] = Nobody]
  /\ found' = [found EXCEPT ![c] = {}]

Return(c) == Leave(c) /\ held' = [held EXCEPT ![c] = {}]

Go(c, place) == pc' = [pc EXCEPT ![c] = place]

Route(c) ==
  /\ pc[c] = "idle"
  /\ Go(c, "list")
  /\ goal' = [goal EXCEPT ![c] = "route"]
  /\ UNCHANGED << codexVars, now, targets, ref, live, approval, todo, reading,
                  found, gateVars, held, hits >>

\* Line 189: the reference must not have expired when the call starts.
Expired(target) == target.expires <= now

Begin(c, what, r, isLive, a) ==
  /\ pc[c] = "idle"
  /\ r \in DOMAIN targets
  /\ ~Expired(targets[r])
  /\ Go(c, "list")
  /\ goal' = [goal EXCEPT ![c] = what]
  /\ ref' = [ref EXCEPT ![c] = r]
  /\ live' = [live EXCEPT ![c] = isLive]
  /\ approval' = [approval EXCEPT ![c] = a]
  /\ held' = [held EXCEPT ![c] = {running[targets[r].thread]}]
  /\ UNCHANGED << codexVars, now, targets, todo, reading, found, gateVars, hits >>

\* A client.request that fails or times out ends the call.
RequestFails(c) ==
  /\ pc[c] \in {"list", "read", "turns"}
  /\ Return(c)
  /\ UNCHANGED << codexVars, now, targets, gateVars, hits >>

\* loadedThreadIds
List(c) ==
  /\ pc[c] = "list"
  /\ LET wanted == IF goal[c] = "route" THEN loaded
                   ELSE loaded \cap {TargetOf(c).thread}
     IN \/ /\ wanted # {}
           /\ Go(c, "read")
           /\ todo' = [todo EXCEPT ![c] = wanted]
           /\ UNCHANGED << goal, ref, live, approval, reading, found, held >>
        \/ wanted = {} /\ Return(c)
  /\ UNCHANGED << codexVars, now, targets, gateVars, hits >>

\* readTargetProjection is two requests for an active thread.
Projection(t, state, turn) == [thread |-> t, state |-> state, turn |-> turn]

Skip(c, t, projections) ==
  /\ todo' = [todo EXCEPT ![c] = @ \ {t}]
  /\ found' = [found EXCEPT ![c] = @ \cup projections]
  /\ reading' = [reading EXCEPT ![c] = Nobody]
  /\ Go(c, IF todo[c] = {t} THEN "decide" ELSE "read")

ReadMetadata(c) ==
  /\ pc[c] = "read"
  /\ \E t \in todo[c] :
       \/ t \notin loaded /\ Skip(c, t, {})
       \/ t \in loaded /\ running[t] = 0 /\ Skip(c, t, {Projection(t, "idle", 0)})
       \/ /\ t \in loaded /\ running[t] # 0
          /\ Go(c, "turns")
          /\ reading' = [reading EXCEPT ![c] = t]
          /\ UNCHANGED << todo, found >>
  /\ UNCHANGED << codexVars, now, targets, goal, ref, live, approval, gateVars,
                  held, hits >>

ReadTurns(c) ==
  /\ pc[c] = "turns"
  /\ LET t == reading[c] IN
     Skip(c, t, IF t \in loaded THEN {Projection(t, "active", running[t])} ELSE {})
  /\ UNCHANGED << codexVars, now, targets, goal, ref, live, approval, gateVars,
                  held, hits >>

----------------------------------------------------------------------------
\* A hint names one projection; else the only active one, else the only idle
\* one when nothing is active.
InState(c, s) == {p \in found[c] : p.state = s}

Selected(c, hint) ==
  LET hinted == {p \in found[c] : p.thread = hint} IN
  IF hint # Nobody THEN hinted
  ELSE IF InState(c, "active") # {} THEN InState(c, "active")
  ELSE InState(c, "idle")

Select(c, hint) ==
  /\ pc[c] = "decide" /\ goal[c] = "route"
  /\ \/ /\ Cardinality(Selected(c, hint)) = 1
        /\ Len(targets) < MaxRefs
        /\ \E p \in Selected(c, hint) :
             targets' = Append(targets, [thread |-> p.thread, state |-> p.state,
                                         turn |-> p.turn, expires |-> now + TTL])
     \/ Cardinality(Selected(c, hint)) # 1 /\ UNCHANGED targets
  /\ Return(c)
  /\ UNCHANGED << codexVars, now, gateVars, hits >>

\* validateTarget, lines 198-201
\*
\* A slip: the turn not compared.
SameStateOnly(target, current) == current.state = target.state

StillValid(target, current) ==
  /\ current.state = target.state
  /\ target.state = "active" => current.turn = target.turn

Valid(c) == \E current \in found[c] : StillValid(TargetOf(c), current)

\* deliver and interrupt
ActionOf(c) == IF goal[c] = "interrupt" THEN "interrupt"
               ELSE IF TargetOf(c).state = "active" THEN "steer" ELSE "send"

Deliverable(c) ==
  /\ Valid(c)
  /\ ActionOf(c) \in {"steer", "interrupt"} =>
       TargetOf(c).state = "active" /\ TargetOf(c).turn # 0

\* The parameters' hash covers the expected turn.
\*
\* A slip: the turn left out of the hash.
WithoutTurn(c) == [action |-> ActionOf(c), thread |-> TargetOf(c).thread, turn |-> 0]

Bound(c) == [action |-> ActionOf(c), thread |-> TargetOf(c).thread,
             turn |-> IF ActionOf(c) = "send" THEN 0 ELSE TargetOf(c).turn]

Block(c) ==
  /\ pc[c] = "decide" /\ goal[c] # "route"
  /\ ~Deliverable(c)
  /\ Return(c)
  /\ UNCHANGED << codexVars, now, targets, gateVars, hits >>

DryRun(c) ==
  /\ pc[c] = "decide" /\ goal[c] # "route"
  /\ Deliverable(c) /\ ~live[c]
  /\ \E a \in Ids :
       /\ granted[a] = NoControl /\ \A b \in 1 .. a - 1 : granted[b] # NoControl
       /\ granted' = [granted EXCEPT ![a] = Bound(c)]
  /\ Return(c)
  /\ UNCHANGED << codexVars, now, targets, uses, hits >>

\* A slip: use not looked up.
Reusable(a) == TRUE

Unused(a) == uses[a] = << >>

Approved(c) ==
  approval[c] \in Ids /\ granted[approval[c]] = Bound(c) /\ Unused(approval[c])

Reject(c) ==
  /\ pc[c] = "decide" /\ goal[c] # "route"
  /\ Deliverable(c) /\ live[c] /\ ~Approved(c)
  /\ Return(c)
  /\ UNCHANGED << codexVars, now, targets, gateVars, hits >>

Claim(c) ==
  /\ pc[c] = "decide" /\ goal[c] # "route"
  /\ Deliverable(c) /\ live[c] /\ Approved(c)
  /\ uses' = [uses EXCEPT ![approval[c]] = Append(@, Bound(c))]
  /\ Go(c, "sent")
  /\ UNCHANGED << codexVars, now, targets, goal, ref, live, approval, todo,
                  reading, found, granted, held, hits >>

----------------------------------------------------------------------------
\* Codex.  A step that changes the turn of a thread is witnessed by the calls
\* whose target it is.
Witnesses(t) == {c \in Calls : ref[c] # 0 /\ TargetOf(c).thread = t}

Witnessed(t, turn, gone) ==
  held' = [c \in Calls |-> IF c \in gone THEN {}
                           ELSE IF c \in Witnesses(t) THEN held[c] \cup {turn}
                           ELSE held[c]]

\* Codex performs a control, and the client reports it performed, or lost.
Asked(c) == [action |-> ActionOf(c), thread |-> TargetOf(c).thread,
             turn |-> IF ActionOf(c) = "send" THEN 0 ELSE TargetOf(c).turn]

Perform(c) ==
  /\ pc[c] = "sent"
  /\ LET control == Asked(c)
         t       == control.thread
     IN /\ hits' = [hits EXCEPT ![approval[c]] =
                       Append(@, [control |-> control, at |-> running[t]])]
        /\ \/ /\ control.action = "send" /\ turns < MaxTurns
              /\ turns' = turns + 1
              /\ running' = [running EXCEPT ![t] = turns + 1]
           \/ /\ control.action = "steer" /\ running[t] = control.turn
              /\ UNCHANGED << running, turns >>
           \/ /\ control.action = "interrupt" /\ running[t] = control.turn
              /\ running' = [running EXCEPT ![t] = 0]
              /\ UNCHANGED turns
        /\ Witnessed(t, running'[t], {c})
  /\ Leave(c)
  /\ UNCHANGED << loaded, loads, now, targets, gateVars >>

\* Refused, gated, or lost on the way.
NotPerformed(c) ==
  /\ pc[c] = "sent"
  /\ Return(c)
  /\ UNCHANGED << codexVars, now, targets, gateVars, hits >>

TurnStarts(t) ==
  /\ t \in loaded /\ running[t] = 0 /\ turns < MaxTurns
  /\ turns' = turns + 1
  /\ running' = [running EXCEPT ![t] = turns + 1]
  /\ Witnessed(t, turns + 1, {})
  /\ UNCHANGED << loaded, loads, now, targets, callVars, gateVars, hits >>

TurnEnds(t) ==
  /\ running[t] # 0
  /\ running' = [running EXCEPT ![t] = 0]
  /\ Witnessed(t, 0, {})
  /\ UNCHANGED << loaded, turns, loads, now, targets, callVars, gateVars, hits >>

LoadOrUnload(t) ==
  /\ loads < MaxLoads /\ running[t] = 0
  /\ loads' = loads + 1
  /\ loaded' = IF t \in loaded THEN loaded \ {t} ELSE loaded \cup {t}
  /\ UNCHANGED << running, turns, now, targets, callVars, gateVars, held, hits >>

Tick ==
  /\ now < MaxTime
  /\ now' = now + 1
  /\ UNCHANGED << codexVars, targets, callVars, gateVars, held, hits >>

Next ==
  \/ \E c \in Calls :
       \/ Route(c)
       \/ \E r \in DOMAIN targets, a \in 0 .. MaxApprovals, g \in {"deliver", "interrupt"} :
            Begin(c, g, r, a # 0, a)
       \/ RequestFails(c) \/ List(c) \/ ReadMetadata(c) \/ ReadTurns(c)
       \/ \E hint \in Threads \cup {Nobody} : Select(c, hint)
       \/ Block(c) \/ DryRun(c) \/ Reject(c) \/ Claim(c)
       \/ Perform(c) \/ NotPerformed(c)
  \/ \E t \in Threads : TurnStarts(t) \/ TurnEnds(t) \/ LoadOrUnload(t)
  \/ Tick

Spec == Init /\ [][Next]_vars

----------------------------------------------------------------------------
(***************************************************************************)
(* An approval is spent on a target only if, at some moment of the call,   *)
(* the target really was in the turn (or idle, for a send) its reference   *)
(* names.  Two readings that straddle a change of turn do not add up to a  *)
(* target.                                                                 *)
(***************************************************************************)
SpentOnALiveTarget ==
  [][\A c \in Calls : pc[c] = "decide" /\ pc'[c] = "sent" =>
       (IF TargetOf(c).state = "idle" THEN 0 ELSE TargetOf(c).turn) \in held[c]]_vars

(***************************************************************************)
(* A turn is steered or interrupted only under an approval granted for     *)
(* that turn, and only while it runs, however many turns went by since.    *)
(***************************************************************************)
ApprovedTurnIsTheOneHit ==
  \A a \in Ids : \A i \in DOMAIN hits[a] : hits[a][i].control.action # "send" =>
    /\ granted[a].action = hits[a][i].control.action
    /\ granted[a].turn = hits[a][i].at

(***************************************************************************)
(* Both: the target of a control is the approved one when it is chosen and *)
(* when it is hit.                                                         *)
(***************************************************************************)
HitsWhatWasApproved == SpentOnALiveTarget /\ []ApprovedTurnIsTheOneHit

PerformedUnder(a) == [i \in DOMAIN hits[a] |-> hits[a][i].control]

Ledger == INSTANCE ApprovalLedger
  WITH Bindings <- Controls, NoBinding <- NoControl,
       uses <- [a \in Ids |-> PerformedUnder(a)]

(***************************************************************************)
(* The ledger is about what Codex performs, not about what the gate notes: *)
(* however many calls present an approval at once, and whatever turns      *)
(* start and end between the grant, the claim and the request, Codex       *)
(* performs at most one control under it, the one it was granted for.      *)
(***************************************************************************)
KeepsTheLedger == Ledger!Spec
=============================================================================
