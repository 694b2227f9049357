--------------------------- MODULE HarnessProofs ----------------------------
(***************************************************************************)
(* What LCO's own harnesses claim: the receipt of the idle route, the      *)
(* proofs of live controls, the reports of tool smokes, and what a release *)
(* is said to rest on, for any number of processes, operators,             *)
(* directories, controls and candidates.  Each component keeps its         *)
(* invariant whatever the others are; they are declared in the components' *)
(* own modules, and v1, v2, ... below are the variables that               *)
(* DerivedHarness gives to them.                                           *)
(***************************************************************************)
EXTENDS DerivedHarness, SequenceTheorems, FiniteSetTheorems, TLAPS

\* A step is one of the component that the behaviour chose.
LEMMA StepsOfOne ==
  ASSUME [HarnessNext]_vars
  PROVE  /\ component' = component
         /\ component = "route" => Route!Next \/ UNCHANGED Route!vars
         /\ component = "proofs" => Proofs!Next \/ UNCHANGED Proofs!vars
         /\ component = "chain" => Chain!Next \/ UNCHANGED Chain!vars
         /\ component = "tools" => Tools!Next \/ UNCHANGED Tools!vars
         /\ component = "evidence" => Evidence!Next \/ UNCHANGED Evidence!vars
         /\ component = "publish" => Dual!Next \/ UNCHANGED Dual!vars
         /\ component = "mcp" => Mcp!Next \/ UNCHANGED Mcp!vars
         /\ component = "probe" => Probe!Next \/ UNCHANGED Probe!vars
<1>1. CASE UNCHANGED vars
  BY <1>1 DEF vars, Route!vars, Proofs!vars, Proofs!fileVars, Proofs!indexVars, Chain!vars,
              Tools!vars, Tools!worldVars, Tools!fileVars, Evidence!vars, Evidence!dirVars,
              Dual!vars, Dual!npm, Mcp!vars, Probe!vars
<1>2. CASE HarnessNext
  BY <1>2 DEF HarnessNext, RouteNext, ProofsNext, ChainNext, ToolsNext, EvidenceNext,
              DualNext, McpNext, ProbeNext
<1> QED BY <1>1, <1>2

LEMMA StartsOfOne ==
  ASSUME HarnessInit
  PROVE  /\ component = "route" => Route!Init
         /\ component = "proofs" => Proofs!Init
         /\ component = "chain" => Chain!Init
         /\ component = "tools" => Tools!Init
         /\ component = "evidence" => Evidence!Init
         /\ component = "publish" => Dual!Init
         /\ component = "mcp" => Mcp!Init
         /\ component = "probe" => Probe!Init
BY DEF HarnessInit, Only

-----------------------------------------------------------------------------
(* IdleRoute: the package is v1, the receipt v2, the runs v3.              *)

\* A run goes to a state that is in order, guarded and clear, and the others stay.
LEMMA RunMoves ==
  ASSUME Route!RouteInv, NEW r \in Runs, NEW q \in Route!States, v1' = v1,
         v3' = [v3 EXCEPT ![r] = q],
         Route!InOrder(q), Route!Guarded(q), Route!Clear(q)
  PROVE  Route!RouteInv'
<1>1. v3' \in [Runs -> Route!States] /\ v3'[r] = q /\ \A x \in Runs \ {r} : v3'[x] = v3[x]
  BY DEF Route!RouteInv, Route!TypeInv
<1>2. ASSUME NEW x \in Runs
      PROVE  (Route!InOrder(v3[x]) /\ Route!Guarded(v3[x]) /\ Route!Clear(v3[x]))'
  <2>1. CASE x = r
    BY <1>1, <2>1 DEF Route!InOrder, Route!Guarded, Route!Clear
  <2>2. CASE x # r
    BY <1>1, <2>2 DEF Route!RouteInv, Route!InOrder, Route!Guarded, Route!Clear
  <2> QED BY <2>1, <2>2
<1> QED BY <1>1, <1>2 DEF Route!RouteInv, Route!TypeInv

\* A child runs the release when its run may execute.
LEMMA ChildIsStarted ==
  ASSUME NEW p \in Route!States, Route!InOrder(p), Route!Guarded(p), p.at = "initialize",
         NEW subject \in {"release", "other"}, p.execute => subject = "release",
         NEW s, s = [p EXCEPT !.subject = subject, !.child = "alive"]
  PROVE  /\ s \in Route!States /\ Route!InOrder(s) /\ s.at = "initialize"
         /\ s.child = "alive" /\ (s.execute => s.dirs = "kept")
<1>1. /\ s \in Route!States /\ s.at = "initialize"
      /\ s.subject = subject /\ s.child = "alive"
      /\ s.execute = p.execute /\ s.dirs = p.dirs
      /\ s.completionSeen = p.completionSeen /\ s.ended = p.ended
      /\ s.sent = p.sent /\ s.asked = p.asked
      /\ s.mutated = p.mutated /\ s.unconfirmed = p.unconfirmed
      /\ s.blocked = p.blocked
  BY DEF Route!States
<1>2. p.execute => p.dirs = "kept"
  BY DEF Route!Guarded
<1> QED BY <1>1, <1>2 DEF Route!InOrder

\* Ending a child leaves it ended, or known to be in doubt.
LEMMA ChildIsEnded ==
  ASSUME NEW s \in Route!States, Route!InOrder(s), s.child \in {"alive", "closed"},
         NEW c \in Route!Closes(s)
  PROVE  /\ c \in Route!States /\ Route!InOrder(c)
         /\ c.at = s.at /\ c.execute = s.execute /\ c.dirs = s.dirs
         /\ c.child \in {"alive", "closed"} /\ (c.child = "alive" => c.unconfirmed)
<1> DEFINE closed == [s EXCEPT !.child = "closed"]
           doubt == [s EXCEPT !.unconfirmed = TRUE, !.blocked = TRUE]
           both == [closed EXCEPT !.unconfirmed = TRUE, !.blocked = TRUE]
<1>1. (c = s /\ s.child = "closed") \/ c = closed \/ c = doubt \/ c = both
  BY DEF Route!Closes, Route!Closed, Route!Unconfirmed
<1>2. /\ closed \in Route!States /\ Route!InOrder(closed)
      /\ closed.at = s.at /\ closed.execute = s.execute /\ closed.dirs = s.dirs
      /\ closed.child = "closed"
  BY DEF Route!States, Route!InOrder
<1>3. /\ doubt \in Route!States /\ doubt.at = s.at /\ doubt.execute = s.execute
      /\ doubt.dirs = s.dirs /\ doubt.child = s.child /\ doubt.unconfirmed
  BY DEF Route!States
<1>4. Route!InOrder(doubt)
  BY DEF Route!States, Route!InOrder
<1> HIDE DEF closed
<1>5. /\ both \in Route!States /\ both.at = s.at /\ both.execute = s.execute
      /\ both.dirs = s.dirs /\ both.child = "closed" /\ both.unconfirmed
  BY <1>2 DEF Route!States
<1>6. Route!InOrder(both)
  BY <1>2 DEF Route!States, Route!InOrder
<1> HIDE DEF doubt, both
<1> QED BY <1>1, <1>2, <1>3, <1>4, <1>5, <1>6

\* Every step of a harness, its child or the world keeps the invariant.
LEMMA RouteKept ==
  ASSUME Route!RouteInv, Route!Next \/ UNCHANGED Route!vars
  PROVE  Route!RouteInv'
<1>1. CASE UNCHANGED Route!vars
  BY <1>1 DEF Route!vars, Route!RouteInv, Route!TypeInv, Route!InOrder, Route!Guarded,
             Route!Clear
<1>2. CASE Route!Replaced
  BY <1>2 DEF Route!Replaced, Route!RouteInv, Route!TypeInv, Route!InOrder, Route!Guarded,
             Route!Clear
<1>3. ASSUME NEW r \in Runs, \/ \E execute \in BOOLEAN : Route!Begin(r, execute)
                             \/ Route!Initialize(r) \/ Route!ListTools(r)
                             \/ Route!SetUp(r) \/ Route!Route(r) \/ Route!DryRun(r)
                             \/ Route!AskLive(r) \/ Route!AnswerLive(r) \/ Route!Probe(r)
                             \/ Route!Close(r) \/ Route!Clean(r) \/ Route!Write(r)
                             \/ Route!Die(r) \/ Route!ChildSends(r) \/ Route!ChildEnds(r)
                             \/ Route!TurnEnds(r) \/ Route!TimeIsUp(r)
      PROVE  Route!RouteInv'
  <2> DEFINE p == v3[r]
  <2>1. /\ v1 \in {"release", "other"} /\ p \in Route!States
        /\ Route!InOrder(p) /\ Route!Guarded(p) /\ Route!Clear(p)
    BY DEF Route!RouteInv, Route!TypeInv
  <2>2. ASSUME NEW q \in Route!States, v1' = v1, Route!Step(r, q),
               Route!InOrder(q), Route!Guarded(q), Route!Clear(q)
        PROVE  Route!RouteInv'
    BY <2>2, RunMoves DEF Route!Step
  <2> HIDE DEF p
  <2>3. ASSUME NEW execute \in BOOLEAN, Route!Begin(r, execute)
        PROVE  Route!RouteInv'
    <3> DEFINE begun == [p EXCEPT !.at = "initialize", !.execute = execute]
               q == IF execute THEN [begun EXCEPT !.dirs = "kept"] ELSE begun
               stopped == [begun EXCEPT !.at = "write", !.blocked = TRUE]
    <3>1. p.at = "new" /\ v1' = v1 /\ (Route!Step(r, q) \/ Route!Step(r, stopped))
      BY <2>3 DEF Route!Begin, Route!At, Route!Goes, Route!Blocks, p
    <3>2. q \in Route!States /\ stopped \in Route!States
      BY <2>1 DEF Route!States
    <3>3. Route!InOrder(q) /\ Route!Guarded(q) /\ Route!Clear(q)
      BY <2>1, <3>1 DEF Route!States, Route!InOrder, Route!Guarded, Route!Clear
    <3>4. Route!InOrder(stopped) /\ Route!Guarded(stopped) /\ Route!Clear(stopped)
      BY <2>1, <3>1 DEF Route!States, Route!InOrder, Route!Guarded, Route!Clear
    <3> HIDE DEF q, stopped
    <3> QED BY <3>1, <3>2, <3>3, <3>4, <2>2
  <2>4. CASE Route!Initialize(r)
    <3>1. PICK subject \in {"release", "other"} :
            /\ p.execute => subject = "release"
            /\ LET s == [p EXCEPT !.subject = subject, !.child = "alive"]
               IN \/ Route!Step(r, [s EXCEPT !.at = "list"])
                  \/ \E c \in Route!Closes(s) :
                       Route!Step(r, [c EXCEPT !.at = "clean", !.blocked = TRUE])
      BY <2>1, <2>4 DEF Route!Initialize, Route!Subject, Route!At, p
    <3>s. PICK s : /\ s = [p EXCEPT !.subject = subject, !.child = "alive"]
                   /\ \/ Route!Step(r, [s EXCEPT !.at = "list"])
                      \/ \E c \in Route!Closes(s) :
                           Route!Step(r, [c EXCEPT !.at = "clean", !.blocked = TRUE])
      BY <3>1
    <3>2. p.at = "initialize" /\ v1' = v1
      BY <2>4 DEF Route!Initialize, Route!At, Route!Goes, Route!Blocks, p
    <3>3. /\ s \in Route!States /\ Route!InOrder(s) /\ s.at = "initialize"
          /\ s.child = "alive" /\ (s.execute => s.dirs = "kept")
      BY <3>1, <3>s, <3>2, <2>1, ChildIsStarted
    <3>4. CASE Route!Step(r, [s EXCEPT !.at = "list"])
      <4>1. PICK q : q = [s EXCEPT !.at = "list"]
        OBVIOUS
      <4>2. q \in Route!States /\ Route!InOrder(q) /\ Route!Guarded(q) /\ Route!Clear(q)
        BY <2>1, <3>3, <4>1 DEF Route!States, Route!InOrder, Route!Guarded, Route!Clear
      <4> QED BY <3>2, <3>4, <4>1, <4>2, <2>2
    <3>5. ASSUME NEW c \in Route!Closes(s),
                 Route!Step(r, [c EXCEPT !.at = "clean", !.blocked = TRUE])
          PROVE  Route!RouteInv'
      <4>1. PICK q : q = [c EXCEPT !.at = "clean", !.blocked = TRUE]
        OBVIOUS
      <4>2. /\ c \in Route!States /\ Route!InOrder(c) /\ c.execute = s.execute
            /\ c.dirs = s.dirs
            /\ c.child \in {"alive", "closed"} /\ (c.child = "alive" => c.unconfirmed)
        BY <3>3, ChildIsEnded
      <4>3. q \in Route!States /\ Route!InOrder(q)
        BY <2>1, <4>1, <4>2 DEF Route!States, Route!InOrder
      <4>4. Route!Guarded(q) /\ Route!Clear(q)
        BY <2>1, <3>3, <4>1, <4>2 DEF Route!States, Route!Guarded, Route!Clear
      <4> QED BY <3>2, <3>5, <4>1, <4>3, <4>4, <2>2
    <3> QED BY <3>s, <3>4, <3>5
  <2>5. ASSUME p.at \in {"list", "setup", "route", "dry", "live", "answer", "completion"},
               v1' = v1, Route!Blocks(r, "close")
        PROVE  Route!RouteInv'
    <3> DEFINE q == [p EXCEPT !.at = "close", !.blocked = TRUE]
    <3>1. q \in Route!States /\ Route!InOrder(q) /\ Route!Guarded(q) /\ Route!Clear(q)
      BY <2>1, <2>5 DEF Route!States, Route!InOrder, Route!Guarded, Route!Clear
    <3>2. Route!Step(r, q)
      BY <2>5 DEF Route!Blocks, p
    <3> HIDE DEF q
    <3> QED BY <2>5, <3>1, <3>2, <2>2
  <2>6. CASE Route!ListTools(r)
    <3> DEFINE setup == [p EXCEPT !.at = "setup"]
               close == [p EXCEPT !.at = "close"]
    <3>1. p.at = "list" /\ v1' = v1
          /\ (Route!Step(r, setup) \/ Route!Step(r, close) \/ Route!Blocks(r, "close"))
      BY <2>6 DEF Route!ListTools, Route!At, Route!Goes, Route!Blocks, p
    <3>2. setup \in Route!States /\ Route!InOrder(setup) /\ Route!Guarded(setup) /\ Route!Clear(setup)
      BY <2>1, <3>1 DEF Route!States, Route!InOrder, Route!Guarded, Route!Clear
    <3>3. close \in Route!States /\ Route!InOrder(close) /\ Route!Guarded(close) /\ Route!Clear(close)
      BY <2>1, <3>1 DEF Route!States, Route!InOrder, Route!Guarded, Route!Clear
    <3> HIDE DEF setup, close
    <3> QED BY <3>1, <3>2, <3>3, <2>2, <2>5
  <2>7. CASE Route!SetUp(r)
    <3> DEFINE made == [p EXCEPT !.at = "route", !.mutated = TRUE]
               unmade == [p EXCEPT !.at = "close", !.blocked = TRUE, !.mutated = TRUE]
    <3>1. p.at = "setup" /\ v1' = v1
          /\ (Route!Step(r, made) \/ Route!Step(r, unmade) \/ Route!Blocks(r, "close"))
      BY <2>7 DEF Route!SetUp, Route!At, Route!Goes, Route!Blocks, p
    <3>2. made \in Route!States /\ Route!InOrder(made) /\ Route!Guarded(made) /\ Route!Clear(made)
      BY <2>1, <3>1 DEF Route!States, Route!InOrder, Route!Guarded, Route!Clear
    <3>3. unmade \in Route!States /\ Route!InOrder(unmade) /\ Route!Guarded(unmade) /\ Route!Clear(unmade)
      BY <2>1, <3>1 DEF Route!States, Route!InOrder, Route!Guarded, Route!Clear
    <3> HIDE DEF made, unmade
    <3> QED BY <3>1, <3>2, <3>3, <2>2, <2>5
  <2>8. CASE Route!Route(r)
    <3> DEFINE q == [p EXCEPT !.at = "dry"]
    <3>1. p.at = "route" /\ v1' = v1
          /\ (Route!Step(r, q) \/ Route!Blocks(r, "close"))
      BY <2>8 DEF Route!Route, Route!At, Route!Goes, Route!Blocks, p
    <3>2. q \in Route!States /\ Route!InOrder(q) /\ Route!Guarded(q) /\ Route!Clear(q)
      BY <2>1, <3>1 DEF Route!States, Route!InOrder, Route!Guarded, Route!Clear
    <3> HIDE DEF q
    <3> QED BY <3>1, <3>2, <2>2, <2>5
  <2>9. CASE Route!DryRun(r)
    <3> DEFINE q == [p EXCEPT !.at = "live"]
    <3>1. p.at = "dry" /\ v1' = v1
          /\ (Route!Step(r, q) \/ Route!Blocks(r, "close"))
      BY <2>9 DEF Route!DryRun, Route!At, Route!Goes, Route!Blocks, p
    <3>2. q \in Route!States /\ Route!InOrder(q) /\ Route!Guarded(q) /\ Route!Clear(q)
      BY <2>1, <3>1 DEF Route!States, Route!InOrder, Route!Guarded, Route!Clear
    <3> HIDE DEF q
    <3> QED BY <3>1, <3>2, <2>2, <2>5
  <2>10. CASE Route!AskLive(r)
    <3> DEFINE q == [p EXCEPT !.at = "answer", !.asked = TRUE]
    <3>1. p.at = "live" /\ v1' = v1
          /\ (Route!Step(r, q) \/ Route!Blocks(r, "close"))
      BY <2>10 DEF Route!AskLive, Route!At, Route!Goes, Route!Blocks, p
    <3>2. q \in Route!States /\ Route!InOrder(q) /\ Route!Guarded(q) /\ Route!Clear(q)
      BY <2>1, <3>1 DEF Route!States, Route!InOrder, Route!Guarded, Route!Clear
    <3> HIDE DEF q
    <3> QED BY <3>1, <3>2, <2>2, <2>5
  <2>11. CASE Route!AnswerLive(r)
    <3> DEFINE q == [p EXCEPT !.at = "completion"]
    <3>1. p.at = "answer" /\ v1' = v1
          /\ (Route!Step(r, q) \/ Route!Blocks(r, "close"))
      BY <2>11 DEF Route!AnswerLive, Route!At, Route!Goes, Route!Blocks, p
    <3>2. q \in Route!States /\ Route!InOrder(q) /\ Route!Guarded(q) /\ Route!Clear(q)
      BY <2>1, <3>1 DEF Route!States, Route!InOrder, Route!Guarded, Route!Clear
    <3> HIDE DEF q
    <3> QED BY <3>1, <3>2, <2>2, <2>5
  <2>12. CASE Route!Probe(r)
    <3> DEFINE q == [p EXCEPT !.at = "close", !.completionSeen = TRUE]
    <3>1. p.at = "completion" /\ v1' = v1
          /\ ((p.ended /\ Route!Step(r, q)) \/ Route!Blocks(r, "close"))
      BY <2>12 DEF Route!Probe, Route!At, Route!Goes, Route!Blocks, p
    <3>2. p.ended => q \in Route!States /\ Route!InOrder(q) /\ Route!Guarded(q) /\ Route!Clear(q)
      BY <2>1, <3>1 DEF Route!States, Route!InOrder, Route!Guarded, Route!Clear
    <3> HIDE DEF q
    <3> QED BY <3>1, <3>2, <2>2, <2>5
  <2>13. CASE Route!Close(r)
    <3>1. PICK c \in Route!Closes(p), failed \in BOOLEAN :
            Route!Step(r, [c EXCEPT !.at = "clean", !.blocked = c.blocked \/ failed])
      BY <2>13 DEF Route!Close, Route!At, Route!Goes, Route!Blocks, p
    <3> DEFINE q == [c EXCEPT !.at = "clean", !.blocked = c.blocked \/ failed]
    <3>2. p.at = "close" /\ v1' = v1
      BY <2>13 DEF Route!Close, Route!At, Route!Goes, Route!Blocks, p
    <3>3. q \in Route!States /\ Route!InOrder(q) /\ Route!Guarded(q) /\ Route!Clear(q)
      <4>1. /\ c \in Route!States /\ Route!InOrder(c) /\ c.execute = p.execute
            /\ c.dirs = p.dirs
            /\ c.child \in {"alive", "closed"} /\ (c.child = "alive" => c.unconfirmed)
        BY <2>1, <3>1, <3>2, ChildIsEnded DEF Route!Guarded
      <4> DEFINE b == c.blocked \/ failed
      <4>2. b \in BOOLEAN /\ (c.blocked => b)
        BY <2>1, <4>1 DEF Route!States
      <4> HIDE DEF b
      <4>3. LET d == [c EXCEPT !.at = "clean", !.blocked = b]
            IN d \in Route!States /\ Route!InOrder(d)
        <5> DEFINE d == [c EXCEPT !.at = "clean", !.blocked = b]
        <5>1. d \in Route!States
          BY <2>1, <4>1, <4>2 DEF Route!States
        <5>2. d.at = "clean" /\ d.blocked = b
          BY <2>1, <4>1 DEF Route!States
        <5>3. /\ d.completionSeen = c.completionSeen /\ d.ended = c.ended /\ d.sent = c.sent
              /\ d.asked = c.asked /\ d.mutated = c.mutated /\ d.child = c.child
              /\ d.unconfirmed = c.unconfirmed /\ d.execute = c.execute
              /\ d.subject = c.subject
          BY <2>1, <4>1 DEF Route!States
        <5> HIDE DEF d
        <5>4. Route!InOrder(d)
          BY <2>1, <4>1, <4>2, <5>2, <5>3 DEF Route!InOrder
        <5> QED BY <5>1, <5>4 DEF d
      <4>4. LET d == [c EXCEPT !.at = "clean", !.blocked = b]
            IN Route!Guarded(d) /\ Route!Clear(d)
        BY <2>1, <3>2, <4>1, <4>2 DEF Route!States, Route!Guarded, Route!Clear
      <4> QED BY <4>3, <4>4 DEF b
    <3> HIDE DEF q
    <3> QED BY <3>1, <3>2, <3>3, <2>2 DEF q
  <2>14. CASE Route!Clean(r)
    <3>1. PICK c \in Route!Cleaned(p) : Route!Step(r, [c EXCEPT !.at = "write"])
      BY <2>14 DEF Route!Clean, Route!At, Route!Goes, Route!Blocks, p
    <3> DEFINE q == [c EXCEPT !.at = "write"]
    <3>2. p.at = "clean" /\ v1' = v1
      BY <2>14 DEF Route!Clean, Route!At, Route!Goes, Route!Blocks, p
    <3>3. /\ c \in Route!States /\ Route!InOrder(c) /\ c.child = p.child
          /\ c.execute = p.execute /\ c.unconfirmed = p.unconfirmed
          /\ (c.execute /\ c.unconfirmed => c.dirs = "kept" /\ c.blocked)
          /\ (c.execute /\ ~c.unconfirmed => c.dirs = "gone" \/ c.blocked)
      <4> DEFINE stopped == [p EXCEPT !.blocked = TRUE]
                 gone == [p EXCEPT !.dirs = "gone"]
                 partly == [p EXCEPT !.dirs = "partly", !.blocked = TRUE]
      <4>1. \/ ~p.execute /\ c = p
            \/ p.execute /\ p.unconfirmed /\ c = stopped
            \/ p.execute /\ ~p.unconfirmed /\ (c = gone \/ c = partly)
        BY DEF Route!Cleaned
      <4>2. p.execute => p.dirs = "kept"
        BY <2>1, <3>2 DEF Route!Guarded
      <4>3. CASE c = p /\ ~p.execute
        BY <2>1, <4>3
      <4>4. CASE p.execute /\ p.unconfirmed /\ c = stopped
        BY <2>1, <4>2, <4>4 DEF Route!States, Route!InOrder
      <4>5. CASE p.execute /\ ~p.unconfirmed /\ c = gone
        BY <2>1, <4>5 DEF Route!States, Route!InOrder
      <4>6. CASE p.execute /\ ~p.unconfirmed /\ c = partly
        BY <2>1, <4>6 DEF Route!States, Route!InOrder
      <4> HIDE DEF stopped, gone, partly
      <4> QED BY <4>1, <4>3, <4>4, <4>5, <4>6
    <3>4. q \in Route!States /\ Route!InOrder(q) /\ Route!Guarded(q) /\ Route!Clear(q)
      BY <2>1, <3>2, <3>3 DEF Route!States, Route!InOrder, Route!Guarded, Route!Clear
    <3> HIDE DEF q
    <3> QED BY <3>1, <3>2, <3>4, <2>2 DEF q
  <2>15. CASE Route!Write(r)
    <3> DEFINE ok == ~p.blocked /\ (p.execute => p.completionSeen)
               q == [p EXCEPT !.at = "done", !.ok = ok]
    <3>1. p.at = "write" /\ v1' = v1
          /\ Route!Step(r, q)
      BY <2>15 DEF Route!Write, Route!At, Route!Goes, Route!Blocks, p
    <3>2. q \in Route!States /\ Route!InOrder(q) /\ Route!Guarded(q) /\ Route!Clear(q)
      BY <2>1, <3>1 DEF Route!States, Route!InOrder, Route!Guarded, Route!Clear
    <3> HIDE DEF ok, q
    <3> QED BY <3>1, <3>2, <2>2, <2>5
  <2>16. CASE Route!Die(r)
    <3> DEFINE q == [p EXCEPT !.at = "dead"]
    <3>1. p.at \notin {"new", "done", "dead"} /\ v1' = v1
          /\ Route!Step(r, q)
      BY <2>16 DEF Route!Die, Route!At, Route!Goes, Route!Blocks, p
    <3>2. q \in Route!States /\ Route!InOrder(q) /\ Route!Guarded(q) /\ Route!Clear(q)
      BY <2>1, <3>1 DEF Route!States, Route!InOrder, Route!Guarded, Route!Clear
    <3> HIDE DEF q
    <3> QED BY <3>1, <3>2, <2>2, <2>5
  <2>17. CASE Route!ChildSends(r)
    <3> DEFINE q == [p EXCEPT !.sent = TRUE]
    <3>1. p.child = "alive" /\ p.asked /\ v1' = v1
          /\ Route!Step(r, q)
      BY <2>17 DEF Route!ChildSends, Route!At, Route!Goes, Route!Blocks, p
    <3>2. q \in Route!States /\ Route!InOrder(q)
      BY <2>1, <3>1 DEF Route!States, Route!InOrder
    <3>3. Route!Guarded(q) /\ Route!Clear(q)
      BY <2>1, <3>1 DEF Route!States, Route!Guarded, Route!Clear
    <3> HIDE DEF q
    <3> QED BY <3>1, <3>2, <3>3, <2>2
  <2>18. CASE Route!ChildEnds(r)
    <3> DEFINE q == [p EXCEPT !.child = "closed"]
    <3>1. p.child = "alive" /\ v1' = v1
          /\ Route!Step(r, q)
      BY <2>18 DEF Route!ChildEnds, Route!At, Route!Goes, Route!Blocks, p
    <3>2. q \in Route!States /\ Route!InOrder(q)
      BY <2>1, <3>1 DEF Route!States, Route!InOrder
    <3>3. Route!Guarded(q) /\ Route!Clear(q)
      BY <2>1, <3>1 DEF Route!States, Route!Guarded, Route!Clear
    <3> HIDE DEF q
    <3> QED BY <3>1, <3>2, <3>3, <2>2
  <2>19. CASE Route!TurnEnds(r)
    <3> DEFINE q == [p EXCEPT !.ended = TRUE]
    <3>1. p.sent /\ v1' = v1
          /\ Route!Step(r, q)
      BY <2>19 DEF Route!TurnEnds, Route!At, Route!Goes, Route!Blocks, p
    <3>2. q \in Route!States /\ Route!InOrder(q)
      BY <2>1, <3>1 DEF Route!States, Route!InOrder
    <3>3. Route!Guarded(q) /\ Route!Clear(q)
      BY <2>1, <3>1 DEF Route!States, Route!Guarded, Route!Clear
    <3> HIDE DEF q
    <3> QED BY <3>1, <3>2, <3>3, <2>2
  <2>20. CASE Route!TimeIsUp(r)
    <3> DEFINE q == [p EXCEPT !.late = TRUE]
    <3>1. p.at \in {"setup", "route", "dry", "live", "answer", "completion"} /\ v1' = v1
          /\ Route!Step(r, q)
      BY <2>20 DEF Route!TimeIsUp, Route!At, Route!Goes, Route!Blocks, p
    <3>2. q \in Route!States /\ Route!InOrder(q)
      BY <2>1, <3>1 DEF Route!States, Route!InOrder
    <3>3. Route!Guarded(q) /\ Route!Clear(q)
      BY <2>1, <3>1 DEF Route!States, Route!Guarded, Route!Clear
    <3> HIDE DEF q
    <3> QED BY <3>1, <3>2, <3>3, <2>2
  <2> QED
    BY <1>3, <2>3, <2>4, <2>6, <2>7, <2>8, <2>9, <2>10, <2>11, <2>12, <2>13, <2>14, <2>15,
       <2>16, <2>17, <2>18, <2>19, <2>20
<1> QED BY <1>1, <1>2, <1>3 DEF Route!Next

\* It holds of runs that have not begun.
LEMMA RouteStarts ==
  ASSUME Route!Init
  PROVE  Route!RouteInv
BY DEF Route!Init, Route!New, Route!RouteInv, Route!TypeInv, Route!States, Route!InOrder,
       Route!Guarded, Route!Clear

\* It says what the receipt says.
LEMMA RouteTells ==
  ASSUME Route!RouteInv
  PROVE  Route!ReceiptIsTrue
BY DEF Route!RouteInv, Route!ReceiptIsTrue, Route!InOrder, Route!Guarded, Route!Clear

\* What a run has said stays true, however its calls fail and its child outlives them: a
\* run that says it performed nothing has not, nor does its child afterwards; one that says
\* all went well ran the release, sent one message whose turn has ended, and has left
\* neither a child nor a directory; and no directory goes while a child may use it.
\* (packages/cli/src/qa-lab-eva-idle-route.ts)
THEOREM ReceiptsAreTrue == HarnessSpec => []ReceiptIsTrue
<1> DEFINE I == component = "route" => Route!RouteInv
<1>1. HarnessInit => I
  BY StartsOfOne, RouteStarts
<1>2. I /\ [HarnessNext]_vars => I'
  BY StepsOfOne, RouteKept
<1>3. I => ReceiptIsTrue
  BY RouteTells DEF ReceiptIsTrue
<1> QED BY <1>1, <1>2, <1>3, PTL DEF HarnessSpec

-----------------------------------------------------------------------------
(* LiveProofs: the wall clock is v1, the audit log v2, the deeds v3, what  *)
(* is stored v4, the reading v5 and what overlapped it v6, the smokes v7,  *)
(* the files v8 to v11, the refresh v12.                                   *)

\* LiveProofs counts as FiniteSets does.
LEMMA CountsAlike ==
  ASSUME NEW S
  PROVE  Proofs!Cardinality(S) = Cardinality(S)
BY DEF Proofs!Cardinality, Cardinality

\* Turns that ended are counted, and no place less is counted for more.
LEMMA TurnsAreCounted ==
  ASSUME v3 \in Seq(Proofs!Deeds), NEW t, NEW i \in 0 .. Len(v3), NEW n \in 0 .. i
  PROVE  /\ Proofs!Ended(t, 1 .. i) \in Nat
         /\ Proofs!Ended(t, 1 .. n) <= Proofs!Ended(t, 1 .. i)
<1> DEFINE At(m) == {j \in 1 .. m : v3[j].control.thread = t /\ v3[j].done}
<1>1. IsFiniteSet(1 .. i)
  BY FS_Interval
<1>2. At(i) \subseteq 1 .. i /\ At(n) \subseteq At(i)
  OBVIOUS
<1>3. IsFiniteSet(At(i)) /\ IsFiniteSet(At(n))
  BY <1>1, <1>2, FS_Subset
<1>4. Cardinality(At(i)) \in Nat /\ Cardinality(At(n)) <= Cardinality(At(i))
  BY <1>2, <1>3, FS_Subset, FS_CardinalityType
<1>5. \A m : Proofs!Ended(t, 1 .. m) = Cardinality(At(m))
  BY CountsAlike DEF Proofs!Ended
<1> HIDE DEF At
<1> QED BY <1>4, <1>5

\* A deed is added and those before it keep their places.
LEMMA DeedsAreAdded ==
  ASSUME v3 \in Seq(Proofs!Deeds), NEW deed \in Proofs!Deeds, v3' = Append(v3, deed)
  PROVE  /\ v3' \in Seq(Proofs!Deeds) /\ Len(v3') = Len(v3) + 1 /\ Len(v3) \in Nat
         /\ DOMAIN v3 = 1 .. Len(v3) /\ DOMAIN v3' = 1 .. Len(v3) + 1
         /\ v3'[Len(v3) + 1] = deed
         /\ \A i \in 1 .. Len(v3) :
              v3'[i] = v3[i] /\ \A t : Proofs!Ended(t, 1 .. i)' = Proofs!Ended(t, 1 .. i)
<1>1. /\ v3' \in Seq(Proofs!Deeds) /\ Len(v3') = Len(v3) + 1 /\ Len(v3) \in Nat
      /\ DOMAIN v3 = 1 .. Len(v3) /\ DOMAIN v3' = 1 .. Len(v3) + 1
      /\ v3'[Len(v3) + 1] = deed /\ \A i \in 1 .. Len(v3) : v3'[i] = v3[i]
  OBVIOUS
<1>2. ASSUME NEW i \in 1 .. Len(v3), NEW t
      PROVE  Proofs!Ended(t, 1 .. i)' = Proofs!Ended(t, 1 .. i)
  <2>1. {j \in 1 .. i : v3'[j].control.thread = t /\ v3'[j].done}
          = {j \in 1 .. i : v3[j].control.thread = t /\ v3[j].done}
    BY <1>1
  <2> QED BY <2>1 DEF Proofs!Ended
<1> QED BY <1>1, <1>2

\* What is known of a control stays known.
Remembered ==
  \A id \in Nat, c \in Proofs!Controls :
    /\ Proofs!Answered(id, c) => Proofs!Answered(id, c)'
    /\ Proofs!Proven(id, c) =>
         /\ Proofs!Proven(id, c)'
         /\ \A n \in Nat : Proofs!Shows(id, c.thread, n) => Proofs!Shows(id, c.thread, n)'
         /\ \A n \in Nat : Proofs!Timely(id, c.thread, n) => Proofs!Timely(id, c.thread, n)'

\* The gate performs another control, under another approval.
LEMMA DeedsStand ==
  ASSUME Proofs!TypeInv, Proofs!DeedsInv, NEW control \in Proofs!Controls, NEW id \in Nat,
         NEW done \in BOOLEAN, Proofs!GatePerforms(control, id, done),
         UNCHANGED << v4, v5 >>
  PROVE  /\ v3' \in Seq(Proofs!Deeds) /\ Proofs!DeedsInv' /\ Remembered
         /\ \E i \in Proofs!Under(id)' : v3'[i].control = control /\ v3'[i].done = done
<1> DEFINE deed == [control |-> control, approval |-> id, done |-> done]
           last == Len(v3) + 1
<1>1. /\ v3 \in Seq(Proofs!Deeds) /\ deed \in Proofs!Deeds /\ v3' = Append(v3, deed)
      /\ \A i \in DOMAIN v3 : v3[i].approval # id
      /\ v6 \subseteq v6' /\ (v5[control.thread] # NoFile => control.thread \in v6')
  BY DEF Proofs!TypeInv, Proofs!Deeds, Proofs!GatePerforms
<1>a. deed.control = control /\ deed.approval = id /\ deed.done = done
  OBVIOUS
<1> HIDE DEF deed
<1>2. /\ v3' \in Seq(Proofs!Deeds) /\ Len(v3) \in Nat
      /\ DOMAIN v3 = 1 .. Len(v3) /\ DOMAIN v3' = 1 .. last
      /\ v3'[last] = deed
      /\ \A i \in DOMAIN v3 :
           v3'[i] = v3[i] /\ \A t : Proofs!Ended(t, 1 .. i)' = Proofs!Ended(t, 1 .. i)
  BY <1>1, DeedsAreAdded
<1> HIDE DEF last
<1>b. DOMAIN v3' = DOMAIN v3 \cup {last}
  BY <1>2 DEF last
<1>3. Proofs!DeedsInv'
  <2>1. \A i, j \in DOMAIN v3' : v3'[i].approval = v3'[j].approval => i = j
    BY <1>1, <1>a, <1>2, <1>b DEF Proofs!DeedsInv
  <2>2. ASSUME NEW i \in DOMAIN v3', NEW t, t = v3'[i].control.thread
        PROVE  t \in v6' \/ v5[t] = NoFile \/ v5[t] >= Proofs!Ended(t, 1 .. i)'
    <3>1. CASE i = last
      BY <1>1, <1>2, <1>a, <2>2, <3>1
    <3>2. CASE i \in DOMAIN v3
      BY <1>1, <1>2, <2>2, <3>2 DEF Proofs!DeedsInv
    <3> QED BY <1>b, <2>2, <3>1, <3>2
  <2>3. v5' = v5
    OBVIOUS
  <2> QED BY <2>1, <2>2, <2>3 DEF Proofs!DeedsInv
<1>4. ASSUME NEW a \in Nat, NEW c \in Proofs!Controls, Proofs!Proven(a, c)
      PROVE  /\ Proofs!Proven(a, c)'
             /\ \A n \in Nat : Proofs!Shows(a, c.thread, n) => Proofs!Shows(a, c.thread, n)'
             /\ \A n \in Nat : Proofs!Timely(a, c.thread, n) => Proofs!Timely(a, c.thread, n)'
  <2>1. Proofs!Under(a)' = Proofs!Under(a) /\ \A i \in Proofs!Under(a) : i \in DOMAIN v3
    BY <1>1, <1>2, <1>a, <1>b, <1>4 DEF Proofs!Under, Proofs!Proven
  <2>2. Proofs!Proven(a, c)'
    BY <1>2, <1>4, <2>1 DEF Proofs!Proven, Proofs!ValidLive
  <2>3. ASSUME NEW n \in Nat, Proofs!Shows(a, c.thread, n)
        PROVE  Proofs!Shows(a, c.thread, n)'
    BY <1>1, <1>2, <2>1, <2>3 DEF Proofs!Shows
  <2>4. v4' = v4 /\ v4[c.thread].shows \in Nat
    BY DEF Proofs!TypeInv, Proofs!Controls
  <2>5. ASSUME NEW n \in Nat, Proofs!Timely(a, c.thread, n)
        PROVE  Proofs!Timely(a, c.thread, n)'
    BY <2>3, <2>4, <2>5, <1>1, <1>2, <2>1 DEF Proofs!Timely, Proofs!Shows
  <2> QED BY <2>2, <2>3, <2>5
<1>6. ASSUME NEW a \in Nat, NEW c \in Proofs!Controls, Proofs!Answered(a, c)
      PROVE  Proofs!Answered(a, c)'
  BY <1>2, <1>b, <1>6 DEF Proofs!Answered, Proofs!Under
<1>5. last \in Proofs!Under(id)' /\ v3'[last].control = control /\ v3'[last].done = done
  BY <1>2, <1>a, <1>b DEF Proofs!Under
<1> QED BY <1>2, <1>3, <1>4, <1>5, <1>6 DEF Remembered

\* An index run reads a thread with all that was done there.
LEMMA ReadingIsWhole ==
  ASSUME Proofs!TypeInv, Proofs!DeedsInv, NEW t \in Sacrificed, Proofs!IndexReads(t)
  PROVE  Proofs!DeedsInv' /\ Remembered /\ v5' \in [Sacrificed -> Nat \cup {NoFile}]
<1>1. /\ v5' = [v5 EXCEPT ![t] = Proofs!Ended(t, DOMAIN v3)]
      /\ v3' = v3 /\ v4' = v4 /\ v6' = v6
      /\ v5 \in [Sacrificed -> Nat \cup {NoFile}] /\ v3 \in Seq(Proofs!Deeds)
  BY DEF Proofs!IndexReads, Proofs!TypeInv
<1>2. DOMAIN v3 = 1 .. Len(v3) /\ Len(v3) \in Nat
  BY <1>1
<1>3. /\ Proofs!Ended(t, DOMAIN v3) \in Nat
      /\ \A i \in DOMAIN v3 : Proofs!Ended(t, 1 .. i) <= Proofs!Ended(t, DOMAIN v3)
  BY <1>1, <1>2, TurnsAreCounted
<1>4. \A x, n : Proofs!Ended(x, n)' = Proofs!Ended(x, n)
  BY <1>1 DEF Proofs!Ended
<1>5. \A i \in DOMAIN v3 : Proofs!Ended(t, 1 .. i) \in Nat
  BY <1>1, <1>2, TurnsAreCounted
<1>6. Proofs!DeedsInv'
  <2>1. ASSUME NEW i \in DOMAIN v3
        PROVE  LET x == v3[i].control.thread
               IN x \in v6 \/ v5'[x] = NoFile \/ v5'[x] >= Proofs!Ended(x, 1 .. i)
    <3>1. CASE v3[i].control.thread = t
      BY <1>1, <1>3, <1>5, <3>1
    <3>2. CASE v3[i].control.thread # t
      BY <1>1, <3>2 DEF Proofs!DeedsInv
    <3> QED BY <3>1, <3>2
  <2> QED BY <1>1, <1>4, <2>1 DEF Proofs!DeedsInv
<1>7. Remembered
  BY <1>1, <1>4 DEF Remembered, Proofs!Answered, Proofs!Proven, Proofs!Shows, Proofs!Timely, Proofs!Under,
     Proofs!ValidLive
<1> QED BY <1>1, <1>3, <1>6, <1>7

\* It stores what it read, later than any time there was before.
LEMMA StoringIsTimely ==
  ASSUME Proofs!TypeInv, Proofs!DeedsInv, NEW t \in Sacrificed, Proofs!IndexStores(t)
  PROVE  /\ Proofs!DeedsInv' /\ Remembered
         /\ v4' \in [Sacrificed -> [at : 0 .. v1, shows : Nat]]
         /\ v5' \in [Sacrificed -> Nat \cup {NoFile}]
<1>1. /\ v5[t] # NoFile /\ v5[t] \in Nat /\ v1 \in Nat
      /\ v4' = [v4 EXCEPT ![t] = [at |-> v1, shows |-> v5[t]]]
      /\ v5' = [v5 EXCEPT ![t] = NoFile]
      /\ v3' = v3 /\ v6' = v6
      /\ v5 \in [Sacrificed -> Nat \cup {NoFile}] /\ v3 \in Seq(Proofs!Deeds)
      /\ v4 \in [Sacrificed -> [at : 0 .. v1, shows : Nat]]
  BY DEF Proofs!IndexStores, Proofs!TypeInv
<1>2. \A x, n : Proofs!Ended(x, n)' = Proofs!Ended(x, n)
  BY <1>1 DEF Proofs!Ended
<1>3. Proofs!DeedsInv'
  BY <1>1, <1>2 DEF Proofs!DeedsInv
<1>4. ASSUME NEW id \in Nat, NEW c \in Proofs!Controls, Proofs!Proven(id, c)
      PROVE  /\ Proofs!Proven(id, c)'
             /\ \A n \in Nat : Proofs!Shows(id, c.thread, n) => Proofs!Shows(id, c.thread, n)'
             /\ \A n \in Nat : Proofs!Timely(id, c.thread, n) => Proofs!Timely(id, c.thread, n)'
  <2>1. Proofs!Proven(id, c)' /\ Proofs!Under(id)' = Proofs!Under(id)
    BY <1>1, <1>4 DEF Proofs!Proven, Proofs!ValidLive, Proofs!Under
  <2>2. \A n \in Nat : Proofs!Shows(id, c.thread, n) => Proofs!Shows(id, c.thread, n)'
    BY <1>1, <1>2, <2>1 DEF Proofs!Shows
  <2>3. CASE c.thread # t
    <3>1. v4'[c.thread] = v4[c.thread]
      BY <1>1, <2>3
    <3> QED BY <1>1, <1>2, <2>1, <2>2, <3>1 DEF Proofs!Timely, Proofs!Shows
  <2>4. CASE c.thread = t
    <3>1. \A i \in Proofs!Under(id) : v3[i].control = c
      BY <1>4 DEF Proofs!Proven, Proofs!Under, Proofs!DeedsInv
    <3>2. \A i \in Proofs!Under(id) : t \in v6 \/ v5[t] >= Proofs!Ended(t, 1 .. i)
      BY <1>1, <2>4, <3>1 DEF Proofs!DeedsInv, Proofs!Under
    <3>3. v4'[t].shows = v5[t]
      BY <1>1
    <3> QED BY <1>1, <1>2, <2>1, <2>2, <2>4, <3>2, <3>3 DEF Proofs!Timely, Proofs!Shows
  <2> QED BY <2>1, <2>2, <2>3, <2>4
<1>5. \A id \in Nat, c \in Proofs!Controls : Proofs!Answered(id, c) => Proofs!Answered(id, c)'
  BY <1>1 DEF Proofs!Answered, Proofs!Under
<1> QED BY <1>1, <1>3, <1>4, <1>5 DEF Remembered

\* The other steps leave the deeds and the index alone.
LEMMA NothingDone ==
  ASSUME Proofs!TypeInv, Proofs!DeedsInv, UNCHANGED << v3, v4, v5, v6 >>
  PROVE  Proofs!DeedsInv' /\ Remembered
<1>1. \A x, n : Proofs!Ended(x, n)' = Proofs!Ended(x, n)
  BY DEF Proofs!Ended
<1> QED BY <1>1 DEF Proofs!DeedsInv, Remembered, Proofs!Answered, Proofs!Proven, Proofs!Shows, Proofs!Timely,
           Proofs!Under, Proofs!ValidLive
\* So does what rests on it.
LEMMA ReportsStand ==
  ASSUME Remembered
  PROVE  /\ \A f \in Proofs!Reports : Proofs!Reported(f) => Proofs!Reported(f)'
         /\ \A f \in Proofs!Reports, n \in Nat :
              Proofs!Refreshed(f, n) => Proofs!Refreshed(f, n)'
         /\ \A s \in Proofs!Smokes : Proofs!Sound(s) => Proofs!Sound(s)'
<1>1. ASSUME NEW f \in Proofs!Reports
      PROVE  /\ f.approval \in Nat /\ f.control \in Proofs!Controls /\ f.observed \in Nat
  BY DEF Proofs!Reports
<1>2. \A f \in Proofs!Reports : Proofs!Reported(f) => Proofs!Reported(f)'
  BY <1>1 DEF Remembered, Proofs!Reported
<1>3. \A f \in Proofs!Reports, n \in Nat : Proofs!Refreshed(f, n) => Proofs!Refreshed(f, n)'
  BY <1>1 DEF Remembered, Proofs!Refreshed
<1>4. ASSUME NEW s \in Proofs!Smokes, Proofs!Sound(s)
      PROVE  Proofs!Sound(s)'
  <2>1. s.dry \in Nat /\ s.observed \in Nat
    BY DEF Proofs!Smokes
  <2> QED BY <1>4, <2>1 DEF Remembered, Proofs!Sound
<1> QED BY <1>2, <1>3, <1>4

\* A run of a smoke moves, the others know what they knew.
LEMMA SmokesStand ==
  ASSUME Proofs!TypeInv, Proofs!SmokeInv, Remembered, NEW o \in Operators,
         NEW s \in Proofs!Smokes, v7' = [v7 EXCEPT ![o] = s], Proofs!Sound(s)'
  PROVE  Proofs!SmokeInv' /\ v7' \in [Operators -> Proofs!Smokes]
<1>1. v7 \in [Operators -> Proofs!Smokes]
  BY DEF Proofs!TypeInv
<1>2. v7' \in [Operators -> Proofs!Smokes] /\ v7'[o] = s /\ \A x \in Operators \ {o} : v7'[x] = v7[x]
  BY <1>1
<1>3. ASSUME NEW x \in Operators, NEW r, r = v7'[x]
      PROVE  Proofs!Sound(r)'
  <2>1. CASE x = o
    <3>1. r = s
      BY <1>2, <1>3, <2>1
    <3> QED BY <3>1 DEF Proofs!Sound
  <2>2. CASE x # o
    <3>1. r = v7[x] /\ r \in Proofs!Smokes
      BY <1>1, <1>2, <1>3, <2>2
    <3>2. Proofs!Sound(r)
      BY <3>1 DEF Proofs!SmokeInv, Proofs!Sound
    <3> QED BY <3>1, <3>2, ReportsStand
  <2> QED BY <2>1, <2>2
<1>4. \A x \in Operators : Proofs!Sound(v7[x])'
  BY <1>3 DEF Proofs!Sound
<1> QED BY <1>2, <1>4 DEF Proofs!SmokeInv

\* The smokes stand when only something else has changed.
LEMMA SmokesRest ==
  ASSUME Proofs!TypeInv, Proofs!SmokeInv, Remembered, v7' = v7
  PROVE  Proofs!SmokeInv'
<1>1. ASSUME NEW x \in Operators, NEW r, r = v7'[x]
      PROVE  Proofs!Sound(r)'
  <2>1. r = v7[x] /\ r \in Proofs!Smokes
    BY <1>1 DEF Proofs!TypeInv
  <2>2. Proofs!Sound(r)
    BY <2>1 DEF Proofs!SmokeInv, Proofs!Sound
  <2> QED BY <2>1, <2>2, ReportsStand
<1>2. \A x \in Operators : Proofs!Sound(v7[x])'
  BY <1>1 DEF Proofs!Sound
<1> QED BY <1>2 DEF Proofs!SmokeInv

\* Files that are not written are as true as they were.
LEMMA FilesStand ==
  ASSUME Proofs!TypeInv, Proofs!FilesInv, Remembered,
         \A d \in Dirs : v8'[d] = v8[d] \/ (v8[d].ready => Proofs!Reported(v8[d]))',
         \A d \in Dirs : v9'[d] = v9[d]
           \/ (v9[d].ready => \E c \in Proofs!Controls : Proofs!Proven(v9[d].approval, c))',
         \A d \in Dirs : v10'[d] = v10[d]
           \/ (v10[d].ready => Proofs!Refreshed(v10[d].report, v10[d].shows))',
         v11' = v11 \/ (v11.ready => Proofs!Proven(v11.approval, v11.control))'
  PROVE  Proofs!FilesInv'
<1>1. ASSUME NEW d \in Dirs
      PROVE  (v8[d].ready => Proofs!Reported(v8[d]))'
  <2>1. CASE v8'[d] = v8[d]
    <3>1. ASSUME NEW f, f = v8[d], f.ready
          PROVE  f \in Proofs!Reports /\ Proofs!Reported(f)
      BY <3>1 DEF Proofs!TypeInv, Proofs!FilesInv, Proofs!NotReady, Proofs!Reported
    <3>2. ASSUME NEW f, f = v8[d], f.ready
          PROVE  Proofs!Reported(f)'
      BY <3>1, <3>2, ReportsStand
    <3> QED BY <2>1, <3>2 DEF Proofs!Reported
  <2> QED BY <2>1
<1>2. ASSUME NEW d \in Dirs
      PROVE  (v9[d].ready => \E c \in Proofs!Controls : Proofs!Proven(v9[d].approval, c))'
  <2>1. CASE v9'[d] = v9[d]
    <3>1. ASSUME v9[d].ready, NEW id, id = v9[d].approval
          PROVE  id \in Nat /\ \E c \in Proofs!Controls : Proofs!Proven(id, c)
      <4>1. v9[d] \in [ready : {TRUE}, approval : Nat] \cup {Proofs!NotReady}
        BY DEF Proofs!TypeInv
      <4>n. v9[d] # Proofs!NotReady
        <5>1. ~Proofs!NotReady.ready
          BY DEF Proofs!NotReady
        <5> QED BY <3>1, <5>1 
      <4>2. v9[d] \in [ready : {TRUE}, approval : Nat]
        BY <4>1, <4>n
      <4>3. \E c \in Proofs!Controls : Proofs!Proven(id, c)
        BY <3>1 DEF Proofs!FilesInv
      <4> QED BY <3>1, <4>2, <4>3
    <3>2. ASSUME v9[d].ready, NEW id, id = v9[d].approval
          PROVE  \E c \in Proofs!Controls : Proofs!Proven(id, c)'
      BY <3>1, <3>2 DEF Remembered
    <3> QED BY <2>1, <3>2
  <2> QED BY <2>1
<1>3. ASSUME NEW d \in Dirs
      PROVE  (v10[d].ready => Proofs!Refreshed(v10[d].report, v10[d].shows))'
  <2>1. CASE v10'[d] = v10[d]
    <3>1. ASSUME v10[d].ready, NEW f, NEW n, f = v10[d].report, n = v10[d].shows
          PROVE  f \in Proofs!Reports /\ n \in Nat /\ Proofs!Refreshed(f, n)
      <4>1. v10[d] \in [ready : {TRUE}, report : Proofs!Reports, shows : Nat] \cup {Proofs!NotReady}
        BY DEF Proofs!TypeInv
      <4>n. v10[d] # Proofs!NotReady
        <5>1. ~Proofs!NotReady.ready
          BY DEF Proofs!NotReady
        <5> QED BY <3>1, <5>1 
      <4>2. v10[d] \in [ready : {TRUE}, report : Proofs!Reports, shows : Nat]
        BY <4>1, <4>n
      <4>3. Proofs!Refreshed(f, n)
        BY <3>1 DEF Proofs!FilesInv
      <4> QED BY <3>1, <4>2, <4>3
    <3>2. ASSUME v10[d].ready, NEW f, NEW n, f = v10[d].report, n = v10[d].shows
          PROVE  Proofs!Refreshed(f, n)'
      BY <3>1, <3>2, ReportsStand
    <3> QED BY <2>1, <3>2
  <2> QED BY <2>1
<1>4. (v11.ready => Proofs!Proven(v11.approval, v11.control))'
  <2>1. CASE v11' = v11
    <3>1. ASSUME v11.ready, NEW id, NEW c, id = v11.approval, c = v11.control
          PROVE  id \in Nat /\ c \in Proofs!Controls /\ Proofs!Proven(id, c)
      <4>1. v11 \in [ready : {TRUE}, control : Proofs!Controls, approval : Nat] \cup {Proofs!NotReady}
        BY DEF Proofs!TypeInv
      <4>n. v11 # Proofs!NotReady
        <5>1. ~Proofs!NotReady.ready
          BY DEF Proofs!NotReady
        <5> QED BY <3>1, <5>1 
      <4>2. v11 \in [ready : {TRUE}, control : Proofs!Controls, approval : Nat]
        BY <4>1, <4>n
      <4>3. Proofs!Proven(id, c)
        BY <3>1 DEF Proofs!FilesInv
      <4> QED BY <3>1, <4>2, <4>3
    <3>2. ASSUME v11.ready, NEW id, NEW c, id = v11.approval, c = v11.control
          PROVE  Proofs!Proven(id, c)'
      BY <3>1, <3>2 DEF Remembered
    <3> QED BY <2>1, <3>2
  <2> QED BY <2>1
<1> QED BY <1>1, <1>2, <1>3, <1>4 DEF Proofs!FilesInv

\* So does the refresh smoke.
LEMMA RefreshStands ==
  ASSUME Proofs!TypeInv, Proofs!RefreshInv, Remembered, v12' = v12
  PROVE  Proofs!RefreshInv'
<1>1. ASSUME NEW f, NEW n, f = v12.report, n = v12.shows
      PROVE  /\ v12.at = "ask" => f # NoFile /\ Proofs!Reported(f)'
             /\ v12.at = "write" /\ f # NoFile => n # NoFile /\ Proofs!Refreshed(f, n)'
  <2>1. /\ v12.at = "ask" => f # NoFile /\ Proofs!Reported(f)
        /\ v12.at = "write" /\ f # NoFile => n # NoFile /\ Proofs!Refreshed(f, n)
    BY <1>1 DEF Proofs!RefreshInv
  <2>2. f \in Proofs!Reports \cup {NoFile} /\ n \in Nat \cup {NoFile}
    BY <1>1 DEF Proofs!TypeInv
  <2> QED BY <2>1, <2>2, ReportsStand
<1> QED BY <1>1 DEF Proofs!RefreshInv
\* The steps of a smoke that leave no file and do nothing.
LEMMA SmokeGoesOn ==
  ASSUME Proofs!ProofInv, NEW o \in Operators,
         \/ \E d \in Dirs, c \in Proofs!Controls : Proofs!StartSmoke(o, d, c)
         \/ Proofs!DryRun(o) \/ Proofs!TakeAnswer(o) \/ Proofs!ReadTail(o) \/ Proofs!Die(o)
  PROVE  Proofs!ProofInv'
<1>1. /\ Proofs!TypeInv /\ Proofs!DeedsInv /\ Proofs!SmokeInv /\ Proofs!FilesInv
      /\ Proofs!RefreshInv
      /\ UNCHANGED << v1, v3, v4, v5, v6, v8, v9, v10, v11, v12 >>
      /\ v2' \in Nat
  <2>1. v2 \in Nat
    BY DEF Proofs!ProofInv, Proofs!TypeInv
  <2>2. v2' = v2 \/ v2' = v2 + 1
    BY DEF Proofs!StartSmoke, Proofs!DryRun, Proofs!TakeAnswer, Proofs!ReadTail,
       Proofs!Die, Proofs!Appends
  <2>3. UNCHANGED << v1, v3, v4, v5, v6, v8, v9, v10, v11, v12 >>
    BY DEF Proofs!StartSmoke, Proofs!DryRun, Proofs!TakeAnswer,
       Proofs!ReadTail, Proofs!Die, Proofs!fileVars, Proofs!indexVars
  <2> QED BY <2>1, <2>2, <2>3 DEF Proofs!ProofInv
<1>2. Proofs!DeedsInv' /\ Remembered
  BY <1>1, NothingDone
<1>3. ASSUME NEW s \in Proofs!Smokes, Proofs!Step(o, s), Proofs!Sound(s)'
      PROVE  Proofs!ProofInv'
  <2>1. Proofs!SmokeInv' /\ v7' \in [Operators -> Proofs!Smokes]
    BY <1>1, <1>2, <1>3, SmokesStand DEF Proofs!Step
  <2>2. Proofs!FilesInv' /\ Proofs!RefreshInv'
    BY <1>1, <1>2, FilesStand, RefreshStands
  <2>3. Proofs!TypeInv'
    BY <1>1, <2>1 DEF Proofs!TypeInv
  <2> QED BY <1>2, <2>1, <2>2, <2>3 DEF Proofs!ProofInv
<1>4. PICK p \in Proofs!Smokes : p = v7[o] /\ Proofs!Sound(p)
  BY <1>1 DEF Proofs!TypeInv, Proofs!SmokeInv, Proofs!Sound
<1>5. ASSUME NEW s, \/ s = Proofs!Resting
                    \/ \E d \in Dirs \cup {NoFile} : s = [Proofs!Resting EXCEPT !.at = "report", !.dir = d]
      PROVE  s \in Proofs!Smokes /\ Proofs!Sound(s)'
  <2>1. s \in Proofs!Smokes /\ s.at \in {"idle", "report"} /\ s.ready = FALSE
    <3>1. /\ Proofs!Resting \in Proofs!Smokes /\ Proofs!Resting.at = "idle"
          /\ Proofs!Resting.ready = FALSE
      BY DEF Proofs!Smokes, Proofs!Resting
    <3>2. ASSUME NEW r \in Proofs!Smokes, NEW d \in Dirs \cup {NoFile}, r.ready = FALSE,
                 s = [r EXCEPT !.at = "report", !.dir = d]
          PROVE  s \in Proofs!Smokes /\ s.at = "report" /\ s.ready = FALSE
      BY <3>2 DEF Proofs!Smokes
    <3> QED BY <1>5, <3>1, <3>2
  <2> QED BY <2>1 DEF Proofs!Sound
<1>6. ASSUME Proofs!Step(o, Proofs!Failed(o))
      PROVE  Proofs!ProofInv'
  <2>1. PICK s : s = Proofs!Failed(o)
    OBVIOUS
  <2>2. p.dir \in Dirs \cup {NoFile}
    BY DEF Proofs!Smokes
  <2> QED BY <1>3, <1>4, <1>5, <1>6, <2>1, <2>2 DEF Proofs!Failed
<1>7. ASSUME NEW d \in Dirs, NEW c \in Proofs!Controls, Proofs!StartSmoke(o, d, c)
      PROVE  Proofs!ProofInv'
  <2>1. PICK s : /\ Proofs!Step(o, s)
                 /\ \/ s = [Proofs!Resting EXCEPT !.at = "dry", !.dir = d, !.control = c]
                    \/ s = [Proofs!Resting EXCEPT !.at = "report", !.dir = d]
    BY <1>7 DEF Proofs!StartSmoke
  <2>2. CASE s = [Proofs!Resting EXCEPT !.at = "dry", !.dir = d, !.control = c]
    <3>1. s \in Proofs!Smokes /\ s.at = "dry" /\ s.ready = FALSE /\ s.control = c
      BY <2>2 DEF Proofs!Smokes, Proofs!Resting
    <3> QED BY <1>3, <2>1, <3>1 DEF Proofs!Sound
  <2> QED BY <1>3, <1>5, <2>1, <2>2
<1>8. CASE Proofs!DryRun(o)
  <2>1. p.at = "dry"
        /\ (Proofs!Step(o, [p EXCEPT !.at = "live", !.dry = v2']) \/ Proofs!Step(o, Proofs!Failed(o)))
    BY <1>4, <1>8 DEF Proofs!DryRun
  <2>2. PICK s : s = [p EXCEPT !.at = "live", !.dry = v2']
    OBVIOUS
  <2>3. /\ s \in Proofs!Smokes /\ s.at = "live" /\ s.ready = p.ready
        /\ s.control = p.control
    BY <1>1, <2>2 DEF Proofs!Smokes
  <2>4. Proofs!Sound(s)'
    BY <1>4, <2>1, <2>3 DEF Proofs!Sound
  <2> QED BY <1>3, <1>6, <2>1, <2>2, <2>3, <2>4
<1>9. CASE Proofs!TakeAnswer(o)
  <2>1. PICK i \in DOMAIN v3 :
          /\ v3[i].approval = p.dry /\ p.at = "answer"
          /\ \/ Proofs!ValidLive(v3[i]) /\ Proofs!Step(o, [p EXCEPT !.at = "tail", !.observed = v1])
             \/ Proofs!Step(o, Proofs!Failed(o))
    BY <1>4, <1>9 DEF Proofs!TakeAnswer
  <2>2. PICK s : s = [p EXCEPT !.at = "tail", !.observed = v1]
    OBVIOUS
  <2>3. /\ s \in Proofs!Smokes /\ s.at = "tail" /\ s.ready = p.ready
        /\ s.control = p.control /\ s.dry = p.dry /\ s.observed = v1
    BY <1>1, <2>2 DEF Proofs!Smokes, Proofs!TypeInv
  <2>4. ASSUME Proofs!ValidLive(v3[i])
        PROVE  Proofs!Sound(s)'
    <3>1. v3[i].control = p.control /\ p.control \in Proofs!Controls /\ ~p.ready
      BY <1>1, <1>4, <2>1 DEF Proofs!Sound, Proofs!Answered, Proofs!Under, Proofs!DeedsInv
    <3>2. Proofs!Proven(p.dry, p.control)
      BY <2>1, <2>4, <3>1 DEF Proofs!Proven, Proofs!Under
    <3>3. ~(v4[p.control.thread].at > v1)
      BY <1>1, <3>1 DEF Proofs!TypeInv, Proofs!Controls
    <3>4. Proofs!Timely(p.dry, p.control.thread, v1)
      BY <3>3 DEF Proofs!Timely
    <3>5. Proofs!Sound(s)
      BY <2>3, <3>1, <3>2, <3>4 DEF Proofs!Sound
    <3> QED BY <1>2, <2>3, <3>5, ReportsStand
  <2> QED BY <1>3, <1>6, <2>1, <2>2, <2>3, <2>4
<1>10. CASE Proofs!ReadTail(o)
  <2>1. p.at = "tail"
        /\ (Proofs!Step(o, [p EXCEPT !.at = "report", !.ready = TRUE]) \/ Proofs!Step(o, Proofs!Failed(o)))
    BY <1>4, <1>10 DEF Proofs!ReadTail
  <2>2. PICK s : s = [p EXCEPT !.at = "report", !.ready = TRUE]
    OBVIOUS
  <2>3. /\ s \in Proofs!Smokes /\ s.at = "report" /\ s.control = p.control
        /\ s.dry = p.dry /\ s.observed = p.observed
    BY <2>2 DEF Proofs!Smokes
  <2>4. Proofs!Sound(s)
    BY <1>4, <2>1, <2>3 DEF Proofs!Sound
  <2>5. Proofs!Sound(s)'
    BY <1>2, <2>3, <2>4, ReportsStand
  <2> QED BY <1>3, <1>6, <2>1, <2>2, <2>3, <2>5
<1>11. CASE Proofs!Die(o)
  <2>1. PICK s : s = Proofs!Resting
    OBVIOUS
  <2> QED BY <1>3, <1>5, <1>11, <2>1 DEF Proofs!Die
<1> QED BY <1>7, <1>8, <1>9, <1>10, <1>11
\* The control itself.
LEMMA ControlKept ==
  ASSUME Proofs!ProofInv, NEW o \in Operators, Proofs!Live(o)
  PROVE  Proofs!ProofInv'
<1>1. /\ Proofs!TypeInv /\ Proofs!DeedsInv /\ Proofs!SmokeInv /\ Proofs!FilesInv
      /\ Proofs!RefreshInv
      /\ UNCHANGED << v1, v4, v5, v8, v9, v10, v11, v12 >>
  BY DEF Proofs!ProofInv, Proofs!Live, Proofs!fileVars, Proofs!indexVars
<1>2. PICK p \in Proofs!Smokes : p = v7[o] /\ Proofs!Sound(p)
  BY <1>1 DEF Proofs!TypeInv, Proofs!SmokeInv, Proofs!Sound
<1>3. p.at = "live" /\ p.control \in Proofs!Controls /\ p.dry \in Nat /\ ~p.ready
  BY <1>2 DEF Proofs!Live, Proofs!Sound, Proofs!Smokes
<1>4. PICK failed : failed = Proofs!Failed(o)
  OBVIOUS
<1>5. /\ failed \in Proofs!Smokes /\ failed.at = "report" /\ failed.ready = FALSE
  <2>1. p.dir \in Dirs \cup {NoFile}
    BY DEF Proofs!Smokes
  <2>2. Proofs!Resting \in Proofs!Smokes /\ Proofs!Resting.ready = FALSE
    BY DEF Proofs!Smokes, Proofs!Resting
  <2>3. ASSUME NEW r \in Proofs!Smokes, r.ready = FALSE,
               failed = [r EXCEPT !.at = "report", !.dir = p.dir]
        PROVE  failed \in Proofs!Smokes /\ failed.at = "report" /\ failed.ready = FALSE
    BY <2>1, <2>3 DEF Proofs!Smokes
  <2> QED BY <1>2, <1>4, <2>2, <2>3 DEF Proofs!Failed
<1>6. v2 \in Nat /\ v2' \in Nat
  <2>1. v2 \in Nat
    BY <1>1 DEF Proofs!TypeInv
  <2>2. v2' = v2 \/ v2' = v2 + 1
    BY DEF Proofs!Live, Proofs!Appends
  <2> QED BY <2>1, <2>2
<1>7. PICK answered : answered = [p EXCEPT !.at = "answer", !.live = v2']
  OBVIOUS
<1>8. /\ answered \in Proofs!Smokes /\ answered.at = "answer" /\ answered.ready = p.ready
      /\ answered.control = p.control /\ answered.dry = p.dry
  BY <1>6, <1>7 DEF Proofs!Smokes
<1>9. Proofs!Sound(failed)'
  BY <1>5 DEF Proofs!Sound
<1>10. ASSUME NEW s \in Proofs!Smokes, Proofs!Step(o, s), Proofs!Sound(s)',
              v3' \in Seq(Proofs!Deeds), Proofs!DeedsInv', Remembered
       PROVE  Proofs!ProofInv'
  <2>1. Proofs!SmokeInv' /\ v7' \in [Operators -> Proofs!Smokes]
    BY <1>1, <1>10, SmokesStand DEF Proofs!Step
  <2>2. Proofs!FilesInv' /\ Proofs!RefreshInv'
    BY <1>1, <1>10, FilesStand, RefreshStands
  <2>3. Proofs!TypeInv'
    BY <1>1, <1>6, <1>10, <2>1 DEF Proofs!TypeInv
  <2> QED BY <1>10, <2>1, <2>2, <2>3 DEF Proofs!ProofInv
<1>11. ASSUME NEW done \in BOOLEAN, Proofs!GatePerforms(p.control, p.dry, done),
              Proofs!Step(o, answered) \/ Proofs!Step(o, failed)
       PROVE  Proofs!ProofInv'
  <2>1. /\ v3' \in Seq(Proofs!Deeds) /\ Proofs!DeedsInv' /\ Remembered
        /\ \E i \in Proofs!Under(p.dry)' : v3'[i].control = p.control
    BY <1>1, <1>3, <1>11, DeedsStand
  <2>2. Proofs!Sound(answered)'
    BY <1>3, <1>8, <2>1 DEF Proofs!Sound, Proofs!Answered
  <2> QED BY <1>5, <1>8, <1>9, <1>10, <1>11, <2>1, <2>2
<1>12. ASSUME UNCHANGED << v2, v3, v6 >>, Proofs!Step(o, failed)
       PROVE  Proofs!ProofInv'
  <2>1. Proofs!DeedsInv' /\ Remembered /\ v3' \in Seq(Proofs!Deeds)
    BY <1>1, <1>12, NothingDone DEF Proofs!TypeInv
  <2> QED BY <1>5, <1>9, <1>10, <1>12, <2>1
<1> QED BY <1>2, <1>4, <1>7, <1>11, <1>12 DEF Proofs!Live

\* A smoke that drives the gate in its own process leaves one file.
LEMMA DirectKept ==
  ASSUME Proofs!ProofInv, NEW t \in Sacrificed, Proofs!DirectSmoke(t)
  PROVE  Proofs!ProofInv'
<1> DEFINE control == [action |-> "send", thread |-> t]
<1>1. /\ Proofs!TypeInv /\ Proofs!DeedsInv /\ Proofs!SmokeInv /\ Proofs!FilesInv
      /\ Proofs!RefreshInv
      /\ UNCHANGED << v1, v4, v5, v7, v8, v9, v10, v12 >>
  BY DEF Proofs!ProofInv, Proofs!DirectSmoke, Proofs!indexVars
<1>2. v2 \in Nat /\ v2' \in Nat
  BY <1>1 DEF Proofs!TypeInv, Proofs!DirectSmoke, Proofs!Appends
<1>a. PICK id \in Nat : id = v2 + 1
  BY <1>2
<1>3. PICK done \in BOOLEAN :
        /\ Proofs!GatePerforms(control, id, done)
        /\ \/ v11' = v11
           \/ v11' = IF done THEN [ready |-> TRUE, control |-> control, approval |-> id]
                     ELSE Proofs!NotReady
  BY <1>a DEF Proofs!DirectSmoke
<1>4. control \in Proofs!Controls /\ control.action = "send"
  BY SmokesAreTold DEF Proofs!Controls
<1> HIDE DEF control
<1>5. /\ v3' \in Seq(Proofs!Deeds) /\ Proofs!DeedsInv' /\ Remembered
      /\ \E i \in Proofs!Under(id)' : v3'[i].control = control /\ v3'[i].done = done
  BY <1>1, <1>2, <1>3, <1>4, DeedsStand
<1>6. ASSUME done
      PROVE  Proofs!Proven(id, control)'
  <2>1. PICK i \in Proofs!Under(id)' : v3'[i].control = control /\ v3'[i].done
    BY <1>5, <1>6
  <2> QED BY <2>1 DEF Proofs!Proven, Proofs!ValidLive
<1>7. ASSUME NEW a, NEW c, v11' # v11, v11'.ready, a = v11'.approval, c = v11'.control
      PROVE  Proofs!Proven(a, c)'
  <2>1. done
    <3>1. ~Proofs!NotReady.ready
      BY DEF Proofs!NotReady
    <3> QED BY <1>3, <1>7, <3>1
  <2>2. a = id /\ c = control
    BY <1>3, <1>7, <2>1
  <2> QED BY <1>6, <2>1, <2>2
<1>8. v11' = v11 \/ (v11.ready => Proofs!Proven(v11.approval, v11.control))'
  BY <1>7 DEF Proofs!Proven
<1>9. v11' \in [ready : {TRUE}, control : Proofs!Controls, approval : Nat] \cup {Proofs!NotReady}
  <2>1. [ready |-> TRUE, control |-> control, approval |-> id]
          \in [ready : {TRUE}, control : Proofs!Controls, approval : Nat]
    BY <1>4
  <2>2. v11 \in [ready : {TRUE}, control : Proofs!Controls, approval : Nat] \cup {Proofs!NotReady}
    BY <1>1 DEF Proofs!TypeInv
  <2> QED BY <1>3, <2>1, <2>2
<1>10. Proofs!SmokeInv' /\ Proofs!FilesInv' /\ Proofs!RefreshInv'
  BY <1>1, <1>5, <1>8, SmokesRest, FilesStand, RefreshStands
<1>11. Proofs!TypeInv'
  BY <1>1, <1>2, <1>5, <1>9 DEF Proofs!TypeInv, Proofs!GatePerforms
<1> QED BY <1>5, <1>10, <1>11 DEF Proofs!ProofInv
\* The two files of a smoke say what it knows.
LEMMA SmokeWrites ==
  ASSUME Proofs!ProofInv, NEW o \in Operators, Proofs!WriteReport(o) \/ Proofs!WriteProof(o)
  PROVE  Proofs!ProofInv'
<1>1. /\ Proofs!TypeInv /\ Proofs!DeedsInv /\ Proofs!SmokeInv /\ Proofs!FilesInv
      /\ Proofs!RefreshInv
      /\ UNCHANGED << v1, v2, v3, v4, v5, v6, v10, v11, v12 >>
  BY DEF Proofs!ProofInv, Proofs!WriteReport, Proofs!WriteProof, Proofs!indexVars
<1>2. Proofs!DeedsInv' /\ Remembered
  BY <1>1, NothingDone
<1>3. PICK p \in Proofs!Smokes : p = v7[o] /\ Proofs!Sound(p)
  BY <1>1 DEF Proofs!TypeInv, Proofs!SmokeInv, Proofs!Sound
<1>4. p.dry \in Nat /\ p.observed \in Nat
  BY DEF Proofs!Smokes
<1>5. CASE Proofs!WriteReport(o)
  <2>1. PICK f : /\ f = IF ~p.ready THEN Proofs!NotReady
                        ELSE [ready |-> TRUE, control |-> p.control, approval |-> p.dry,
                              observed |-> p.observed]
                 /\ v8' = [v8 EXCEPT ![p.dir] = f] /\ v9' = v9
    BY <1>3, <1>5 DEF Proofs!WriteReport
  <2>2. f = Proofs!NotReady \/ (f \in Proofs!Reports /\ Proofs!Reported(f))
    <3>1. ASSUME p.ready
          PROVE  f \in Proofs!Reports /\ Proofs!Reported(f)
      <4>1. p.control \in Proofs!Controls /\ Proofs!Proven(p.dry, p.control)
            /\ Proofs!Timely(p.dry, p.control.thread, p.observed)
        BY <1>3, <3>1 DEF Proofs!Sound
      <4>2. /\ f \in Proofs!Reports /\ f.approval = p.dry /\ f.control = p.control
            /\ f.observed = p.observed
        BY <1>4, <2>1, <3>1, <4>1 DEF Proofs!Reports
      <4> QED BY <4>1, <4>2 DEF Proofs!Reported
    <3> QED BY <2>1, <3>1
  <2>3. f.ready => Proofs!Reported(f)'
    <3>1. ~Proofs!NotReady.ready
      BY DEF Proofs!NotReady
    <3> QED BY <1>2, <2>2, <3>1, ReportsStand
  <2>4. /\ v8 \in [Dirs -> Proofs!Reports \cup {Proofs!NotReady}]
        /\ v8' \in [Dirs -> Proofs!Reports \cup {Proofs!NotReady}]
        /\ \A d \in Dirs : v8'[d] = v8[d] \/ v8'[d] = f
    <3>1. v8 \in [Dirs -> Proofs!Reports \cup {Proofs!NotReady}]
      BY <1>1 DEF Proofs!TypeInv
    <3> QED BY <2>1, <2>2, <3>1
  <2>5. \A d \in Dirs : v8'[d] = v8[d] \/ (v8[d].ready => Proofs!Reported(v8[d]))'
    BY <2>3, <2>4 DEF Proofs!Reported
  <2>6. Proofs!FilesInv' /\ Proofs!RefreshInv'
    BY <1>1, <1>2, <2>1, <2>5, FilesStand, RefreshStands
  <2>7. PICK s : s = [p EXCEPT !.at = "proof"]
    OBVIOUS
  <2>8. /\ s \in Proofs!Smokes /\ s.at = "proof" /\ s.ready = p.ready /\ s.control = p.control
        /\ s.dry = p.dry /\ s.observed = p.observed
    BY <2>7 DEF Proofs!Smokes
  <2>9. Proofs!Sound(s)
    BY <1>3, <2>8 DEF Proofs!Sound
  <2>10. v7' = [v7 EXCEPT ![o] = s]
    BY <1>3, <1>5, <2>7 DEF Proofs!WriteReport, Proofs!Step
  <2>11. Proofs!SmokeInv' /\ v7' \in [Operators -> Proofs!Smokes]
    BY <1>1, <1>2, <2>8, <2>9, <2>10, ReportsStand, SmokesStand
  <2>12. Proofs!TypeInv'
    BY <1>1, <2>1, <2>4, <2>11 DEF Proofs!TypeInv
  <2> QED BY <1>2, <2>6, <2>11, <2>12 DEF Proofs!ProofInv
<1>6. CASE Proofs!WriteProof(o)
  <2>1. PICK f : /\ f = IF p.ready THEN [ready |-> TRUE, approval |-> p.dry] ELSE Proofs!NotReady
                 /\ v9' = [v9 EXCEPT ![p.dir] = f] /\ v8' = v8
    BY <1>3, <1>6 DEF Proofs!WriteProof
  <2>2. f = Proofs!NotReady \/ (p.ready /\ f = [ready |-> TRUE, approval |-> p.dry])
    BY <2>1
  <2>3. f \in [ready : {TRUE}, approval : Nat] \cup {Proofs!NotReady}
    <3>1. [ready |-> TRUE, approval |-> p.dry] \in [ready : {TRUE}, approval : Nat]
      BY <1>4
    <3> QED BY <2>2, <3>1
  <2>4. ASSUME NEW id, f.ready, id = f.approval
        PROVE  \E c \in Proofs!Controls : Proofs!Proven(id, c)'
    <3>1. p.ready /\ id = p.dry
      <4>1. ~Proofs!NotReady.ready
        BY DEF Proofs!NotReady
      <4> QED BY <2>2, <2>4, <4>1
    <3>2. p.control \in Proofs!Controls /\ Proofs!Proven(id, p.control)
      BY <1>3, <3>1 DEF Proofs!Sound
    <3> QED BY <1>2, <1>4, <3>1, <3>2 DEF Remembered
  <2>5. /\ v9' \in [Dirs -> [ready : {TRUE}, approval : Nat] \cup {Proofs!NotReady}]
        /\ \A d \in Dirs : v9'[d] = v9[d] \/ v9'[d] = f
    <3>1. v9 \in [Dirs -> [ready : {TRUE}, approval : Nat] \cup {Proofs!NotReady}]
      BY <1>1 DEF Proofs!TypeInv
    <3> QED BY <2>1, <2>3, <3>1
  <2>6. \A d \in Dirs : v9'[d] = v9[d]
           \/ (v9[d].ready => \E c \in Proofs!Controls : Proofs!Proven(v9[d].approval, c))'
    BY <2>4, <2>5 DEF Proofs!Proven
  <2>7. Proofs!FilesInv' /\ Proofs!RefreshInv'
    BY <1>1, <1>2, <2>1, <2>6, FilesStand, RefreshStands
  <2>8. PICK s : s = Proofs!Resting
    OBVIOUS
  <2>9. s \in Proofs!Smokes /\ s.at = "idle" /\ s.ready = FALSE
    BY <2>8 DEF Proofs!Smokes, Proofs!Resting
  <2>10. Proofs!Sound(s)'
    BY <2>9 DEF Proofs!Sound
  <2>11. v7' = [v7 EXCEPT ![o] = s]
    BY <1>6, <2>8 DEF Proofs!WriteProof, Proofs!Step
  <2>12. Proofs!SmokeInv' /\ v7' \in [Operators -> Proofs!Smokes]
    BY <1>1, <1>2, <2>9, <2>10, <2>11, SmokesStand
  <2>13. Proofs!TypeInv'
    BY <1>1, <2>1, <2>5, <2>12 DEF Proofs!TypeInv
  <2> QED BY <1>2, <2>7, <2>12, <2>13 DEF Proofs!ProofInv
<1> QED BY <1>5, <1>6

\* The index, other users of the gate and the clock.
LEMMA IndexKept ==
  ASSUME Proofs!ProofInv,
         \/ \E t \in Sacrificed : Proofs!IndexReads(t) \/ Proofs!IndexStores(t)
         \/ Proofs!OthersDryRun \/ Proofs!TimePasses \/ UNCHANGED Proofs!vars
  PROVE  Proofs!ProofInv'
<1>1. /\ Proofs!TypeInv /\ Proofs!DeedsInv /\ Proofs!SmokeInv /\ Proofs!FilesInv
      /\ Proofs!RefreshInv
      /\ UNCHANGED << v3, v6, v7, v8, v9, v10, v11, v12 >>
  BY DEF Proofs!ProofInv, Proofs!IndexReads, Proofs!IndexStores, Proofs!OthersDryRun,
     Proofs!TimePasses, Proofs!vars, Proofs!fileVars
<1>2. /\ v1 \in Nat /\ v2 \in Nat /\ v4 \in [Sacrificed -> [at : 0 .. v1, shows : Nat]]
      /\ v5 \in [Sacrificed -> Nat \cup {NoFile}]
  BY <1>1 DEF Proofs!TypeInv
<1>3. ASSUME v1' \in Nat, v2' \in Nat, v4' \in [Sacrificed -> [at : 0 .. v1', shows : Nat]],
             v5' \in [Sacrificed -> Nat \cup {NoFile}], Proofs!DeedsInv', Remembered
      PROVE  Proofs!ProofInv'
  <2>1. Proofs!SmokeInv' /\ Proofs!FilesInv' /\ Proofs!RefreshInv'
    BY <1>1, <1>3, SmokesRest, FilesStand, RefreshStands
  <2>2. Proofs!TypeInv'
    BY <1>1, <1>3 DEF Proofs!TypeInv
  <2> QED BY <1>3, <2>1, <2>2 DEF Proofs!ProofInv
<1>4. ASSUME NEW t \in Sacrificed, Proofs!IndexReads(t)
      PROVE  Proofs!ProofInv'
  <2>1. v1' = v1 /\ v2' = v2 /\ v4' = v4
    BY <1>4 DEF Proofs!IndexReads
  <2>2. v4' \in [Sacrificed -> [at : 0 .. v1', shows : Nat]]
    BY <1>2, <2>1
  <2> QED BY <1>1, <1>2, <1>3, <1>4, <2>1, <2>2, ReadingIsWhole
<1>5. ASSUME NEW t \in Sacrificed, Proofs!IndexStores(t)
      PROVE  Proofs!ProofInv'
  <2>1. v1' = v1 /\ v2' = v2
    BY <1>5 DEF Proofs!IndexStores
  <2>2. v4' \in [Sacrificed -> [at : 0 .. v1', shows : Nat]]
    BY <1>1, <1>5, <2>1, StoringIsTimely
  <2> QED BY <1>1, <1>2, <1>3, <1>5, <2>1, <2>2, StoringIsTimely
<1>6. CASE Proofs!OthersDryRun \/ Proofs!TimePasses \/ UNCHANGED Proofs!vars
  <2>1. v4' = v4 /\ v5' = v5 /\ (v1' = v1 \/ v1' = v1 + 1) /\ (v2' = v2 \/ v2' = v2 + 1)
    BY <1>6 DEF Proofs!OthersDryRun, Proofs!TimePasses, Proofs!vars, Proofs!Appends,
       Proofs!indexVars
  <2>2. v1' \in Nat /\ v2' \in Nat /\ 0 .. v1 \subseteq 0 .. v1'
    BY <1>2, <2>1
  <2>3. v4' \in [Sacrificed -> [at : 0 .. v1', shows : Nat]]
    BY <1>2, <2>1, <2>2
  <2> QED BY <1>1, <1>2, <1>3, <2>1, <2>2, <2>3, NothingDone
<1> QED BY <1>4, <1>5, <1>6
\* The refresh smoke.
LEMMA RefreshKept ==
  ASSUME Proofs!ProofInv,
         \/ \E d \in Dirs, t \in Sacrificed : Proofs!StartRefresh(d, t)
         \/ Proofs!AskIndex \/ Proofs!WriteRefresh
  PROVE  Proofs!ProofInv'
<1>1. /\ Proofs!TypeInv /\ Proofs!DeedsInv /\ Proofs!SmokeInv /\ Proofs!FilesInv
      /\ Proofs!RefreshInv
      /\ UNCHANGED << v1, v2, v3, v4, v5, v6, v7, v8, v9, v11 >>
  BY DEF Proofs!ProofInv, Proofs!StartRefresh, Proofs!AskIndex, Proofs!WriteRefresh,
     Proofs!indexVars, Proofs!fileVars
<1>2. Proofs!DeedsInv' /\ Remembered
  BY <1>1, NothingDone
<1> DEFINE States == [at : {"idle", "ask", "write"}, dir : Dirs \cup {NoFile},
                      report : Proofs!Reports \cup {NoFile}, shows : Nat \cup {NoFile}]
           Known(r) == /\ r.at = "ask" => r.report # NoFile /\ Proofs!Reported(r.report)'
                       /\ r.at = "write" /\ r.report # NoFile =>
                            r.shows # NoFile /\ Proofs!Refreshed(r.report, r.shows)'
<1>3. v12 \in States /\ Proofs!Waiting \in States
  BY <1>1 DEF Proofs!TypeInv, Proofs!Waiting
<1>4. ASSUME NEW r \in States, v12' = r, Known(r), v10' = v10
      PROVE  Proofs!ProofInv'
  <2>1. Proofs!SmokeInv' /\ Proofs!FilesInv'
    BY <1>1, <1>2, <1>4, SmokesRest, FilesStand
  <2>2. Proofs!RefreshInv'
    BY <1>4 DEF Proofs!RefreshInv, Proofs!Reported, Proofs!Refreshed
  <2>3. Proofs!TypeInv'
    BY <1>1, <1>4 DEF Proofs!TypeInv
  <2> QED BY <1>2, <2>1, <2>2, <2>3 DEF Proofs!ProofInv
<1> HIDE DEF States
<1>5. ASSUME NEW d \in Dirs, NEW t \in Sacrificed, Proofs!StartRefresh(d, t)
      PROVE  Proofs!ProofInv'
  <2>1. PICK f : f = v8[d]
    OBVIOUS
  <2>2. PICK r : /\ v12' = r
                 /\ \/ /\ f.ready /\ r = [Proofs!Waiting EXCEPT !.at = "ask", !.dir = d, !.report = f]
                    \/ r = [Proofs!Waiting EXCEPT !.at = "write", !.dir = d]
    BY <1>5, <2>1 DEF Proofs!StartRefresh
  <2>3. v10' = v10
    BY <1>5 DEF Proofs!StartRefresh, Proofs!fileVars
  <2>4. CASE f.ready /\ r = [Proofs!Waiting EXCEPT !.at = "ask", !.dir = d, !.report = f]
    <3>1. f \in Proofs!Reports /\ Proofs!Reported(f)
      BY <1>1, <2>1, <2>4 DEF Proofs!TypeInv, Proofs!FilesInv, Proofs!NotReady, Proofs!Reported
    <3>2. r \in States /\ r.at = "ask" /\ r.report = f
      BY <1>3, <2>4, <3>1 DEF States
    <3>3. f # NoFile
      BY <3>1, SmokesAreTold
    <3>4. Proofs!Reported(f)'
      BY <1>2, <3>1, ReportsStand
    <3>5. Known(r)
      BY <3>2, <3>3, <3>4
    <3> QED BY <1>4, <2>2, <2>3, <3>2, <3>5
  <2>5. CASE r = [Proofs!Waiting EXCEPT !.at = "write", !.dir = d]
    <3>1. r \in States /\ r.at = "write" /\ r.report = NoFile
      <4>1. Proofs!Waiting.report = NoFile
        BY DEF Proofs!Waiting
      <4> QED BY <1>3, <2>5, <4>1 DEF States
    <3>2. Known(r)
      BY <3>1
    <3> QED BY <1>4, <2>2, <2>3, <3>1, <3>2
  <2> QED BY <2>2, <2>4, <2>5
<1>6. CASE Proofs!AskIndex
  <2>1. PICK p, f, row : p = v12 /\ f = p.report /\ row = v4[f.control.thread]
    OBVIOUS
  <2>a. p \in States
    BY <1>3, <2>1
  <2>2. PICK r : /\ v12' = r
                 /\ \/ /\ row.at > f.observed
                       /\ r = [p EXCEPT !.at = "write", !.shows = row.shows]
                    \/ r = [Proofs!Waiting EXCEPT !.at = "write", !.dir = p.dir]
    BY <1>6, <2>1 DEF Proofs!AskIndex, Proofs!TimestampAfter
  <2>3. v10' = v10 /\ p.at = "ask"
    BY <1>6, <2>1 DEF Proofs!AskIndex, Proofs!fileVars
  <2>4. f \in Proofs!Reports /\ Proofs!Reported(f)
    BY <1>1, <2>a, <2>1, <2>3 DEF Proofs!RefreshInv, Proofs!Reported, States
  <2>5. f.control.thread \in Sacrificed /\ row.shows \in Nat
    <3>1. f.control.thread \in Sacrificed
      BY <2>4 DEF Proofs!Reports, Proofs!Controls
    <3> QED BY <1>1, <2>1, <3>1 DEF Proofs!TypeInv
  <2>6. CASE row.at > f.observed /\ r = [p EXCEPT !.at = "write", !.shows = row.shows]
    <3>1. r \in States /\ r.at = "write" /\ r.report = f /\ r.shows = row.shows
      BY <2>a, <2>1, <2>5, <2>6 DEF States
    <3>2. Proofs!Refreshed(f, row.shows)
      BY <2>1, <2>4, <2>6 DEF Proofs!Reported, Proofs!Timely, Proofs!Refreshed
    <3>3. Proofs!Refreshed(f, row.shows)' /\ row.shows # NoFile
      BY <1>2, <2>4, <2>5, <3>2, ReportsStand, SmokesAreTold
    <3>4. Known(r)
      BY <3>1, <3>3
    <3> QED BY <1>4, <2>2, <2>3, <3>1, <3>4
  <2>7. CASE r = [Proofs!Waiting EXCEPT !.at = "write", !.dir = p.dir]
    <3>1. r \in States /\ r.at = "write" /\ r.report = NoFile
      <4>1. Proofs!Waiting.report = NoFile
        BY DEF Proofs!Waiting
      <4> QED BY <1>3, <2>a, <2>7, <4>1 DEF States
    <3>2. Known(r)
      BY <3>1
    <3> QED BY <1>4, <2>2, <2>3, <3>1, <3>2
  <2> QED BY <2>2, <2>6, <2>7
<1>7. CASE Proofs!WriteRefresh
  <2>1. PICK p, f :
          /\ p = v12 /\ p.at = "write"
          /\ f = IF p.report = NoFile THEN Proofs!NotReady
                 ELSE [ready |-> TRUE, report |-> p.report, shows |-> p.shows]
          /\ v10' = [v10 EXCEPT ![p.dir] = f]
    BY <1>7 DEF Proofs!WriteRefresh
  <2>a. p \in States
    BY <1>3, <2>1
  <2>2. ASSUME p.report # NoFile
        PROVE  /\ p.report \in Proofs!Reports /\ p.shows \in Nat
               /\ Proofs!Refreshed(p.report, p.shows)
    BY <1>1, <2>a, <2>1, <2>2 DEF Proofs!RefreshInv, Proofs!Refreshed, States
  <2>3. f \in [ready : {TRUE}, report : Proofs!Reports, shows : Nat] \cup {Proofs!NotReady}
    BY <2>1, <2>2
  <2>4. ASSUME NEW report, NEW n, f.ready, report = f.report, n = f.shows
        PROVE  Proofs!Refreshed(report, n)'
    <3>1. p.report # NoFile /\ report = p.report /\ n = p.shows
      <4>1. ~Proofs!NotReady.ready
        BY DEF Proofs!NotReady
      <4> QED BY <2>1, <2>4, <4>1
    <3> QED BY <1>2, <2>2, <3>1, ReportsStand
  <2>5. /\ v10' \in [Dirs -> [ready : {TRUE}, report : Proofs!Reports, shows : Nat]
                             \cup {Proofs!NotReady}]
        /\ \A d \in Dirs : v10'[d] = v10[d] \/ v10'[d] = f
    <3>1. v10 \in [Dirs -> [ready : {TRUE}, report : Proofs!Reports, shows : Nat]
                          \cup {Proofs!NotReady}]
      BY <1>1 DEF Proofs!TypeInv
    <3> QED BY <2>1, <2>3, <3>1
  <2>6. \A d \in Dirs : v10'[d] = v10[d]
          \/ (v10[d].ready => Proofs!Refreshed(v10[d].report, v10[d].shows))'
    BY <2>4, <2>5 DEF Proofs!Refreshed
  <2>7. v12' = Proofs!Waiting /\ Proofs!Waiting.at = "idle"
    BY <1>7 DEF Proofs!WriteRefresh, Proofs!Waiting
  <2>8. Proofs!SmokeInv' /\ Proofs!FilesInv' /\ Proofs!RefreshInv'
    <3>1. Proofs!RefreshInv'
      BY <2>7 DEF Proofs!RefreshInv
    <3> QED BY <1>1, <1>2, <2>6, <3>1, SmokesRest, FilesStand
  <2>9. Proofs!TypeInv'
    BY <1>1, <1>3, <2>5, <2>7 DEF Proofs!TypeInv, States
  <2> QED BY <1>2, <2>8, <2>9 DEF Proofs!ProofInv
<1> QED BY <1>5, <1>6, <1>7

\* Every step keeps the invariant.
LEMMA ProofsKept ==
  ASSUME Proofs!ProofInv, Proofs!Next \/ UNCHANGED Proofs!vars
  PROVE  Proofs!ProofInv'
BY SmokeGoesOn, ControlKept, DirectKept, SmokeWrites, IndexKept, RefreshKept DEF Proofs!Next

\* It holds when nothing was done.
LEMMA ProofsStart ==
  ASSUME Proofs!Init
  PROVE  Proofs!ProofInv
<1>1. Proofs!TypeInv
  <2>1. Proofs!Resting \in Proofs!Smokes
    BY DEF Proofs!Resting, Proofs!Smokes
  <2> QED BY <2>1 DEF Proofs!Init, Proofs!TypeInv, Proofs!Waiting
<1>2. Proofs!DeedsInv /\ Proofs!SmokeInv /\ Proofs!FilesInv /\ Proofs!RefreshInv
  BY DEF Proofs!Init, Proofs!DeedsInv, Proofs!SmokeInv, Proofs!Sound, Proofs!Resting,
     Proofs!FilesInv, Proofs!NotReady, Proofs!RefreshInv, Proofs!Waiting
<1> QED BY <1>1, <1>2 DEF Proofs!ProofInv

\* What is proven of an approval is what there is under it.
LEMMA ProvenIsEarned ==
  ASSUME Proofs!ProofInv, NEW id, NEW c, Proofs!Proven(id, c)
  PROVE  Proofs!Earned(id) /\ \A i \in Proofs!Under(id) : v3[i].control = c
<1>1. PICK i \in Proofs!Under(id) : v3[i].control = c /\ Proofs!ValidLive(v3[i])
  BY DEF Proofs!Proven
<1>2. Proofs!Under(id) = {i}
  BY <1>1 DEF Proofs!ProofInv, Proofs!DeedsInv, Proofs!Under
<1>3. Proofs!Cardinality(Proofs!Under(id)) = 1
  BY <1>2, CountsAlike, FS_Singleton
<1> QED BY <1>1, <1>2, <1>3 DEF Proofs!Earned, Proofs!ValidLive

\* It says that the proofs are earned.
LEMMA ProofsTell ==
  ASSUME Proofs!ProofInv
  PROVE  Proofs!ProofsAreEarned
<1>1. Proofs!TypeInv /\ Proofs!DeedsInv /\ Proofs!FilesInv
  BY DEF Proofs!ProofInv
<1>2. Proofs!RunsAreEarned
  BY <1>1, ProvenIsEarned DEF Proofs!RunsAreEarned, Proofs!FilesInv, Proofs!EarnedFor,
     Proofs!WorkingAppReady, Proofs!Reported, Proofs!Refreshed
<1>3. Proofs!RefreshSawTheDeed
  BY <1>1 DEF Proofs!RefreshSawTheDeed, Proofs!FilesInv, Proofs!Refreshed, Proofs!Shows
<1> QED BY <1>2, <1>3 DEF Proofs!ProofsAreEarned

\* Each file that says a live control ran rests on one that ran once, under the approval
\* and on the thread it names, and a send to its end, for any runs that share their
\* directories; and a proof that the thread was refreshed rests on a text of it that shows
\* the turn, unless an index run stored after the action what it had read before.
\* (packages/cli/src/openclaw-tool-smoke.ts, packages/cli/src/live-control-refresh-proof.ts)
THEOREM LiveProofsAreEarned == HarnessSpec => []ProofsAreEarned
<1> DEFINE I == component = "proofs" => Proofs!ProofInv
<1>1. HarnessInit => I
  BY StartsOfOne, ProofsStart
<1>2. I /\ [HarnessNext]_vars => I'
  BY StepsOfOne, ProofsKept
<1>3. I => ProofsAreEarned
  BY ProofsTell DEF ProofsAreEarned
<1> QED BY <1>1, <1>2, <1>3, PTL DEF HarnessSpec

-----------------------------------------------------------------------------
(* EvidenceChain: the candidate is v1, the reports are v2.                  *)

LEMMA ReportSays ==
  ASSUME NEW n, NEW ready, NEW says, NEW from
  PROVE  LET report == Chain!Report(n, ready, says, from)
         IN  /\ DOMAIN report = { "ready", "says", "rests" }
             /\ report.ready = ready /\ report.says = says
             /\ report.rests = { Chain!Self(n, ready, v1) } \cup Chain!Rests(from)
BY DEF Chain!Report

LEMMA SelfSays ==
  ASSUME NEW n, NEW ready, NEW of
  PROVE  /\ Chain!Self(n, ready, of).name = n /\ Chain!Self(n, ready, of).ready = ready
         /\ n \in Chain!Bound => Chain!Self(n, ready, of).of = of
BY DEF Chain!Self

LEMMA RestsAreTheirs ==
  ASSUME NEW from
  PROVE  /\ \A r \in Chain!Rests(from) : \E m \in from : Chain!Is(m) /\ r \in v2[m].rests
         /\ \A m \in from : Chain!Is(m) => v2[m].rests \subseteq Chain!Rests(from)
BY DEF Chain!Rests, Chain!Is

\* What a report says besides, and what it is for all that.
LEMMA WithSays ==
  ASSUME NEW report, DOMAIN report = { "ready", "says", "rests" }, NEW more
  PROVE  LET with == Chain!With(report, more)
         IN  /\ with.ready = report.ready /\ with.says = report.says
             /\ with.rests = report.rests
             /\ \A f \in DOMAIN more : f \notin { "ready", "says", "rests" } => with[f] = more[f]
BY DEF Chain!With

\* A report that is made as it should be.
LEMMA ChainMade ==
  ASSUME Chain!ChainInv, NEW n \in Chain!Names, NEW report, Chain!Make(n, report),
         Chain!Told(n, report)
  PROVE  Chain!ChainInv'
<1>1. /\ v1' = v1 /\ v2' = [v2 EXCEPT ![n] = report] /\ v1 \in Nat
      /\ v2 = [m \in Chain!Names |-> v2[m]]
      /\ \A m \in Chain!Names : Chain!Is(m) => Chain!Told(m, v2[m])
  BY DEF Chain!Make, Chain!ChainInv
<1>2. v2' = [m \in Chain!Names |-> v2'[m]]
  BY <1>1
<1>3. ASSUME NEW m \in Chain!Names, Chain!Is(m)'
      PROVE  Chain!Told(m, v2[m])'
  <2>1. CASE m = n
    <3>1. v2'[m] = report
      BY <1>1, <2>1
    <3> QED BY <1>1, <2>1, <3>1 DEF Chain!Told, Chain!RestsOn, Chain!BothApart
  <2>2. CASE m # n
    <3>1. v2'[m] = v2[m]
      BY <1>1, <2>2
    <3>2. Chain!Told(m, v2[m])
      BY <1>1, <1>3, <3>1 DEF Chain!Is
    <3> QED BY <1>1, <3>1, <3>2 DEF Chain!Told, Chain!RestsOn, Chain!BothApart
  <2> QED BY <2>1, <2>2
<1> QED BY <1>1, <1>2, <1>3 DEF Chain!ChainInv

\* The reports of what was run.
LEMMA ChainRunsKept ==
  ASSUME Chain!ChainInv, NEW ready \in BOOLEAN,
         \/ Chain!ToolSmoke(ready) \/ Chain!Workflow(ready) \/ Chain!Finalization(ready)
         \/ \E says \in { v1, NoSha } : Chain!Readiness(ready, says)
  PROVE  Chain!ChainInv'
<1>1. PICK n \in { "smoke", "workflow", "finalization", "readiness" }, says \in { v1, NoSha } :
        /\ n \in { "workflow", "finalization" } => says = v1
        /\ Chain!Make(n, Chain!Report(n, ready, says, {}))
  BY DEF Chain!ToolSmoke, Chain!Workflow, Chain!Finalization, Chain!Readiness
<1>2. PICK report : report = Chain!Report(n, ready, says, {})
  OBVIOUS
<1>3. report.ready = ready /\ report.says = says /\ report.rests = { Chain!Self(n, ready, v1) }
  BY <1>2, ReportSays DEF Chain!Rests
<1>4. /\ Chain!Self(n, ready, v1).name = n /\ Chain!Self(n, ready, v1).ready = ready
      /\ n \in Chain!Bound => Chain!Self(n, ready, v1).of = v1
  BY SelfSays
<1>5. v1 \in 0 .. v1
  BY DEF Chain!ChainInv
<1>6. Chain!Told(n, report)
  BY <1>1, <1>3, <1>4, <1>5 DEF Chain!Told, Chain!RestsOn, Chain!Bound, Chain!Controls
<1> QED BY <1>1, <1>2, <1>6, ChainMade DEF Chain!Names

LEMMA ChainControlKept ==
  ASSUME Chain!ChainInv, NEW a \in Chain!Controls, NEW ready \in BOOLEAN, NEW target,
         NEW turnBound, Chain!Control(a, ready, target, turnBound)
  PROVE  Chain!ChainInv'
<1>1. PICK plain : plain = Chain!Report(a, ready, NoSha, {})
  OBVIOUS
<1>2. PICK more : more = [action |-> a, target |-> target, turnBound |-> turnBound]
  OBVIOUS
<1>3. PICK report : report = Chain!With(plain, more)
  OBVIOUS
<1>4. /\ DOMAIN plain = { "ready", "says", "rests" } /\ plain.ready = ready
      /\ plain.rests = { Chain!Self(a, ready, v1) }
  BY <1>1, ReportSays DEF Chain!Rests
<1>5. /\ report.ready = ready /\ report.rests = { Chain!Self(a, ready, v1) } /\ report.action = a
  <2>1. "action" \in DOMAIN more /\ more.action = a
    BY <1>2
  <2> QED BY <1>3, <1>4, <2>1, WithSays
<1>6. Chain!Self(a, ready, v1).name = a /\ Chain!Self(a, ready, v1).ready = ready
  BY SelfSays
<1>7. Chain!Told(a, report)
  BY <1>5, <1>6 DEF Chain!Told, Chain!Bound, Chain!Controls
<1>8. Chain!Make(a, report)
  BY <1>1, <1>2, <1>3 DEF Chain!Control
<1> QED BY <1>7, <1>8, ChainMade DEF Chain!Names

\* What a report that is made of others says.
LEMMA MadeSays ==
  ASSUME NEW n, NEW ready, NEW says, NEW from, NEW more
  PROVE  LET report == Chain!With(Chain!Report(n, ready, says, from), more)
         IN  /\ report.ready = ready /\ report.says = says
             /\ report.rests = { Chain!Self(n, ready, v1) } \cup Chain!Rests(from)
             /\ \A f \in DOMAIN more : f \notin { "ready", "says", "rests" } =>
                  report[f] = more[f]
<1>1. PICK plain : plain = Chain!Report(n, ready, says, from)
  OBVIOUS
<1>2. /\ DOMAIN plain = { "ready", "says", "rests" } /\ plain.ready = ready
      /\ plain.says = says
      /\ plain.rests = { Chain!Self(n, ready, v1) } \cup Chain!Rests(from)
  BY <1>1, ReportSays
<1> QED BY <1>1, <1>2, WithSays

LEMMA ChainCoverageKept ==
  ASSUME Chain!ChainInv, NEW policy, Chain!Coverage(policy)
  PROVE  Chain!ChainInv'
<1>1. PICK ready : ready = Chain!IsReady("smoke")
  OBVIOUS
<1>2. PICK report : /\ Chain!Make("coverage", report)
                    /\ report = Chain!With(Chain!Report("coverage", ready, v1, { "smoke" }),
                                           [policy |-> policy])
  BY <1>1 DEF Chain!Coverage
<1>3. /\ report.ready = ready /\ report.says = v1
      /\ report.rests = { Chain!Self("coverage", ready, v1) } \cup Chain!Rests({ "smoke" })
  BY <1>2, MadeSays
<1>4. /\ Chain!Self("coverage", ready, v1).name = "coverage"
      /\ Chain!Self("coverage", ready, v1).ready = ready
      /\ Chain!Self("coverage", ready, v1).of = v1
  BY SelfSays DEF Chain!Bound
<1>5. \A r \in Chain!Rests({ "smoke" }) :
        /\ r.name \notin Chain!Bound
        /\ ready => r.ready
  <2>1. Chain!Is("smoke") => Chain!Told("smoke", v2["smoke"])
    BY DEF Chain!ChainInv, Chain!Names
  <2>2. \A r \in Chain!Rests({ "smoke" }) : Chain!Is("smoke") /\ r \in v2["smoke"].rests
    BY RestsAreTheirs
  <2> QED BY <1>1, <2>1, <2>2 DEF Chain!Told, Chain!IsReady
<1>6. Chain!Told("coverage", report)
  BY <1>3, <1>4, <1>5 DEF Chain!Told, Chain!RestsOn, Chain!Controls
<1> QED BY <1>2, <1>6, ChainMade DEF Chain!Names

LEMMA ChainDesktopKept ==
  ASSUME Chain!ChainInv, NEW withSha \in BOOLEAN, Chain!DesktopContract(withSha)
  PROVE  Chain!ChainInv'
<1>1. PICK ready : ready = Chain!ContractReady(withSha)
  OBVIOUS
<1>2. PICK says : says = Chain!ReportSha(withSha)
  OBVIOUS
<1>3. PICK report : /\ Chain!Make("desktop", report)
                    /\ report = Chain!Report("desktop", ready, says, { "readiness" })
  BY <1>1, <1>2 DEF Chain!DesktopContract
<1>4. /\ report.ready = ready /\ report.says = says
      /\ report.rests = { Chain!Self("desktop", ready, v1) } \cup Chain!Rests({ "readiness" })
  BY <1>3, ReportSays
<1>5. /\ Chain!Self("desktop", ready, v1).name = "desktop"
      /\ Chain!Self("desktop", ready, v1).ready = ready
      /\ Chain!Self("desktop", ready, v1).of = v1
  BY SelfSays DEF Chain!Bound
<1>6. Chain!Is("readiness") /\ Chain!Told("readiness", v2["readiness"]) /\ v1 \in Nat
  BY DEF Chain!DesktopContract, Chain!ChainInv, Chain!Names
<1>7. \A r \in Chain!Rests({ "readiness" }) :
        /\ r.name \notin Chain!Bound
        /\ ready => r.ready
  BY <1>1, <1>6, RestsAreTheirs DEF Chain!Told, Chain!ContractReady, Chain!IsReady
<1>8. says # NoSha => says \in 0 .. v1 /\ v1 \in says .. v1
  BY <1>2, <1>6 DEF Chain!ReportSha, Chain!Told
<1>9. Chain!Told("desktop", report)
  BY <1>4, <1>5, <1>7, <1>8 DEF Chain!Told, Chain!Controls
<1> QED BY <1>3, <1>9, ChainMade DEF Chain!Names

LEMMA ChainRunKept ==
  ASSUME Chain!ChainInv, NEW scope, NEW given, Chain!Run(scope, given)
  PROVE  Chain!ChainInv'
<1>1. PICK read : read = { n \in Chain!RunEvidence : ~Chain!NotRequired(n, scope, given) }
  OBVIOUS
<1>2. PICK ready : ready = (\A n \in read : /\ Chain!Is(n) /\ Chain!PackageTruth(n)
                                            /\ Chain!SourceReadiness(n, scope))
  OBVIOUS
<1>3. PICK report : /\ Chain!Make("run", report)
                    /\ report = Chain!Report("run", ready, v1, read)
  BY <1>1, <1>2 DEF Chain!Run
<1>4. /\ report.ready = ready /\ report.says = v1
      /\ report.rests = { Chain!Self("run", ready, v1) } \cup Chain!Rests(read)
  BY <1>3, ReportSays
<1>5. /\ Chain!Self("run", ready, v1).name = "run"
      /\ Chain!Self("run", ready, v1).ready = ready
      /\ Chain!Self("run", ready, v1).of = v1
  BY SelfSays DEF Chain!Bound
<1>6. ASSUME ready, NEW r \in Chain!Rests(read)
      PROVE  r.ready /\ (r.name \in Chain!Bound => r.of = v1)
  <2>1. PICK m \in read : Chain!Is(m) /\ r \in v2[m].rests
    BY RestsAreTheirs
  <2>2. /\ m \in { "coverage", "workflow", "desktop", "matrix" }
        /\ v2[m].says = v1 /\ v2[m].ready
    BY <1>1, <1>2, <1>6, <2>1 DEF Chain!RunEvidence, Chain!PackageTruth, Chain!SourceReadiness
  <2>3. v1 \in Nat /\ Chain!Told(m, v2[m])
    BY <2>1, <2>2 DEF Chain!ChainInv, Chain!Names
  <2>4. r.ready
    BY <2>1, <2>2, <2>3 DEF Chain!Told
  <2>5. r.name \in Chain!Bound => r.of = v1
    <3>1. CASE m = "desktop"
      <4>1. v1 # NoSha
        BY <2>3, CandidatesAreTold
      <4>2. r.name \in Chain!Bound => r.of \in v1 .. v1
        BY <2>1, <2>2, <2>3, <3>1, <4>1 DEF Chain!Told
      <4> QED BY <2>3, <4>2
    <3>2. CASE m # "desktop"
      BY <2>1, <2>2, <2>3, <3>2 DEF Chain!Told, Chain!RestsOn
    <3> QED BY <3>1, <3>2
  <2> QED BY <2>4, <2>5
<1>7. Chain!Told("run", report)
  BY <1>4, <1>5, <1>6 DEF Chain!Told, Chain!RestsOn, Chain!Controls
<1> QED BY <1>3, <1>7, ChainMade DEF Chain!Names

LEMMA ChainReviewKept ==
  ASSUME Chain!ChainInv, Chain!Review
  PROVE  Chain!ChainInv'
<1>1. PICK ready : ready = Chain!IsReady("run")
  OBVIOUS
<1>2. PICK report : /\ Chain!Make("review", report)
                    /\ report = Chain!Report("review", ready, NoSha, { "run" })
  BY <1>1 DEF Chain!Review
<1>3. /\ report.ready = ready
      /\ report.rests = { Chain!Self("review", ready, v1) } \cup Chain!Rests({ "run" })
  BY <1>2, ReportSays
<1>4. Chain!Self("review", ready, v1).ready = ready
  BY SelfSays
<1>5. \A r \in Chain!Rests({ "run" }) : ready => r.ready
  <2>1. Chain!Is("run") => Chain!Told("run", v2["run"])
    BY DEF Chain!ChainInv, Chain!Names
  <2>2. \A r \in Chain!Rests({ "run" }) : Chain!Is("run") /\ r \in v2["run"].rests
    BY RestsAreTheirs
  <2> QED BY <1>1, <2>1, <2>2 DEF Chain!Told, Chain!IsReady
<1>6. Chain!Told("review", report)
  BY <1>3, <1>4, <1>5 DEF Chain!Told, Chain!Controls
<1> QED BY <1>2, <1>6, ChainMade DEF Chain!Names

LEMMA ChainCommitKept ==
  ASSUME Chain!ChainInv, Chain!Commit
  PROVE  Chain!ChainInv'
<1>1. /\ v1' = v1 + 1 /\ v2' = v2 /\ v1 \in Nat /\ v2 = [n \in Chain!Names |-> v2[n]]
  BY DEF Chain!ChainInv, Chain!Commit
<1>2. ASSUME NEW n \in Chain!Names, Chain!Is(n)'
      PROVE  Chain!Told(n, v2[n])'
  <2>1. Chain!Told(n, v2[n])
    BY <1>1, <1>2 DEF Chain!ChainInv, Chain!Is
  <2>2. \A says : says \in 0 .. v1 => says \in 0 .. v1' /\ says \in Nat
    BY <1>1
  <2>3. \A says, of : says \in 0 .. v1 /\ of \in says .. v1 => of \in says .. v1'
    BY <1>1
  <2>4. PICK report : report = v2[n] /\ report = v2'[n]
    BY <1>1
  <2> QED BY <1>1, <2>1, <2>2, <2>3, <2>4 DEF Chain!Told, Chain!RestsOn, Chain!BothApart
<1> QED BY <1>1, <1>2 DEF Chain!ChainInv

\* A row that is ready is that of a control whose path is of its own kind.
LEMMA RowsAreOfTheirControls ==
  ASSUME Chain!ChainInv, NEW a \in Chain!Controls,
         NEW path \in Chain!Controls \cup { NoFile },
         NEW sacrificed \in SUBSET TriedThreads, Chain!Row(a, path, sacrificed).ready
  PROVE  /\ path = a /\ a # NoFile /\ Chain!Is(a) /\ v2[a].ready
         /\ Chain!Row(a, path, sacrificed).target \in TriedThreads
<1>1. PICK row : row = Chain!Row(a, path, sacrificed)
  OBVIOUS
<1>2. path # NoFile /\ v2[path] # NoFile
  BY DEF Chain!Row
<1>3. /\ v2[path].ready /\ v2[path].action = a /\ v2[path].target \in sacrificed
      /\ row.target = v2[path].target
  BY <1>1, <1>2 DEF Chain!Row
<1>4. Chain!Told(path, v2[path]) /\ path \in Chain!Controls
  BY <1>2 DEF Chain!ChainInv, Chain!Is, Chain!Names
<1>5. path = a
  BY <1>3, <1>4 DEF Chain!Told
<1> QED BY <1>1, <1>2, <1>3, <1>5 DEF Chain!Is

\* An isolated row is one of those that were there; if it is ready, so was
\* that, and it shares its target with no other one.
LEMMA RowsAreIsolated ==
  ASSUME NEW rows, \A r \in rows : r = [action |-> r.action, ready |-> r.ready,
                                        target |-> r.target, turnBound |-> r.turnBound],
         NEW row \in Chain!Isolated(rows)
  PROVE  \E r \in rows :
           /\ row = [r EXCEPT !.ready = row.ready]
           /\ row.target = r.target
           /\ row.ready \in BOOLEAN
           /\ row.ready => /\ r.ready
                           /\ \A s \in rows : s # r => s.target # r.target \/ s.target = NoFile
<1>1. PICK r \in rows :
        row = [r EXCEPT !.ready = @ /\ \A s \in rows \ {r} : s.target # r.target
                                         \/ s.target = NoFile]
  BY DEF Chain!Isolated
<1>2. PICK apart \in BOOLEAN : apart = (r.ready /\ \A s \in rows \ {r} : s.target # r.target
                                                      \/ s.target = NoFile)
  OBVIOUS
<1>3. row = [r EXCEPT !.ready = apart]
  BY <1>1, <1>2
<1>4. r = [action |-> r.action, ready |-> r.ready, target |-> r.target,
           turnBound |-> r.turnBound]
  OBVIOUS
<1>5. row.ready = apart /\ row.target = r.target
  BY <1>3, <1>4
<1> QED BY <1>2, <1>3, <1>5

LEMMA IsolatedIsOnto ==
  ASSUME NEW rows, NEW r \in rows
  PROVE  \E row \in Chain!Isolated(rows), ready \in BOOLEAN :
           /\ row = [r EXCEPT !.ready = ready]
           /\ ready => r.ready
<1>1. PICK ready \in BOOLEAN :
        ready = (r.ready /\ \A s \in rows \ {r} : s.target # r.target \/ s.target = NoFile)
  OBVIOUS
<1>2. PICK row : row = [r EXCEPT !.ready = @ /\ \A s \in rows \ {r} : s.target # r.target
                                                   \/ s.target = NoFile]
  OBVIOUS
<1>3. row = [r EXCEPT !.ready = ready]
  BY <1>1, <1>2
<1>4. row \in Chain!Isolated(rows)
  BY <1>2 DEF Chain!Isolated
<1> QED BY <1>1, <1>3, <1>4

LEMMA ChainMatrixKept ==
  ASSUME Chain!ChainInv, NEW scope, NEW sacrificed \in SUBSET TriedThreads,
         NEW paths \in [Chain!Controls -> Chain!Controls \cup { NoFile }],
         Chain!Matrix(scope, paths, sacrificed)
  PROVE  Chain!ChainInv'
<1> DEFINE each(a) == Chain!Row(a, paths[a], sacrificed)
<1>1. PICK rows : rows = { each(a) : a \in Chain!Controls }
  OBVIOUS
<1>2. PICK required : required = Chain!MatrixRows(scope, paths, sacrificed)
  OBVIOUS
<1>3. PICK ready : ready = ((\A r \in required : r.ready)
                             /\ (Chain!RequiresLiveControl(scope) => sacrificed # {}))
  OBVIOUS
<1>4. PICK read : read = (IF Chain!RequiresLiveControl(scope)
                          THEN { paths[a] : a \in Chain!Controls } \ {NoFile} ELSE {})
  OBVIOUS
<1>5. PICK report : /\ Chain!Make("matrix", report)
                    /\ report = Chain!With(Chain!Report("matrix", ready, v1, read),
                                           [rows |-> required])
  BY <1>2, <1>3, <1>4 DEF Chain!Matrix
<1>6. /\ report.ready = ready /\ report.says = v1 /\ report.rows = required
      /\ report.rests = { Chain!Self("matrix", ready, v1) } \cup Chain!Rests(read)
  BY <1>5, MadeSays
<1>7. /\ Chain!Self("matrix", ready, v1).name = "matrix"
      /\ Chain!Self("matrix", ready, v1).ready = ready
      /\ Chain!Self("matrix", ready, v1).of = v1
  BY SelfSays DEF Chain!Bound
<1>8. read \subseteq Chain!Controls
  BY <1>4
<1>9. \A r \in Chain!Rests(read) : r.name \notin Chain!Bound
  <2> TAKE r \in Chain!Rests(read)
  <2>1. PICK m \in read : Chain!Is(m) /\ r \in v2[m].rests
    BY RestsAreTheirs
  <2>2. Chain!Told(m, v2[m])
    BY <1>8, <2>1 DEF Chain!ChainInv, Chain!Names
  <2> QED BY <1>8, <2>1, <2>2 DEF Chain!Told
<1>10. CASE ~Chain!RequiresLiveControl(scope)
  <2>1. required = {} /\ read = {}
    BY <1>2, <1>4, <1>10 DEF Chain!MatrixRows
  <2>2. Chain!Rests(read) = {}
    BY <2>1 DEF Chain!Rests
  <2>3. Chain!Told("matrix", report)
    BY <1>6, <1>7, <2>1, <2>2 DEF Chain!Told, Chain!RestsOn, Chain!Controls
  <2> QED BY <1>5, <2>3, ChainMade DEF Chain!Names
<1>11. CASE Chain!RequiresLiveControl(scope) /\ ready
  <2>1. required = Chain!Isolated(rows)
    BY <1>1, <1>2, <1>11 DEF Chain!MatrixRows
  <2>2. \A a \in Chain!Controls :
          each(a) = [action |-> each(a).action, ready |-> each(a).ready,
                     target |-> each(a).target, turnBound |-> each(a).turnBound]
    BY DEF Chain!Row
  <2>3. \A r \in rows : r = [action |-> r.action, ready |-> r.ready,
                             target |-> r.target, turnBound |-> r.turnBound]
    BY <1>1, <2>2
  <2>4. \A a \in Chain!Controls : each(a).ready
    <3> TAKE a \in Chain!Controls
    <3>1. each(a) \in rows
      BY <1>1
    <3>2. PICK row \in required, was \in BOOLEAN : /\ row = [each(a) EXCEPT !.ready = was]
                                                   /\ was => each(a).ready
      BY <2>1, <3>1, IsolatedIsOnto
    <3>3. row.ready = was
      BY <2>2, <3>2
    <3> QED BY <1>3, <1>11, <3>2, <3>3
  <2>5. \A a \in Chain!Controls : /\ paths[a] = a /\ a # NoFile /\ Chain!Is(a)
                                  /\ v2[a].ready /\ each(a).target \in TriedThreads
    BY <2>4, RowsAreOfTheirControls
  <2>6. read = Chain!Controls
    <3>1. { paths[a] : a \in Chain!Controls } = Chain!Controls /\ NoFile \notin Chain!Controls
      BY <2>5
    <3> QED BY <1>4, <1>11, <3>1
  <2>7. \A r \in Chain!Rests(read) : r.ready
    <3> TAKE r \in Chain!Rests(read)
    <3>1. PICK m \in read : Chain!Is(m) /\ r \in v2[m].rests
      BY RestsAreTheirs
    <3>2. v2[m].ready /\ Chain!Told(m, v2[m])
      BY <2>5, <2>6, <3>1 DEF Chain!ChainInv, Chain!Names
    <3> QED BY <3>1, <3>2 DEF Chain!Told
  <2>8. \A a \in Chain!Controls : \E r \in report.rests : r.name = a
    <3> TAKE a \in Chain!Controls
    <3>1. Chain!Told(a, v2[a]) /\ Chain!Is(a)
      BY <2>5 DEF Chain!ChainInv, Chain!Names
    <3>2. PICK r \in v2[a].rests : r.name = a
      BY <3>1 DEF Chain!Told
    <3>3. r \in report.rests
      BY <1>6, <2>6, <3>1, RestsAreTheirs
    <3> QED BY <3>2, <3>3
  <2>9. \A r, s \in required : r # s => r.target # s.target
    <3> SUFFICES ASSUME NEW r \in required, NEW s \in required, r # s
                 PROVE  r.target # s.target
      OBVIOUS
    <3>1. r.ready /\ s.ready
      BY <1>3, <1>11
    <3>2. PICK x \in rows : /\ r = [x EXCEPT !.ready = r.ready] /\ r.target = x.target
                            /\ x.ready /\ r.ready \in BOOLEAN
                            /\ \A y \in rows : y # x => y.target # x.target \/ y.target = NoFile
      BY <2>1, <2>3, <3>1, RowsAreIsolated
    <3>3. PICK y \in rows : /\ s = [y EXCEPT !.ready = s.ready] /\ s.target = y.target
                            /\ y.ready /\ s.ready \in BOOLEAN
      BY <2>1, <2>3, <3>1, RowsAreIsolated
    <3>4. x # y
      <4>1. r.ready = TRUE /\ s.ready = TRUE
        BY <3>1, <3>2, <3>3
      <4> QED BY <3>2, <3>3, <4>1
    <3>5. y.target \in TriedThreads
      BY <1>1, <2>5
    <3>6. y.target # NoFile
      BY <3>5, CandidatesAreTold
    <3> QED BY <3>2, <3>3, <3>4, <3>6
  <2>10. Chain!BothApart(report)
    BY <1>6, <2>8, <2>9 DEF Chain!BothApart
  <2>11. Chain!Told("matrix", report)
    BY <1>6, <1>7, <1>9, <1>11, <2>7, <2>10 DEF Chain!Told, Chain!RestsOn, Chain!Controls
  <2> QED BY <1>5, <2>11, ChainMade DEF Chain!Names
<1>12. CASE ~ready
  <2>1. Chain!Told("matrix", report)
    BY <1>6, <1>7, <1>9, <1>12 DEF Chain!Told, Chain!RestsOn, Chain!Controls
  <2> QED BY <1>5, <2>1, ChainMade DEF Chain!Names
<1> QED BY <1>10, <1>11, <1>12

\* What a report of the beginning says.
LEMMA EarlierHas ==
  ASSUME NEW n, NEW of, NEW from
  PROVE  DOMAIN Chain!Earlier(n, of, from) = { "ready", "says", "rests" }
BY DEF Chain!Earlier

LEMMA EarlierSays ==
  ASSUME NEW n, NEW of, NEW from
  PROVE  /\ Chain!Earlier(n, of, from).ready
         /\ n \in Chain!Bound => Chain!Earlier(n, of, from).says = of[n]
         /\ n \notin Chain!Bound => Chain!Earlier(n, of, from).says = NoSha
BY DEF Chain!Earlier

LEMMA EarlierRests ==
  ASSUME NEW n, NEW of, NEW from, NEW r \in Chain!Earlier(n, of, from).rests
  PROVE  /\ r.ready /\ (r.name = n \/ r.name \in from)
         /\ r.name \in Chain!Bound => r.of = of[r.name]
<1>1. PICK m \in from \cup {n} : r = Chain!Self(m, TRUE, of[m])
  BY DEF Chain!Earlier
<1>2. PICK which : which = of[m]
  OBVIOUS
<1>3. /\ r.name = m /\ r.ready = TRUE
      /\ m \in Chain!Bound => r.of = which
  BY <1>1, <1>2 DEF Chain!Self
<1> QED BY <1>1, <1>2, <1>3

LEMMA EarlierRestsOnEach ==
  ASSUME NEW n, NEW of, NEW from, NEW m, m = n \/ m \in from
  PROVE  \E r \in Chain!Earlier(n, of, from).rests : r.name = m
<1>1. Chain!Self(m, TRUE, of[m]) \in Chain!Earlier(n, of, from).rests
  BY DEF Chain!Earlier
<1>2. Chain!Self(m, TRUE, of[m]).name = m
  BY DEF Chain!Self
<1> QED BY <1>1, <1>2

LEMMA ChainStarts ==
  ASSUME Chain!Init
  PROVE  Chain!ChainInv
<1> DEFINE first == [n \in Chain!Names |-> 1]
<1>1. PICK again \in SUBSET { "coverage", "workflow", "desktop", "matrix", "finalization" },
           tried \in { {}, Chain!Controls }, on \in [Chain!Controls -> TriedThreads] :
        /\ on["send"] # on["steer"]
        /\ v2 = Chain!Evidence([n \in Chain!Names |-> IF n \in again THEN 2 ELSE 1], tried,
                               [a \in Chain!Controls |-> [action |-> a, ready |-> TRUE,
                                  turnBound |-> TRUE, target |-> on[a]]])
        /\ v1 = 2
  BY DEF Chain!Init
<1>2. PICK of : of = [n \in Chain!Names |-> IF n \in again THEN 2 ELSE 1]
  OBVIOUS
<1>3. PICK row : row = [a \in Chain!Controls |-> [action |-> a, ready |-> TRUE,
                                                  turnBound |-> TRUE, target |-> on[a]]]
  OBVIOUS
<1>4. /\ v2 = Chain!Evidence(of, tried, row)
      /\ v1 = 2
      /\ tried \in { {}, Chain!Controls }
      /\ \A a \in Chain!Controls : /\ row[a].action = a /\ "action" \in DOMAIN row[a]
                                   /\ row[a].target = on[a]
      /\ on["send"] # on["steer"]
  BY <1>1, <1>2, <1>3
<1>5. \A n \in Chain!Names : of[n] \in 1 .. 2
  BY <1>2
<1>6. v2 = [n \in Chain!Names |-> v2[n]]
  BY <1>4 DEF Chain!Evidence
<1>7. ASSUME NEW n \in Chain!Names, Chain!Is(n)
      PROVE  Chain!Told(n, v2[n])
  <2> USE DEF Chain!Controls
  <2>1. CASE n \in tried
    <3>1. PICK plain : plain = Chain!Earlier(n, first, {})
      OBVIOUS
    <3>2. v2[n] = Chain!With(plain, row[n]) /\ n \in Chain!Controls /\ n \notin Chain!Bound
      BY <1>4, <2>1, <3>1 DEF Chain!Evidence, Chain!Bound
    <3>3. row[n].action = n /\ "action" \in DOMAIN row[n]
      BY <1>4, <3>2
    <3>4. /\ \A r \in plain.rests : r.ready /\ r.name = n
          /\ \E r \in plain.rests : r.name = n
      <4> HIDE DEF first
      <4>1. \A r \in plain.rests : r.ready /\ r.name = n
        BY <3>1, EarlierRests
      <4>2. \E r \in plain.rests : r.name = n
        <5>1. Chain!Self(n, TRUE, first[n]) \in plain.rests
          BY <3>1 DEF Chain!Earlier
        <5>2. Chain!Self(n, TRUE, first[n]).name = n
          BY DEF Chain!Self
        <5> QED BY <5>1, <5>2
      <4> QED BY <4>1, <4>2
    <3>5. /\ v2[n].rests = plain.rests /\ v2[n].action = n
      <4>1. DOMAIN plain = { "ready", "says", "rests" }
        BY <3>1, EarlierHas
      <4> QED BY <3>2, <3>3, <4>1, WithSays
    <3> QED BY <3>2, <3>4, <3>5 DEF Chain!Told
  <2>2. CASE n = "coverage"
    <3>1. PICK plain : plain = Chain!Earlier(n, of, { "smoke" })
      OBVIOUS
    <3>2. v2[n] = Chain!With(plain, [policy |-> "full"])
      BY <1>4, <2>2, <3>1 DEF Chain!Evidence
    <3>3. /\ plain.says = of[n]
          /\ \A r \in plain.rests : r.ready /\ (r.name \in Chain!Bound => r.of = of[n])
      BY <2>2, <3>1, EarlierSays, EarlierRests DEF Chain!Bound
    <3>4. v2[n].rests = plain.rests /\ v2[n].says = plain.says
      <4>1. DOMAIN plain = { "ready", "says", "rests" }
        BY <3>1, EarlierHas
      <4> QED BY <3>2, <4>1, WithSays
    <3> QED BY <2>2, <3>3, <3>4 DEF Chain!Told, Chain!RestsOn
  <2>3. CASE n = "matrix"
    <3>1. PICK plain : plain = Chain!Earlier(n, of, tried)
      OBVIOUS
    <3>2. PICK rows : rows = { row[a] : a \in tried }
      OBVIOUS
    <3>3. v2[n] = Chain!With(plain, [rows |-> rows])
      BY <1>4, <2>3, <3>1, <3>2 DEF Chain!Evidence
    <3>4. /\ plain.says = of[n]
          /\ \A r \in plain.rests : r.ready /\ (r.name \in Chain!Bound => r.of = of[n])
          /\ \A a \in tried : \E r \in plain.rests : r.name = a
      BY <1>4, <2>3, <3>1, EarlierSays, EarlierRests, EarlierRestsOnEach DEF Chain!Bound
    <3>5. v2[n].rests = plain.rests /\ v2[n].says = plain.says /\ v2[n].rows = rows
      <4>1. DOMAIN plain = { "ready", "says", "rests" }
        BY <3>1, EarlierHas
      <4> QED BY <3>3, <4>1, WithSays
    <3>6. rows = {} \/ Chain!BothApart(v2[n])
      <4>0. tried = {} \/ tried = Chain!Controls
        BY <1>4
      <4>1. CASE tried = {}
        BY <3>2, <4>1
      <4>2. CASE tried = Chain!Controls
        <5>1. \A r, s \in rows : r # s => r.target # s.target
          <6> SUFFICES ASSUME NEW r \in rows, NEW s \in rows, r # s
                       PROVE  r.target # s.target
            OBVIOUS
          <6>1. PICK a \in Chain!Controls, b \in Chain!Controls : r = row[a] /\ s = row[b]
            BY <3>2, <4>2
          <6>2. /\ (a = "send" /\ b = "steer") \/ (a = "steer" /\ b = "send")
                /\ r.target = on[a] /\ s.target = on[b]
            BY <1>4, <6>1
          <6> QED BY <1>4, <6>2
        <5> QED BY <3>4, <3>5, <4>2, <5>1 DEF Chain!BothApart
      <4> QED BY <4>0, <4>1, <4>2
    <3> QED BY <2>3, <3>4, <3>5, <3>6 DEF Chain!Told, Chain!RestsOn
  <2>4. CASE n = "desktop"
    <3>1. v2[n] = Chain!Earlier(n, of, { "readiness" })
      BY <1>4, <2>4 DEF Chain!Evidence
    <3>2. /\ v2[n].says = of[n]
          /\ \A r \in v2[n].rests : r.ready /\ (r.name \in Chain!Bound => r.of = of[n])
      BY <2>4, <3>1, EarlierSays, EarlierRests DEF Chain!Bound
    <3>3. of[n] \in 0 .. v1 /\ of[n] \in of[n] .. v1
      BY <1>4, <1>5
    <3> QED BY <2>4, <3>2, <3>3 DEF Chain!Told
  <2>5. CASE n \in { "run", "review" }
    <3>1. PICK from : v2[n] = Chain!Earlier(n, first, from)
      BY <1>4, <2>5 DEF Chain!Evidence, Chain!Names
    <3>2. \A m \in Chain!Bound : first[m] = 1
      BY DEF Chain!Bound, Chain!Names
    <3>3. /\ n = "run" => v2[n].says = 1
          /\ \A r \in v2[n].rests : r.ready /\ (r.name \in Chain!Bound => r.of = 1)
      <4> HIDE DEF first
      <4> QED BY <2>5, <3>1, <3>2, EarlierSays, EarlierRests DEF Chain!Bound
    <3> QED BY <2>5, <3>3 DEF Chain!Told, Chain!RestsOn
  <2>6. CASE n \in { "smoke", "workflow", "readiness", "finalization" }
    <3>1. v2[n] = Chain!Earlier(n, of, {})
      BY <1>4, <2>6 DEF Chain!Evidence
    <3>2. /\ n \in Chain!Bound => v2[n].says = of[n]
          /\ n \notin Chain!Bound => v2[n].says = NoSha
          /\ \A r \in v2[n].rests : /\ r.ready /\ r.name = n
                                    /\ r.name \in Chain!Bound => r.of = of[n]
      BY <3>1, EarlierSays, EarlierRests
    <3> QED BY <2>6, <3>2 DEF Chain!Told, Chain!RestsOn, Chain!Bound
  <2>7. CASE n \in Chain!Controls \ tried
    BY <1>4, <1>7, <2>7 DEF Chain!Evidence, Chain!Is
  <2> QED BY <2>1, <2>2, <2>3, <2>4, <2>5, <2>6, <2>7 DEF Chain!Names
<1>8. v1 \in Nat
  BY <1>4
<1> QED BY <1>6, <1>7, <1>8 DEF Chain!ChainInv

LEMMA ChainKept ==
  ASSUME Chain!ChainInv, Chain!Next \/ UNCHANGED Chain!vars
  PROVE  Chain!ChainInv'
<1>1. CASE UNCHANGED Chain!vars
  <2>1. v1' = v1 /\ v2' = v2
    BY <1>1 DEF Chain!vars
  <2>2. ASSUME NEW n \in Chain!Names, Chain!Is(n)'
        PROVE  Chain!Told(n, v2[n])'
    <3>1. Chain!Told(n, v2[n])
      BY <2>1, <2>2 DEF Chain!ChainInv, Chain!Is
    <3>2. PICK report : report = v2[n] /\ report = v2'[n]
      BY <2>1
    <3> QED BY <2>1, <3>1, <3>2 DEF Chain!Told, Chain!RestsOn, Chain!BothApart
  <2> QED BY <2>1, <2>2 DEF Chain!ChainInv
<1>2. CASE Chain!Next
  BY <1>2, ChainRunsKept, ChainControlKept, ChainCoverageKept, ChainDesktopKept,
     ChainMatrixKept, ChainRunKept, ChainReviewKept, ChainCommitKept DEF Chain!Next
<1> QED BY <1>1, <1>2

LEMMA ChainCounts ==
  ASSUME NEW S
  PROVE  Chain!Cardinality(S) = Cardinality(S)
BY Zenon DEF Chain!Cardinality, Cardinality

LEMMA NoRowsAreNotAll ==
  ~Chain!AllRows({})
<1>1. Cardinality({}) = 0
  BY FS_EmptySet
<1>2. Cardinality({ "send" }) = 1 /\ IsFiniteSet({ "send" })
  BY FS_Singleton
<1>3. Cardinality({ "send" } \cup { "steer" }) = 2
  BY <1>2, FS_AddElement
<1>4. { "send" } \cup { "steer" } = Chain!Controls
  BY DEF Chain!Controls
<1>5. { r \in {} : r.ready } = {}
  OBVIOUS
<1> QED BY <1>1, <1>3, <1>4, <1>5, ChainCounts DEF Chain!AllRows

LEMMA GaIsGroundedWhenTold ==
  ASSUME Chain!ChainInv
  PROVE  Chain!GaIsGrounded
<1> SUFFICES ASSUME NEW c \in 1 .. v1, NEW scope \in Chain!Scopes,
                    NEW path \in { "run", "workflow" }, Chain!GaReady(c, scope, path)
             PROVE  /\ \A r \in Chain!Rests(Chain!GaRead(path)) : r.ready
                    /\ \A r \in Chain!Rests({ "coverage", "matrix", "finalization", path }) :
                         r.name \in Chain!Bound => r.of = c
                    /\ Chain!RequiresLiveControl(scope) =>
                         /\ Chain!Controls \subseteq { r.name : r \in v2["matrix"].rests }
                         /\ \A r, s \in v2["matrix"].rows : r # s => r.target # s.target
  BY DEF Chain!GaIsGrounded
<1>1. /\ \A n \in Chain!GaRead(path) : Chain!Is(n) /\ v2[n].ready
      /\ \A n \in { "coverage", "matrix", "finalization", path } : v2[n].says = c
  BY DEF Chain!GaReady, Chain!GaRead, Chain!IsReady, Chain!ReviewOk, Chain!QaLabRunOk,
         Chain!ToolCoverageOk, Chain!LiveControlMatrixOk, Chain!FinalizationOk, Chain!Says,
         Chain!NoFinding
<1>2. \A n \in Chain!GaRead(path) : Chain!Told(n, v2[n])
  BY <1>1 DEF Chain!ChainInv, Chain!GaRead, Chain!Names
<1>3. \A r \in Chain!Rests(Chain!GaRead(path)) : r.ready
  <2> TAKE r \in Chain!Rests(Chain!GaRead(path))
  <2>1. PICK n \in Chain!GaRead(path) : r \in v2[n].rests
    BY RestsAreTheirs
  <2> QED BY <1>1, <1>2, <2>1 DEF Chain!Told
<1>4. \A r \in Chain!Rests({ "coverage", "matrix", "finalization", path }) :
        r.name \in Chain!Bound => r.of = c
  <2> TAKE r \in Chain!Rests({ "coverage", "matrix", "finalization", path })
  <2>1. PICK n \in { "coverage", "matrix", "finalization", path } : r \in v2[n].rests
    BY RestsAreTheirs
  <2>2. v2[n].ready /\ v2[n].says = c /\ Chain!Told(n, v2[n])
    BY <1>1, <1>2 DEF Chain!GaRead
  <2>3. Chain!RestsOn(v2[n], c)
    BY <2>2 DEF Chain!Told
  <2> QED BY <2>1, <2>3 DEF Chain!RestsOn
<1>5. ASSUME Chain!RequiresLiveControl(scope)
      PROVE  Chain!BothApart(v2["matrix"])
  <2>1. Chain!AllRows(v2["matrix"].rows)
    BY <1>5 DEF Chain!GaReady, Chain!LiveControlMatrixOk, Chain!LiveMatrixOk
  <2>2. v2["matrix"].rows # {}
    BY <2>1, NoRowsAreNotAll
  <2>3. v2["matrix"].ready /\ Chain!Told("matrix", v2["matrix"])
    BY <1>1, <1>2 DEF Chain!GaRead
  <2> QED BY <2>2, <2>3 DEF Chain!Told
<1> QED BY <1>3, <1>4, <1>5 DEF Chain!BothApart

\* A GA smoke that is ready rests on reports that were, and of its candidate.
THEOREM GaRestsOnItsCandidate == HarnessSpec => []GaIsGrounded
<1>1. HarnessInit => (component = "chain" => Chain!ChainInv)
  BY StartsOfOne, ChainStarts
<1>2. (component = "chain" => Chain!ChainInv) /\ [HarnessNext]_vars
        => (component = "chain" => Chain!ChainInv)'
  BY StepsOfOne, ChainKept
<1>3. (component = "chain" => Chain!ChainInv) => GaIsGrounded
  BY GaIsGroundedWhenTold DEF GaIsGrounded
<1> QED BY <1>1, <1>2, <1>3, PTL DEF HarnessSpec

-----------------------------------------------------------------------------
(* ToolEvidence: the gateways are v1, the smoke v5, its reports v7, and     *)
(* what is published v9.                                                    *)

\* What a smoke is called for is called as long as nothing blocks it.
LEMMA CatalogsAreClear ==
  ASSUME Tools!TypeInv, NEW p \in Tools!Profiles, NEW required,
         Tools!CatalogBlockers(p, required) = {}
  PROVE  \A t \in required : t \in Tools!Declared /\ t # "deliver"
<1>1. v1[p] = "ready"
  BY DEF Tools!TypeInv, Tools!CatalogBlockers, Tools!GatewayBlockers
<1>2. /\ required \subseteq Tools!Catalog(v3)
      /\ \A t \in required : Tools!Disposition(t) # "unknown_non_claim"
  BY <1>1 DEF Tools!CatalogBlockers
<1>3. Tools!Disposition("deliver") = "unknown_non_claim"
  BY DEF Tools!Disposition
<1>4. Tools!Catalog(v3) \subseteq Tools!Declared
  BY DEF Tools!TypeInv, Tools!Catalog
<1> QED BY <1>2, <1>3, <1>4

LEMMA ToolsStart ==
  ASSUME Tools!Init
  PROVE  Tools!ToolsInv
<1>1. /\ v1 \in [Tools!Profiles -> { "ready", "setup" }]
      /\ v5 = NoReport /\ v9 = NoReport /\ v3 \in { "none", "old" }
  BY DEF Tools!Init
<1>2. PICK earlier \in { NoReport, Tools!EarlierReport } :
        v7 = [p \in Tools!Profiles |-> IF p = "configured" THEN earlier ELSE NoReport]
  BY DEF Tools!Init
<1>3. Tools!Reported(Tools!EarlierReport)
  BY DEF Tools!EarlierReport, Tools!Reported, Tools!Blamed, Tools!SetupStatus,
         Tools!Declared
<1>4. Tools!TypeInv
  BY <1>1, <1>2 DEF Tools!TypeInv
<1>5. Tools!ReportInv
  BY <1>1, <1>2, <1>3 DEF Tools!ReportInv
<1> QED BY <1>1, <1>4, <1>5 DEF Tools!ToolsInv, Tools!SmokeInv

LEMMA ToolSmokeStarts ==
  ASSUME Tools!ToolsInv, NEW p \in Tools!Profiles, NEW required \in Tools!RequiredLists,
         NEW thread, Tools!StartSmoke(p, required, thread)
  PROVE  Tools!ToolsInv'
<1>1. PICK found : found = Tools!CatalogBlockers(p, Tools!ToSet(required))
  OBVIOUS
<1>2. PICK todo : todo = (IF found = {} THEN required ELSE << >>)
  OBVIOUS
<1>3. /\ v5' = [profile |-> p, required |-> Tools!ToSet(required), todo |-> todo,
                thread |-> thread, blockers |-> found, calls |-> Tools!NotCalled,
                defects |-> {}, asked |-> {}]
      /\ v1' = v1 /\ v3' = v3 /\ v7' = v7 /\ v9' = v9
  BY <1>1, <1>2 DEF Tools!StartSmoke, Tools!worldVars, Tools!fileVars
<1>4. /\ required \in Seq(Tools!Declared)
      /\ \A t : t \in Tools!ToSet(required) <=> \E i \in DOMAIN required : required[i] = t
  <2>1. required \in Seq(Tools!Declared)
    <3>1. /\ << "find", "describe" >> \in Seq(Tools!Declared)
          /\ << "find", "describe", "send", "postCreate" >> \in Seq(Tools!Declared)
          /\ << "find", "deliver" >> \in Seq(Tools!Declared)
      BY DEF Tools!Declared
    <3> QED BY <3>1 DEF Tools!RequiredLists
  <2>2. \A t : t \in Tools!ToSet(required) <=> \E i \in DOMAIN required : required[i] = t
    BY DEF Tools!ToSet
  <2> QED BY <2>1, <2>2
<1>5. todo \in Seq(Tools!Declared) /\ Tools!ToSet(required) \subseteq Tools!Declared
  BY <1>2, <1>4
<1>6. Tools!TypeInv'
  BY <1>3, <1>5 DEF Tools!ToolsInv, Tools!TypeInv, Tools!NotCalled
<1>7. Tools!SmokeInv'
  <2>1. found = {} => \A t \in Tools!ToSet(required) : \E i \in DOMAIN todo : todo[i] = t
    BY <1>2, <1>4
  <2>2. \A i \in DOMAIN todo : todo[i] # "deliver"
    <3>1. CASE found = {}
      BY <1>1, <1>2, <1>4, <3>1, CatalogsAreClear DEF Tools!ToolsInv
    <3>2. CASE found # {}
      BY <1>2, <3>2
    <3> QED BY <3>1, <3>2
  <2> QED BY <1>3, <2>1, <2>2 DEF Tools!SmokeInv, Tools!Blamed
<1>8. Tools!ReportInv'
  BY <1>3 DEF Tools!ToolsInv, Tools!ReportInv
<1> QED BY <1>6, <1>7, <1>8 DEF Tools!ToolsInv

\* A tool less is to be called.
LEMMA TodoShrinks ==
  ASSUME Tools!ToolsInv, v5 # NoReport, v5.todo # << >>
  PROVE  /\ Head(v5.todo) \in Tools!Declared /\ Head(v5.todo) # "deliver"
         /\ Tail(v5.todo) \in Seq(Tools!Declared)
         /\ \A i \in DOMAIN Tail(v5.todo) : Tail(v5.todo)[i] # "deliver"
         /\ \A i \in DOMAIN v5.todo :
              \/ v5.todo[i] = Head(v5.todo)
              \/ \E j \in DOMAIN Tail(v5.todo) : Tail(v5.todo)[j] = v5.todo[i]
<1>1. PICK todo \in Seq(Tools!Declared) : todo = v5.todo /\ todo # << >>
  BY DEF Tools!ToolsInv, Tools!TypeInv
<1>2. /\ Tail(todo) \in Seq(Tools!Declared) /\ Len(Tail(todo)) = Len(todo) - 1
      /\ \A i \in 1 .. Len(Tail(todo)) : Tail(todo)[i] = todo[i + 1]
      /\ DOMAIN todo = 1 .. Len(todo) /\ DOMAIN Tail(todo) = 1 .. Len(Tail(todo))
      /\ Head(todo) = todo[1] /\ Len(todo) \in Nat /\ 1 \in DOMAIN todo
  BY <1>1
<1>3. \A i \in DOMAIN todo : todo[i] # "deliver"
  BY <1>1 DEF Tools!ToolsInv, Tools!SmokeInv
<1>4. ASSUME NEW i \in DOMAIN Tail(todo)
      PROVE  Tail(todo)[i] # "deliver"
  <2>1. i \in 1 .. Len(todo) - 1
    BY <1>2, <1>4
  <2>2. i \in 1 .. Len(Tail(todo)) /\ i + 1 \in DOMAIN todo
    BY <1>2, <2>1
  <2> QED BY <1>2, <1>3, <2>2
<1>5. ASSUME NEW i \in DOMAIN todo, i # 1
      PROVE  \E j \in DOMAIN Tail(todo) : Tail(todo)[j] = todo[i]
  <2>1. i - 1 \in 1 .. Len(Tail(todo)) /\ (i - 1) + 1 = i
    BY <1>2, <1>5
  <2>2. Tail(todo)[i - 1] = todo[i]
    BY <1>2, <2>1
  <2> QED BY <1>2, <2>1, <2>2
<1> QED BY <1>1, <1>2, <1>3, <1>4, <1>5

\* A smoke that goes on with the tools that are left.
LEMMA ToolSmokeGoesOn ==
  ASSUME Tools!ToolsInv, v5 # NoReport, v5.todo # << >>,
         NEW t, t = Head(v5.todo),
         NEW blockers, NEW call, NEW thread, NEW defects,
         Tools!Called(t, blockers, call, thread, defects),
         v1' = v1, v3' = v3, v7' = v7, v9' = v9,
         blockers # {} \/ call = "ok",
         defects # {} => \E b \in blockers : b # "gateway_setup",
         \A th \in v5.asked \cup Tools!Asked(t) : th = thread /\ th # NoThread
  PROVE  Tools!ToolsInv'
<1>1. /\ { "profile", "required", "todo", "thread", "blockers", "calls", "defects", "asked" }
           \subseteq DOMAIN v5
      /\ v5 = [f \in DOMAIN v5 |-> v5[f]]
      /\ v5.calls = [x \in Tools!Declared |-> v5.calls[x]]
      /\ v5.profile \in Tools!Profiles /\ v5.required \subseteq Tools!Declared
  BY DEF Tools!ToolsInv, Tools!TypeInv
<1>2. PICK todo, calls, asked :
        /\ todo = Tail(v5.todo) /\ calls = [v5.calls EXCEPT ![t] = call]
        /\ asked = v5.asked \cup Tools!Asked(t)
  OBVIOUS
<1>3. v5' = [v5 EXCEPT !.todo = todo, !.blockers = @ \cup blockers, !.calls = calls,
                       !.thread = thread, !.defects = @ \cup defects, !.asked = asked]
  BY <1>2 DEF Tools!Called
<1>4. /\ DOMAIN v5' = DOMAIN v5 /\ v5' = [f \in DOMAIN v5 |-> v5'[f]]
      /\ v5'.profile = v5.profile /\ v5'.required = v5.required
      /\ v5'.todo = todo /\ v5'.blockers = v5.blockers \cup blockers
      /\ v5'.calls = calls /\ v5'.thread = thread
      /\ v5'.defects = v5.defects \cup defects /\ v5'.asked = asked
  BY <1>1, <1>3
<1>5. /\ calls = [x \in Tools!Declared |-> calls[x]]
      /\ \A x \in Tools!Declared : calls[x] = IF x = t THEN call ELSE v5.calls[x]
  BY <1>1, <1>2
<1>6. /\ todo \in Seq(Tools!Declared)
      /\ \A i \in DOMAIN todo : todo[i] # "deliver"
      /\ \A i \in DOMAIN v5.todo : \/ v5.todo[i] = t
                                   \/ \E j \in DOMAIN todo : todo[j] = v5.todo[i]
  BY <1>2, TodoShrinks
<1>7. Tools!TypeInv'
  <2>1. /\ v5'.profile \in Tools!Profiles /\ v5'.required \subseteq Tools!Declared
        /\ v5'.todo \in Seq(Tools!Declared)
        /\ v5'.calls = [x \in Tools!Declared |-> v5'.calls[x]]
    BY <1>1, <1>4, <1>5, <1>6
  <2>2. /\ { "profile", "required", "todo", "thread", "blockers", "calls", "defects",
             "asked" } \subseteq DOMAIN v5'
        /\ v5' = [f \in DOMAIN v5' |-> v5'[f]]
    BY <1>1, <1>4
  <2> QED BY <2>1, <2>2 DEF Tools!ToolsInv, Tools!TypeInv
<1>8. Tools!SmokeInv'
  <2>1. Tools!Blamed(v5)'
    BY <1>4 DEF Tools!ToolsInv, Tools!SmokeInv, Tools!Blamed
  <2>2. ASSUME v5'.blockers = {}, NEW x \in v5'.required
        PROVE  v5'.calls[x] = "ok" \/ \E i \in DOMAIN v5'.todo : v5'.todo[i] = x
    <3>1. v5.blockers = {} /\ blockers = {} /\ x \in v5.required /\ x \in Tools!Declared
      BY <1>1, <1>4, <2>2
    <3>2. v5.calls[x] = "ok" \/ \E i \in DOMAIN v5.todo : v5.todo[i] = x
      BY <3>1 DEF Tools!ToolsInv, Tools!SmokeInv
    <3> QED BY <1>4, <1>5, <1>6, <3>1, <3>2
  <2>3. /\ \A i \in DOMAIN v5'.todo : v5'.todo[i] # "deliver"
        /\ \A th \in v5'.asked : th = v5'.thread /\ th # NoThread
    BY <1>2, <1>4, <1>6
  <2> QED BY <2>1, <2>2, <2>3 DEF Tools!SmokeInv
<1>9. Tools!ReportInv'
  BY DEF Tools!ToolsInv, Tools!ReportInv
<1> QED BY <1>7, <1>8, <1>9 DEF Tools!ToolsInv

LEMMA MissingThreadKept ==
  ASSUME Tools!ToolsInv, v5 # NoReport, v5.todo # << >>, v5' = Tools!MissingThread,
         v1' = v1, v3' = v3, v7' = v7, v9' = v9
  PROVE  Tools!ToolsInv'
<1>1. /\ { "profile", "required", "todo", "thread", "blockers", "calls", "defects", "asked" }
           \subseteq DOMAIN v5
      /\ v5 = [f \in DOMAIN v5 |-> v5[f]]
  BY DEF Tools!ToolsInv, Tools!TypeInv
<1>2. PICK todo : todo = Tail(v5.todo)
  OBVIOUS
<1>3. v5' = [v5 EXCEPT !.todo = todo, !.blockers = @ \cup { "missing_thread" }]
  BY <1>2 DEF Tools!MissingThread
<1>4. /\ DOMAIN v5' = DOMAIN v5 /\ v5' = [f \in DOMAIN v5 |-> v5'[f]]
      /\ v5'.profile = v5.profile /\ v5'.required = v5.required /\ v5'.todo = todo
      /\ v5'.blockers = v5.blockers \cup { "missing_thread" }
      /\ v5'.calls = v5.calls /\ v5'.thread = v5.thread
      /\ v5'.defects = v5.defects /\ v5'.asked = v5.asked
  BY <1>1, <1>3
<1>5. /\ todo \in Seq(Tools!Declared)
      /\ \A i \in DOMAIN todo : todo[i] # "deliver"
  BY <1>2, TodoShrinks
<1>6. Tools!TypeInv'
  BY <1>4, <1>5 DEF Tools!ToolsInv, Tools!TypeInv
<1>7. Tools!SmokeInv'
  <2>1. v5'.blockers # {} /\ Tools!Blamed(v5)'
    BY <1>4 DEF Tools!ToolsInv, Tools!SmokeInv, Tools!Blamed
  <2>2. \A th \in v5'.asked : th = v5'.thread /\ th # NoThread
    BY <1>4 DEF Tools!ToolsInv, Tools!SmokeInv
  <2> QED BY <1>4, <1>5, <2>1, <2>2 DEF Tools!SmokeInv
<1> QED BY <1>6, <1>7 DEF Tools!ToolsInv, Tools!ReportInv

LEMMA CallToolKept ==
  ASSUME Tools!ToolsInv, Tools!CallTool
  PROVE  Tools!ToolsInv'
<1>1. PICK t : t = Head(v5.todo)
  OBVIOUS
<1>2. PICK p : p = v5.profile
  OBVIOUS
<1>3. /\ v5 # NoReport /\ v5.todo # << >> /\ p \in Tools!Profiles
      /\ v1[p] \in { "ready", "setup", "down" }
      /\ v1' = v1 /\ v3' = v3 /\ v7' = v7 /\ v9' = v9
  BY <1>2 DEF Tools!CallTool, Tools!worldVars, Tools!fileVars, Tools!ToolsInv, Tools!TypeInv
<1>4. t \in Tools!Declared /\ t # "deliver"
  BY <1>1, <1>3, TodoShrinks
<1>5. (t \in Tools!ThreadBound => v5.thread # NoThread)
        => \A th \in v5.asked \cup Tools!Asked(t) : th = v5.thread /\ th # NoThread
  BY <1>3 DEF Tools!Asked, Tools!ToolsInv, Tools!SmokeInv
<1>6. CASE v5' = Tools!MissingThread
  BY <1>3, <1>6, MissingThreadKept
<1>7. ASSUME t \in Tools!ThreadBound => v5.thread # NoThread, v1[p] # "ready",
             Tools!Called(t, Tools!GatewayBlockers(p), "failed", v5.thread,
                          IF v1[p] = "setup" THEN {} ELSE { t })
      PROVE  Tools!ToolsInv'
  <2>1. PICK blockers, defects, call, thread :
          /\ blockers = Tools!GatewayBlockers(p) /\ call = "failed" /\ thread = v5.thread
          /\ defects = IF v1[p] = "setup" THEN {} ELSE { t }
          /\ Tools!Called(t, blockers, call, thread, defects)
    BY <1>7
  <2>2. /\ blockers # {} \/ call = "ok"
        /\ defects # {} => \E b \in blockers : b # "gateway_setup"
    BY <1>3, <1>7, <2>1 DEF Tools!GatewayBlockers
  <2>3. \A th \in v5.asked \cup Tools!Asked(t) : th = thread /\ th # NoThread
    BY <1>5, <1>7, <2>1
  <2> QED BY <1>1, <1>3, <2>1, <2>2, <2>3, ToolSmokeGoesOn
<1>8. ASSUME NEW reply \in Tools!Replies(t), NEW named,
             t \in Tools!ThreadBound => v5.thread # NoThread,
             Tools!Called(t, Tools!Blockers(t, reply),
                          IF Tools!Blockers(t, reply) = {} THEN "ok" ELSE "failed",
                          Tools!SelectThread(v5.thread, named),
                          IF reply = "bad" THEN { t } ELSE {})
      PROVE  Tools!ToolsInv'
  <2>1. PICK blockers, defects, call, thread :
          /\ blockers = Tools!Blockers(t, reply)
          /\ call = IF blockers = {} THEN "ok" ELSE "failed"
          /\ thread = Tools!SelectThread(v5.thread, named)
          /\ defects = IF reply = "bad" THEN { t } ELSE {}
          /\ Tools!Called(t, blockers, call, thread, defects)
    BY <1>8
  <2>2. reply = "bad" => \E b \in blockers : b # "gateway_setup"
    <3>1. Tools!Disposition(t) \in { "expected_fail_closed", "successful_dry_run",
                                    "successful_invocation" }
      BY <1>4 DEF Tools!Declared, Tools!Disposition
    <3> QED BY <2>1, <3>1 DEF Tools!Blockers, Tools!InvocationBlockers,
               Tools!DryRunBlockers, Tools!FailClosedBlockers, Tools!PersistedProven,
               Tools!FailClosedProven
  <2>3. \A th \in v5.asked \cup Tools!Asked(t) : th = thread /\ th # NoThread
    <3>1. v5.thread # NoThread => thread = v5.thread
      BY <2>1 DEF Tools!SelectThread
    <3> QED BY <1>5, <1>8, <3>1
  <2>4. /\ blockers # {} \/ call = "ok"
        /\ defects # {} => \E b \in blockers : b # "gateway_setup"
    BY <2>1, <2>2
  <2> QED BY <1>1, <1>3, <2>1, <2>3, <2>4, ToolSmokeGoesOn
<1> QED BY <1>1, <1>2, <1>6, <1>7, <1>8 DEF Tools!CallTool

LEMMA ReportIsWritten ==
  ASSUME Tools!ToolsInv, Tools!WriteSmokeReport
  PROVE  Tools!ToolsInv'
<1>1. PICK p : p = v5.profile
  OBVIOUS
<1>2. PICK report : report = [required |-> v5.required, blockers |-> v5.blockers,
        calls |-> v5.calls, status |-> Tools!SetupStatus(v5.blockers),
        defects |-> v5.defects, asked |-> v5.asked]
  OBVIOUS
<1>3. /\ v5 # NoReport /\ v5.todo = << >> /\ v5' = NoReport
      /\ v7' = [v7 EXCEPT ![p] = report]
      /\ v1' = v1 /\ v3' = v3 /\ v9' = v9
  BY <1>1, <1>2 DEF Tools!WriteSmokeReport, Tools!worldVars
<1>4. Tools!Reported(report)
  <2>1. /\ report.required = v5.required /\ report.blockers = v5.blockers
        /\ report.calls = v5.calls /\ report.status = Tools!SetupStatus(v5.blockers)
        /\ report.defects = v5.defects /\ report.asked = v5.asked
    BY <1>2
  <2>2. Tools!Blamed(report)
    BY <1>3, <2>1 DEF Tools!ToolsInv, Tools!SmokeInv, Tools!Blamed
  <2>3. v5.blockers = {} => \A t \in v5.required : v5.calls[t] = "ok"
    BY <1>3 DEF Tools!ToolsInv, Tools!SmokeInv
  <2>4. \A th, other \in v5.asked : th = other
    BY <1>3 DEF Tools!ToolsInv, Tools!SmokeInv
  <2>5. v5.required \subseteq Tools!Declared
    BY <1>3 DEF Tools!ToolsInv, Tools!TypeInv
  <2> QED BY <2>1, <2>2, <2>3, <2>4, <2>5 DEF Tools!Reported
<1>5. v7 = [q \in Tools!Profiles |-> v7[q]]
  BY DEF Tools!ToolsInv, Tools!TypeInv
<1>6. Tools!TypeInv'
  BY <1>3, <1>5 DEF Tools!ToolsInv, Tools!TypeInv
<1>7. Tools!ReportInv'
  <2>1. ASSUME NEW q \in Tools!Profiles, v7'[q] # NoReport
        PROVE  Tools!Reported(v7'[q])
    <3>1. CASE q = p
      BY <1>3, <1>4, <1>5, <3>1
    <3>2. CASE q # p
      BY <1>3, <1>5, <2>1, <3>2 DEF Tools!ToolsInv, Tools!ReportInv
    <3> QED BY <3>1, <3>2
  <2> QED BY <1>3, <2>1 DEF Tools!ToolsInv, Tools!ReportInv
<1> QED BY <1>3, <1>6, <1>7 DEF Tools!ToolsInv, Tools!SmokeInv

LEMMA PublishedKept ==
  ASSUME Tools!ToolsInv, NEW probe, NEW registryOk, NEW configured \in BOOLEAN,
         Tools!PublishedSmoke(probe, registryOk, configured)
  PROVE  Tools!ToolsInv'
<1>1. PICK clean : clean = v7["clean"]
  OBVIOUS
<1>2. PICK other : other = IF configured THEN v7["configured"] ELSE NoReport
  OBVIOUS
<1>3. PICK ok \in BOOLEAN : ok = Tools!PathOk(clean, probe, registryOk)
  BY DEF Tools!PathOk
<1>4. /\ clean # NoReport
      /\ v9' = [pathOk |-> ok, ready |-> ok /\ clean.blockers = {},
                setup |-> clean.status = "gateway_setup_required",
                configured |-> other # NoReport /\ other.status = "ready",
                also |-> IF other = NoReport THEN {} ELSE other.defects,
                invoked |-> Tools!InvokedTools(other),
                answered |-> Tools!OkTools(other), defects |-> clean.defects]
      /\ v1' = v1 /\ v3' = v3 /\ v5' = v5 /\ v7' = v7
  BY <1>1, <1>2, <1>3 DEF Tools!PublishedSmoke, Tools!worldVars
<1>5. Tools!Reported(clean)
  BY <1>1, <1>4 DEF Tools!ToolsInv, Tools!ReportInv, Tools!Profiles
<1>6. ok => clean.defects = {}
  BY <1>3, <1>5 DEF Tools!PathOk, Tools!Reported, Tools!Blamed, Tools!SetupStatus
<1>7. (other # NoReport /\ other.status = "ready") => other.defects = {}
  <2>1. other # NoReport => Tools!Reported(other)
    BY <1>2 DEF Tools!ToolsInv, Tools!ReportInv, Tools!Profiles
  <2> QED BY <2>1 DEF Tools!Reported, Tools!Blamed, Tools!SetupStatus
<1>8. /\ v9'.pathOk = ok /\ v9'.defects = clean.defects
      /\ v9'.configured = (other # NoReport /\ other.status = "ready")
      /\ v9'.also = IF other = NoReport THEN {} ELSE other.defects
  BY <1>4
<1>9. Tools!ReportInv'
  BY <1>4, <1>6, <1>7, <1>8 DEF Tools!ToolsInv, Tools!ReportInv
<1> QED BY <1>4, <1>9 DEF Tools!ToolsInv, Tools!TypeInv, Tools!SmokeInv

\* What changes neither a smoke nor a report of one.
LEMMA ToolsWorldKept ==
  ASSUME Tools!ToolsInv,
         \/ \E outcome \in Tools!InstallOutcomes, listed \in BOOLEAN :
              Tools!Dogfood(outcome, listed)
         \/ \E policy \in { "full", "public-facade" }, from \in Tools!Profiles,
               withPublished, withDogfood \in BOOLEAN :
              Tools!Coverage(policy, from, withPublished, withDogfood)
         \/ Tools!Change
         \/ UNCHANGED Tools!vars
  PROVE  Tools!ToolsInv'
<1>1. /\ v5' = v5 /\ v7' = v7 /\ v9' = v9
      /\ v3' \in { v3, "new" }
  BY DEF Tools!Dogfood, Tools!Coverage, Tools!Change, Tools!vars, Tools!worldVars,
         Tools!fileVars
<1>2. \A p \in Tools!Profiles : v1'[p] \in { "ready", "setup", "down" }
  <2>1. \/ v1' = v1
        \/ \E p \in Tools!Profiles, g \in { "ready", "setup", "down" } :
             v1' = [v1 EXCEPT ![p] = g]
    BY DEF Tools!Dogfood, Tools!Coverage, Tools!Change, Tools!vars, Tools!worldVars
  <2>2. CASE v1' = v1
    BY <2>2 DEF Tools!ToolsInv, Tools!TypeInv
  <2>3. ASSUME NEW p \in Tools!Profiles, NEW g \in { "ready", "setup", "down" },
               v1' = [v1 EXCEPT ![p] = g], NEW q \in Tools!Profiles
        PROVE  v1'[q] \in { "ready", "setup", "down" }
    <3>1. v1[q] \in { "ready", "setup", "down" }
      BY DEF Tools!ToolsInv, Tools!TypeInv
    <3> QED BY <2>3, <3>1
  <2> QED BY <2>1, <2>2, <2>3
<1>3. Tools!TypeInv'
  BY <1>1, <1>2 DEF Tools!ToolsInv, Tools!TypeInv
<1> QED BY <1>1, <1>3 DEF Tools!ToolsInv, Tools!SmokeInv, Tools!ReportInv

LEMMA ToolsKept ==
  ASSUME Tools!ToolsInv, Tools!Next \/ UNCHANGED Tools!vars
  PROVE  Tools!ToolsInv'
BY ToolSmokeStarts, CallToolKept, ReportIsWritten, PublishedKept, ToolsWorldKept DEF Tools!Next

LEMMA FewAreAsked ==
  ASSUME NEW S, \A x, y \in S : x = y
  PROVE  Tools!Cardinality(S) <= 1
<1>1. Tools!Cardinality(S) = Cardinality(S)
  BY Zenon DEF Tools!Cardinality, Cardinality
<1>2. CASE S = {}
  BY <1>1, <1>2, FS_EmptySet
<1>3. CASE S # {}
  <2>1. PICK x : S = { x }
    BY <1>3
  <2> QED BY <1>1, <2>1, FS_Singleton
<1> QED BY <1>2, <1>3

LEMMA ToolsAreHonest ==
  ASSUME Tools!ToolsInv
  PROVE  Tools!SmokesAreHonest
<1>1. ASSUME NEW p \in Tools!Profiles, NEW r, r = v7[p], r # NoReport, r.status = "ready"
      PROVE  /\ r.required \subseteq Tools!OkTools(r)
             /\ r.defects = {}
             /\ Tools!Cardinality(r.asked) <= 1
  <2>1. Tools!Reported(r)
    BY <1>1 DEF Tools!ToolsInv, Tools!ReportInv
  <2>2. r.blockers = {}
    BY <1>1, <2>1 DEF Tools!Reported, Tools!SetupStatus
  <2>3. r.required \subseteq Tools!OkTools(r)
    BY <1>1, <2>1, <2>2 DEF Tools!Reported, Tools!OkTools
  <2>4. r.defects = {}
    BY <2>1, <2>2 DEF Tools!Reported, Tools!Blamed
  <2>5. Tools!Cardinality(r.asked) <= 1
    BY <2>1, FewAreAsked DEF Tools!Reported
  <2> QED BY <2>3, <2>4, <2>5
<1>2. Tools!ReadySmokeAskedAll
  BY <1>1 DEF Tools!ReadySmokeAskedAll
<1>3. Tools!PathOkHidesNoDefect
  BY DEF Tools!ToolsInv, Tools!ReportInv, Tools!PathOkHidesNoDefect,
         Tools!GaTakesPublished
<1> QED BY <1>2, <1>3 DEF Tools!SmokesAreHonest

\* A tool smoke that says it is ready called all that it had to, of one
\* thread, and each was proven; and no package is taken on a smoke that hides
\* a tool that failed.
THEOREM SmokesTellWhatTheyCalled == HarnessSpec => []SmokesAreHonest
<1>1. HarnessInit => (component = "tools" => Tools!ToolsInv)
  BY StartsOfOne, ToolsStart
<1>2. (component = "tools" => Tools!ToolsInv) /\ [HarnessNext]_vars
        => (component = "tools" => Tools!ToolsInv)'
  BY StepsOfOne, ToolsKept
<1>3. (component = "tools" => Tools!ToolsInv) => SmokesAreHonest
  BY ToolsAreHonest DEF SmokesAreHonest
<1> QED BY <1>1, <1>2, <1>3, PTL DEF HarnessSpec

-----------------------------------------------------------------------------
(* ReleaseEvidence: the launches are v9, the actions v8.                   *)

\* A file that names a launch names the same one when launches are added.
LEMMA LaunchesStay ==
  ASSUME NEW file, Evidence!TypeInv, Evidence!Earned(file),
         v9' = v9 \/ \E l \in Evidence!Launches : v9' = Append(v9, l)
  PROVE  /\ Evidence!Earned(file)'
         /\ v9'[file.launch] = v9[file.launch]
<1>1. file.launch \in 1 .. Len(v9) /\ v9 \in Seq(Evidence!Launches)
  BY DEF Evidence!TypeInv, Evidence!Earned
<1>2. v9'[file.launch] = v9[file.launch] /\ file.launch \in DOMAIN v9'
  BY <1>1
<1> QED BY <1>2 DEF Evidence!Earned

LEMMA EvidenceInit ==
  ASSUME Evidence!Init
  PROVE  Evidence!EvidenceInv
BY DEF Evidence!Init, Evidence!EvidenceInv, Evidence!TypeInv, Evidence!ActingInv,
       Evidence!FilesInv, Evidence!Resting, Evidence!Acts

\* The launch itself, approved by the file that its action has validated.
LEMMA LaunchKept ==
  ASSUME Evidence!EvidenceInv, NEW a \in Actors, Evidence!Launch(a)
  PROVE  Evidence!EvidenceInv'
<1>1. /\ Evidence!TypeInv /\ Evidence!ActingInv /\ Evidence!FilesInv
      /\ v8[a] \in Evidence!Acts /\ v8[a].at = "launch"
      /\ v9 \in Seq(Evidence!Launches) /\ Len(v9) \in Nat
  BY DEF Evidence!EvidenceInv, Evidence!Launch, Evidence!TypeInv
<1>2. PICK amiss \in Evidence!Faults \cup {"nothing"} :
        LET l == [ref |-> v8[a].ref, permitted |-> v8[a].permit.ref, amiss |-> amiss]
        IN /\ v9' = Append(v9, l)
           /\ v8' = [v8 EXCEPT ![a].at = "write",
                       ![a].launch = IF Evidence!ActionReady(l) THEN Len(v9') ELSE 0]
  BY DEF Evidence!Launch
<1> DEFINE l == [ref |-> v8[a].ref, permitted |-> v8[a].permit.ref, amiss |-> amiss]
<1>3. /\ v8[a].ref \in Refs /\ v8[a].permit.ref = v8[a].ref
      /\ l \in Evidence!Launches /\ l.permitted = l.ref
  BY <1>1 DEF Evidence!ActingInv, Evidence!Launches
<1>4. v9' = Append(v9, l) /\ v9' \in Seq(Evidence!Launches)
      /\ Len(v9') = Len(v9) + 1 /\ v9'[Len(v9')] = l
  BY <1>1, <1>2, <1>3
<1> DEFINE n == IF Evidence!ActionReady(l) THEN Len(v9') ELSE 0
<1>5. /\ v8'[a].ref = v8[a].ref /\ v8'[a].permit = v8[a].permit /\ v8'[a].at = "write"
      /\ v8'[a].launch = n
      /\ \A b \in Actors \ {a} : v8'[b] = v8[b]
      /\ v8' \in [Actors -> Evidence!Acts]
  <2>1. n \in Nat
    BY <1>1, <1>4
  <2>2. v8' = [v8 EXCEPT ![a] = [v8[a] EXCEPT !.at = "write", !.launch = n]]
    BY <1>1, <1>2 DEF Evidence!TypeInv
  <2> HIDE DEF l, n
  <2>3. [v8[a] EXCEPT !.at = "write", !.launch = n] \in Evidence!Acts
    BY <1>1, <2>1 DEF Evidence!Acts
  <2> QED BY <1>1, <2>1, <2>2, <2>3 DEF Evidence!TypeInv, Evidence!Acts
<1> HIDE DEF l, n
<1>6. Evidence!TypeInv'
  BY <1>1, <1>4, <1>5 DEF Evidence!TypeInv, Evidence!Launch, Evidence!dirVars
<1>7. ASSUME NEW file, Evidence!Grounded(file)
      PROVE  Evidence!Grounded(file)'
  BY <1>1, <1>3, <1>4, <1>7, LaunchesStay DEF Evidence!Grounded
<1>8. Evidence!ActingInv'
  <2>1. (v8[a].launch # 0 => Evidence!Grounded(v8[a]))'
    <3> SUFFICES ASSUME v8'[a].launch # 0
                 PROVE  Evidence!Grounded(v8[a])'
      OBVIOUS
    <3>1. Evidence!ActionReady(l) /\ v8'[a].launch = Len(v9')
      BY <1>5 DEF n
    <3>2. l.amiss = "nothing" /\ l.ref = v8[a].ref
      BY <3>1 DEF Evidence!ActionReady, l
    <3> QED BY <1>1, <1>3, <1>4, <1>5, <3>1, <3>2 DEF Evidence!Grounded, Evidence!Earned
  <2>2. \A b \in Actors \ {a} :
          (v8[b].at = "write" /\ v8[b].launch # 0 => Evidence!Grounded(v8[b]))'
    <3>1. ASSUME NEW b \in Actors, v8[b].at = "write", v8[b].launch # 0
          PROVE  Evidence!Grounded(v8[b])
      BY <1>1, <3>1 DEF Evidence!ActingInv
    <3>2. ASSUME NEW b \in Actors, NEW file, file = v8[b], Evidence!Grounded(v8[b])
          PROVE  Evidence!Grounded(file)'
      <4>1. Evidence!Grounded(file)
        BY <3>2 DEF Evidence!Grounded, Evidence!Earned
      <4> QED BY <4>1, <1>7
    <3> QED BY <1>5, <3>1, <3>2 DEF Evidence!Grounded, Evidence!Earned
  <2> QED BY <1>1, <1>5, <2>1, <2>2 DEF Evidence!ActingInv
<1>9. Evidence!FilesInv'
  <2>1. v7 # NoFile => /\ v7.launch \in DOMAIN v9' /\ v9'[v7.launch].amiss = "nothing"
                       /\ v9'[v7.launch].ref = v9'[v7.launch].permitted
    <3>1. ASSUME v7 # NoFile
          PROVE  v7.launch \in 1 .. Len(v9) /\ v9'[v7.launch] = v9[v7.launch]
      BY <1>1, <1>3, <1>4, <3>1 DEF Evidence!FilesInv, Evidence!Earned
    <3> QED BY <1>1, <1>4, <3>1 DEF Evidence!FilesInv, Evidence!Earned
  <2> QED BY <1>1, <1>7, <2>1
    DEF Evidence!FilesInv, Evidence!Launch, Evidence!dirVars, Evidence!Grounded, Evidence!Earned
<1> QED BY <1>6, <1>8, <1>9 DEF Evidence!EvidenceInv

\* No other step makes a launch.
LEMMA EvidenceKept ==
  ASSUME Evidence!EvidenceInv, Evidence!Next \/ UNCHANGED Evidence!vars
  PROVE  Evidence!EvidenceInv'
<1> USE DEF Evidence!dirVars
<1>1. Evidence!TypeInv /\ Evidence!ActingInv /\ Evidence!FilesInv
  BY DEF Evidence!EvidenceInv
<1>2. ASSUME v9' = v9, Evidence!TypeInv', Evidence!ActingInv', Evidence!FilesInv'
      PROVE  Evidence!EvidenceInv'
  BY <1>2 DEF Evidence!EvidenceInv
<1>3. ASSUME NEW ref \in Refs, Evidence!Harness(ref)
      PROVE  Evidence!EvidenceInv'
  <2>1. Evidence!TypeInv'
    BY <1>1, <1>3 DEF Evidence!TypeInv, Evidence!Harness, Evidence!Permits
  <2> QED BY <1>1, <1>3, <2>1
    DEF Evidence!EvidenceInv, Evidence!ActingInv, Evidence!FilesInv, Evidence!Grounded,
        Evidence!Earned, Evidence!Harness
<1>4. ASSUME NEW a \in Actors, NEW ref \in Refs, Evidence!CallAction(a, ref)
      PROVE  Evidence!EvidenceInv'
  <2>1. /\ v8' \in [Actors -> Evidence!Acts]
        /\ v8'[a].at = "validate" /\ v8'[a].ref = ref /\ v8'[a].launch = 0
        /\ \A b \in Actors \ {a} : v8'[b] = v8[b]
    BY <1>1, <1>4 DEF Evidence!TypeInv, Evidence!CallAction, Evidence!Resting, Evidence!Acts
  <2>2. Evidence!TypeInv'
    BY <1>1, <1>4, <2>1 DEF Evidence!TypeInv, Evidence!CallAction
  <2>3. Evidence!ActingInv'
    BY <1>1, <1>4, <2>1
    DEF Evidence!ActingInv, Evidence!Grounded, Evidence!Earned, Evidence!CallAction
  <2>4. Evidence!FilesInv'
    BY <1>1, <1>4
    DEF Evidence!FilesInv, Evidence!Grounded, Evidence!Earned, Evidence!CallAction
  <2> QED BY <2>2, <2>3, <2>4 DEF Evidence!EvidenceInv
<1>5. ASSUME NEW a \in Actors, Evidence!Validate(a)
      PROVE  Evidence!EvidenceInv'
  <2>1. PICK at \in IF Evidence!Permitted(a) THEN {"launch", "write"} ELSE {"write"} :
          v8' = [v8 EXCEPT ![a].at = at]
    BY <1>5 DEF Evidence!Validate
  <2>2. /\ v8' \in [Actors -> Evidence!Acts]
        /\ v8'[a].at = at /\ v8'[a].ref = v8[a].ref /\ v8'[a].permit = v8[a].permit
        /\ v8'[a].launch = v8[a].launch
        /\ \A b \in Actors \ {a} : v8'[b] = v8[b]
    BY <1>1, <2>1 DEF Evidence!TypeInv, Evidence!Acts
  <2>3. at = "launch" => v8[a].permit \in Evidence!Permits /\ v8[a].permit.ref = v8[a].ref
    BY <1>1, <2>1 DEF Evidence!TypeInv, Evidence!Acts, Evidence!Permitted
  <2>4. v8[a].ref \in Refs
    BY <1>1, <1>5 DEF Evidence!ActingInv, Evidence!Validate
  <2>5. v8[a].launch = 0
    BY <1>1, <1>5 DEF Evidence!ActingInv, Evidence!Validate
  <2> QED BY <1>1, <1>5, <2>2, <2>3, <2>4, <2>5
    DEF Evidence!EvidenceInv, Evidence!TypeInv, Evidence!ActingInv, Evidence!FilesInv,
        Evidence!Grounded, Evidence!Earned, Evidence!Validate
<1>6. ASSUME NEW a \in Actors, Evidence!WriteObservation(a)
      PROVE  Evidence!EvidenceInv'
  <2>1. v5' # NoFile => Evidence!Grounded(v5')
    BY <1>1, <1>6
    DEF Evidence!WriteObservation, Evidence!Observation, Evidence!ActingInv,
        Evidence!Grounded, Evidence!Earned
  <2>2. /\ v8' \in [Actors -> Evidence!Acts] /\ v8'[a].at = "idle"
        /\ \A b \in Actors \ {a} : v8'[b] = v8[b]
    BY <1>1, <1>6
    DEF Evidence!TypeInv, Evidence!WriteObservation, Evidence!Resting, Evidence!Acts
  <2> QED BY <1>1, <1>6, <2>1, <2>2
    DEF Evidence!EvidenceInv, Evidence!TypeInv, Evidence!ActingInv, Evidence!FilesInv,
        Evidence!Grounded, Evidence!Earned, Evidence!WriteObservation
<1>7. ASSUME NEW a \in Actors, Evidence!DieActing(a)
      PROVE  Evidence!EvidenceInv'
  <2>1. /\ v8' \in [Actors -> Evidence!Acts] /\ v8'[a].at = "idle"
        /\ \A b \in Actors \ {a} : v8'[b] = v8[b]
    BY <1>1, <1>7 DEF Evidence!TypeInv, Evidence!DieActing, Evidence!Resting, Evidence!Acts
  <2> QED BY <1>1, <1>7, <2>1
    DEF Evidence!EvidenceInv, Evidence!TypeInv, Evidence!ActingInv, Evidence!FilesInv,
        Evidence!Grounded, Evidence!Earned, Evidence!DieActing
<1>8. CASE Evidence!Report
  BY <1>1, <1>8
  DEF Evidence!EvidenceInv, Evidence!TypeInv, Evidence!ActingInv, Evidence!FilesInv,
      Evidence!Grounded, Evidence!Earned, Evidence!Report
<1>9. CASE \/ Evidence!ReadApproval \/ Evidence!Conclude \/ Evidence!LoseKey
           \/ Evidence!TimePasses \/ UNCHANGED Evidence!vars
  BY <1>1, <1>9
  DEF Evidence!EvidenceInv, Evidence!TypeInv, Evidence!ActingInv, Evidence!FilesInv,
      Evidence!Grounded, Evidence!Earned, Evidence!ReadApproval, Evidence!Conclude,
      Evidence!LoseKey, Evidence!TimePasses, Evidence!vars
<1> QED BY <1>3, <1>4, <1>5, <1>6, <1>7, <1>8, <1>9, LaunchKept DEF Evidence!Next

(***************************************************************************)
(* A release that is ready to claim the desktop, and every approval and    *)
(* proof a later status may read, rests on a launch that was approved and  *)
(* borne out, whichever processes wrote over each other's files.           *)
(***************************************************************************)
THEOREM ReadinessIsEarned == HarnessSpec => []ReadyIsEarned
<1> DEFINE I == component = "evidence" => Evidence!EvidenceInv
<1>1. HarnessInit => I
  BY StartsOfOne, EvidenceInit
<1>2. I /\ [HarnessNext]_vars => I'
  BY StepsOfOne, EvidenceKept
<1>3. I => ReadyIsEarned
  BY DEF ReadyIsEarned, Evidence!ReadyIsEarned, Evidence!EvidenceInv, Evidence!FilesInv,
         Evidence!Grounded
<1> QED BY <1>1, <1>2, <1>3, PTL DEF HarnessSpec

-----------------------------------------------------------------------------
(* DualPublish: the registry is v1, the dist-tags v2, what is visible v3,  *)
(* the steps v4, the builds v5, what is kept v6 and what was found v7.     *)

\* A run moves to another step, and publishes nothing.
LEMMA DualMoves ==
  ASSUME Dual!AlikeInv, NEW v \in Releases, NEW s \in Dual!Steps,
         v4' = [v4 EXCEPT ![v] = s], UNCHANGED << v1, v2, v3 >>,
         v5' \in [Releases -> Nat], v6' \in [Releases -> Nat],
         v7' \in [Releases -> [Dual!Names -> {"unknown", "matching", "missing"}]],
         \A w \in Releases \ {v} : v6'[w] = v6[w] /\ v7'[w] = v7[w],
         Dual!RunInv(v)',
         s[1] = "green" =>
           v2["compatibility"] = v /\ Dual!At(v, "verify", "compatibility"),
         (s[1] = "verify" /\ s[2] = "compatibility") => v2["canonical"] = v
  PROVE  Dual!AlikeInv'
<1>1. /\ Dual!TypeInv /\ Dual!RegistryInv /\ Dual!TagInv
      /\ \A w \in Releases : Dual!RunInv(w)
  BY DEF Dual!AlikeInv
<1>2. v4'[v] = s /\ \A w \in Releases \ {v} : v4'[w] = v4[w]
  BY <1>1 DEF Dual!TypeInv
<1>3. Dual!TypeInv'
  BY <1>1 DEF Dual!TypeInv
<1>4. ASSUME NEW w \in Releases
      PROVE  Dual!RunInv(w)'
  <2>1. CASE w = v
    BY <2>1
  <2>2. CASE w # v
    BY <1>1, <1>2, <2>2
    DEF Dual!RunInv, Dual!Rechecked, Dual!Placed, Dual!Kept, Dual!At
  <2> QED BY <2>1, <2>2
<1>5. Dual!RegistryInv'
  BY <1>1 DEF Dual!RegistryInv
<1>6. Dual!TagInv'
  BY <1>1, <1>2 DEF Dual!TagInv, Dual!At
<1> QED BY <1>3, <1>4, <1>5, <1>6 DEF Dual!AlikeInv

\* A run publishes a name: the build it has kept, under a version that has none.
LEMMA DualPublishes ==
  ASSUME Dual!AlikeInv, NEW v \in Releases, NEW n \in Dual!Names, NEW next \in Dual!Steps,
         Dual!Publish(v, n, next),
         \/ n = "canonical" /\ next = << "publish", "compatibility" >>
         \/ n = "compatibility" /\ next = << "verify", "canonical" >>
  PROVE  Dual!AlikeInv'
<1>1. /\ Dual!TypeInv /\ Dual!RegistryInv /\ Dual!TagInv
      /\ \A w \in Releases : Dual!RunInv(w)
  BY DEF Dual!AlikeInv
<1>2. PICK s \in {next, << "failed", "publish" >>} : v4' = [v4 EXCEPT ![v] = s]
  BY DEF Dual!Publish
<1>3. /\ v4[v] = << "publish", n >> /\ v7[v][n] = "missing" /\ v1[n][v] = 0
      /\ v1' = [v1 EXCEPT ![n][v] = v6[v]] /\ v2' = [v2 EXCEPT ![n] = v]
      /\ UNCHANGED << v3, v5, v6, v7 >>
  BY DEF Dual!Publish
<1>4. /\ v4'[v] = s /\ (\A w \in Releases \ {v} : v4'[w] = v4[w])
      /\ v1'[n][v] = v6[v]
      /\ \A m \in Dual!Names, w \in Releases : m # n \/ w # v => v1'[m][w] = v1[m][w]
      /\ v2'[n] = v /\ (\A m \in Dual!Names \ {n} : v2'[m] = v2[m])
      /\ s \in Dual!Steps
  BY <1>1, <1>2, <1>3 DEF Dual!TypeInv, Dual!Steps
<1>5. Dual!TypeInv'
  BY <1>1, <1>2, <1>3, <1>4 DEF Dual!TypeInv
<1>6. v6[v] # 0 /\ v6[v] \in Nat
  BY <1>1, <1>3 DEF Dual!RunInv, Dual!TypeInv
<1>7. ASSUME NEW w \in Releases
      PROVE  Dual!RunInv(w)'
  <2>1. CASE w # v
    BY <1>1, <1>3, <1>4, <2>1
    DEF Dual!RunInv, Dual!Rechecked, Dual!Placed, Dual!Kept, Dual!At
  <2>2. CASE w = v
    <3>1. \A m \in Dual!Names \ {n} : Dual!Rechecked(m, v) /\ v7[v][m] = "matching" => Dual!Kept(m, v)
      BY <1>1 DEF Dual!RunInv
    <3>2. \A m \in Dual!Names : Dual!Placed(m, v)' => m = n \/ Dual!Placed(m, v)
      BY <1>2, <1>3, <1>4 DEF Dual!Placed, Dual!At, Dual!Names
    <3>3. \A m \in Dual!Names : Dual!Rechecked(m, v)
      BY <1>3 DEF Dual!Rechecked
    <3>4. \A m \in Dual!Names : m = n \/ Dual!Kept(m, v) => Dual!Kept(m, v)'
      BY <1>3, <1>4, <1>6 DEF Dual!Kept
    <3> QED BY <1>1, <1>3, <1>6, <2>2, <3>1, <3>2, <3>3, <3>4 DEF Dual!RunInv
  <2> QED BY <2>1, <2>2
<1>8. Dual!RegistryInv'
  <2>1. \A m \in Dual!Names, w \in Releases :
          /\ v1'[m][w] # 0 => v2'[m] \in Releases
          /\ << m, w >> \in v3 => v1'[m][w] # 0
    <3> SUFFICES ASSUME NEW m \in Dual!Names, NEW w \in Releases
                 PROVE  /\ v1'[m][w] # 0 => v2'[m] \in Releases
                        /\ << m, w >> \in v3 => v1'[m][w] # 0
      OBVIOUS
    <3>1. v1[m][w] # 0 => v2[m] \in Releases
      BY <1>1 DEF Dual!RegistryInv
    <3>2. << m, w >> \in v3 => v1[m][w] # 0
      BY <1>1 DEF Dual!RegistryInv
    <3>3. v1'[m][w] = IF m = n /\ w = v THEN v6[v] ELSE v1[m][w]
      BY <1>4
    <3>4. v2'[m] = IF m = n THEN v ELSE v2[m]
      BY <1>4
    <3> QED BY <1>6, <3>1, <3>2, <3>3, <3>4
  <2>2. ASSUME NEW w \in Releases, v1'["compatibility"][w] # 0
        PROVE  v1'["compatibility"][w] = v1'["canonical"][w]
    <3>1. CASE w # v
      BY <1>1, <1>4, <2>2, <3>1 DEF Dual!RegistryInv, Dual!Names
    <3>2. CASE w = v /\ n = "canonical"
      BY <1>1, <1>3, <1>4, <2>2, <3>2 DEF Dual!RegistryInv, Dual!Names
    <3>3. CASE w = v /\ n = "compatibility"
      <4>1. Dual!Placed("canonical", v)
        BY <1>3, <3>3 DEF Dual!Placed, Dual!At
      <4>2. Dual!Kept("canonical", v)
        BY <1>1, <4>1 DEF Dual!RunInv, Dual!Names
      <4> QED BY <1>4, <3>3, <4>2 DEF Dual!Kept, Dual!Names
    <3> QED BY <3>1, <3>2, <3>3 DEF Dual!Names
  <2> QED BY <1>3, <2>1, <2>2 DEF Dual!RegistryInv
<1>9. Dual!TagInv'
  <2>1. s[1] # "green" /\ ~(s[1] = "verify" /\ s[2] = "compatibility")
    BY <1>2
  <2> QED BY <1>1, <1>4, <2>1 DEF Dual!TagInv, Dual!At, Dual!Names
<1> QED BY <1>5, <1>7, <1>8, <1>9 DEF Dual!AlikeInv

LEMMA DualInit ==
  ASSUME Dual!Init
  PROVE  Dual!AlikeInv
<1>1. Dual!TypeInv
  BY DEF Dual!Init, Dual!TypeInv, Dual!Steps
<1> QED BY <1>1
    DEF Dual!Init, Dual!AlikeInv, Dual!RunInv, Dual!Rechecked, Dual!Placed, Dual!At,
        Dual!RegistryInv, Dual!TagInv, Dual!Names

LEMMA DualKept ==
  ASSUME Dual!AlikeInv, Dual!Next \/ UNCHANGED Dual!vars
  PROVE  Dual!AlikeInv'
<1> USE DEF Dual!npm
<1>1. /\ Dual!TypeInv /\ Dual!RegistryInv /\ Dual!TagInv
      /\ \A w \in Releases : Dual!RunInv(w)
  BY DEF Dual!AlikeInv
<1>2. ASSUME NEW v \in Releases, Dual!Prepare(v)
      PROVE  Dual!AlikeInv'
  <2>1. << "unused", "canonical" >> \in Dual!Steps
    BY DEF Dual!Steps, Dual!Names
  <2>2. v4'[v] = << "unused", "canonical" >>
    BY <1>1, <1>2 DEF Dual!TypeInv, Dual!Prepare
  <2>3. Dual!RunInv(v)'
    BY <2>2 DEF Dual!RunInv, Dual!Rechecked, Dual!Placed, Dual!At
  <2>4. v5' \in [Releases -> Nat]
    BY <1>1, <1>2 DEF Dual!TypeInv, Dual!Prepare
  <2> QED BY <1>1, <1>2, <2>1, <2>3, <2>4, DualMoves DEF Dual!TypeInv, Dual!Prepare
<1>3. ASSUME NEW v \in Releases, NEW n \in Dual!Names, NEW next \in Dual!Steps,
             Dual!CheckUnused(v, n, next), next[1] \in {"unused", "download"}
      PROVE  Dual!AlikeInv'
  <2>1. v4'[v] = next
    BY <1>1, <1>3 DEF Dual!TypeInv, Dual!CheckUnused
  <2>2. Dual!RunInv(v)'
    BY <1>3, <2>1 DEF Dual!RunInv, Dual!Rechecked, Dual!Placed, Dual!At
  <2>3. v6' \in [Releases -> Nat] /\ \A w \in Releases \ {v} : v6'[w] = v6[w]
    BY <1>1, <1>3 DEF Dual!TypeInv, Dual!CheckUnused
  <2> QED BY <1>1, <1>3, <2>2, <2>3, DualMoves DEF Dual!TypeInv, Dual!CheckUnused
<1>4. ASSUME NEW v \in Releases, Dual!Download(v)
      PROVE  Dual!AlikeInv'
  <2>1. << "recheck", "canonical" >> \in Dual!Steps
    BY DEF Dual!Steps, Dual!Names
  <2>2. v4'[v] = << "recheck", "canonical" >>
    BY <1>1, <1>4 DEF Dual!TypeInv, Dual!Download
  <2>3. Dual!RunInv(v)'
    BY <1>4, <2>2 DEF Dual!RunInv, Dual!Rechecked, Dual!Placed, Dual!At, Dual!Download
  <2> QED BY <1>1, <1>4, <2>1, <2>3, DualMoves DEF Dual!TypeInv, Dual!Download
<1>5. ASSUME NEW v \in Releases, NEW n \in Dual!Names, NEW next \in Dual!Steps,
             Dual!Recheck(v, n, next),
             \/ n = "canonical" /\ next = << "recheck", "compatibility" >>
             \/ n = "compatibility" /\ next = << "publish", "canonical" >>
      PROVE  Dual!AlikeInv'
  <2>1. v4'[v] = next /\ v4[v] = << "recheck", n >>
    BY <1>1, <1>5 DEF Dual!TypeInv, Dual!Recheck
  <2>2. /\ v7' \in [Releases -> [Dual!Names -> {"unknown", "matching", "missing"}]]
        /\ \A w \in Releases \ {v} : v7'[w] = v7[w]
        /\ \A m \in Dual!Names \ {n} : v7'[v][m] = v7[v][m]
        /\ v7'[v][n] = IF Dual!Published(n, v) THEN "matching" ELSE "missing"
    BY <1>1, <1>5 DEF Dual!TypeInv, Dual!Recheck
  <2>3. v6[v] # 0
    BY <1>1, <2>1 DEF Dual!RunInv
  <2>4. v7'[v][n] = "matching" => Dual!Kept(n, v)
    BY <1>5, <2>2, <2>3 DEF Dual!Recheck, Dual!Matches, Dual!Kept
  <2>5. \A m \in Dual!Names : Dual!Rechecked(m, v)' => m = n \/ Dual!Rechecked(m, v)
    BY <1>5, <2>1 DEF Dual!Rechecked, Dual!At, Dual!Names
  <2>6. \A m \in Dual!Names : ~Dual!Placed(m, v)'
    BY <1>5, <2>1 DEF Dual!Placed, Dual!At
  <2>7. \A m \in Dual!Names : Dual!Kept(m, v)' = Dual!Kept(m, v)
    BY <1>5 DEF Dual!Recheck, Dual!Kept
  <2>8. \A m \in Dual!Names : (Dual!Rechecked(m, v) /\ v7[v][m] = "matching" => Dual!Kept(m, v))'
    <3>1. ASSUME NEW m \in Dual!Names, Dual!Rechecked(m, v)', v7'[v][m] = "matching"
          PROVE  Dual!Kept(m, v)
      BY <1>1, <2>2, <2>4, <2>5, <3>1 DEF Dual!RunInv
    <3> QED BY <2>7, <3>1
  <2>9. Dual!RunInv(v)'
    BY <1>5, <2>3, <2>6, <2>8 DEF Dual!RunInv, Dual!Recheck
  <2>10. next[1] # "green" /\ next[1] # "verify"
    BY <1>5
  <2> QED BY <1>1, <1>5, <2>2, <2>9, <2>10, DualMoves DEF Dual!TypeInv, Dual!Recheck
<1>6. ASSUME NEW v \in Releases, NEW n \in Dual!Names, NEW next \in Dual!Steps,
             Dual!Done(v, n, next),
             \/ n = "canonical" /\ next = << "publish", "compatibility" >>
             \/ n = "compatibility" /\ next = << "verify", "canonical" >>
      PROVE  Dual!AlikeInv'
  <2>1. v4'[v] = next /\ v4[v] = << "publish", n >> /\ v7[v][n] = "matching"
    BY <1>1, <1>6 DEF Dual!TypeInv, Dual!Done
  <2>2. \A m \in Dual!Names : Dual!Rechecked(m, v)
    BY <2>1 DEF Dual!Rechecked
  <2>3. \A m \in Dual!Names : Dual!Placed(m, v)' => m = n \/ Dual!Placed(m, v)
    BY <1>6, <2>1 DEF Dual!Placed, Dual!At, Dual!Names
  <2>4. v6[v] # 0
    BY <1>1, <2>1 DEF Dual!RunInv
  <2>5. \A m \in Dual!Names : m = n \/ Dual!Placed(m, v) \/ v7[v][m] = "matching" => Dual!Kept(m, v)
    BY <1>1, <2>1, <2>2 DEF Dual!RunInv
  <2>6. \A m \in Dual!Names : Dual!Kept(m, v)' = Dual!Kept(m, v)
    BY <1>6 DEF Dual!Done, Dual!Kept
  <2>7. Dual!RunInv(v)'
    BY <1>6, <2>3, <2>4, <2>5, <2>6 DEF Dual!RunInv, Dual!Done
  <2>8. next[1] # "green" /\ ~(next[1] = "verify" /\ next[2] = "compatibility")
    BY <1>6
  <2> QED BY <1>1, <1>6, <2>7, <2>8, DualMoves DEF Dual!TypeInv, Dual!Done
<1>7. ASSUME NEW v \in Releases, NEW n \in Dual!Names, NEW next \in Dual!Steps,
             Dual!Verify(v, n, next),
             \/ n = "canonical" /\ next = << "verify", "compatibility" >>
             \/ n = "compatibility" /\ next = << "green" >>
      PROVE  Dual!AlikeInv'
  <2>1. v4'[v] = next /\ v4[v] = << "verify", n >>
    BY <1>1, <1>7 DEF Dual!TypeInv, Dual!Verify
  <2>2. \A m \in Dual!Names : Dual!Placed(m, v)
    BY <2>1 DEF Dual!Placed
  <2>3. v6[v] # 0 /\ \A m \in Dual!Names : Dual!Kept(m, v)
    BY <1>1, <2>1, <2>2 DEF Dual!RunInv
  <2>4. \A m \in Dual!Names : Dual!Kept(m, v)'
    BY <1>7, <2>3 DEF Dual!Verify, Dual!Kept
  <2>5. Dual!RunInv(v)'
    BY <1>7, <2>3, <2>4 DEF Dual!RunInv, Dual!Verify
  <2>6. v2[n] = v
    BY <1>7 DEF Dual!Verify, Dual!Matches
  <2>7. /\ next[1] = "green" => v2["compatibility"] = v /\ Dual!At(v, "verify", "compatibility")
        /\ (next[1] = "verify" /\ next[2] = "compatibility") => v2["canonical"] = v
    BY <1>7, <2>1, <2>6 DEF Dual!At
  <2> QED BY <1>1, <1>7, <2>5, <2>7, DualMoves DEF Dual!TypeInv, Dual!Verify
<1>8. ASSUME NEW v \in Releases, NEW s \in Dual!Steps, v4' = [v4 EXCEPT ![v] = s],
             s[1] \in {"failed", "prepare", "download"},
             UNCHANGED << v1, v2, v3, v5, v6, v7 >>
      PROVE  Dual!AlikeInv'
  <2>1. v4'[v] = s
    BY <1>1, <1>8 DEF Dual!TypeInv
  <2>2. Dual!RunInv(v)'
    BY <1>8, <2>1 DEF Dual!RunInv, Dual!Rechecked, Dual!Placed, Dual!At
  <2> QED BY <1>1, <1>8, <2>2, DualMoves DEF Dual!TypeInv
<1>9. ASSUME NEW v \in Releases, Dual!Fail(v)
      PROVE  Dual!AlikeInv'
  <2>1. << "failed", Dual!Job(v) >> \in Dual!Steps
    BY DEF Dual!Steps, Dual!Job
  <2> QED BY <1>8, <1>9, <2>1 DEF Dual!Fail
<1>10. ASSUME NEW v \in Releases, NEW from \in {<< "prepare" >>, << "download" >>},
              Dual!Rerun(v, from)
       PROVE  Dual!AlikeInv'
  <2>1. from \in Dual!Steps /\ from[1] \in {"prepare", "download"}
    BY DEF Dual!Steps
  <2> QED BY <1>8, <1>10, <2>1 DEF Dual!Rerun
<1>11. ASSUME NEW n \in Dual!Names, NEW v \in Releases, Dual!Propagate(n, v)
       PROVE  Dual!AlikeInv'
  <2>1. Dual!RegistryInv'
    BY <1>1, <1>11 DEF Dual!RegistryInv, Dual!Propagate
  <2> QED BY <1>1, <1>11, <2>1
      DEF Dual!AlikeInv, Dual!TypeInv, Dual!RunInv, Dual!Rechecked, Dual!Placed, Dual!Kept,
          Dual!At, Dual!TagInv, Dual!Propagate
<1>12. CASE UNCHANGED Dual!vars
  BY <1>1, <1>12
  DEF Dual!AlikeInv, Dual!TypeInv, Dual!RunInv, Dual!Rechecked, Dual!Placed, Dual!Kept,
      Dual!At, Dual!RegistryInv, Dual!TagInv, Dual!vars
<1>13. /\ "canonical" \in Dual!Names /\ "compatibility" \in Dual!Names
       /\ << "unused", "compatibility" >> \in Dual!Steps /\ << "download" >> \in Dual!Steps
       /\ << "recheck", "compatibility" >> \in Dual!Steps
       /\ << "publish", "canonical" >> \in Dual!Steps
       /\ << "publish", "compatibility" >> \in Dual!Steps
       /\ << "verify", "canonical" >> \in Dual!Steps
       /\ << "verify", "compatibility" >> \in Dual!Steps /\ << "green" >> \in Dual!Steps
  BY DEF Dual!Steps, Dual!Names
<1>14. ASSUME NEW v \in Releases,
              \/ Dual!CheckUnused(v, "canonical", << "unused", "compatibility" >>)
              \/ Dual!CheckUnused(v, "compatibility", << "download" >>)
              \/ Dual!Recheck(v, "canonical", << "recheck", "compatibility" >>)
              \/ Dual!Recheck(v, "compatibility", << "publish", "canonical" >>)
       PROVE  Dual!AlikeInv'
  BY <1>3, <1>5, <1>13, <1>14
<1>15. ASSUME NEW v \in Releases,
              \/ Dual!Done(v, "canonical", << "publish", "compatibility" >>)
              \/ Dual!Done(v, "compatibility", << "verify", "canonical" >>)
              \/ Dual!Publish(v, "canonical", << "publish", "compatibility" >>)
              \/ Dual!Publish(v, "compatibility", << "verify", "canonical" >>)
       PROVE  Dual!AlikeInv'
  BY <1>6, <1>13, <1>15, DualPublishes
<1>16. ASSUME NEW v \in Releases,
              \/ Dual!Verify(v, "canonical", << "verify", "compatibility" >>)
              \/ Dual!Verify(v, "compatibility", << "green" >>)
       PROVE  Dual!AlikeInv'
  BY <1>7, <1>13, <1>16
<1> QED BY <1>2, <1>4, <1>9, <1>10, <1>11, <1>12, <1>14, <1>15, <1>16 DEF Dual!Next

(***************************************************************************)
(* A release is the same build under both its names, and once every run is *)
(* green both names' dist-tags are on the same version: for any number of  *)
(* versions whose runs overlap, fail and are run again.                    *)
(***************************************************************************)
THEOREM BothNamesStayAlike == HarnessSpec => []NamesStayAlike
<1> DEFINE I == component = "publish" => Dual!AlikeInv
<1>1. HarnessInit => I
  BY StartsOfOne, DualInit
<1>2. I /\ [HarnessNext]_vars => I'
  BY StepsOfOne, DualKept
<1>3. Dual!AlikeInv => Dual!NamesStayAlike
  <2> SUFFICES ASSUME Dual!AlikeInv
               PROVE  Dual!NamesStayAlike
    OBVIOUS
  <2>1. /\ Dual!TypeInv /\ Dual!RegistryInv /\ Dual!TagInv
        /\ \A w \in Releases : Dual!RunInv(w)
    BY DEF Dual!AlikeInv
  <2>2. ASSUME NEW v \in Releases, v4[v] = << "green" >>
        PROVE  v4[v][1] = "green" /\ \A n \in Dual!Names : v1[n][v] # 0
    BY <2>1, <2>2 DEF Dual!RunInv, Dual!Placed, Dual!Kept
  <2>3. ASSUME \A v \in Releases : v4[v] = << "green" >>
        PROVE  v2["canonical"] = v2["compatibility"]
    <3>1. CASE Releases = {}
      BY <2>1, <3>1 DEF Dual!TypeInv, Dual!Names
    <3>2. CASE Releases # {}
      <4>1. v2["canonical"] \in Releases /\ v2["compatibility"] \in Releases
        BY <2>1, <2>2, <2>3, <3>2 DEF Dual!RegistryInv, Dual!Names
      <4> QED BY <2>1, <2>2, <2>3, <4>1 DEF Dual!TagInv
    <3> QED BY <3>1, <3>2
  <2> QED BY <2>1, <2>2, <2>3 DEF Dual!NamesStayAlike, Dual!RegistryInv, Dual!Names
<1>4. I => NamesStayAlike
  BY <1>3 DEF NamesStayAlike
<1> QED BY <1>1, <1>2, <1>4, PTL DEF HarnessSpec

-----------------------------------------------------------------------------
(* McpSession: the phase is v1, the requests' status v2, what they got v3, *)
(* the lines v4, the answers v5, what is asked v6; the server v7, its      *)
(* runtime v8, leaky v9, tools at work v10, faults v11 and v12.          *)

\* The server reads a line, and sets to work at it or answers it.
LEMMA McpReads ==
  ASSUME Mcp!SessionInv, NEW h, h = Head(v4), v4 # << >>, v4' = Tail(v4),
         UNCHANGED << v1, v2, v3, v6, v7, v11 >>,
         v8' \in BOOLEAN,
         \/ v9' = v9
         \/ h # 0 /\ v9' = v9 \cup {h} /\ v10' = v10,
         \/ v10' = v10
         \/ v10' = v10 \cup {h} /\ h # 0 /\ v6[h] = "call" /\ v5' = v5,
         \/ v12' = v12
         \/ h # 0 /\ v12' = [v12 EXCEPT ![h] = v11],
         \/ v5' = v5
         \/ h # 0 /\ \E what \in Mcp!Words :
              /\ v5' = Append(v5, [id |-> h, what |-> what])
              /\ what # "error" => Mcp!Suits(h, what)'
  PROVE  Mcp!SessionInv'
<1>1. /\ Mcp!TypeInv /\ Mcp!LinesInv /\ Mcp!AnswersInv
  BY DEF Mcp!SessionInv
<1>2. /\ v4 \in Seq(Mcp!Requests \cup {0}) /\ 1 \in DOMAIN v4 /\ h = v4[1]
      /\ h \in Mcp!Requests \cup {0}
      /\ v4' \in Seq(Mcp!Requests \cup {0})
      /\ \A i \in DOMAIN v4' : i + 1 \in DOMAIN v4 /\ v4'[i] = v4[i + 1] /\ i \in Nat
  BY <1>1 DEF Mcp!TypeInv
<1>3. h # 0 => /\ v2[h] \in {"pending", "error"} /\ h \notin v10 \cup v9
               /\ \A j \in DOMAIN v5 : v5[j].id # h
  BY <1>1, <1>2 DEF Mcp!LinesInv
<1>4. \A i \in DOMAIN v4' : v4'[i] # 0 => v4'[i] # h
  <2> SUFFICES ASSUME NEW i \in DOMAIN v4', v4'[i] # 0, v4'[i] = h
               PROVE  FALSE
    OBVIOUS
  <2>1. i + 1 \in DOMAIN v4 /\ v4[i + 1] = v4[1] /\ v4[1] # 0 /\ 1 \in DOMAIN v4 /\ i \in Nat \ {0}
    BY <1>2
  <2>2. i + 1 = 1
    BY <1>1, <2>1 DEF Mcp!LinesInv
  <2> QED BY <2>1, <2>2
<1>5. \/ v5' = v5
      \/ \E what \in Mcp!Words :
           /\ h \in Mcp!Requests /\ v5' = Append(v5, [id |-> h, what |-> what])
           /\ what # "error" => Mcp!Suits(h, what)'
  BY <1>2
<1>6. v5 \in Seq(Mcp!Replies)
  BY <1>1 DEF Mcp!TypeInv
<1>7. /\ v5' \in Seq(Mcp!Replies)
      /\ \A j \in DOMAIN v5' :
           \/ j \in DOMAIN v5 /\ v5'[j] = v5[j]
           \/ /\ v5'[j].id = h /\ h # 0 /\ h \in Mcp!Requests
              /\ \A what : v5'[j].what = what /\ what # "error" => Mcp!Suits(h, what)'
  <2>1. CASE v5' = v5
    BY <1>6, <2>1
  <2>2. ASSUME NEW word \in Mcp!Words, h \in Mcp!Requests,
               v5' = Append(v5, [id |-> h, what |-> word]),
               word # "error" => Mcp!Suits(h, word)'
        PROVE  /\ v5' \in Seq(Mcp!Replies)
               /\ \A j \in DOMAIN v5' :
                    \/ j \in DOMAIN v5 /\ v5'[j] = v5[j]
                    \/ /\ v5'[j].id = h /\ h # 0 /\ h \in Mcp!Requests
                       /\ \A what : v5'[j].what = what /\ what # "error" => Mcp!Suits(h, what)'
    <3>1. [id |-> h, what |-> word] \in Mcp!Replies /\ h # 0
      BY <2>2 DEF Mcp!Requests, Mcp!Replies
    <3> QED BY <1>6, <2>2, <3>1
  <2> QED BY <1>5, <2>1, <2>2
<1>8. /\ v10' \subseteq Mcp!Requests
      /\ \A r \in v10' : r \in v10 \/ (r = h /\ h # 0 /\ v6[h] = "call")
  BY <1>1, <1>2 DEF Mcp!TypeInv
<1>9. /\ v12' \in [Mcp!Requests -> Mcp!Faults]
      /\ \A r \in Mcp!Requests : r # h \/ h = 0 => v12'[r] = v12[r]
  BY <1>1 DEF Mcp!TypeInv
<1>9a. /\ v9' \subseteq Mcp!Requests
       /\ \A r \in v9' : r \in v9 \/ (r = h /\ h # 0 /\ v10' = v10)
  BY <1>1, <1>2 DEF Mcp!TypeInv
<1>10. Mcp!TypeInv'
  BY <1>1, <1>2, <1>7, <1>8, <1>9, <1>9a DEF Mcp!TypeInv
<1>11. Mcp!LinesInv'
  <2>1. ASSUME NEW i \in DOMAIN v4', v4'[i] # 0
        PROVE  /\ v2[v4'[i]] \in {"pending", "error"} /\ v4'[i] \notin v10' \cup v9'
               /\ \A j \in DOMAIN v4' : v4'[j] = v4'[i] => j = i
               /\ \A j \in DOMAIN v5' : v5'[j].id # v4'[i]
    <3>1. /\ v2[v4'[i]] \in {"pending", "error"} /\ v4'[i] \notin v10 \cup v9
          /\ \A j \in DOMAIN v4 : v4[j] = v4'[i] => j = i + 1
          /\ \A j \in DOMAIN v5 : v5[j].id # v4'[i]
      BY <1>1, <1>2, <2>1 DEF Mcp!LinesInv
    <3>2. v4'[i] # h
      BY <1>4, <2>1
    <3>3. ASSUME NEW j \in DOMAIN v4', v4'[j] = v4'[i]
          PROVE  j = i
      BY <1>2, <2>1, <3>1, <3>3
    <3> QED BY <1>7, <1>8, <1>9a, <3>1, <3>2, <3>3
  <2>2. v7' # "up" => v4' = << >>
    BY <1>1 DEF Mcp!LinesInv
  <2> QED BY <2>1, <2>2 DEF Mcp!LinesInv
<1>12. \A r \in Mcp!Requests : \A what :
         (r # h \/ h = 0) /\ Mcp!Suits(r, what) => Mcp!Suits(r, what)'
  BY <1>9, <1>9a DEF Mcp!Suits
<1>13. Mcp!AnswersInv'
  <2>1. \A r \in v10' : v2'[r] # "new" /\ v6'[r] = "call" /\ r \notin v9'
    BY <1>1, <1>3, <1>8, <1>9a DEF Mcp!AnswersInv
  <2>1a. \A r \in v9' : v2'[r] # "new"
    BY <1>1, <1>3, <1>9a DEF Mcp!AnswersInv
  <2>2. ASSUME NEW j \in DOMAIN v5'
        PROVE  /\ v2'[v5'[j].id] # "new"
               /\ \A what : v5'[j].what = what /\ what # "error" =>
                            Mcp!Suits(v5[j].id, what)'
    <3>1. CASE j \in DOMAIN v5 /\ v5'[j] = v5[j]
      <4>1. v5[j].id \in Mcp!Requests
        <5>1. v5[j] \in Mcp!Replies
          BY <1>6, <3>1
        <5> QED BY <5>1 DEF Mcp!Replies
      <4>2. v5[j].id # h \/ h = 0
        BY <1>3, <3>1
      <4>3. /\ v2[v5[j].id] # "new"
            /\ v5[j].what # "error" => Mcp!Suits(v5[j].id, v5[j].what)
        BY <1>1, <3>1 DEF Mcp!AnswersInv
      <4> QED BY <1>12, <3>1, <4>1, <4>2, <4>3
    <3>2. CASE /\ v5'[j].id = h /\ h # 0
               /\ \A what : v5'[j].what = what /\ what # "error" => Mcp!Suits(h, what)'
      BY <1>3, <3>2
    <3> QED BY <1>7, <3>1, <3>2
  <2>3. ASSUME NEW r \in Mcp!Requests, v2'[r] = "result"
        PROVE  v3'[r].id = r /\ \A what : v3[r].what = what => Mcp!Suits(r, what)'
    <3>1. r # h \/ h = 0
      BY <1>3, <2>3
    <3> QED BY <1>1, <1>12, <2>3, <3>1 DEF Mcp!AnswersInv
  <2> QED BY <2>1, <2>1a, <2>2, <2>3 DEF Mcp!AnswersInv, Mcp!Suits
<1> QED BY <1>10, <1>11, <1>13 DEF Mcp!SessionInv

\* A tool ends, and the server answers.
LEMMA McpToolEnds ==
  ASSUME Mcp!SessionInv, NEW r \in Mcp!Requests, Mcp!ToolEnds(r)
  PROVE  Mcp!SessionInv'
<1>1. /\ Mcp!TypeInv /\ Mcp!LinesInv /\ Mcp!AnswersInv
      /\ r \in v10 /\ v10' = v10 \ {r} /\ v7 = "up"
      /\ UNCHANGED << v1, v2, v3, v4, v6, v7, v8, v9, v11, v12 >>
  BY DEF Mcp!SessionInv, Mcp!ToolEnds, Mcp!client
<1>2. PICK what \in {"done", "error"} : v5' = Append(v5, [id |-> r, what |-> what])
  BY DEF Mcp!ToolEnds, Mcp!Send
<1>3. v5 \in Seq(Mcp!Replies)
  BY <1>1 DEF Mcp!TypeInv
<1>4. [id |-> r, what |-> what] \in Mcp!Replies
  BY DEF Mcp!Words, Mcp!Replies
<1>5. /\ v5' \in Seq(Mcp!Replies)
      /\ \A j \in DOMAIN v5' : \/ j \in DOMAIN v5 /\ v5'[j] = v5[j]
                               \/ v5'[j].id = r /\ v5'[j].what = what
  BY <1>2, <1>3, <1>4
<1>6. v2[r] # "new" /\ v6[r] = "call" /\ \A i \in DOMAIN v4 : v4[i] # r
  BY <1>1 DEF Mcp!AnswersInv, Mcp!LinesInv, Mcp!Requests
<1>7. Mcp!TypeInv'
  BY <1>1, <1>5 DEF Mcp!TypeInv
<1>8. Mcp!LinesInv'
  BY <1>1, <1>5, <1>6 DEF Mcp!LinesInv
<1>9. Mcp!AnswersInv'
  BY <1>1, <1>5, <1>6 DEF Mcp!AnswersInv, Mcp!Suits
<1> QED BY <1>1, <1>7, <1>8, <1>9 DEF Mcp!SessionInv, Mcp!Pending

\* The client reads an answer, which settles its own request if it still waits.
LEMMA McpConsumes ==
  ASSUME Mcp!SessionInv, Mcp!Consumes
  PROVE  Mcp!SessionInv'
<1>1. /\ Mcp!TypeInv /\ Mcp!LinesInv /\ Mcp!AnswersInv
      /\ v1 # "closed" /\ v5 # << >> /\ v5' = Tail(v5)
      /\ UNCHANGED << v1, v4, v6, v7, v8, v9, v10, v11, v12 >>
  BY DEF Mcp!SessionInv, Mcp!Consumes, Mcp!inside
<1>2. PICK answer : answer = Head(v5)
  OBVIOUS
<1>3. v5 \in Seq(Mcp!Replies)
  BY <1>1 DEF Mcp!TypeInv
<1>4. /\ answer \in Mcp!Replies /\ 1 \in DOMAIN v5 /\ answer = v5[1]
      /\ v5' \in Seq(Mcp!Replies)
      /\ \A j \in DOMAIN v5' : j + 1 \in DOMAIN v5 /\ v5'[j] = v5[j + 1]
  BY <1>1, <1>2, <1>3
<1>5. \A r \in Mcp!Requests :
        IF r = answer.id /\ v2[r] = "pending"
        THEN v3'[r] = answer /\ v2'[r] = IF answer.what = "error" THEN "error" ELSE "result"
        ELSE v3'[r] = v3[r] /\ v2'[r] = v2[r]
  BY <1>2 DEF Mcp!Consumes, Mcp!Owner, Mcp!Settle, Mcp!Pending
<1>6. v2' \in [Mcp!Requests -> {"new", "pending", "result", "error"}]
  BY <1>1 DEF Mcp!Consumes, Mcp!Settle, Mcp!TypeInv
<1>7. Mcp!TypeInv'
  BY <1>1, <1>4, <1>6 DEF Mcp!TypeInv
<1>8. \A i \in DOMAIN v4 : v4[i] # 0 => v4[i] \in Mcp!Requests /\ v4[i] # answer.id
  BY <1>1, <1>4 DEF Mcp!LinesInv, Mcp!TypeInv, Mcp!Replies
<1>9. Mcp!LinesInv'
  BY <1>1, <1>4, <1>5, <1>8 DEF Mcp!LinesInv
<1>10. answer.what # "error" => Mcp!Suits(answer.id, answer.what)
  BY <1>1, <1>4 DEF Mcp!AnswersInv
<1>11. Mcp!AnswersInv'
  <2>1. /\ \A r \in v10' : v2'[r] # "new" /\ v6'[r] = "call" /\ r \notin v9'
        /\ \A r \in v9' : v2'[r] # "new"
    BY <1>1, <1>5 DEF Mcp!AnswersInv, Mcp!TypeInv
  <2>2. ASSUME NEW j \in DOMAIN v5'
        PROVE  /\ v2'[v5'[j].id] # "new"
               /\ v5'[j].what # "error" => Mcp!Suits(v5[j].id, v5[j].what)'
    <3>1. v5'[j] = v5[j + 1] /\ j + 1 \in DOMAIN v5 /\ v5[j + 1].id \in Mcp!Requests
      <4>1. v5'[j] = v5[j + 1] /\ j + 1 \in DOMAIN v5
        BY <1>4, <2>2
      <4>2. v5[j + 1] \in Mcp!Replies
        BY <1>3, <4>1
      <4> QED BY <4>1, <4>2 DEF Mcp!Replies
    <3> QED BY <1>1, <1>5, <3>1 DEF Mcp!AnswersInv, Mcp!Suits
  <2>3. ASSUME NEW r \in Mcp!Requests, v2'[r] = "result"
        PROVE  v3'[r].id = r /\ Mcp!Suits(r, v3[r].what)'
    BY <1>1, <1>4, <1>5, <1>10, <2>3 DEF Mcp!AnswersInv, Mcp!Suits
  <2> QED BY <2>1, <2>2, <2>3 DEF Mcp!AnswersInv
<1> QED BY <1>1, <1>7, <1>9, <1>11 DEF Mcp!SessionInv

\* The client asks for the next thing.
LEMMA McpAsks ==
  ASSUME Mcp!SessionInv, NEW kind \in {"call", "list", "unknown"}, Mcp!Ask(kind)
  PROVE  Mcp!SessionInv'
<1>1. /\ Mcp!TypeInv /\ Mcp!LinesInv /\ Mcp!AnswersInv
      /\ v1 = "open" /\ UNCHANGED << v1, v3, v5, v7, v8, v9, v10, v11, v12 >>
  BY DEF Mcp!SessionInv, Mcp!Ask, Mcp!inside
<1>2. PICK r \in Mcp!Requests :
        /\ v2[r] = "new" /\ Mcp!Settle({r}, "pending")
        /\ v6' = [v6 EXCEPT ![r] = kind]
        /\ v4' = IF v7 = "up" THEN Append(v4, r) ELSE v4
  BY DEF Mcp!Ask
<1>3. /\ v2'[r] = "pending" /\ v6'[r] = kind
      /\ \A q \in Mcp!Requests \ {r} : v2'[q] = v2[q] /\ v6'[q] = v6[q]
      /\ v2' \in [Mcp!Requests -> {"new", "pending", "result", "error"}]
      /\ v6' \in [Mcp!Requests -> {"none", "initialize", "call", "list", "unknown"}]
  BY <1>1, <1>2 DEF Mcp!TypeInv, Mcp!Settle
<1>4. /\ v4' \in Seq(Mcp!Requests \cup {0})
      /\ \A i \in DOMAIN v4' : \/ i \in DOMAIN v4 /\ v4'[i] = v4[i]
                               \/ v4'[i] = r /\ i = Len(v4) + 1 /\ v7 = "up"
      /\ v4 \in Seq(Mcp!Requests \cup {0})
  BY <1>1, <1>2 DEF Mcp!TypeInv
<1>5. /\ r # 0 /\ r \notin v10 \cup v9 /\ \A j \in DOMAIN v5 : v5[j].id # r
      /\ \A i \in DOMAIN v4 : v4[i] # r
  BY <1>1, <1>2 DEF Mcp!LinesInv, Mcp!AnswersInv, Mcp!Requests
<1>6. Mcp!TypeInv'
  BY <1>1, <1>3, <1>4 DEF Mcp!TypeInv
<1>7. Mcp!LinesInv'
  <2>1. v7' # "up" => v4' = << >>
    BY <1>1, <1>2 DEF Mcp!LinesInv
  <2>2. ASSUME NEW i \in DOMAIN v4', v4'[i] # 0
        PROVE  /\ v2'[v4'[i]] \in {"pending", "error"} /\ v4'[i] \notin v10' \cup v9'
               /\ \A j \in DOMAIN v4' : v4'[j] = v4'[i] => j = i
               /\ \A j \in DOMAIN v5' : v5'[j].id # v4'[i]
    <3>1. CASE i \in DOMAIN v4 /\ v4'[i] = v4[i]
      <4>1. v4[i] \in Mcp!Requests \ {r}
        BY <1>4, <1>5, <2>2, <3>1
      <4> QED BY <1>1, <1>3, <1>4, <2>2, <3>1, <4>1 DEF Mcp!LinesInv
    <3>2. CASE v4'[i] = r /\ i = Len(v4) + 1
      BY <1>1, <1>3, <1>4, <1>5, <3>2
    <3> QED BY <1>4, <3>1, <3>2
  <2> QED BY <2>1, <2>2 DEF Mcp!LinesInv
<1>8. Mcp!AnswersInv'
  <2>1. /\ \A q \in v10' : v2'[q] # "new" /\ v6'[q] = "call" /\ q \notin v9'
        /\ \A q \in v9' : v2'[q] # "new"
    BY <1>1, <1>3, <1>5 DEF Mcp!AnswersInv, Mcp!TypeInv
  <2>2. ASSUME NEW j \in DOMAIN v5'
        PROVE  /\ v2'[v5'[j].id] # "new"
               /\ v5'[j].what # "error" => Mcp!Suits(v5[j].id, v5[j].what)'
    <3>1. v5[j] \in Mcp!Replies /\ j \in DOMAIN v5 /\ v5'[j] = v5[j]
      BY <1>1, <2>2 DEF Mcp!TypeInv
    <3>2. v5[j].id \in Mcp!Requests \ {r}
      BY <1>5, <3>1 DEF Mcp!Replies
    <3> QED BY <1>1, <1>3, <3>1, <3>2 DEF Mcp!AnswersInv, Mcp!Suits
  <2>3. ASSUME NEW q \in Mcp!Requests, v2'[q] = "result"
        PROVE  v3'[q].id = q /\ Mcp!Suits(q, v3[q].what)'
    BY <1>1, <1>3, <2>3 DEF Mcp!AnswersInv, Mcp!Suits
  <2> QED BY <2>1, <2>2, <2>3 DEF Mcp!AnswersInv
<1> QED BY <1>1, <1>6, <1>7, <1>8 DEF Mcp!SessionInv

\* What waits fails, lines are lost or a notification is written, nothing else.
LEMMA McpFails ==
  ASSUME Mcp!SessionInv, UNCHANGED << v3, v6, v11, v12 >>,
         v1' \in {"starting", "open", "closing", "closed"},
         v7' \in {"up", "dead", "closed"},
         v2' = v2 \/ \E S \in SUBSET Mcp!Pending : Mcp!Settle(S, "error"),
         v5' = v5 \/ v5' = << >>, v10' \subseteq v10,
         v8' \in BOOLEAN, v9' \subseteq v9,
         \/ v4' = << >>
         \/ v4' = v4 /\ (v7' # "up" => v7 # "up")
         \/ v4' = Append(v4, 0) /\ v7' = "up"
  PROVE  Mcp!SessionInv'
<1>1. /\ Mcp!TypeInv /\ Mcp!LinesInv /\ Mcp!AnswersInv
  BY DEF Mcp!SessionInv
<1>2. /\ v2' \in [Mcp!Requests -> {"new", "pending", "result", "error"}]
      /\ \A r \in Mcp!Requests : v2'[r] = v2[r] \/ (v2[r] = "pending" /\ v2'[r] = "error")
  BY <1>1 DEF Mcp!TypeInv, Mcp!Settle, Mcp!Pending
<1>3. /\ v4' \in Seq(Mcp!Requests \cup {0})
      /\ \A i \in DOMAIN v4' : v4'[i] # 0 => i \in DOMAIN v4 /\ v4'[i] = v4[i]
  <2>1. v4 \in Seq(Mcp!Requests \cup {0}) /\ 0 \in Mcp!Requests \cup {0}
    BY <1>1 DEF Mcp!TypeInv
  <2>2. CASE v4' = << >>
    BY <2>2
  <2>3. CASE v4' = v4
    BY <2>1, <2>3
  <2>4. CASE v4' = Append(v4, 0)
    BY <2>1, <2>4
  <2> QED BY <2>2, <2>3, <2>4
<1>4. /\ v5' \in Seq(Mcp!Replies)
      /\ \A j \in DOMAIN v5' : j \in DOMAIN v5 /\ v5'[j] = v5[j]
  <2>1. v5 \in Seq(Mcp!Replies)
    BY <1>1 DEF Mcp!TypeInv
  <2>2. CASE v5' = << >>
    BY <2>2
  <2>3. CASE v5' = v5
    BY <2>1, <2>3
  <2> QED BY <2>2, <2>3
<1>5. Mcp!TypeInv'
  BY <1>1, <1>2, <1>3, <1>4 DEF Mcp!TypeInv
<1>6. Mcp!LinesInv'
  <2>1. v7' # "up" => v4' = << >>
    BY <1>1 DEF Mcp!LinesInv
  <2>2. ASSUME NEW i \in DOMAIN v4', v4'[i] # 0
        PROVE  /\ v2'[v4'[i]] \in {"pending", "error"} /\ v4'[i] \notin v10' \cup v9'
               /\ \A j \in DOMAIN v4' : v4'[j] = v4'[i] => j = i
               /\ \A j \in DOMAIN v5' : v5'[j].id # v4'[i]
    <3>1. /\ v4'[i] = v4[i] /\ i \in DOMAIN v4 /\ v4[i] \in Mcp!Requests
          /\ v2[v4[i]] \in {"pending", "error"} /\ v4[i] \notin v10 \cup v9
          /\ \A j \in DOMAIN v4 : v4[j] = v4[i] => j = i
          /\ \A j \in DOMAIN v5 : v5[j].id # v4[i]
      BY <1>1, <1>3, <2>2 DEF Mcp!LinesInv, Mcp!TypeInv
    <3> QED BY <1>2, <1>3, <1>4, <2>2, <3>1
  <2> QED BY <2>1, <2>2 DEF Mcp!LinesInv
<1>7. Mcp!AnswersInv'
  <2>1. /\ \A r \in v10' : v2'[r] # "new" /\ v6'[r] = "call" /\ r \notin v9'
        /\ \A r \in v9' : v2'[r] # "new"
    BY <1>1, <1>2 DEF Mcp!AnswersInv, Mcp!TypeInv
  <2>2. ASSUME NEW j \in DOMAIN v5'
        PROVE  /\ v2'[v5'[j].id] # "new"
               /\ v5'[j].what # "error" => Mcp!Suits(v5[j].id, v5[j].what)'
    <3>1. v5[j] \in Mcp!Replies /\ j \in DOMAIN v5 /\ v5'[j] = v5[j]
      BY <1>1, <1>4, <2>2 DEF Mcp!TypeInv
    <3>2. v5[j].id \in Mcp!Requests
      BY <3>1 DEF Mcp!Replies
    <3> QED BY <1>1, <1>2, <3>1, <3>2 DEF Mcp!AnswersInv, Mcp!Suits
  <2>3. ASSUME NEW r \in Mcp!Requests, v2'[r] = "result"
        PROVE  v3'[r].id = r /\ Mcp!Suits(r, v3[r].what)'
    BY <1>1, <1>2, <2>3 DEF Mcp!AnswersInv, Mcp!Suits
  <2> QED BY <2>1, <2>2, <2>3 DEF Mcp!AnswersInv
<1> QED BY <1>5, <1>6, <1>7 DEF Mcp!SessionInv
LEMMA McpKept ==
  ASSUME Mcp!SessionInv, Mcp!Next \/ UNCHANGED Mcp!vars
  PROVE  Mcp!SessionInv'
<1> USE DEF Mcp!client, Mcp!inside
<1>1. /\ Mcp!TypeInv /\ Mcp!LinesInv /\ Mcp!AnswersInv
      /\ v8 \in BOOLEAN
      /\ v1 \in {"starting", "open", "closing", "closed"} /\ v7 \in {"up", "dead", "closed"}
  BY DEF Mcp!SessionInv, Mcp!TypeInv
<1>2. ASSUME v4 # << >>
      PROVE  Head(v4) \in Mcp!Requests \cup {0}
  BY <1>1, <1>2 DEF Mcp!TypeInv
<1>3. CASE Mcp!IgnoresNotification
  <2>1. v4 # << >> /\ v4' = Tail(v4) /\ UNCHANGED << v1, v2, v3, v5, v6, v7, v8, v9, v10, v11, v12 >>
    BY <1>3 DEF Mcp!IgnoresNotification, Mcp!Reads
  <2>2. PICK h : h = Head(v4)
    OBVIOUS
  <2> QED BY <1>1, <2>1, <2>2, McpReads
<1>4. CASE Mcp!AnswersAtOnce
  <2>1. PICK h : h = Head(v4)
    OBVIOUS
  <2>2. /\ v4 # << >> /\ v4' = Tail(v4)
        /\ UNCHANGED << v1, v2, v3, v6, v7, v8, v9, v10, v11, v12 >>
        /\ h # 0 /\ \E what \in {"version", "catalog", "error"} :
             /\ v5' = Append(v5, [id |-> h, what |-> what])
             /\ what = "version" => v6[h] = "initialize"
             /\ what = "catalog" => v6[h] = "list"
    BY <1>4, <2>1 DEF Mcp!AnswersAtOnce, Mcp!Reads, Mcp!Send
  <2>2a. h \notin v9
    BY <1>1, <2>1, <2>2 DEF Mcp!LinesInv, Mcp!TypeInv
  <2>3. PICK what \in Mcp!Words :
          /\ v5' = Append(v5, [id |-> h, what |-> what])
          /\ what # "error" => Mcp!Suits(h, what)'
    BY <2>2, <2>2a DEF Mcp!Words, Mcp!Suits
  <2> QED BY <1>1, <2>1, <2>2, <2>3, McpReads
<1>5. CASE Mcp!ReadsCall
  <2>1. PICK h : h = Head(v4)
    OBVIOUS
  <2>2. /\ v4 # << >> /\ v4' = Tail(v4) /\ UNCHANGED << v1, v2, v3, v6, v7, v11 >>
        /\ h # 0 /\ v6[h] = "call"
    BY <1>5, <2>1 DEF Mcp!ReadsCall, Mcp!Reads
  <2>3. h \in Mcp!Requests
    BY <1>2, <2>1, <2>2
  <2>4. v12' = [v12 EXCEPT ![h] = v11] /\ v12'[h] = v11
    BY <1>1, <1>5, <2>1, <2>3 DEF Mcp!ReadsCall, Mcp!TypeInv
  <2>5. /\ v8' = (v8 \/ v11 = "nothing")
        /\ v9' = IF ~v8 /\ Mcp!LeftOpen THEN v9 \cup {h} ELSE v9
    BY <1>5, <2>1 DEF Mcp!ReadsCall
  <2>6. CASE v8'
    <3>1. v10' = v10 \cup {h} /\ v5' = v5
      BY <1>5, <2>1, <2>6 DEF Mcp!ReadsCall
    <3>2. v9' = v9
      BY <2>5, <2>6 DEF Mcp!LeftOpen
    <3> QED BY <1>1, <2>1, <2>2, <2>4, <2>6, <3>1, <3>2, McpReads
  <2>7. CASE ~v8'
    <3>1. v10' = v10 /\ v5' = Append(v5, [id |-> h, what |-> "unavailable"])
      BY <1>5, <2>1, <2>7 DEF Mcp!ReadsCall, Mcp!Send
    <3>2. v11 # "nothing" /\ v8' \in BOOLEAN
      BY <1>1, <2>5, <2>7
    <3>3. "unavailable" \in Mcp!Words /\ Mcp!Suits(h, "unavailable")'
      BY <2>2, <2>4, <3>2 DEF Mcp!Words, Mcp!Suits
    <3>4. v9' = v9 \/ v9' = v9 \cup {h}
      BY <2>5
    <3> QED BY <2>1, <2>2, <2>4, <3>1, <3>2, <3>3, <3>4, McpReads
  <2> QED BY <2>6, <2>7
<1>6. CASE \E r \in Mcp!Requests : Mcp!TimesOut(r)
  <2>1. PICK r \in Mcp!Requests : Mcp!TimesOut(r)
    BY <1>6
  <2>2. {r} \in SUBSET Mcp!Pending
    BY <2>1 DEF Mcp!TimesOut
  <2> QED BY <1>1, <2>1, <2>2, McpFails DEF Mcp!TimesOut
<1>7. CASE Mcp!Dies
  BY <1>1, <1>7, McpFails DEF Mcp!Dies
<1>8. CASE Mcp!SeesItClosed \/ Mcp!WriteFails \/ Mcp!Closes
  BY <1>1, <1>8, McpFails DEF Mcp!SeesItClosed, Mcp!WriteFails, Mcp!Closes
<1>9. CASE Mcp!Opens \/ Mcp!Ends
  BY <1>1, <1>9, McpFails DEF Mcp!Opens, Mcp!Ends
<1>10. CASE Mcp!Repair
  BY <1>1, <1>10
  DEF Mcp!Repair, Mcp!SessionInv, Mcp!TypeInv, Mcp!LinesInv, Mcp!AnswersInv, Mcp!Suits,
      Mcp!Pending
<1>11. CASE UNCHANGED Mcp!vars
  BY <1>1, <1>11
  DEF Mcp!vars, Mcp!SessionInv, Mcp!TypeInv, Mcp!LinesInv, Mcp!AnswersInv, Mcp!Suits,
      Mcp!Pending
<1> QED BY <1>3, <1>4, <1>5, <1>6, <1>7, <1>8, <1>9, <1>10, <1>11, McpToolEnds, McpConsumes,
           McpAsks
    DEF Mcp!Next

(***************************************************************************)
(* A request of a session with the MCP server is settled by its own answer *)
(* and by no other, however many requests are made, time out or are still  *)
(* at work when the server dies, however many starts fail or leave a       *)
(* database open behind them.                                              *)
(***************************************************************************)
THEOREM AnswersFindTheirCalls == HarnessSpec => []CallsGetTheirAnswers
<1> DEFINE I == component = "mcp" => Mcp!SessionInv
<1>1. Mcp!Init => Mcp!SessionInv
  <2> SUFFICES ASSUME Mcp!Init
               PROVE  Mcp!SessionInv
    OBVIOUS
  <2>1. 1 \in Mcp!Requests /\ v4 = << 1 >> /\ v4 \in Seq(Mcp!Requests \cup {0})
    BY SessionsAreAsked DEF Mcp!Requests, Mcp!Init
  <2>2. v5 = << >> /\ v5 \in Seq(Mcp!Replies)
    BY DEF Mcp!Init
  <2>3. Mcp!TypeInv
    <3>1. v12 = [r \in Mcp!Requests |-> "nothing"] /\ "nothing" \in Mcp!Faults
      BY DEF Mcp!Init, Mcp!Faults
    <3>2. v12 \in [Mcp!Requests -> Mcp!Faults]
      BY <3>1
    <3> QED BY <2>1, <2>2, <3>2 DEF Mcp!Init, Mcp!TypeInv
  <2> QED BY <2>1, <2>2, <2>3
      DEF Mcp!Init, Mcp!SessionInv, Mcp!LinesInv, Mcp!AnswersInv
<1>2. HarnessInit => I
  BY <1>1, StartsOfOne
<1>3. I /\ [HarnessNext]_vars => I'
  BY StepsOfOne, McpKept
<1>4. I => CallsGetTheirAnswers
  BY DEF CallsGetTheirAnswers, Mcp!CallsGetTheirAnswers, Mcp!SessionInv, Mcp!AnswersInv,
         Mcp!Suits
<1> QED BY <1>2, <1>3, <1>4, PTL DEF HarnessSpec

-----------------------------------------------------------------------------
(* ProductProbe: the CLI is v1, what is pending v3, the pipe v4, what was  *)
(* served v5, the tools v6, what was invalid v7, the success v8, the timer *)
(* v9, the child v10, the result v11.                                      *)

\* The probe resolves to a result, which ends what is open.
LEMMA ProbeResolves ==
  ASSUME Probe!TypeInv', v1' # "", NEW r, v11' = r, r # NoResult
  PROVE  Probe!ProbeInv'
BY DEF Probe!ProbeInv

\* What the probe resolves to is a result.
LEMMA ResultsResolve ==
  ASSUME v7 \in BOOLEAN, NEW ready \in BOOLEAN, NEW ok \in BOOLEAN
  PROVE  Probe!Result(ready, ok) # NoResult
<1>1. Probe!Result(ready, ok) \in [ready : BOOLEAN, ok : BOOLEAN, silent : BOOLEAN]
  BY DEF Probe!Result
<1> QED BY <1>1, ProbesAreTold

\* A response is read while one request is open or none.
LEMMA ProbeReads ==
  ASSUME Probe!ProbeInv,
         Probe!ReadsInvalid \/ Probe!ReadsInitialized \/ Probe!ReadsTools \/ Probe!ReadsCall
  PROVE  Probe!ProbeInv'
<1>1. /\ v11 = NoResult /\ v4 # << >> /\ v4' = Tail(v4)
      /\ v1' = v1 /\ v10' = v10
      /\ v5' = IF v5 < 3 /\ Head(v4) = [id |-> v5 + 1, is |-> "good"] THEN v5 + 1 ELSE 4
  BY DEF Probe!ReadsInvalid, Probe!ReadsInitialized, Probe!ReadsTools, Probe!ReadsCall,
     Probe!Reading, Probe!Read
<1>2. /\ v4 \in Seq(Probe!Responses) /\ v5 \in 0 .. 4 /\ v6 \in {"none", "some", "all"}
      /\ v7 \in BOOLEAN /\ v8 \in BOOLEAN \cup {NoResult}
      /\ Probe!OpenInv /\ Probe!ServedInv
  BY <1>1 DEF Probe!ProbeInv, Probe!TypeInv
<1>3. PICK r : r = Head(v4)
  OBVIOUS
<1>4. /\ r \in Probe!Responses /\ v4' \in Seq(Probe!Responses) /\ v5' \in 0 .. 4
  BY <1>1, <1>2, <1>3
<1>5. r = [id |-> r.id, is |-> r.is] /\ r.id \in 0 .. 3
  BY <1>4 DEF Probe!Responses
<1>6. v1 # ""
  BY <1>1 DEF Probe!ProbeInv, Probe!Unstarted
<1>7. ASSUME Probe!TypeInv', v11' = NoResult => Probe!OpenInv' /\ Probe!ServedInv'
      PROVE  Probe!ProbeInv'
  BY <1>1, <1>6, <1>7 DEF Probe!ProbeInv
<1>8. CASE Probe!ReadsInvalid
  <2>1. v7' = TRUE /\ UNCHANGED << v2, v3, v6, v8, v9, v11 >>
    BY <1>8 DEF Probe!ReadsInvalid
  <2>2. Probe!TypeInv'
    BY <1>2, <1>4, <2>1 DEF Probe!TypeInv
  <2>3. Probe!OpenInv' /\ Probe!ServedInv'
    BY <1>2, <2>1 DEF Probe!OpenInv, Probe!ServedInv
  <2> QED BY <1>7, <2>2, <2>3
<1>9. CASE Probe!ReadsInitialized
  <2>1. /\ r.id = 1 /\ v3 = {1} /\ v6 = "none" /\ v8 = NoResult
        /\ UNCHANGED << v6, v7, v8 >> /\ (v7 \/ v5 = 0)
    BY <1>2, <1>3, <1>9 DEF Probe!ReadsInitialized, Probe!Read, Probe!OpenInv
  <2>2. Probe!TypeInv'
    BY <1>2, <1>4, <2>1 DEF Probe!TypeInv
  <2>3. ASSUME v11' = NoResult
        PROVE  \/ v3' = {} /\ v9' = v9
               \/ v3' = {2} /\ v9' = "stage" /\ r.is = "good"
    <3>1. Probe!Defect # NoResult
      BY <1>2, ResultsResolve DEF Probe!Defect
    <3> QED BY <1>3, <1>9, <2>1, <2>3, <3>1
        DEF Probe!ReadsInitialized, Probe!Read, Probe!Request, Probe!Finish
  <2>4. r.is = "good" /\ ~v7 => v5' = 1
    BY <1>1, <1>3, <1>5, <2>1
  <2>5. v11' = NoResult => Probe!OpenInv' /\ Probe!ServedInv'
    BY <1>2, <2>1, <2>3, <2>4 DEF Probe!OpenInv, Probe!ServedInv
  <2> QED BY <1>7, <2>2, <2>5
<1>10. CASE Probe!ReadsTools
  <2>1. /\ r.id = 2 /\ v3 = {2} /\ v6 = "none" /\ v8 = NoResult
        /\ UNCHANGED << v7, v8 >> /\ (v7 \/ v5 = 1)
    BY <1>2, <1>3, <1>10 DEF Probe!ReadsTools, Probe!Read, Probe!OpenInv
  <2>2. v6' = CASE r.is = "good" -> "all"
                [] r.is \in { "some", "lacking" } -> "some"
                [] OTHER -> v6
    BY <1>3, <1>10 DEF Probe!ReadsTools, Probe!Read
  <2>3. v6' \in {"none", "some", "all"} /\ (v6' = "all" => r.is = "good")
    BY <2>1, <2>2
  <2>4. Probe!TypeInv'
    BY <1>2, <1>4, <2>1, <2>3 DEF Probe!TypeInv
  <2>5. ASSUME v11' = NoResult
        PROVE  \/ v3' = {} /\ v9' = v9
               \/ v3' = {3} /\ v9' = "stage"
    <3>1. Probe!Defect # NoResult /\ Probe!CallFailed # NoResult
      BY <1>2, ResultsResolve DEF Probe!Defect, Probe!CallFailed
    <3> QED BY <1>3, <1>10, <2>1, <2>5, <3>1
        DEF Probe!ReadsTools, Probe!Read, Probe!Request, Probe!Finish
  <2>6. r.is = "good" /\ ~v7 => v5' = 2
    BY <1>1, <1>3, <1>5, <2>1
  <2>7. v11' = NoResult => Probe!OpenInv' /\ Probe!ServedInv'
    <3>1. v8' # TRUE /\ v8' = NoResult
      BY <2>1, ProbesAreTold
    <3>2. ASSUME v11' = NoResult
          PROVE  Probe!ServedInv'
      BY <1>2, <2>1, <2>5, <3>1, <3>2 DEF Probe!ServedInv
    <3>3. ASSUME v11' = NoResult
          PROVE  Probe!OpenInv'
      <4>1. CASE v3' = {}
        BY <2>1, <4>1 DEF Probe!OpenInv
      <4>2. CASE v3' = {3}
        BY <2>1, <2>3, <2>6, <4>2 DEF Probe!OpenInv
      <4> QED BY <2>5, <3>3, <4>1, <4>2
    <3> QED BY <3>2, <3>3
  <2> QED BY <1>7, <2>4, <2>7
<1>11. CASE Probe!ReadsCall
  <2>1. /\ r.id = 3 /\ v3 = {3} /\ v3' = {} /\ v8 = NoResult
        /\ UNCHANGED << v6, v7 >> /\ (v6 = "all" /\ ~v7 => v5 = 2)
    BY <1>2, <1>3, <1>11 DEF Probe!ReadsCall, Probe!Read, Probe!OpenInv
  <2>2. ASSUME v11' = NoResult
        PROVE  \/ v8' = (r.is = "good") /\ v9' = "linger"
               \/ v8' = v8 /\ v9' = v9
    <3>1. Probe!CallFailed # NoResult
      BY <1>2, ResultsResolve DEF Probe!CallFailed
    <3> QED BY <1>3, <1>11, <2>1, <2>2, <3>1
        DEF Probe!ReadsCall, Probe!Read, Probe!AwaitSilence, Probe!Finish
  <2>3. v8' = (r.is = "good") \/ v8' = v8
    BY <1>3, <1>11 DEF Probe!ReadsCall, Probe!Read, Probe!AwaitSilence
  <2>4. v8' \in BOOLEAN \cup {NoResult} /\ (v8' = TRUE => r.is = "good")
    BY <2>1, <2>3, ProbesAreTold
  <2>5. Probe!TypeInv'
    BY <1>2, <1>4, <2>1, <2>4 DEF Probe!TypeInv
  <2>6. r.is = "good" /\ v6 = "all" /\ ~v7 => v5' = 3
    BY <1>1, <1>3, <1>5, <2>1
  <2>7. v11' = NoResult => (v9' = "linger" => v8' # NoResult)
    BY <1>2, <2>1, <2>2, ProbesAreTold DEF Probe!ServedInv
  <2>8. v11' = NoResult => Probe!OpenInv' /\ Probe!ServedInv'
    BY <2>1, <2>4, <2>6, <2>7 DEF Probe!OpenInv, Probe!ServedInv
  <2> QED BY <1>7, <2>5, <2>8
<1> QED BY <1>8, <1>9, <1>10, <1>11

\* Every step of the probe and of the server keeps the invariant.
LEMMA ServerProbeKept ==
  ASSUME Probe!ProbeInv, Probe!Next \/ UNCHANGED Probe!vars
  PROVE  Probe!ProbeInv'
<1>1. Probe!TypeInv
  BY DEF Probe!ProbeInv
<1>2. CASE Probe!ProbeCli
  <2>1. Probe!Unstarted /\ v1' # "" /\ UNCHANGED << v4, v5, v6, v7, v8 >>
    BY <1>2 DEF Probe!ProbeCli, Probe!ProbeInv
  <2>2. Probe!TypeInv'
    BY <1>1, <2>1 DEF Probe!TypeInv
  <2>3. CASE v9' = "stage" /\ v3' = {1}
    <3>1. v8' # TRUE /\ v8' = NoResult /\ v5' = 0 /\ v6' = "none"
      BY <2>1, ProbesAreTold DEF Probe!Unstarted
    <3>2. Probe!OpenInv'
      BY <2>3, <3>1 DEF Probe!OpenInv
    <3>3. Probe!ServedInv'
      BY <2>3, <3>1 DEF Probe!ServedInv
    <3> QED BY <2>1, <2>2, <3>2, <3>3 DEF Probe!ProbeInv
  <2>4. CASE Probe!Finish(Probe!Defect)
    <3>1. v11' = Probe!Defect /\ Probe!Defect # NoResult
      BY <1>1, <2>4, ResultsResolve DEF Probe!Finish, Probe!Defect, Probe!TypeInv
    <3> QED BY <2>1, <2>2, <3>1 DEF Probe!ProbeInv
  <2> QED BY <1>2, <2>3, <2>4 DEF Probe!ProbeCli
<1>3. CASE Probe!Timeout \/ Probe!Closes
  <2>1. /\ UNCHANGED << v1, v4, v5, v6, v7, v8 >> /\ v11 = NoResult
        /\ v9 = "linger" \/ v9 = "stage" \/ v10 = "exited"
    BY <1>3 DEF Probe!Timeout, Probe!Closes, Probe!Finish
  <2>2. v1' # ""
    BY <2>1 DEF Probe!ProbeInv, Probe!Unstarted
  <2>3. Probe!TypeInv'
    BY <1>1, <2>1 DEF Probe!TypeInv
  <2>4. v11' # NoResult
    <3>1. Probe!Result(TRUE, TRUE) # NoResult /\ Probe!Result(TRUE, FALSE) # NoResult
          /\ Probe!Result(FALSE, FALSE) # NoResult
      BY <1>1, ResultsResolve DEF Probe!TypeInv
    <3>2. v9 = "linger" \/ v8 # NoResult => v8 \in BOOLEAN
      BY <1>1, <2>1 DEF Probe!ProbeInv, Probe!ServedInv, Probe!TypeInv
    <3>3. v9 = "linger" \/ v8 # NoResult => Probe!Result(TRUE, v8) # NoResult
      BY <1>1, <3>2, ResultsResolve DEF Probe!TypeInv
    <3> QED BY <1>3, <3>1, <3>3
        DEF Probe!Timeout, Probe!Closes, Probe!Finish, Probe!Defect, Probe!CallFailed
  <2> QED BY <2>2, <2>3, <2>4 DEF Probe!ProbeInv
<1>4. CASE Probe!ReadsInvalid \/ Probe!ReadsInitialized \/ Probe!ReadsTools \/ Probe!ReadsCall
  BY <1>4, ProbeReads
<1>5. ASSUME NEW r \in Probe!Responses, Probe!ServerWrites(r)
      PROVE  Probe!ProbeInv'
  <2>1. /\ UNCHANGED << v1, v3, v5, v6, v7, v8, v9, v10, v11 >> /\ v10 = "running"
        /\ v4' = Append(v4, r)
    BY <1>5 DEF Probe!ServerWrites
  <2>2. v4' \in Seq(Probe!Responses)
    BY <1>1, <2>1 DEF Probe!TypeInv
  <2> QED BY <1>1, <2>1, <2>2
      DEF Probe!ProbeInv, Probe!TypeInv, Probe!Unstarted, Probe!OpenInv, Probe!ServedInv
<1>6. CASE Probe!ServerExits \/ UNCHANGED Probe!vars
  <2>1. /\ UNCHANGED << v1, v3, v4, v5, v6, v7, v8, v9, v11 >>
        /\ v10 = "running" \/ v10' = v10
    BY <1>6 DEF Probe!ServerExits, Probe!vars
  <2>2. v1' = "" => Probe!Unstarted'
    BY <2>1 DEF Probe!ProbeInv, Probe!Unstarted
  <2>3. v11' = NoResult => Probe!OpenInv' /\ Probe!ServedInv'
    BY <2>1 DEF Probe!ProbeInv, Probe!OpenInv, Probe!ServedInv
  <2> QED BY <1>1, <2>1, <2>2, <2>3 DEF Probe!ProbeInv, Probe!TypeInv
<1> QED BY <1>2, <1>3, <1>4, <1>5, <1>6 DEF Probe!Next

\* It holds before the CLI is asked.
LEMMA ProbeStarts ==
  ASSUME Probe!Init
  PROVE  Probe!ProbeInv
<1>1. v4 \in Seq(Probe!Responses)
  <2>1. v4 = << >>
    BY DEF Probe!Init
  <2> QED BY <2>1
<1>2. /\ v3 = {} /\ v5 = 0 /\ v6 = "none" /\ v7 = FALSE /\ v8 = NoResult /\ v9 = "none"
      /\ v8 # TRUE
  BY ProbesAreTold DEF Probe!Init
<1>3. Probe!TypeInv
  <2>1. v5 \in 0 .. 4 /\ v6 \in {"none", "some", "all"}
    BY <1>2
  <2>2. v7 \in BOOLEAN
    BY DEF Probe!Init
  <2>3. v8 \in BOOLEAN \cup {NoResult}
    BY DEF Probe!Init
  <2> QED BY <1>1, <2>1, <2>2, <2>3 DEF Probe!TypeInv
<1>4. Probe!Unstarted
  BY DEF Probe!Init, Probe!Unstarted
<1>5. Probe!OpenInv
  BY <1>2 DEF Probe!OpenInv
<1>6. Probe!ServedInv
  BY <1>2 DEF Probe!ServedInv
<1> QED BY <1>3, <1>4, <1>5, <1>6 DEF Probe!ProbeInv

\* A probe passes when it resolves, by its timer or at the end of the pipes.
LEMMA ProbePasses ==
  ASSUME Probe!ProbeInv, Probe!Next \/ UNCHANGED Probe!vars
  PROVE  Probe!PassStep
<1> SUFFICES ASSUME ~Probe!Ok, Probe!Ok'
             PROVE  v5' = 3 /\ (v10' = "closed" \/ v9 = "linger")
  BY DEF Probe!PassStep
<1>1. Probe!TypeInv
  BY DEF Probe!ProbeInv
<1>2. /\ v11' # NoResult /\ v11'.ready /\ v11'.ok /\ v11'.silent
      /\ v1' = "ready" /\ v6' = "all"
  BY DEF Probe!Ok
<1>3. ~Probe!Defect.ok /\ ~Probe!CallFailed.ok
  BY DEF Probe!Defect, Probe!CallFailed, Probe!Result
<1>4. CASE v11' = v11
  <2>1. v1 # ""
    BY <1>2, <1>4 DEF Probe!ProbeInv, Probe!Unstarted
  <2>2. v1' = v1 /\ v6' = v6
    BY <1>2, <1>4, <2>1
       DEF Probe!Next, Probe!vars, Probe!ProbeCli, Probe!Timeout, Probe!Closes,
           Probe!ServerExits, Probe!ReadsInvalid, Probe!ReadsInitialized, Probe!ReadsTools,
           Probe!ReadsCall, Probe!Reading, Probe!ServerWrites, Probe!Finish
  <2> QED BY <1>2, <1>4, <2>2 DEF Probe!Ok
<1>5. CASE v11' # v11
  <2>1. Probe!ProbeCli \/ Probe!Timeout \/ Probe!Closes \/ Probe!ReadsInitialized
        \/ Probe!ReadsTools \/ Probe!ReadsCall
    BY <1>5 DEF Probe!Next, Probe!vars, Probe!ServerExits, Probe!ReadsInvalid,
               Probe!ServerWrites
  <2>2. v11 = NoResult
    BY <2>1 DEF Probe!ProbeCli, Probe!Timeout, Probe!Closes, Probe!Finish, Probe!ProbeInv,
               Probe!Unstarted, Probe!ReadsInitialized, Probe!ReadsTools, Probe!ReadsCall,
               Probe!Reading
  <2>3. ((Probe!Timeout /\ v9 = "linger") \/ Probe!Closes) /\ v11' = Probe!Result(TRUE, v8)
    <3>1. v11' # Probe!Defect /\ v11' # Probe!CallFailed
      BY <1>2, <1>3
    <3> QED BY <2>1, <2>2, <3>1, <1>5
        DEF Probe!ProbeCli, Probe!Timeout, Probe!Closes, Probe!Finish,
            Probe!ReadsInitialized, Probe!ReadsTools, Probe!ReadsCall, Probe!Request,
            Probe!AwaitSilence
  <2>4. v8 /\ ~v7 /\ UNCHANGED << v5, v6 >>
    BY <1>2, <2>3 DEF Probe!Result, Probe!Timeout, Probe!Closes
  <2>5. v8 = TRUE
    <3>1. CASE Probe!Timeout /\ v9 = "linger"
      BY <2>2, <2>4, <3>1, <1>1 DEF Probe!ProbeInv, Probe!ServedInv, Probe!TypeInv
    <3>2. CASE Probe!Closes
      <4>1. v8 # NoResult
        BY <1>2, <1>3, <3>2 DEF Probe!Closes, Probe!Finish
      <4>2. v8 \in BOOLEAN
        BY <1>1, <4>1 DEF Probe!TypeInv
      <4> QED BY <2>4, <4>2
    <3> QED BY <2>3, <3>1, <3>2
  <2>6. v5 = 3
    BY <1>2, <2>2, <2>4, <2>5 DEF Probe!ProbeInv, Probe!ServedInv
  <2> QED BY <2>3, <2>4, <2>6 DEF Probe!Closes
<1> QED BY <1>4, <1>5

\* A candidate passes only if its server answered the three requests well, each once, in
\* their order and nothing else, and had the time to: it ended, or stayed for the linger
\* time.  (packages/cli/src/cli-mcp-product-smoke.ts)
THEOREM OnlyTheServedPass == HarnessSpec => PassesOnlyIfServed
<1> DEFINE I == component = "probe" => Probe!ProbeInv
<1>1. HarnessInit => I
  BY StartsOfOne, ProbeStarts
<1>2. I /\ [HarnessNext]_vars => I'
  BY StepsOfOne, ServerProbeKept
<1>3. I /\ [HarnessNext]_vars => (component = "probe" => Probe!PassStep)
  BY StepsOfOne, ProbePasses
<1>4. I /\ [HarnessNext]_vars => [component = "probe" => Probe!PassStep]_vars
  BY <1>3
<1> QED BY <1>1, <1>2, <1>4, PTL DEF HarnessSpec, PassesOnlyIfServed
=============================================================================
