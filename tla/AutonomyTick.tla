---------------------------- MODULE AutonomyTick ----------------------------
(***************************************************************************)
(* createCodexAutonomyTick (packages/core/src/index.ts), over the active   *)
(* thread state it plans from: what the index, the watchers and the app    *)
(* server say of each thread is fused into one state, with a confidence    *)
(* and a coverage, and each thread gets a read-only probe, a control dry   *)
(* run, both or none.  The steps are sorted and cut off at a limit.        *)
(*                                                                         *)
(* A confidence is a number of hundredths.  The urgency of a lane is given *)
(* with it.  The prefetch caps (500 and more lanes) are not reached.       *)
(***************************************************************************)
EXTENDS Integers, Sequences, FiniteSets

CONSTANTS Threads,     \* a set of numbers: they order like their refs
          LanesOf(_),  \* what may be known of a thread: sets of records
          StepLimit    \* options.limit

VARIABLES
  lanes,     \* of each thread: its session and app-server state, whether there is a
             \* resume-ready result, whether it is stale, its confidence and urgency,
             \* its watcher, the confidence of its item in the map (0: it has none), and
             \* whether thirty reason codes come before the marks of a conflict (crowded)
  appReport, \* the coverage of the app server's report
  mapReport, \* and of the visible map
  watching,  \* watcher specs are given
  plan       \* the steps of the last tick

vars == << lanes, appReport, mapReport, watching, plan >>

NoPlan == << [type |-> "none"] >>

Init ==
  /\ lanes \in {l \in [Threads -> UNION {LanesOf(t) : t \in Threads}] :
                  \A t \in Threads : l[t] \in LanesOf(t)}
  /\ appReport \in {"not_configured", "unavailable", "ok"}
  /\ mapReport \in {"not_configured", "ok"}
  /\ watching \in BOOLEAN
  /\ plan = NoPlan

----------------------------------------------------------------------------
Heard(t) == appReport = "ok" /\ lanes[t].app # "absent"

\* What one source alone makes of a thread, none being no opinion.
AppState(t) == IF Heard(t) /\ lanes[t].app # "silent" THEN lanes[t].app ELSE "none"
SessionState(t) == IF lanes[t].session = "unknown" THEN "none" ELSE lanes[t].session

Woken(t, status) == watching /\ lanes[t].watcher = status

Mapped(t) == IF mapReport = "ok" THEN lanes[t].mapped ELSE 0

Disagree(t) ==
  AppState(t) # "none" /\ SessionState(t) # "none" /\ AppState(t) # SessionState(t)

WatcherOverrides(t) ==
  Disagree(t) /\ SessionState(t) = "running" /\ (Woken(t, "triggered") \/ Woken(t, "stale"))

Conflict(t) == Disagree(t) /\ ~WatcherOverrides(t)

State(t) ==
  CASE Conflict(t) -> "unknown"
    [] ~Conflict(t) /\ lanes[t].session \in {"needs_approval", "blocked"} -> lanes[t].session
    [] OTHER ->
       CASE \/ Woken(t, "triggered")
            \/ lanes[t].resumeReady /\ lanes[t].session = "running" -> "needs_nudge"
         [] OTHER ->
            CASE Woken(t, "stale") \/ lanes[t].activeStale -> "stale"
              [] OTHER -> IF AppState(t) # "none" THEN AppState(t)
                          ELSE IF SessionState(t) # "none" THEN SessionState(t) ELSE "unknown"

Lower(a, b) == IF a < b THEN a ELSE b
Upper(a, b) == IF a < b THEN b ELSE a

\* The confidence of a watcher that wakes; the app server states none.
WatcherConfidence == 75

Confidence(t) ==
  LET woken == Woken(t, "triggered") \/ Woken(t, "stale")
      best  == Upper(Upper(lanes[t].confidence, Mapped(t)), IF woken THEN WatcherConfidence ELSE 0)
  IN IF Conflict(t) THEN Lower(62, lanes[t].confidence)
     ELSE IF WatcherOverrides(t) THEN Lower(74, best) ELSE best

\* The marks are the last of the reason codes, of which thirty are kept.
HardConflict(t) == Conflict(t) /\ ~lanes[t].crowded

\* A slip: an overridden disagreement taken for settled.
Settled(t) == FALSE

SoftConflict(t) == WatcherOverrides(t) /\ ~lanes[t].crowded

AppServerMissing(t) == ~Heard(t)

Coverage(t) ==
  LET unconfigured == State(t) = "unknown" /\ ~watching
                      /\ appReport = "not_configured" /\ mapReport = "not_configured"
      needsProbe == HardConflict(t) \/ State(t) = "unknown" \/ Confidence(t) < 50
      partial == SoftConflict(t) \/ AppServerMissing(t) \/ Confidence(t) < 70
  IN CASE unconfigured -> "unknown"
       [] ~unconfigured /\ needsProbe -> "needs_probe"
       [] OTHER -> IF partial THEN "partial" ELSE "covered"

ProbeTool(t) ==
  IF /\ ~HardConflict(t) /\ ~SoftConflict(t) /\ ~AppServerMissing(t)
     /\ State(t) = "unknown" /\ Mapped(t) = 0
  THEN "lco_visible_codex_map" ELSE "lco_codex_app_server_threads"

StateRank ==
  [needs_nudge |-> 8, needs_approval |-> 7, blocked |-> 6, stale |-> 5, running |-> 4,
   waiting |-> 3, unknown |-> 2, idle |-> 1]

TypeRank(type) == IF type = "read_only_probe" THEN 1000 ELSE 900

Step(t, type, tool, status) ==
  [type |-> type, thread |-> t, tool |-> tool, status |-> status,
   state |-> State(t), urgency |-> lanes[t].urgency,
   priority |-> TypeRank(type) + 100 * StateRank[State(t)] + Upper(0, lanes[t].urgency)]

StepsFor(t) ==
  {Step(t, "read_only_probe", ProbeTool(t), "none") : c \in {Coverage(t)} \ {"covered"}}
  \cup
  {Step(t, "control_dry_run", "lco_codex_control_dry_run",
        IF s = "needs_approval" THEN "blocked" ELSE "ready") :
     s \in {State(t)} \cap {"needs_nudge", "needs_approval"}}

Precedes(a, b) ==
  \/ a.priority > b.priority
  \/ /\ a.priority = b.priority
     /\ \/ a.thread < b.thread
        \/ a.thread = b.thread /\ a.type = "read_only_probe" /\ b.type # "read_only_probe"

\* Each stands after as many as precede it.
Sorted(steps) ==
  [i \in 1 .. Cardinality(steps) |->
     CHOOSE s \in steps : Cardinality({r \in steps : Precedes(r, s)}) = i - 1]

AllSteps == UNION {StepsFor(t) : t \in Threads}

Tick ==
  /\ plan = NoPlan
  /\ LET steps == Sorted(AllSteps)
     IN plan' = SubSeq(steps, 1, Lower(Len(steps), StepLimit))
  /\ UNCHANGED << lanes, appReport, mapReport, watching >>

Next == Tick
Spec == Init /\ [][Next]_vars

----------------------------------------------------------------------------
Planned == plan # NoPlan

\* What ought to be looked at again before a thread is driven: the sources
\* disagree, the app server has not been heard, or nothing is known for sure.
Doubtful(t) ==
  \/ Disagree(t) \/ ~Heard(t)
  \/ lanes[t].confidence < 70 /\ Mapped(t) < 70 /\ lanes[t].watcher = "none"

\* A plan never drives a thread that is in doubt before it has probed it, not
\* even when it is cut off, and never proposes to resume one that the app
\* server and the index disagree about, unless a watcher has told.  Reason
\* codes that crowd out the marks of a disagreement are left aside.
ProbedBeforeDriven ==
  Planned =>
    \A i \in DOMAIN plan : plan[i].type = "control_dry_run" =>
      LET t == plan[i].thread
      IN ~lanes[t].crowded =>
           /\ Doubtful(t) => \E j \in 1 .. (i - 1) : plan[j].thread = t
           /\ Disagree(t) => lanes[t].session = "running" /\ lanes[t].watcher # "none"
\* What every step keeps.
TickInv ==
  /\ DOMAIN lanes = Threads /\ \A t \in Threads : lanes[t] \in LanesOf(t)
  /\ ProbedBeforeDriven
=============================================================================
