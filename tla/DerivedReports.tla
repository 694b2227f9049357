--------------------------- MODULE DerivedReports ---------------------------
(* What LCO tells of its sessions and what is to be done next: coverage,  *)
(* the attention queue, ticks, plans, prepared rows, scenarios.            *)
EXTENDS Derived

CONSTANTS Threads, StepLimit,
          WatchIds, Targets, Ttl, StaleAfter, MaxTime, MaxPersists,
          MaxEvents, MaxInstant, MaxCommands,
          Keys, Limits, PageSize, MaxRowWrites,
          Agents, Queries, Window, Lookback, PruneEvery, PruneBatch, SearchLimit, MaxRows,
          MaxNow, MaxCalls,
          ShownThreads, Target, ThreadTitles, Untitled, MaxWorld, MaxAsks,
          Unasked,
          DriveTtl, MaxClock, NoTime, NoDrive

\* What may be known of two lanes: any of many things of the first, and of the
\* second only that it is driven.
LanesOf(t) ==
  IF t = 1
  THEN [session : {"running", "blocked", "needs_approval", "waiting", "unknown"},
        resumeReady : BOOLEAN, activeStale : {FALSE}, confidence : {45, 64, 92},
        urgency : {20}, watcher : {"none", "stale", "triggered"},
        app : {"absent", "silent", "running", "blocked"}, mapped : {0, 80}, crowded : BOOLEAN]
  ELSE [session : {"running", "needs_approval"}, resumeReady : {FALSE}, activeStale : {FALSE},
        confidence : {92}, urgency : {50}, watcher : {"triggered"},
        app : {"running"}, mapped : {0}, crowded : {FALSE}]

\* What searches may return: a ref alone, or after another.
Results == { << "x" >>, << "y", "x" >> }

\* The threads of a tick are finitely many, and numbers; so is its limit.
ASSUME ThreadsAreNumbers ==
  IsFiniteSet(Threads) /\ Threads \subseteq Int /\ StepLimit \in Nat

Tick == INSTANCE AutonomyTick WITH
  lanes <- v1, appReport <- v2, mapReport <- v3, watching <- v4, plan <- v5

Queue == INSTANCE WatcherQueue WITH
  clock <- v1, watcherSpecs <- v2, observations <- v3, attention <- v4,
  persists <- v5

Coverage == INSTANCE TargetCoverage WITH
  instant <- v1, dates <- v2, session <- v3, ranges <- v4, leaves <- v5, card <- v6,
  deriveAt <- v7, taken <- v8, commands <- v9, askAt <- v10, got <- v11,
  held <- v12, astray <- v13, wasSo <- v14

\* The thread has events, and stamps; and a row is not the lack of one.
ASSUME CoverageIsBounded ==
  /\ MaxEvents \in Nat \ {0} /\ MaxInstant \in Nat /\ MaxInstant >= 3
  /\ \A n \in 0 .. MaxEvents, i \in 0 .. MaxInstant : [upTo |-> n, created |-> i] # NoRow
  /\ [upTo |-> 1, dated |-> {0}, fresh |-> TRUE, updated |-> 3] # NoRow

Reads == INSTANCE PreparedReads WITH
  prepared <- v1, second <- v2, ask <- v3, at <- v4, raw <- v5, safe <- v6,
  offset <- v7, read <- v8, found <- v9, stayed <- v10, came <- v11, went <- v12,
  rowWrites <- v13

\* The keys are finitely many, and numbers; a page has a row at least.
ASSUME ReadsAreBounded ==
  /\ IsFiniteSet(Keys) /\ Keys \subseteq Int
  /\ Limits \subseteq Nat /\ PageSize \in Nat \ {0}

\* How long after a search a follow is taken to come of it.
ASSUME WindowIsTime == Window \in Int

Telemetry == INSTANCE RetrievalTelemetry WITH
  searches <- v1, follows <- v2, pruned <- v3, opening <- v4, proposed <- v5,
  shown <- v6, deeds <- v7, calls <- v8

\* The thread that is asked about is one of those there are.
ASSUME TargetIsThere == IsFiniteSet(ShownThreads) /\ Target \in ShownThreads

Planner == INSTANCE DesktopPlanner WITH
  title <- v1, indexCard <- v2, onScreen <- v3, sessionNeeds <- v4, worldSteps <- v5,
  mapAt <- v6, shownAs <- v7, listedAs <- v8, beforeMap <- v9, coherence <- v10,
  fallback <- v11, proof <- v12, asks <- v13, wasSeen <- v14, unfit <- v15,
  asked <- v16

Created == INSTANCE ThreadProof WITH
  start <- v1, hasId <- v2, stored <- v3, listed <- v4, name <- v5, row <- v6,
  alias <- v7, proof <- v8, was <- v9, said <- v10

Drives == INSTANCE Drive WITH
  platform <- v1, child <- v2, helper <- v3, wrote <- v4, flags <- v5, killer <- v6,
  timers <- v7, result <- v8, asked <- v9, clock <- v10, record <- v11, log <- v12,
  report <- v13

ReportInit ==
  \/ Only("tick", 5) /\ Tick!Init
  \/ Only("queue", 5) /\ Queue!Init
  \/ Only("coverage", 14) /\ Coverage!Init
  \/ Only("reads", 13) /\ Reads!Init
  \/ Only("telemetry", 8) /\ Telemetry!Init
  \/ Only("planner", 16) /\ Planner!Init
  \/ Only("created", 10) /\ Created!Init
  \/ Only("drive", 13) /\ Drives!Init

TickNext ==
  /\ component = "tick" /\ Tick!Next
  /\ UNCHANGED << component, v6, v7, v8, v9, v10, v11, v12, v13, v14, v15, v16 >>

QueueNext ==
  /\ component = "queue" /\ Queue!Next
  /\ UNCHANGED << component, v6, v7, v8, v9, v10, v11, v12, v13, v14, v15, v16 >>

CoverageNext ==
  /\ component = "coverage" /\ Coverage!Next
  /\ UNCHANGED << component, v15, v16 >>

ReadsNext ==
  /\ component = "reads" /\ Reads!Next
  /\ UNCHANGED << component, v14, v15, v16 >>

TelemetryNext ==
  /\ component = "telemetry" /\ Telemetry!Next
  /\ UNCHANGED << component, v9, v10, v11, v12, v13, v14, v15, v16 >>

PlannerNext ==
  /\ component = "planner" /\ Planner!Next
  /\ UNCHANGED << component >>

CreatedNext ==
  /\ component = "created" /\ Created!Next
  /\ UNCHANGED << component, v11, v12, v13, v14, v15, v16 >>

DrivesNext ==
  /\ component = "drive" /\ Drives!Next
  /\ UNCHANGED << component, v14, v15, v16 >>

ReportNext ==
  \/ TickNext \/ QueueNext \/ CoverageNext \/ ReadsNext \/ TelemetryNext \/ PlannerNext
  \/ CreatedNext \/ DrivesNext

ReportSpec == ReportInit /\ [][ReportNext]_vars

----------------------------------------------------------------------------
\* A thread in doubt is probed before it is driven (AutonomyTick).
ProbedBeforeDriven == component = "tick" => Tick!ProbedBeforeDriven

\* The attention queue asks for what the observations say (WatcherQueue).
QueueFollowsObservations == component = "queue" => Queue!QueueFollowsObservations

\* A thread said to be ready was current at one moment of the reading (TargetCoverage).
ReadyWasSo == component = "coverage" => Coverage!ReadyWasSo

\* A thread that is marked as derived is ready to who asks (TargetCoverage).
DerivedIsReady == component = "coverage" => Coverage!DerivedIsReady

\* A report of prepared rows passes over none in silence (PreparedReads).
EveryRowAccountedFor == component = "reads" => Reads!EveryRowAccountedFor

\* A harvested scenario happened (RetrievalTelemetry).
ProposalsHappened == component = "telemetry" => Telemetry!ProposalsHappened

\* A thread is said to be covered only if it was seen, and who does what the
\* planner says is told something else next, but in three cases (DesktopPlanner).
PlannerLeadsOn == component = "planner" => Planner!PlannerLeadsOn

\* What the post-create proof says was the case while it asked (ThreadProof).
SaidWasSo == component = "created" => Created!SaidWasSo

\* What drive says of its plan rests on a probe in time and a dry run on record (Drive).
DriveIsGrounded == component = "drive" => Drives!DriveIsGrounded
=============================================================================
