---------------------------- MODULE ReportProofs ----------------------------
(***************************************************************************)
(* What LCO tells of its sessions and what is to be done next, for any     *)
(* threads, watchers, rows, searches and clocks.  Each component keeps its *)
(* invariant whatever the others are; the invariants are declared in the   *)
(* components' own modules, and v1, v2, ... below are the variables that   *)
(* DerivedReports gives to them.                                           *)
(***************************************************************************)
EXTENDS DerivedReports, SequenceTheorems, FiniteSetTheorems, WellFoundedInduction, TLAPS

\* A step is one of the component that the behaviour chose.
LEMMA StepsOfOne ==
  ASSUME [ReportNext]_vars
  PROVE  /\ component' = component
         /\ component = "created" => Created!Next \/ UNCHANGED Created!vars
         /\ component = "drive" => Drives!Next \/ UNCHANGED Drives!vars
         /\ component = "coverage" => Coverage!Next \/ UNCHANGED Coverage!vars
         /\ component = "queue" => Queue!Next \/ UNCHANGED Queue!vars
         /\ component = "planner" => Planner!Next \/ UNCHANGED Planner!vars
         /\ component = "tick" => Tick!Next \/ UNCHANGED Tick!vars
         /\ component = "reads" => Reads!Next \/ UNCHANGED Reads!vars
         /\ component = "telemetry" => Telemetry!Next \/ UNCHANGED Telemetry!vars
<1>1. CASE UNCHANGED vars
  BY <1>1 DEF vars, Created!vars, Drives!vars, Drives!probe, Coverage!vars,
              Coverage!storeVars, Coverage!readerVars, Queue!vars, Planner!vars,
              Planner!world, Planner!joining, Planner!reports, Tick!vars, Reads!vars, Telemetry!vars
<1>2. CASE ReportNext
  BY <1>2 DEF ReportNext, CreatedNext, DrivesNext, CoverageNext, QueueNext, PlannerNext,
              TickNext, ReadsNext, TelemetryNext
<1> QED BY <1>1, <1>2

LEMMA StartsOfOne ==
  ASSUME ReportInit
  PROVE  /\ component = "created" => Created!Init
         /\ component = "drive" => Drives!Init
         /\ component = "coverage" => Coverage!Init
         /\ component = "queue" => Queue!Init
         /\ component = "planner" => Planner!Init
         /\ component = "tick" => Tick!Init
         /\ component = "reads" => Reads!Init
         /\ component = "telemetry" => Telemetry!Init
BY DEF ReportInit, Only

-----------------------------------------------------------------------------
(* ThreadProof: the start is v1, its id v2, the world v3 to v7, what the    *)
(* proof has read v8, what was the case v9, what it says v10.               *)

\* The world changes, and what is the case goes into the ghost.
LEMMA CreatedNotes ==
  ASSUME Created!ProofInv, UNCHANGED << v1, v2, v8, v10 >>, Created!Noted,
         { v3', v4', v6' } \subseteq BOOLEAN, v5' \in { "plain", "related" },
         v5 = "related" => v5' = "related", v7 = "related" => v7' = "related"
  PROVE  Created!ProofInv'
<1>1. v9 \subseteq v9'
  BY DEF Created!Noted
<1>2. Created!Asked' = Created!Asked /\ (Created!Misled => Created!Misled')
  BY DEF Created!Asked, Created!Misled
<1>3. Created!Asked => Created!ReadInv'
  BY <1>1, <1>2 DEF Created!ProofInv, Created!ReadInv
<1>4. Created!SaidWasSo'
  BY <1>1, <1>2 DEF Created!ProofInv, Created!SaidWasSo
<1>5. Created!Asked /\ v10 = "none" => Created!Facts(v3', v4', v6') \subseteq v9'
  BY DEF Created!Noted
<1> QED BY <1>2, <1>3, <1>4, <1>5 DEF Created!ProofInv

\* The proof asks for the next thing, and nothing else happens.
LEMMA CreatedReads ==
  ASSUME Created!ProofInv, Created!AskRead \/ Created!AskSearch \/ Created!AskDescribe
  PROVE  Created!ProofInv'
<1> USE DEF Created!world
<1>1. /\ Created!Asked /\ Created!ReadInv /\ v10 = "none"
      /\ Created!Facts(v3, v4, v6) \subseteq v9
      /\ UNCHANGED << v1, v2, v3, v4, v5, v6, v7, v9, v10 >>
  BY DEF Created!AskRead, Created!AskSearch, Created!AskDescribe, Created!Step, Created!ProofInv
<1>2. ASSUME Created!Asked'
      PROVE  Created!ReadInv'
  <2>1. CASE Created!AskRead
    <3>1. PICK found \in { v3, FALSE } : v8' = [v8 EXCEPT !.at = "search", !.read = found]
      BY <2>1 DEF Created!AskRead
    <3>2. found \in BOOLEAN /\ v8.at = "read"
      BY <2>1, <3>1 DEF Created!AskRead, Created!ProofInv, Created!Step
    <3>3. found => "stored" \in v9
      BY <1>1, <3>1 DEF Created!Facts
    <3>4. /\ v8' \in Created!Readings /\ v8'.at = "search" /\ v8'.read = found
          /\ v8'.list = v8.list /\ v8'.name = v8.name /\ v8'.search = v8.search
          /\ v8'.described = v8.described
      BY <1>1, <3>1, <3>2 DEF Created!ReadInv, Created!Readings
    <3> QED BY <1>1, <3>2, <3>3, <3>4 DEF Created!ReadInv
  <2>2. CASE Created!AskSearch
    <3> DEFINE found == Created!Found
    <3>1. v8' = [v8 EXCEPT !.at = "describe", !.search = found] /\ v8.at = "search"
      BY <2>2 DEF Created!AskSearch, Created!Step
    <3>2. /\ found \in BOOLEAN
          /\ IF found THEN "indexed" \in v9 \/ Created!Misled ELSE "notIndexed" \in v9
      BY <1>1
      DEF Created!Found, Created!ByTitleAlias, Created!ByListedName, Created!Misled,
          Created!Facts, Created!ReadInv, Created!Readings
    <3> HIDE DEF found
    <3>3. /\ v8' \in Created!Readings /\ v8'.at = "describe" /\ v8'.search = found
          /\ v8'.list = v8.list /\ v8'.name = v8.name /\ v8'.read = v8.read
          /\ v8'.described = v8.described
      BY <1>1, <3>1, <3>2 DEF Created!ReadInv, Created!Readings
    <3>4. Created!Misled' = Created!Misled
      BY <1>1, <1>2, <3>3 DEF Created!Misled, Created!Asked
    <3> QED BY <1>1, <3>1, <3>2, <3>3, <3>4 DEF Created!ReadInv
  <2>3. CASE Created!AskDescribe
    <3>1. v8' = [v8 EXCEPT !.at = "say", !.described = v6] /\ v8.at = "describe"
      BY <2>3 DEF Created!AskDescribe, Created!Step
    <3>2. v6 \in BOOLEAN /\ (v6 => "indexed" \in v9)
      BY <1>1 DEF Created!ProofInv, Created!Facts
    <3>3. /\ v8' \in Created!Readings /\ v8'.at = "say" /\ v8'.described = v6
          /\ v8'.list = v8.list /\ v8'.name = v8.name /\ v8'.read = v8.read
          /\ v8'.search = v8.search
      BY <1>1, <3>1, <3>2 DEF Created!ReadInv, Created!Readings
    <3>4. Created!Misled' = Created!Misled
      BY <1>1, <1>2, <3>3 DEF Created!Misled, Created!Asked
    <3> QED BY <1>1, <3>1, <3>2, <3>3, <3>4 DEF Created!ReadInv
  <2> QED BY <2>1, <2>2, <2>3
<1>3. Created!SaidWasSo'
  BY <1>1 DEF Created!SaidWasSo
<1>4. UNCHANGED << v1, v2, v3, v4, v5, v6, v7, v9, v10 >> /\ v1 # "none"
  BY <1>1 DEF Created!ProofInv
<1> QED BY <1>1, <1>2, <1>3, <1>4 DEF Created!ProofInv, Created!Facts

LEMMA CreatedKept ==
  ASSUME Created!ProofInv, Created!Next \/ UNCHANGED Created!vars
  PROVE  Created!ProofInv'
<1> USE DEF Created!world
<1>1. CASE \E r \in Created!Responses : Created!Start(r)
  <2>1. PICK r \in Created!Responses : Created!Start(r)
    BY <1>1
  <2>2. v2' => v1' # "transport_rejected"
    BY <2>1 DEF Created!Start, Created!NextProof, Created!ProofState, Created!Responses
  <2>3. /\ v1 = "none" /\ UNCHANGED << v3, v4, v5, v6, v7, v8, v9, v10 >>
        /\ v10 = "none" /\ ~Created!Asked
    BY <2>1 DEF Created!Start, Created!ProofInv
  <2> QED BY <2>2, <2>3 DEF Created!ProofInv, Created!Asked, Created!SaidWasSo
<1>2. CASE \/ Created!CodexWrites \/ Created!CodexLists \/ Created!CodexRenames
           \/ Created!CodexArchives \/ Created!Index \/ Created!Unindex
           \/ \E kind \in { "plain", "related" } : Created!FinalizeTitle(kind)
  BY <1>2, CreatedNotes
  DEF Created!ProofInv, Created!CodexWrites, Created!CodexLists, Created!CodexRenames,
      Created!CodexArchives, Created!Index, Created!Unindex, Created!FinalizeTitle
<1>3. CASE Created!AskList
  <2>1. /\ v1 # "none" /\ ~Created!Asked /\ v10 \in { "none", "unresolved_unknown" }
        /\ UNCHANGED << v1, v2, v3, v4, v5, v6, v7 >>
    BY <1>3 DEF Created!AskList, Created!ProofInv
  <2>2. CASE ~v2
    BY <1>3, <2>1, <2>2 DEF Created!AskList, Created!ProofInv, Created!Asked, Created!SaidWasSo
  <2>3. CASE v2
    <3>1. PICK found \in { v4, FALSE } :
            v8' = [at |-> "read", list |-> found, name |-> IF found THEN v5 ELSE "plain",
                   read |-> FALSE, search |-> FALSE, described |-> FALSE]
      BY <1>3, <2>3 DEF Created!AskList
    <3>2. v9' = Created!Facts(v3, v4, v6) /\ v10' = v10
      BY <1>3, <2>3 DEF Created!AskList
    <3>3. found \in BOOLEAN /\ (found => v4) /\ v5 \in { "plain", "related" }
      <4>1. v4 \in BOOLEAN /\ v5 \in { "plain", "related" }
        BY DEF Created!ProofInv
      <4>2. CASE found = v4
        BY <4>1, <4>2
      <4>3. CASE found = FALSE
        BY <4>1, <4>3
      <4> QED BY <3>1, <4>2, <4>3
    <3>4. Created!ReadInv'
      BY <2>1, <2>3, <3>1, <3>2, <3>3 DEF Created!ReadInv, Created!Readings, Created!Facts
    <3>5. Created!SaidWasSo'
      BY <2>1, <3>2 DEF Created!SaidWasSo
    <3> QED BY <2>1, <3>2, <3>4, <3>5 DEF Created!ProofInv
  <2> QED BY <2>2, <2>3
<1>4. CASE Created!AskRead \/ Created!AskSearch \/ Created!AskDescribe
  BY <1>4, CreatedReads
<1>5. CASE Created!Say
  <2>1. /\ Created!Asked /\ Created!ReadInv /\ v8.at = "say" /\ v1 # "none"
        /\ UNCHANGED << v1, v2, v3, v4, v5, v6, v7, v8, v9 >>
    BY <1>5 DEF Created!Say, Created!Step, Created!ProofInv
  <2>2. v10' = IF Created!Persisted THEN "persisted"
               ELSE IF v8.described THEN "described"
               ELSE IF v8.search THEN "indexed"
               ELSE IF v8.list \/ v8.read THEN "created_but_unindexed_pending"
               ELSE "unresolved_unknown"
    BY <1>5 DEF Created!Say
  <2>3. {v8.read, v8.list, v8.search, v8.described} \subseteq BOOLEAN
    BY <2>1 DEF Created!ReadInv, Created!Readings
  <2>4. v10' # "none"
    BY <2>2, <2>3 DEF Created!Persisted
  <2>5. v2 /\ v1 # "transport_rejected" /\ Created!Misled' = Created!Misled
    BY <2>1 DEF Created!ProofInv, Created!ReadInv, Created!Misled, Created!Asked
  <2>6. /\ v8.read => "stored" \in v9
        /\ v8.list => "listed" \in v9
        /\ v8.search => "indexed" \in v9 \/ Created!Misled
        /\ ~v8.search => "notIndexed" \in v9
        /\ v8.described => "indexed" \in v9
    BY <2>1 DEF Created!ReadInv
  <2>7. \/ v10' = "persisted" /\ v8.read /\ (v8.described \/ v8.search)
        \/ v10' = "described" /\ v8.described
        \/ v10' = "indexed" /\ v8.search
        \/ v10' = "created_but_unindexed_pending" /\ ~v8.search /\ (v8.list \/ v8.read)
        \/ v10' = "unresolved_unknown"
    BY <2>2, <2>3 DEF Created!Persisted
  <2>8. Created!SaidWasSo'
    BY <2>1, <2>5, <2>6, <2>7 DEF Created!SaidWasSo
  <2> QED BY <2>1, <2>4, <2>8 DEF Created!ProofInv, Created!ReadInv, Created!Asked, Created!Misled
<1>6. CASE UNCHANGED Created!vars
  BY <1>6
  DEF Created!vars, Created!ProofInv, Created!ReadInv, Created!SaidWasSo, Created!Asked,
      Created!Misled
<1> QED BY <1>1, <1>2, <1>3, <1>4, <1>5, <1>6 DEF Created!Next

(***************************************************************************)
(* What the post-create proof says of a thread was the case while it       *)
(* asked, whatever Codex and the indexers did between two questions.       *)
(***************************************************************************)
THEOREM ProofsSayWhatWas == ReportSpec => []SaidWasSo
<1> DEFINE I == component = "created" => Created!ProofInv
<1>1. Created!Init => Created!ProofInv
  BY DEF Created!Init, Created!ProofInv, Created!Asked, Created!SaidWasSo
<1>2. ReportInit => I
  BY <1>1, StartsOfOne
<1>3. I /\ [ReportNext]_vars => I'
  BY StepsOfOne, CreatedKept
<1>4. I => SaidWasSo
  BY DEF SaidWasSo, Created!ProofInv
<1> QED BY <1>2, <1>3, <1>4, PTL DEF ReportSpec

-----------------------------------------------------------------------------
(* Drive: the probe is v1 to v8, the child v2, the flags v5, the killer v6, *)
(* the timers v7, its result v8; what is asked v9, the record v11, the log *)
(* v12, the report v13.                                                    *)

LEMMA ProbeKept ==
  ASSUME Drives!ProbeInv,
         Drives!StartProbe \/ Drives!NextProbe \/ UNCHANGED Drives!probe
  PROVE  Drives!ProbeInv' /\ (v8 # NoResult => v8' = v8)
<1> USE DEF Drives!Ends, Drives!childIsRunning
<1>1. CASE Drives!StartProbe
  BY <1>1 DEF Drives!StartProbe, Drives!ProbeInv
<1>2. CASE Drives!Forks \/ Drives!ChildEnds \/ Drives!HelperEnds \/ Drives!Captures
  BY <1>2
  DEF Drives!Forks, Drives!ChildEnds, Drives!HelperEnds, Drives!Captures, Drives!ProbeInv
<1>3. CASE Drives!CapturesTooMuch
  BY <1>3 DEF Drives!CapturesTooMuch, Drives!TerminateTree, Drives!ProbeInv
<1>4. CASE Drives!ChildCloses
  <2>1. /\ v2 \in Drives!Ends /\ ~v3 /\ v8 = NoResult /\ UNCHANGED << v1, v2, v3, v4, v5, v6 >>
        /\ v8' = [status |-> v2, wrote |-> v4, flags |-> v5]
        /\ v7' = [soft |-> "off", hard |-> IF v6 = "running" THEN v7.hard ELSE "off"]
    BY <1>4 DEF Drives!ChildCloses, Drives!Settled
  <2>2. Drives!Availability(v8') = "dry_run_only" => v5 = {} /\ v2 = "exited" /\ v4 = "supported"
    BY <2>1 DEF Drives!Availability
  <2> QED BY <2>1, <2>2 DEF Drives!ProbeInv, Drives!Idle
<1>5. CASE Drives!SoftTimer
  BY <1>5 DEF Drives!SoftTimer, Drives!TerminateTree, Drives!ProbeInv, Drives!Idle
<1>6. CASE Drives!KillerEnds
  BY <1>6 DEF Drives!KillerEnds, Drives!Signalled, Drives!ProbeInv, Drives!Idle
<1>7. CASE Drives!HardTimer
  <2>1. /\ v7.hard = "armed" /\ v2' = Drives!Signalled(v2)
        /\ v6' = IF v6 = "none" /\ v2 \in {"running", "dying"} /\ v1 = "posix" THEN "group"
                 ELSE IF v6 = "running" THEN "done" ELSE v6
        /\ v5' # {} /\ v3' \in {v3, FALSE}
        /\ v8' = IF v8 = NoResult THEN [status |-> "signalled", wrote |-> v4, flags |-> v5'] ELSE v8
    BY <1>7 DEF Drives!HardTimer, Drives!Settled
  <2>2. v8 = NoResult => Drives!Availability(v8') = "not_configured"
    BY <2>1 DEF Drives!Availability
  <2>3. v7 # Drives!Idle
    BY <2>1 DEF Drives!Idle
  <2> QED BY <2>1, <2>2, <2>3 DEF Drives!ProbeInv, Drives!Signalled
<1>8. CASE UNCHANGED Drives!probe
  BY <1>8 DEF Drives!probe, Drives!ProbeInv
<1> QED BY <1>1, <1>2, <1>3, <1>4, <1>5, <1>6, <1>7, <1>8 DEF Drives!NextProbe

LEMMA DriveKept ==
  ASSUME Drives!DriveInv, Drives!Next \/ UNCHANGED Drives!vars
  PROVE  Drives!DriveInv'
<1>1. /\ Drives!ProbeInv /\ Drives!DriveIsGrounded
      /\ v11 # NoTime => v9 # NoDrive /\ Drives!Available
      /\ v13 # NoDrive => v9 # NoDrive
  BY DEF Drives!DriveInv
<1>2. Drives!StartProbe \/ Drives!NextProbe \/ UNCHANGED Drives!probe
  BY DEF Drives!Next, Drives!Ask, Drives!Probing, Drives!ReportBlocked, Drives!DryRun,
         Drives!LogChanges, Drives!Plan, Drives!Tick, Drives!vars
<1>3. Drives!ProbeInv' /\ (v8 # NoResult => v8' = v8)
  BY <1>1, <1>2, ProbeKept
<1>4. Drives!ProbedInTime'
  BY <1>3 DEF Drives!ProbeInv, Drives!ProbedInTime, Drives!Ends
<1>5. ASSUME v8 # NoResult, Drives!Availability(v8) = "dry_run_only"
      PROVE  v8' # NoResult /\ v2' = "exited" /\ v5' = {}
  BY <1>3, <1>5 DEF Drives!ProbeInv
<1>6. ASSUME v9 # NoDrive, v9' = v9, Drives!Available
      PROVE  Drives!Available' /\ (v9.driver = "claude" => v2' = "exited" /\ v5' = {})
  BY <1>3, <1>5, <1>6 DEF Drives!Available
<1>7. CASE \E driver \in {"codex", "claude"} : Drives!Ask(driver)
  BY <1>1, <1>3, <1>4, <1>7 DEF Drives!Ask, Drives!DriveInv, Drives!DriveIsGrounded
<1>8. CASE Drives!DryRun
  <2>1. /\ Drives!Waiting /\ Drives!Available /\ UNCHANGED << v9, v12 >>
        /\ \/ v11' = v11 /\ v13'.status = "rejected" /\ v13'.bound = FALSE
           \/ v13' = v13
    BY <1>8 DEF Drives!DryRun
  <2> QED BY <1>1, <1>3, <1>4, <1>6, <2>1
      DEF Drives!DriveInv, Drives!DriveIsGrounded, Drives!Waiting
<1>9. CASE Drives!Plan
  <2>1. /\ v11 # NoTime /\ v13 = NoDrive /\ UNCHANGED << v9, v11, v12 >>
        /\ v13'.status \in {"rejected", "dry_run_ready"}
        /\ v13'.bound => /\ v12 # "cut" /\ v9.driver = "codex" /\ Drives!Fresh(v11)
                         /\ v13'.status = "dry_run_ready"
        /\ v13'.expires = IF v12 = "whole" THEN v11 + DriveTtl ELSE NoTime
        /\ v13'.evaluated = Drives!Evaluated
    BY <1>9 DEF Drives!Plan
  <2> QED BY <1>1, <1>3, <1>4, <1>6, <2>1
      DEF Drives!DriveInv, Drives!DriveIsGrounded, Drives!Fresh
<1>10. CASE Drives!ReportBlocked
  <2>1. /\ Drives!Waiting /\ UNCHANGED << v9, v11, v12 >>
        /\ v13'.status = "blocked" /\ v13'.bound = FALSE
    BY <1>10 DEF Drives!ReportBlocked
  <2> QED BY <1>1, <1>3, <1>4, <1>6, <2>1
      DEF Drives!DriveInv, Drives!DriveIsGrounded, Drives!Waiting
<1>11. CASE Drives!Probing \/ Drives!LogChanges \/ Drives!Tick \/ UNCHANGED Drives!vars
  <2>1. UNCHANGED << v9, v11, v13 >> /\ (v13 # NoDrive => v12' = v12)
    BY <1>11 DEF Drives!Probing, Drives!LogChanges, Drives!Tick, Drives!vars
  <2> QED BY <1>1, <1>3, <1>4, <1>6, <2>1 DEF Drives!DriveInv, Drives!DriveIsGrounded
<1> QED BY <1>7, <1>8, <1>9, <1>10, <1>11 DEF Drives!Next

(***************************************************************************)
(* What drive says of its plan rests on a probe that ended in time and a   *)
(* dry run on record, and an approval is offered only while it is fresh,   *)
(* whenever the processes end, the timers fire and the log is replaced.    *)
(***************************************************************************)
THEOREM DrivesAreGrounded == ReportSpec => []DriveIsGrounded
<1> DEFINE I == component = "drive" => Drives!DriveInv
<1>1. Drives!Init => Drives!DriveInv
  BY DEF Drives!Init, Drives!InitProbe, Drives!DriveInv, Drives!ProbeInv, Drives!Idle,
         Drives!DriveIsGrounded, Drives!ProbedInTime
<1>2. ReportInit => I
  BY <1>1, StartsOfOne
<1>3. I /\ [ReportNext]_vars => I'
  BY StepsOfOne, DriveKept
<1>4. I => DriveIsGrounded
  BY DEF DriveIsGrounded, Drives!DriveInv
<1> QED BY <1>2, <1>3, <1>4, PTL DEF ReportSpec

-----------------------------------------------------------------------------
(* TargetCoverage: the instant is v1, the dates v2; session, ranges, leaves *)
(* and card are v3 to v6; the run's place is v7 and what it took v8; what   *)
(* run and command hold is v12, and v13 tells of what went astray.          *)

LEMMA CoverageTables ==
  /\ DOMAIN Coverage!Nothing
       = { "session", "ranges", "leaves", "card", "inbox", "inboxCard", "updated" }
  /\ \A t \in DOMAIN Coverage!Nothing : Coverage!Nothing[t] = NoRow
  /\ Coverage!Nothing = [t \in DOMAIN Coverage!Nothing |-> NoRow]
<1> DEFINE T == {Coverage!Tables[i] : i \in DOMAIN Coverage!Tables}
<1>1. DOMAIN Coverage!Tables = 1 .. 7
  BY DEF Coverage!Tables
<1>2. T = { "session", "ranges", "leaves", "card", "inbox", "inboxCard", "updated" }
  BY <1>1 DEF Coverage!Tables
<1>3. Coverage!Nothing = [t \in T |-> NoRow]
  BY DEF Coverage!Nothing
<1> HIDE DEF T
<1> QED BY <1>2, <1>3

LEMMA CoverageInit ==
  ASSUME Coverage!Init
  PROVE  Coverage!CoverageInv
<1>1. /\ v1 = 3 /\ v2 = << {0} >>
      /\ v3 = [upTo |-> 1, updated |-> {0}, marked |-> TRUE]
      /\ v4 = [upTo |-> 1, created |-> 1] /\ v5 = [upTo |-> 1, created |-> 2]
      /\ v6 = [upTo |-> 1, dated |-> {0}, fresh |-> TRUE, updated |-> 3]
      /\ v7 = "done" /\ v12 = [run |-> {}, command |-> {}]
  BY DEF Coverage!Init
<1>2. v2 \in Seq(SUBSET Int) /\ Len(v2) = 1 /\ v2[1] = {0}
  BY <1>1
<1>3. Coverage!DatesInv
  BY <1>1, <1>2, CoverageIsBounded DEF Coverage!DatesInv
<1>4. v4 # NoRow
  BY <1>1, CoverageIsBounded
<1>5. Coverage!StoreInv
  BY <1>1, <1>2, <1>4 DEF Coverage!StoreInv, Coverage!Stamped
<1>6. DOMAIN v12 = { "run", "command" } /\ v12["run"] = {} /\ v12["command"] = {}
  BY <1>1
<1>7. Coverage!HeldInv
  BY <1>1, <1>6 DEF Coverage!HeldInv
<1>8. v3.updated = {0} /\ v5.created = 2 /\ v6.updated = 3
  BY <1>1
<1>9. Coverage!DerivedInv
  <2>1. \A d \in v3.updated : d < v5.created /\ d < v6.updated
    BY <1>8
  <2>2. v5 # NoRow /\ v6 # NoRow
    BY <1>1, CoverageIsBounded
  <2> QED BY <2>1, <2>2 DEF Coverage!DerivedInv
<1> QED BY <1>3, <1>5, <1>7, <1>9 DEF Coverage!CoverageInv

\* What was stamped after its events is so still when others have come.
LEMMA StampedStays ==
  ASSUME Coverage!DatesInv, NEW row, Coverage!Stamped(row),
         Len(v2) <= Len(v2'), Len(v2') \in Nat, \A m \in 1 .. Len(v2) : v2'[m] = v2[m]
  PROVE  /\ row.upTo \in 0 .. Len(v2') /\ row.created \in Nat
         /\ \A m \in 1 .. row.upTo : \A d \in v2'[m] : d < row.created
BY DEF Coverage!DatesInv, Coverage!Stamped

\* A stamp that is given now is after every event.
LEMMA StampedNow ==
  ASSUME Coverage!DatesInv, Coverage!Tock
  PROVE  /\ v1' \in 0 .. MaxInstant
         /\ \A m \in 1 .. Len(v2) : \A d \in v2[m] : d <= v1' /\ d < v1'
<1>1. v1 \in Nat /\ MaxInstant \in Nat /\ v1' = v1 + 1 /\ v1 < MaxInstant
  BY CoverageIsBounded DEF Coverage!DatesInv, Coverage!Tock
<1>2. \A m \in 1 .. Len(v2) : \A d \in v2[m] : d \in Int /\ d <= v1
  <2> TAKE m \in 1 .. Len(v2)
  <2>1. v2[m] \subseteq Int
    BY DEF Coverage!DatesInv
  <2> QED BY <2>1 DEF Coverage!DatesInv
<1> QED BY <1>1, <1>2

\* The times that the session and the card may state are numbers.
LEMMA SessionIsDated ==
  ASSUME Coverage!DatesInv, Coverage!StoreInv, NEW stamp \in Int, v3 # NoRow,
         \A m \in 1 .. v3.upTo : \A d \in v2[m] : d < stamp
  PROVE  \A d \in v3.updated : d < stamp
BY DEF Coverage!StoreInv

LEMMA CoverageWriteKept ==
  ASSUME Coverage!CoverageInv, Coverage!Write
  PROVE  Coverage!CoverageInv'
<1>1. PICK date \in {{v1}, {v1 - 1}, {}} : v2' = Append(v2, date) /\ Len(v2) < MaxEvents
  BY DEF Coverage!Write
<1>2. UNCHANGED << v1, v3, v4, v5, v6, v7, v8, v12, v13 >>
  BY DEF Coverage!Write, Coverage!storeVars
<1>3. Coverage!DatesInv /\ Coverage!StoreInv /\ Coverage!HeldInv /\ Coverage!DerivedInv
  BY DEF Coverage!CoverageInv
<1>4. v1 \in Int /\ v2 \in Seq(SUBSET Int) /\ Len(v2) \in Nat /\ MaxEvents \in Nat
  BY <1>3, CoverageIsBounded DEF Coverage!DatesInv
<1>5. date \in SUBSET Int /\ \A d \in date : d <= v1
  BY <1>4
<1>6. /\ v2' \in Seq(SUBSET Int) /\ Len(v2') = Len(v2) + 1
      /\ \A m \in 1 .. Len(v2) : v2'[m] = v2[m]
      /\ v2'[Len(v2) + 1] = date
  BY <1>1, <1>4, <1>5
<1>7. Coverage!DatesInv'
  <2>1. \A m \in 1 .. Len(v2') : m \in 1 .. Len(v2) \/ m = Len(v2) + 1
    BY <1>4, <1>6
  <2>2. \A m \in 1 .. Len(v2') : \A d \in v2'[m] : d <= v1
    BY <1>3, <1>5, <1>6, <2>1 DEF Coverage!DatesInv
  <2> QED BY <1>1, <1>2, <1>3, <1>4, <1>6, <2>2 DEF Coverage!DatesInv
<1>8. Len(v2) <= Len(v2') /\ Len(v2') \in Nat /\ 0 .. Len(v2) \subseteq 0 .. Len(v2')
  BY <1>4, <1>6
<1>9. /\ v4 # NoRow => Coverage!Stamped(v4)'
      /\ v5 # NoRow => Coverage!Stamped(v5)'
  BY <1>2, <1>3, <1>6, <1>8, StampedStays DEF Coverage!StoreInv, Coverage!Stamped
<1>10. v3 # NoRow =>
         /\ v3 \in [upTo : 0 .. Len(v2'), updated : SUBSET Int, marked : BOOLEAN]
         /\ \A d \in v3.updated : \E m \in 1 .. v3.upTo : d \in v2'[m]
  <2> SUFFICES ASSUME v3 # NoRow
               PROVE  /\ v3 \in [upTo : 0 .. Len(v2'), updated : SUBSET Int, marked : BOOLEAN]
                      /\ \A d \in v3.updated : \E m \in 1 .. v3.upTo : d \in v2'[m]
    OBVIOUS
  <2>1. v3 \in [upTo : 0 .. Len(v2), updated : SUBSET Int, marked : BOOLEAN]
    BY <1>3 DEF Coverage!StoreInv
  <2>2. v3 \in [upTo : 0 .. Len(v2'), updated : SUBSET Int, marked : BOOLEAN]
    BY <1>8, <2>1
  <2>3. \A m \in 1 .. v3.upTo : m \in 1 .. Len(v2)
    BY <1>4, <2>1
  <2> QED BY <1>3, <1>6, <2>2, <2>3 DEF Coverage!StoreInv
<1>11. Coverage!StoreInv'
  BY <1>2, <1>3, <1>9, <1>10 DEF Coverage!StoreInv
<1>12. Coverage!HeldInv' /\ Coverage!DerivedInv'
  BY <1>2, <1>3, <1>8 DEF Coverage!HeldInv, Coverage!DerivedInv
<1> QED BY <1>7, <1>11, <1>12 DEF Coverage!CoverageInv

\* Where it is read and nothing is stamped.
LEMMA CoverageReadKept ==
  ASSUME Coverage!CoverageInv,
         \/ Coverage!Begin \/ Coverage!ReadForLeaves \/ Coverage!CommandReads
         \/ Coverage!Mark \/ Coverage!Abandon \/ Coverage!Ask \/ Coverage!Select
  PROVE  Coverage!CoverageInv'
<1>1. UNCHANGED << v1, v2, v4, v5, v6, v13 >>
  BY DEF Coverage!Begin, Coverage!ReadForLeaves, Coverage!CommandReads, Coverage!Mark,
         Coverage!Abandon, Coverage!Ask, Coverage!Select, Coverage!storeVars
<1>2. Coverage!DatesInv /\ Coverage!StoreInv /\ Coverage!HeldInv /\ Coverage!DerivedInv
  BY DEF Coverage!CoverageInv
<1>3. Coverage!DatesInv'
  BY <1>1, <1>2 DEF Coverage!DatesInv
<1>4. CASE Coverage!Ask \/ Coverage!Select
  <2>1. UNCHANGED << v3, v7, v8, v12 >>
    BY <1>4 DEF Coverage!Ask, Coverage!Select, Coverage!storeVars
  <2>2. Coverage!StoreInv' /\ Coverage!HeldInv' /\ Coverage!DerivedInv'
    BY <1>1, <1>2, <2>1 DEF Coverage!StoreInv, Coverage!Stamped, Coverage!HeldInv,
                            Coverage!DerivedInv
  <2> QED BY <1>3, <2>2 DEF Coverage!CoverageInv
<1>5. CASE Coverage!Begin
  <2>1. /\ UNCHANGED << v3, v12 >> /\ v7 \in { "idle", "done" }
        /\ v7' = "done" \/ (v7' = "store" /\ v8' = Len(v2))
    BY <1>5 DEF Coverage!Begin, Coverage!storeVars
  <2>2. Coverage!StoreInv' /\ Coverage!DerivedInv'
    BY <1>1, <1>2, <2>1 DEF Coverage!StoreInv, Coverage!Stamped, Coverage!DerivedInv
  <2>3. Coverage!HeldInv'
    BY <1>1, <1>2, <2>1 DEF Coverage!HeldInv, Coverage!DatesInv
  <2> QED BY <1>3, <2>2, <2>3 DEF Coverage!CoverageInv
<1>6. CASE Coverage!ReadForLeaves \/ Coverage!CommandReads
  <2>1. UNCHANGED << v3, v7, v8 >>
    BY <1>6 DEF Coverage!ReadForLeaves, Coverage!CommandReads, Coverage!storeVars
  <2>2. Coverage!StoreInv' /\ Coverage!DerivedInv'
    BY <1>1, <1>2, <2>1 DEF Coverage!StoreInv, Coverage!Stamped, Coverage!DerivedInv
  <2>3. PICK w \in { "run", "command" } :
          v12' = [v12 EXCEPT ![w] = {v4}] /\ (w = "run" => v7 = "leaves")
    BY <1>6 DEF Coverage!ReadForLeaves, Coverage!CommandReads, Coverage!ReadRanges
  <2>4. /\ DOMAIN v12' = { "run", "command" } /\ v12'[w] = {v4}
        /\ \A u \in { "run", "command" } : u # w => v12'[u] = v12[u]
    BY <1>2, <2>3 DEF Coverage!HeldInv
  <2>5. v4 # NoRow => v4.upTo \in 0 .. Len(v2)
    BY <1>2 DEF Coverage!StoreInv, Coverage!Stamped
  <2>6. Coverage!HeldInv'
    BY <1>1, <1>2, <2>1, <2>3, <2>4, <2>5 DEF Coverage!HeldInv
  <2> QED BY <1>3, <2>2, <2>6 DEF Coverage!CoverageInv
<1>7. CASE Coverage!Mark
  <2>1. /\ v7 = "mark" /\ v7' = "done" /\ UNCHANGED << v8, v12 >>
        /\ v3' = IF v3 = NoRow THEN NoRow ELSE [v3 EXCEPT !.marked = TRUE]
    BY <1>7 DEF Coverage!Mark
  <2>2. CASE v3 = NoRow
    <3>1. v3' = NoRow
      BY <2>1, <2>2
    <3> QED BY <1>1, <1>2, <1>3, <2>1, <3>1
            DEF Coverage!CoverageInv, Coverage!StoreInv, Coverage!Stamped, Coverage!HeldInv,
                Coverage!DerivedInv
  <2>3. CASE v3 # NoRow
    <3>1. /\ v3 \in [upTo : 0 .. Len(v2), updated : SUBSET Int, marked : BOOLEAN]
          /\ v3' = [v3 EXCEPT !.marked = TRUE]
      BY <1>2, <2>1, <2>3 DEF Coverage!StoreInv
    <3>2. /\ v3' \in [upTo : 0 .. Len(v2), updated : SUBSET Int, marked : BOOLEAN]
          /\ v3'.upTo = v3.upTo /\ v3'.updated = v3.updated
      BY <3>1
    <3>3. Coverage!StoreInv'
      BY <1>1, <1>2, <2>3, <3>2 DEF Coverage!StoreInv, Coverage!Stamped
    <3>4. Coverage!HeldInv' /\ Coverage!DerivedInv'
      BY <1>1, <1>2, <2>1, <2>3, <3>2 DEF Coverage!HeldInv, Coverage!DerivedInv
    <3> QED BY <1>3, <3>3, <3>4 DEF Coverage!CoverageInv
  <2> QED BY <2>2, <2>3
<1>8. CASE Coverage!Abandon
  <2>1. /\ v7' = "idle" /\ UNCHANGED v3
        /\ v12' = [v12 EXCEPT !["run"] = {}]
    BY <1>8 DEF Coverage!Abandon, Coverage!storeVars
  <2>2. /\ DOMAIN v12' = { "run", "command" } /\ v12'["run"] = {}
        /\ v12'["command"] = v12["command"]
    BY <1>2, <2>1 DEF Coverage!HeldInv
  <2>3. Coverage!HeldInv'
    BY <1>1, <1>2, <2>1, <2>2 DEF Coverage!HeldInv
  <2>4. Coverage!StoreInv' /\ Coverage!DerivedInv'
    BY <1>1, <1>2, <2>1 DEF Coverage!StoreInv, Coverage!Stamped, Coverage!DerivedInv
  <2> QED BY <1>3, <2>3, <2>4 DEF Coverage!CoverageInv
<1> QED BY <1>4, <1>5, <1>6, <1>7, <1>8

\* The session's time is that of an event that has one.
LEMMA LastDateIsOne ==
  ASSUME NEW n \in Nat, NEW d \in Coverage!LastDate(n)
  PROVE  \E m \in 1 .. n : d \in v2[m]
BY DEF Coverage!LastDate

LEMMA CoverageStoreKept ==
  ASSUME Coverage!CoverageInv, Coverage!Store
  PROVE  Coverage!CoverageInv'
<1>1. Coverage!DatesInv /\ Coverage!StoreInv /\ Coverage!HeldInv
  BY DEF Coverage!CoverageInv
<1>2. /\ v7 = "store" /\ v7' = "leaves" /\ Coverage!Tock /\ UNCHANGED << v2, v12 >>
      /\ v3' = [upTo |-> v8, updated |-> Coverage!LastDate(v8), marked |-> FALSE]
      /\ v4' = [upTo |-> v8, created |-> v1']
      /\ UNCHANGED << v5, v6 >> \/ (v5' = NoRow /\ v6' = NoRow)
  BY DEF Coverage!Store
<1>3. /\ v1' \in 0 .. MaxInstant
      /\ \A m \in 1 .. Len(v2) : \A d \in v2[m] : d <= v1' /\ d < v1'
  BY <1>1, <1>2, StampedNow
<1>4. Coverage!DatesInv'
  BY <1>1, <1>2, <1>3 DEF Coverage!DatesInv
<1>5. v8 \in 0 .. Len(v2) /\ v8 \in Nat /\ Len(v2) \in Nat /\ v8 \in 0 .. MaxEvents
  <2>1. v2 \in Seq(SUBSET Int) /\ Len(v2) <= MaxEvents /\ MaxEvents \in Nat
    BY <1>1, CoverageIsBounded DEF Coverage!DatesInv
  <2>2. v8 \in 0 .. Len(v2)
    BY <1>1, <1>2 DEF Coverage!HeldInv
  <2> QED BY <2>1, <2>2
<1>6. v4' # NoRow
  BY <1>2, <1>3, <1>5, CoverageIsBounded
<1>7. \A m \in 1 .. v8 : m \in 1 .. Len(v2)
  BY <1>5
<1>8. \A d \in Coverage!LastDate(v8) : d \in Int /\ \E m \in 1 .. v8 : d \in v2[m]
  BY <1>1, <1>5, <1>7, LastDateIsOne DEF Coverage!DatesInv
<1>9. Coverage!Stamped(v4)'
  BY <1>2, <1>3, <1>5, <1>7 DEF Coverage!Stamped
<1>10. /\ v3' \in [upTo : 0 .. Len(v2), updated : SUBSET Int, marked : BOOLEAN]
       /\ v3'.upTo = v8 /\ v3'.updated = Coverage!LastDate(v8) /\ v3'.marked = FALSE
       /\ v4'.upTo = v8
  BY <1>2, <1>5, <1>8
<1>11. Coverage!StoreInv'
  <2>1. v5' # NoRow => Coverage!Stamped(v5)'
    BY <1>1, <1>2 DEF Coverage!StoreInv, Coverage!Stamped
  <2>2. v6' # NoRow => v6'.updated \in Nat /\ \A d \in v6'.dated : d < v6'.updated
    BY <1>1, <1>2 DEF Coverage!StoreInv
  <2> QED BY <1>2, <1>6, <1>8, <1>9, <1>10, <2>1, <2>2 DEF Coverage!StoreInv
<1>12. Coverage!HeldInv'
  BY <1>1, <1>2 DEF Coverage!HeldInv
<1>13. Coverage!DerivedInv'
  BY <1>2, <1>10 DEF Coverage!DerivedInv
<1> QED BY <1>4, <1>11, <1>12, <1>13 DEF Coverage!CoverageInv

\* A thread whose leaves or card are gone is not current.
LEMMA GoneIsAstray ==
  ASSUME NEW erred, Coverage!Judge(erred), v5' = NoRow \/ v6' = NoRow
  PROVE  v13' = (v13 \/ erred)
BY DEF Coverage!Judge, Coverage!Current

LEMMA CoverageLeavesKept ==
  ASSUME Coverage!CoverageInv, Coverage!DeriveLeaves \/ Coverage!CommandLeaves
  PROVE  Coverage!CoverageInv'
<1>1. Coverage!DatesInv /\ Coverage!StoreInv /\ Coverage!HeldInv /\ Coverage!DerivedInv
  BY DEF Coverage!CoverageInv
<1>2. PICK w \in { "run", "command" } :
        /\ Coverage!PutLeaves(w) /\ UNCHANGED << v2, v3, v4, v6, v8 >>
        /\ IF w = "run" THEN v7 = "leaves" /\ v7' = "cards" ELSE v7' = v7
  BY DEF Coverage!DeriveLeaves, Coverage!CommandLeaves
<1>3. PICK read \in v12[w] :
        /\ v5' = Coverage!Leafed(read) /\ Coverage!Judge(Coverage!Outrun(v5'))
        /\ Coverage!Tock /\ v12' = [v12 EXCEPT ![w] = {}]
  BY <1>2 DEF Coverage!PutLeaves
<1>4. /\ v1' \in 0 .. MaxInstant
      /\ \A m \in 1 .. Len(v2) : \A d \in v2[m] : d <= v1' /\ d < v1'
  BY <1>1, <1>3, StampedNow
<1>5. Coverage!DatesInv'
  BY <1>1, <1>2, <1>4 DEF Coverage!DatesInv
<1>6. Len(v2) \in Nat /\ (read # NoRow => read.upTo \in 0 .. Len(v2))
  BY <1>1, <1>2 DEF Coverage!HeldInv, Coverage!DatesInv
<1>7. v5' # NoRow =>
        /\ read # NoRow /\ v5'.upTo = read.upTo
        /\ \/ v5'.created = v1'
           \/ v5 # NoRow /\ v5.upTo = v5'.upTo /\ v5'.created = v5.created
  BY <1>3 DEF Coverage!Leafed
<1>8. v5' # NoRow => Coverage!Stamped(v5)'
  BY <1>1, <1>2, <1>4, <1>6, <1>7 DEF Coverage!StoreInv, Coverage!Stamped
<1>9. Coverage!StoreInv'
  BY <1>1, <1>2, <1>8 DEF Coverage!StoreInv, Coverage!Stamped
<1>10. /\ DOMAIN v12' = { "run", "command" } /\ v12'[w] = {}
       /\ \A u \in { "run", "command" } : u # w => v12'[u] = v12[u]
  BY <1>1, <1>3 DEF Coverage!HeldInv
<1>11. Coverage!HeldInv'
  BY <1>1, <1>2, <1>10 DEF Coverage!HeldInv
<1>12. Coverage!DerivedInv'
  <2> SUFFICES ASSUME v3 # NoRow
               PROVE  /\ v3.marked \/ v7' \in { "cards", "mark" } =>
                           IF v5' = NoRow THEN v13' ELSE \A d \in v3.updated : d < v5'.created
                      /\ v3.marked \/ v7' = "mark" =>
                           IF v6 = NoRow THEN v13' ELSE \A d \in v3.updated : d < v6.updated
    BY <1>2 DEF Coverage!DerivedInv
  <2>1. ASSUME v5' = NoRow
        PROVE  v13'
    <3>1. Coverage!Outrun(v5')
      BY <1>2, <2>1 DEF Coverage!Outrun
    <3>2. v13' = (v13 \/ Coverage!Outrun(v5'))
      BY <1>3, <2>1, GoneIsAstray
    <3> QED BY <3>1, <3>2
  <2>2. ASSUME v5' # NoRow, v3.marked \/ v7' \in { "cards", "mark" }
        PROVE  \A d \in v3.updated : d < v5'.created
    <3>1. CASE v5'.created = v1'
      <4>1. v3.upTo \in 0 .. Len(v2) /\ v1' \in Int
        BY <1>1, <1>4 DEF Coverage!StoreInv
      <4>2. \A m \in 1 .. v3.upTo : \A d \in v2[m] : d < v1'
        BY <1>4, <1>6, <4>1
      <4> QED BY <1>1, <3>1, <4>1, <4>2, SessionIsDated
    <3>2. CASE v5 # NoRow /\ v5.upTo = v5'.upTo /\ v5'.created = v5.created
      <4>1. CASE v3.marked \/ v7 \in { "cards", "mark" }
        BY <1>1, <3>2, <4>1 DEF Coverage!DerivedInv
      <4>2. CASE w = "run"
        <5>1. read = v4
          BY <1>1, <1>2, <1>3, <4>2 DEF Coverage!HeldInv
        <5>2. v5.upTo = v3.upTo /\ Coverage!Stamped(v5)
          BY <1>1, <1>7, <2>2, <3>2, <5>1 DEF Coverage!StoreInv
        <5>3. v5.created \in Int /\ \A m \in 1 .. v3.upTo : \A d \in v2[m] : d < v5.created
          BY <5>2 DEF Coverage!Stamped
        <5> QED BY <1>1, <3>2, <5>3, SessionIsDated
      <4> QED BY <1>2, <2>2, <4>1, <4>2
    <3> QED BY <1>7, <2>2, <3>1, <3>2
  <2>3. ASSUME v6 = NoRow, v3.marked \/ v7' = "mark"
        PROVE  v13'
    <3>1. v13
      BY <1>1, <1>2, <2>3 DEF Coverage!DerivedInv
    <3>2. v13' = (v13 \/ Coverage!Outrun(v5'))
      BY <1>2, <1>3, <2>3, GoneIsAstray
    <3> QED BY <3>1, <3>2
  <2>4. ASSUME v6 # NoRow, v3.marked \/ v7' = "mark"
        PROVE  \A d \in v3.updated : d < v6.updated
    BY <1>1, <1>2, <2>4 DEF Coverage!DerivedInv
  <2> QED BY <2>1, <2>2, <2>3, <2>4
<1> QED BY <1>5, <1>9, <1>11, <1>12 DEF Coverage!CoverageInv

LEMMA CoverageCardKept ==
  ASSUME Coverage!CoverageInv, Coverage!DeriveCards \/ Coverage!CommandCards
  PROVE  Coverage!CoverageInv'
<1>1. Coverage!DatesInv /\ Coverage!StoreInv /\ Coverage!HeldInv /\ Coverage!DerivedInv
  BY DEF Coverage!CoverageInv
<1>2. /\ Coverage!PutCard /\ UNCHANGED << v2, v3, v4, v5, v8, v12 >>
      /\ (v7 = "cards" /\ v7' = "mark") \/ v7' = v7
  BY DEF Coverage!DeriveCards, Coverage!CommandCards
<1>3. PICK fresh \in BOOLEAN :
        /\ v6' = Coverage!Carded(fresh) /\ Coverage!Judge(Coverage!Outrun(v6'))
        /\ Coverage!Tock
  BY <1>2 DEF Coverage!PutCard
<1>4. /\ v1' \in 0 .. MaxInstant
      /\ \A m \in 1 .. Len(v2) : \A d \in v2[m] : d <= v1' /\ d < v1'
  BY <1>1, <1>3, StampedNow
<1>5. Coverage!DatesInv'
  BY <1>1, <1>2, <1>4 DEF Coverage!DatesInv
<1>6. v3 # NoRow => \A d \in v3.updated : d < v1'
  <2> SUFFICES ASSUME v3 # NoRow
               PROVE  \A d \in v3.updated : d < v1'
    OBVIOUS
  <2>1. v3.upTo \in 0 .. Len(v2) /\ v1' \in Int /\ Len(v2) \in Nat
    BY <1>1, <1>4 DEF Coverage!StoreInv, Coverage!DatesInv
  <2>2. \A m \in 1 .. v3.upTo : \A d \in v2[m] : d < v1'
    BY <1>4, <2>1
  <2> QED BY <1>1, <2>1, <2>2, SessionIsDated
<1>7. v6' # NoRow =>
        /\ v6'.dated = Coverage!SessionDated
        /\ \/ v6'.updated = v1'
           \/ v6 # NoRow /\ v6.dated = Coverage!SessionDated /\ v6'.updated = v6.updated
  BY <1>3 DEF Coverage!Carded, Coverage!Unchanged
<1>8. Coverage!SessionDated = IF v3 = NoRow THEN {} ELSE v3.updated
  BY DEF Coverage!SessionDated
<1>9. v6' # NoRow =>
        v6'.updated \in Nat /\ \A d \in Coverage!SessionDated : d < v6'.updated
  <2>1. v1' \in Nat /\ \A d \in Coverage!SessionDated : d < v1'
    BY <1>4, <1>6, <1>8
  <2>2. v6 # NoRow => v6.updated \in Nat /\ \A d \in v6.dated : d < v6.updated
    BY <1>1 DEF Coverage!StoreInv
  <2> QED BY <1>7, <2>1, <2>2
<1>10. Coverage!StoreInv'
  <2>1. v6' # NoRow => v6'.updated \in Nat /\ \A d \in v6'.dated : d < v6'.updated
    BY <1>7, <1>9
  <2> QED BY <1>1, <1>2, <2>1 DEF Coverage!StoreInv, Coverage!Stamped
<1>11. Coverage!HeldInv'
  BY <1>1, <1>2 DEF Coverage!HeldInv
<1>12. Coverage!DerivedInv'
  <2> SUFFICES ASSUME v3 # NoRow
               PROVE  /\ v3.marked \/ v7' \in { "cards", "mark" } =>
                           IF v5 = NoRow THEN v13' ELSE \A d \in v3.updated : d < v5.created
                      /\ v3.marked \/ v7' = "mark" =>
                           IF v6' = NoRow THEN v13' ELSE \A d \in v3.updated : d < v6'.updated
    BY <1>2 DEF Coverage!DerivedInv
  <2>1. ASSUME v6' = NoRow
        PROVE  v13'
    <3>1. Coverage!Outrun(v6')
      BY <2>1 DEF Coverage!Outrun
    <3>2. v13' = (v13 \/ Coverage!Outrun(v6'))
      BY <1>3, <2>1, GoneIsAstray
    <3> QED BY <3>1, <3>2
  <2>2. v6' # NoRow => \A d \in v3.updated : d < v6'.updated
    BY <1>8, <1>9
  <2>3. ASSUME v5 = NoRow, v3.marked \/ v7' \in { "cards", "mark" }
        PROVE  v13'
    <3>1. v13
      BY <1>1, <1>2, <2>3 DEF Coverage!DerivedInv
    <3>2. v13' = (v13 \/ Coverage!Outrun(v6'))
      BY <1>2, <1>3, <2>3, GoneIsAstray
    <3> QED BY <3>1, <3>2
  <2>4. ASSUME v5 # NoRow, v3.marked \/ v7' \in { "cards", "mark" }
        PROVE  \A d \in v3.updated : d < v5.created
    BY <1>1, <1>2, <2>4 DEF Coverage!DerivedInv
  <2> QED BY <2>1, <2>2, <2>3, <2>4
<1> QED BY <1>5, <1>10, <1>11, <1>12 DEF Coverage!CoverageInv

LEMMA CoverageForgetKept ==
  ASSUME Coverage!CoverageInv, Coverage!Forget
  PROVE  Coverage!CoverageInv'
<1>1. Coverage!DatesInv /\ Coverage!HeldInv
  BY DEF Coverage!CoverageInv
<1>2. /\ Coverage!Tock /\ UNCHANGED << v2, v7, v8, v12 >>
      /\ v3' = NoRow /\ v4' = NoRow /\ v5' = NoRow /\ v6' = NoRow
  BY DEF Coverage!Forget
<1>3. Coverage!DatesInv'
  BY <1>1, <1>2, StampedNow DEF Coverage!DatesInv
<1>4. Coverage!StoreInv' /\ Coverage!HeldInv' /\ Coverage!DerivedInv'
  BY <1>1, <1>2 DEF Coverage!StoreInv, Coverage!HeldInv, Coverage!DerivedInv
<1> QED BY <1>3, <1>4 DEF Coverage!CoverageInv

LEMMA CoverageStill ==
  ASSUME Coverage!CoverageInv, UNCHANGED Coverage!vars
  PROVE  Coverage!CoverageInv'
BY DEF Coverage!vars, Coverage!storeVars, Coverage!CoverageInv, Coverage!DatesInv,
       Coverage!StoreInv, Coverage!Stamped, Coverage!HeldInv, Coverage!DerivedInv

\* The oldest of some numbers is one of them.
LEMMA OldestOfThem ==
  \A a, b, c, d \in Nat : Coverage!Oldest({ a, b, c, d }) \in { a, b, c, d }
<1> TAKE a, b, c, d \in Nat
<1>1. PICK x \in { a, b } : x <= a /\ x <= b
  OBVIOUS
<1>2. PICK y \in { c, d } : y <= c /\ y <= d
  OBVIOUS
<1>3. PICK m \in { x, y } : m <= x /\ m <= y
  OBVIOUS
<1>4. \E o \in { a, b, c, d } : \A s \in { a, b, c, d } : o <= s
  BY <1>1, <1>2, <1>3
<1> QED BY <1>4 DEF Coverage!Oldest

LEMMA MarkedIsReady ==
  ASSUME Coverage!CoverageInv
  PROVE  Coverage!DerivedIsReady
<1> DEFINE now == [t \in DOMAIN Coverage!Nothing |-> Coverage!Row(t)]
<1>1. Coverage!StoreInv /\ Coverage!DatesInv /\ Coverage!DerivedInv
  BY DEF Coverage!CoverageInv
<1>2. SUFFICES ASSUME v3 # NoRow, v3.marked, v5 # NoRow, v6 # NoRow, v6.fresh
               PROVE  Coverage!Ready(now)
  BY <1>1 DEF Coverage!DerivedIsReady, Coverage!DerivedInv
<1>3. DOMAIN Coverage!Nothing
        = { "session", "ranges", "leaves", "card", "inbox", "inboxCard", "updated" }
  BY CoverageTables
<1>4. /\ now["session"] = v3
      /\ now["ranges"] = v4 /\ now["leaves"] = v5
      /\ now["card"] = v6 /\ now["inbox"] = v6 /\ now["inboxCard"] = v6 /\ now["updated"] = v6
  BY <1>2, <1>3 DEF Coverage!Row
<1> HIDE DEF now
<1>5. v4 # NoRow /\ v4.upTo = v3.upTo /\ Coverage!Stamped(v4) /\ Coverage!Stamped(v5)
  BY <1>1, <1>2 DEF Coverage!StoreInv
<1>6. /\ v4.created \in Nat /\ v5.created \in Nat /\ v6.updated \in Nat
      /\ \A d \in v3.updated : d < v4.created /\ d < v5.created /\ d < v6.updated
  <2>1. v4.created \in Nat /\ v5.created \in Nat /\ v6.updated \in Nat
    BY <1>1, <1>2, <1>5 DEF Coverage!Stamped, Coverage!StoreInv
  <2>2. \A m \in 1 .. v3.upTo : \A d \in v2[m] : d < v4.created
    BY <1>5 DEF Coverage!Stamped
  <2>3. \A d \in v3.updated : d < v4.created
    BY <1>1, <1>2, <2>1, <2>2, SessionIsDated
  <2> QED BY <1>1, <1>2, <2>1, <2>3 DEF Coverage!DerivedInv
<1>7. Coverage!Stamps(now) = { v4.created, v5.created, v6.updated, v6.updated }
  BY <1>2, <1>4 DEF Coverage!Stamps
<1>8. Coverage!Oldest(Coverage!Stamps(now)) \in { v4.created, v5.created, v6.updated }
  BY <1>6, <1>7, OldestOfThem
<1>9. \A d \in now["session"].updated : d < Coverage!Oldest(Coverage!Stamps(now))
  BY <1>4, <1>6, <1>8
<1>10. DOMAIN now = DOMAIN Coverage!Nothing
  BY DEF now
<1>11. Coverage!Covered(now)
  BY <1>2, <1>3, <1>4, <1>5, <1>10 DEF Coverage!Covered, Coverage!SameCard
<1> QED BY <1>9, <1>11 DEF Coverage!Ready, now

(***************************************************************************)
(* A thread whose file is marked as derived is ready to whoever asks, or   *)
(* lacks leaves or a card because a command outran the run that derived    *)
(* them: for any number of events, stamps and commands, whatever is kept,  *)
(* dated late, deleted, or left by a run that dies.                        *)
(***************************************************************************)
THEOREM DerivedThreadsAreReady == ReportSpec => []DerivedIsReady
<1> DEFINE I == component = "coverage" => Coverage!CoverageInv
<1>1. ReportInit => I
  BY StartsOfOne, CoverageInit
<1>2. ASSUME Coverage!CoverageInv, Coverage!Next \/ UNCHANGED Coverage!vars
      PROVE  Coverage!CoverageInv'
  BY <1>2, CoverageWriteKept, CoverageReadKept, CoverageStoreKept, CoverageLeavesKept,
     CoverageCardKept, CoverageForgetKept, CoverageStill
  DEF Coverage!Next
<1>3. I /\ [ReportNext]_vars => I'
  BY <1>2, StepsOfOne
<1>4. I => DerivedIsReady
  BY MarkedIsReady DEF DerivedIsReady
<1> QED BY <1>1, <1>3, <1>4, PTL DEF ReportSpec

-----------------------------------------------------------------------------
(* Numbers.  Induction is by the least counterexample: that there is one    *)
(* follows from WFMin, which speaks of a set and not of an operator.        *)

\* Every set of numbers has a least one.
LEMMA LeastOf ==
  ASSUME NEW T \in SUBSET Nat, T # {}
  PROVE  \E n \in T : \A m \in T : n <= m
<1>1. PICK R : R = OpToRel(<, Nat)
  OBVIOUS
<1>2. IsWellFoundedOn(R, Nat)
  BY <1>1, NatLessThanWellFounded
<1>3. PICK n \in T : \A m \in T : ~(<< m, n >> \in R)
  BY <1>2, WFMin
<1>4. \A m, k \in Nat : m < k => << m, k >> \in R
  BY <1>1 DEF OpToRel
<1>5. \A m \in T : n <= m
  <2> TAKE m \in T
  <2>1. m \in Nat /\ n \in Nat /\ ~(m < n)
    BY <1>3, <1>4
  <2> QED BY <2>1
<1> QED BY <1>5

\* What holds of zero and of the next one holds of all.
LEMMA UpFromZero ==
  ASSUME NEW T, 0 \in T, \A n \in Nat : n \in T => n + 1 \in T
  PROVE  Nat \subseteq T
<1>1. SUFFICES ASSUME {n \in Nat : n \notin T} # {}
               PROVE  FALSE
  OBVIOUS
<1>2. PICK n \in Nat : n \notin T /\ \A m \in Nat : m \notin T => n <= m
  BY <1>1, LeastOf
<1>3. n # 0 /\ n - 1 \in Nat /\ (n - 1) + 1 = n
  BY <1>2
<1>4. n - 1 \in T
  BY <1>2, <1>3
<1> QED BY <1>2, <1>3, <1>4

-----------------------------------------------------------------------------
(* WatcherQueue: the specs are v2, the observations v3, the queue v4.       *)

\* One spec more is observed in the tables that those before it have left.
LEMMA ObservedInOrder ==
  ASSUME NEW given, Len(given) \in Nat
  PROVE  LET tables == Queue!Observed(given)
         IN  /\ tables[0] = [specs |-> v2, observations |-> v3, attention |-> v4]
             /\ \A n \in 1 .. Len(given) : tables[n] = Queue!Observe(tables[n - 1], given[n])
<1> DEFINE first == [specs |-> v2, observations |-> v3, attention |-> v4]
           Step(f, n) == IF n = 0 THEN first ELSE Queue!Observe(f[n - 1], given[n])
           T == {m \in Nat : \E f : f = [n \in 0 .. m |-> Step(f, n)]}
<1>1. 0 \in T
  <2>1. PICK f : f = [n \in 0 .. 0 |-> first]
    OBVIOUS
  <2>2. f = [n \in 0 .. 0 |-> Step(f, n)]
    <3> HIDE DEF first
    <3> QED BY <2>1
  <2> QED BY <2>2
<1>2. ASSUME NEW m \in Nat, m \in T
      PROVE  m + 1 \in T
  <2> HIDE DEF first
  <2>1. PICK f : f = [n \in 0 .. m |-> Step(f, n)]
    BY <1>2
  <2>2. PICK last : last = Queue!Observe(f[m], given[m + 1])
    OBVIOUS
  <2>3. PICK g : g = [n \in 0 .. m + 1 |-> IF n = m + 1 THEN last ELSE f[n]]
    OBVIOUS
  <2>4. ASSUME NEW n \in 0 .. m + 1
        PROVE  g[n] = Step(g, n)
    <3>1. CASE n = m + 1
      <4>1. g[n] = last /\ g[n - 1] = f[m] /\ n # 0
        BY <2>3, <3>1
      <4> QED BY <2>2, <3>1, <4>1
    <3>2. CASE n # m + 1
      <4>1. n \in 0 .. m /\ g[n] = f[n] /\ f[n] = Step(f, n)
        BY <2>1, <2>3, <3>2
      <4>2. n # 0 => g[n - 1] = f[n - 1]
        BY <2>3, <4>1
      <4> QED BY <4>1, <4>2
    <3> QED BY <3>1, <3>2
  <2>5. g = [n \in 0 .. m + 1 |-> Step(g, n)]
    <3> HIDE DEF Step
    <3> QED BY <2>3, <2>4
  <2> QED BY <2>5
<1>3. Len(given) \in T
  <2> HIDE DEF T
  <2> QED BY <1>1, <1>2, UpFromZero
<1>4. Queue!Observed(given) = [n \in 0 .. Len(given) |-> Step(Queue!Observed(given), n)]
  <2>1. \E f : f = [n \in 0 .. Len(given) |-> Step(f, n)]
    BY <1>3
  <2> QED BY <2>1, Zenon DEF Queue!Observed
<1> QED BY <1>4

\* To observe a spec takes the pair's items out of the queue with its observation,
\* and puts in what the new one asks for; what the others ask for stays.
LEMMA ObserveFollows ==
  ASSUME NEW tables, NEW spec, spec.watch \in WatchIds,
         tables.specs = [w \in WatchIds |-> tables.specs[w]],
         Queue!Follows(tables.specs, tables.observations, tables.attention)
  PROVE  LET after == Queue!Observe(tables, spec)
         IN  /\ after.specs = [w \in WatchIds |-> after.specs[w]]
             /\ Queue!Follows(after.specs, after.observations, after.attention)
<1>1. PICK row : row = [watch |-> spec.watch, target |-> spec.target,
                        status |-> Queue!Status(spec, v1), spec |-> spec]
  OBVIOUS
<1>2. PICK specs : specs = [tables.specs EXCEPT ![spec.watch] = spec.target]
  OBVIOUS
<1>3. PICK seen : seen = {o \in tables.observations : ~Queue!SamePair(o, row)} \cup {row}
  OBVIOUS
<1>4. PICK asked : asked = Queue!OfOthers(tables.attention, row) \cup Queue!Calls(row)
  OBVIOUS
<1>5. Queue!Observe(tables, spec) =
        [specs |-> specs, observations |-> seen, attention |-> asked]
  BY <1>1, <1>2, <1>3, <1>4 DEF Queue!Observe
<1>6. /\ tables.attention = UNION {Queue!Calls(o) : o \in tables.observations}
      /\ \A o, p \in tables.observations : Queue!SamePair(o, p) => o = p
      /\ \A w \in WatchIds : tables.specs[w] # Queue!NoTarget =>
           \E o \in tables.observations : o.watch = w /\ o.target = tables.specs[w]
  BY DEF Queue!Follows
<1>7. \A o : \A q \in Queue!Calls(o) : Queue!SamePair(q, row) <=> Queue!SamePair(o, row)
  BY DEF Queue!Calls, Queue!Item, Queue!SamePair
<1>8. asked = UNION {Queue!Calls(o) : o \in seen}
  <2>1. ASSUME NEW q
        PROVE  q \in asked <=> \E o \in seen : q \in Queue!Calls(o)
    <3>1. q \in asked <=> \/ q \in tables.attention /\ ~Queue!SamePair(q, row)
                          \/ q \in Queue!Calls(row)
      BY <1>4 DEF Queue!OfOthers
    <3>2. q \in tables.attention <=> \E o \in tables.observations : q \in Queue!Calls(o)
      BY <1>6
    <3> QED BY <1>3, <1>7, <3>1, <3>2
  <2> QED BY <2>1
<1>9. \A o, p \in seen : Queue!SamePair(o, p) => o = p
  BY <1>3, <1>6 DEF Queue!SamePair
<1>10. ASSUME NEW w \in WatchIds, specs[w] # Queue!NoTarget
       PROVE  \E o \in seen : o.watch = w /\ o.target = specs[w]
  <2>1. CASE w = spec.watch
    <3>1. specs[w] = spec.target /\ row \in seen /\ row.watch = w /\ row.target = spec.target
      BY <1>1, <1>2, <1>3, <2>1
    <3> QED BY <3>1
  <2>2. CASE w # spec.watch
    <3>1. specs[w] = tables.specs[w]
      BY <1>2, <2>2
    <3>2. PICK o \in tables.observations : o.watch = w /\ o.target = specs[w]
      BY <1>6, <1>10, <3>1
    <3>3. o \in seen
      BY <1>1, <1>3, <2>2, <3>2 DEF Queue!SamePair
    <3> QED BY <3>2, <3>3
  <2> QED BY <2>1, <2>2
<1>11. Queue!Follows(specs, seen, asked)
  BY <1>8, <1>9, <1>10 DEF Queue!Follows
<1>12. specs = [w \in WatchIds |-> specs[w]]
  BY <1>2
<1> QED BY <1>5, <1>11, <1>12

\* A run observes its specs one after another, so that its end follows too.
LEMMA PersistFollows ==
  ASSUME NEW given, Queue!QueueInv, Queue!Persist(given), Len(given) \in Nat,
         \A n \in 1 .. Len(given) : given[n].watch \in WatchIds
  PROVE  Queue!QueueInv'
<1>1. PICK tables : tables = Queue!Observed(given)
  OBVIOUS
<1>2. /\ tables[0] = [specs |-> v2, observations |-> v3, attention |-> v4]
      /\ \A n \in 1 .. Len(given) : tables[n] = Queue!Observe(tables[n - 1], given[n])
  BY <1>1, ObservedInOrder
<1> DEFINE Good(t) == /\ t.specs = [w \in WatchIds |-> t.specs[w]]
                      /\ Queue!Follows(t.specs, t.observations, t.attention)
           T == {n \in Nat : n <= Len(given) => Good(tables[n])}
<1>3. 0 \in T
  <2>1. Good(tables[0])
    <3>1. /\ tables[0].specs = v2
          /\ tables[0].observations = v3
          /\ tables[0].attention = v4
      BY <1>2
    <3> QED BY <3>1 DEF Queue!QueueInv, Queue!QueueFollowsObservations
  <2> HIDE DEF Good
  <2> QED BY <2>1
<1>4. ASSUME NEW n \in Nat, n \in T
      PROVE  n + 1 \in T
  <2> SUFFICES ASSUME n + 1 <= Len(given)
               PROVE  Good(tables[n + 1])
    <3> HIDE DEF Good
    <3> QED OBVIOUS
  <2>1. Good(tables[n])
    <3> HIDE DEF Good
    <3> QED BY <1>4
  <2>2. n + 1 \in 1 .. Len(given) /\ (n + 1) - 1 = n
    OBVIOUS
  <2>3. tables[n + 1] = Queue!Observe(tables[n], given[n + 1])
    BY <1>2, <2>2
  <2>4. given[n + 1].watch \in WatchIds
    BY <2>2
  <2> QED BY <2>1, <2>3, <2>4, ObserveFollows
<1>5. Good(tables[Len(given)])
  <2>1. Nat \subseteq T
    <3> HIDE DEF T
    <3> QED BY <1>3, <1>4, UpFromZero
  <2> HIDE DEF Good
  <2> QED BY <2>1
<1>6. /\ v2' = tables[Len(given)].specs
      /\ v3' = tables[Len(given)].observations
      /\ v4' = tables[Len(given)].attention
  BY <1>1 DEF Queue!Persist
<1> QED BY <1>5, <1>6 DEF Queue!QueueInv, Queue!QueueFollowsObservations

LEMMA QueueInvStep ==
  ASSUME Queue!QueueInv, Queue!Next \/ UNCHANGED Queue!vars
  PROVE  Queue!QueueInv'
<1>1. CASE UNCHANGED << v2, v3, v4 >>
  BY <1>1 DEF Queue!QueueInv, Queue!QueueFollowsObservations
<1>2. CASE Queue!TimePasses
  BY <1>1, <1>2 DEF Queue!TimePasses
<1>3. ASSUME NEW given \in Queue!BoundedSeq({s \in Queue!Specs : s.seen <= v1}, 2),
             Queue!Persist(given)
      PROVE  Queue!QueueInv'
  <2>1. PICK m \in 0 .. 2 : given \in [1 .. m -> Queue!Specs]
    BY <1>3 DEF Queue!BoundedSeq, Queue!SeqOf
  <2>2. Len(given) = m
    BY <2>1
  <2>3. \A n \in 1 .. m : given[n].watch \in WatchIds
    BY <2>1 DEF Queue!Specs
  <2> QED BY <1>3, <2>2, <2>3, PersistFollows
<1> QED BY <1>1, <1>2, <1>3 DEF Queue!Next, Queue!vars

\* WatcherQueue, persistWatcherObservations: whatever specs come back, in one run or
\* in many, under another status, content or target, the queue asks for what the
\* observations say, one item for each that needs attention, and for nothing more.
THEOREM QueuesFollowTheirObservations == ReportSpec => []QueueFollowsObservations
<1> DEFINE IInv == component = "queue" => Queue!QueueInv
<1>1. ReportInit => IInv
  <2> SUFFICES ASSUME ReportInit, component = "queue"
               PROVE  Queue!QueueInv
    OBVIOUS
  <2>1. Queue!Init
    BY StartsOfOne
  <2> QED BY <2>1 DEF Queue!Init, Queue!QueueInv, Queue!QueueFollowsObservations,
                      Queue!Follows, Queue!Calls
<1>2. IInv /\ [ReportNext]_vars => IInv'
  <2> SUFFICES ASSUME IInv, [ReportNext]_vars, component' = "queue"
               PROVE  Queue!QueueInv'
    OBVIOUS
  <2>1. component = "queue" /\ (Queue!Next \/ UNCHANGED Queue!vars)
    BY StepsOfOne
  <2> QED BY <2>1, QueueInvStep
<1>3. IInv => QueueFollowsObservations
  BY DEF QueueFollowsObservations, Queue!QueueInv
<1> QED
  <2> HIDE DEF IInv
  <2> QED BY <1>1, <1>2, <1>3, PTL DEF ReportSpec

-----------------------------------------------------------------------------
(* DesktopPlanner: the map's progress is v6, what it saw v7, what was       *)
(* listed v8; the map kept is v9, the reports v10, v11 and v12; v14 tells   *)
(* that the thread was seen, v15 that a map could not tell threads apart.   *)

\* Of several rules the first that applies decides, if one applies.
LEMMA FirstRule ==
  ASSUME NEW n \in Nat, NEW rules, DOMAIN rules = 1 .. n,
         NEW k \in 1 .. n, rules[k][1]
  PROVE  \E i \in 1 .. n : /\ rules[i][1]
                           /\ \A j \in 1 .. i - 1 : ~rules[j][1]
                           /\ Planner!FirstOf(rules) = rules[i][2]
<1> DEFINE T == {i \in 1 .. n : rules[i][1]}
           First(i) == rules[i][1] /\ \A j \in 1 .. i - 1 : ~rules[j][1]
<1>1. T \in SUBSET Nat /\ T # {}
  OBVIOUS
<1>2. PICK i \in T : \A m \in T : i <= m
  BY <1>1, LeastOf
<1>3. i \in 1 .. n /\ rules[i][1]
  BY <1>2
<1>4. \A j \in 1 .. i - 1 : j \in 1 .. n /\ ~(i <= j)
  BY <1>3
<1>5. \A j \in 1 .. i - 1 : ~rules[j][1]
  BY <1>2, <1>4
<1>6. \E c \in DOMAIN rules : First(c)
  BY <1>3, <1>5
<1>7. PICK c : c = CHOOSE d \in DOMAIN rules : First(d)
  OBVIOUS
<1>8. c \in 1 .. n /\ First(c)
  <2> HIDE DEF First
  <2> QED BY <1>6, <1>7
<1>9. Planner!FirstOf(rules) = rules[c][2]
  BY <1>7, Zenon DEF Planner!FirstOf
<1> QED BY <1>8, <1>9

\* Of one, or of finitely many that are not more than one, each is the other.
LEMMA ShownCount ==
  ASSUME NEW S \in SUBSET ShownThreads, ~(Planner!Cardinality(S) > 1), NEW u \in S
  PROVE  S = {u} /\ Planner!Only(S) = {u}
<1>1. Planner!Cardinality(S) = Cardinality(S) /\ Planner!Cardinality({u}) = Cardinality({u})
  BY Zenon DEF Planner!Cardinality, Cardinality
<1>2. IsFiniteSet(S) /\ Cardinality(S) \in Nat
  BY TargetIsThere, FS_Subset, FS_CardinalityType
<1>3. ASSUME NEW t \in S, t # u
      PROVE  FALSE
  <2>1. {u} \subseteq S /\ {u} # S
    BY <1>3
  <2>2. Cardinality({u}) <= Cardinality(S) /\ Cardinality({u}) # Cardinality(S)
    BY <1>2, <2>1, FS_Subset
  <2>3. Cardinality({u}) = 1
    BY FS_Singleton
  <2> QED BY <1>1, <1>2, <2>2, <2>3
<1>4. S = {u}
  BY <1>3
<1>5. Cardinality({u}) = 1
  BY FS_Singleton
<1> QED BY <1>1, <1>4, <1>5 DEF Planner!Only

\* A title on the screen that leads to the target without a doubt is its own, if the
\* titles tell the threads apart.
LEMMA ShownItself ==
  ASSUME Planner!TellsApart, NEW x \in Planner!Seen,
         Target \in Planner!VisibleItem(x).about, ~Planner!VisibleItem(x).doubt
  PROVE  v7[Target] # Untitled
<1>1. PICK u \in ShownThreads : v7[u] = x /\ v7[u] # Untitled
  BY DEF Planner!Seen
<1>2. v8[u] = x /\ v2[u] # Untitled
  BY <1>1 DEF Planner!TellsApart
<1>3. Planner!Titled(x, v8) \in SUBSET ShownThreads /\ u \in Planner!Titled(x, v8)
  BY <1>2 DEF Planner!Titled
<1>4. ~(Planner!Cardinality(Planner!Titled(x, v8)) > 1)
  BY DEF Planner!VisibleItem
<1>5. Planner!AppThreadOf(x) = {u}
  BY <1>3, <1>4, ShownCount DEF Planner!AppThreadOf
<1>6. Planner!CardOf(x) = {u}
  BY <1>2, <1>5 DEF Planner!CardOf
<1>7. Planner!VisibleItem(x).about = {u}
  BY <1>5, <1>6 DEF Planner!VisibleItem
<1> QED BY <1>1, <1>7

\* So a map that shows the target is of a screen that did, or could not tell.
LEMMA MapShows ==
  ASSUME NEW map \in Planner!Maps, map.visible, Planner!TellsApart
  PROVE  v7[Target] # Untitled
<1>1. PICK rank, confident : map = Planner!Observation(rank, confident)
  BY DEF Planner!Maps
<1>2. PICK i \in Planner!Items(rank) :
        Target \in i.about /\ i.desktop /\ ~i.doubt
  <2>1. PICK matched : matched = {i \in Planner!Items(rank) : Target \in i.about}
    OBVIOUS
  <2>2. map.visible = (confident /\ ~(\E i \in matched : i.doubt)
                         /\ \E i \in matched : i.desktop /\ ~i.unknown)
    BY <1>1, <2>1 DEF Planner!Observation
  <2> QED BY <2>1, <2>2
<1>3. \A t : ~Planner!AppItem(t, rank).desktop
  BY DEF Planner!AppItem
<1>4. PICK x \in Planner!Seen : i = Planner!VisibleItem(x)
  BY <1>2, <1>3 DEF Planner!Items
<1> QED BY <1>2, <1>4, ShownItself

\* A coherence report says that the Desktop shows the thread only if a map did; and it
\* always says something.
LEMMA StateRests ==
  ASSUME NEW before, NEW current, NEW after, NEW gui, NEW refresh
  PROVE  LET state == Planner!State(before, current, after, gui, refresh)
         IN  /\ state = "desktop_visible" => before.visible \/ current.visible \/ after.visible
             /\ state # "none"
<1> DEFINE all == {before, current, after}
           visible == \E o \in all : o.visible
           cli     == \E o \in all : o.cli
           fresh   == gui = "earlier" /\ (current.matched \/ after.matched)
           missed  == \E o \in {before, current} : o.matched /\ ~o.doubt /\ ~o.visible
<1>1. PICK rules : rules =
         << << \E o \in all : o.doubt, "unknown" >>,
            << fresh /\ cli /\ ~visible, "read_state_stale" >>,
            << gui # "none" /\ ~fresh /\ ~visible, "unknown" >>,
            << before.visible \/ current.visible, "desktop_visible" >>,
            << after.visible /\ refresh # "none" /\ missed, refresh >>,
            << after.visible, "desktop_visible" >>,
            << cli, "cli_visible" >>,
            << TRUE, "unknown" >> >>
  OBVIOUS
<1>2. Planner!State(before, current, after, gui, refresh) = Planner!FirstOf(rules)
  BY <1>1, Zenon DEF Planner!State
<1>3. /\ DOMAIN rules = 1 .. 8
      /\ rules[1][2] = "unknown" /\ rules[2][2] = "read_state_stale"
      /\ rules[3][2] = "unknown" /\ rules[4][2] = "desktop_visible"
      /\ rules[5][2] = refresh /\ rules[6][2] = "desktop_visible"
      /\ rules[7][2] = "cli_visible" /\ rules[8][2] = "unknown"
  <2> HIDE DEF all, visible, cli, fresh, missed
  <2> QED BY <1>1
<1>4. /\ rules[4][1] = (before.visible \/ current.visible)
      /\ rules[5][1] = (after.visible /\ refresh # "none" /\ missed)
      /\ rules[6][1] = after.visible
      /\ rules[8][1]
  <2> HIDE DEF all, visible, cli, fresh, missed
  <2> QED BY <1>1
<1>5a. PICK n \in Nat : n = 8
  OBVIOUS
<1>5b. DOMAIN rules = 1 .. n /\ n \in 1 .. n /\ rules[n][1]
  BY <1>5a, <1>3, <1>4
<1>5. PICK i \in 1 .. n : /\ rules[i][1]
                          /\ \A j \in 1 .. i - 1 : ~rules[j][1]
                          /\ Planner!FirstOf(rules) = rules[i][2]
  BY <1>5b, FirstRule
<1>6. i \in {1, 2, 3, 4, 5, 6, 7, 8}
  BY <1>5a, <1>5
<1>7. Planner!FirstOf(rules) = "desktop_visible" => i \in {4, 5, 6}
  BY <1>3, <1>5, <1>6
<1>8. Planner!FirstOf(rules) # "none"
  BY <1>3, <1>4, <1>5, <1>6
<1> QED BY <1>2, <1>4, <1>5, <1>7, <1>8

\* What the lane says, and what the planner does of it.
LEMMA LaneRests ==
  /\ Planner!LaneState = "desktop_visible" =>
       v10 = "desktop_visible" \/ v11 = "desktop_visibility_already_proven"
  /\ Planner!LaneState = "not_configured" => v10 = "none"
  /\ Planner!FallbackRequired /\ v11 # "none" =>
       Planner!LaneState \in {"fallback_ready", "fallback_blocked"}
<1>1. PICK rules : rules =
         << << v11 = "coherence_input_missing", "fallback_blocked" >>,
            << Planner!FallbackRequired /\ Planner!BackendReady, "fallback_ready" >>,
            << Planner!FallbackRequired /\ v11 # "none", "fallback_blocked" >>,
            << \/ v10 = "desktop_visible"
               \/ v11 = "desktop_visibility_already_proven", "desktop_visible" >>,
            << v10 \in {"cli_visible", "read_state_stale"} \cup Planner!Refreshes,
               "cli_visible" >>,
            << v10 = "none" /\ v11 = "none", "not_configured" >>,
            << TRUE, "unknown" >> >>
  OBVIOUS
<1>2. Planner!LaneState = Planner!FirstOf(rules)
  BY <1>1, Zenon DEF Planner!LaneState
<1>3. /\ DOMAIN rules = 1 .. 7
      /\ rules[1][2] = "fallback_blocked" /\ rules[2][2] = "fallback_ready"
      /\ rules[3][2] = "fallback_blocked" /\ rules[4][2] = "desktop_visible"
      /\ rules[5][2] = "cli_visible" /\ rules[6][2] = "not_configured"
      /\ rules[7][2] = "unknown"
  BY <1>1
<1>4. /\ rules[3][1] = (Planner!FallbackRequired /\ v11 # "none")
      /\ rules[4][1] = (v10 = "desktop_visible" \/ v11 = "desktop_visibility_already_proven")
      /\ rules[6][1] = (v10 = "none" /\ v11 = "none")
      /\ rules[7][1]
  BY <1>1
<1>5a. PICK n \in Nat : n = 7
  OBVIOUS
<1>5b. DOMAIN rules = 1 .. n /\ n \in 1 .. n /\ rules[n][1]
  BY <1>5a, <1>3, <1>4
<1>5. PICK i \in 1 .. n : /\ rules[i][1]
                          /\ \A j \in 1 .. i - 1 : ~rules[j][1]
                          /\ Planner!FirstOf(rules) = rules[i][2]
  BY <1>5b, FirstRule
<1>6. i \in {1, 2, 3, 4, 5, 6, 7}
  BY <1>5a, <1>5
<1>7. Planner!FirstOf(rules) = "desktop_visible" => i = 4
  BY <1>3, <1>5, <1>6
<1>8. Planner!FirstOf(rules) = "not_configured" => i = 6
  BY <1>3, <1>5, <1>6
<1>9. rules[3][1] => i <= 3
  <2>1. i > 3 => 3 \in 1 .. i - 1
    BY <1>5
  <2> QED BY <1>5, <2>1
<1>10. i <= 3 => Planner!FirstOf(rules) \in {"fallback_ready", "fallback_blocked"}
  BY <1>3, <1>5, <1>6
<1> QED BY <1>2, <1>4, <1>5, <1>7, <1>8, <1>9, <1>10

LEMMA NextStepRests ==
  /\ Planner!NextStep = "coherence" => v11 = "coherence_input_missing" \/ v10 = "none"
  /\ Planner!NextStep = "fallback_status" =>
       /\ v11 # "coherence_input_missing"
       /\ v10 \notin {"none", "read_state_stale", "desktop_visible"}
       /\ Planner!LaneState \in {"cli_visible", "unknown"}
  /\ Planner!NextStep \notin {"none", "asking", "reconciling"}
<1>1. PICK byAction : byAction = (Planner!LaneState \in {"fallback_ready", "fallback_blocked"})
  OBVIOUS
<1>2. PICK unseen : unseen = (Planner!LaneState \in {"cli_visible", "unknown"})
  OBVIOUS
<1>3. PICK rules : rules =
         << << v4 = "approval" /\ ~byAction, "wait_for_approval" >>,
            << v4 = "watcher", "resume_request_packet" >>,
            << v11 = "coherence_input_missing", "coherence" >>,
            << Planner!LaneState = "not_configured", "coherence" >>,
            << unseen /\ v10 = "none", "coherence" >>,
            << unseen /\ v10 = "read_state_stale", "reconcile" >>,
            << unseen /\ v10 # "desktop_visible", "fallback_status" >>,
            << byAction, "wait_for_approval" >>,
            << TRUE, "observe" >> >>
  OBVIOUS
<1>4. Planner!NextStep = Planner!FirstOf(rules)
  BY <1>1, <1>2, <1>3, Zenon DEF Planner!NextStep
<1>5. /\ DOMAIN rules = 1 .. 9
      /\ rules[1][2] = "wait_for_approval" /\ rules[2][2] = "resume_request_packet"
      /\ rules[3][2] = "coherence" /\ rules[4][2] = "coherence"
      /\ rules[5][2] = "coherence" /\ rules[6][2] = "reconcile"
      /\ rules[7][2] = "fallback_status" /\ rules[8][2] = "wait_for_approval"
      /\ rules[9][2] = "observe"
  BY <1>3
<1>6. /\ rules[3][1] = (v11 = "coherence_input_missing")
      /\ rules[4][1] = (Planner!LaneState = "not_configured")
      /\ rules[5][1] = (unseen /\ v10 = "none")
      /\ rules[6][1] = (unseen /\ v10 = "read_state_stale")
      /\ rules[7][1] = (unseen /\ v10 # "desktop_visible")
      /\ rules[9][1]
  BY <1>3
<1>7a. PICK n \in Nat : n = 9
  OBVIOUS
<1>7b. DOMAIN rules = 1 .. n /\ n \in 1 .. n /\ rules[n][1]
  BY <1>7a, <1>5, <1>6
<1>7. PICK i \in 1 .. n : /\ rules[i][1]
                          /\ \A j \in 1 .. i - 1 : ~rules[j][1]
                          /\ Planner!FirstOf(rules) = rules[i][2]
  BY <1>7b, FirstRule
<1>8. i \in {1, 2, 3, 4, 5, 6, 7, 8, 9}
  BY <1>7a, <1>7
<1>9. ASSUME Planner!NextStep = "coherence"
      PROVE  v11 = "coherence_input_missing" \/ v10 = "none"
  <2>1. i \in {3, 4, 5}
    BY <1>4, <1>5, <1>7, <1>8, <1>9
  <2> QED BY <1>6, <1>7, <2>1, LaneRests
<1>10. ASSUME Planner!NextStep = "fallback_status"
       PROVE  /\ v11 # "coherence_input_missing"
              /\ v10 \notin {"none", "read_state_stale", "desktop_visible"}
              /\ Planner!LaneState \in {"cli_visible", "unknown"}
  <2>1. i = 7
    BY <1>4, <1>5, <1>7, <1>8, <1>10
  <2>2. ~rules[3][1] /\ ~rules[5][1] /\ ~rules[6][1] /\ rules[7][1]
    BY <1>7, <2>1
  <2> QED BY <1>2, <1>6, <2>2
<1>11. Planner!NextStep \notin {"none", "asking", "reconciling"}
  BY <1>4, <1>5, <1>7, <1>8
<1> QED BY <1>9, <1>10, <1>11

\* What is kept bears out what the planner says.
LEMMA PlannerTells ==
  ASSUME Planner!PlannerInv
  PROVE  Planner!PlannerLeadsOn
<1>1. ASSUME Planner!Coverage = "covered", ~v12
      PROVE  v14 \/ v15
  <2>1. PICK rules : rules =
          << << Planner!LaneState = "desktop_visible" \/ v12, "covered" >>,
             << Planner!LaneState = "fallback_ready", "partial" >>,
             << TRUE, "blocked" >> >>
    OBVIOUS
  <2>2. Planner!Coverage = Planner!FirstOf(rules)
    BY <2>1, Zenon DEF Planner!Coverage
  <2>3. /\ DOMAIN rules = 1 .. 3
        /\ rules[1][2] = "covered" /\ rules[2][2] = "partial" /\ rules[3][2] = "blocked"
        /\ rules[1][1] = (Planner!LaneState = "desktop_visible" \/ v12)
        /\ rules[3][1]
    BY <2>1
  <2>4a. PICK n \in Nat : n = 3
    OBVIOUS
  <2>4b. DOMAIN rules = 1 .. n /\ n \in 1 .. n /\ rules[n][1]
    BY <2>4a, <2>3
  <2>4. PICK i \in 1 .. n : /\ rules[i][1]
                            /\ \A j \in 1 .. i - 1 : ~rules[j][1]
                            /\ Planner!FirstOf(rules) = rules[i][2]
    BY <2>4b, FirstRule
  <2>5. i \in {1, 2, 3}
    BY <2>4a, <2>4
  <2>6. i = 1
    BY <1>1, <2>2, <2>3, <2>4, <2>5
  <2>7. Planner!LaneState = "desktop_visible"
    BY <1>1, <2>3, <2>4, <2>6
  <2> QED BY <2>7, LaneRests DEF Planner!PlannerInv
<1>2. ASSUME v16 = Planner!NextStep
      PROVE  \/ v16 \in {"resume_request_packet", "reconcile"}
             \/ v11 = "coherence_input_missing"
  <2>1. v16 \notin {"none", "asking", "reconciling"}
    BY <1>2, NextStepRests
  <2>2. CASE v16 = "coherence"
    BY <1>2, <2>2, NextStepRests DEF Planner!PlannerInv
  <2>3. v16 # "fallback_status"
    <3> SUFFICES ASSUME v16 = "fallback_status"
                 PROVE  FALSE
      OBVIOUS
    <3>1. Planner!FallbackRequired /\ v11 # "none"
      BY DEF Planner!PlannerInv, Planner!FallbackRequired
    <3>2. Planner!LaneState \in {"cli_visible", "unknown"}
      BY <1>2, NextStepRests
    <3> QED BY <3>1, <3>2, LaneRests
  <2> QED BY <2>1, <2>2, <2>3 DEF Planner!PlannerInv
<1> QED BY <1>1, <1>2 DEF Planner!PlannerLeadsOn, Planner!CoveredWasSeen, Planner!NotToldAgain

\* A map that shows the target is of a screen that was seen to, or tells nothing apart.
LEMMA MapTells ==
  ASSUME Planner!PlannerInv, Planner!EndMap, NEW map \in Planner!Maps, map.visible
  PROVE  v14' \/ v15'
<1>1. CASE Planner!TellsApart
  <2>1. v14
    BY <1>1, MapShows DEF Planner!PlannerInv
  <2> QED BY <2>1 DEF Planner!EndMap
<1>2. CASE ~Planner!TellsApart
  BY <1>2 DEF Planner!EndMap
<1> QED BY <1>1, <1>2

LEMMA NothingShown == Planner!Nowhere[Target] = Untitled
BY TargetIsThere DEF Planner!Nowhere

LEMMA KeepMapKeeps ==
  ASSUME Planner!PlannerInv, Planner!KeepMap
  PROVE  Planner!PlannerInv'
<1>1. /\ v7' = Planner!Nowhere /\ v10' = v10 /\ v11' = v11 /\ v14' = v14 /\ v16' = v16
      /\ v15 => v15'
  BY DEF Planner!KeepMap, Planner!EndMap
<1>2. v9' \in Planner!Maps /\ Planner!EndMap
  BY DEF Planner!KeepMap
<1>3. v9'.visible => v14' \/ v15'
  BY <1>2, MapTells
<1>4. v7'[Target] = Untitled
  BY <1>1, NothingShown
<1> QED BY <1>1, <1>3, <1>4 DEF Planner!PlannerInv

LEMMA MakeReportKeeps ==
  ASSUME Planner!PlannerInv, Planner!MakeReport
  PROVE  Planner!PlannerInv'
<1>1. /\ v7' = Planner!Nowhere /\ v9' = v9 /\ v11' = v11 /\ v14' = v14
      /\ v15 => v15'
  BY DEF Planner!MakeReport, Planner!EndMap
<1>2. PICK map \in Planner!Maps :
        \/ /\ v16' = "coherence"
           /\ v10' = Planner!State(Planner!NoMap, map, Planner!NoMap, "none", "none")
        \/ /\ v16' = "reconcile"
           /\ v10' = Planner!State(Planner!NoMap, map, Planner!NoMap, "earlier", "none")
        \/ v16 = "none" /\ v16' = "none" /\ v10' \in Planner!ReportsOf(map)
  BY DEF Planner!MakeReport
<1>3. map.visible => v14' \/ v15'
  BY <1>2, MapTells DEF Planner!MakeReport
<1>4. \E before, current, after, gui, refresh :
        /\ v10' = Planner!State(before, current, after, gui, refresh)
        /\ \A o \in {before, current, after} : o \in {v9, map, Planner!NoMap}
  BY <1>2 DEF Planner!ReportsOf
<1>5. ~Planner!NoMap.visible
  BY DEF Planner!NoMap
<1>6. v10' = "desktop_visible" => v9.visible \/ map.visible
  BY <1>4, <1>5, StateRests
<1>7. v10' # "none"
  BY <1>4, StateRests
<1>8. v7'[Target] = Untitled
  BY <1>1, NothingShown
<1>9. v16' \in {"none", "coherence", "reconcile"}
  BY <1>2
<1> QED BY <1>1, <1>3, <1>6, <1>7, <1>8, <1>9 DEF Planner!PlannerInv

LEMMA FollowKeeps ==
  ASSUME Planner!PlannerInv, Planner!Follow
  PROVE  Planner!PlannerInv'
<1>1. v9' = v9 /\ v10' = v10 /\ v15' = v15
  BY DEF Planner!Follow
<1>2. CASE /\ Planner!SeeDesktop(FALSE)
           /\ v16' \in {"asking", "reconciling"}
           /\ v11' = v11
  <2>1. v7'[Target] = Untitled /\ (v14 => v14')
    BY <1>2, TargetIsThere DEF Planner!SeeDesktop, Planner!PlannerInv
  <2> QED BY <1>1, <1>2, <2>1 DEF Planner!PlannerInv
<1>3. CASE /\ Planner!NextStep = "fallback_status"
           /\ v11' = Planner!FallbackReason(v10)
           /\ v16' = "fallback_status"
           /\ v7' = v7 /\ v14' = v14
  <2>1. v10 \notin {"none", "read_state_stale", "desktop_visible"}
    BY <1>3, NextStepRests
  <2>2. v11' = "desktop_visibility_not_proven"
    BY <1>3, <2>1 DEF Planner!FallbackReason
  <2> QED BY <1>1, <1>3, <2>1, <2>2 DEF Planner!PlannerInv
<1>4. CASE /\ v16' = "resume_request_packet" /\ v11' = v11
           /\ v7' = v7 /\ v14' = v14
  BY <1>1, <1>4 DEF Planner!PlannerInv
<1> QED BY <1>2, <1>3, <1>4 DEF Planner!Follow, Planner!joining

LEMMA PlannerInvStep ==
  ASSUME Planner!PlannerInv, Planner!Next \/ UNCHANGED Planner!vars
  PROVE  Planner!PlannerInv'
<1>1. CASE UNCHANGED Planner!vars
  BY <1>1 DEF Planner!PlannerInv, Planner!vars, Planner!joining, Planner!reports
<1>2. CASE Planner!WorldChanges
  BY <1>2 DEF Planner!PlannerInv, Planner!WorldChanges, Planner!joining, Planner!reports
<1>3. CASE Planner!BeginMap
  <2>1. PICK look \in BOOLEAN : Planner!SeeDesktop(look)
    BY <1>3 DEF Planner!BeginMap
  <2>2. /\ v7'[Target] # Untitled => look /\ Target \in v3
        /\ v14' = (v14 \/ (look /\ Target \in v3))
    BY <2>1, TargetIsThere DEF Planner!SeeDesktop
  <2>3. v9' = v9 /\ v10' = v10 /\ v11' = v11 /\ v15' = v15 /\ v16' = "none"
    BY <1>3 DEF Planner!BeginMap, Planner!reports
  <2> QED BY <2>2, <2>3 DEF Planner!PlannerInv
<1>4. CASE Planner!ListThreads
  BY <1>4 DEF Planner!PlannerInv, Planner!ListThreads, Planner!reports
<1>5. CASE Planner!AskFallback
  <2>1. /\ v7' = v7 /\ v9' = v9 /\ v10' = v10 /\ v14' = v14 /\ v15' = v15 /\ v16' = "none"
    BY <1>5 DEF Planner!AskFallback, Planner!joining
  <2>2. PICK report \in {"none", v10} : v11' = Planner!FallbackReason(report)
    BY <1>5 DEF Planner!AskFallback
  <2>3. v11' = "desktop_visibility_already_proven" => v10 = "desktop_visible"
    BY <2>2 DEF Planner!FallbackReason
  <2> QED BY <2>1, <2>3 DEF Planner!PlannerInv
<1>6. CASE Planner!HoldOrDrop
  BY <1>6 DEF Planner!PlannerInv, Planner!HoldOrDrop, Planner!joining
<1> QED BY <1>1, <1>2, <1>3, <1>4, <1>5, <1>6, KeepMapKeeps, MakeReportKeeps, FollowKeeps
        DEF Planner!Next

\* DesktopPlanner, createVisibleCodexSessionMap to createCodexCollaborationNextSteps: a
\* thread is said to be covered only if the Desktop was seen to show it, as far as the
\* titles of any number of threads can tell, and who does what the planner says is
\* told something else next, with the three exceptions of NotToldAgain, however the
\* maps and reports that it was given have aged.
THEOREM PlannersLeadOn == ReportSpec => []PlannerLeadsOn
<1> DEFINE IInv == component = "planner" => Planner!PlannerInv
<1>1. ReportInit => IInv
  <2> SUFFICES ASSUME ReportInit, component = "planner"
               PROVE  Planner!PlannerInv
    OBVIOUS
  <2>1. Planner!Init
    BY StartsOfOne
  <2> QED BY <2>1, NothingShown DEF Planner!Init, Planner!PlannerInv, Planner!NoMap
<1>2. IInv /\ [ReportNext]_vars => IInv'
  <2> SUFFICES ASSUME IInv, [ReportNext]_vars, component' = "planner"
               PROVE  Planner!PlannerInv'
    OBVIOUS
  <2>1. component = "planner" /\ (Planner!Next \/ UNCHANGED Planner!vars)
    BY StepsOfOne
  <2> QED BY <2>1, PlannerInvStep
<1>3. IInv => PlannerLeadsOn
  BY PlannerTells DEF PlannerLeadsOn
<1> QED
  <2> HIDE DEF IInv
  <2> QED BY <1>1, <1>2, <1>3, PTL DEF ReportSpec

-----------------------------------------------------------------------------
(* Orders.  R is a set of pairs, so that these facts can be cited of any.   *)

\* A strict order in which any two different elements of S stand one way.
Orders(R, S) ==
  /\ \A x, y \in S : x # y => << x, y >> \in R \/ << y, x >> \in R
  /\ \A x \in S : << x, x >> \notin R
  /\ \A x, y, z \in S : << x, y >> \in R /\ << y, z >> \in R => << x, z >> \in R

Before(R, S, x) == {y \in S : << y, x >> \in R}

\* Of those in order, some number come before each, and one for each number.
LEMMA Ranked ==
  ASSUME NEW S, IsFiniteSet(S), NEW R, Orders(R, S)
  PROVE  LET n == Cardinality(S)
             rank(x) == Cardinality(Before(R, S, x))
         IN  /\ n \in Nat
             /\ \A x \in S : rank(x) \in 0 .. n - 1
             /\ \A x, y \in S : << x, y >> \in R => rank(x) < rank(y)
             /\ \A i \in 0 .. n - 1 : \E x \in S : rank(x) = i
<1> DEFINE n == Cardinality(S)
           rank(x) == Cardinality(Before(R, S, x))
<1>1. n \in Nat
  BY FS_CardinalityType
<1>2. \A x \in S : IsFiniteSet(Before(R, S, x)) /\ rank(x) \in Nat
  BY FS_Subset, FS_CardinalityType DEF Before
<1>3. ASSUME NEW x \in S
      PROVE  rank(x) \in 0 .. n - 1
  <2>1. Before(R, S, x) \subseteq S /\ Before(R, S, x) # S
    BY DEF Before, Orders
  <2>2. rank(x) <= n /\ rank(x) # n
    BY <2>1, FS_Subset
  <2> QED BY <1>1, <1>2, <2>2
<1>4. ASSUME NEW x \in S, NEW y \in S, << x, y >> \in R
      PROVE  rank(x) < rank(y)
  <2>1. Before(R, S, x) \subseteq Before(R, S, y) /\ x \in Before(R, S, y) /\ x \notin Before(R, S, x)
    BY <1>4 DEF Before, Orders
  <2>2. rank(x) <= rank(y) /\ rank(x) # rank(y)
    BY <1>2, <2>1, FS_Subset
  <2> QED BY <1>2, <2>2
<1>5. PICK f : f = [x \in S |-> rank(x)]
  OBVIOUS
<1>6. f \in [S -> 0 .. n - 1]
  <2> HIDE DEF rank, n
  <2> QED BY <1>3, <1>5
<1>7. \A x, y \in S : f[x] = f[y] => x = y
  <2> TAKE x, y \in S
  <2> HIDE DEF rank
  <2>1. CASE << x, y >> \in R
    <3>1. rank(x) < rank(y) /\ rank(x) \in Nat /\ rank(y) \in Nat
      BY <1>2, <1>4, <2>1
    <3>2. rank(x) # rank(y)
      BY <3>1
    <3> QED BY <1>5, <3>2
  <2>2. CASE << y, x >> \in R
    <3>1. rank(y) < rank(x) /\ rank(x) \in Nat /\ rank(y) \in Nat
      BY <1>2, <1>4, <2>2
    <3>2. rank(x) # rank(y)
      BY <3>1
    <3> QED BY <1>5, <3>2
  <2> QED BY <2>1, <2>2 DEF Orders
<1>8. PICK T : T = {f[x] : x \in S}
  OBVIOUS
<1>9. f \in Bijection(S, T)
  BY <1>6, <1>7, <1>8 DEF Bijection, Injection, Surjection, IsInjective
<1>10. IsFiniteSet(T) /\ Cardinality(T) = n
  BY <1>9, FS_Bijection DEF ExistsBijection
<1>11. IsFiniteSet(0 .. n - 1) /\ Cardinality(0 .. n - 1) = n
  BY <1>1, FS_Interval
<1>12. T \subseteq 0 .. n - 1
  BY <1>6, <1>8
<1>13. T = 0 .. n - 1
  BY <1>10, <1>11, <1>12, FS_Subset
<1>14. \A i \in 0 .. n - 1 : \E x \in S : rank(x) = i
  BY <1>5, <1>8, <1>13
<1> QED BY <1>1, <1>3, <1>4, <1>14

\* A sequence with each where as many come before it as do has all of them in order.
LEMMA Arranged ==
  ASSUME NEW S, IsFiniteSet(S), NEW R, Orders(R, S), NEW seq,
         \A i \in 1 .. Cardinality(S) :
           seq[i] \in S /\ Cardinality(Before(R, S, seq[i])) = i - 1
  PROVE  /\ \A x \in S : \E i \in 1 .. Cardinality(S) : seq[i] = x
         /\ \A i, j \in 1 .. Cardinality(S) : i < j => << seq[i], seq[j] >> \in R
<1>1. PICK n \in Nat : n = Cardinality(S)
  BY FS_CardinalityType
<1>2. PICK rank : rank = [x \in S |-> Cardinality(Before(R, S, x))]
  OBVIOUS
<1>3. \A x \in S : rank[x] \in 0 .. n - 1
  BY <1>1, <1>2, Ranked
<1>4. \A x, y \in S : << x, y >> \in R => rank[x] < rank[y]
  BY <1>1, <1>2, Ranked
<1>5. \A i \in 1 .. n : seq[i] \in S /\ rank[seq[i]] = i - 1
  BY <1>1, <1>2
<1>6. ASSUME NEW x \in S
      PROVE  \E i \in 1 .. n : seq[i] = x
  <2>1. PICK i \in 1 .. n : i = rank[x] + 1
    BY <1>3
  <2>2. seq[i] \in S /\ rank[seq[i]] = rank[x] /\ rank[x] \in Nat
    BY <1>3, <1>5, <2>1
  <2>3. << seq[i], x >> \notin R /\ << x, seq[i] >> \notin R
    BY <1>4, <2>2
  <2> QED BY <2>2, <2>3 DEF Orders
<1>7. ASSUME NEW i \in 1 .. n, NEW j \in 1 .. n, i < j
      PROVE  << seq[i], seq[j] >> \in R
  <2>1. seq[i] \in S /\ seq[j] \in S /\ rank[seq[i]] = i - 1 /\ rank[seq[j]] = j - 1
    BY <1>5
  <2>2. ~(rank[seq[j]] < rank[seq[i]]) /\ rank[seq[i]] # rank[seq[j]]
    BY <1>7, <2>1
  <2>3. << seq[j], seq[i] >> \notin R /\ seq[i] # seq[j]
    BY <1>4, <2>1, <2>2
  <2> QED BY <2>1, <2>3 DEF Orders
<1> QED BY <1>1, <1>6, <1>7

-----------------------------------------------------------------------------
(* AutonomyTick: the lanes are v1, the reports v2 and v3, v4 tells of the   *)
(* watchers and v5 is the plan.                                             *)

\* What is known of a thread, and what that makes of it.
LEMMA LaneTypes ==
  ASSUME Tick!TickInv, NEW t \in Threads
  PROVE  /\ v1[t].urgency \in Int /\ v1[t].confidence \in Int /\ v1[t].mapped \in Int
         /\ Tick!State(t) \in DOMAIN Tick!StateRank
<1>1. v1[t] \in LanesOf(t)
  BY DEF Tick!TickInv
<1>2. /\ v1[t].urgency \in Int /\ v1[t].confidence \in Int /\ v1[t].mapped \in Int
      /\ v1[t].session \in {"running", "blocked", "needs_approval", "waiting", "unknown"}
      /\ v1[t].app \in {"absent", "silent", "running", "blocked"}
  <2>1. PICK l \in LanesOf(t) : l = v1[t]
    BY <1>1
  <2>2. CASE t = 1
    <3>1. /\ l.urgency = 20 /\ l.confidence \in {45, 64, 92} /\ l.mapped \in {0, 80}
          /\ l.session \in {"running", "blocked", "needs_approval", "waiting", "unknown"}
          /\ l.app \in {"absent", "silent", "running", "blocked"}
      BY <2>2 DEF LanesOf
    <3> QED BY <2>1, <3>1
  <2>3. CASE t # 1
    <3>1. /\ l.urgency = 50 /\ l.confidence = 92 /\ l.mapped = 0
          /\ l.session \in {"running", "needs_approval"}
          /\ l.app = "running"
      BY <2>3 DEF LanesOf
    <3> QED BY <2>1, <3>1
  <2> QED BY <2>2, <2>3
<1>3. Tick!AppState(t) \in {"none", "running", "blocked"}
  BY <1>2 DEF Tick!AppState, Tick!Heard
<1>4. Tick!SessionState(t) \in {"none", "running", "blocked", "needs_approval", "waiting"}
  BY <1>2 DEF Tick!SessionState
<1>5. Tick!State(t) \in {"unknown", "needs_approval", "blocked", "needs_nudge", "stale",
                         "running", "waiting"}
  BY <1>3, <1>4 DEF Tick!State
<1>6. {"unknown", "needs_approval", "blocked", "needs_nudge", "stale", "running",
       "waiting"} \subseteq DOMAIN Tick!StateRank
  BY DEF Tick!StateRank
<1> QED BY <1>2, <1>5, <1>6

\* A step is a probe or a control of its thread, and there is one of each.
LEMMA StepIs ==
  ASSUME Tick!TickInv, NEW s \in Tick!AllSteps
  PROVE  /\ s.thread \in Threads
         /\ s.priority = Tick!TypeRank(s.type) + 100 * Tick!StateRank[Tick!State(s.thread)]
                           + Tick!Upper(0, v1[s.thread].urgency)
         /\ \/ /\ s.type = "read_only_probe"
               /\ s = Tick!Step(s.thread, "read_only_probe", Tick!ProbeTool(s.thread), "none")
            \/ /\ s.type = "control_dry_run"
               /\ Tick!State(s.thread) \in {"needs_nudge", "needs_approval"}
               /\ s = Tick!Step(s.thread, "control_dry_run", "lco_codex_control_dry_run",
                        IF Tick!State(s.thread) = "needs_approval" THEN "blocked" ELSE "ready")
<1>1. PICK t \in Threads : s \in Tick!StepsFor(t)
  BY DEF Tick!AllSteps
<1>2. \/ s = Tick!Step(t, "read_only_probe", Tick!ProbeTool(t), "none")
      \/ /\ Tick!State(t) \in {"needs_nudge", "needs_approval"}
         /\ s = Tick!Step(t, "control_dry_run", "lco_codex_control_dry_run",
                  IF Tick!State(t) = "needs_approval" THEN "blocked" ELSE "ready")
  BY <1>1 DEF Tick!StepsFor
<1>3. s.thread = t
  BY <1>2 DEF Tick!Step
<1> QED BY <1>2, <1>3 DEF Tick!Step

\* Whose place is decided by numbers.
LEMMA StepPlace ==
  ASSUME Tick!TickInv, NEW s \in Tick!AllSteps
  PROVE  s.priority \in Int /\ s.thread \in Int
<1>1. s.thread \in Threads
  BY StepIs
<1>2. PICK rank \in Int : rank = Tick!StateRank[Tick!State(s.thread)]
  <2>1. Tick!State(s.thread) \in DOMAIN Tick!StateRank
    BY <1>1, LaneTypes
  <2>2. \A x \in DOMAIN Tick!StateRank : Tick!StateRank[x] \in Int
    BY DEF Tick!StateRank
  <2> QED BY <2>1, <2>2
<1>3. Tick!Upper(0, v1[s.thread].urgency) \in Int
  BY <1>1, LaneTypes DEF Tick!Upper
<1>4. Tick!TypeRank(s.type) \in Int
  BY DEF Tick!TypeRank
<1>5. s.priority = Tick!TypeRank(s.type) + 100 * rank + Tick!Upper(0, v1[s.thread].urgency)
  BY <1>2, StepIs
<1>6. s.priority \in Int
  BY <1>3, <1>4, <1>5
<1>7. s.thread \in Int
  BY <1>1, ThreadsAreNumbers
<1> QED BY <1>6, <1>7

LEMMA StepsInOrder ==
  ASSUME Tick!TickInv, NEW R, R = {p \in Tick!AllSteps \X Tick!AllSteps : Tick!Precedes(p[1], p[2])}
  PROVE  Orders(R, Tick!AllSteps)
<1>1. \A a, b \in Tick!AllSteps : << a, b >> \in R <=> Tick!Precedes(a, b)
  OBVIOUS
<1>2. \A a \in Tick!AllSteps : a.priority \in Int /\ a.thread \in Int
  BY StepPlace
<1>3. ASSUME NEW a \in Tick!AllSteps, NEW b \in Tick!AllSteps, a # b
      PROVE  Tick!Precedes(a, b) \/ Tick!Precedes(b, a)
  <2>1. CASE a.thread = b.thread /\ a.type = b.type
    BY <1>3, <2>1, StepIs
  <2>2. CASE a.thread = b.thread /\ a.type # b.type
    <3>1. a.type = "read_only_probe" \/ b.type = "read_only_probe"
      BY <2>2, StepIs
    <3> QED BY <1>2, <2>2, <3>1 DEF Tick!Precedes
  <2>3. CASE a.thread # b.thread
    BY <1>2, <2>3 DEF Tick!Precedes
  <2> QED BY <2>1, <2>2, <2>3
<1>4. \A a \in Tick!AllSteps : ~Tick!Precedes(a, a)
  BY <1>2 DEF Tick!Precedes
<1>5. \A a, b, c \in Tick!AllSteps :
        Tick!Precedes(a, b) /\ Tick!Precedes(b, c) => Tick!Precedes(a, c)
  BY <1>2 DEF Tick!Precedes
<1> QED BY <1>1, <1>3, <1>4, <1>5 DEF Orders

LEMMA StepsAreFew ==
  ASSUME Tick!TickInv
  PROVE  IsFiniteSet(Tick!AllSteps)
<1> DEFINE kinds == {"read_only_probe", "control_dry_run"}
           pairs == Threads \X kinds
<1>1. IsFiniteSet(pairs)
  <2>1. IsFiniteSet(kinds)
    <3>1. PICK X, Y : X = {"read_only_probe"} /\ Y = {"control_dry_run"}
      OBVIOUS
    <3>2. IsFiniteSet(X) /\ IsFiniteSet(Y)
      BY <3>1, FS_Singleton
    <3>3. IsFiniteSet(X \cup Y)
      BY <3>2, FS_Union
    <3>4. kinds = X \cup Y
      BY <3>1
    <3> QED BY <3>3, <3>4
  <2> HIDE DEF kinds
  <2> QED BY <2>1, ThreadsAreNumbers, FS_Product
<1>2. PICK f : f = [s \in Tick!AllSteps |-> << s.thread, s.type >>]
  OBVIOUS
<1>3. f \in [Tick!AllSteps -> pairs]
  <2>1. \A s \in Tick!AllSteps : s.thread \in Threads /\ s.type \in kinds
    BY StepIs
  <2> QED BY <1>2, <2>1
<1>4. \A a, b \in Tick!AllSteps : f[a] = f[b] => a = b
  <2> TAKE a, b \in Tick!AllSteps
  <2>1. a.thread = b.thread /\ a.type = b.type => a = b
    BY StepIs
  <2>2. f[a] = << a.thread, a.type >> /\ f[b] = << b.thread, b.type >>
    BY <1>2
  <2> QED BY <2>1, <2>2
<1>5. f \in Injection(Tick!AllSteps, pairs)
  BY <1>3, <1>4 DEF Injection, IsInjective
<1> QED BY <1>1, <1>5, FS_Injection

\* All the steps are in the plan before it is cut off, in their order.
LEMMA AllAreSorted ==
  ASSUME Tick!TickInv
  PROVE  /\ Cardinality(Tick!AllSteps) \in Nat
         /\ Tick!Sorted(Tick!AllSteps) \in [1 .. Cardinality(Tick!AllSteps) -> Tick!AllSteps]
         /\ \A i \in 1 .. Cardinality(Tick!AllSteps) :
              Tick!Sorted(Tick!AllSteps)[i] \in Tick!AllSteps
         /\ \A s \in Tick!AllSteps :
              \E i \in 1 .. Cardinality(Tick!AllSteps) : Tick!Sorted(Tick!AllSteps)[i] = s
         /\ \A i, j \in 1 .. Cardinality(Tick!AllSteps) :
              i < j => Tick!Precedes(Tick!Sorted(Tick!AllSteps)[i], Tick!Sorted(Tick!AllSteps)[j])
<1>1. PICK S : S = Tick!AllSteps
  OBVIOUS
<1>2. PICK R : R = {p \in S \X S : Tick!Precedes(p[1], p[2])}
  OBVIOUS
<1>3. IsFiniteSet(S) /\ Orders(R, S)
  BY <1>1, <1>2, StepsAreFew, StepsInOrder
<1>4. PICK n \in Nat : n = Cardinality(S)
  BY <1>3, FS_CardinalityType
<1>5. \A s \in S : Before(R, S, s) = {r \in S : Tick!Precedes(r, s)}
  BY <1>2 DEF Before
<1>6. PICK seq : seq = Tick!Sorted(S)
  OBVIOUS
<1>7. /\ seq = [i \in 1 .. n |-> seq[i]]
      /\ \A i \in 1 .. n :
           seq[i] = CHOOSE s \in S : Tick!Cardinality({r \in S : Tick!Precedes(r, s)}) = i - 1
  <2>1. Tick!Cardinality(S) = n
    BY <1>4, Zenon DEF Tick!Cardinality, Cardinality
  <2> DEFINE nth(i) ==
        CHOOSE s \in S : Tick!Cardinality({r \in S : Tick!Precedes(r, s)}) = i - 1
  <2>2. seq = [i \in 1 .. n |-> nth(i)]
    BY <1>6, <2>1, Zenon DEF Tick!Sorted
  <2>3. seq = [i \in 1 .. n |-> seq[i]] /\ \A i \in 1 .. n : seq[i] = nth(i)
    <3> HIDE DEF nth
    <3> QED BY <2>2
  <2> QED BY <2>3
<1>8. \A s \in S : Tick!Cardinality({r \in S : Tick!Precedes(r, s)}) = Cardinality(Before(R, S, s))
  <2> TAKE s \in S
  <2>1. PICK X : X = {r \in S : Tick!Precedes(r, s)}
    OBVIOUS
  <2>2. Tick!Cardinality(X) = Cardinality(X)
    BY Zenon DEF Tick!Cardinality, Cardinality
  <2>3. Before(R, S, s) = X
    BY <1>5, <2>1
  <2> QED BY <2>1, <2>2, <2>3
<1>9. \A i \in 1 .. n : seq[i] \in S /\ Cardinality(Before(R, S, seq[i])) = i - 1
  <2> TAKE i \in 1 .. n
  <2> DEFINE P(s) == Tick!Cardinality({r \in S : Tick!Precedes(r, s)}) = i - 1
  <2>1. i - 1 \in 0 .. n - 1
    OBVIOUS
  <2>2. \E s \in S : Cardinality(Before(R, S, s)) = i - 1
    BY <1>3, <1>4, <2>1, Ranked
  <2>3. \E s \in S : P(s)
    BY <1>8, <2>2
  <2>4. seq[i] = CHOOSE s \in S : P(s)
    BY <1>7
  <2>5. seq[i] \in S /\ P(seq[i])
    <3> HIDE DEF P
    <3> QED BY <2>3, <2>4
  <2> QED BY <1>8, <2>5
<1>10. /\ \A x \in S : \E i \in 1 .. n : seq[i] = x
       /\ \A i, j \in 1 .. n : i < j => << seq[i], seq[j] >> \in R
  BY <1>3, <1>4, <1>9, Arranged
<1>11. \A i, j \in 1 .. n : i < j => Tick!Precedes(seq[i], seq[j])
  BY <1>2, <1>10
<1>12. seq \in [1 .. n -> S]
  BY <1>7, <1>9
<1> QED BY <1>1, <1>4, <1>6, <1>7, <1>9, <1>10, <1>11, <1>12

\* A control of a thread in doubt has a probe before it, and none is of a thread
\* that the sources disagree about, but where a watcher tells.
LEMMA DoubtIsProbed ==
  ASSUME Tick!TickInv, NEW t \in Threads, Tick!Doubtful(t), ~v1[t].crowded
  PROVE  Tick!Coverage(t) # "covered"
<1>1. CASE Tick!Disagree(t)
  <2>1. Tick!HardConflict(t) \/ Tick!SoftConflict(t)
    BY <1>1 DEF Tick!HardConflict, Tick!SoftConflict, Tick!Conflict
  <2> QED BY <2>1 DEF Tick!Coverage
<1>2. CASE ~Tick!Heard(t)
  BY <1>2 DEF Tick!Coverage, Tick!AppServerMissing
<1>3. CASE v1[t].confidence < 70 /\ Tick!Mapped(t) < 70 /\ v1[t].watcher = "none"
  <2>1. ~Tick!Woken(t, "triggered") /\ ~Tick!Woken(t, "stale")
    BY <1>3 DEF Tick!Woken
  <2>2. v1[t].confidence \in Int /\ Tick!Mapped(t) \in Int
    BY LaneTypes DEF Tick!Mapped
  <2>3. Tick!Confidence(t) < 70
    BY <1>3, <2>1, <2>2 DEF Tick!Confidence, Tick!Lower, Tick!Upper
  <2> QED BY <2>3 DEF Tick!Coverage
<1> QED BY <1>1, <1>2, <1>3 DEF Tick!Doubtful

LEMMA DisagreementIsTold ==
  ASSUME NEW t \in Threads, Tick!Disagree(t), Tick!State(t) \in {"needs_nudge", "needs_approval"}
  PROVE  v1[t].session = "running" /\ v1[t].watcher # "none"
<1>1. ~Tick!Conflict(t)
  BY DEF Tick!State
<1>2. Tick!WatcherOverrides(t)
  BY <1>1 DEF Tick!Conflict
<1> QED BY <1>2 DEF Tick!WatcherOverrides, Tick!Woken, Tick!SessionState

\* What a plan that is given says.
Probed(given) ==
  \A i \in DOMAIN given : given[i].type = "control_dry_run" =>
    LET t == given[i].thread
    IN ~v1[t].crowded =>
         /\ Tick!Doubtful(t) => \E j \in 1 .. (i - 1) : given[j].thread = t
         /\ Tick!Disagree(t) => v1[t].session = "running" /\ v1[t].watcher # "none"

LEMMA PlansProbe ==
  ASSUME Tick!TickInv,
         NEW m \in Nat, m <= Cardinality(Tick!AllSteps),
         NEW given, given = SubSeq(Tick!Sorted(Tick!AllSteps), 1, m)
  PROVE  Probed(given)
<1>1. PICK S : S = Tick!AllSteps
  OBVIOUS
<1>2. PICK n \in Nat : n = Cardinality(S)
  BY <1>1, AllAreSorted
<1>3. PICK seq \in [1 .. n -> S] : seq = Tick!Sorted(S)
  BY <1>1, <1>2, AllAreSorted
<1>4. /\ \A s \in S : \E i \in 1 .. n : seq[i] = s
      /\ \A i, j \in 1 .. n : i < j => Tick!Precedes(seq[i], seq[j])
  BY <1>1, <1>2, <1>3, AllAreSorted
<1>5. DOMAIN given = 1 .. m /\ \A i \in 1 .. m : given[i] = seq[i]
  <2>1. seq \in Seq(S) /\ Len(seq) = n
    BY <1>3
  <2>2. m <= n /\ given = SubSeq(seq, 1, m)
    BY <1>1, <1>2, <1>3
  <2> QED BY <2>1, <2>2
<1>6. m <= n
  BY <1>1, <1>2
<1> SUFFICES ASSUME NEW i \in 1 .. m, given[i].type = "control_dry_run",
                    ~v1[given[i].thread].crowded
             PROVE  LET t == given[i].thread
                    IN  /\ Tick!Doubtful(t) => \E j \in 1 .. (i - 1) : given[j].thread = t
                        /\ Tick!Disagree(t) => v1[t].session = "running" /\ v1[t].watcher # "none"
  BY <1>5 DEF Probed
<1>7. PICK s \in S : s = seq[i] /\ given[i] = s
  BY <1>3, <1>5, <1>6
<1>8. PICK t \in Threads : t = s.thread
  BY <1>1, <1>7, StepIs
<1>9. s.type = "control_dry_run" /\ Tick!State(t) \in {"needs_nudge", "needs_approval"}
  BY <1>1, <1>7, <1>8, StepIs
<1>10. ASSUME Tick!Doubtful(t)
       PROVE  \E j \in 1 .. (i - 1) : given[j].thread = t
  <2>1. Tick!Coverage(t) # "covered"
    BY <1>7, <1>8, <1>10, DoubtIsProbed
  <2>2. PICK p \in S : p = Tick!Step(t, "read_only_probe", Tick!ProbeTool(t), "none")
    BY <1>1, <2>1 DEF Tick!AllSteps, Tick!StepsFor
  <2>3. p.thread = t /\ p.type = "read_only_probe"
    BY <2>2 DEF Tick!Step
  <2>4. PICK j \in 1 .. n : seq[j] = p
    BY <1>4
  <2>5. p.priority > s.priority
    <3>2. /\ p.priority = Tick!TypeRank(p.type) + 100 * Tick!StateRank[Tick!State(t)]
                            + Tick!Upper(0, v1[t].urgency)
          /\ s.priority = Tick!TypeRank(s.type) + 100 * Tick!StateRank[Tick!State(t)]
                            + Tick!Upper(0, v1[t].urgency)
      BY <1>1, <1>8, <2>3, StepIs
    <3>3. Tick!TypeRank(p.type) = 1000 /\ Tick!TypeRank(s.type) = 900
      BY <1>9, <2>3 DEF Tick!TypeRank
    <3>4. /\ Tick!StateRank[Tick!State(t)] \in Int
          /\ Tick!Upper(0, v1[t].urgency) \in Int
      <4>1. Tick!Upper(0, v1[t].urgency) \in Int
        BY LaneTypes DEF Tick!Upper
      <4>2. Tick!State(t) \in DOMAIN Tick!StateRank
        BY LaneTypes
      <4>3. \A x \in DOMAIN Tick!StateRank : Tick!StateRank[x] \in Int
        BY DEF Tick!StateRank
      <4> QED BY <4>1, <4>2, <4>3
    <3> QED BY <3>2, <3>3, <3>4
  <2>6. p.priority \in Int /\ s.priority \in Int
    BY <1>1, StepPlace
  <2>7. ~Tick!Precedes(s, p)
    BY <2>5, <2>6 DEF Tick!Precedes
  <2>8. ~(i < j) /\ i # j
    BY <1>4, <1>6, <1>7, <1>9, <2>3, <2>4, <2>7
  <2>9. j \in 1 .. (i - 1) /\ j \in 1 .. m
    BY <1>6, <2>8
  <2>10. given[j] = p
    BY <1>5, <2>4, <2>9
  <2> QED BY <2>3, <2>9, <2>10
<1>11. Tick!Disagree(t) => v1[t].session = "running" /\ v1[t].watcher # "none"
  BY <1>9, DisagreementIsTold
<1> QED BY <1>7, <1>8, <1>10, <1>11

LEMMA TickInvStep ==
  ASSUME Tick!TickInv, Tick!Next \/ UNCHANGED Tick!vars
  PROVE  Tick!TickInv'
<1>1. v1' = v1 /\ v2' = v2 /\ v3' = v3 /\ v4' = v4
  BY DEF Tick!Next, Tick!Tick, Tick!vars
<1>2. CASE v5' = v5
  BY <1>1, <1>2 DEF Tick!TickInv, Tick!ProbedBeforeDriven, Tick!Planned, Tick!Doubtful,
     Tick!Disagree, Tick!Heard, Tick!Mapped, Tick!AppState, Tick!SessionState
<1>3. CASE Tick!Tick
  <2>1. PICK m : m = Tick!Lower(Len(Tick!Sorted(Tick!AllSteps)), StepLimit)
    OBVIOUS
  <2>2. v5' = SubSeq(Tick!Sorted(Tick!AllSteps), 1, m)
    BY <1>3, <2>1 DEF Tick!Tick
  <2>3. Len(Tick!Sorted(Tick!AllSteps)) = Cardinality(Tick!AllSteps)
    BY AllAreSorted
  <2>4. m \in Nat /\ m <= Cardinality(Tick!AllSteps)
    <3>1. PICK n \in Nat : n = Cardinality(Tick!AllSteps)
      BY AllAreSorted
    <3>2. StepLimit \in Nat
      BY ThreadsAreNumbers
    <3> QED BY <2>1, <2>3, <3>1, <3>2 DEF Tick!Lower
  <2>5. Probed(v5')
    BY <2>2, <2>4, PlansProbe
  <2>6. Tick!ProbedBeforeDriven'
    BY <1>1, <2>5 DEF Probed, Tick!ProbedBeforeDriven, Tick!Planned, Tick!Doubtful,
       Tick!Disagree, Tick!Heard, Tick!Mapped, Tick!AppState, Tick!SessionState
  <2> QED BY <1>1, <2>6 DEF Tick!TickInv
<1> QED BY <1>2, <1>3 DEF Tick!Next, Tick!vars

\* AutonomyTick, createCodexAutonomyTick: of any number of threads, whatever is known
\* of the lanes of each, a plan cut off at any limit drives none that is in doubt
\* before it has probed it, and none that the sources disagree about, but where a
\* watcher tells.
THEOREM PlansProbeBeforeTheyDrive == ReportSpec => []ProbedBeforeDriven
<1> DEFINE IInv == component = "tick" => Tick!TickInv
<1>1. ReportInit => IInv
  <2> SUFFICES ASSUME ReportInit, component = "tick"
               PROVE  Tick!TickInv
    OBVIOUS
  <2>1. Tick!Init
    BY StartsOfOne
  <2>2. DOMAIN v1 = Threads /\ \A t \in Threads : v1[t] \in LanesOf(t)
    BY <2>1 DEF Tick!Init
  <2> QED BY <2>1, <2>2 DEF Tick!Init, Tick!TickInv, Tick!ProbedBeforeDriven, Tick!Planned
<1>2. IInv /\ [ReportNext]_vars => IInv'
  <2> SUFFICES ASSUME IInv, [ReportNext]_vars, component' = "tick"
               PROVE  Tick!TickInv'
    OBVIOUS
  <2>1. component = "tick" /\ (Tick!Next \/ UNCHANGED Tick!vars)
    BY StepsOfOne
  <2> QED BY <2>1, TickInvStep
<1>3. IInv => ProbedBeforeDriven
  BY DEF ProbedBeforeDriven, Tick!TickInv
<1> QED
  <2> HIDE DEF IInv
  <2> QED BY <1>1, <1>2, <1>3, PTL DEF ReportSpec

-----------------------------------------------------------------------------
(* PreparedReads: the table is v1 and the other one v2, the report v3 and   *)
(* its next statement v4, the counts v5 and v6, the offset v7, what was     *)
(* read v8 and found v9; v10 stayed, v11 and v12 tell of rows that came and *)
(* went, v13 counts the writes.                                             *)

LEMMA LeastOfTwo ==
  ASSUME NEW a \in Int, NEW b \in Int
  PROVE  /\ Reads!Min({a, b}) = IF a <= b THEN a ELSE b
         /\ Reads!Max({a, b}) = IF a <= b THEN b ELSE a
<1>1. PICK T : T = {a, b}
  OBVIOUS
<1>2. Reads!Min(T) = CHOOSE x \in T : \A y \in T : x <= y
  BY Zenon DEF Reads!Min
<1>3. Reads!Max(T) = CHOOSE x \in T : \A y \in T : x >= y
  BY Zenon DEF Reads!Max
<1>4. \E x \in T : \A y \in T : x <= y
  BY <1>1
<1>5. \E x \in T : \A y \in T : x >= y
  BY <1>1
<1>6. Reads!Min(T) \in T /\ \A y \in T : Reads!Min(T) <= y
  BY <1>2, <1>4
<1>7. Reads!Max(T) \in T /\ \A y \in T : Reads!Max(T) >= y
  BY <1>3, <1>5
<1>8. Reads!Min(T) = IF a <= b THEN a ELSE b
  <2>1. PICK x : x = Reads!Min(T)
    OBVIOUS
  <2>2. (x = a \/ x = b) /\ x <= a /\ x <= b
    BY <1>1, <1>6, <2>1
  <2> QED BY <2>1, <2>2
<1>9. Reads!Max(T) = IF a <= b THEN b ELSE a
  <2>1. PICK x : x = Reads!Max(T)
    OBVIOUS
  <2>2. (x = a \/ x = b) /\ x >= a /\ x >= b
    BY <1>1, <1>7, <2>1
  <2> QED BY <2>1, <2>2
<1> QED BY <1>1, <1>8, <1>9

\* Numbers in order are all of them, each where as many are less than it.
LEMMA NumbersInOrder ==
  ASSUME NEW S, IsFiniteSet(S), \A k \in S : k \in Int
  PROVE  /\ Reads!Cardinality(S) = Cardinality(S) /\ Cardinality(S) \in Nat
         /\ Reads!InOrder(S) \in [1 .. Cardinality(S) -> S]
         /\ \A k \in S : \E i \in 1 .. Cardinality(S) : Reads!InOrder(S)[i] = k
         /\ \A i, j \in 1 .. Cardinality(S) :
              i < j => Reads!InOrder(S)[i] < Reads!InOrder(S)[j]
<1>1. PICK R : R = {p \in S \X S : p[1] < p[2]}
  OBVIOUS
<1>2. Orders(R, S)
  <2>1. \A x, y \in S : << x, y >> \in R <=> x < y
    BY <1>1
  <2>2. \A x, y \in S : x # y => << x, y >> \in R \/ << y, x >> \in R
    BY <2>1
  <2>3. \A x \in S : << x, x >> \notin R
    BY <2>1
  <2>4. \A x, y, z \in S : << x, y >> \in R /\ << y, z >> \in R => << x, z >> \in R
    BY <2>1
  <2> QED BY <2>2, <2>3, <2>4 DEF Orders
<1>3. PICK n \in Nat : n = Cardinality(S)
  BY FS_CardinalityType
<1>4. Reads!Cardinality(S) = Cardinality(S)
  BY Zenon DEF Reads!Cardinality, Cardinality
<1>5. \A k \in S : Before(R, S, k) = {j \in S : j < k}
  BY <1>1 DEF Before
<1>6. PICK seq : seq = Reads!InOrder(S)
  OBVIOUS
<1> DEFINE nth(i) == CHOOSE k \in S : Reads!Cardinality({j \in S : j < k}) = i - 1
<1>7. seq = [i \in 1 .. n |-> nth(i)]
  BY <1>3, <1>4, <1>6, Zenon DEF Reads!InOrder
<1>8. seq = [i \in 1 .. n |-> seq[i]] /\ \A i \in 1 .. n : seq[i] = nth(i)
  <2> HIDE DEF nth
  <2> QED BY <1>7
<1>9. \A k \in S : Reads!Cardinality({j \in S : j < k}) = Cardinality(Before(R, S, k))
  <2> TAKE k \in S
  <2>1. PICK X : X = {j \in S : j < k}
    OBVIOUS
  <2>2. Reads!Cardinality(X) = Cardinality(X)
    BY Zenon DEF Reads!Cardinality, Cardinality
  <2>3. Before(R, S, k) = X
    BY <1>5, <2>1
  <2> QED BY <2>1, <2>2, <2>3
<1>14. \A i \in 0 .. n - 1 : \E k \in S : Cardinality(Before(R, S, k)) = i
  BY <1>2, <1>3, Ranked
<1>10. \A i \in 1 .. n : seq[i] \in S /\ Cardinality(Before(R, S, seq[i])) = i - 1
  <2> TAKE i \in 1 .. n
  <2> DEFINE P(k) == Reads!Cardinality({j \in S : j < k}) = i - 1
  <2>1. i - 1 \in 0 .. n - 1
    OBVIOUS
  <2>2. \E k \in S : Cardinality(Before(R, S, k)) = i - 1
    BY <1>14, <2>1
  <2>3. \E k \in S : P(k)
    BY <1>9, <2>2
  <2>4. seq[i] = CHOOSE k \in S : P(k)
    BY <1>8
  <2>5. seq[i] \in S /\ P(seq[i])
    <3> HIDE DEF P
    <3> QED BY <2>3, <2>4
  <2> QED BY <1>9, <2>5
<1>11. /\ \A k \in S : \E i \in 1 .. n : seq[i] = k
       /\ \A i, j \in 1 .. n : i < j => << seq[i], seq[j] >> \in R
  BY <1>2, <1>3, <1>10, Arranged
<1>12. \A i, j \in 1 .. n : i < j => seq[i] < seq[j]
  BY <1>1, <1>11
<1>13. seq \in [1 .. n -> S]
  BY <1>8, <1>10
<1> QED BY <1>3, <1>4, <1>6, <1>11, <1>12, <1>13

LEMMA UpTo ==
  ASSUME NEW n \in Nat
  PROVE  IsFiniteSet(1 .. n) /\ Cardinality(1 .. n) = n
<1>1. Cardinality(1 .. n) = IF 1 > n THEN 0 ELSE n - 1 + 1
  BY FS_Interval
<1>2. IsFiniteSet(1 .. n)
  BY FS_Interval
<1> QED BY <1>1, <1>2

NoneTwice(s) == \A i, j \in 1 .. Len(s) : s[i] = s[j] => i = j

\* A sequence has the elements at some places of another, and each as often.
Gathers(few, s, places) ==
  /\ \A n \in 1 .. Len(few) : \E i \in places : few[n] = s[i]
  /\ \A i \in places : \E n \in 1 .. Len(few) : few[n] = s[i]
  /\ NoneTwice(s) => NoneTwice(few)

\* The elements at some places of a sequence, in a sequence.
LEMMA Selected ==
  ASSUME NEW T, NEW s \in Seq(T), NEW places \in SUBSET (1 .. Len(s))
  PROVE  /\ Reads!Select(s, places) \in Seq(T)
         /\ Len(Reads!Select(s, places)) = Cardinality(places)
         /\ Cardinality(places) \in 0 .. Len(s)
         /\ Gathers(Reads!Select(s, places), s, places)
<1>1. Len(s) \in Nat /\ \A i \in 1 .. Len(s) : s[i] \in T
  OBVIOUS
<1>2. IsFiniteSet(1 .. Len(s)) /\ Cardinality(1 .. Len(s)) = Len(s)
  <2>1. PICK len \in Nat : len = Len(s)
    BY <1>1
  <2>2. IsFiniteSet(1 .. len) /\ Cardinality(1 .. len) = len
    BY UpTo
  <2> QED BY <2>1, <2>2
<1>3. IsFiniteSet(places) /\ Cardinality(places) \in 0 .. Len(s)
  <2>1. PICK whole : whole = 1 .. Len(s)
    OBVIOUS
  <2>2. IsFiniteSet(places) /\ Cardinality(places) <= Cardinality(whole)
    BY <1>2, <2>1, FS_Subset
  <2>3. Cardinality(places) \in Nat
    BY <2>2, FS_CardinalityType
  <2> QED BY <1>1, <1>2, <2>1, <2>2, <2>3
<1>4. PICK n \in Nat : n = Cardinality(places)
  BY <1>3
<1>5. PICK order : order = Reads!InOrder(places)
  OBVIOUS
<1>6. /\ Reads!Cardinality(places) = n /\ order \in [1 .. n -> places]
      /\ \A k \in places : \E i \in 1 .. n : order[i] = k
      /\ \A i, j \in 1 .. n : i < j => order[i] < order[j]
  <2>1. \A i \in places : i \in Int
    BY <1>1
  <2> QED BY <1>3, <1>4, <1>5, <2>1, NumbersInOrder
<1>7. PICK sel : sel = Reads!Select(s, places)
  OBVIOUS
<1>8. sel = [m \in 1 .. n |-> s[order[m]]]
  BY <1>5, <1>6, <1>7, Zenon DEF Reads!Select
<1>9. sel \in [1 .. n -> T]
  BY <1>1, <1>6, <1>8
<1>10. sel \in Seq(T) /\ Len(sel) = n
  BY <1>9
<1>11. \A m \in 1 .. n : \E i \in places : sel[m] = s[i]
  BY <1>6, <1>8
<1>12. \A i \in places : \E m \in 1 .. n : sel[m] = s[i]
  BY <1>6, <1>8
<1>13. ASSUME NoneTwice(s), NEW k \in 1 .. n, NEW m \in 1 .. n, sel[k] = sel[m]
       PROVE  k = m
  <2>1. order[k] \in 1 .. Len(s) /\ order[m] \in 1 .. Len(s) /\ s[order[k]] = s[order[m]]
    BY <1>6, <1>8, <1>13
  <2>2. order[k] = order[m] /\ order[k] \in Int
    BY <1>13, <2>1 DEF NoneTwice
  <2>3. ~(k < m) /\ ~(m < k)
    BY <1>6, <2>2
  <2> QED BY <2>3
<1>14. NoneTwice(s) => NoneTwice(sel)
  BY <1>10, <1>13 DEF NoneTwice
<1>15. Gathers(sel, s, places)
  BY <1>10, <1>11, <1>12, <1>14 DEF Gathers
<1> QED BY <1>3, <1>4, <1>7, <1>10, <1>15

\* The first n of a sequence.
LEMMA CutIs ==
  ASSUME NEW T, NEW s \in Seq(T), NEW n \in Nat
  PROVE  /\ Reads!Cut(s, n) \in Seq(T)
         /\ Len(Reads!Cut(s, n)) = IF n <= Len(s) THEN n ELSE Len(s)
         /\ \A i \in 1 .. Len(Reads!Cut(s, n)) : Reads!Cut(s, n)[i] = s[i]
<1>1. PICK m : m = IF n <= Len(s) THEN n ELSE Len(s)
  OBVIOUS
<1>2. m \in Nat /\ m <= Len(s) /\ Len(s) \in Nat
  BY <1>1
<1>3. Reads!Min({n, Len(s)}) = m
  BY <1>1, <1>2, LeastOfTwo
<1>4. Reads!Cut(s, n) = SubSeq(s, 1, m)
  BY <1>3, Zenon DEF Reads!Cut
<1>5. \A i \in 1 .. m : s[i] \in T
  BY <1>2
<1>6. /\ SubSeq(s, 1, m) \in Seq(T)
      /\ Len(SubSeq(s, 1, m)) = IF 1 <= m THEN m - 1 + 1 ELSE 0
      /\ \A i \in 1 .. m - 1 + 1 : SubSeq(s, 1, m)[i] = s[1 + i - 1]
  BY <1>2, <1>5, SubSeqProperties
<1>7. Len(SubSeq(s, 1, m)) = m
  BY <1>2, <1>6
<1>8. \A i \in 1 .. m : SubSeq(s, 1, m)[i] = s[i]
  BY <1>2, <1>6
<1> QED BY <1>1, <1>4, <1>6, <1>7, <1>8

\* The keys of a table in their order, and its rows.
LEMMA KeysInOrder ==
  ASSUME NEW set \in SUBSET Keys
  PROVE  /\ Reads!Cardinality(set) = Cardinality(set) /\ Cardinality(set) \in Nat
         /\ Reads!InOrder(set) \in [1 .. Cardinality(set) -> set]
         /\ \A k \in set : \E i \in 1 .. Cardinality(set) : Reads!InOrder(set)[i] = k
         /\ \A i, j \in 1 .. Cardinality(set) :
              i < j => Reads!InOrder(set)[i] < Reads!InOrder(set)[j]
<1>1. IsFiniteSet(set)
  BY ReadsAreBounded, FS_Subset
<1>2. \A k \in set : k \in Int
  BY ReadsAreBounded
<1> QED BY <1>1, <1>2, NumbersInOrder

\* No key stands at two places of that order.
LEMMA KeysApart ==
  ASSUME NEW set \in SUBSET Keys,
         NEW i \in 1 .. Cardinality(set), NEW j \in 1 .. Cardinality(set),
         Reads!InOrder(set)[i] = Reads!InOrder(set)[j]
  PROVE  i = j
<1>1. PICK seq : seq = Reads!InOrder(set)
  OBVIOUS
<1>2. PICK n \in Nat : n = Cardinality(set)
  BY KeysInOrder
<1>3. /\ seq \in [1 .. n -> set]
      /\ \A x, y \in 1 .. n : x < y => seq[x] < seq[y]
  BY <1>1, <1>2, KeysInOrder
<1>4. i \in 1 .. n /\ j \in 1 .. n /\ seq[i] = seq[j] /\ seq[i] \in Int
  BY <1>1, <1>2, <1>3, ReadsAreBounded
<1>5. ~(i < j) /\ ~(j < i)
  BY <1>3, <1>4
<1> QED BY <1>4, <1>5

LEMMA FewerKeys ==
  ASSUME NEW set \in SUBSET Keys, NEW less \in SUBSET set
  PROVE  Reads!Cardinality(less) <= Reads!Cardinality(set)
<1>1. IsFiniteSet(set)
  BY ReadsAreBounded, FS_Subset
<1>2. Cardinality(less) <= Cardinality(set)
  BY <1>1, FS_Subset
<1> QED BY <1>2, KeysInOrder

LEMMA RowsInOrder ==
  ASSUME NEW name \in {"rows", "second"}, NEW table \in [Keys -> Reads!States]
  PROVE  LET rows == Reads!Ordered(name, table)
             set == Reads!Taken(table)
         IN  /\ set \in SUBSET Keys /\ rows \in Seq(Reads!TableRows)
             /\ Len(rows) = Reads!Cardinality(set) /\ Reads!Cardinality(set) \in Nat
             /\ \A i \in 1 .. Len(rows) :
                  /\ rows[i].table = name /\ rows[i].key = Reads!InOrder(set)[i]
                  /\ rows[i].key \in set
                  /\ rows[i].fit <=> table[rows[i].key] = "fit"
<1>1. PICK set : set = Reads!Taken(table)
  OBVIOUS
<1>2. set \in SUBSET Keys
  BY <1>1 DEF Reads!Taken
<1>3. PICK order : order = Reads!InOrder(set)
  OBVIOUS
<1>4. PICK n \in Nat : n = Reads!Cardinality(set) /\ order \in [1 .. n -> set]
  BY <1>2, <1>3, KeysInOrder
<1>5. PICK rows : rows = Reads!Ordered(name, table)
  OBVIOUS
<1>6. rows = [i \in 1 .. n |-> [table |-> name, key |-> order[i], fit |-> table[order[i]] = "fit"]]
  BY <1>1, <1>3, <1>4, <1>5, Zenon DEF Reads!Ordered
<1>7. \A i \in 1 .. n :
        /\ rows[i] = [table |-> name, key |-> order[i], fit |-> table[order[i]] = "fit"]
        /\ order[i] \in set
  BY <1>4, <1>6
<1>8. \A i \in 1 .. n :
        /\ rows[i] \in Reads!TableRows /\ rows[i].table = name /\ rows[i].key = order[i]
        /\ rows[i].key \in set /\ (rows[i].fit <=> table[rows[i].key] = "fit")
  <2> TAKE i \in 1 .. n
  <2>1. PICK fit \in BOOLEAN : fit <=> table[order[i]] = "fit"
    OBVIOUS
  <2>2. fit = (table[order[i]] = "fit")
    BY <2>1
  <2>3. rows[i] = [table |-> name, key |-> order[i], fit |-> fit]
    BY <1>7, <2>2, Zenon
  <2>4. order[i] \in Keys
    BY <1>2, <1>7
  <2>5. rows[i] \in Reads!TableRows
    BY <2>3, <2>4 DEF Reads!TableRows
  <2> QED BY <1>7, <2>1, <2>3, <2>5
<1>9. rows \in Seq(Reads!TableRows) /\ Len(rows) = n
  <2>1. rows = [i \in 1 .. n |-> rows[i]]
    BY <1>6
  <2>2. rows \in [1 .. n -> Reads!TableRows]
    BY <1>8, <2>1
  <2> QED BY <2>2
<1> QED BY <1>1, <1>2, <1>3, <1>4, <1>5, <1>8, <1>9

\* Limits are numbers, and so is how far pages go.
LEMMA BoundIs ==
  Reads!TypeInv => Reads!Bound \in Nat /\ v3.limit \in Nat
<1>1. SUFFICES ASSUME Reads!TypeInv
               PROVE  Reads!Bound \in Nat /\ v3.limit \in Nat
  OBVIOUS
<1>2. v3.limit \in Limits \cup {0} /\ v6 \in Nat
  BY <1>1 DEF Reads!TypeInv
<1>3. v3.limit \in Nat
  <2>1. PICK n : n = v3.limit
    OBVIOUS
  <2>2. n \in Limits \/ n = 0
    BY <1>2, <2>1
  <2>3. n \in Limits => n \in Nat
    BY ReadsAreBounded
  <2>4. n \in Nat
    BY <2>2, <2>3
  <2> QED BY <2>1, <2>4
<1> QED BY <1>2, <1>3 DEF Reads!Bound

LEMMA BoundAfter ==
  Reads!TypeInv' => Reads!Bound' \in Nat /\ v3'.limit \in Nat
<1>1. SUFFICES ASSUME Reads!TypeInv'
               PROVE  Reads!Bound' \in Nat /\ v3'.limit \in Nat
  OBVIOUS
<1>2. v3'.limit \in Limits \cup {0} /\ v6' \in Nat
  BY <1>1 DEF Reads!TypeInv
<1>3. v3'.limit \in Nat
  <2>1. PICK n : n = v3'.limit
    OBVIOUS
  <2>2. n \in Limits \/ n = 0
    BY <1>2, <2>1
  <2>3. n \in Limits => n \in Nat
    BY ReadsAreBounded
  <2>4. n \in Nat
    BY <2>2, <2>3
  <2> QED BY <2>1, <2>4
<1> QED BY <1>2, <1>3 DEF Reads!Bound

LEMMA ReadsInit ==
  ASSUME Reads!Init
  PROVE  Reads!ReadsInv
<1>1. Reads!TypeInv
  <2>1. v1 \in [Keys -> Reads!States]
    BY DEF Reads!Init, Reads!States
  <2>2. v2 = [k \in Keys |-> "fit"] /\ v9 = v2
    BY DEF Reads!Init
  <2>3. v2 \in [Keys -> Reads!States] /\ v9 \in [Keys -> Reads!States]
    BY <2>2 DEF Reads!States
  <2>4. v3 \in [report : Reads!Reports \cup {"none"}, limit : Limits \cup {0}]
    BY DEF Reads!Init
  <2>5. v8 = << >> /\ v8 \in Seq(Reads!TableRows)
    BY DEF Reads!Init
  <2> QED BY <2>1, <2>3, <2>4, <2>5 DEF Reads!Init, Reads!TypeInv
<1>2. Reads!StayedInv /\ Reads!CountsInv /\ Reads!PagesInv /\ Reads!ReadInv
  BY DEF Reads!Init, Reads!StayedInv, Reads!CountsInv, Reads!PagesInv, Reads!ReadInv,
         Reads!Counted, Reads!Paged, Reads!Twofold
<1> QED BY <1>1, <1>2 DEF Reads!ReadsInv

LEMMA BeginKept ==
  ASSUME Reads!ReadsInv, NEW report \in Reads!Reports, NEW limit \in Limits,
         Reads!Begin(report, limit)
  PROVE  Reads!ReadsInv'
<1>1. /\ v3' = [report |-> report, limit |-> limit]
      /\ v4 = "idle"
      /\ v4' = IF report \in {"ranges", "leaves", "material"} THEN "raw" ELSE "list"
      /\ v10' = {k \in Keys : v1[k] = "fit" /\ (report = "inbox" => v2[k] = "fit")}
      /\ UNCHANGED << v1, v2, v5, v6, v7, v8, v9, v11, v12, v13 >>
  BY DEF Reads!Begin
<1>2. v3'.report = report
  BY <1>1
<1>3. Reads!TypeInv'
  BY <1>1, <1>2 DEF Reads!ReadsInv, Reads!TypeInv, Reads!Reports
<1>4. Reads!StayedInv'
  BY <1>1, <1>2 DEF Reads!ReadsInv, Reads!StayedInv
<1>5. Reads!CountsInv' /\ Reads!PagesInv'
  BY <1>1, <1>2 DEF Reads!ReadsInv, Reads!CountsInv, Reads!PagesInv, Reads!Counted, Reads!Paged
<1>6. Reads!ReadInv'
  BY <1>1, <1>2 DEF Reads!ReadsInv, Reads!ReadInv, Reads!Paged, Reads!Twofold
<1> QED BY <1>3, <1>4, <1>5, <1>6 DEF Reads!ReadsInv

LEMMA CountRawKept ==
  ASSUME Reads!ReadsInv, Reads!CountRaw
  PROVE  Reads!ReadsInv'
<1>1. /\ v4 = "raw" /\ v4' = "safe" /\ v5' = Reads!Cardinality(Reads!Stored)
      /\ UNCHANGED << v1, v2, v3, v6, v7, v8, v9, v10, v11, v12, v13 >>
  BY DEF Reads!CountRaw
<1>2. Reads!Cardinality(Reads!Stored) \in Nat
  <2>1. Reads!Stored \in SUBSET Keys
    BY DEF Reads!Stored
  <2> QED BY <2>1, KeysInOrder
<1>3. Reads!TypeInv'
  BY <1>1, <1>2 DEF Reads!ReadsInv, Reads!TypeInv
<1>4. Reads!StayedInv'
  BY <1>1 DEF Reads!ReadsInv, Reads!StayedInv
<1>5. Reads!CountsInv'
  BY <1>1 DEF Reads!CountsInv, Reads!Stored
<1>6. Reads!PagesInv' /\ Reads!ReadInv'
  BY <1>1 DEF Reads!ReadsInv, Reads!PagesInv, Reads!ReadInv
<1> QED BY <1>3, <1>4, <1>5, <1>6 DEF Reads!ReadsInv

LEMMA CountSafeKept ==
  ASSUME Reads!ReadsInv, Reads!CountSafe
  PROVE  Reads!ReadsInv'
<1>1. /\ v4 = "safe" /\ v4' = "list" /\ v6' = Reads!Cardinality(Reads!Taken(v1))
      /\ UNCHANGED << v1, v2, v3, v5, v7, v8, v9, v10, v11, v12, v13 >>
  BY DEF Reads!CountSafe
<1>2. Reads!Cardinality(Reads!Taken(v1)) \in Nat
  <2>1. Reads!Taken(v1) \in SUBSET Keys
    BY DEF Reads!Taken
  <2> QED BY <2>1, KeysInOrder
<1>3. Reads!TypeInv'
  BY <1>1, <1>2 DEF Reads!ReadsInv, Reads!TypeInv
<1>4. Reads!StayedInv'
  BY <1>1 DEF Reads!ReadsInv, Reads!StayedInv
<1>5. Reads!CountsInv'
  BY <1>1, <1>2 DEF Reads!ReadsInv, Reads!CountsInv, Reads!Counted, Reads!Paged, Reads!Stored
<1>6. v8 = << >> /\ v7 = 0 /\ Len(v8) = 0
  BY <1>1 DEF Reads!ReadsInv, Reads!ReadInv
<1>7. Reads!PagesInv'
  <2>1. PICK all : all = Reads!Min({Reads!Bound', Reads!Cardinality(Reads!Taken(v1'))})
    OBVIOUS
  <2>2. Reads!Bound' \in Nat
    BY <1>3, BoundAfter
  <2>3. all \in Nat
    BY <1>1, <1>2, <2>1, <2>2, LeastOfTwo
  <2>4. Reads!Min({v7', all}) = 0
    BY <1>1, <1>6, <2>3, LeastOfTwo
  <2>5. Reads!Begins(Reads!Taken(v1))'
    BY <1>1, <1>2, <1>6 DEF Reads!Begins
  <2>6. Len(v8') = 0
    BY <1>1, <1>6
  <2> QED BY <1>1, <2>1, <2>4, <2>5, <2>6 DEF Reads!PagesInv
<1>8. Reads!ReadInv'
  BY <1>1, <1>6 DEF Reads!ReadsInv, Reads!TypeInv, Reads!ReadInv
<1> QED BY <1>3, <1>4, <1>5, <1>7, <1>8 DEF Reads!ReadsInv

LEMMA ListRangesKept ==
  ASSUME Reads!ReadsInv, Reads!ListRanges
  PROVE  Reads!ReadsInv'
<1>1. PICK rows : rows = Reads!Ordered("rows", v1)
  OBVIOUS
<1>2. /\ v4 = "list" /\ v3.report = "ranges" /\ v4' = "done"
      /\ v8' = Reads!Cut(rows, v3.limit)
      /\ UNCHANGED << v1, v2, v3, v5, v6, v7, v9, v10, v11, v12, v13 >>
  BY <1>1 DEF Reads!ListRanges
<1>3. PICK set : set = Reads!Taken(v1)
  OBVIOUS
<1>4. PICK n \in Nat : n = Reads!Cardinality(set)
  <2>1. set \in SUBSET Keys
    BY <1>3 DEF Reads!Taken
  <2> QED BY <2>1, KeysInOrder
<1>5. v1 \in [Keys -> Reads!States]
  BY DEF Reads!ReadsInv, Reads!TypeInv
<1>6. /\ rows \in Seq(Reads!TableRows) /\ Len(rows) = n
      /\ \A i \in 1 .. n :
           /\ rows[i].table = "rows" /\ rows[i].key = Reads!InOrder(set)[i]
           /\ rows[i].key \in set
           /\ rows[i].fit <=> v1[rows[i].key] = "fit"
  BY <1>1, <1>3, <1>4, <1>5, RowsInOrder
<1>7. PICK limit \in Nat : limit = v3.limit
  BY BoundIs DEF Reads!ReadsInv
<1>8. /\ v8' \in Seq(Reads!TableRows)
      /\ Len(v8') = IF limit <= n THEN limit ELSE n
      /\ \A i \in 1 .. Len(v8') : v8'[i] = rows[i]
  BY <1>2, <1>6, <1>7, CutIs
<1>9. Reads!TypeInv'
  BY <1>2, <1>8 DEF Reads!ReadsInv, Reads!TypeInv
<1>10. Reads!StayedInv'
  BY <1>2 DEF Reads!ReadsInv, Reads!StayedInv
<1>11. Reads!CountsInv' /\ Reads!PagesInv'
  BY <1>2 DEF Reads!ReadsInv, Reads!CountsInv, Reads!PagesInv, Reads!Counted, Reads!Paged,
              Reads!Stored
<1>12. \A k \in v10 : v1[k] = "fit"
  BY <1>2 DEF Reads!ReadsInv, Reads!StayedInv
<1>13. Reads!Begins(Reads!Taken(v1))'
  <2>1. Len(v8') <= n /\ \A i \in 1 .. Len(v8') : i \in 1 .. n
    BY <1>8
  <2>2. \A i \in 1 .. Len(v8') :
          /\ v8'[i].table = "rows" /\ v8'[i].key = Reads!InOrder(set)[i]
          /\ (v8'[i].key \in v10) => v8'[i].fit
    BY <1>6, <1>8, <1>12, <2>1
  <2> QED BY <1>2, <1>3, <1>4, <2>1, <2>2 DEF Reads!Begins
<1>14. Len(v8') = Reads!Min({limit, n})
  <2>1. limit \in Int /\ n \in Int
    OBVIOUS
  <2>2. Reads!Min({limit, n}) = IF limit <= n THEN limit ELSE n
    BY ONLY <2>1, LeastOfTwo
  <2> QED BY ONLY <1>8, <2>2
<1>15. Reads!ReadInv'
  BY <1>2, <1>3, <1>4, <1>7, <1>13, <1>14 DEF Reads!ReadInv, Reads!Twofold
<1> QED BY <1>9, <1>10, <1>11, <1>15 DEF Reads!ReadsInv

LEMMA ListAllKept ==
  ASSUME Reads!ReadsInv, Reads!ListAll
  PROVE  Reads!ReadsInv'
<1>1. PICK rows : rows = Reads!Ordered("rows", v1)
  OBVIOUS
<1>2. /\ v4 = "list" /\ v3.report \in {"cards", "inbox", "events"}
      /\ v4' = IF v3.report = "cards" THEN "done" ELSE "second"
      /\ v8' = rows
      /\ UNCHANGED << v1, v2, v3, v5, v6, v7, v9, v10, v11, v12, v13 >>
  BY <1>1 DEF Reads!ListAll
<1>3. PICK set : set = Reads!Taken(v1)
  OBVIOUS
<1>4. set \in SUBSET Keys
  BY <1>3 DEF Reads!Taken
<1>5. PICK n \in Nat : n = Reads!Cardinality(set)
  BY <1>4, KeysInOrder
<1>6. v1 \in [Keys -> Reads!States]
  BY DEF Reads!ReadsInv, Reads!TypeInv
<1>7. /\ rows \in Seq(Reads!TableRows) /\ Len(rows) = n
      /\ \A i \in 1 .. n :
           /\ rows[i].table = "rows" /\ rows[i].key = Reads!InOrder(set)[i]
           /\ rows[i].key \in set
           /\ rows[i].fit <=> v1[rows[i].key] = "fit"
  BY <1>1, <1>3, <1>5, <1>6, RowsInOrder
<1>8. Reads!TypeInv'
  BY <1>2, <1>7 DEF Reads!ReadsInv, Reads!TypeInv
<1>9. Reads!StayedInv'
  BY <1>2 DEF Reads!ReadsInv, Reads!StayedInv
<1>10. Reads!CountsInv' /\ Reads!PagesInv'
  BY <1>2 DEF Reads!ReadsInv, Reads!CountsInv, Reads!PagesInv, Reads!Counted, Reads!Paged
<1>11. v10 \subseteq Keys /\ \A k \in v10 : v1[k] = "fit"
  BY <1>2 DEF Reads!ReadsInv, Reads!StayedInv, Reads!TypeInv
<1>12. Reads!Begins(set)'
  BY <1>2, <1>5, <1>7, <1>11 DEF Reads!Begins
<1>13. v10 \subseteq set
  BY <1>3, <1>11 DEF Reads!Taken
<1>14. Len(v8') = Reads!Cardinality(set)
  BY <1>2, <1>5, <1>7
<1>15. \A i \in 1 .. Len(v8') : v8'[i].fit <=> v1[v8'[i].key] = "fit"
  BY <1>2, <1>7
<1>16. Reads!ReadInv'
  <2>1. CASE v3.report = "cards"
    BY <1>2, <1>3, <1>12, <1>14, <2>1 DEF Reads!ReadInv, Reads!Twofold, Reads!Begins
  <2>2. CASE v3.report \in {"inbox", "events"}
    <3>1. v4' = "second" /\ v3' = v3
      BY <1>2, <2>2
    <3>2. \E s \in SUBSET Keys :
            /\ Reads!Begins(s)' /\ Len(v8') = Reads!Cardinality(s) /\ v10' \subseteq s
            /\ (v13' = 0) =>
                 /\ s = Reads!Taken(v1')
                 /\ \A i \in 1 .. Len(v8') : v8'[i].fit <=> v1'[v8'[i].key] = "fit"
      <4>1. /\ Reads!Begins(set)' /\ Len(v8') = Reads!Cardinality(set) /\ v10' \subseteq set
            /\ set = Reads!Taken(v1')
            /\ \A i \in 1 .. Len(v8') : v8'[i].fit <=> v1'[v8'[i].key] = "fit"
        BY <1>2, <1>3, <1>12, <1>13, <1>14, <1>15
      <4> QED BY <1>4, <4>1
    <3> QED BY <2>2, <3>1, <3>2 DEF Reads!ReadInv, Reads!Twofold, Reads!Paged, Reads!Begins
  <2> QED BY <1>2, <2>1, <2>2
<1> QED BY <1>8, <1>9, <1>10, <1>16 DEF Reads!ReadsInv

LEMMA ListSecondKept ==
  ASSUME Reads!ReadsInv, Reads!ListSecond
  PROVE  Reads!ReadsInv'
<1>1. /\ v4 = "second" /\ v4' = "done" /\ v9' = v2
      /\ UNCHANGED << v1, v2, v3, v5, v6, v7, v8, v10, v11, v12, v13 >>
  BY DEF Reads!ListSecond
<1>2. v3.report \in {"inbox", "events"}
  BY <1>1 DEF Reads!ReadsInv, Reads!TypeInv
<1>3. Reads!TypeInv'
  BY <1>1 DEF Reads!ReadsInv, Reads!TypeInv
<1>4. Reads!StayedInv'
  BY <1>1 DEF Reads!ReadsInv, Reads!StayedInv
<1>5. Reads!CountsInv' /\ Reads!PagesInv'
  BY <1>1, <1>2 DEF Reads!CountsInv, Reads!PagesInv, Reads!Counted, Reads!Paged
<1>6. Reads!ReadInv'
  BY <1>1, <1>2 DEF Reads!ReadsInv, Reads!ReadInv, Reads!Twofold, Reads!Begins
<1> QED BY <1>3, <1>4, <1>5, <1>6 DEF Reads!ReadsInv

\* What was read stays the beginning of the same keys when fewer have stayed.
LEMMA StillBegins ==
  ASSUME NEW set \in SUBSET Keys, Reads!Begins(set), UNCHANGED v8, v10' \subseteq v10
  PROVE  Reads!Begins(set)'
BY DEF Reads!Begins

LEMMA WriteRowKept ==
  ASSUME Reads!ReadsInv, NEW k \in Keys, NEW state \in {"none", "hidden", "odd", "fit"},
         Reads!WriteRow(k, state)
  PROVE  Reads!ReadsInv'
<1>1. /\ v4 \notin {"idle", "done"} /\ v4' = v4
      /\ v1' = [v1 EXCEPT ![k] = state]
      /\ v11' = (v11 \/ (k \in Reads!Taken(v1') /\ k \notin Reads!Taken(v1)))
      /\ v12' = (v12 \/ (k \in Reads!Taken(v1) /\ k \notin Reads!Taken(v1')))
      /\ v10' = v10 \ {k} /\ v13' = v13 + 1
      /\ UNCHANGED << v2, v3, v5, v6, v7, v8, v9 >>
  BY DEF Reads!WriteRow
<1>2. v1 \in [Keys -> Reads!States] /\ v11 \in BOOLEAN /\ v12 \in BOOLEAN /\ v13 \in Nat
  BY DEF Reads!ReadsInv, Reads!TypeInv
<1>3. v1' \in [Keys -> Reads!States] /\ v1'[k] = state /\ \A j \in Keys \ {k} : v1'[j] = v1[j]
  BY <1>1, <1>2 DEF Reads!States
<1>4. PICK before, after : before = Reads!Taken(v1) /\ after = Reads!Taken(v1')
  OBVIOUS
<1>5. /\ before \in SUBSET Keys /\ after \in SUBSET Keys
      /\ \A j \in Keys \ {k} : j \in after <=> j \in before
  BY <1>3, <1>4 DEF Reads!Taken
<1>6. v11' \in BOOLEAN /\ v12' \in BOOLEAN
  BY <1>1
<1>7. /\ ~v11' => ~v11 /\ after \subseteq before
      /\ ~v12' => ~v12 /\ before \subseteq after
  BY <1>1, <1>4, <1>5
<1>8. v13' # 0 /\ v13' \in Nat
  BY <1>1, <1>2
<1>9. Reads!TypeInv'
  BY <1>1, <1>3, <1>6, <1>8 DEF Reads!ReadsInv, Reads!TypeInv
<1>10. Reads!StayedInv'
  <2>1. \A j \in v10' : v1'[j] = "fit" /\ (v3'.report = "inbox" => v2'[j] = "fit")
    BY <1>1, <1>3 DEF Reads!ReadsInv, Reads!StayedInv, Reads!TypeInv
  <2> QED BY <1>1, <1>8, <2>1 DEF Reads!StayedInv
<1>11. Reads!CountsInv'
  <2>1. ~v11' => Reads!Cardinality(after) <= Reads!Cardinality(before)
    BY <1>5, <1>7, FewerKeys
  <2>2. Reads!Cardinality(after) \in Nat /\ Reads!Cardinality(before) \in Nat /\ v6 \in Nat
    BY <1>5, KeysInOrder DEF Reads!ReadsInv, Reads!TypeInv
  <2>3. ~v11' /\ ~v12' => after = before
    BY <1>7
  <2>4. CASE Reads!Counted /\ v4 = "list"
    <3>1. ~v11 => Reads!Cardinality(before) <= v6
      BY <1>4, <2>4 DEF Reads!ReadsInv, Reads!CountsInv
    <3>2. ~v11 /\ ~v12 => v6 = Reads!Cardinality(before)
      BY <1>4, <2>4 DEF Reads!ReadsInv, Reads!CountsInv
    <3>3. ~v11' => Reads!Cardinality(after) <= v6
      BY <1>7, <2>1, <2>2, <3>1
    <3>4. ~v11' /\ ~v12' => v6 = Reads!Cardinality(after)
      BY <1>7, <2>3, <3>2
    <3> QED BY <1>1, <1>4, <1>8, <3>3, <3>4 DEF Reads!CountsInv
  <2>5. CASE ~(Reads!Counted /\ v4 = "list")
    BY <1>1, <1>8, <2>5 DEF Reads!CountsInv, Reads!Counted, Reads!Paged
  <2> QED BY <2>4, <2>5
<1>12. Reads!PagesInv'
  <2>1. SUFFICES ASSUME Reads!Paged', v4' \in {"list", "done"}, ~v11', ~v12'
                 PROVE  LET all == Reads!Min({Reads!Bound', Reads!Cardinality(Reads!Taken(v1'))})
                        IN  /\ Reads!Begins(after)'
                            /\ Len(v8') = IF v4' = "list" THEN Reads!Min({v7', all}) ELSE all
    BY <1>4 DEF Reads!PagesInv, Reads!Begins
  <2>2. after = before /\ ~v11 /\ ~v12
    BY <1>7, <2>1
  <2>3. Reads!Paged /\ v4 \in {"list", "done"} /\ Reads!Bound' = Reads!Bound
    BY <1>1, <2>1 DEF Reads!Paged, Reads!Bound
  <2>4. LET all == Reads!Min({Reads!Bound, Reads!Cardinality(before)})
        IN  /\ Reads!Begins(before)
            /\ Len(v8) = IF v4 = "list" THEN Reads!Min({v7, all}) ELSE all
    BY <1>4, <2>2, <2>3 DEF Reads!ReadsInv, Reads!PagesInv
  <2>5. Reads!Begins(after)'
    BY <1>1, <1>5, <2>2, <2>4, StillBegins
  <2> QED BY <1>1, <1>4, <2>2, <2>3, <2>4, <2>5
<1>13. Reads!ReadInv'
  <2>1. CASE Reads!Twofold /\ v4 = "second"
    <3>1. PICK set \in SUBSET Keys :
            Reads!Begins(set) /\ Len(v8) = Reads!Cardinality(set) /\ v10 \subseteq set
      BY <2>1 DEF Reads!ReadsInv, Reads!ReadInv
    <3>2. Reads!Begins(set)' /\ v10' \subseteq set
      BY <1>1, <3>1, StillBegins
    <3> QED BY <1>1, <1>8, <2>1, <3>1, <3>2 DEF Reads!ReadInv, Reads!Twofold, Reads!Paged, Reads!Begins
  <2>2. CASE v4 # "second"
    BY <1>1, <2>2 DEF Reads!ReadsInv, Reads!ReadInv, Reads!Twofold, Reads!Paged
  <2>3. CASE ~Reads!Twofold /\ v4 = "second"
    BY <2>3 DEF Reads!ReadsInv, Reads!TypeInv, Reads!Twofold
  <2> QED BY <2>1, <2>2, <2>3
<1> QED BY <1>9, <1>10, <1>11, <1>12, <1>13 DEF Reads!ReadsInv

LEMMA WriteSecondKept ==
  ASSUME Reads!ReadsInv, NEW k \in Keys, NEW state \in {"none", "odd", "fit"},
         Reads!WriteSecond(k, state)
  PROVE  Reads!ReadsInv'
<1>1. /\ v4 \notin {"idle", "done"} /\ v3.report \in {"inbox", "events"}
      /\ v2' = [v2 EXCEPT ![k] = state]
      /\ v10' = IF v3.report = "inbox" THEN v10 \ {k} ELSE v10
      /\ v13' = v13 + 1
      /\ UNCHANGED << v1, v3, v4, v5, v6, v7, v8, v9, v11, v12 >>
  BY DEF Reads!WriteSecond
<1>2. v2 \in [Keys -> Reads!States] /\ v13 \in Nat
  BY DEF Reads!ReadsInv, Reads!TypeInv
<1>3. v2' \in [Keys -> Reads!States] /\ \A j \in Keys \ {k} : v2'[j] = v2[j]
  BY <1>1, <1>2 DEF Reads!States
<1>4. v13' # 0 /\ v13' \in Nat
  BY <1>1, <1>2
<1>5. v10' \subseteq v10 /\ (v3.report = "inbox" => k \notin v10')
  BY <1>1
<1>6. Reads!TypeInv'
  BY <1>1, <1>3, <1>4, <1>5 DEF Reads!ReadsInv, Reads!TypeInv
<1>7. Reads!StayedInv'
  <2>1. \A j \in v10' : v1'[j] = "fit" /\ (v3'.report = "inbox" => v2'[j] = "fit")
    BY <1>1, <1>3, <1>5 DEF Reads!ReadsInv, Reads!StayedInv, Reads!TypeInv
  <2> QED BY <1>1, <1>4, <2>1 DEF Reads!StayedInv
<1>8. Reads!CountsInv' /\ Reads!PagesInv'
  BY <1>1 DEF Reads!CountsInv, Reads!PagesInv, Reads!Counted, Reads!Paged
<1>9. Reads!ReadInv'
  <2>1. CASE v4 = "second"
    <3>1. PICK set \in SUBSET Keys :
            Reads!Begins(set) /\ Len(v8) = Reads!Cardinality(set) /\ v10 \subseteq set
      BY <1>1, <2>1 DEF Reads!ReadsInv, Reads!ReadInv, Reads!Twofold
    <3>2. Reads!Begins(set)' /\ v10' \subseteq set
      BY <1>1, <1>5, <3>1, StillBegins
    <3> QED BY <1>1, <1>4, <2>1, <3>1, <3>2 DEF Reads!ReadInv, Reads!Twofold, Reads!Paged, Reads!Begins
  <2>2. CASE v4 # "second"
    BY <1>1, <2>2 DEF Reads!ReadsInv, Reads!ReadInv, Reads!Twofold, Reads!Paged
  <2> QED BY <2>1, <2>2
<1> QED BY <1>6, <1>7, <1>8, <1>9 DEF Reads!ReadsInv

\* One page, after which the pages end or have come that much further.
LEMMA ListPageKept ==
  ASSUME Reads!ReadsInv, Reads!ListPage
  PROVE  Reads!ReadsInv'
<1>1. PICK rows : rows = Reads!Ordered("rows", v1)
  OBVIOUS
<1>2. PICK set : set = Reads!Taken(v1)
  OBVIOUS
<1>3. set \in SUBSET Keys
  BY <1>2 DEF Reads!Taken
<1>4. PICK n \in Nat : n = Reads!Cardinality(set)
  BY <1>3, KeysInOrder
<1>5. v1 \in [Keys -> Reads!States]
  BY DEF Reads!ReadsInv, Reads!TypeInv
<1>6. /\ rows \in Seq(Reads!TableRows) /\ Len(rows) = n
      /\ \A i \in 1 .. n :
           /\ rows[i].table = "rows" /\ rows[i].key = Reads!InOrder(set)[i]
           /\ rows[i].key \in set
           /\ rows[i].fit <=> v1[rows[i].key] = "fit"
  BY <1>1, <1>2, <1>4, <1>5, RowsInOrder
<1>7. PICK bound \in Nat : bound = Reads!Bound
  BY BoundIs DEF Reads!ReadsInv
<1>8. PICK offset \in Nat : offset = v7
  BY DEF Reads!ReadsInv, Reads!TypeInv
<1>9. PICK size \in Nat \ {0} : size = PageSize
  BY ReadsAreBounded
<1>10. PICK most : most = Reads!PageLimit
  OBVIOUS
<1>11. PICK upto : upto = Reads!Min({offset + most, n})
  OBVIOUS
<1>12. PICK page : page = IF offset < bound THEN SubSeq(rows, offset + 1, upto) ELSE << >>
  OBVIOUS
<1>13. /\ v4 = "list" /\ v3.report \in {"leaves", "material"}
       /\ v8' = v8 \o page /\ v7' = offset + size
       /\ v4' = IF page = << >> \/ offset + size >= bound THEN "done" ELSE "list"
       /\ UNCHANGED << v1, v2, v3, v5, v6, v9, v10, v11, v12, v13 >>
  BY <1>1, <1>2, <1>4, <1>7, <1>8, <1>9, <1>10, <1>11, <1>12 DEF Reads!ListPage, Reads!NextOffset
<1>14. offset < bound =>
         /\ most \in Nat \ {0}
         /\ most = IF v3.report = "material"
                   THEN (IF size <= bound - offset THEN size ELSE bound - offset) ELSE size
  <2>1. SUFFICES ASSUME offset < bound
                 PROVE  /\ most \in Nat \ {0}
                        /\ most = IF v3.report = "material"
                                  THEN (IF size <= bound - offset THEN size ELSE bound - offset)
                                  ELSE size
    OBVIOUS
  <2>2. bound - offset \in Nat \ {0}
    BY <2>1
  <2>3. Reads!Min({size, bound - offset}) = IF size <= bound - offset THEN size ELSE bound - offset
    BY <2>2, LeastOfTwo
  <2>4. most = IF v3.report = "material" THEN Reads!Min({size, bound - offset}) ELSE size
    BY <1>7, <1>8, <1>9, <1>10, Zenon DEF Reads!PageLimit
  <2> QED BY <2>2, <2>3, <2>4
<1>15. offset < bound => upto = IF offset + most <= n THEN offset + most ELSE n
  BY <1>11, <1>14, LeastOfTwo
<1>16. offset < bound =>
         /\ page \in Seq(Reads!TableRows)
         /\ Len(page) = IF offset + 1 <= upto THEN upto - (offset + 1) + 1 ELSE 0
         /\ \A i \in 1 .. upto - (offset + 1) + 1 : page[i] = rows[offset + 1 + i - 1]
  <2>1. SUFFICES ASSUME offset < bound
                 PROVE  /\ page \in Seq(Reads!TableRows)
                        /\ Len(page) = IF offset + 1 <= upto THEN upto - (offset + 1) + 1 ELSE 0
                        /\ \A i \in 1 .. upto - (offset + 1) + 1 : page[i] = rows[offset + 1 + i - 1]
    OBVIOUS
  <2>2. page = SubSeq(rows, offset + 1, upto)
    BY <1>12, <2>1
  <2>3. upto \in Nat /\ upto <= n /\ offset + 1 \in Int
    BY <1>14, <1>15, <2>1
  <2>4. PICK from \in Int : from = offset + 1
    BY <2>3
  <2>5. \A i \in from .. upto : i \in 1 .. Len(rows)
    BY <1>6, <2>3, <2>4
  <2>6. \A i \in from .. upto : rows[i] \in Reads!TableRows
    BY <1>6, <2>5
  <2>7. /\ SubSeq(rows, from, upto) \in Seq(Reads!TableRows)
        /\ Len(SubSeq(rows, from, upto)) = IF from <= upto THEN upto - from + 1 ELSE 0
        /\ \A i \in 1 .. upto - from + 1 : SubSeq(rows, from, upto)[i] = rows[from + i - 1]
    BY <2>3, <2>6, SubSeqProperties
  <2> QED BY <2>2, <2>4, <2>7
<1>17. page \in Seq(Reads!TableRows) /\ Len(page) \in Nat /\ (page = << >> <=> Len(page) = 0)
  <2>1. CASE offset < bound
    <3>1. page \in Seq(Reads!TableRows)
      BY <1>16, <2>1
    <3> QED BY <3>1, EmptySeq
  <2>2. CASE ~(offset < bound)
    <3>1. page = << >>
      BY <1>12, <2>2
    <3> QED BY <3>1
  <2> QED BY <2>1, <2>2
<1>18. v8 \in Seq(Reads!TableRows)
  BY DEF Reads!ReadsInv, Reads!TypeInv
<1>19. /\ v8' \in Seq(Reads!TableRows) /\ Len(v8') = Len(v8) + Len(page)
       /\ \A i \in 1 .. Len(v8') : v8'[i] = IF i <= Len(v8) THEN v8[i] ELSE page[i - Len(v8)]
  BY <1>13, <1>17, <1>18, ConcatProperties
<1>20. Reads!TypeInv'
  <2>1. v7' \in Nat /\ v4' \in {"list", "done"}
    BY <1>13
  <2> QED BY <1>13, <1>19, <2>1 DEF Reads!ReadsInv, Reads!TypeInv
<1>21. Reads!StayedInv'
  BY <1>13 DEF Reads!ReadsInv, Reads!StayedInv
<1>22. Reads!CountsInv'
  BY <1>13 DEF Reads!ReadsInv, Reads!CountsInv, Reads!Counted, Reads!Paged, Reads!Stored
<1>23. Reads!ReadInv'
  BY <1>13 DEF Reads!ReadInv, Reads!Paged, Reads!Twofold
<1>24. ASSUME ~v11, ~v12
       PROVE  LET all == Reads!Min({bound, n})
              IN  /\ Reads!Begins(set)'
                  /\ Len(v8') = IF v4' = "list" THEN Reads!Min({v7', all}) ELSE all
  <2>1. /\ Reads!Begins(set)
        /\ Len(v8) = Reads!Min({offset, Reads!Min({bound, n})})
        /\ Reads!Counted /\ n = v6
    BY <1>2, <1>4, <1>7, <1>8, <1>13, <1>24
    DEF Reads!ReadsInv, Reads!PagesInv, Reads!CountsInv, Reads!Paged, Reads!Counted
  <2>2. v3.report = "leaves" => bound = n
    BY <1>7, <2>1 DEF Reads!Bound
  <2>3. PICK all \in Nat : all = Reads!Min({bound, n}) /\ all = IF bound <= n THEN bound ELSE n
    BY LeastOfTwo
  <2>4. PICK len \in Nat : len = Len(v8) /\ len = IF offset <= all THEN offset ELSE all
    BY <2>1, <2>3, LeastOfTwo
  <2>5. PICK next \in Nat : next = v7' /\ next = offset + size
    BY <1>13
  <2>6. Reads!Min({v7', all}) = IF next <= all THEN next ELSE all
    BY <2>3, <2>5, LeastOfTwo
  <2>7. CASE offset < bound /\ offset < n
    <3>1. len = offset /\ upto \in Nat /\ offset + 1 <= upto /\ upto <= n
      BY <1>14, <1>15, <2>3, <2>4, <2>7
    <3>2. Len(page) = upto - offset /\ page # << >>
      BY <1>16, <1>17, <2>7, <3>1
    <3>3. Len(v8') = upto
      BY <1>19, <2>4, <3>1, <3>2
    <3>4. upto = IF next <= all THEN next ELSE all
      BY <1>13, <1>14, <1>15, <2>2, <2>3, <2>5, <2>7
    <3>5. Len(v8') = IF v4' = "list" THEN Reads!Min({v7', all}) ELSE all
      <4>1. v4' = "list" \/ next >= bound
        BY <1>13, <2>5, <3>2
      <4> QED BY <2>3, <2>5, <2>6, <3>3, <3>4, <4>1
    <3>6. \A i \in 1 .. Len(v8') :
            /\ v8'[i].table = "rows" /\ v8'[i].key = Reads!InOrder(set)[i]
            /\ (v8'[i].key \in v10) => v8'[i].fit
      <4> TAKE i \in 1 .. Len(v8')
      <4>1. i \in 1 .. upto
        BY <3>3
      <4>2. CASE i <= offset
        <5>1. Len(v8) = offset /\ i \in Nat /\ i >= 1
          BY <2>4, <3>1, <4>1
        <5>2. v8'[i] = v8[i] /\ i \in 1 .. Len(v8)
          BY <1>19, <4>2, <5>1
        <5> QED BY <2>1, <5>2 DEF Reads!Begins
      <4>3. CASE ~(i <= offset)
        <5>1. v8'[i] = page[i - offset]
          BY <1>19, <2>4, <3>1, <4>3
        <5>2. PICK j \in 1 .. upto - (offset + 1) + 1 : j = i - offset
          BY <3>1, <4>1, <4>3
        <5>3. page[j] = rows[offset + 1 + j - 1] /\ offset + 1 + j - 1 = i
          BY <1>16, <2>7, <4>1, <5>2
        <5>4. v8'[i] = rows[i] /\ i \in 1 .. n
          BY <3>1, <4>1, <5>1, <5>2, <5>3
        <5>5. \A k \in v10 : v1[k] = "fit"
          BY <1>13 DEF Reads!ReadsInv, Reads!StayedInv
        <5> QED BY <1>6, <5>4, <5>5
      <4> QED BY <4>2, <4>3
    <3>7. Reads!Begins(set)'
      BY <1>4, <1>13, <3>1, <3>3, <3>6 DEF Reads!Begins
    <3> QED BY <2>3, <3>5, <3>7
  <2>8. CASE ~(offset < bound /\ offset < n)
    <3>1. page = << >>
      <4>1. CASE offset < bound
        <5>1. upto = n /\ ~(offset + 1 <= upto)
          BY <1>14, <1>15, <2>8, <4>1
        <5>2. Len(page) = 0
          BY <1>16, <4>1, <5>1
        <5> QED BY <1>17, <5>2
      <4>2. CASE ~(offset < bound)
        BY <1>12, <4>2
      <4> QED BY <4>1, <4>2
    <3>2. v8' = v8 /\ v4' = "done"
      BY <1>13, <1>18, <3>1, ConcatEmptySeq
    <3>3. len = all
      BY <2>3, <2>4, <2>8
    <3>4. Reads!Begins(set)'
      BY <1>3, <1>13, <2>1, <3>2, StillBegins
    <3> QED BY <2>3, <2>4, <3>2, <3>3, <3>4
  <2> QED BY <2>7, <2>8
<1>25. Reads!PagesInv'
  <2>1. Reads!Bound' = bound
    BY <1>7, <1>13 DEF Reads!Bound
  <2> QED BY <1>2, <1>4, <1>13, <1>24, <2>1 DEF Reads!PagesInv, Reads!Begins
<1> QED BY <1>20, <1>21, <1>22, <1>23, <1>25 DEF Reads!ReadsInv

LEMMA ReadsKept ==
  ASSUME Reads!ReadsInv, Reads!Next \/ UNCHANGED Reads!vars
  PROVE  Reads!ReadsInv'
<1>1. CASE UNCHANGED Reads!vars
  <2>1. UNCHANGED << v1, v2, v3, v4, v5, v6, v7, v8, v9, v10, v11, v12, v13 >>
    BY <1>1 DEF Reads!vars
  <2>2. Reads!TypeInv' /\ Reads!StayedInv'
    BY <2>1 DEF Reads!ReadsInv, Reads!TypeInv, Reads!StayedInv
  <2>3. Reads!CountsInv' /\ Reads!PagesInv'
    BY <2>1 DEF Reads!ReadsInv, Reads!CountsInv, Reads!PagesInv, Reads!Counted, Reads!Paged,
                Reads!Stored, Reads!Begins, Reads!Bound
  <2>4. Reads!ReadInv'
    BY <2>1 DEF Reads!ReadsInv, Reads!ReadInv, Reads!Paged, Reads!Twofold, Reads!Begins
  <2> QED BY <2>2, <2>3, <2>4 DEF Reads!ReadsInv
<1>2. CASE \E report \in Reads!Reports, limit \in Limits : Reads!Begin(report, limit)
  BY <1>2, BeginKept
<1>3. CASE Reads!CountRaw
  BY <1>3, CountRawKept
<1>4. CASE Reads!CountSafe
  BY <1>4, CountSafeKept
<1>5. CASE Reads!ListRanges
  BY <1>5, ListRangesKept
<1>6. CASE Reads!ListPage
  BY <1>6, ListPageKept
<1>7. CASE Reads!ListAll
  BY <1>7, ListAllKept
<1>8. CASE Reads!ListSecond
  BY <1>8, ListSecondKept
<1>9. CASE \E k \in Keys, state \in {"none", "hidden", "odd", "fit"} : Reads!WriteRow(k, state)
  BY <1>9, WriteRowKept
<1>10. CASE \E k \in Keys, state \in {"none", "odd", "fit"} : Reads!WriteSecond(k, state)
  BY <1>10, WriteSecondKept
<1> QED BY <1>1, <1>2, <1>3, <1>4, <1>5, <1>6, <1>7, <1>8, <1>9, <1>10 DEF Reads!Next

\* Those that may be told are some of what was read, each as often.
LEMMA FitsAre ==
  ASSUME NEW s \in Seq(Reads!TableRows)
  PROVE  LET fits == Reads!Fits(s)
         IN  /\ fits \in Seq(Reads!TableRows) /\ Len(fits) \in 0 .. Len(s)
             /\ \A n \in 1 .. Len(fits) : \E i \in 1 .. Len(s) : fits[n] = s[i] /\ s[i].fit
             /\ \A i \in 1 .. Len(s) : s[i].fit => \E n \in 1 .. Len(fits) : fits[n] = s[i]
             /\ NoneTwice(s) => NoneTwice(fits)
<1>1. PICK places : places = {i \in 1 .. Len(s) : s[i].fit}
  OBVIOUS
<1>2. places \in SUBSET (1 .. Len(s))
  BY <1>1
<1>3. PICK fits : fits = Reads!Select(s, places)
  OBVIOUS
<1>4. Reads!Fits(s) = fits
  BY <1>1, <1>3, Zenon DEF Reads!Fits
<1>5. fits \in Seq(Reads!TableRows) /\ Len(fits) \in 0 .. Len(s)
  BY <1>2, <1>3, Selected
<1>6. Gathers(fits, s, places)
  BY <1>2, <1>3, Selected
<1>7. /\ \A n \in 1 .. Len(fits) : \E i \in places : fits[n] = s[i]
      /\ \A i \in places : \E n \in 1 .. Len(fits) : fits[n] = s[i]
      /\ NoneTwice(s) => NoneTwice(fits)
  BY <1>6 DEF Gathers
<1> QED BY <1>1, <1>4, <1>5, <1>7

\* Cut off at a limit, a sequence has all its rows or fewer of them.
LEMMA CutTells ==
  ASSUME NEW s \in Seq(Reads!TableRows), NEW n \in Nat
  PROVE  LET cut == Reads!Cut(s, n)
         IN  /\ cut \in Seq(Reads!TableRows) /\ Len(cut) \in 0 .. Len(s)
             /\ \A i \in 1 .. Len(cut) : cut[i] = s[i]
             /\ NoneTwice(s) => NoneTwice(cut)
             /\ Len(s) - Len(cut) > 0 \/ Reads!RowsIn(s) \subseteq Reads!RowsIn(cut)
<1>1. PICK cut : cut = Reads!Cut(s, n)
  OBVIOUS
<1>2. /\ cut \in Seq(Reads!TableRows)
      /\ Len(cut) = IF n <= Len(s) THEN n ELSE Len(s)
      /\ \A i \in 1 .. Len(cut) : cut[i] = s[i]
  BY <1>1, CutIs
<1>3. Len(s) \in Nat /\ Len(cut) \in 0 .. Len(s)
  BY <1>2
<1>4. NoneTwice(s) => NoneTwice(cut)
  BY <1>2, <1>3 DEF NoneTwice
<1>5. ASSUME ~(Len(s) - Len(cut) > 0)
      PROVE  Reads!RowsIn(s) \subseteq Reads!RowsIn(cut)
  <2>1. Len(cut) = Len(s)
    BY <1>3, <1>5
  <2> QED BY <1>2, <2>1 DEF Reads!RowsIn
<1> QED BY <1>1, <1>2, <1>3, <1>4, <1>5

\* What was read has no row twice; and when it has all, what stayed is told.
LEMMA ReadOnce ==
  ASSUME Reads!TypeInv, NEW set \in SUBSET Keys, Reads!Begins(set)
  PROVE  NoneTwice(v8)
<1>1. PICK n \in Nat : n = Cardinality(set) /\ n = Reads!Cardinality(set)
  BY KeysInOrder
<1>2. Len(v8) \in Nat /\ Len(v8) <= n
  BY <1>1 DEF Reads!TypeInv, Reads!Begins
<1>3. SUFFICES ASSUME NEW i \in 1 .. Len(v8), NEW j \in 1 .. Len(v8), v8[i] = v8[j]
               PROVE  i = j
  BY DEF NoneTwice
<1>4. Reads!InOrder(set)[i] = Reads!InOrder(set)[j]
  BY <1>3 DEF Reads!Begins
<1>5. i \in 1 .. n /\ j \in 1 .. n
  BY <1>2
<1> QED BY <1>1, <1>4, <1>5, KeysApart

LEMMA StayedTold ==
  ASSUME Reads!TypeInv, NEW set \in SUBSET Keys, Reads!Begins(set),
         Len(v8) = Reads!Cardinality(set), v10 \subseteq set
  PROVE  /\ \A k \in v10 : \E i \in 1 .. Len(v8) : v8[i].key = k /\ v8[i].fit
         /\ v10 \subseteq Reads!RowsIn(Reads!Fits(v8))
<1>1. PICK n \in Nat : n = Cardinality(set) /\ n = Reads!Cardinality(set)
  BY KeysInOrder
<1>2. Len(v8) = n /\ v8 \in Seq(Reads!TableRows)
  BY <1>1 DEF Reads!TypeInv
<1>3. ASSUME NEW k \in v10
      PROVE  \E i \in 1 .. Len(v8) : v8[i].table = "rows" /\ v8[i].key = k /\ v8[i].fit
  <2>1. PICK i \in 1 .. n : Reads!InOrder(set)[i] = k
    BY <1>1, KeysInOrder
  <2>2. v8[i].table = "rows" /\ v8[i].key = k /\ v8[i].fit
    BY <1>2, <2>1 DEF Reads!Begins
  <2> QED BY <1>2, <2>2
<1>4. PICK fits : fits = Reads!Fits(v8)
  OBVIOUS
<1>5. \A i \in 1 .. Len(v8) : v8[i].fit => \E m \in 1 .. Len(fits) : fits[m] = v8[i]
  BY <1>2, <1>4, FitsAre
<1>6. \A k \in v10 : k \in Reads!RowsIn(fits)
  <2> TAKE k \in v10
  <2>1. PICK i \in 1 .. Len(v8) : v8[i].table = "rows" /\ v8[i].key = k /\ v8[i].fit
    BY <1>3
  <2>2. PICK m \in 1 .. Len(fits) : fits[m] = v8[i]
    BY <1>5, <2>1
  <2> QED BY <2>1, <2>2 DEF Reads!RowsIn
<1> QED BY <1>3, <1>4, <1>6

\* Two numbers of which one is at least none: the greater of it and none.
LEMMA AtLeastNone ==
  ASSUME NEW a \in Int
  PROVE  Reads!Max({0, a}) = IF 0 <= a THEN a ELSE 0
BY LeastOfTwo

\* The rows that stay are of those taken, and the stored are no fewer than those.
LEMMA TakenAre ==
  ASSUME Reads!ReadsInv, v4 = "done"
  PROVE  /\ Reads!Taken(v1) \in SUBSET Keys /\ v10 \subseteq Reads!Taken(v1)
         /\ Reads!Cardinality(Reads!Taken(v1)) \in Nat /\ Reads!Cardinality(Reads!Stored) \in Nat
         /\ Reads!Cardinality(Reads!Taken(v1)) <= Reads!Cardinality(Reads!Stored)
<1>1. v10 \subseteq Reads!Taken(v1)
  BY DEF Reads!ReadsInv, Reads!TypeInv, Reads!StayedInv, Reads!Taken
<1>2. PICK stored, taken : stored = Reads!Stored /\ taken = Reads!Taken(v1)
  OBVIOUS
<1>3. stored \in SUBSET Keys /\ taken \in SUBSET stored /\ taken \in SUBSET Keys
  BY <1>2 DEF Reads!Stored, Reads!Taken
<1>4. Reads!Cardinality(taken) <= Reads!Cardinality(stored)
  BY <1>3, FewerKeys
<1>5. Reads!Cardinality(taken) \in Nat /\ Reads!Cardinality(stored) \in Nat
  BY <1>3, KeysInOrder
<1> QED BY <1>1, <1>2, <1>3, <1>4, <1>5

\* What is to hold of a report at its end.
Accounted(said) ==
  /\ v10 \subseteq Reads!RowsIn(said.shown) \/ said.limited > 0
  /\ Reads!IsInjective(said.shown)
  /\ (v13 = 0) => Len(said.shown) + said.limited + said.filtered = said.all

LEMMA OnceIsInjective ==
  ASSUME NEW s \in Seq(Reads!TableRows), NoneTwice(s)
  PROVE  Reads!IsInjective(s)
<1>1. DOMAIN s = 1 .. Len(s)
  OBVIOUS
<1> QED BY <1>1 DEF NoneTwice, Reads!IsInjective

LEMMA RangesTold ==
  ASSUME Reads!ReadsInv, v4 = "done", v3.report = "ranges", ~v11
  PROVE  Accounted(Reads!RangesReport)
<1>1. PICK set \in SUBSET Keys : set = Reads!Taken(v1) /\ v10 \subseteq set
  BY TakenAre
<1>2. PICK n \in Nat, all \in Nat :
        n = Reads!Cardinality(set) /\ all = Reads!Cardinality(Reads!Stored) /\ n <= all
  BY <1>1, TakenAre
<1>3. Reads!TypeInv /\ v5 \in Nat /\ v6 \in Nat /\ v8 \in Seq(Reads!TableRows) /\ Len(v8) \in Nat
  BY DEF Reads!ReadsInv, Reads!TypeInv
<1>4. PICK limit \in Nat : limit = v3.limit
  BY <1>3, BoundIs
<1>5. Reads!Begins(set) /\ Len(v8) = IF limit <= n THEN limit ELSE n
  BY <1>1, <1>2, <1>4, LeastOfTwo DEF Reads!ReadsInv, Reads!ReadInv
<1>6. /\ n <= v6
      /\ v13 = 0 => v5 = all /\ v6 = n
  BY <1>1, <1>2 DEF Reads!ReadsInv, Reads!CountsInv, Reads!StayedInv, Reads!Counted
<1>7. PICK fits \in Seq(Reads!TableRows) : fits = Reads!Fits(v8)
  BY <1>3, FitsAre
<1>8. Len(fits) \in 0 .. Len(v8) /\ NoneTwice(fits)
  BY <1>1, <1>3, <1>5, <1>7, FitsAre, ReadOnce
<1>9. PICK limited \in Int : limited = v6 - Len(v8)
  <2>1. PICK len \in Nat : len = Len(v8)
    BY <1>3
  <2>2. v6 - len \in Int
    BY <1>3
  <2> QED BY <2>1, <2>2
<1>10. PICK counted \in Int : counted = v5 - v6
  BY <1>3
<1>11. PICK said : said = Reads!RangesReport
  OBVIOUS
<1>12. /\ said.shown = fits
       /\ said.limited = IF 0 <= limited THEN limited ELSE 0
       /\ said.filtered = (IF 0 <= counted THEN counted ELSE 0) + (Len(v8) - Len(fits))
       /\ said.all = all
  <2>1. said = [shown |-> fits, limited |-> Reads!Max({0, limited}),
                filtered |-> Reads!Max({0, counted}) + (Len(v8) - Len(fits)), all |-> all]
    BY <1>2, <1>7, <1>9, <1>10, <1>11, Zenon DEF Reads!RangesReport, Reads!Odd
  <2>2. Reads!Max({0, limited}) = IF 0 <= limited THEN limited ELSE 0
    BY AtLeastNone
  <2>3. Reads!Max({0, counted}) = IF 0 <= counted THEN counted ELSE 0
    BY AtLeastNone
  <2> QED BY <2>1, <2>2, <2>3
<1>13. v10 \subseteq Reads!RowsIn(fits) \/ said.limited > 0
  <2>1. SUFFICES ASSUME ~(limited > 0)
                 PROVE  v10 \subseteq Reads!RowsIn(fits)
    BY <1>12
  <2>2. PICK len \in Nat : len = Len(v8)
    BY <1>3
  <2>3. len = IF limit <= n THEN limit ELSE n
    BY <1>5, <2>2
  <2>4. ~(v6 - len > 0) /\ n <= v6
    BY <1>6, <1>9, <2>1, <2>2
  <2>5. len = n
    BY <1>3, <2>3, <2>4
  <2> QED BY <1>1, <1>2, <1>3, <1>5, <1>7, <2>2, <2>5, StayedTold
<1>14. v13 = 0 => Len(fits) + said.limited + said.filtered = said.all
  <2>1. SUFFICES ASSUME v13 = 0
                 PROVE  Len(fits) + said.limited + said.filtered = all
    BY <1>12
  <2>2. counted = all - n /\ limited = n - Len(v8) /\ 0 <= counted /\ 0 <= limited
    BY <1>2, <1>3, <1>5, <1>6, <1>9, <1>10, <2>1
  <2>3. said.limited = n - Len(v8) /\ said.filtered = (all - n) + (Len(v8) - Len(fits))
    BY <1>12, <2>2
  <2> QED BY <1>3, <1>8, <2>3
<1>15. Reads!IsInjective(fits)
  BY <1>8, OnceIsInjective
<1> QED BY <1>11, <1>12, <1>13, <1>14, <1>15 DEF Accounted

\* The pages have taken all that there is up to the bound.
LEMMA PagesAre ==
  ASSUME Reads!ReadsInv, v4 = "done", Reads!Paged, ~v11, ~v12
  PROVE  \E set \in SUBSET Keys :
           /\ set = Reads!Taken(v1) /\ v10 \subseteq set /\ Reads!Begins(set)
           /\ v6 = Reads!Cardinality(set) /\ v6 \in Nat
           /\ Len(v8) = IF Reads!Bound <= v6 THEN Reads!Bound ELSE v6
           /\ Reads!Cardinality(Reads!Stored) \in Nat
           /\ v6 <= Reads!Cardinality(Reads!Stored)
           /\ v13 = 0 => v5 = Reads!Cardinality(Reads!Stored)
<1>1. PICK set \in SUBSET Keys : set = Reads!Taken(v1) /\ v10 \subseteq set
  BY TakenAre
<1>2. /\ v6 = Reads!Cardinality(set) /\ v6 \in Nat
      /\ v13 = 0 => v5 = Reads!Cardinality(Reads!Stored)
  BY <1>1, TakenAre DEF Reads!ReadsInv, Reads!CountsInv, Reads!Counted
<1>3. Reads!Bound \in Nat
  BY BoundIs DEF Reads!ReadsInv
<1>4. Reads!Begins(set) /\ Len(v8) = Reads!Min({Reads!Bound, v6})
  BY <1>1, <1>2 DEF Reads!ReadsInv, Reads!PagesInv
<1>5. Len(v8) = IF Reads!Bound <= v6 THEN Reads!Bound ELSE v6
  BY <1>2, <1>3, <1>4, LeastOfTwo
<1>6. Reads!Cardinality(Reads!Stored) \in Nat /\ v6 <= Reads!Cardinality(Reads!Stored)
  BY <1>1, <1>2, TakenAre
<1> QED BY <1>1, <1>2, <1>4, <1>5, <1>6

LEMMA LeavesTold ==
  ASSUME Reads!ReadsInv, v4 = "done", v3.report = "leaves", ~v11, ~v12
  PROVE  Accounted(Reads!LeavesReport)
<1>1. PICK set \in SUBSET Keys :
        /\ v10 \subseteq set /\ Reads!Begins(set)
        /\ v6 = Reads!Cardinality(set) /\ v6 \in Nat
        /\ Len(v8) = IF Reads!Bound <= v6 THEN Reads!Bound ELSE v6
        /\ Reads!Cardinality(Reads!Stored) \in Nat
        /\ v6 <= Reads!Cardinality(Reads!Stored)
        /\ v13 = 0 => v5 = Reads!Cardinality(Reads!Stored)
  BY PagesAre DEF Reads!Paged
<1>2. Len(v8) = v6
  BY <1>1 DEF Reads!Bound
<1>3. Reads!TypeInv /\ v5 \in Nat /\ v8 \in Seq(Reads!TableRows) /\ Len(v8) \in Nat
  BY DEF Reads!ReadsInv, Reads!TypeInv
<1>4. PICK limit \in Nat : limit = v3.limit
  BY <1>3, BoundIs
<1>5. PICK fits \in Seq(Reads!TableRows) : fits = Reads!Fits(v8)
  BY <1>3, FitsAre
<1>6. Len(fits) \in 0 .. Len(v8) /\ NoneTwice(fits)
  BY <1>1, <1>3, <1>5, FitsAre, ReadOnce
<1>7. PICK cut \in Seq(Reads!TableRows) : cut = Reads!Cut(fits, limit)
  BY CutTells
<1>8. /\ Len(cut) \in 0 .. Len(fits) /\ NoneTwice(cut)
      /\ Len(fits) - Len(cut) > 0 \/ Reads!RowsIn(fits) \subseteq Reads!RowsIn(cut)
  BY <1>6, <1>7, CutTells
<1>9. v10 \subseteq Reads!RowsIn(fits)
  BY <1>1, <1>2, <1>3, <1>5, StayedTold
<1>10. PICK counted \in Int : counted = v5 - v6
  BY <1>1, <1>3
<1>11. PICK said : said = Reads!LeavesReport
  OBVIOUS
<1>12. /\ said.shown = cut /\ said.limited = Len(fits) - Len(cut)
       /\ said.filtered = (IF 0 <= counted THEN counted ELSE 0) + (Len(v8) - Len(fits))
       /\ said.all = Reads!Cardinality(Reads!Stored)
  <2>1. said = [shown |-> cut, limited |-> Len(fits) - Len(cut),
                filtered |-> Reads!Max({0, counted}) + (Len(v8) - Len(fits)),
                all |-> Reads!Cardinality(Reads!Stored)]
    BY <1>4, <1>5, <1>7, <1>10, <1>11, Zenon DEF Reads!LeavesReport, Reads!Odd
  <2>2. Reads!Max({0, counted}) = IF 0 <= counted THEN counted ELSE 0
    BY AtLeastNone
  <2> QED BY <2>1, <2>2
<1>13. v10 \subseteq Reads!RowsIn(cut) \/ said.limited > 0
  BY <1>8, <1>9, <1>12
<1>14. v13 = 0 => Len(cut) + said.limited + said.filtered = said.all
  BY <1>1, <1>2, <1>3, <1>6, <1>8, <1>10, <1>12
<1>15. Reads!IsInjective(cut)
  BY <1>8, OnceIsInjective
<1> QED BY <1>11, <1>12, <1>13, <1>14, <1>15 DEF Accounted

LEMMA MaterialTold ==
  ASSUME Reads!ReadsInv, v4 = "done", v3.report = "material", ~v11, ~v12
  PROVE  Accounted(Reads!MaterialReport)
<1>1. PICK set \in SUBSET Keys :
        /\ v10 \subseteq set /\ Reads!Begins(set)
        /\ v6 = Reads!Cardinality(set) /\ v6 \in Nat
        /\ Len(v8) = IF Reads!Bound <= v6 THEN Reads!Bound ELSE v6
        /\ Reads!Cardinality(Reads!Stored) \in Nat
        /\ v6 <= Reads!Cardinality(Reads!Stored)
        /\ v13 = 0 => v5 = Reads!Cardinality(Reads!Stored)
  BY PagesAre DEF Reads!Paged
<1>2. PICK bound \in Nat : bound = Reads!Bound
  BY BoundIs DEF Reads!ReadsInv
<1>3. Reads!TypeInv /\ v5 \in Nat /\ v8 \in Seq(Reads!TableRows) /\ Len(v8) \in Nat
  BY DEF Reads!ReadsInv, Reads!TypeInv
<1>4. PICK fits \in Seq(Reads!TableRows) : fits = Reads!Fits(v8)
  BY <1>3, FitsAre
<1>5. Len(fits) \in 0 .. Len(v8) /\ NoneTwice(fits)
  BY <1>1, <1>3, <1>4, FitsAre, ReadOnce
<1>6. PICK limited \in Int : limited = v6 - bound
  BY <1>1
<1>7. PICK counted \in Int : counted = v5 - v6
  BY <1>1, <1>3
<1>8. PICK said : said = Reads!MaterialReport
  OBVIOUS
<1>9. /\ said.shown = fits
      /\ said.limited = IF 0 <= limited THEN limited ELSE 0
      /\ said.filtered = (IF 0 <= counted THEN counted ELSE 0) + (Len(v8) - Len(fits))
      /\ said.all = Reads!Cardinality(Reads!Stored)
  <2>1. said = [shown |-> fits, limited |-> Reads!Max({0, limited}),
                filtered |-> Reads!Max({0, counted}) + (Len(v8) - Len(fits)),
                all |-> Reads!Cardinality(Reads!Stored)]
    BY <1>2, <1>4, <1>6, <1>7, <1>8, Zenon DEF Reads!MaterialReport, Reads!Odd
  <2>2. Reads!Max({0, limited}) = IF 0 <= limited THEN limited ELSE 0
    BY AtLeastNone
  <2>3. Reads!Max({0, counted}) = IF 0 <= counted THEN counted ELSE 0
    BY AtLeastNone
  <2> QED BY <2>1, <2>2, <2>3
<1>10. v10 \subseteq Reads!RowsIn(fits) \/ said.limited > 0
  <2>1. SUFFICES ASSUME ~(limited > 0)
                 PROVE  v10 \subseteq Reads!RowsIn(fits)
    BY <1>9
  <2>2. Len(v8) = Reads!Cardinality(set)
    BY <1>1, <1>2, <1>6, <2>1
  <2> QED BY <1>1, <1>3, <1>4, <2>2, StayedTold
<1>11. v13 = 0 => Len(fits) + said.limited + said.filtered = said.all
  <2>1. SUFFICES ASSUME v13 = 0
                 PROVE  Len(fits) + said.limited + said.filtered = said.all
    OBVIOUS
  <2>2. PICK len \in Nat, some \in Nat, all \in Nat :
          len = Len(v8) /\ some = Len(fits) /\ all = Reads!Cardinality(Reads!Stored)
    BY <1>1, <1>3, <1>5
  <2>3. len = (IF bound <= v6 THEN bound ELSE v6) /\ v6 <= all /\ v5 = all
    BY <1>1, <1>2, <2>1, <2>2
  <2>4. said.limited = v6 - len
    BY <1>1, <1>6, <1>9, <2>3
  <2>5. said.filtered = (all - v6) + (len - some) /\ said.all = all
    BY <1>1, <1>7, <1>9, <2>2, <2>3
  <2> QED BY <1>1, <2>2, <2>4, <2>5
<1>12. Reads!IsInjective(fits)
  BY <1>5, OnceIsInjective
<1> QED BY <1>8, <1>9, <1>10, <1>11, <1>12 DEF Accounted

\* The first n that are fit of rows that were all read, and how many are left out.
LEMMA CardsAre ==
  ASSUME Reads!TypeInv, NEW set \in SUBSET Keys, Reads!Begins(set),
         Len(v8) = Reads!Cardinality(set), v10 \subseteq set
  PROVE  LET said == Reads!CardsReport
         IN  /\ said.shown \in Seq(Reads!TableRows) /\ NoneTwice(said.shown)
             /\ \A i \in 1 .. Len(said.shown) : said.shown[i].table = "rows"
             /\ Len(said.shown) \in Nat /\ said.limited \in Nat /\ said.filtered \in Nat
             /\ v10 \subseteq Reads!RowsIn(said.shown) \/ said.limited > 0
             /\ Len(said.shown) + said.limited + said.filtered = Len(v8)
             /\ said.all = Reads!Cardinality(Reads!Taken(v1))
<1>1. v8 \in Seq(Reads!TableRows) /\ NoneTwice(v8)
  BY ReadOnce DEF Reads!TypeInv
<1>2. PICK limit \in Nat : limit = v3.limit
  BY BoundIs
<1>3. PICK fits \in Seq(Reads!TableRows) : fits = Reads!Fits(v8)
  BY <1>1, FitsAre
<1>4. /\ Len(fits) \in 0 .. Len(v8) /\ NoneTwice(fits)
      /\ \A n \in 1 .. Len(fits) : \E i \in 1 .. Len(v8) : fits[n] = v8[i] /\ v8[i].fit
  BY <1>1, <1>3, FitsAre
<1>5. PICK cut \in Seq(Reads!TableRows) : cut = Reads!Cut(fits, limit)
  BY CutTells
<1>6. /\ Len(cut) \in 0 .. Len(fits) /\ NoneTwice(cut)
      /\ \A i \in 1 .. Len(cut) : cut[i] = fits[i]
      /\ Len(fits) - Len(cut) > 0 \/ Reads!RowsIn(fits) \subseteq Reads!RowsIn(cut)
  BY <1>4, <1>5, CutTells
<1>7. v10 \subseteq Reads!RowsIn(fits)
  BY <1>3, StayedTold
<1>8. \A i \in 1 .. Len(cut) : cut[i].table = "rows"
  <2> TAKE i \in 1 .. Len(cut)
  <2>1. cut[i] = fits[i] /\ i \in 1 .. Len(fits)
    BY <1>4, <1>6
  <2>2. PICK j \in 1 .. Len(v8) : fits[i] = v8[j]
    BY <1>4, <2>1
  <2> QED BY <2>1, <2>2 DEF Reads!Begins
<1>9. PICK len \in Nat, some \in Nat, few \in Nat :
        /\ len = Len(v8) /\ some = Len(fits) /\ few = Len(cut)
        /\ few <= some /\ some <= len
  BY <1>1, <1>4, <1>6
<1>10. PICK said : said = Reads!CardsReport
  OBVIOUS
<1>11. said = [shown |-> cut, limited |-> Len(fits) - Len(cut), filtered |-> Len(v8) - Len(fits),
               all |-> Reads!Cardinality(Reads!Taken(v1))]
  BY <1>2, <1>3, <1>5, <1>10, Zenon DEF Reads!CardsReport, Reads!Odd
<1>12. /\ said.shown = cut /\ said.limited = some - few /\ said.filtered = len - some
       /\ said.all = Reads!Cardinality(Reads!Taken(v1))
  BY <1>9, <1>11
<1>13. Len(said.shown) + said.limited + said.filtered = Len(v8)
  BY <1>9, <1>12
<1>14. v10 \subseteq Reads!RowsIn(said.shown) \/ said.limited > 0
  BY <1>6, <1>7, <1>9, <1>12
<1>15. said.limited \in Nat /\ said.filtered \in Nat /\ Len(said.shown) \in Nat
  BY <1>9, <1>12
<1> QED BY <1>6, <1>8, <1>10, <1>12, <1>13, <1>14, <1>15

LEMMA CardsTold ==
  ASSUME Reads!ReadsInv, v4 = "done", v3.report = "cards"
  PROVE  Accounted(Reads!CardsReport)
<1>1. PICK set \in SUBSET Keys : set = Reads!Taken(v1) /\ v10 \subseteq set
  BY TakenAre
<1>2. Reads!TypeInv /\ Reads!Begins(set) /\ Len(v8) = Reads!Cardinality(set)
  BY <1>1 DEF Reads!ReadsInv, Reads!ReadInv
<1>3. PICK said : said = Reads!CardsReport
  OBVIOUS
<1>4. /\ said.shown \in Seq(Reads!TableRows) /\ NoneTwice(said.shown)
      /\ v10 \subseteq Reads!RowsIn(said.shown) \/ said.limited > 0
      /\ Len(said.shown) + said.limited + said.filtered = Len(v8)
      /\ said.all = Reads!Cardinality(Reads!Taken(v1))
  BY <1>1, <1>2, <1>3, CardsAre
<1>5. Reads!IsInjective(said.shown)
  BY <1>4, OnceIsInjective
<1> QED BY <1>1, <1>2, <1>3, <1>4, <1>5 DEF Accounted

\* Of inbox items and observations all were read, some time ago.
LEMMA AllWereRead ==
  ASSUME Reads!ReadsInv, v4 = "done", v3.report \in {"inbox", "events"}
  PROVE  /\ v9 = v2
         /\ \E set \in SUBSET Keys :
              /\ Reads!Begins(set) /\ Len(v8) = Reads!Cardinality(set) /\ v10 \subseteq set
              /\ (v13 = 0) =>
                   /\ set = Reads!Taken(v1)
                   /\ \A i \in 1 .. Len(v8) : v8[i].fit <=> v1[v8[i].key] = "fit"
BY DEF Reads!ReadsInv, Reads!ReadInv, Reads!Twofold

LEMMA InboxTold ==
  ASSUME Reads!ReadsInv, v4 = "done", v3.report = "inbox"
  PROVE  Accounted(Reads!InboxReport)
<1>1. PICK set \in SUBSET Keys :
        /\ Reads!Begins(set) /\ Len(v8) = Reads!Cardinality(set) /\ v10 \subseteq set
        /\ (v13 = 0) =>
             /\ set = Reads!Taken(v1)
             /\ \A i \in 1 .. Len(v8) : v8[i].fit <=> v1[v8[i].key] = "fit"
  BY AllWereRead
<1>2. v9 = v2
  BY AllWereRead
<1>3. Reads!TypeInv /\ v8 \in Seq(Reads!TableRows) /\ NoneTwice(v8)
  BY <1>1, ReadOnce DEF Reads!ReadsInv, Reads!TypeInv
<1>4. PICK n \in Nat : n = Cardinality(set) /\ n = Reads!Cardinality(set) /\ n = Len(v8)
  BY <1>1, KeysInOrder
<1>5. PICK limit \in Nat : limit = v3.limit
  BY <1>3, BoundIs
<1>6. PICK places : places = {i \in 1 .. Len(v8) : v8[i].fit /\ v9[v8[i].key] = "fit"}
  OBVIOUS
<1>7. places \in SUBSET (1 .. Len(v8))
  BY <1>6
<1>8. PICK held \in Seq(Reads!TableRows) : held = Reads!Select(v8, places)
  BY <1>3, <1>7, Selected
<1>9. Len(held) = Cardinality(places) /\ Gathers(held, v8, places)
  BY <1>3, <1>7, <1>8, Selected
<1>10. /\ \A i \in places : \E m \in 1 .. Len(held) : held[m] = v8[i]
       /\ NoneTwice(held)
  BY <1>3, <1>9 DEF Gathers
<1>11. PICK cut \in Seq(Reads!TableRows) : cut = Reads!Cut(held, limit)
  BY CutTells
<1>12. /\ Len(cut) \in 0 .. Len(held) /\ NoneTwice(cut)
       /\ Len(held) - Len(cut) > 0 \/ Reads!RowsIn(held) \subseteq Reads!RowsIn(cut)
  BY <1>10, <1>11, CutTells
<1>13. v10 \subseteq Reads!RowsIn(held)
  <2>1. SUFFICES ASSUME NEW k \in v10
                 PROVE  k \in Reads!RowsIn(held)
    OBVIOUS
  <2>2. PICK i \in 1 .. Len(v8) : v8[i].key = k /\ v8[i].fit
    BY <1>1, <1>3, StayedTold
  <2>3. v2[k] = "fit"
    BY DEF Reads!ReadsInv, Reads!StayedInv
  <2>4. i \in places
    BY <1>2, <1>6, <2>2, <2>3
  <2>5. PICK m \in 1 .. Len(held) : held[m] = v8[i]
    BY <1>10, <2>4
  <2>6. v8[i].table = "rows"
    BY <1>1 DEF Reads!Begins
  <2> QED BY <2>2, <2>5, <2>6 DEF Reads!RowsIn
<1>14. PICK both : both = {k \in Keys : v1[k] = "fit" /\ v2[k] = "fit"}
  OBVIOUS
<1>15. v13 = 0 => Cardinality(places) = Cardinality(both)
  <2>1. SUFFICES ASSUME v13 = 0
                 PROVE  Cardinality(places) = Cardinality(both)
    OBVIOUS
  <2>2. PICK f : f = [i \in places |-> v8[i].key]
    OBVIOUS
  <2>3. \A i \in 1 .. n : v8[i].key = Reads!InOrder(set)[i] /\ v8[i].key \in set
    BY <1>1, <1>4, KeysInOrder DEF Reads!Begins
  <2>4. \A i \in places : f[i] \in both
    <3> TAKE i \in places
    <3>1. v8[i].fit /\ v9[v8[i].key] = "fit" /\ i \in 1 .. n /\ v8[i].key \in Keys
      BY <1>4, <1>6, <2>3
    <3>2. v1[v8[i].key] = "fit"
      BY <1>1, <1>4, <2>1, <3>1
    <3> QED BY <1>2, <1>14, <2>2, <3>1, <3>2
  <2>5. \A i, j \in places : f[i] = f[j] => i = j
    <3> TAKE i, j \in places
    <3> HAVE f[i] = f[j]
    <3>1. i \in 1 .. n /\ j \in 1 .. n /\ Reads!InOrder(set)[i] = Reads!InOrder(set)[j]
      BY <1>4, <1>7, <2>2, <2>3
    <3> QED BY <1>4, <3>1, KeysApart
  <2>6. \A k \in both : \E i \in places : f[i] = k
    <3> TAKE k \in both
    <3>1. k \in set /\ v1[k] = "fit" /\ v9[k] = "fit"
      BY <1>1, <1>2, <1>14, <2>1 DEF Reads!Taken
    <3>2. PICK i \in 1 .. n : Reads!InOrder(set)[i] = k
      BY <1>4, <3>1, KeysInOrder
    <3>3. v8[i].key = k /\ i \in 1 .. Len(v8)
      BY <1>4, <2>3, <3>2
    <3>4. v8[i].fit
      BY <1>1, <2>1, <3>1, <3>3
    <3> QED BY <1>6, <2>2, <3>1, <3>3, <3>4
  <2>7. f \in [places -> both]
    BY <2>2, <2>4
  <2>8. f \in Bijection(places, both)
    BY <2>5, <2>6, <2>7 DEF Bijection, Injection, Surjection, IsInjective
  <2>9. IsFiniteSet(places)
    <3>1. IsFiniteSet(1 .. n)
      BY UpTo
    <3> QED BY <1>4, <1>7, <3>1, FS_Subset
  <2> QED BY <2>8, <2>9, FS_Bijection DEF ExistsBijection
<1>16. Reads!Cardinality(both) = Cardinality(both)
  <2>1. both \in SUBSET Keys
    BY <1>14
  <2> QED BY <2>1, KeysInOrder
<1>17. PICK said : said = Reads!InboxReport
  OBVIOUS
<1>18. said = [shown |-> cut, limited |-> Len(held) - Len(cut), filtered |-> 0,
               all |-> Reads!Cardinality(both)]
  BY <1>5, <1>6, <1>8, <1>11, <1>14, <1>17, Zenon DEF Reads!InboxReport
<1>19. PICK some \in Nat, few \in Nat : some = Len(held) /\ few = Len(cut) /\ few <= some
  BY <1>12
<1>20. v10 \subseteq Reads!RowsIn(said.shown) \/ said.limited > 0
  BY <1>12, <1>13, <1>18
<1>21. v13 = 0 => Len(said.shown) + said.limited + said.filtered = said.all
  <2>1. said.shown = cut /\ said.limited = some - few /\ said.filtered = 0
        /\ said.all = Cardinality(both)
    BY <1>16, <1>18, <1>19
  <2> QED BY <1>9, <1>15, <1>19, <2>1
<1>22. Reads!IsInjective(said.shown)
  BY <1>12, <1>18, OnceIsInjective
<1> QED BY <1>17, <1>20, <1>21, <1>22 DEF Accounted

LEMMA EventsTold ==
  ASSUME Reads!ReadsInv, v4 = "done", v3.report = "events"
  PROVE  Accounted(Reads!EventsReport)
<1>1. PICK set \in SUBSET Keys :
        /\ Reads!Begins(set) /\ Len(v8) = Reads!Cardinality(set) /\ v10 \subseteq set
        /\ (v13 = 0) => set = Reads!Taken(v1)
  BY AllWereRead
<1>2. v9 = v2 /\ Reads!TypeInv /\ v9 \in [Keys -> Reads!States] /\ Len(v8) \in Nat
  BY AllWereRead DEF Reads!ReadsInv, Reads!TypeInv
<1>3. PICK observed : observed = Reads!CardsReport
  OBVIOUS
<1>4. PICK rows \in Seq(Reads!TableRows) : rows = observed.shown
  BY <1>1, <1>2, <1>3, CardsAre
<1>5. /\ NoneTwice(rows) /\ \A i \in 1 .. Len(rows) : rows[i].table = "rows"
      /\ Len(rows) \in Nat /\ observed.limited \in Nat /\ observed.filtered \in Nat
      /\ v10 \subseteq Reads!RowsIn(rows) \/ observed.limited > 0
      /\ Len(rows) + observed.limited + observed.filtered = Len(v8)
      /\ observed.all = Reads!Cardinality(Reads!Taken(v1))
  BY <1>1, <1>2, <1>3, <1>4, CardsAre
<1>6. PICK limit \in Nat : limit = v3.limit
  BY <1>2, BoundIs
<1>7. PICK other \in SUBSET Keys : other = Reads!Taken(v9)
  BY DEF Reads!Taken
<1>8. PICK n \in Nat : n = Cardinality(other) /\ n = Reads!Cardinality(other)
  BY KeysInOrder
<1>9. PICK queue \in Seq(Reads!TableRows) : queue = Reads!Ordered("second", v9)
  BY <1>2, RowsInOrder
<1>10. /\ Len(queue) = n
       /\ \A i \in 1 .. Len(queue) :
            queue[i].table = "second" /\ queue[i].key = Reads!InOrder(other)[i]
  BY <1>2, <1>7, <1>8, <1>9, RowsInOrder
<1>11. NoneTwice(queue)
  <2>1. SUFFICES ASSUME NEW i \in 1 .. n, NEW j \in 1 .. n, queue[i] = queue[j]
                 PROVE  i = j
    BY <1>10 DEF NoneTwice
  <2>2. Reads!InOrder(other)[i] = Reads!InOrder(other)[j]
    BY <1>10, <2>1
  <2> QED BY <1>8, <2>2, KeysApart
<1>12. PICK fits \in Seq(Reads!TableRows) : fits = Reads!Fits(queue)
  BY FitsAre
<1>13. /\ Len(fits) \in 0 .. Len(queue) /\ NoneTwice(fits)
       /\ \A m \in 1 .. Len(fits) : \E i \in 1 .. Len(queue) : fits[m] = queue[i] /\ queue[i].fit
  BY <1>11, <1>12, FitsAre
<1>14. PICK items \in Seq(Reads!TableRows) : items = Reads!Cut(fits, limit)
  BY CutTells
<1>15. /\ Len(items) \in 0 .. Len(fits) /\ NoneTwice(items)
       /\ \A i \in 1 .. Len(items) : items[i] = fits[i]
  BY <1>13, <1>14, CutTells
<1>16. \A i \in 1 .. Len(items) : items[i].table = "second"
  <2> TAKE i \in 1 .. Len(items)
  <2>1. items[i] = fits[i] /\ i \in 1 .. Len(fits)
    BY <1>13, <1>15
  <2>2. PICK j \in 1 .. Len(queue) : fits[i] = queue[j]
    BY <1>13, <2>1
  <2> QED BY <1>10, <2>1, <2>2
<1>17. PICK whole : whole = rows \o items
  OBVIOUS
<1>18. /\ whole \in Seq(Reads!TableRows) /\ Len(whole) = Len(rows) + Len(items)
       /\ \A i \in 1 .. Len(whole) :
            whole[i] = IF i <= Len(rows) THEN rows[i] ELSE items[i - Len(rows)]
  BY <1>17, ConcatProperties
<1>19. PICK some \in Nat, few \in Nat, first \in Nat, len \in Nat :
         /\ some = Len(fits) /\ few = Len(items) /\ first = Len(rows) /\ len = Len(v8)
         /\ few <= some /\ some <= n
  BY <1>2, <1>5, <1>10, <1>13, <1>15
<1>20. NoneTwice(whole)
  <2>1. SUFFICES ASSUME NEW i \in 1 .. first + few, NEW j \in 1 .. first + few, whole[i] = whole[j]
                 PROVE  i = j
    BY <1>18, <1>19 DEF NoneTwice
  <2>2. \A m \in 1 .. first + few :
          IF m <= first
          THEN /\ m \in 1 .. first /\ whole[m] = rows[m] /\ whole[m].table = "rows"
          ELSE /\ m - first \in 1 .. few /\ whole[m] = items[m - first]
               /\ whole[m].table = "second"
    <3> TAKE m \in 1 .. first + few
    <3>1. CASE m <= first
      BY <1>5, <1>18, <1>19, <3>1
    <3>2. CASE ~(m <= first)
      <4>1. PICK k \in 1 .. few : k = m - first
        BY <3>2
      <4>2. whole[m] = items[k] /\ items[k].table = "second"
        BY <1>16, <1>18, <1>19, <3>2, <4>1
      <4> QED BY <3>2, <4>1, <4>2
    <3> QED BY <3>1, <3>2
  <2>3. CASE i <= first
    <3>1. j <= first
      BY <2>1, <2>2, <2>3
    <3>2. i \in 1 .. first /\ j \in 1 .. first /\ rows[i] = rows[j]
      BY <2>1, <2>2, <2>3, <3>1
    <3> QED BY <1>5, <1>19, <3>2 DEF NoneTwice
  <2>4. CASE ~(i <= first)
    <3>1. ~(j <= first)
      BY <2>1, <2>2, <2>4
    <3>2. PICK a \in 1 .. few, b \in 1 .. few : a = i - first /\ b = j - first
      BY <2>2, <2>4, <3>1
    <3>3. items[a] = items[b]
      BY <2>1, <2>2, <2>4, <3>1, <3>2
    <3>4. a = b
      BY <1>15, <1>19, <3>3 DEF NoneTwice
    <3> QED BY <3>2, <3>4
  <2> QED BY <2>3, <2>4
<1>21. Reads!RowsIn(rows) \subseteq Reads!RowsIn(whole)
  <2>1. SUFFICES ASSUME NEW k \in Reads!RowsIn(rows)
                 PROVE  k \in Reads!RowsIn(whole)
    OBVIOUS
  <2>2. PICK i \in 1 .. Len(rows) : rows[i].table = "rows" /\ rows[i].key = k
    BY DEF Reads!RowsIn
  <2>3. i \in 1 .. Len(whole) /\ whole[i] = rows[i]
    BY <1>18, <1>19
  <2> QED BY <2>2, <2>3 DEF Reads!RowsIn
<1>22. PICK said : said = Reads!EventsReport
  OBVIOUS
<1>23. said = [shown |-> whole, limited |-> observed.limited + Len(fits) - Len(items),
               filtered |-> observed.filtered + (Len(queue) - Len(fits)),
               all |-> observed.all + Reads!Cardinality(Reads!Taken(v2))]
  BY <1>3, <1>4, <1>6, <1>9, <1>12, <1>14, <1>17, <1>22, Zenon DEF Reads!EventsReport, Reads!Odd
<1>24. PICK left \in Nat, odd \in Nat : left = observed.limited /\ odd = observed.filtered
  BY <1>5
<1>25. /\ said.shown = whole /\ said.limited = left + some - few
       /\ said.filtered = odd + (n - some)
       /\ said.all = Reads!Cardinality(Reads!Taken(v1)) + n
  BY <1>2, <1>5, <1>7, <1>8, <1>10, <1>19, <1>23, <1>24
<1>26. v10 \subseteq Reads!RowsIn(whole) \/ said.limited > 0
  <2>1. left > 0 => left + some - few > 0
    BY <1>19
  <2> QED BY <1>5, <1>21, <1>24, <1>25, <2>1
<1>27. v13 = 0 => Len(whole) + said.limited + said.filtered = said.all
  <2>1. SUFFICES ASSUME v13 = 0
                 PROVE  Len(whole) + said.limited + said.filtered = said.all
    OBVIOUS
  <2>2. said.all = len + n
    BY <1>1, <1>19, <1>25, <2>1
  <2>3. first + left + odd = len /\ Len(whole) = first + few
    BY <1>5, <1>18, <1>19, <1>24
  <2>4. (first + few) + (left + some - few) + (odd + (n - some)) = len + n
    BY <2>3
  <2>5. said.limited = left + some - few /\ said.filtered = odd + (n - some)
    BY <1>25
  <2> QED BY <2>2, <2>3, <2>4, <2>5
<1>28. Reads!IsInjective(whole)
  BY <1>18, <1>20, OnceIsInjective
<1> QED BY <1>22, <1>25, <1>26, <1>27, <1>28 DEF Accounted

LEMMA ReadsAccount ==
  ASSUME Reads!ReadsInv
  PROVE  Reads!EveryRowAccountedFor
<1>1. SUFFICES ASSUME v4 = "done", ~Reads!Shifted
               PROVE  Accounted(Reads!Said)
  BY DEF Reads!EveryRowAccountedFor, Accounted
<1>2. v3.report \in Reads!Reports \cup {"none"}
  BY DEF Reads!ReadsInv, Reads!TypeInv
<1>3. CASE v3.report = "ranges"
  <2>1. ~v11
    BY <1>1, <1>3 DEF Reads!Shifted
  <2>2. Reads!Said = Reads!RangesReport
    BY <1>3 DEF Reads!Said
  <2> QED BY <1>1, <1>3, <2>1, <2>2, RangesTold
<1>4. CASE v3.report = "leaves"
  <2>1. ~v11 /\ ~v12
    BY <1>1, <1>4 DEF Reads!Shifted
  <2>2. Reads!Said = Reads!LeavesReport
    BY <1>4 DEF Reads!Said
  <2> QED BY <1>1, <1>4, <2>1, <2>2, LeavesTold
<1>5. CASE v3.report = "material"
  <2>1. ~v11 /\ ~v12
    BY <1>1, <1>5 DEF Reads!Shifted
  <2>2. Reads!Said = Reads!MaterialReport
    BY <1>5 DEF Reads!Said
  <2> QED BY <1>1, <1>5, <2>1, <2>2, MaterialTold
<1>6. CASE v3.report = "cards"
  <2>1. Reads!Said = Reads!CardsReport
    BY <1>6 DEF Reads!Said
  <2> QED BY <1>1, <1>6, <2>1, CardsTold
<1>7. CASE v3.report = "inbox"
  <2>1. Reads!Said = Reads!InboxReport
    BY <1>7 DEF Reads!Said
  <2> QED BY <1>1, <1>7, <2>1, InboxTold
<1>8. CASE v3.report = "events"
  <2>1. Reads!Said = Reads!EventsReport
    BY <1>8 DEF Reads!Said
  <2> QED BY <1>1, <1>8, <2>1, EventsTold
<1>9. v3.report # "none"
  BY <1>1 DEF Reads!ReadsInv, Reads!TypeInv
<1> QED BY <1>2, <1>3, <1>4, <1>5, <1>6, <1>7, <1>8, <1>9 DEF Reads!Reports

\* Every row that was there throughout is shown, or the limit is said to have left some
\* out; none is shown twice; and what is shown and left out adds up to all there was, for
\* any keys, limits and page sizes, and any writes but those that shift the rows.
THEOREM ReportsAccountForRows == ReportSpec => []EveryRowAccountedFor
<1>1. ReportInit => (component = "reads" => Reads!ReadsInv)
  BY StartsOfOne, ReadsInit
<1>2. (component = "reads" => Reads!ReadsInv) /\ [ReportNext]_vars
        => (component = "reads" => Reads!ReadsInv)'
  BY StepsOfOne, ReadsKept
<1>3. (component = "reads" => Reads!ReadsInv) => EveryRowAccountedFor
  BY ReadsAccount DEF EveryRowAccountedFor
<1> QED BY <1>1, <1>2, <1>3, PTL DEF ReportSpec

-----------------------------------------------------------------------------
(* RetrievalTelemetry: the searches are v1, the follows v2, what is to be   *)
(* recorded v4, the proposals v5; v6 and v7 are all that was searched and   *)
(* opened, v8 the number of calls.                                          *)

LEMMA PruningOnlyTakes ==
  ASSUME NEW a, NEW now, NEW left \in Telemetry!PrunedTables(a, now)
  PROVE  left[1] \subseteq v1 /\ left[2] \subseteq v2
<1>1. \E searches, follows :
        left = << searches, follows >> /\ searches \subseteq v1 /\ follows \subseteq v2
  <2>1. CASE Telemetry!DueToPrune(a, now)
    <3>1. PICK gone \in Telemetry!Outdated(v2, now - Lookback),
               old \in Telemetry!Outdated(v1, now - Lookback) :
            left = << v1 \ old, {f \in v2 \ gone : \A s \in old : f.search # s.id} >>
      BY <2>1 DEF Telemetry!PrunedTables
    <3>2. PICK searches, follows :
            /\ searches = v1 \ old
            /\ follows = {f \in v2 \ gone : \A s \in old : f.search # s.id}
      OBVIOUS
    <3>3. left = << searches, follows >>
      BY <3>1, <3>2
    <3>4. searches \subseteq v1 /\ follows \subseteq v2
      BY <3>2
    <3> QED BY <3>3, <3>4
  <2>2. CASE ~Telemetry!DueToPrune(a, now)
    BY <2>2 DEF Telemetry!PrunedTables
  <2> QED BY <2>1, <2>2
<1> QED BY <1>1

LEMMA DeedsAreFinite ==
  ASSUME Telemetry!CallsInv
  PROVE  IsFiniteSet(v7)
BY Zenon DEF Telemetry!CallsInv, Telemetry!IsFiniteSet, IsFiniteSet

LEMMA FiniteForBoth ==
  ASSUME NEW S
  PROVE  Telemetry!IsFiniteSet(S) <=> IsFiniteSet(S)
BY Zenon DEF Telemetry!IsFiniteSet, IsFiniteSet

\* What more is done takes nothing from what was proposed.
LEMMA ProposalsStay ==
  ASSUME Telemetry!CallsInv, Telemetry!ProposalsHappened,
         v5' = v5, v6 \subseteq v6', v7 \subseteq v7', IsFiniteSet(v7')
  PROVE  Telemetry!ProposalsHappened'
<1> SUFFICES ASSUME NEW c \in v5
             PROVE  /\ Telemetry!Cardinality(Telemetry!LedTo(c)') >= c.count
                    /\ \E d \in Telemetry!LedTo(c)', s \in v6' :
                         Telemetry!Led(s, d, c) /\ c.rank \in Telemetry!Place(s.refs, c.ref)
                    /\ \A k \in c.kinds : \E d \in Telemetry!LedTo(c)' : d.kind = k
  BY DEF Telemetry!ProposalsHappened
<1>1. PICK old, new : old = Telemetry!LedTo(c) /\ new = Telemetry!LedTo(c)'
  OBVIOUS
<1>2. old \subseteq new /\ new \subseteq v7'
  BY <1>1 DEF Telemetry!LedTo
<1>3. Telemetry!Cardinality(old) = Cardinality(old) /\ Telemetry!Cardinality(new) = Cardinality(new)
  BY Zenon DEF Telemetry!Cardinality, Cardinality
<1>4. /\ Cardinality(old) \in Nat /\ Cardinality(new) \in Nat
      /\ Cardinality(old) <= Cardinality(new)
  <2>1. IsFiniteSet(new)
    BY <1>2, FS_Subset
  <2> QED BY <1>2, <2>1, FS_Subset, FS_CardinalityType
<1>5. /\ Cardinality(old) >= c.count /\ c.count \in Nat
      /\ \E d \in old, s \in v6 : Telemetry!Led(s, d, c) /\ c.rank \in Telemetry!Place(s.refs, c.ref)
      /\ \A k \in c.kinds : \E d \in old : d.kind = k
  BY <1>1, <1>3 DEF Telemetry!ProposalsHappened, Telemetry!CallsInv
<1>6. Cardinality(new) >= c.count
  BY <1>4, <1>5
<1> QED BY <1>1, <1>2, <1>3, <1>5, <1>6

\* Only more is known of what was searched and opened.
LEMMA FollowsStay ==
  ASSUME Telemetry!FollowsInv, v6 \subseteq v6', v7 \subseteq v7', v2' \subseteq v2
  PROVE  Telemetry!FollowsInv'
BY DEF Telemetry!FollowsInv, Telemetry!Tells, Telemetry!CameOf

LEMMA SearchKeeps ==
  ASSUME Telemetry!TelemetryInv, NEW a, NEW query, NEW refs, NEW now \in Int,
         Telemetry!Search(a, query, refs, now)
  PROVE  Telemetry!TelemetryInv'
<1>1. PICK row : row = [id |-> v8 + 1, by |-> a, at |-> now, query |-> query, refs |-> refs]
  OBVIOUS
<1>2. PICK left \in Telemetry!PrunedTables(a, now) : v1' = left[1] \cup {row} /\ v2' = left[2]
  BY <1>1 DEF Telemetry!Search
<1>3. /\ v6' = v6 \cup {row} /\ v8' = v8 + 1 /\ v4' = v4 /\ v5' = v5 /\ v7' = v7
  BY <1>1 DEF Telemetry!Search
<1>4. v1' \subseteq v1 \cup {row} /\ v2' \subseteq v2
  BY <1>2, PruningOnlyTakes
<1>5. row.id = v8 + 1 /\ row.at \in Int
  BY <1>1
<1>6. Telemetry!CallsInv'
  BY <1>3, <1>4, <1>5 DEF Telemetry!CallsInv, Telemetry!TelemetryInv
<1>7. Telemetry!OpeningInv'
  BY <1>3, <1>4 DEF Telemetry!TelemetryInv, Telemetry!OpeningInv, Telemetry!Tells,
                    Telemetry!CameOf
<1>8. Telemetry!FollowsInv'
  BY <1>3, <1>4, FollowsStay DEF Telemetry!TelemetryInv
<1>9. Telemetry!ProposalsHappened'
  <2>1. IsFiniteSet(v7')
    BY <1>3, DeedsAreFinite DEF Telemetry!TelemetryInv
  <2> QED BY <1>3, <2>1, ProposalsStay DEF Telemetry!TelemetryInv
<1> QED BY <1>6, <1>7, <1>8, <1>9 DEF Telemetry!TelemetryInv

LEMMA OpenRefKeeps ==
  ASSUME Telemetry!TelemetryInv, NEW a \in Agents, NEW ref, NEW way, NEW now \in Int,
         Telemetry!OpenRef(a, ref, way, now)
  PROVE  Telemetry!TelemetryInv'
<1>1. PICK deed : deed = [n |-> v8, by |-> a, at |-> now, ref |-> ref,
                          kind |-> Telemetry!KindOf(way)]
  OBVIOUS
<1>2. PICK open : open = [kinds |-> << Telemetry!KindOf(way) >>, call |-> v8, ref |-> ref,
                          now |-> now, search |-> 0, rank |-> 0]
  OBVIOUS
<1>3. /\ v7' = v7 \cup {deed} /\ v8' = v8 + 1
      /\ v1' = v1 /\ v2' = v2 /\ v5' = v5 /\ v6' = v6
  BY <1>1 DEF Telemetry!OpenRef
<1>4. v4' = [v4 EXCEPT ![a] = open]
  BY <1>2 DEF Telemetry!OpenRef, Telemetry!Recorded
<1>5. /\ deed.n = v8 /\ deed.at = now /\ deed.by = a /\ deed.ref = ref
      /\ deed.kind = Telemetry!KindOf(way)
  BY <1>1
<1>6. Telemetry!CallsInv'
  <2>1. IsFiniteSet(v7')
    BY <1>3, DeedsAreFinite, FS_AddElement DEF Telemetry!TelemetryInv
  <2>2. Telemetry!IsFiniteSet(v7')
    BY <2>1, FiniteForBoth
  <2> QED BY <1>3, <1>5, <2>2 DEF Telemetry!CallsInv, Telemetry!TelemetryInv
<1>7. Telemetry!OpeningInv'
  <2>1. DOMAIN v4' = Agents
    BY <1>4 DEF Telemetry!TelemetryInv, Telemetry!OpeningInv
  <2>2. \A f \in v2 : f.call # v8
    <3> TAKE f \in v2
    <3>1. PICK d \in v7 : d.n = f.call
      BY DEF Telemetry!TelemetryInv, Telemetry!FollowsInv, Telemetry!Tells
    <3>2. d.n \in 0 .. v8 - 1 /\ v8 \in Nat
      BY DEF Telemetry!TelemetryInv, Telemetry!CallsInv
    <3> QED BY <3>1, <3>2
  <2>3. v4'[a] = open
    BY <1>4 DEF Telemetry!TelemetryInv, Telemetry!OpeningInv
  <2>4. /\ Len(open.kinds) = 1 /\ open.kinds[1] = deed.kind /\ open.call = deed.n
        /\ open.ref = deed.ref /\ open.now = deed.at /\ open.search = 0
    BY <1>2, <1>5
  <2>7. {"search", "rank"} \subseteq DOMAIN open
    BY <1>2
  <2>5. ASSUME NEW b \in Agents, b # a
        PROVE  v4'[b] = v4[b]
    BY <1>4, <2>5 DEF Telemetry!TelemetryInv, Telemetry!OpeningInv
  <2>6. deed \in v7' /\ v7 \subseteq v7'
    BY <1>3
  <2> QED BY <1>3, <1>5, <2>1, <2>2, <2>3, <2>4, <2>5, <2>6, <2>7
          DEF Telemetry!TelemetryInv, Telemetry!OpeningInv, Telemetry!Tells, Telemetry!CameOf
<1>8. Telemetry!FollowsInv'
  BY <1>3, FollowsStay DEF Telemetry!TelemetryInv
<1>9. Telemetry!ProposalsHappened'
  <2>1. IsFiniteSet(v7')
    BY <1>3, DeedsAreFinite, FS_AddElement DEF Telemetry!TelemetryInv
  <2> QED BY <1>3, <2>1, ProposalsStay DEF Telemetry!TelemetryInv
<1> QED BY <1>6, <1>7, <1>8, <1>9 DEF Telemetry!TelemetryInv

\* The search that a record is said to come of showed the ref, to the same agent, in time.
LEMMA SourceShowed ==
  ASSUME Telemetry!CallsInv, NEW a, NEW now \in Int, NEW ref,
         NEW table, table \subseteq v6,
         NEW recent \in Telemetry!Recent(a, table, now),
         NEW s \in Telemetry!Sources(recent, ref)
  PROVE  /\ s \in v6 /\ s.by = a /\ s.at \in (now - Window) .. now /\ s.id # 0
         /\ Telemetry!Min(Telemetry!Place(s.refs, ref)) \in Telemetry!Place(s.refs, ref)
<1>1. s \in recent /\ Telemetry!Place(s.refs, ref) # {}
  BY DEF Telemetry!Sources
<1>2. s \in table /\ s.by = a /\ s.at >= now - Window /\ s.at <= now
  BY <1>1 DEF Telemetry!Recent
<1>3. s \in v6 /\ s.at \in Int /\ s.id # 0
  BY <1>2 DEF Telemetry!CallsInv
<1>4. PICK T : T = Telemetry!Place(s.refs, ref)
  OBVIOUS
<1>5. T \in SUBSET Nat /\ T # {}
  BY <1>1, <1>4 DEF Telemetry!Place
<1>6. \E i \in T : \A j \in T : i <= j
  BY <1>5, LeastOf
<1>7. Telemetry!Min(T) \in T
  BY <1>6, Zenon DEF Telemetry!Min
<1> QED BY <1>2, <1>3, <1>4, <1>7, WindowIsTime

LEMMA AttributeKeeps ==
  ASSUME Telemetry!TelemetryInv, NEW a \in Agents, Telemetry!Attribute(a)
  PROVE  Telemetry!TelemetryInv'
<1>1. v5' = v5 /\ v6' = v6 /\ v7' = v7 /\ v8' = v8
  BY DEF Telemetry!Attribute
<1>2. PICK now : now = v4[a].now
  OBVIOUS
<1>3. PICK left \in Telemetry!PrunedTables(a, now) :
        /\ v1' = left[1] /\ v2' = left[2]
        /\ \E recent \in Telemetry!Recent(a, left[1], now) :
             \/ v4' = [v4 EXCEPT ![a] = Telemetry!Nothing]
             \/ \E s \in Telemetry!Sources(recent, v4[a].ref) :
                  v4' = [v4 EXCEPT ![a].search = s.id,
                                   ![a].rank = Telemetry!Min(Telemetry!Place(s.refs, v4[a].ref))]
  BY <1>2 DEF Telemetry!Attribute
<1>4. v1' \subseteq v1 /\ v2' \subseteq v2
  BY <1>3, PruningOnlyTakes
<1>5. Telemetry!CallsInv'
  BY <1>1, <1>4 DEF Telemetry!CallsInv, Telemetry!TelemetryInv
<1>6. Telemetry!FollowsInv'
  BY <1>1, <1>4, FollowsStay DEF Telemetry!TelemetryInv
<1>7. Telemetry!ProposalsHappened'
  BY <1>1, DeedsAreFinite, ProposalsStay DEF Telemetry!TelemetryInv
<1>8. v4[a] # Telemetry!Nothing
  BY DEF Telemetry!Attribute, Telemetry!Nothing
<1>9. PICK d \in v7 :
        /\ d.by = a
        /\ Telemetry!Tells(d, v4[a].call, v4[a].ref, v4[a].kinds[1], now)
  BY <1>2, <1>8 DEF Telemetry!TelemetryInv, Telemetry!OpeningInv
<1>10. now \in Int /\ d.at = now
  BY <1>9 DEF Telemetry!TelemetryInv, Telemetry!CallsInv, Telemetry!Tells
<1>11. Telemetry!OpeningInv'
  <2>1. CASE v4' = [v4 EXCEPT ![a] = Telemetry!Nothing]
    <3>1. /\ DOMAIN v4' = Agents /\ v4'[a] = Telemetry!Nothing
          /\ \A b \in Agents : b # a => v4'[b] = v4[b]
      BY <2>1 DEF Telemetry!TelemetryInv, Telemetry!OpeningInv
    <3> QED BY <1>1, <1>4, <3>1 DEF Telemetry!TelemetryInv, Telemetry!OpeningInv,
                                   Telemetry!Tells, Telemetry!CameOf
  <2>2. ASSUME NEW recent \in Telemetry!Recent(a, v1', now),
               NEW s \in Telemetry!Sources(recent, v4[a].ref),
               v4' = [v4 EXCEPT ![a].search = s.id,
                                ![a].rank = Telemetry!Min(Telemetry!Place(s.refs, v4[a].ref))]
        PROVE  Telemetry!OpeningInv'
    <3>1. PICK rank : rank = Telemetry!Min(Telemetry!Place(s.refs, v4[a].ref))
      OBVIOUS
    <3>2. PICK open : open = [v4[a] EXCEPT !.search = s.id, !.rank = rank]
      OBVIOUS
    <3>3. /\ DOMAIN v4' = Agents /\ v4'[a] = open
          /\ \A b \in Agents : b # a => v4'[b] = v4[b]
      BY <2>2, <3>1, <3>2 DEF Telemetry!TelemetryInv, Telemetry!OpeningInv
    <3>4. /\ open.kinds = v4[a].kinds /\ open.call = v4[a].call /\ open.ref = v4[a].ref
          /\ open.now = now
      BY <1>2, <3>2
    <3>5. v1' \subseteq v6
      BY <1>4 DEF Telemetry!TelemetryInv, Telemetry!CallsInv
    <3>6. /\ s \in v6 /\ s.by = a /\ s.at \in (now - Window) .. now
          /\ rank \in Telemetry!Place(s.refs, v4[a].ref)
      BY <1>10, <2>2, <3>1, <3>5, SourceShowed DEF Telemetry!TelemetryInv
    <3>7. open.search = s.id /\ open.rank = rank /\ {"search", "rank"} \subseteq DOMAIN open
      <4>1. "search" \in DOMAIN v4[a] /\ "rank" \in DOMAIN v4[a]
        BY <1>8 DEF Telemetry!TelemetryInv, Telemetry!OpeningInv
      <4> QED BY <3>2, <4>1
    <3>8. /\ Len(v4[a].kinds) = 1
          /\ \A f \in v2' : f.call # v4[a].call
      BY <1>4, <1>8 DEF Telemetry!TelemetryInv, Telemetry!OpeningInv
    <3>9. \E t \in v6' : /\ t.id = open.search /\ t.by = d.by
                         /\ t.at \in (d.at - Window) .. d.at
                         /\ open.rank \in Telemetry!Place(t.refs, open.ref)
      BY <1>1, <1>9, <1>10, <3>4, <3>6, <3>7
    <3>10. \E e \in v7' :
             /\ e.by = a
             /\ e.n = open.call /\ e.ref = open.ref /\ e.kind = open.kinds[1] /\ e.at = open.now
             /\ \E t \in v6' : /\ t.id = open.search /\ t.by = e.by
                               /\ t.at \in (e.at - Window) .. e.at
                               /\ open.rank \in Telemetry!Place(t.refs, open.ref)
      BY <1>1, <1>9, <1>10, <3>4, <3>9 DEF Telemetry!Tells
    <3>11. ASSUME NEW b \in Agents, b # a, v4'[b] # Telemetry!Nothing
           PROVE  /\ {"search", "rank"} \subseteq DOMAIN v4'[b]
                  /\ Len(v4'[b].kinds) = 1
                  /\ \A f \in v2' : f.call # v4'[b].call
                  /\ \E e \in v7' :
                       /\ e.by = b
                       /\ Telemetry!Tells(e, v4[b].call, v4[b].ref, v4[b].kinds[1], v4[b].now)
                       /\ v4[b].search # 0 =>
                            Telemetry!CameOf(e, v4[b].search, v4[b].ref, v4[b].rank)
      BY <1>1, <1>4, <3>3, <3>11 DEF Telemetry!TelemetryInv, Telemetry!OpeningInv
    <3> QED BY <1>1, <3>3, <3>4, <3>7, <3>8, <3>10, <3>11
            DEF Telemetry!OpeningInv, Telemetry!Tells, Telemetry!CameOf
  <2> QED BY <1>3, <2>1, <2>2
<1> QED BY <1>5, <1>6, <1>7, <1>11 DEF Telemetry!TelemetryInv

LEMMA WriteFollowKeeps ==
  ASSUME Telemetry!TelemetryInv, NEW a \in Agents, Telemetry!WriteFollow(a)
  PROVE  Telemetry!TelemetryInv'
<1>1. /\ v1' = v1 /\ v5' = v5 /\ v6' = v6 /\ v7' = v7 /\ v8' = v8
      /\ v4[a].search # 0
  BY DEF Telemetry!WriteFollow
<1>2. v4[a] # Telemetry!Nothing
  BY <1>1 DEF Telemetry!Nothing
<1>3. PICK d \in v7 :
        /\ d.by = a
        /\ Telemetry!Tells(d, v4[a].call, v4[a].ref, v4[a].kinds[1], v4[a].now)
        /\ Telemetry!CameOf(d, v4[a].search, v4[a].ref, v4[a].rank)
  BY <1>1, <1>2 DEF Telemetry!TelemetryInv, Telemetry!OpeningInv
<1>4. Len(v4[a].kinds) = 1
  BY <1>2 DEF Telemetry!TelemetryInv, Telemetry!OpeningInv
<1>5. PICK row : row = [call |-> v4[a].call, nth |-> Len(v4[a].kinds), at |-> v4[a].now,
                        search |-> v4[a].search, ref |-> v4[a].ref, rank |-> v4[a].rank,
                        kind |-> Head(v4[a].kinds)]
  OBVIOUS
<1>6. v2' \subseteq v2 \cup {row}
  BY <1>5 DEF Telemetry!WriteFollow
<1>7. v4' = [v4 EXCEPT ![a] = Telemetry!Nothing]
  BY <1>4 DEF Telemetry!WriteFollow
<1>8. /\ row.call = v4[a].call /\ row.at = v4[a].now /\ row.search = v4[a].search
      /\ row.ref = v4[a].ref /\ row.rank = v4[a].rank /\ row.kind = v4[a].kinds[1]
  <2>1. Head(v4[a].kinds) = v4[a].kinds[1]
    OBVIOUS
  <2> QED BY <1>5, <2>1
<1>9. \A f \in v2 : f.call # row.call
  BY <1>2, <1>8 DEF Telemetry!TelemetryInv, Telemetry!OpeningInv
<1>10. Telemetry!FollowsInv'
  <2>1. \A f, g \in v2' : f.call = g.call => f = g
    BY <1>6, <1>9 DEF Telemetry!TelemetryInv, Telemetry!FollowsInv
  <2>2. Telemetry!Tells(d, row.call, row.ref, row.kind, row.at)
        /\ Telemetry!CameOf(d, row.search, row.ref, row.rank)
    BY <1>3, <1>8
  <2>3. \A f \in v2' : \E e \in v7 :
          /\ Telemetry!Tells(e, f.call, f.ref, f.kind, f.at)
          /\ Telemetry!CameOf(e, f.search, f.ref, f.rank)
    BY <1>6, <2>2 DEF Telemetry!TelemetryInv, Telemetry!FollowsInv
  <2> QED BY <1>1, <2>1, <2>3 DEF Telemetry!FollowsInv, Telemetry!Tells, Telemetry!CameOf
<1>11. Telemetry!OpeningInv'
  <2>1. /\ DOMAIN v4' = Agents /\ v4'[a] = Telemetry!Nothing
        /\ \A b \in Agents : b # a => v4'[b] = v4[b]
    BY <1>7 DEF Telemetry!TelemetryInv, Telemetry!OpeningInv
  <2>2. ASSUME NEW b \in Agents, b # a, v4[b] # Telemetry!Nothing
        PROVE  v4[b].call # row.call
    <3>1. PICK e \in v7 : e.by = b /\ e.n = v4[b].call
      BY <2>2 DEF Telemetry!TelemetryInv, Telemetry!OpeningInv, Telemetry!Tells
    <3>2. d.n = row.call
      BY <1>3, <1>8 DEF Telemetry!Tells
    <3> QED BY <1>3, <2>2, <3>1, <3>2 DEF Telemetry!TelemetryInv, Telemetry!CallsInv
  <2>3. ASSUME NEW b \in Agents, v4'[b] # Telemetry!Nothing
        PROVE  /\ {"search", "rank"} \subseteq DOMAIN v4'[b]
               /\ Len(v4'[b].kinds) = 1
               /\ \A f \in v2' : f.call # v4'[b].call
               /\ \E e \in v7' :
                    /\ e.by = b
                    /\ Telemetry!Tells(e, v4[b].call, v4[b].ref, v4[b].kinds[1], v4[b].now)
                    /\ v4[b].search # 0 =>
                         Telemetry!CameOf(e, v4[b].search, v4[b].ref, v4[b].rank)
    <3>1. b # a /\ v4'[b] = v4[b]
      BY <2>1, <2>3
    <3> QED BY <1>1, <1>6, <2>2, <2>3, <3>1 DEF Telemetry!TelemetryInv, Telemetry!OpeningInv
  <2>4. \A b \in Agents : v4'[b] # Telemetry!Nothing => v4'[b] = v4[b]
    BY <2>1
  <2> QED BY <1>1, <2>1, <2>3, <2>4
          DEF Telemetry!OpeningInv, Telemetry!Tells, Telemetry!CameOf
<1>12. Telemetry!CallsInv'
  BY <1>1 DEF Telemetry!TelemetryInv, Telemetry!CallsInv
<1>13. Telemetry!ProposalsHappened'
  BY <1>1, DeedsAreFinite, ProposalsStay DEF Telemetry!TelemetryInv
<1> QED BY <1>10, <1>11, <1>12, <1>13 DEF Telemetry!TelemetryInv

\* Each row of a harvest is of a deed of its own, that its search led to.
LEMMA RowsAreDeeds ==
  ASSUME Telemetry!CallsInv, Telemetry!FollowsInv, NEW now, NEW c,
         NEW rows \in SUBSET Telemetry!Pairs(now),
         \A p \in rows : /\ Telemetry!GroupOf(p).query = c.query
                         /\ Telemetry!GroupOf(p).ref = c.ref
                         /\ Telemetry!GroupOf(p).kind \in c.kinds
  PROVE  /\ Cardinality(rows) \in Nat
         /\ Telemetry!Cardinality(Telemetry!LedTo(c)) >= Cardinality(rows)
         /\ \A p \in rows :
              \E d \in Telemetry!LedTo(c), s \in v6 :
                /\ Telemetry!Led(s, d, c) /\ d.kind = Telemetry!GroupOf(p).kind
                /\ Telemetry!GroupOf(p).rank \in Telemetry!Place(s.refs, c.ref)
                /\ d.n = p[2].call
<1>1. ASSUME NEW p \in rows
      PROVE  \E d \in Telemetry!LedTo(c), s \in v6 :
               /\ Telemetry!Led(s, d, c) /\ d.kind = Telemetry!GroupOf(p).kind
               /\ Telemetry!GroupOf(p).rank \in Telemetry!Place(s.refs, c.ref)
               /\ d.n = p[2].call
  <2>1. PICK s, f : s = p[1] /\ f = p[2]
    OBVIOUS
  <2>2. s \in v1 /\ f \in v2 /\ f.search = s.id
    BY <2>1 DEF Telemetry!Pairs
  <2>3. s.query = c.query /\ f.ref = c.ref /\ f.kind \in c.kinds
    BY <2>1 DEF Telemetry!GroupOf
  <2>4. PICK d \in v7 : /\ Telemetry!Tells(d, f.call, f.ref, f.kind, f.at)
                        /\ Telemetry!CameOf(d, f.search, f.ref, f.rank)
    BY <2>2 DEF Telemetry!FollowsInv
  <2>5. PICK t \in v6 : /\ t.id = f.search /\ t.by = d.by /\ t.at \in (d.at - Window) .. d.at
                        /\ f.rank \in Telemetry!Place(t.refs, f.ref)
    BY <2>4 DEF Telemetry!CameOf
  <2>6. t = s
    BY <2>2, <2>5 DEF Telemetry!CallsInv
  <2>7. Telemetry!Led(s, d, c)
    BY <2>3, <2>5, <2>6 DEF Telemetry!Led
  <2>8. d.n = f.call /\ d.ref = c.ref /\ d.kind = f.kind
    BY <2>3, <2>4 DEF Telemetry!Tells
  <2>9. d \in Telemetry!LedTo(c)
    BY <2>3, <2>5, <2>6, <2>7, <2>8 DEF Telemetry!LedTo
  <2>10. Telemetry!GroupOf(p).kind = f.kind /\ Telemetry!GroupOf(p).rank = f.rank
    BY <2>1 DEF Telemetry!GroupOf
  <2> QED BY <2>1, <2>3, <2>5, <2>6, <2>7, <2>8, <2>9, <2>10
<1>2. PICK led : led = Telemetry!LedTo(c)
  OBVIOUS
<1>3. led \subseteq v7
  BY <1>2 DEF Telemetry!LedTo
<1>4. IsFiniteSet(led)
  BY <1>3, DeedsAreFinite, FS_Subset
<1>5. PICK h : h = [p \in rows |-> CHOOSE d \in led : d.n = p[2].call]
  OBVIOUS
<1>6. \A p \in rows : h[p] \in led /\ h[p].n = p[2].call
  BY <1>1, <1>2, <1>5
<1>7. \A p, q \in rows : h[p] = h[q] => p = q
  <2> TAKE p, q \in rows
  <2> HAVE h[p] = h[q]
  <2>1. /\ p[1] \in v1 /\ p[2] \in v2 /\ p[2].search = p[1].id /\ p = << p[1], p[2] >>
        /\ q[1] \in v1 /\ q[2] \in v2 /\ q[2].search = q[1].id /\ q = << q[1], q[2] >>
    BY DEF Telemetry!Pairs
  <2>2. p[2].call = q[2].call
    BY <1>6
  <2>3. p[2] = q[2]
    BY <2>1, <2>2 DEF Telemetry!FollowsInv
  <2>4. p[1] = q[1]
    BY <2>1, <2>3 DEF Telemetry!CallsInv
  <2> QED BY <2>1, <2>3, <2>4
<1>8. h \in [rows -> led]
  <2>1. h = [p \in rows |-> h[p]]
    <3> DEFINE e(p) == CHOOSE d \in led : d.n = p[2].call
    <3>1. h = [p \in rows |-> e(p)]
      BY <1>5
    <3> HIDE DEF e
    <3> QED BY <3>1
  <2> QED BY <1>6, <2>1
<1>9. h \in Injection(rows, led)
  BY <1>7, <1>8 DEF Injection, IsInjective
<1>10. IsFiniteSet(rows) /\ Cardinality(rows) <= Cardinality(led)
  BY <1>4, <1>9, FS_Injection
<1>11. Cardinality(rows) \in Nat /\ Cardinality(led) \in Nat
  BY <1>4, <1>10, FS_CardinalityType
<1>12. Telemetry!Cardinality(led) = Cardinality(led)
  BY Zenon DEF Telemetry!Cardinality, Cardinality
<1> QED BY <1>1, <1>2, <1>10, <1>11, <1>12

\* A harvest of what was recorded proposes no more than what happened.
LEMMA HarvestKeeps ==
  ASSUME Telemetry!TelemetryInv, NEW now, Telemetry!Harvest(now)
  PROVE  Telemetry!TelemetryInv'
<1>1. v1' = v1 /\ v2' = v2 /\ v4' = v4 /\ v6' = v6 /\ v7' = v7 /\ v8' = v8
  BY DEF Telemetry!Harvest
<1>2. PICK sample \in Telemetry!Samples(Telemetry!Groups(now)) :
        v5' \subseteq Telemetry!Candidates(sample)
  BY DEF Telemetry!Harvest
<1>3. ASSUME NEW x \in sample
      PROVE  /\ x.rows \subseteq Telemetry!Pairs(now) /\ x.rows # {}
             /\ \A p \in x.rows : Telemetry!GroupOf(p) = x.group
  <2>1. x \in Telemetry!Groups(now)
    BY <1>2 DEF Telemetry!Samples
  <2>2. PICK p \in Telemetry!Pairs(now) : x = Telemetry!Group(now, Telemetry!GroupOf(p))
    BY <2>1 DEF Telemetry!Groups
  <2>3. PICK g : g = Telemetry!GroupOf(p)
    OBVIOUS
  <2>4. x.group = g /\ x.rows = {q \in Telemetry!Pairs(now) : Telemetry!GroupOf(q) = g}
    BY <2>2, <2>3 DEF Telemetry!Group
  <2>5. p \in x.rows
    BY <2>3, <2>4
  <2> QED BY <2>4, <2>5
<1>4. ASSUME NEW c \in v5'
      PROVE  /\ c.count \in Nat
             /\ Telemetry!Cardinality(Telemetry!LedTo(c)) >= c.count
             /\ \E d \in Telemetry!LedTo(c), s \in v6 :
                  Telemetry!Led(s, d, c) /\ c.rank \in Telemetry!Place(s.refs, c.ref)
             /\ \A k \in c.kinds : \E d \in Telemetry!LedTo(c) : d.kind = k
  <2>1. PICK query, ref, of, rows :
          /\ of = Telemetry!Of(sample, query, ref)
          /\ rows = UNION {x.rows : x \in of}
          /\ of # {}
          /\ c.query = query /\ c.ref = ref
          /\ c.rank = Telemetry!Min({x.group.rank : x \in of})
          /\ c.count = Telemetry!Cardinality(rows)
          /\ c.kinds = {x.group.kind : x \in of}
    <3>1. PICK y \in sample :
            c = Telemetry!SumOf(y.group.query, y.group.ref,
                                Telemetry!Of(sample, y.group.query, y.group.ref))
      BY <1>2 DEF Telemetry!Candidates
    <3>2. PICK query, ref, of, rows :
            /\ query = y.group.query /\ ref = y.group.ref
            /\ of = Telemetry!Of(sample, query, ref)
            /\ rows = UNION {x.rows : x \in of}
      OBVIOUS
    <3>3. y \in of
      BY <3>2 DEF Telemetry!Of
    <3>4. /\ c.query = query /\ c.ref = ref
          /\ c.rank = Telemetry!Min({x.group.rank : x \in of})
          /\ c.count = Telemetry!Cardinality(rows)
          /\ c.kinds = {x.group.kind : x \in of}
      BY <3>1, <3>2 DEF Telemetry!SumOf
    <3> QED BY <3>2, <3>3, <3>4
  <2>2. \A x \in of : x \in sample /\ x.group.query = c.query /\ x.group.ref = c.ref
                        /\ x.group.kind \in c.kinds
    BY <2>1 DEF Telemetry!Of
  <2>3. rows \subseteq Telemetry!Pairs(now)
    BY <1>3, <2>1, <2>2
  <2>4. \A p \in rows : /\ Telemetry!GroupOf(p).query = c.query
                        /\ Telemetry!GroupOf(p).ref = c.ref
                        /\ Telemetry!GroupOf(p).kind \in c.kinds
    BY <1>3, <2>1, <2>2
  <2>5. /\ Cardinality(rows) \in Nat
        /\ Telemetry!Cardinality(Telemetry!LedTo(c)) >= Cardinality(rows)
        /\ \A p \in rows :
              \E d \in Telemetry!LedTo(c), s \in v6 :
                /\ Telemetry!Led(s, d, c) /\ d.kind = Telemetry!GroupOf(p).kind
                /\ Telemetry!GroupOf(p).rank \in Telemetry!Place(s.refs, c.ref)
    BY <2>3, <2>4, RowsAreDeeds DEF Telemetry!TelemetryInv
  <2>6. Telemetry!Cardinality(rows) = Cardinality(rows)
    BY Zenon DEF Telemetry!Cardinality, Cardinality
  <2>7. \A x \in of : \E d \in Telemetry!LedTo(c), s \in v6 :
          /\ Telemetry!Led(s, d, c) /\ d.kind = x.group.kind
          /\ x.group.rank \in Telemetry!Place(s.refs, c.ref)
    <3> TAKE x \in of
    <3>1. PICK p \in x.rows : p \in rows /\ Telemetry!GroupOf(p) = x.group
      BY <1>3, <2>1, <2>2
    <3> QED BY <2>5, <3>1
  <2>8. \E x \in of : c.rank = x.group.rank
    <3>1. PICK T : T = {x.group.rank : x \in of}
      OBVIOUS
    <3>2. T \in SUBSET Nat /\ T # {}
      <4>1. \A r, t : Telemetry!Place(r, t) \subseteq Nat
        BY DEF Telemetry!Place
      <4>2. \A x \in of : x.group.rank \in Nat
        BY <2>7, <4>1
      <4> QED BY <2>1, <3>1, <4>2
    <3>3. \E n \in T : \A m \in T : n <= m
      BY <3>2, LeastOf
    <3>4. Telemetry!Min(T) \in T
      BY <3>3, Zenon DEF Telemetry!Min
    <3> QED BY <2>1, <3>1, <3>4
  <2>9. \A k \in c.kinds : \E d \in Telemetry!LedTo(c) : d.kind = k
    BY <2>1, <2>7
  <2> QED BY <2>1, <2>5, <2>6, <2>7, <2>8, <2>9
<1>5. Telemetry!CallsInv'
  BY <1>1, <1>4 DEF Telemetry!TelemetryInv, Telemetry!CallsInv
<1>6. Telemetry!OpeningInv'
  BY <1>1 DEF Telemetry!TelemetryInv, Telemetry!OpeningInv, Telemetry!Tells, Telemetry!CameOf
<1>7. Telemetry!FollowsInv'
  BY <1>1, FollowsStay DEF Telemetry!TelemetryInv
<1>8. \A c : Telemetry!LedTo(c)' = Telemetry!LedTo(c)
  BY <1>1 DEF Telemetry!LedTo, Telemetry!Led
<1>9. Telemetry!ProposalsHappened'
  BY <1>1, <1>4, <1>8 DEF Telemetry!ProposalsHappened, Telemetry!Led
<1> QED BY <1>5, <1>6, <1>7, <1>9 DEF Telemetry!TelemetryInv

LEMMA TelemetryInvStep ==
  ASSUME Telemetry!TelemetryInv, Telemetry!Next \/ UNCHANGED Telemetry!vars
  PROVE  Telemetry!TelemetryInv'
<1>1. CASE UNCHANGED Telemetry!vars
  <2>1. v1' = v1 /\ v2' = v2 /\ v4' = v4 /\ v5' = v5 /\ v6' = v6 /\ v7' = v7 /\ v8' = v8
    BY <1>1 DEF Telemetry!vars
  <2>2. Telemetry!CallsInv' /\ Telemetry!OpeningInv'
    BY <2>1 DEF Telemetry!TelemetryInv, Telemetry!CallsInv, Telemetry!OpeningInv,
                Telemetry!Tells, Telemetry!CameOf
  <2>3. Telemetry!FollowsInv' /\ Telemetry!ProposalsHappened'
    BY <2>1, FollowsStay, ProposalsStay, DeedsAreFinite DEF Telemetry!TelemetryInv
  <2> QED BY <2>2, <2>3 DEF Telemetry!TelemetryInv
<1>2. CASE Telemetry!Next
  <2>1. \A now \in Telemetry!Times : now \in Int
    BY DEF Telemetry!Times
  <2> QED BY <1>2, <2>1, SearchKeeps, OpenRefKeeps, AttributeKeeps, WriteFollowKeeps, HarvestKeeps
          DEF Telemetry!Next
<1> QED BY <1>1, <1>2

\* RetrievalTelemetry, harvestRetrievalTelemetry: of any agents, searches, prunings and
\* clocks, a scenario that is proposed happened as often as it counts, each time of its
\* own, after a search of that query that showed the ref.
THEOREM HarvestsTellOfDeeds == ReportSpec => []ProposalsHappened
<1> DEFINE IInv == component = "telemetry" => Telemetry!TelemetryInv
<1>1. ReportInit => IInv
  <2> SUFFICES ASSUME ReportInit, component = "telemetry"
               PROVE  Telemetry!TelemetryInv
    OBVIOUS
  <2>1. Telemetry!Init
    BY StartsOfOne
  <2>2. Telemetry!IsFiniteSet(v7)
    BY <2>1, FiniteForBoth, FS_EmptySet DEF Telemetry!Init
  <2> QED BY <2>1, <2>2 DEF Telemetry!Init, Telemetry!TelemetryInv, Telemetry!CallsInv,
          Telemetry!OpeningInv, Telemetry!FollowsInv, Telemetry!ProposalsHappened
<1>2. IInv /\ [ReportNext]_vars => IInv'
  <2> SUFFICES ASSUME IInv, [ReportNext]_vars, component' = "telemetry"
               PROVE  Telemetry!TelemetryInv'
    OBVIOUS
  <2>1. component = "telemetry" /\ (Telemetry!Next \/ UNCHANGED Telemetry!vars)
    BY StepsOfOne
  <2> QED BY <2>1, TelemetryInvStep
<1>3. IInv => ProposalsHappened
  BY DEF ProposalsHappened, Telemetry!TelemetryInv
<1> QED
  <2> HIDE DEF IInv
  <2> QED BY <1>1, <1>2, <1>3, PTL DEF ReportSpec
=============================================================================
