-------------------------------- MODULE Drive -------------------------------
(* lco drive (packages/adapters/src/drive.ts, createDriveReport; cli       *)
(* main.ts and mcp-server tools.ts call it): a reviewed plan for one       *)
(* target with the audit record of one dry run, whose approval the plan    *)
(* offers for confirmation while it is fresh.  The caller may give the     *)
(* time of evaluation; the record has the clock's.  Before it plans for a  *)
(* Claude session, it asks the claude command for its version (claude.ts). *)
EXTENDS Integers

CONSTANTS DriveTtl,   \* CODEX_CONTROL_DRY_RUN_TTL_MS
          MaxClock,   \* the last instant
          NoTime,     \* the caller gives no time, or the record has none
          NoDrive,    \* nothing is asked or reported
          NoResult    \* the probe is not settled

VARIABLES
  platform, \* "posix" or "windows"
  child,    \* "none", "running", "dying" of SIGKILL, or how it ended
  helper,   \* a descendant of the child that holds its pipes
  wrote,    \* what of its output was captured: a version, or "much"
  flags,    \* SUBSET {"timedOut", "outputLimitExceeded"}
  killer,   \* "none"; "group" is killed; the tree killer is "running", "done"
  timers,   \* [soft, hard]: "armed" or "off"
  result,   \* what the probe is settled with
  asked,    \* [driver, odd, now]: what drive is asked
  clock,
  record,   \* when the dry run was recorded in the audit log
  log,      \* "whole", "cut" in a line, or "lost": without the record
  report    \* [status, bound, expires, evaluated], "rejected"

probe == << platform, child, helper, wrote, flags, killer, timers, result >>
vars == << probe, asked, clock, record, log, report >>

-----------------------------------------------------------------------------
(* probeClaudeDryRunAvailability (claude.ts): a child process that may     *)
(* fail to start, write too much, leave a descendant that holds its pipes, *)
(* or not end at all; one timer that kills the process tree, a later one   *)
(* that settles without it; on Windows a second process does the killing,  *)
(* and may fail or hang as well.                                           *)
Ends == {"exited", "refused", "signalled", "failed"} \* status 0, status 1, a signal, ENOENT
childIsRunning == child \in {"running", "dying"}

InitProbe ==
  /\ platform \in {"posix", "windows"} /\ child = "none" /\ helper = FALSE
  /\ wrote = "nothing" /\ flags = {} /\ killer = "none"
  /\ timers = [soft |-> "off", hard |-> "off"] /\ result = NoResult

StartProbe ==
  /\ child = "none" /\ child' \in {"running", "failed"}
  /\ timers' = [soft |-> "armed", hard |-> "armed"]
  /\ UNCHANGED << platform, helper, wrote, flags, killer, result >>

-----------------------------------------------------------------------------
(* The processes.                                                          *)

Forks ==
  /\ child = "running" /\ helper' = TRUE
  /\ UNCHANGED << platform, child, wrote, flags, killer, timers, result >>

\* It ends by itself, or the signal reaches it, and with it its group.
ChildEnds ==
  /\ childIsRunning
  /\ child' \in IF child = "dying" THEN {"signalled"} ELSE {"exited", "refused", "signalled"}
  /\ helper' = (helper /\ killer # "group")
  /\ UNCHANGED << platform, wrote, flags, killer, timers, result >>

HelperEnds ==
  /\ helper /\ helper' = FALSE
  /\ UNCHANGED << platform, child, wrote, flags, killer, timers, result >>

Signalled(c) == IF c \in {"running", "dying"} THEN "dying" ELSE c

\* terminateTree: once, and only while the child itself is running.
TerminateTree ==
  IF killer # "none" \/ ~childIsRunning
  THEN UNCHANGED << child, killer >>
  ELSE IF platform = "windows"
       THEN killer' = "running" /\ UNCHANGED child
       ELSE killer' = "group" /\ child' = "dying"

-----------------------------------------------------------------------------
(* What the prober hears.                                                  *)

\* A line with a version, new enough or too old, or something else.
Captures ==
  /\ (child = "running" \/ helper) /\ result = NoResult /\ wrote = "nothing"
  /\ wrote' \in {"supported", "old", "other"}
  /\ UNCHANGED << platform, child, helper, flags, killer, timers, result >>

CapturesTooMuch ==
  /\ (child = "running" \/ helper) /\ result = NoResult
  /\ "outputLimitExceeded" \notin flags
  /\ flags' = flags \cup {"outputLimitExceeded"}
  /\ TerminateTree
  /\ UNCHANGED << platform, helper, wrote, timers, result >>

Settled(status, seen) == [status |-> status, wrote |-> wrote, flags |-> seen]

\* Nobody holds the pipes any more.  The last timer stays for a tree killer.
ChildCloses ==
  /\ child \in Ends /\ ~helper /\ result = NoResult
  /\ result' = Settled(child, flags)
  /\ timers' = [soft |-> "off", hard |-> IF killer = "running" THEN timers.hard ELSE "off"]
  /\ UNCHANGED << platform, child, helper, wrote, flags, killer >>

SoftTimer ==
  /\ timers.soft = "armed"
  /\ timers' = [timers EXCEPT !.soft = "off"]
  /\ flags' = flags \cup {"timedOut"}
  /\ TerminateTree
  /\ UNCHANGED << platform, helper, wrote, result >>

\* taskkill took the tree, or failed; the child is killed in either case.
KillerEnds ==
  /\ killer = "running" /\ killer' = "done"
  /\ helper' \in {helper, FALSE}
  /\ child' = Signalled(child)
  /\ timers' = IF result = NoResult THEN timers ELSE [timers EXCEPT !.hard = "off"]
  /\ UNCHANGED << platform, wrote, flags, result >>

\* The last timer waits for nobody: a tree killer that hangs is let go, a
\* last one is tried, the child is killed, and the probe is settled.
HardTimer ==
  /\ timers.hard = "armed" /\ timers.soft # "armed"
  /\ child' = Signalled(child)
  /\ killer' = IF killer = "none" /\ childIsRunning /\ platform = "posix" THEN "group"
               ELSE IF killer = "running" THEN "done" ELSE killer
  /\ helper' \in {helper} \cup {h \in {FALSE} : killer = "running" /\ childIsRunning}
  /\ flags' = flags \cup {"timedOut"}
  /\ timers' = [soft |-> "off", hard |-> "off"]
  /\ result' = IF result = NoResult THEN Settled("signalled", flags') ELSE result
  /\ UNCHANGED << platform, wrote >>

\* Slip: the status is looked at first.
AvailabilityByStatus(r) ==
  IF r.status = "exited" /\ r.wrote = "supported" THEN "dry_run_only"
  ELSE IF r.status = "exited" /\ r.flags = {} THEN "unsupported" ELSE "not_configured"

\* claudeDryRunState of what claudeAvailabilityFromProbeResult makes of it.
Availability(r) ==
  IF r.flags # {} \/ r.status # "exited" THEN "not_configured"
  ELSE IF r.wrote = "supported" THEN "dry_run_only" ELSE "unsupported"

NextProbe ==
  \/ Forks \/ ChildEnds \/ HelperEnds
  \/ Captures \/ CapturesTooMuch \/ ChildCloses
  \/ SoftTimer \/ KillerEnds \/ HardTimer

-----------------------------------------------------------------------------
(* Once settled, the child is gone or about to be, and it is called        *)
(* available only if it ended by itself, with status 0 and a supported     *)
(* version, everybody who could write to its pipes gone, in time and       *)
(* within the limit.                                                       *)
ProbedInTime ==
  result # NoResult =>
    /\ child # "running"
    /\ Availability(result) = "dry_run_only" =>
         child = "exited" /\ ~helper /\ flags = {} /\ wrote = "supported"
-----------------------------------------------------------------------------
(* Why it holds: whoever kills has flagged why, and a probe that finds the *)
(* command available leaves no timer and no killer behind.                 *)
Idle == [soft |-> "off", hard |-> "off"]

ProbeInv ==
  /\ child \in Ends \cup {"none", "running", "dying"} /\ helper \in BOOLEAN
  /\ killer # "none" => flags # {}
  /\ child = "none" => killer = "none" /\ timers = Idle
  /\ result # NoResult =>
       /\ child \in Ends \cup {"dying"}
       /\ Availability(result) = "dry_run_only" =>
            /\ child = "exited" /\ ~helper /\ flags = {} /\ wrote = "supported"
            /\ killer = "none" /\ timers = Idle

-----------------------------------------------------------------------------
(* Driving.                                                                *)

Instants == 0 .. MaxClock

Init ==
  /\ InitProbe /\ asked = NoDrive /\ clock = 0 /\ record = NoTime
  /\ log = "whole" /\ report = NoDrive

\* Options that validateDriveOptions refuses are never asked.  An odd session id
\* has a colon or more than 128 characters, which only Claude's control refuses.
Ask(driver) ==
  /\ asked = NoDrive
  /\ \E odd \in BOOLEAN, now \in Instants \cup {NoTime} :
       asked' = [driver |-> driver, odd |-> odd, now |-> now]
  /\ IF driver = "claude" THEN StartProbe ELSE UNCHANGED probe
  /\ UNCHANGED << clock, record, log, report >>

Probing == NextProbe /\ UNCHANGED << asked, clock, record, log, report >>

Waiting == asked # NoDrive /\ report = NoDrive /\ record = NoTime
Available == asked.driver = "codex" \/ (result # NoResult /\ Availability(result) = "dry_run_only")

\* claudeDriverBlocker: no dry run, nothing recorded.
ReportBlocked ==
  /\ Waiting /\ asked.driver = "claude" /\ result # NoResult /\ ~Available
  /\ report' = [status |-> "blocked", bound |-> FALSE, expires |-> NoTime, evaluated |-> NoTime]
  /\ UNCHANGED << probe, asked, clock, record, log >>

\* The target's control records the dry run, or refuses the session id.
DryRun ==
  /\ Waiting /\ Available
  /\ IF asked.driver = "claude" /\ asked.odd
     THEN report' = [status |-> "rejected", bound |-> FALSE, expires |-> NoTime, evaluated |-> NoTime]
          /\ UNCHANGED record
     ELSE record' = clock /\ UNCHANGED report
  /\ UNCHANGED << probe, asked, clock, log >>

\* The log after the dry run: another process is writing a line, has been cut
\* off in one, or the file is replaced.
LogChanges ==
  /\ record # NoTime /\ report = NoDrive /\ log = "whole" /\ log' \in {"cut", "lost"}
  /\ UNCHANGED << probe, asked, clock, record, report >>

Evaluated == IF asked.now = NoTime THEN clock ELSE asked.now

\* Slip: a record that is younger than the evaluation is fresh too.
FreshUntilItExpires(at) == log = "whole" /\ Evaluated < at + DriveTtl

Fresh(at) == log = "whole" /\ at <= Evaluated /\ Evaluated < at + DriveTtl

\* The record is looked up, and the steps of the plan are made.  A cut line in
\* the log ends drive with an error; the record stays.
Plan ==
  /\ record # NoTime /\ report = NoDrive
  /\ report' = [status |-> IF log = "cut" THEN "rejected" ELSE "dry_run_ready",
                bound |-> log # "cut" /\ asked.driver = "codex" /\ Fresh(record),
                expires |-> IF log = "whole" THEN record + DriveTtl ELSE NoTime,
                evaluated |-> Evaluated]
  /\ UNCHANGED << probe, asked, clock, record, log >>

Tick ==
  /\ clock < MaxClock /\ record # NoTime /\ clock' = clock + 1
  /\ UNCHANGED << probe, asked, record, log, report >>

Next ==
  \/ \E driver \in {"codex", "claude"} : Ask(driver)
  \/ Probing
  \/ ReportBlocked \/ DryRun \/ LogChanges \/ Plan \/ Tick

Spec == Init /\ [][Next]_vars

-----------------------------------------------------------------------------
(* What drive says of its plan can be relied on.  Ready: a dry run of this *)
(* target is on record, and a Claude target was probed in time.  Blocked:  *)
(* none is.  An approval is offered only for Codex, of a record that is in *)
(* the log, dated not after the evaluation and not expired by then.        *)
DriveIsGrounded ==
  /\ ProbedInTime
  /\ report # NoDrive =>
       /\ report.status = "dry_run_ready" =>
            /\ record # NoTime
            /\ asked.driver = "claude" => child = "exited" /\ flags = {}
       /\ report.status = "blocked" => record = NoTime
       /\ report.bound =>
            /\ asked.driver = "codex" /\ report.status = "dry_run_ready" /\ log = "whole"
            /\ record <= report.evaluated /\ report.evaluated < report.expires
-----------------------------------------------------------------------------
(* Why it holds: what is recorded was asked and found available.           *)
DriveInv ==
  /\ ProbeInv
  /\ record # NoTime => asked # NoDrive /\ Available
  /\ report # NoDrive => asked # NoDrive
  /\ DriveIsGrounded
=============================================================================
