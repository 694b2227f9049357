----------------------------- MODULE IdleRoute ------------------------------
(***************************************************************************)
(* The idle-route harness (packages/cli/src/qa-lab-eva-idle-route.ts): it  *)
(* starts the MCP server of a released package as a child, makes a thread  *)
(* of its own through another client, has the child route to it and        *)
(* deliver one approved message, and waits for the end of the turn before  *)
(* a deadline.  Each of its calls may fail, be refused or time out, and a  *)
(* call it has given up may still be carried out by the child, which may   *)
(* outlive every attempt to end it.  What it claims goes to one receipt.   *)
(*                                                                         *)
(* The child's gate is taken as what ApprovalLedger promises: it sends at  *)
(* most once for the approval it is given.                                 *)
(***************************************************************************)
CONSTANTS Runs  \* harness processes, on one evidence directory

VARIABLES
  installed, \* what the installed package holds: the release, or something else
  receipt,   \* eva-idle-route.json: absent, reserved, or the run that wrote it last
  run        \* each harness process with its child

vars == << installed, receipt, run >>

\* The child: what it runs, whether it lives, whether it was asked to send, has sent,
\* and whether the turn has ended.  The directories: of an executing run, its snapshot
\* of the package, its runtime root and its audit boundary.
New == [at |-> "new", execute |-> FALSE, late |-> FALSE, blocked |-> FALSE,
        subject |-> "none", child |-> "none", unconfirmed |-> FALSE, dirs |-> "none",
        mutated |-> FALSE, asked |-> FALSE, sent |-> FALSE, ended |-> FALSE,
        completionSeen |-> FALSE, ok |-> FALSE]

Init ==
  /\ installed \in {"release", "other"}
  /\ receipt = "absent"
  /\ run = [r \in Runs |-> New]

----------------------------------------------------------------------------
Step(r, p) == run' = [run EXCEPT ![r] = p]
At(r, at) == run[r].at = at
Goes(r, at) == Step(r, [run[r] EXCEPT !.at = at])
Blocks(r, at) == Step(r, [run[r] EXCEPT !.at = at, !.blocked = TRUE])

\* reserveEvaIdleRouteReport and inspectPackageIdentity: an executing run has the
\* receipt to itself or does not start, and takes a snapshot of the released package,
\* which the installed one must equal.  The outer deadline runs from here.
Begin(r, execute) ==
  LET p == [run[r] EXCEPT !.at = "initialize", !.execute = execute]
  IN /\ At(r, "new")
     /\ IF execute THEN receipt = "absent" /\ receipt' = "reserved" ELSE UNCHANGED receipt
     /\ \/ /\ installed = "release"
           /\ Step(r, IF execute THEN [p EXCEPT !.dirs = "kept"] ELSE p)
        \/ Step(r, [p EXCEPT !.at = "write", !.blocked = TRUE])
     /\ UNCHANGED installed

\* Ending a child: SIGTERM, SIGKILL, and whether its end was seen.
Closed(p) == [p EXCEPT !.child = "closed"]
Unconfirmed(p) == [p EXCEPT !.unconfirmed = TRUE, !.blocked = TRUE]

\* Slip: a child that was sent SIGKILL is taken to be gone.
KilledIsGone(p) == {Closed(p), p}

\* PersistentMcpSession.close
Closes(p) == IF p.child = "closed" THEN {p, Unconfirmed(p)}
             ELSE {Closed(p), Unconfirmed(Closed(p)), Unconfirmed(p)}

\* snapshotMcpBin ?? options.mcpBin
Subject(p) == IF p.execute THEN "release" ELSE installed

\* mcp_initialize: a child that does not answer, or with another version, is ended.
Initialize(r) ==
  LET p == [run[r] EXCEPT !.subject = Subject(run[r]), !.child = "alive"]
  IN /\ At(r, "initialize")
     /\ \/ Step(r, [p EXCEPT !.at = "list"])
        \/ \E q \in Closes(p) : Step(r, [q EXCEPT !.at = "clean", !.blocked = TRUE])
     /\ UNCHANGED << installed, receipt >>

\* mcp_tools_list, and the gate of execution
ListTools(r) ==
  /\ At(r, "list")
  /\ IF run[r].execute THEN Goes(r, "setup") ELSE Goes(r, "close")
     \/ Blocks(r, "close")
  /\ UNCHANGED << installed, receipt >>

\* task_setup: from the moment it asks for a thread the run counts as one that may have
\* changed something.
SetUp(r) ==
  /\ At(r, "setup")
  /\ \/ Blocks(r, "close")
     \/ /\ ~run[r].late
        /\ Step(r, [run[r] EXCEPT !.at = "close", !.blocked = TRUE, !.mutated = TRUE])
     \/ ~run[r].late /\ Step(r, [run[r] EXCEPT !.at = "route", !.mutated = TRUE])
  /\ UNCHANGED << installed, receipt >>

\* route and deliver_dry_run: the selected thread is the one of this run's title, which
\* nobody else has, and the approval is for the same target.
Route(r) ==
  /\ At(r, "route")
  /\ (~run[r].late /\ Goes(r, "dry")) \/ Blocks(r, "close")
  /\ UNCHANGED << installed, receipt >>

DryRun(r) ==
  /\ At(r, "dry")
  /\ (~run[r].late /\ Goes(r, "live")) \/ Blocks(r, "close")
  /\ UNCHANGED << installed, receipt >>

\* deliver_live is asked for
AskLive(r) ==
  /\ At(r, "live")
  /\ \/ ~run[r].late /\ Step(r, [run[r] EXCEPT !.at = "answer", !.asked = TRUE])
     \/ Blocks(r, "close")
  /\ UNCHANGED << installed, receipt >>

\* An answer in time that says accepted, for the hashes and the approval of the dry run,
\* and with the record of it in the audit file.  Or none, or another.
AnswerLive(r) ==
  /\ At(r, "answer")
  /\ (run[r].sent /\ ~run[r].late /\ Goes(r, "completion")) \/ Blocks(r, "close")
  /\ UNCHANGED << installed, receipt >>

\* completion_probe: it reads the thread until it shows the marker or time is up.
Probe(r) ==
  /\ At(r, "completion")
  /\ \/ /\ run[r].ended /\ ~run[r].late
        /\ Step(r, [run[r] EXCEPT !.at = "close", !.completionSeen = TRUE])
     \/ Blocks(r, "close")
  /\ UNCHANGED << installed, receipt >>

----------------------------------------------------------------------------
\* The finally block: the clients are closed, and then the directories are removed,
\* unless the end of the child was not seen.
Close(r) ==
  /\ At(r, "close")
  /\ \E q \in Closes(run[r]), failed \in BOOLEAN :
       Step(r, [q EXCEPT !.at = "clean", !.blocked = q.blocked \/ failed])
  /\ UNCHANGED << installed, receipt >>

\* A removal may fail, and an audit boundary is kept for the operator when a file of it
\* is missing or open to others.
Cleaned(p) ==
  IF ~p.execute THEN {p}
  ELSE IF p.unconfirmed THEN {[p EXCEPT !.blocked = TRUE]}
  ELSE {[p EXCEPT !.dirs = "gone"], [p EXCEPT !.dirs = "partly", !.blocked = TRUE]}

Clean(r) ==
  /\ At(r, "clean")
  /\ \E q \in Cleaned(run[r]) : Step(r, [q EXCEPT !.at = "write"])
  /\ UNCHANGED << installed, receipt >>

\* The report: into the reserved file, or over whatever is there.  A run that the
\* inspection blocked has removed its snapshot.
Write(r) ==
  LET p == run[r]
      ok == ~p.blocked /\ (p.execute => p.completionSeen)
  IN /\ At(r, "write")
     /\ receipt' = r
     /\ Step(r, [p EXCEPT !.at = "done", !.ok = ok])
     /\ UNCHANGED installed

Die(r) ==
  /\ run[r].at \notin {"new", "done", "dead"}
  /\ Goes(r, "dead")
  /\ UNCHANGED << installed, receipt >>

----------------------------------------------------------------------------
\* The rest of the world: the child sends when it was asked to, however long ago, it
\* ends, the turn ends, time runs out, and the installed package is replaced.
ChildSends(r) ==
  /\ run[r].child = "alive" /\ run[r].asked /\ ~run[r].sent
  /\ Step(r, [run[r] EXCEPT !.sent = TRUE])
  /\ UNCHANGED << installed, receipt >>

ChildEnds(r) ==
  /\ run[r].child = "alive" /\ Step(r, [run[r] EXCEPT !.child = "closed"])
  /\ UNCHANGED << installed, receipt >>

TurnEnds(r) ==
  /\ run[r].sent /\ ~run[r].ended /\ Step(r, [run[r] EXCEPT !.ended = TRUE])
  /\ UNCHANGED << installed, receipt >>

TimeIsUp(r) ==
  /\ run[r].at \in {"setup", "route", "dry", "live", "answer", "completion"}
  /\ ~run[r].late /\ Step(r, [run[r] EXCEPT !.late = TRUE])
  /\ UNCHANGED << installed, receipt >>

Replaced ==
  /\ installed' \in {"release", "other"} \ {installed}
  /\ UNCHANGED << receipt, run >>

Next ==
  \/ \E r \in Runs :
       \/ \E execute \in BOOLEAN : Begin(r, execute)
       \/ Initialize(r) \/ ListTools(r) \/ SetUp(r) \/ Route(r) \/ DryRun(r)
       \/ AskLive(r) \/ AnswerLive(r) \/ Probe(r) \/ Close(r) \/ Clean(r) \/ Write(r)
       \/ Die(r) \/ ChildSends(r) \/ ChildEnds(r) \/ TurnEnds(r) \/ TimeIsUp(r)
  \/ Replaced

Spec == Init /\ [][Next]_vars

----------------------------------------------------------------------------
\* What a run has said stays true.  A run that says it performed nothing has not, nor
\* does its child afterwards.  One that says all went well ran the release, sent one
\* message whose turn has ended, and has left neither a child nor a directory.  No
\* directory goes while a child may use it.
ReceiptIsTrue ==
  \A r \in Runs :
    LET p == run[r]
    IN /\ (p.at = "done" /\ p.sent) => p.mutated
       /\ (p.at = "done" /\ p.ok /\ p.execute) =>
            p.subject = "release" /\ p.ended /\ p.child = "closed" /\ p.dirs = "gone"
       /\ (p.execute /\ p.child = "alive") => p.dirs = "kept"

----------------------------------------------------------------------------
(* Why the receipt is true: what a run and its child have done by each of  *)
(* the run's places.                                                       *)

States ==
  [at : {"new", "initialize", "list", "setup", "route", "dry", "live", "answer",
         "completion", "close", "clean", "write", "done", "dead"},
   execute : BOOLEAN, late : BOOLEAN, blocked : BOOLEAN,
   subject : {"none", "release", "other"}, child : {"none", "alive", "closed"},
   unconfirmed : BOOLEAN, dirs : {"none", "kept", "partly", "gone"},
   mutated : BOOLEAN, asked : BOOLEAN, sent : BOOLEAN, ended : BOOLEAN,
   completionSeen : BOOLEAN, ok : BOOLEAN]

TypeInv == installed \in {"release", "other"} /\ run \in [Runs -> States]

\* One thing follows from another, also in a run that has died.
InOrder(p) ==
  /\ p.completionSeen => p.ended
  /\ p.ended => p.sent
  /\ p.sent => p.asked
  /\ p.asked => p.mutated
  /\ p.at \in {"route", "dry", "live", "answer", "completion"} => p.mutated
  /\ p.unconfirmed => p.blocked
  /\ p.execute /\ p.child # "none" => p.subject = "release"

\* The directories are there until the child is known to have ended.
Guarded(p) ==
  /\ p.at \in {"new", "initialize"} => p.child = "none"
  /\ p.at \in {"list", "setup", "route", "dry", "live", "answer", "completion", "close",
                "clean"} => p.child \in {"alive", "closed"}
  /\ p.execute /\ p.at \notin {"new", "write", "done", "dead"} => p.dirs = "kept"
  /\ p.execute /\ p.child = "alive" => p.dirs = "kept"
  /\ p.at = "clean" /\ p.child = "alive" => p.unconfirmed

\* A run that nothing has stopped by the time of its report.
Clear(p) ==
  /\ p.at \in {"write", "done"} /\ ~p.blocked =>
       p.child = "closed" /\ (p.execute => p.dirs = "gone")
  /\ p.at = "done" /\ p.ok => ~p.blocked /\ (p.execute => p.completionSeen)

RouteInv ==
  TypeInv /\ \A r \in Runs : InOrder(run[r]) /\ Guarded(run[r]) /\ Clear(run[r])
=============================================================================
