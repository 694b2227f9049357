----------------------------- MODULE LiveProofs -----------------------------
(***************************************************************************)
(* The proofs that a control really ran (packages/cli/src): a smoke drives *)
(* the gate through the OpenClaw gateway (openclaw-live-control-smoke.ts)  *)
(* or through a client of its own (live-control-smoke.ts), a second smoke  *)
(* shows that the index was refreshed after it                             *)
(* (openclaw-post-action-refresh-smoke.ts), and the working-app gate takes *)
(* the runtime proofs of both (runtime-proof-gate.ts).  They are processes *)
(* of their own, whose calls time out and which die anywhere, and they     *)
(* meet in evidence directories whose files each one overwrites.           *)
(*                                                                         *)
(* The gate is taken as the ledger it implements (ApprovalLedger): it      *)
(* performs a control at most once under a dry run of the same control.    *)
(* Of the audit file only the length is kept: an id is the place of a      *)
(* record in it.  Of a report that is not ready only that is kept.         *)
(***************************************************************************)
EXTENDS Naturals, Sequences, FiniteSets

CONSTANTS Operators,  \* processes that run smokes through the gateway
          Dirs,       \* evidence directories
          Actions,    \* of send, resume, steer and interrupt
          Sacrificed, \* threads that may be driven
          NoFile,
          TailLimit,  \* records that loo_audit_tail returns
          MaxAudit, MaxPerformed, MaxWall  \* bounds

VARIABLES
  wall,
  audit,     \* records in the audit file
  performed, \* history: controls that Codex performed, under which approval, and
             \* whether the turn was seen to its end
  stored,    \* the index: when each thread was stored, and how many turns it showed
  reading,   \* the turns an index run has read and not yet stored, or NoFile
  overlapped, \* history: threads whose index run was under way during a control
  smoke,     \* each operator's run
  liveReport, liveProof, refreshProof,  \* the files of each directory
  direct,    \* approved-live-control-smoke.json
  refresh    \* the run of the refresh smoke

fileVars == << liveReport, liveProof, refreshProof, direct >>
indexVars == << stored, reading >>
vars == << wall, audit, performed, indexVars, overlapped, smoke, fileVars, refresh >>

Controls == [action : Actions, thread : Sacrificed]

Resting == [at |-> "idle", dir |-> NoFile, control |-> NoFile, dry |-> 0, live |-> 0,
            observed |-> 0, ready |-> FALSE]

Waiting == [at |-> "idle", dir |-> NoFile, report |-> NoFile, shows |-> NoFile]

NotReady == [ready |-> FALSE]

Init ==
  /\ wall = 0 /\ audit = 0 /\ performed = << >>
  /\ stored = [t \in Sacrificed |-> [at |-> 0, shows |-> 0]]
  /\ reading = [t \in Sacrificed |-> NoFile] /\ overlapped = {}
  /\ smoke = [o \in Operators |-> Resting]
  /\ liveReport = [d \in Dirs |-> NotReady] /\ liveProof = [d \in Dirs |-> NotReady]
  /\ refreshProof = [d \in Dirs |-> NotReady] /\ direct = NotReady
  /\ refresh = Waiting

----------------------------------------------------------------------------
Appends(records) == audit + records <= MaxAudit /\ audit' = audit + records

\* Turns of a thread among these that have come to their end.
Ended(t, places) ==
  Cardinality({i \in places : performed[i].control.thread = t /\ performed[i].done})

\* The gate performs a control under a dry run of the same control that it has not used.
GatePerforms(control, id, done) ==
  /\ \A i \in DOMAIN performed : performed[i].approval # id
  /\ Len(performed) < MaxPerformed
  /\ performed' = Append(performed, [control |-> control, approval |-> id, done |-> done])
  /\ overlapped' = IF reading[control.thread] = NoFile THEN overlapped
                   ELSE overlapped \cup {control.thread}

\* Somebody else uses the gate meanwhile.
OthersDryRun ==
  /\ Appends(1)
  /\ UNCHANGED << wall, performed, indexVars, overlapped, smoke, fileVars, refresh >>

----------------------------------------------------------------------------
Step(o, run) == smoke' = [smoke EXCEPT ![o] = run]
Failed(o) == [Resting EXCEPT !.at = "report", !.dir = smoke[o].dir]

\* runOpenClawGatewayLiveControlSmoke: when the route is not valid, or the catalogue
\* fails or lacks a tool, nothing else is called.
StartSmoke(o, d, control) ==
  /\ smoke[o].at = "idle"
  /\ LET run == [Resting EXCEPT !.at = "dry", !.dir = d, !.control = control]
         blocked == [Resting EXCEPT !.at = "report", !.dir = d]
     IN \E next \in {run, blocked} : Step(o, next)
  /\ UNCHANGED << wall, audit, performed, indexVars, overlapped, fileVars, refresh >>

\* The answer comes and proves a dry run of this control, or it does not.
DryRun(o) ==
  /\ smoke[o].at = "dry"
  /\ \/ /\ Appends(1)
        /\ \/ Step(o, [smoke[o] EXCEPT !.at = "live", !.dry = audit'])
           \/ Step(o, Failed(o))
     \/ UNCHANGED audit /\ Step(o, Failed(o))
  /\ UNCHANGED << wall, performed, indexVars, overlapped, fileVars, refresh >>

\* The control is performed and answered, performed while the call fails or times out,
\* or refused.
Live(o) ==
  LET control == smoke[o].control
  IN /\ smoke[o].at = "live"
     /\ \/ /\ Appends(1)
           /\ \E done \in BOOLEAN : GatePerforms(control, smoke[o].dry, done)
           /\ \/ Step(o, [smoke[o] EXCEPT !.at = "answer", !.live = audit'])
              \/ Step(o, Failed(o))
        \/ UNCHANGED << audit, performed, overlapped >> /\ Step(o, Failed(o))
     /\ UNCHANGED << wall, indexVars, fileVars, refresh >>

\* Slip: a send is taken for proven while its turn is still in progress.
AcceptsInProgress(deed) == TRUE

\* validLive: what the answer must say of what was performed.
ValidLive(deed) == deed.control.action = "send" => deed.done

\* The answer is judged, and this is the time of the action.
TakeAnswer(o) ==
  /\ smoke[o].at = "answer"
  /\ \E i \in DOMAIN performed :
       /\ performed[i].approval = smoke[o].dry
       /\ Step(o, IF ValidLive(performed[i])
                  THEN [smoke[o] EXCEPT !.at = "tail", !.observed = wall] ELSE Failed(o))
  /\ UNCHANGED << wall, audit, performed, indexVars, overlapped, fileVars, refresh >>

\* Both records must still be among the last ones, and the call may fail.
ReadTail(o) ==
  /\ smoke[o].at = "tail"
  /\ \/ /\ \A i \in {smoke[o].dry, smoke[o].live} : i + TailLimit > audit
        /\ Step(o, [smoke[o] EXCEPT !.at = "report", !.ready = TRUE])
     \/ Step(o, Failed(o))
  /\ UNCHANGED << wall, audit, performed, indexVars, overlapped, fileVars, refresh >>

\* The report first, the runtime proof after, both also of a run that failed.
WriteReport(o) ==
  /\ smoke[o].at = "report"
  /\ liveReport' = [liveReport EXCEPT ![smoke[o].dir] =
       IF ~smoke[o].ready THEN NotReady
       ELSE [ready |-> TRUE, control |-> smoke[o].control, approval |-> smoke[o].dry,
             observed |-> smoke[o].observed]]
  /\ Step(o, [smoke[o] EXCEPT !.at = "proof"])
  /\ UNCHANGED << wall, audit, performed, indexVars, overlapped, liveProof, refreshProof,
                  direct, refresh >>

WriteProof(o) ==
  /\ smoke[o].at = "proof"
  /\ liveProof' = [liveProof EXCEPT ![smoke[o].dir] =
       IF smoke[o].ready THEN [ready |-> TRUE, approval |-> smoke[o].dry] ELSE NotReady]
  /\ Step(o, Resting)
  /\ UNCHANGED << wall, audit, performed, indexVars, overlapped, liveReport, refreshProof,
                  direct, refresh >>

Die(o) ==
  /\ smoke[o].at # "idle" /\ Step(o, Resting)
  /\ UNCHANGED << wall, audit, performed, indexVars, overlapped, fileVars, refresh >>

\* runLiveControlSmoke, the same gate in its own process: only a send whose turn it saw
\* completed is proven, and a run that fails leaves its failure in the file or, when it
\* dies, what an earlier one left there.
DirectSmoke(t) ==
  LET control == [action |-> "send", thread |-> t]
      id == audit + 1
  IN /\ Appends(2)
     /\ \E done \in BOOLEAN :
          /\ GatePerforms(control, id, done)
          /\ direct' \in {direct, IF done THEN [ready |-> TRUE, control |-> control,
                                                approval |-> id] ELSE NotReady}
     /\ UNCHANGED << wall, indexVars, smoke, liveReport, liveProof, refreshProof, refresh >>

----------------------------------------------------------------------------
\* An index run reads the file of a thread, and stores it some time later under the
\* time of then.  A file that has not changed is passed over.
IndexReads(t) ==
  /\ reading[t] = NoFile /\ Ended(t, DOMAIN performed) # stored[t].shows
  /\ reading' = [reading EXCEPT ![t] = Ended(t, DOMAIN performed)]
  /\ UNCHANGED << wall, audit, performed, stored, overlapped, smoke, fileVars, refresh >>

IndexStores(t) ==
  /\ reading[t] # NoFile
  /\ stored' = [stored EXCEPT ![t] = [at |-> wall, shows |-> reading[t]]]
  /\ reading' = [reading EXCEPT ![t] = NoFile]
  /\ UNCHANGED << wall, audit, performed, overlapped, smoke, fileVars, refresh >>

\* readLiveProof: a report that is not ready, or of another thread, is answered without
\* a call.
StartRefresh(d, t) ==
  LET report == liveReport[d]
      accepted == report.ready /\ report.control.thread = t
  IN /\ refresh.at = "idle"
     /\ refresh' = IF accepted
                   THEN [Waiting EXCEPT !.at = "ask", !.dir = d, !.report = report]
                   ELSE [Waiting EXCEPT !.at = "write", !.dir = d]
     /\ UNCHANGED << wall, audit, performed, indexVars, overlapped, smoke, fileVars >>

\* Slip: a refresh in the millisecond of the action is good enough.
SameTick(later, earlier) == later >= earlier

TimestampAfter(later, earlier) == later > earlier

\* Thread map, search, describe and expand: any may fail, and the first tells when the
\* thread was stored.
AskIndex ==
  /\ refresh.at = "ask"
  /\ LET row == stored[refresh.report.control.thread]
     IN \/ /\ TimestampAfter(row.at, refresh.report.observed)
           /\ refresh' = [refresh EXCEPT !.at = "write", !.shows = row.shows]
        \/ refresh' = [Waiting EXCEPT !.at = "write", !.dir = refresh.dir]
  /\ UNCHANGED << wall, audit, performed, indexVars, overlapped, smoke, fileVars >>

WriteRefresh ==
  /\ refresh.at = "write"
  /\ refreshProof' = [refreshProof EXCEPT ![refresh.dir] =
       IF refresh.report = NoFile THEN NotReady
       ELSE [ready |-> TRUE, report |-> refresh.report, shows |-> refresh.shows]]
  /\ refresh' = Waiting
  /\ UNCHANGED << wall, audit, performed, indexVars, overlapped, smoke, liveReport,
                  liveProof, direct >>

TimePasses ==
  /\ wall < MaxWall /\ wall' = wall + 1
  /\ UNCHANGED << audit, performed, indexVars, overlapped, smoke, fileVars, refresh >>

Next ==
  \/ \E o \in Operators :
       \/ \E d \in Dirs, c \in Controls : StartSmoke(o, d, c)
       \/ DryRun(o) \/ Live(o) \/ TakeAnswer(o) \/ ReadTail(o) \/ WriteReport(o)
       \/ WriteProof(o) \/ Die(o)
  \/ OthersDryRun \/ \E t \in Sacrificed : DirectSmoke(t) \/ IndexReads(t) \/ IndexStores(t)
  \/ \E d \in Dirs, t \in Sacrificed : StartRefresh(d, t)
  \/ AskIndex \/ WriteRefresh \/ TimePasses

Spec == Init /\ [][Next]_vars

----------------------------------------------------------------------------
\* validateWorkingAppRuntimeProof
WorkingAppReady(d) == liveProof[d].ready /\ refreshProof[d].ready

Under(id) == {i \in DOMAIN performed : performed[i].approval = id}

\* One control ran under this approval, and a send to the end of its turn.
Earned(id) ==
  /\ Cardinality(Under(id)) = 1
  /\ \A i \in Under(id) : performed[i].control.action = "send" => performed[i].done

EarnedFor(file) ==
  Earned(file.approval) /\ \A i \in Under(file.approval) : performed[i].control = file.control

\* Whatever says that a control ran rests on one that ran once, under the approval and
\* on the thread it names, and a send to its end: each report on the disk, and the two
\* files of the working-app gate, which may be of different runs.
RunsAreEarned ==
  /\ \A d \in Dirs : liveReport[d].ready => EarnedFor(liveReport[d])
  /\ direct.ready => EarnedFor(direct)
  /\ \A d \in Dirs :
       WorkingAppReady(d) => Earned(liveProof[d].approval) /\ EarnedFor(refreshProof[d].report)

\* A proof that the thread was refreshed after the action rests on a text of the thread
\* that shows the turn, unless an index run that had read the thread before the action
\* stored it after: the time of a row is that of storing.
RefreshSawTheDeed ==
  \A d \in Dirs : refreshProof[d].ready =>
    LET proof == refreshProof[d]
        thread == proof.report.control.thread
    IN thread \in overlapped \/ \A i \in Under(proof.report.approval) :
         performed[i].done => proof.shows >= Ended(thread, 1..i)

\* The proofs of a live control rest on what was done.
ProofsAreEarned == RunsAreEarned /\ RefreshSawTheDeed

----------------------------------------------------------------------------
(* Why the proofs are earned: what is known of a control by its approval,  *)
(* from the answer of the gate to the last file that names it.             *)

Deeds == [control : Controls, approval : Nat, done : BOOLEAN]

Reports == [ready : {TRUE}, control : Controls, approval : Nat, observed : Nat]

Smokes ==
  [at : {"idle", "dry", "live", "answer", "tail", "report", "proof"}, dir : Dirs \cup {NoFile},
   control : Controls \cup {NoFile}, dry : Nat, live : Nat, observed : Nat, ready : BOOLEAN]

TypeInv ==
  /\ wall \in Nat /\ audit \in Nat /\ performed \in Seq(Deeds)
  /\ stored \in [Sacrificed -> [at : 0 .. wall, shows : Nat]]
  /\ reading \in [Sacrificed -> Nat \cup {NoFile}]
  /\ smoke \in [Operators -> Smokes]
  /\ liveReport \in [Dirs -> Reports \cup {NotReady}]
  /\ liveProof \in [Dirs -> [ready : {TRUE}, approval : Nat] \cup {NotReady}]
  /\ refreshProof \in [Dirs -> [ready : {TRUE}, report : Reports, shows : Nat] \cup {NotReady}]
  /\ direct \in [ready : {TRUE}, control : Controls, approval : Nat] \cup {NotReady}
  /\ refresh \in [at : {"idle", "ask", "write"}, dir : Dirs \cup {NoFile},
                  report : Reports \cup {NoFile}, shows : Nat \cup {NoFile}]

\* No approval is used twice, and who reads a thread now reads all that was done with
\* it, unless the reading was under way then.
DeedsInv ==
  /\ \A i, j \in DOMAIN performed : performed[i].approval = performed[j].approval => i = j
  /\ \A i \in DOMAIN performed :
       LET t == performed[i].control.thread
       IN t \in overlapped \/ reading[t] = NoFile \/ reading[t] >= Ended(t, 1 .. i)

Answered(id, control) == \E i \in Under(id) : performed[i].control = control

Proven(id, control) ==
  \E i \in Under(id) : performed[i].control = control /\ ValidLive(performed[i])

\* A text shows the turn of the control, or it was read during one.
Shows(id, t, shows) ==
  \A i \in Under(id) : t \in overlapped \/ shows >= Ended(t, 1 .. i)

\* What was stored after this time shows the turn.
Timely(id, t, observed) ==
  stored[t].at > observed => Shows(id, t, stored[t].shows)

Reported(report) ==
  /\ Proven(report.approval, report.control)
  /\ Timely(report.approval, report.control.thread, report.observed)

Refreshed(report, shows) ==
  /\ Proven(report.approval, report.control)
  /\ Shows(report.approval, report.control.thread, shows)

\* A smoke knows its control, and from the answer on that it was performed.
Sound(s) ==
  /\ s.ready => s.at \in {"report", "proof"}
  /\ s.at \in {"dry", "live", "answer", "tail"} \/ s.ready => s.control \in Controls
  /\ s.at = "answer" => Answered(s.dry, s.control)
  /\ s.at = "tail" \/ s.ready =>
       /\ Proven(s.dry, s.control)
       /\ Timely(s.dry, s.control.thread, s.observed)

SmokeInv == \A o \in Operators : Sound(smoke[o])

FilesInv ==
  /\ \A d \in Dirs :
       /\ liveReport[d].ready => Reported(liveReport[d])
       /\ liveProof[d].ready => \E c \in Controls : Proven(liveProof[d].approval, c)
       /\ refreshProof[d].ready => Refreshed(refreshProof[d].report, refreshProof[d].shows)
  /\ direct.ready => Proven(direct.approval, direct.control)

RefreshInv ==
  /\ refresh.at = "ask" => refresh.report # NoFile /\ Reported(refresh.report)
  /\ refresh.at = "write" /\ refresh.report # NoFile =>
       refresh.shows # NoFile /\ Refreshed(refresh.report, refresh.shows)

ProofInv == TypeInv /\ DeedsInv /\ SmokeInv /\ FilesInv /\ RefreshInv
=============================================================================
