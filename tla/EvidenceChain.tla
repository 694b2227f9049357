---------------------------- MODULE EvidenceChain ----------------------------
(***************************************************************************)
(* The evidence of a release: reports of smokes and of live controls, the  *)
(* reports made of them (tool coverage, the matrix of live controls, the   *)
(* desktop contract, the QA run, its reviews, the finalization status) and *)
(* the GA smoke that reads these and says whether the release is ready.    *)
(* (src/packages/cli/src/release-ga-smoke.ts, qa-lab-run.ts,               *)
(* qa-lab-live-control-matrix.ts, qa-lab-desktop-contract.ts,              *)
(* qa-lab-review.ts, release-finalization-status.ts)                       *)
(*                                                                         *)
(* All of them are files of one directory, made one at a time, at any time *)
(* and in any order, while the candidate may move on under the same        *)
(* version.  Who makes one gives the candidate of that moment.  The field  *)
(* rests is not in the files: all the reports that one goes back to, each  *)
(* with the candidate there was when it was made.                          *)
(***************************************************************************)
EXTENDS Naturals, FiniteSets

CONSTANTS TriedThreads, \* threads that live controls were tried on
          NoFile,       \* a report that is not there, a path that is not given
          NoSha,        \* a report that names no candidate
          MaxHead,      \* bound: candidates
          MaxMakes      \* bound: reports made after those of the beginning

VARIABLES head,      \* the candidate that is being released
          file,      \* the reports of the evidence directory
          makes      \* bound counter

vars == << head, file, makes >>

-----------------------------------------------------------------------------
(* The claim scopes, of those with and without live control one each.      *)

Scopes == { "codex-live-control", "codex-read-search-expand-dry-run" }
RequiresLiveControl(scope) == scope = "codex-live-control"

Controls == { "send", "steer" }
Names == { "smoke", "workflow", "readiness", "coverage", "matrix", "desktop",
           "run", "review", "finalization" } \cup Controls

(* What names the candidate it was made for: it is compared downstream.    *)
Bound == { "workflow", "coverage", "matrix", "desktop", "run", "finalization" }

Rests(names) == UNION { file[n].rests : n \in { m \in names : file[m] # NoFile } }

Self(n, ready, of) ==
  [name |-> n, ready |-> ready, of |-> IF n \in Bound THEN of ELSE NoSha]

(* A report n made now, from those that are named.                         *)
Report(n, ready, says, from) ==
  [ready |-> ready, says |-> says, rests |-> {Self(n, ready, head)} \cup Rests(from)]

(* A report with what only its kind says.                                  *)
With(report, more) ==
  [f \in DOMAIN report \cup DOMAIN more |->
     IF f \in DOMAIN report THEN report[f] ELSE more[f]]

Make(n, report) ==
  /\ makes < MaxMakes
  /\ makes' = makes + 1
  /\ file' = [file EXCEPT ![n] = report]
  /\ UNCHANGED head

Is(n) == file[n] # NoFile
IsReady(n) == Is(n) /\ file[n].ready

-----------------------------------------------------------------------------
(* Reports of what was run: a tool smoke names no candidate, a workflow    *)
(* does, and so does what else the run takes (product smoke, sweeps, scan).*)

ToolSmoke(ready) == Make("smoke", Report("smoke", ready, NoSha, {}))
Workflow(ready) == Make("workflow", Report("workflow", ready, head, {}))
Readiness(ready, says) == Make("readiness", Report("readiness", ready, says, {}))

(* A live control, on a thread, of a turn that is named or of any.         *)
Control(action, ready, target, turnBound) ==
  Make(action, With(Report(action, ready, NoSha, {}),
                    [action |-> action, target |-> target, turnBound |-> turnBound]))

-----------------------------------------------------------------------------
(* What is made of them.                                                   *)

Coverage(policy) ==
  Make("coverage", With(Report("coverage", IsReady("smoke"), head, {"smoke"}),
                        [policy |-> policy]))

ContractReady(withSha) ==
  /\ IsReady("readiness")
  /\ withSha /\ file["readiness"].says # NoSha => file["readiness"].says = head

(* Made without the option, the contract takes what the readiness says.    *)
ReportSha(withSha) == IF withSha THEN head ELSE file["readiness"].says

DesktopContract(withSha) ==
  /\ Is("readiness")
  /\ Make("desktop", Report("desktop", ContractReady(withSha),
                            ReportSha(withSha), {"readiness"}))

ActionSpecific(r) == r.action = "steer" => r.turnBound

Row(action, path, sacrificed) ==
  IF path = NoFile \/ file[path] = NoFile
  THEN [action |-> action, ready |-> FALSE, target |-> NoFile, turnBound |-> FALSE]
  ELSE LET r == file[path] IN
       [action |-> action,
        ready |-> /\ r.ready /\ r.action = action /\ r.target \in sacrificed
                  /\ ActionSpecific(r),
        target |-> IF r.target \in sacrificed THEN r.target ELSE NoFile,
        turnBound |-> r.turnBound]

(* Two controls that are claimed must not have been tried on one thread.   *)
Isolated(rows) ==
  { [r EXCEPT !.ready = @ /\ \A s \in rows \ {r} : s.target # r.target
                               \/ s.target = NoFile] : r \in rows }

MatrixRows(scope, paths, sacrificed) ==
  LET rows == { Row(a, paths[a], sacrificed) : a \in Controls }
  IN IF RequiresLiveControl(scope) THEN Isolated(rows) ELSE {}

Matrix(scope, paths, sacrificed) ==
  LET required == MatrixRows(scope, paths, sacrificed)
      ready == /\ \A r \in required : r.ready
               /\ RequiresLiveControl(scope) => sacrificed # {}
      read == IF RequiresLiveControl(scope)
              THEN { paths[a] : a \in Controls } \ {NoFile} ELSE {}
  IN Make("matrix", With(Report("matrix", ready, head, read), [rows |-> required]))

AllRows(rows) == Cardinality({ r \in rows : r.ready }) = Cardinality(Controls)

-----------------------------------------------------------------------------
(* The QA run.                                                             *)

\* A slip: a report that names a candidate is not compared with it.
PackageTruthOfSome(n) == file[n].says # NoSha

PackageTruth(n) == file[n].says = head

NotRequired(n, scope, given) ==
  n = "matrix" /\ ~RequiresLiveControl(scope) /\ ~given

SourceReadiness(n, scope) ==
  /\ file[n].ready
  /\ n = "coverage" => file[n].policy = "full"
  /\ n = "matrix" /\ RequiresLiveControl(scope) => AllRows(file[n].rows)

RunEvidence == { "coverage", "workflow", "desktop", "matrix" }

Run(scope, given) ==
  LET read == { n \in RunEvidence : ~NotRequired(n, scope, given) }
      ready == \A n \in read : Is(n) /\ PackageTruth(n) /\ SourceReadiness(n, scope)
  IN Make("run", Report("run", ready, head, read))

(* The judge's review and the adversarial one read the run's scores.       *)
Review == Make("review", Report("review", IsReady("run"), NoSha, {"run"}))

(* npm, the tag and the GitHub release are looked up for the candidate.    *)
Finalization(published) == Make("finalization", Report("finalization", published, head, {}))

-----------------------------------------------------------------------------
(* The GA smoke, for the candidate and the scope it is given.              *)

LiveMatrixOk(scope) ==
  RequiresLiveControl(scope) =>
    /\ AllRows(file["matrix"].rows)
    /\ \A r \in file["matrix"].rows :
         r.action = "steer" => r.turnBound

Says(n, c) == Is(n) /\ file[n].says = c

(* Findings of the lowest severity do not block: a ready report has no     *)
(* others.                                                                 *)
NoFinding(n) == file[n].ready

(* It takes a run for what it is, and a workflow for one.                  *)
QaLabRunOk(c, path) == Says(path, c) /\ NoFinding(path)

ToolCoverageOk(c) ==
  Says("coverage", c) /\ NoFinding("coverage") /\ file["coverage"].policy = "full"

LiveControlMatrixOk(c, scope) ==
  Says("matrix", c) /\ NoFinding("matrix") /\ LiveMatrixOk(scope)

ReviewOk == IsReady("review")

FinalizationOk(c) == Says("finalization", c) /\ file["finalization"].ready

GaRead(path) == { "smoke", "coverage", "matrix", "review", "finalization", path }

GaReady(c, scope, path) ==
  /\ IsReady("smoke") /\ ReviewOk /\ QaLabRunOk(c, path) /\ ToolCoverageOk(c)
  /\ LiveControlMatrixOk(c, scope) /\ FinalizationOk(c)

-----------------------------------------------------------------------------
(* A commit: the candidate moves on, the version does not.                 *)
Commit ==
  /\ head < MaxHead
  /\ head' = head + 1
  /\ UNCHANGED << file, makes >>

(* At first there is the evidence of a candidate that was ready, under     *)
(* either scope; the next one is there, and some reports are made for it.  *)
Earlier(n, of, from) ==
  [ready |-> TRUE, says |-> IF n \in Bound THEN of[n] ELSE NoSha,
   rests |-> { Self(m, TRUE, of[m]) : m \in from \cup {n} }]

Evidence(of, tried, row) ==
  LET scoped == IF tried = {} THEN {} ELSE {"matrix"}
      inputs == { "smoke", "readiness", "coverage", "workflow", "desktop" }
                  \cup scoped \cup tried
      first == [n \in Names |-> 1]
  IN [n \in Names |->
       CASE n \in tried -> With(Earlier(n, first, {}), row[n])
         [] n \in Controls \ tried -> NoFile
         [] n = "coverage" -> With(Earlier(n, of, {"smoke"}), [policy |-> "full"])
         [] n = "matrix" -> With(Earlier(n, of, tried),
                                 [rows |-> { row[a] : a \in tried }])
         [] n = "desktop" -> Earlier(n, of, {"readiness"})
         [] n = "run" -> Earlier(n, first, inputs)
         [] n = "review" -> Earlier(n, first, inputs \cup {"run"})
         [] OTHER -> Earlier(n, of, {})]

Init ==
  /\ head = 2
  /\ makes = 0
  /\ \E again \in SUBSET { "coverage", "workflow", "desktop", "matrix",
                           "finalization" },
        tried \in { {}, Controls } :
       \E on \in { f \in [Controls -> TriedThreads] : f["send"] # f["steer"] } :
         file = Evidence([n \in Names |-> IF n \in again THEN 2 ELSE 1], tried,
                         [a \in Controls |-> [action |-> a, ready |-> TRUE,
                            turnBound |-> TRUE, target |-> on[a]]])

Next ==
  \/ \E ready \in BOOLEAN :
       \/ ToolSmoke(ready)
       \/ Workflow(ready)
       \/ \E says \in { head, NoSha } : Readiness(ready, says)
       \/ \E a \in Controls, t \in TriedThreads, b \in BOOLEAN : Control(a, ready, t, b)
       \/ Finalization(ready)
  \/ \E policy \in { "full", "public-facade" } : Coverage(policy)
  \/ \E withSha \in BOOLEAN : DesktopContract(withSha)
  \/ \E scope \in Scopes, sacrificed \in SUBSET TriedThreads,
        paths \in [Controls -> Controls \cup {NoFile}] : Matrix(scope, paths, sacrificed)
  \/ \E scope \in Scopes, given \in BOOLEAN : Run(scope, given)
  \/ Review
  \/ Commit

Spec == Init /\ [][Next]_vars

-----------------------------------------------------------------------------
(* A GA smoke that is ready rests, through however many reports, on no     *)
(* report that was not ready; each of those that name a candidate, and     *)
(* those these were made from, were made when its candidate was the one    *)
(* there was; and a claim of live control rests on every one of the        *)
(* controls, each tried on a thread of its own.  Tool smokes, controls and *)
(* readiness name no candidate: they may be those of one before.           *)
GaIsGrounded ==
  \A c \in 1 .. head, scope \in Scopes, path \in { "run", "workflow" } :
    GaReady(c, scope, path) =>
      /\ \A r \in Rests(GaRead(path)) : r.ready
      /\ \A r \in Rests({ "coverage", "matrix", "finalization", path }) :
           r.name \in Bound => r.of = c
      /\ RequiresLiveControl(scope) =>
           /\ Controls \subseteq { r.name : r \in file["matrix"].rests }
           /\ \A r, s \in file["matrix"].rows : r # s => r.target # s.target

-----------------------------------------------------------------------------
(* What every step keeps: what each report says of those it rests on.      *)

RestsOn(report, c) == \A r \in report.rests : r.name \in Bound => r.of = c

(* A matrix with rows is one of both controls, each on a thread of its own.*)
BothApart(matrix) ==
  /\ Controls \subseteq { r.name : r \in matrix.rests }
  /\ \A r, s \in matrix.rows : r # s => r.target # s.target

(* A report that is ready rests on such.  One that names no candidate      *)
(* rests on none that does; the desktop contract may name one that is      *)
(* older than itself; a run that is ready names that of all it was made    *)
(* from.                                                                   *)
Told(n, report) ==
  /\ report.ready => \A r \in report.rests : r.ready
  /\ n \in { "smoke", "readiness" } \cup Controls =>
       \A r \in report.rests : r.name \notin Bound
  /\ n = "readiness" /\ report.says # NoSha => report.says \in 0 .. head
  /\ n \in { "coverage", "workflow", "matrix", "finalization" } => RestsOn(report, report.says)
  /\ n = "run" /\ report.ready => RestsOn(report, report.says)
  /\ n = "desktop" /\ report.says # NoSha =>
       /\ report.says \in 0 .. head
       /\ \A r \in report.rests : r.name \in Bound => r.of \in report.says .. head
  /\ n \in Controls => report.action = n /\ \E r \in report.rests : r.name = n
  /\ n = "matrix" /\ report.ready => report.rows = {} \/ BothApart(report)

ChainInv ==
  /\ head \in Nat /\ file = [n \in Names |-> file[n]]
  /\ \A n \in Names : Is(n) => Told(n, file[n])
=============================================================================
