--------------------------- MODULE TargetControl ---------------------------
(***************************************************************************)
(* createTargetControl (packages/adapters/src/index.ts): the gate between  *)
(* a caller and Codex.  A dry run writes an audit record whose id is the   *)
(* approval; the live call must present that id, and the gate looks it up, *)
(* matches it, checks that nobody used it, writes a claim, and only then   *)
(* hands the control to the transport.                                     *)
(*                                                                         *)
(* The calls of one process share an event loop: from the lookup to the    *)
(* claim the code never awaits, so no other call of that process runs in   *)
(* between.  Another process that opened the same file may, and a crash    *)
(* may cut any write.                                                      *)
(***************************************************************************)
EXTENDS AuditLog, FiniteSets

CONSTANTS Procs,       \* processes that opened the audit file
          Calls,       \* call slots, each reused after its result
          ProcOf,      \* the process a slot belongs to
          TTL,         \* CODEX_CONTROL_DRY_RUN_TTL_MS, in ticks
          MaxTime,     \* bound on the clock
          MaxId,       \* bound on the audit records minted
          MaxCuts      \* bound on the writes that are cut

ASSUME ProcOfAssumption == ProcOf \in [Calls -> Procs]
ASSUME BoundsAssumption == /\ TTL \in Nat /\ MaxTime \in Nat
                           /\ MaxId \in Nat /\ MaxCuts \in Nat

VARIABLES
  file,       \* the audit file
  nextId,     \* randomUUID: every id is new
  now,        \* Date.now()
  cuts,       \* writes cut so far
  pc,         \* where a call is
  approval,   \* its approvalAuditId
  binding,    \* its control
  outcome,    \* what the transport answered
  ran,        \* history: Codex performed this call's control
  report,     \* control_sent of its result, as the caller sees it
  closing,    \* history: the id of the record that was to close it
  granted,    \* history: the control each approval was minted for
  uses        \* history: the controls claimed under each approval

fileVars == << file, nextId, cuts >>
callVars == << pc, approval, binding, outcome, ran, report, closing >>
history  == << granted, uses >>
vars     == << fileVars, now, callVars, history >>

Ids         == 1 .. MaxId
Outcomes    == {"accepted", "refused", "gated", "indeterminate"}
Reports     == {"none", "dry_run", "sent", "not_sent", "unknown"}
Places      == {"idle", "matched", "unused", "claimed", "answered"}
Synchronous == {"matched", "unused"}

TypeOK ==
  /\ file \in File
  /\ nextId \in 1 .. MaxId + 1
  /\ now \in 0 .. MaxTime
  /\ cuts \in 0 .. MaxCuts
  /\ pc \in [Calls -> Places]
  /\ approval \in [Calls -> Ids \cup {NoId}]
  /\ binding \in [Calls -> Bindings \cup {NoBinding}]
  /\ outcome \in [Calls -> Outcomes \cup {"none"}]
  /\ ran \in [Calls -> BOOLEAN]
  /\ report \in [Calls -> Reports]
  /\ closing \in [Calls -> Ids \cup {NoId}]
  /\ granted \in [Ids -> Bindings \cup {NoBinding}]
  /\ uses \in [Ids -> Seq(Bindings \cup {NoBinding})]

Init ==
  /\ file = EmptyFile
  /\ nextId = 1
  /\ now = 0
  /\ cuts = 0
  /\ pc = [c \in Calls |-> "idle"]
  /\ approval = [c \in Calls |-> NoId]
  /\ binding = [c \in Calls |-> NoBinding]
  /\ outcome = [c \in Calls |-> "none"]
  /\ ran = [c \in Calls |-> FALSE]
  /\ report = [c \in Calls |-> "none"]
  /\ closing = [c \in Calls |-> NoId]
  /\ granted = [a \in Ids |-> NoBinding]
  /\ uses = [a \in Ids |-> << >>]

----------------------------------------------------------------------------
\* No other call of this process is between its lookup and its claim.
LoopFree(c) ==
  \A d \in Calls \ {c} : ProcOf[d] = ProcOf[c] => pc[d] \notin Synchronous

\* The slots in S are free again: the caller was told value, or nothing.
Free(S, value) ==
  /\ pc' = [c \in Calls |-> IF c \in S THEN "idle" ELSE pc[c]]
  /\ approval' = [c \in Calls |-> IF c \in S THEN NoId ELSE approval[c]]
  /\ binding' = [c \in Calls |-> IF c \in S THEN NoBinding ELSE binding[c]]
  /\ report' = [c \in Calls |-> IF c \in S THEN value ELSE report[c]]

Return(c, value) == Free({c}, value)

\* The calls of a process that dies return nothing.
Die(p) == Free({c \in Calls : ProcOf[c] = p}, "none")

\* A call that begins has sent nothing yet.
Fresh(c) ==
  /\ outcome' = [outcome EXCEPT ![c] = "none"]
  /\ ran' = [ran EXCEPT ![c] = FALSE]
  /\ closing' = [closing EXCEPT ![c] = NoId]

Write(rec) ==
  /\ nextId <= MaxId
  /\ file' = AppendRecord(file, rec)
  /\ nextId' = nextId + 1
  /\ UNCHANGED cuts

\* A cut write either kills the process or throws in it (value is then what
\* the caller is told).
CutWrite(c, rec, value) ==
  /\ nextId <= MaxId
  /\ cuts < MaxCuts
  /\ file' \in CutAppend(file, rec)
  /\ nextId' = nextId + 1
  /\ cuts' = cuts + 1
  /\ \/ Die(ProcOf[c])
     \/ Return(c, value)

----------------------------------------------------------------------------
DryRunRecord(b) == AuditRecord("dry_run", nextId, NoId, b, now)

Mint(b) ==
  /\ granted' = [granted EXCEPT ![nextId] = b]
  /\ UNCHANGED uses

DryRun(c, b) ==
  /\ pc[c] = "idle" /\ LoopFree(c)
  /\ Write(DryRunRecord(b))
  /\ Mint(b)
  /\ Return(c, "dry_run")
  /\ Fresh(c)
  /\ UNCHANGED now

DryRunCut(c, b) ==
  /\ pc[c] = "idle" /\ LoopFree(c)
  /\ CutWrite(c, DryRunRecord(b), "not_sent")
  /\ Mint(b)
  /\ Fresh(c)
  /\ UNCHANGED now

----------------------------------------------------------------------------
\* Lines 849, 852 and 856: a dry-run record, for this control, not expired.
\*
\* A slip: any record with the id will do.
AnyRecordIsDryRun(rec) == TRUE

IsDryRun(rec) == rec.kind = "dry_run" /\ rec.approval = NoId

Unexpired(rec) == rec.created + TTL > now

\* A slip: the control of the dry run not compared.
MatchesAnyBinding(rec, b) == IsDryRun(rec) /\ Unexpired(rec)

Matches(rec, b) == IsDryRun(rec) /\ rec.binding = b /\ Unexpired(rec)

LookUp(c, a, b) ==
  /\ pc[c] = "idle" /\ LoopFree(c)
  /\ Fresh(c)
  /\ \/ /\ Finds(file, a) /\ Matches(Find(file, a), b)
        /\ pc' = [pc EXCEPT ![c] = "matched"]
        /\ approval' = [approval EXCEPT ![c] = a]
        /\ binding' = [binding EXCEPT ![c] = b]
        /\ report' = [report EXCEPT ![c] = "none"]
     \/ /\ ~(Finds(file, a) /\ Matches(Find(file, a), b))
        /\ Return(c, "not_sent")
  /\ UNCHANGED << fileVars, now, history >>

CheckUnused(c) ==
  /\ pc[c] = "matched"
  /\ \/ /\ ~HasApprovalUse(file, approval[c])
        /\ pc' = [pc EXCEPT ![c] = "unused"]
        /\ UNCHANGED << approval, binding, report >>
     \/ /\ HasApprovalUse(file, approval[c])
        /\ Return(c, "not_sent")
  /\ UNCHANGED << fileVars, now, outcome, ran, closing, history >>

ClaimRecord(c) == AuditRecord("claimed", nextId, approval[c], binding[c], now)

Claim(c) ==
  /\ pc[c] = "unused"
  /\ Write(ClaimRecord(c))
  /\ uses' = [uses EXCEPT ![approval[c]] = Append(@, binding[c])]
  /\ pc' = [pc EXCEPT ![c] = "claimed"]
  /\ UNCHANGED << now, approval, binding, outcome, ran, report, closing, granted >>

ClaimCut(c) ==
  /\ pc[c] = "unused"
  /\ CutWrite(c, ClaimRecord(c), "not_sent")
  /\ UNCHANGED << now, outcome, ran, closing, history >>

----------------------------------------------------------------------------
\* The request, and what the client makes of Codex's answer: accepted only
\* when Codex performed it, refused by an error or gated by the posture check
\* only when it did not, and unknown after a timeout or a lost connection.
MayRun(o) == CASE o = "accepted"      -> {TRUE}
               [] o = "indeterminate" -> BOOLEAN
               [] OTHER               -> {FALSE}

Send(c) ==
  /\ pc[c] = "claimed" /\ LoopFree(c)
  /\ \E o \in Outcomes :
       /\ outcome' = [outcome EXCEPT ![c] = o]
       /\ \E r \in MayRun(o) : ran' = [ran EXCEPT ![c] = r]
  /\ pc' = [pc EXCEPT ![c] = "answered"]
  /\ UNCHANGED << fileVars, now, approval, binding, report, closing, history >>

\* Lines 888 and 928: a timeout is not a refusal.
\*
\* A slip: a timeout read as a refusal.
TimeoutIsRefusal(o) == {"gated", "refused", "indeterminate"}

NotSentOutcomes(o) == {"gated", "refused"}

Answer(c) ==
  /\ pc[c] = "answered" /\ LoopFree(c)
  /\ \/ outcome[c] = "indeterminate" /\ Return(c, "unknown")
     \/ outcome[c] \in NotSentOutcomes(outcome[c]) /\ Return(c, "not_sent")
  /\ UNCHANGED << fileVars, now, outcome, ran, closing, history >>

CompletedRecord(c) ==
  AuditRecord("completed", nextId, approval[c], binding[c], now)

Complete(c) ==
  /\ pc[c] = "answered" /\ LoopFree(c)
  /\ outcome[c] = "accepted"
  /\ Write(CompletedRecord(c)) /\ closing' = [closing EXCEPT ![c] = nextId]
  /\ Return(c, "sent")
  /\ UNCHANGED << now, outcome, ran, history >>

\* The exception is not one the callers take for indeterminate: they report
\* that nothing was sent.
CompleteCut(c) ==
  /\ pc[c] = "answered" /\ LoopFree(c)
  /\ outcome[c] = "accepted"
  /\ CutWrite(c, CompletedRecord(c), "not_sent")
  /\ closing' = [closing EXCEPT ![c] = nextId]
  /\ UNCHANGED << now, outcome, ran, history >>

Crash(p) ==
  /\ \E c \in Calls : ProcOf[c] = p /\ pc[c] # "idle"
  /\ Die(p)
  /\ UNCHANGED << fileVars, now, outcome, ran, closing, history >>

Tick ==
  /\ now < MaxTime
  /\ now' = now + 1
  /\ UNCHANGED << fileVars, callVars, history >>

Next ==
  \/ \E c \in Calls, b \in Bindings : DryRun(c, b) \/ DryRunCut(c, b)
  \/ \E c \in Calls, b \in Bindings, a \in Ids : LookUp(c, a, b)
  \/ \E c \in Calls : \/ CheckUnused(c) \/ Claim(c) \/ ClaimCut(c)
                      \/ Send(c) \/ Answer(c)
                      \/ Complete(c) \/ CompleteCut(c)
  \/ \E p \in Procs : Crash(p)
  \/ Tick

Spec == Init /\ [][Next]_vars

----------------------------------------------------------------------------
(***************************************************************************)
(* Once a control was claimed under an approval, no later lookup can get   *)
(* past it, from any process and after any crash: the file either shows    *)
(* the use, or the scan for the approval no longer succeeds (a spoiled     *)
(* line lies behind the dry run, or the dry run itself is lost).           *)
(***************************************************************************)
SpentIsVisible ==
  \A a \in Ids : uses[a] # << >> => HasApprovalUse(file, a) \/ ~Finds(file, a)

(***************************************************************************)
(* Every control ever claimed is the one its approval was minted for.      *)
(***************************************************************************)
UsesWhatWasGranted ==
  \A a \in Ids : \A i \in DOMAIN uses[a] :
    granted[a] # NoBinding /\ uses[a][i] = granted[a]

(***************************************************************************)
(* A caller is told that its control was sent only if Codex performed it,  *)
(* and that it was not sent only if Codex did not, or the write of the     *)
(* record that closes this very call failed, and the audit file has no     *)
(* finished line of it: neither then nor after any later write.            *)
(***************************************************************************)
HonestReport ==
  \A c \in Calls : pc[c] = "idle" =>
    /\ report[c] = "sent" => ran[c]
    /\ report[c] = "not_sent" /\ ran[c] => closing[c] # NoId /\ ~Finished(file, closing[c])

(***************************************************************************)
(* An approval authorises one control.  This is what the callers are told, *)
(* and it holds when one process uses the audit file.                      *)
(***************************************************************************)
SingleUse == \A a \in Ids : Len(uses[a]) <= 1

Ledger == INSTANCE ApprovalLedger

(***************************************************************************)
(* With one process the gate implements the ledger: an approval is used at *)
(* most once, for the control it was granted for.                          *)
(***************************************************************************)
ImplementsLedger == Ledger!Spec
=============================================================================
