------------------------------ MODULE AuditLog ------------------------------
(***************************************************************************)
(* The audit file of createAuditStore (packages/adapters/src/index.ts): an *)
(* append-only JSONL file that several processes may open at once.  A file *)
(* is a record [lines, torn]: the lines a reader gets by splitting the     *)
(* text, and whether the last one has no newline because the write that    *)
(* made it was cut (a crash, a full disk).  The next append then continues *)
(* that line, and the two records on it no longer parse.                   *)
(*                                                                         *)
(* A line is a record, or Corrupt when JSON.parse would throw on it.  The  *)
(* action, the target and the parameters' hash of a control are one value, *)
(* its binding: the code only ever compares the three together.            *)
(***************************************************************************)
EXTENDS Integers, Sequences

CONSTANTS Bindings,    \* the control requests: action, target, parameters
          NoBinding

ASSUME BindingsAssumption == NoBinding \notin Bindings

NoId == 0

(***************************************************************************)
(* AuditRecord.  kind stands for approvalState; live is TRUE exactly in    *)
(* the "completed" ones, and approval is NoId where approvalAuditId is     *)
(* undefined.                                                              *)
(***************************************************************************)
Kinds == {"dry_run", "claimed", "completed", "corrupt"}

Line == [kind : Kinds, id : Nat, approval : Nat,
         binding : Bindings \cup {NoBinding}, created : Nat]

File == [lines : Seq(Line), torn : BOOLEAN]

AuditRecord(kind, id, approval, binding, time) ==
  [kind |-> kind, id |-> id, approval |-> approval,
   binding |-> binding, created |-> time]

Corrupt == AuditRecord("corrupt", NoId, NoId, NoBinding, 0)

EmptyFile == [lines |-> << >>, torn |-> FALSE]

(***************************************************************************)
(* append: appendFileSync(path, JSON + "\n").  CutAppend is the files a    *)
(* write that is cut can leave: nothing of it, a prefix of the record, or  *)
(* the whole record without its newline, which still parses.               *)
(***************************************************************************)
SpoilLast(file) == [file.lines EXCEPT ![Len(file.lines)] = Corrupt]

AppendRecord(file, rec) ==
  [lines |-> IF file.torn THEN SpoilLast(file) ELSE Append(file.lines, rec),
   torn  |-> FALSE]

CutAppend(file, rec) ==
  {file} \cup
    IF file.torn
    THEN {[lines |-> SpoilLast(file), torn |-> TRUE]}
    ELSE {[lines |-> Append(file.lines, Corrupt), torn |-> TRUE],
          [lines |-> Append(file.lines, rec),     torn |-> TRUE]}

(***************************************************************************)
(* find: scan from the last line up, and return the first record with this *)
(* id; a line that does not parse ends the scan with an exception.         *)
(***************************************************************************)
\* A slip: a lenient scan, which skips the lines that do not parse.
SkipsCorruptLines(file, i) == file.lines[i].kind # "corrupt"

ScanReaches(file, i) ==
  \A k \in i .. Len(file.lines) : file.lines[k].kind # "corrupt"

FindHits(file, id) ==
  {i \in DOMAIN file.lines : file.lines[i].id = id /\ ScanReaches(file, i)}

Finds(file, id) == FindHits(file, id) # {}

\* Ids are never reused, so there is at most one such line.
Find(file, id) == file.lines[CHOOSE i \in FindHits(file, id) : TRUE]

(***************************************************************************)
(* hasApprovalUse: some line that parses names this approval.              *)
(***************************************************************************)
HasApprovalUse(file, id) ==
  \E i \in DOMAIN file.lines :
    file.lines[i].kind # "corrupt" /\ file.lines[i].approval = id

\* The record with this id has its newline: no later append spoils it.
Finished(file, id) ==
  \E i \in DOMAIN file.lines :
    file.lines[i].id = id /\ (i = Len(file.lines) => ~file.torn)
=============================================================================
