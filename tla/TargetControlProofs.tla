------------------------ MODULE TargetControlProofs ------------------------
(***************************************************************************)
(* The approval gate, for any number of processes, calls and records.      *)
(***************************************************************************)
EXTENDS TargetControl, TLAPS

----------------------------------------------------------------------------
(* What a write can do to the audit file, and what a reader then sees.     *)

\* A line without its newline is a line.
TornHasLine(f) == f.torn => f.lines # << >>

\* The write ran into a torn line, or was cut before the record was whole.
Spoiled(f, g) ==
  /\ g.lines # << >>
  /\ g.lines[Len(g.lines)] = Corrupt
  /\ \A i \in DOMAIN g.lines :
       \/ g.lines[i] = Corrupt
       \/ i \in DOMAIN f.lines /\ g.lines[i] = f.lines[i]

Extended(f, g, rec) == g.lines = Append(f.lines, rec)

(***************************************************************************)
(* The corrupt line is a line of the file.                                 *)
(***************************************************************************)
LEMMA CorruptType == Corrupt \in Line
  BY DEF Corrupt, AuditRecord, Line, Kinds, NoId

(***************************************************************************)
(* Spoiling the last line keeps a file a file, and leaves a corrupt line   *)
(* at its end.                                                             *)
(***************************************************************************)
LEMMA SpoilLastProperties ==
  ASSUME NEW f \in File, f.lines # << >>
  PROVE  /\ SpoilLast(f) \in Seq(Line)
         /\ SpoilLast(f) # << >>
         /\ Len(SpoilLast(f)) = Len(f.lines)
         /\ SpoilLast(f)[Len(f.lines)] = Corrupt
         /\ \A i \in DOMAIN SpoilLast(f) :
              i \in DOMAIN f.lines /\ (\/ SpoilLast(f)[i] = Corrupt
                                       \/ SpoilLast(f)[i] = f.lines[i])
<1> DEFINE n == Len(f.lines)
<1>1. f.lines \in Seq(Line)
  BY DEF File
<1>2. n \in Nat \ {0} /\ DOMAIN f.lines = 1 .. n
  BY <1>1
<1>3. f.lines \in [1 .. n -> Line]
  BY <1>1
<1>4. SpoilLast(f) \in [1 .. n -> Line]
  BY <1>2, <1>3, CorruptType DEF SpoilLast
<1>5. SpoilLast(f) \in Seq(Line) /\ Len(SpoilLast(f)) = n
  BY <1>2, <1>4
<1>6. SpoilLast(f)[n] = Corrupt
  BY <1>2, <1>3 DEF SpoilLast
<1>7. \A i \in 1 .. n : SpoilLast(f)[i] = Corrupt \/ SpoilLast(f)[i] = f.lines[i]
  BY <1>3 DEF SpoilLast
<1>8. SpoilLast(f) # << >>
  BY <1>2, <1>5
<1> QED
  BY <1>2, <1>4, <1>5, <1>6, <1>7, <1>8

(***************************************************************************)
(* A write that is not cut ends the file with the record, or spoils the    *)
(* torn line it was glued to.                                              *)
(***************************************************************************)
LEMMA AppendCases ==
  ASSUME NEW f \in File, TornHasLine(f), NEW rec \in Line
  PROVE  /\ AppendRecord(f, rec) \in File
         /\ TornHasLine(AppendRecord(f, rec))
         /\ \/ Extended(f, AppendRecord(f, rec), rec)
            \/ Spoiled(f, AppendRecord(f, rec))
<1>1. CASE f.torn
  <2>1. f.lines # << >>
    BY <1>1 DEF TornHasLine
  <2> QED
    BY <1>1, <2>1, SpoilLastProperties
    DEF AppendRecord, File, Spoiled, TornHasLine
<1>2. CASE ~f.torn
  BY <1>2 DEF AppendRecord, File, Extended, TornHasLine
<1> QED
  BY <1>1, <1>2

(***************************************************************************)
(* A cut write leaves the file as it was, ends it with the record, or      *)
(* leaves a line at its end that does not parse.                           *)
(***************************************************************************)
LEMMA CutCases ==
  ASSUME NEW f \in File, TornHasLine(f), NEW rec \in Line,
         NEW g \in CutAppend(f, rec)
  PROVE  /\ g \in File
         /\ TornHasLine(g)
         /\ g = f \/ Extended(f, g, rec) \/ Spoiled(f, g)
<1>1. CASE g = f
  BY <1>1
<1>2. CASE f.torn /\ g = [lines |-> SpoilLast(f), torn |-> TRUE]
  <2>1. f.lines # << >>
    BY <1>2 DEF TornHasLine
  <2> QED
    BY <1>2, <2>1, SpoilLastProperties DEF File, Spoiled, TornHasLine
<1>3. CASE ~f.torn /\ g = [lines |-> Append(f.lines, rec), torn |-> TRUE]
  BY <1>3 DEF File, Extended, TornHasLine
<1>4. CASE ~f.torn /\ g = [lines |-> Append(f.lines, Corrupt), torn |-> TRUE]
  <2>1. f.lines \in Seq(Line)
    BY DEF File
  <2>2. /\ g.lines \in Seq(Line)
        /\ Len(g.lines) = Len(f.lines) + 1
        /\ g.lines[Len(g.lines)] = Corrupt
        /\ \A i \in 1 .. Len(f.lines) : g.lines[i] = f.lines[i]
    BY <1>4, <2>1, CorruptType
  <2> QED
    BY <1>4, <2>1, <2>2 DEF File, Spoiled, TornHasLine
<1> QED
  BY <1>1, <1>2, <1>3, <1>4 DEF CutAppend

(***************************************************************************)
(* Behind a spoiled line no record can be found any more.                  *)
(***************************************************************************)
LEMMA SpoiledFindsNothing ==
  ASSUME NEW f \in File, NEW g \in File, Spoiled(f, g), NEW a \in Nat
  PROVE  ~Finds(g, a)
<1>1. g.lines \in Seq(Line) /\ Len(g.lines) \in 1 .. Len(g.lines)
  BY DEF File, Spoiled
<1>2. g.lines[Len(g.lines)].kind = "corrupt"
  BY DEF Spoiled, Corrupt, AuditRecord
<1>3. ASSUME NEW i \in DOMAIN g.lines PROVE ~ScanReaches(g, i)
  BY <1>1, <1>2, <1>3 DEF ScanReaches
<1> QED
  BY <1>3 DEF Finds, FindHits, ScanReaches

(***************************************************************************)
(* Appending a record hides no use, makes its own approval used, and makes *)
(* only its own id findable.                                               *)
(***************************************************************************)
LEMMA ExtendedReads ==
  ASSUME NEW f \in File, NEW g \in File, NEW rec \in Line,
         Extended(f, g, rec), rec.kind # "corrupt", NEW a \in Nat
  PROVE  /\ HasApprovalUse(f, a) => HasApprovalUse(g, a)
         /\ rec.approval = a => HasApprovalUse(g, a)
         /\ rec.id # a /\ Finds(g, a) => Finds(f, a)
<1> DEFINE n == Len(f.lines)
<1>1. /\ f.lines \in Seq(Line) /\ g.lines \in Seq(Line) /\ n \in Nat
      /\ Len(g.lines) = n + 1
      /\ g.lines[n + 1] = rec
      /\ \A i \in 1 .. n : g.lines[i] = f.lines[i]
      /\ DOMAIN f.lines = 1 .. n /\ DOMAIN g.lines = 1 .. n + 1
  BY DEF File, Extended
<1>2. HasApprovalUse(f, a) => HasApprovalUse(g, a)
  BY <1>1 DEF HasApprovalUse
<1>3. rec.approval = a => HasApprovalUse(g, a)
  BY <1>1 DEF HasApprovalUse
<1>4. ASSUME rec.id # a, Finds(g, a) PROVE Finds(f, a)
  <2>1. PICK i \in DOMAIN g.lines : g.lines[i].id = a /\ ScanReaches(g, i)
    BY <1>4 DEF Finds, FindHits, ScanReaches
  <2>2. i \in 1 .. n
    BY <1>1, <1>4, <2>1
  <2>3. f.lines[i].id = a
    BY <1>1, <2>1, <2>2
  <2>4. ScanReaches(f, i)
    <3>1. ASSUME NEW k \in i .. n PROVE f.lines[k].kind # "corrupt"
      <4>1. k \in 1 .. n /\ k \in i .. n + 1
        BY <1>1, <2>2
      <4> QED
        BY <1>1, <2>1, <4>1 DEF ScanReaches
    <3> QED
      BY <3>1 DEF ScanReaches
  <2> QED
    BY <1>1, <2>2, <2>3, <2>4 DEF Finds, FindHits, ScanReaches
<1> QED
  BY <1>2, <1>3, <1>4

(***************************************************************************)
(* What find returns is a line of the file, with the id asked for.         *)
(***************************************************************************)
LEMMA FindIsALine ==
  ASSUME NEW f \in File, NEW a \in Nat, Finds(f, a)
  PROVE  \E i \in DOMAIN f.lines :
           Find(f, a) = f.lines[i] /\ f.lines[i].id = a
  BY DEF Find, Finds, FindHits

----------------------------------------------------------------------------
(* The gate.                                                               *)

\* A line that is not corrupt carries an id that was minted, and a dry-run
\* line says what was granted under it.
LineInv(line) ==
  /\ line.id \in 0 .. nextId - 1
  /\ line.kind # "corrupt" =>
       /\ line.id # NoId
       /\ line.kind = "dry_run" => granted[line.id] = line.binding

FileInv ==
  /\ TornHasLine(file)
  /\ \A i \in DOMAIN file.lines : LineInv(file.lines[i])

\* An id that was not minted yet is granted nothing and was never used.
FreshInv ==
  \A a \in Ids : a >= nextId => granted[a] = NoBinding /\ uses[a] = << >>

\* A call past its lookup holds an approval for its own control.
CallInv ==
  \A c \in Calls : pc[c] \in {"matched", "unused"} =>
    /\ approval[c] \in Ids
    /\ binding[c] \in Bindings
    /\ granted[approval[c]] = binding[c]

\* At most one call of a process is between its lookup and its claim.
EventLoopInv ==
  \A c, d \in Calls :
    ProcOf[c] = ProcOf[d] /\ pc[c] \in Synchronous /\ pc[d] \in Synchronous
      => c = d

GateInv ==
  /\ TypeOK
  /\ FileInv
  /\ FreshInv
  /\ CallInv
  /\ EventLoopInv
  /\ SpentIsVisible
  /\ UsesWhatWasGranted

----------------------------------------------------------------------------
(***************************************************************************)
(* The records the gate writes are lines.                                  *)
(***************************************************************************)
LEMMA RecordTypes ==
  ASSUME TypeOK, nextId <= MaxId
  PROVE  /\ \A b \in Bindings : DryRunRecord(b) \in Line
         /\ \A c \in Calls : ClaimRecord(c) \in Line
         /\ \A c \in Calls : CompletedRecord(c) \in Line
BY BoundsAssumption
DEF TypeOK, DryRunRecord, ClaimRecord, CompletedRecord, AuditRecord, Line,
    Kinds, Ids, NoId

(***************************************************************************)
(* Freeing slots keeps the call variables typed.                           *)
(***************************************************************************)
LEMMA FreeType ==
  ASSUME TypeOK, NEW S \in SUBSET Calls, NEW v \in Reports, Free(S, v)
  PROVE  /\ pc' \in [Calls -> Places]
         /\ approval' \in [Calls -> Ids \cup {NoId}]
         /\ binding' \in [Calls -> Bindings \cup {NoBinding}]
         /\ report' \in [Calls -> Reports]
BY DEF TypeOK, Free, Places

(***************************************************************************)
(* What a cut write does, whether it kills the process or throws in it.    *)
(***************************************************************************)
LEMMA CutWriteCases ==
  ASSUME TypeOK, TornHasLine(file), NEW c \in Calls, NEW rec \in Line,
         NEW v \in Reports, CutWrite(c, rec, v)
  PROVE  /\ file' \in File /\ TornHasLine(file')
         /\ \/ file' = file
            \/ Extended(file, file', rec)
            \/ Spoiled(file, file')
         /\ nextId <= MaxId /\ nextId' = nextId + 1
         /\ nextId' \in 1 .. MaxId + 1
         /\ cuts' \in 0 .. MaxCuts
         /\ \E S \in SUBSET Calls, w \in Reports : Free(S, w) /\ c \in S
<1>1. file \in File /\ nextId \in Nat /\ cuts \in Nat
  BY DEF TypeOK
<1>2. file' \in CutAppend(file, rec)
  BY DEF CutWrite
<1>3. /\ file' \in File /\ TornHasLine(file')
      /\ file' = file \/ Extended(file, file', rec) \/ Spoiled(file, file')
  BY <1>1, <1>2, CutCases
<1>4. \E S \in SUBSET Calls, w \in Reports : Free(S, w) /\ c \in S
  <2>1. CASE Die(ProcOf[c])
    BY <2>1 DEF Die, Reports
  <2>2. CASE Return(c, v)
    BY <2>2 DEF Return
  <2> QED
    BY <2>1, <2>2 DEF CutWrite
<1>5. /\ nextId <= MaxId /\ nextId' = nextId + 1
      /\ nextId' \in 1 .. MaxId + 1
      /\ cuts' \in 0 .. MaxCuts
  BY BoundsAssumption DEF CutWrite, TypeOK
<1> QED
  BY <1>3, <1>4, <1>5

(***************************************************************************)
(* What a whole write does.                                                *)
(***************************************************************************)
LEMMA WriteCases ==
  ASSUME TypeOK, TornHasLine(file), NEW rec \in Line, Write(rec)
  PROVE  /\ file' \in File /\ TornHasLine(file')
         /\ Extended(file, file', rec) \/ Spoiled(file, file')
         /\ nextId <= MaxId /\ nextId' = nextId + 1
         /\ nextId' \in 1 .. MaxId + 1
         /\ cuts' \in 0 .. MaxCuts
<1>1. file \in File /\ file' = AppendRecord(file, rec)
  BY DEF TypeOK, Write
<1>2. /\ file' \in File /\ TornHasLine(file')
      /\ Extended(file, file', rec) \/ Spoiled(file, file')
  BY <1>1, AppendCases
<1>3. /\ nextId <= MaxId /\ nextId' = nextId + 1
      /\ nextId' \in 1 .. MaxId + 1
      /\ cuts' \in 0 .. MaxCuts
  BY BoundsAssumption DEF Write, TypeOK
<1> QED
  BY <1>2, <1>3

----------------------------------------------------------------------------
(***************************************************************************)
(* Every variable keeps its type.                                          *)
(***************************************************************************)
LEMMA InitType == Init => TypeOK
BY BoundsAssumption
DEF Init, TypeOK, EmptyFile, File, Ids, NoId, Places, Outcomes, Reports

LEMMA NextType ==
  ASSUME TypeOK, FileInv, [Next]_vars
  PROVE  TypeOK'
<1> USE DEF Reports
<1>1. TornHasLine(file)
  BY DEF FileInv
<1>2. ASSUME NEW c \in Calls, NEW b \in Bindings, DryRun(c, b)
      PROVE  TypeOK'
  <2>1. DryRunRecord(b) \in Line /\ Write(DryRunRecord(b))
    BY <1>2, RecordTypes DEF DryRun, Write
  <2>2. Free({c}, "dry_run")
    BY <1>2 DEF DryRun, Return
  <2>3. nextId \in Ids
    BY <2>1 DEF TypeOK, Write, Ids
  <2>4. /\ granted' \in [Ids -> Bindings \cup {NoBinding}]
        /\ uses' = uses
    BY <1>2, <2>3 DEF DryRun, Mint, TypeOK
  <2>5. /\ outcome' \in [Calls -> Outcomes \cup {"none"}]
        /\ ran' \in [Calls -> BOOLEAN] /\ closing' \in [Calls -> Ids \cup {NoId}]
        /\ now' = now
    BY <1>2 DEF DryRun, Fresh, TypeOK
  <2>6. /\ file' \in File
        /\ nextId' \in 1 .. MaxId + 1
        /\ cuts' \in 0 .. MaxCuts
    BY <1>1, <2>1, WriteCases
  <2>7. /\ pc' \in [Calls -> Places]
        /\ approval' \in [Calls -> Ids \cup {NoId}]
        /\ binding' \in [Calls -> Bindings \cup {NoBinding}]
        /\ report' \in [Calls -> Reports]
    BY <2>2, FreeType
  <2> QED
    BY <2>4, <2>5, <2>6, <2>7 DEF TypeOK
<1>3. ASSUME NEW c \in Calls, NEW b \in Bindings, DryRunCut(c, b)
      PROVE  TypeOK'
  <2>1. DryRunRecord(b) \in Line /\ CutWrite(c, DryRunRecord(b), "not_sent")
    BY <1>3, RecordTypes DEF DryRunCut, CutWrite
  <2>2. PICK S \in SUBSET Calls, w \in Reports : Free(S, w)
    BY <1>1, <2>1, CutWriteCases
  <2>3. nextId \in Ids
    BY <2>1 DEF TypeOK, CutWrite, Ids
  <2>4. /\ granted' \in [Ids -> Bindings \cup {NoBinding}]
        /\ uses' = uses
    BY <1>3, <2>3 DEF DryRunCut, Mint, TypeOK
  <2>5. /\ outcome' \in [Calls -> Outcomes \cup {"none"}]
        /\ ran' \in [Calls -> BOOLEAN] /\ closing' \in [Calls -> Ids \cup {NoId}]
        /\ now' = now
    BY <1>3 DEF DryRunCut, Fresh, TypeOK
  <2>6. /\ file' \in File
        /\ nextId' \in 1 .. MaxId + 1
        /\ cuts' \in 0 .. MaxCuts
    BY <1>1, <2>1, CutWriteCases
  <2>7. /\ pc' \in [Calls -> Places]
        /\ approval' \in [Calls -> Ids \cup {NoId}]
        /\ binding' \in [Calls -> Bindings \cup {NoBinding}]
        /\ report' \in [Calls -> Reports]
    BY <2>2, FreeType
  <2> QED
    BY <2>4, <2>5, <2>6, <2>7 DEF TypeOK
<1>4. ASSUME NEW c \in Calls, NEW b \in Bindings, NEW a \in Ids, LookUp(c, a, b)
      PROVE  TypeOK'
  <2>1. CASE Return(c, "not_sent")
    BY <1>4, <2>1, FreeType DEF LookUp, Return, Fresh, TypeOK, fileVars, history
  <2>2. CASE /\ pc' = [pc EXCEPT ![c] = "matched"]
             /\ approval' = [approval EXCEPT ![c] = a]
             /\ binding' = [binding EXCEPT ![c] = b]
             /\ report' = [report EXCEPT ![c] = "none"]
    BY <1>4, <2>2 DEF LookUp, Fresh, TypeOK, fileVars, history, Places
  <2> QED
    BY <1>4, <2>1, <2>2 DEF LookUp
<1>5. ASSUME NEW c \in Calls, CheckUnused(c)
      PROVE  TypeOK'
  <2>1. CASE Return(c, "not_sent")
    BY <1>5, <2>1, FreeType DEF CheckUnused, Return, TypeOK, fileVars, history
  <2>2. CASE /\ pc' = [pc EXCEPT ![c] = "unused"]
             /\ UNCHANGED << approval, binding, report >>
    BY <1>5, <2>2 DEF CheckUnused, TypeOK, fileVars, history, Places
  <2> QED
    BY <1>5, <2>1, <2>2 DEF CheckUnused
<1>6. ASSUME NEW c \in Calls, Claim(c)
      PROVE  TypeOK'
  <2>1. ClaimRecord(c) \in Line /\ Write(ClaimRecord(c))
    BY <1>6, RecordTypes DEF Claim, Write
  <2>2. uses' \in [Ids -> Seq(Bindings \cup {NoBinding})]
    <3>1. binding[c] \in Bindings \cup {NoBinding}
      BY DEF TypeOK
    <3>2. ASSUME NEW a \in Ids
          PROVE  uses'[a] \in Seq(Bindings \cup {NoBinding})
      <4>1. uses[a] \in Seq(Bindings \cup {NoBinding})
        BY DEF TypeOK
      <4>2. uses'[a] = uses[a] \/ uses'[a] = Append(uses[a], binding[c])
        BY <1>6 DEF Claim, TypeOK
      <4> QED
        BY <3>1, <4>1, <4>2
    <3>3. uses' \in [Ids -> Seq(Bindings \cup {NoBinding})]
            \/ \E a \in Ids : uses'[a] \notin Seq(Bindings \cup {NoBinding})
      BY <1>6 DEF Claim, TypeOK
    <3> QED
      BY <3>2, <3>3
  <2> QED
    BY <1>1, <1>6, <2>1, <2>2, WriteCases DEF Claim, TypeOK, Places
<1>7. ASSUME NEW c \in Calls, ClaimCut(c)
      PROVE  TypeOK'
  <2>1. ClaimRecord(c) \in Line /\ CutWrite(c, ClaimRecord(c), "not_sent")
    BY <1>7, RecordTypes DEF ClaimCut, CutWrite
  <2>2. PICK S \in SUBSET Calls, w \in Reports : Free(S, w)
    BY <1>1, <2>1, CutWriteCases
  <2> QED
    BY <1>1, <1>7, <2>1, <2>2, CutWriteCases, FreeType
    DEF ClaimCut, history, TypeOK
<1>8. ASSUME NEW c \in Calls, Send(c)
      PROVE  TypeOK'
  <2>1. PICK o \in Outcomes :
          /\ outcome' = [outcome EXCEPT ![c] = o]
          /\ \E r \in MayRun(o) : ran' = [ran EXCEPT ![c] = r]
    BY <1>8 DEF Send
  <2>2. MayRun(o) \subseteq BOOLEAN
    BY DEF MayRun
  <2>3. PICK r \in BOOLEAN : ran' = [ran EXCEPT ![c] = r]
    BY <2>1, <2>2
  <2>4. /\ outcome' \in [Calls -> Outcomes \cup {"none"}]
        /\ ran' \in [Calls -> BOOLEAN]
    BY <2>1, <2>3 DEF TypeOK
  <2>5. pc' \in [Calls -> Places]
    BY <1>8 DEF Send, TypeOK, Places
  <2> QED
    BY <1>8, <2>4, <2>5 DEF Send, TypeOK, fileVars, history
<1>9. ASSUME NEW c \in Calls, Answer(c)
      PROVE  TypeOK'
  <2>1. PICK w \in Reports : Free({c}, w)
    BY <1>9 DEF Answer, Return
  <2> QED
    BY <1>9, <2>1, FreeType DEF Answer, TypeOK, fileVars, history
<1>10. ASSUME NEW c \in Calls, Complete(c)
       PROVE  TypeOK'
  <2>1. CompletedRecord(c) \in Line /\ Write(CompletedRecord(c))
    BY <1>10, RecordTypes DEF Complete, Write
  <2>2. Free({c}, "sent")
    BY <1>10 DEF Complete, Return
  <2>3. nextId \in Ids
    BY <2>1 DEF TypeOK, Write, Ids
  <2> QED
    BY <1>1, <1>10, <2>1, <2>2, <2>3, WriteCases, FreeType
    DEF Complete, history, TypeOK
<1>11. ASSUME NEW c \in Calls, CompleteCut(c)
       PROVE  TypeOK'
  <2>1. /\ CompletedRecord(c) \in Line
        /\ CutWrite(c, CompletedRecord(c), "not_sent")
    BY <1>11, RecordTypes DEF CompleteCut, CutWrite
  <2>2. PICK S \in SUBSET Calls, w \in Reports : Free(S, w)
    BY <1>1, <2>1, CutWriteCases
  <2>3. nextId \in Ids
    BY <2>1 DEF TypeOK, CutWrite, Ids
  <2> QED
    BY <1>1, <1>11, <2>1, <2>2, <2>3, CutWriteCases, FreeType
    DEF CompleteCut, history, TypeOK
<1>12. ASSUME NEW p \in Procs, Crash(p)
       PROVE  TypeOK'
  <2>1. Free({c \in Calls : ProcOf[c] = p}, "none")
    BY <1>12 DEF Crash, Die
  <2> QED
    BY <1>12, <2>1, FreeType DEF Crash, TypeOK, fileVars, history
<1>13. CASE Tick
  BY <1>13, BoundsAssumption DEF Tick, TypeOK, fileVars, callVars, history
<1>14. CASE UNCHANGED vars
  BY <1>14 DEF vars, fileVars, callVars, history, TypeOK
<1> QED
  BY <1>2, <1>3, <1>4, <1>5, <1>6, <1>7, <1>8, <1>9, <1>10, <1>11, <1>12,
     <1>13, <1>14 DEF Next

----------------------------------------------------------------------------
\* What a step does to the file and the history: nothing, a dry run, a claim
\* that goes through, or another record.
Quiet == UNCHANGED << file, nextId, granted, uses >>

Touches(rec) ==
  /\ file' \in File /\ TornHasLine(file')
  /\ file' = file \/ Extended(file, file', rec) \/ Spoiled(file, file')
  /\ nextId \in Ids /\ nextId' = nextId + 1

Mints(b) == Touches(DryRunRecord(b)) /\ Mint(b)

Claims(c) ==
  /\ pc[c] = "unused"
  /\ Touches(ClaimRecord(c))
  /\ Extended(file, file', ClaimRecord(c)) \/ Spoiled(file, file')
  /\ uses' = [uses EXCEPT ![approval[c]] = Append(@, binding[c])]
  /\ UNCHANGED granted

Notes(c) ==
  /\ Touches(ClaimRecord(c)) \/ Touches(CompletedRecord(c))
  /\ UNCHANGED << granted, uses >>

(***************************************************************************)
(* Every step is one of these.                                             *)
(***************************************************************************)
LEMMA FileEffects ==
  ASSUME TypeOK, FileInv, [Next]_vars
  PROVE  \/ Quiet
         \/ \E b \in Bindings : Mints(b)
         \/ \E c \in Calls : Claims(c) \/ Notes(c)
<1> USE DEF Reports
<1>1. TornHasLine(file) /\ file \in File
  BY DEF FileInv, TypeOK
<1>2. ASSUME NEW c \in Calls, NEW b \in Bindings, DryRun(c, b)
      PROVE  Mints(b)
  <2>1. DryRunRecord(b) \in Line /\ Write(DryRunRecord(b))
    BY <1>2, RecordTypes DEF DryRun, Write
  <2>2. nextId \in Ids
    BY <2>1 DEF TypeOK, Write, Ids
  <2> QED
    BY <1>1, <1>2, <2>1, <2>2, WriteCases DEF DryRun, Mints, Touches
<1>3. ASSUME NEW c \in Calls, NEW b \in Bindings, DryRunCut(c, b)
      PROVE  Mints(b)
  <2>1. DryRunRecord(b) \in Line /\ CutWrite(c, DryRunRecord(b), "not_sent")
    BY <1>3, RecordTypes DEF DryRunCut, CutWrite
  <2>2. nextId \in Ids
    BY <2>1 DEF TypeOK, CutWrite, Ids
  <2> QED
    BY <1>1, <1>3, <2>1, <2>2, CutWriteCases DEF DryRunCut, Mints, Touches
<1>4. ASSUME NEW c \in Calls, Claim(c)
      PROVE  Claims(c)
  <2>1. ClaimRecord(c) \in Line /\ Write(ClaimRecord(c))
    BY <1>4, RecordTypes DEF Claim, Write
  <2>2. nextId \in Ids
    BY <2>1 DEF TypeOK, Write, Ids
  <2> QED
    BY <1>1, <1>4, <2>1, <2>2, WriteCases DEF Claim, Claims, Touches
<1>5. ASSUME NEW c \in Calls, ClaimCut(c)
      PROVE  Notes(c)
  <2>1. ClaimRecord(c) \in Line /\ CutWrite(c, ClaimRecord(c), "not_sent")
    BY <1>5, RecordTypes DEF ClaimCut, CutWrite
  <2>2. nextId \in Ids
    BY <2>1 DEF TypeOK, CutWrite, Ids
  <2> QED
    BY <1>1, <1>5, <2>1, <2>2, CutWriteCases
    DEF ClaimCut, Notes, Touches, history
<1>6. ASSUME NEW c \in Calls, Complete(c)
      PROVE  Notes(c)
  <2>1. CompletedRecord(c) \in Line /\ Write(CompletedRecord(c))
    BY <1>6, RecordTypes DEF Complete, Write
  <2>2. nextId \in Ids
    BY <2>1 DEF TypeOK, Write, Ids
  <2> QED
    BY <1>1, <1>6, <2>1, <2>2, WriteCases DEF Complete, Notes, Touches, history
<1>7. ASSUME NEW c \in Calls, CompleteCut(c)
      PROVE  Notes(c)
  <2>1. /\ CompletedRecord(c) \in Line
        /\ CutWrite(c, CompletedRecord(c), "not_sent")
    BY <1>7, RecordTypes DEF CompleteCut, CutWrite
  <2>2. nextId \in Ids
    BY <2>1 DEF TypeOK, CutWrite, Ids
  <2> QED
    BY <1>1, <1>7, <2>1, <2>2, CutWriteCases
    DEF CompleteCut, Notes, Touches, history
<1>8. ASSUME NEW c \in Calls,
             \/ CheckUnused(c) \/ Send(c) \/ Answer(c)
             \/ \E a \in Ids, b \in Bindings : LookUp(c, a, b)
      PROVE  Quiet
  BY <1>8 DEF LookUp, CheckUnused, Send, Answer, Quiet, fileVars, history
<1>9. CASE (\E p \in Procs : Crash(p)) \/ Tick \/ UNCHANGED vars
  BY <1>9 DEF Crash, Tick, Quiet, vars, fileVars, history
<1> QED
  BY <1>2, <1>3, <1>4, <1>5, <1>6, <1>7, <1>8, <1>9 DEF Next

(***************************************************************************)
(* The lines stay those of minted records.                                 *)
(***************************************************************************)
LEMMA LinesKept ==
  ASSUME TypeOK, FileInv, NEW rec \in Line, Touches(rec), rec.id = nextId,
         \A a \in Ids : a < nextId => granted'[a] = granted[a],
         rec.kind = "dry_run" => granted'[nextId] = rec.binding
  PROVE  FileInv'
<1>1. nextId \in 1 .. MaxId /\ nextId' = nextId + 1 /\ MaxId \in Nat
  BY BoundsAssumption DEF Touches, Ids
<1>2. file \in File /\ file' \in File
  BY DEF TypeOK, Touches
<1>3. ASSUME NEW line \in Line, LineInv(line)
      PROVE  LineInv(line)'
  <2>1. line.id \in 0 .. nextId' - 1
    BY <1>1, <1>3 DEF LineInv
  <2>2. line.kind # "corrupt" => line.id # NoId /\ line.id \in Ids /\ line.id < nextId
    BY <1>1, <1>3, <2>1 DEF LineInv, Ids, NoId
  <2> QED
    BY <1>1, <1>3, <2>1, <2>2 DEF LineInv
<1>4. LineInv(rec)'
  BY <1>1 DEF LineInv, NoId
<1>5. LineInv(Corrupt)'
  BY <1>1 DEF LineInv, Corrupt, AuditRecord, NoId
<1>6. ASSUME NEW i \in DOMAIN file'.lines
      PROVE  LineInv(file.lines[i])'
  <2>1. CASE file' = file
    <3>1. i \in DOMAIN file.lines /\ file.lines[i] \in Line
      BY <1>2, <1>6, <2>1 DEF File
    <3>2. LineInv(file.lines[i])
      BY <3>1 DEF FileInv
    <3> QED
      BY <1>3, <2>1, <3>1, <3>2 DEF LineInv
  <2>2. CASE Extended(file, file', rec)
    <3>1. file.lines \in Seq(Line) /\ file'.lines = Append(file.lines, rec)
      BY <1>2, <2>2 DEF File, Extended
    <3>2. CASE i \in DOMAIN file.lines
      <4>1. file'.lines[i] = file.lines[i] /\ file.lines[i] \in Line
        BY <3>1, <3>2
      <4>2. LineInv(file.lines[i])
        BY <3>2 DEF FileInv
      <4> QED
        BY <1>3, <4>1, <4>2 DEF LineInv
    <3>3. CASE i \notin DOMAIN file.lines
      <4>1. file'.lines[i] = rec
        BY <1>6, <3>1, <3>3
      <4> QED
        BY <1>4, <4>1 DEF LineInv
    <3> QED
      BY <3>2, <3>3
  <2>3. CASE Spoiled(file, file')
    <3>1. CASE file'.lines[i] = Corrupt
      BY <1>5, <3>1 DEF LineInv
    <3>2. CASE i \in DOMAIN file.lines /\ file'.lines[i] = file.lines[i]
      <4>1. file.lines[i] \in Line /\ LineInv(file.lines[i])
        BY <1>2, <3>2 DEF FileInv, File
      <4> QED
        BY <1>3, <3>2, <4>1 DEF LineInv
    <3> QED
      BY <1>6, <2>3, <3>1, <3>2 DEF Spoiled
  <2> QED
    BY <2>1, <2>2, <2>3 DEF Touches
<1> QED
  BY <1>6 DEF FileInv, Touches

(***************************************************************************)
(* The records name the id they were written under.                        *)
(***************************************************************************)
LEMMA RecordFields ==
  /\ \A b : /\ DryRunRecord(b).id = nextId /\ DryRunRecord(b).binding = b
           /\ DryRunRecord(b).kind = "dry_run"
           /\ DryRunRecord(b).created = now
           /\ DryRunRecord(b).approval = NoId
  /\ \A c : /\ ClaimRecord(c).id = nextId /\ ClaimRecord(c).kind = "claimed"
           /\ ClaimRecord(c).approval = approval[c]
  /\ \A c : /\ CompletedRecord(c).id = nextId
           /\ CompletedRecord(c).kind = "completed"
BY DEF DryRunRecord, ClaimRecord, CompletedRecord, AuditRecord

LEMMA NextFile ==
  ASSUME TypeOK, FileInv, [Next]_vars
  PROVE  FileInv'
<1>1. CASE Quiet
  BY <1>1 DEF Quiet, FileInv, LineInv, TornHasLine
<1>2. ASSUME NEW b \in Bindings, Mints(b)
      PROVE  FileInv'
  <2>1. DryRunRecord(b) \in Line /\ Touches(DryRunRecord(b))
    BY <1>2, RecordTypes DEF Mints, Touches, Ids
  <2>2. /\ granted' = [granted EXCEPT ![nextId] = b]
        /\ nextId \in Ids
    BY <1>2, <2>1 DEF Mints, Mint, Touches
  <2>3. /\ \A a \in Ids : a < nextId => granted'[a] = granted[a]
        /\ granted'[nextId] = b
    BY <2>2 DEF TypeOK, Ids
  <2> QED
    BY <2>1, <2>3, LinesKept, RecordFields
<1>3. ASSUME NEW c \in Calls, Claims(c) \/ Notes(c)
      PROVE  FileInv'
  <2>1. nextId <= MaxId
    BY <1>3 DEF Claims, Notes, Touches, Ids
  <2>2. ClaimRecord(c) \in Line /\ CompletedRecord(c) \in Line
    BY <2>1, RecordTypes
  <2>3. UNCHANGED granted
    BY <1>3 DEF Claims, Notes
  <2> QED
    BY <1>3, <2>2, <2>3, LinesKept, RecordFields DEF Claims, Notes
<1> QED
  BY <1>1, <1>2, <1>3, FileEffects

LEMMA NextFresh ==
  ASSUME TypeOK, FileInv, FreshInv, CallInv, [Next]_vars
  PROVE  FreshInv'
<1>1. CASE Quiet
  BY <1>1 DEF Quiet, FreshInv
<1>2. ASSUME NEW b \in Bindings, Mints(b)
      PROVE  FreshInv'
  BY <1>2 DEF Mints, Mint, Touches, FreshInv, TypeOK, Ids
<1>3. ASSUME NEW c \in Calls, Notes(c)
      PROVE  FreshInv'
  BY <1>3 DEF Notes, Touches, FreshInv, Ids
<1>4. ASSUME NEW c \in Calls, Claims(c)
      PROVE  FreshInv'
  <2>1. approval[c] \in Ids /\ granted[approval[c]] # NoBinding
    BY <1>4, BindingsAssumption DEF Claims, CallInv
  <2>2. approval[c] < nextId
    BY <2>1 DEF FreshInv, TypeOK, Ids
  <2> QED
    BY <1>4, <2>1, <2>2 DEF Claims, Touches, FreshInv, TypeOK, Ids
<1> QED
  BY <1>1, <1>2, <1>3, <1>4, FileEffects

(***************************************************************************)
(* A record that is written keeps every spent approval visible, its own    *)
(* included.                                                               *)
(***************************************************************************)
LEMMA SpentKept ==
  ASSUME TypeOK, FreshInv, SpentIsVisible,
         NEW rec \in Line, rec.kind # "corrupt", rec.id = nextId, Touches(rec),
         \A a \in Ids : uses'[a] # << >> =>
            \/ uses[a] # << >>
            \/ rec.approval = a /\ (\/ Extended(file, file', rec)
                                   \/ Spoiled(file, file'))
  PROVE  SpentIsVisible'
<1> SUFFICES ASSUME NEW a \in Ids, uses'[a] # << >>
             PROVE  HasApprovalUse(file', a) \/ ~Finds(file', a)
  BY DEF SpentIsVisible
<1>1. file \in File /\ file' \in File /\ a \in Nat
  BY DEF TypeOK, Touches, Ids
<1>2. CASE Spoiled(file, file')
  BY <1>1, <1>2, SpoiledFindsNothing
<1>3. CASE Extended(file, file', rec)
  <2>1. CASE rec.approval = a
    BY <1>1, <1>3, <2>1, ExtendedReads
  <2>2. CASE uses[a] # << >>
    <3>1. a # nextId
      BY <2>2 DEF FreshInv, TypeOK, Ids
    <3>2. HasApprovalUse(file, a) \/ ~Finds(file, a)
      BY <2>2 DEF SpentIsVisible
    <3> QED
      BY <1>1, <1>3, <3>1, <3>2, ExtendedReads
  <2> QED
    BY <2>1, <2>2
<1>4. CASE file' = file /\ uses[a] # << >>
  BY <1>4 DEF SpentIsVisible
<1> QED
  BY <1>2, <1>3, <1>4 DEF Touches

LEMMA NextSpent ==
  ASSUME GateInv, [Next]_vars
  PROVE  SpentIsVisible'
<1> USE DEF GateInv
<1>1. CASE Quiet
  BY <1>1 DEF Quiet, SpentIsVisible
<1>2. ASSUME NEW b \in Bindings, Mints(b)
      PROVE  SpentIsVisible'
  <2>1. DryRunRecord(b) \in Line /\ Touches(DryRunRecord(b)) /\ uses' = uses
    BY <1>2, RecordTypes DEF Mints, Mint, Touches, Ids
  <2> QED
    BY <2>1, SpentKept, RecordFields
<1>3. ASSUME NEW c \in Calls, Notes(c)
      PROVE  SpentIsVisible'
  <2>1. ClaimRecord(c) \in Line /\ CompletedRecord(c) \in Line
    BY <1>3, RecordTypes DEF Notes, Touches, Ids
  <2> QED
    BY <1>3, <2>1, SpentKept, RecordFields DEF Notes
<1>4. ASSUME NEW c \in Calls, Claims(c)
      PROVE  SpentIsVisible'
  <2>1. ClaimRecord(c) \in Line
    BY <1>4, RecordTypes DEF Claims, Touches, Ids
  <2>2. \A a \in Ids : uses'[a] # << >> => uses[a] # << >> \/ a = approval[c]
    BY <1>4 DEF Claims, TypeOK
  <2> QED
    BY <1>4, <2>1, <2>2, SpentKept, RecordFields DEF Claims
<1> QED
  BY <1>1, <1>2, <1>3, <1>4, FileEffects

LEMMA NextGranted ==
  ASSUME GateInv, [Next]_vars
  PROVE  UsesWhatWasGranted'
<1> USE DEF GateInv
<1>1. CASE Quiet
  BY <1>1 DEF Quiet, UsesWhatWasGranted
<1>2. ASSUME NEW b \in Bindings, Mints(b)
      PROVE  UsesWhatWasGranted'
  <2> SUFFICES ASSUME NEW a \in Ids, NEW i \in DOMAIN uses'[a]
               PROVE  granted'[a] # NoBinding /\ uses'[a][i] = granted'[a]
    BY DEF UsesWhatWasGranted
  <2>1. uses' = uses /\ granted' = [granted EXCEPT ![nextId] = b]
    BY <1>2 DEF Mints, Mint
  <2>2. a # nextId
    BY <2>1 DEF FreshInv, TypeOK, Ids
  <2> QED
    BY <2>1, <2>2 DEF UsesWhatWasGranted, TypeOK
<1>3. ASSUME NEW c \in Calls, Notes(c)
      PROVE  UsesWhatWasGranted'
  BY <1>3 DEF Notes, UsesWhatWasGranted
<1>4. ASSUME NEW c \in Calls, Claims(c)
      PROVE  UsesWhatWasGranted'
  <2> SUFFICES ASSUME NEW a \in Ids, NEW i \in DOMAIN uses'[a]
               PROVE  granted[a] # NoBinding /\ uses'[a][i] = granted[a]
    BY <1>4 DEF Claims, UsesWhatWasGranted
  <2>1. /\ approval[c] \in Ids /\ binding[c] \in Bindings
        /\ granted[approval[c]] = binding[c]
    BY <1>4 DEF Claims, CallInv
  <2>2. CASE a # approval[c]
    BY <1>4, <2>2 DEF Claims, UsesWhatWasGranted, TypeOK
  <2>3. CASE a = approval[c]
    <3>1. uses[a] \in Seq(Bindings \cup {NoBinding})
      BY DEF TypeOK
    <3>2. uses'[a] = Append(uses[a], binding[c])
      BY <1>4, <2>3 DEF Claims, TypeOK
    <3>3. (i \in DOMAIN uses[a] /\ uses'[a][i] = uses[a][i])
            \/ uses'[a][i] = binding[c]
      BY <2>1, <3>1, <3>2
    <3> QED
      BY <2>1, <2>3, <3>3, BindingsAssumption DEF UsesWhatWasGranted
  <2> QED
    BY <2>2, <2>3
<1> QED
  BY <1>1, <1>2, <1>3, <1>4, FileEffects

----------------------------------------------------------------------------
\* What a step does to the calls: it frees some slots, or moves one of them.
Moves(c) ==
  \/ /\ \E a \in Ids, b \in Bindings : LookUp(c, a, b)
     /\ pc' = [pc EXCEPT ![c] = "matched"]
  \/ /\ pc[c] = "matched"
     /\ ~HasApprovalUse(file, approval[c])
     /\ pc' = [pc EXCEPT ![c] = "unused"]
     /\ UNCHANGED << approval, binding, uses >>
  \/ /\ pc[c] \in {"unused", "claimed"}
     /\ pc' \in {[pc EXCEPT ![c] = "claimed"], [pc EXCEPT ![c] = "answered"]}
     /\ UNCHANGED << approval, binding >>

LEMMA CallEffects ==
  ASSUME TypeOK, FileInv, [Next]_vars
  PROVE  \/ UNCHANGED << pc, approval, binding >>
         \/ \E S \in SUBSET Calls, v \in Reports : Free(S, v)
         \/ \E c \in Calls : Moves(c)
<1> USE DEF Reports
<1>1. TornHasLine(file)
  BY DEF FileInv
<1>2. ASSUME NEW c \in Calls, NEW b \in Bindings, DryRun(c, b)
      PROVE  Free({c}, "dry_run")
  BY <1>2 DEF DryRun, Return
<1>3. ASSUME NEW c \in Calls, NEW b \in Bindings, DryRunCut(c, b)
      PROVE  \E S \in SUBSET Calls, v \in Reports : Free(S, v)
  <2>1. DryRunRecord(b) \in Line /\ CutWrite(c, DryRunRecord(b), "not_sent")
    BY <1>3, RecordTypes DEF DryRunCut, CutWrite
  <2> QED
    BY <1>1, <2>1, CutWriteCases
<1>4. ASSUME NEW c \in Calls, NEW a \in Ids, NEW b \in Bindings, LookUp(c, a, b)
      PROVE  Moves(c) \/ Free({c}, "not_sent")
  BY <1>4 DEF LookUp, Return, Moves
<1>5. ASSUME NEW c \in Calls, CheckUnused(c)
      PROVE  Moves(c) \/ Free({c}, "not_sent")
  BY <1>5 DEF CheckUnused, Return, Moves, history
<1>6. ASSUME NEW c \in Calls, Claim(c) \/ Send(c)
      PROVE  Moves(c)
  BY <1>6 DEF Claim, Send, Moves
<1>7. ASSUME NEW c \in Calls, ClaimCut(c)
      PROVE  \E S \in SUBSET Calls, v \in Reports : Free(S, v)
  <2>1. ClaimRecord(c) \in Line /\ CutWrite(c, ClaimRecord(c), "not_sent")
    BY <1>7, RecordTypes DEF ClaimCut, CutWrite
  <2> QED
    BY <1>1, <2>1, CutWriteCases
<1>8. ASSUME NEW c \in Calls, Answer(c) \/ Complete(c)
      PROVE  \E v \in Reports : Free({c}, v)
  BY <1>8 DEF Answer, Complete, Return
<1>9. ASSUME NEW c \in Calls, CompleteCut(c)
      PROVE  \E S \in SUBSET Calls, v \in Reports : Free(S, v)
  <2>1. /\ CompletedRecord(c) \in Line
        /\ CutWrite(c, CompletedRecord(c), "not_sent")
    BY <1>9, RecordTypes DEF CompleteCut, CutWrite
  <2> QED
    BY <1>1, <2>1, CutWriteCases
<1>10. ASSUME NEW p \in Procs, Crash(p)
       PROVE  Free({c \in Calls : ProcOf[c] = p}, "none")
  BY <1>10 DEF Crash, Die
<1>11. CASE Tick \/ UNCHANGED vars
  BY <1>11 DEF Tick, vars, callVars
<1> QED
  BY <1>2, <1>3, <1>4, <1>5, <1>6, <1>7, <1>8, <1>9, <1>10, <1>11 DEF Next

(***************************************************************************)
(* A lookup that matches has found the grant of this very control.         *)
(***************************************************************************)
LEMMA LookUpMatches ==
  ASSUME TypeOK, FileInv, NEW c \in Calls, NEW a \in Ids, NEW b \in Bindings,
         LookUp(c, a, b), pc' = [pc EXCEPT ![c] = "matched"]
  PROVE  /\ Finds(file, a) /\ granted[a] = b
         /\ approval' = [approval EXCEPT ![c] = a]
         /\ binding' = [binding EXCEPT ![c] = b]
<1>1. pc'[c] = "matched"
  BY DEF TypeOK
<1>2. ~Return(c, "not_sent")
  BY <1>1 DEF Return, Free, TypeOK
<1>3. /\ Finds(file, a) /\ Matches(Find(file, a), b)
      /\ approval' = [approval EXCEPT ![c] = a]
      /\ binding' = [binding EXCEPT ![c] = b]
  BY <1>2 DEF LookUp
<1>4. file \in File /\ a \in Nat
  BY DEF TypeOK, Ids
<1>5. PICK i \in DOMAIN file.lines :
        Find(file, a) = file.lines[i] /\ file.lines[i].id = a
  BY <1>3, <1>4, FindIsALine
<1>6. file.lines[i].kind = "dry_run" /\ file.lines[i].binding = b
  BY <1>3, <1>5 DEF Matches, IsDryRun
<1>7. LineInv(file.lines[i])
  BY <1>5 DEF FileInv
<1>8. granted[a] = b
  BY <1>5, <1>6, <1>7 DEF LineInv
<1> QED
  BY <1>3, <1>6, <1>8

\* What was granted under an id stays granted.
LEMMA GrantsKept ==
  ASSUME GateInv, [Next]_vars, NEW a \in Ids, granted[a] # NoBinding
  PROVE  granted'[a] = granted[a]
<1> USE DEF GateInv
<1>1. ASSUME NEW b \in Bindings, Mints(b)
      PROVE  granted'[a] = granted[a]
  <2>1. a # nextId
    BY DEF FreshInv, TypeOK, Ids
  <2> QED
    BY <1>1, <2>1 DEF Mints, Mint, TypeOK
<1> QED
  BY <1>1, FileEffects DEF Quiet, Claims, Notes

LEMMA NextCall ==
  ASSUME GateInv, [Next]_vars
  PROVE  CallInv'
<1> USE DEF GateInv
<1> SUFFICES ASSUME NEW c \in Calls, pc'[c] \in {"matched", "unused"}
             PROVE  /\ approval'[c] \in Ids
                    /\ binding'[c] \in Bindings
                    /\ granted'[approval'[c]] = binding'[c]
  BY DEF CallInv
<1>1. CASE /\ pc[c] \in {"matched", "unused"}
           /\ approval'[c] = approval[c] /\ binding'[c] = binding[c]
  <2>1. /\ approval[c] \in Ids /\ binding[c] \in Bindings
        /\ granted[approval[c]] = binding[c]
    BY <1>1 DEF CallInv
  <2> QED
    BY <1>1, <2>1, GrantsKept, BindingsAssumption
<1>2. CASE UNCHANGED << pc, approval, binding >>
  BY <1>1, <1>2
<1>3. ASSUME NEW S \in SUBSET Calls, NEW v \in Reports, Free(S, v)
      PROVE  /\ pc[c] \in {"matched", "unused"}
             /\ approval'[c] = approval[c] /\ binding'[c] = binding[c]
  BY <1>3 DEF Free
<1>4. ASSUME NEW d \in Calls, Moves(d), d # c
      PROVE  /\ pc[c] \in {"matched", "unused"}
             /\ approval'[c] = approval[c] /\ binding'[c] = binding[c]
  <2>1. ASSUME NEW a \in Ids, NEW b \in Bindings, LookUp(d, a, b),
               pc' = [pc EXCEPT ![d] = "matched"]
        PROVE  /\ pc'[c] = pc[c]
               /\ approval'[c] = approval[c] /\ binding'[c] = binding[c]
    <3>1. /\ approval' = [approval EXCEPT ![d] = a]
          /\ binding' = [binding EXCEPT ![d] = b]
      BY <2>1, LookUpMatches
    <3> QED
      BY <1>4, <2>1, <3>1 DEF TypeOK
  <2>2. ASSUME UNCHANGED << approval, binding >>,
               NEW w, pc' = [pc EXCEPT ![d] = w]
        PROVE  /\ pc'[c] = pc[c]
               /\ approval'[c] = approval[c] /\ binding'[c] = binding[c]
    BY <1>4, <2>2 DEF TypeOK
  <2> QED
    BY <1>4, <2>1, <2>2 DEF Moves
<1>5. CASE Moves(c)
  <2>1. CASE pc[c] = "matched" /\ UNCHANGED << approval, binding >>
    BY <1>1, <2>1
  <2>2. CASE pc[c] \in {"unused", "claimed"} /\ UNCHANGED << approval, binding >>
             /\ pc' \in {[pc EXCEPT ![c] = "claimed"], [pc EXCEPT ![c] = "answered"]}
    BY <2>2 DEF TypeOK
  <2>3. ASSUME NEW a \in Ids, NEW b \in Bindings, LookUp(c, a, b),
               pc' = [pc EXCEPT ![c] = "matched"]
        PROVE  /\ approval'[c] = a /\ binding'[c] = b
               /\ granted'[a] = b
    <3>1. /\ granted[a] = b
          /\ approval' = [approval EXCEPT ![c] = a]
          /\ binding' = [binding EXCEPT ![c] = b]
      BY <2>3, LookUpMatches
    <3>2. granted' = granted
      BY <2>3 DEF LookUp, history
    <3> QED
      BY <3>1, <3>2 DEF TypeOK
  <2> QED
    BY <1>5, <2>1, <2>2, <2>3 DEF Moves
<1> QED
  BY <1>1, <1>2, <1>3, <1>4, <1>5, CallEffects

LEMMA NextEventLoop ==
  ASSUME GateInv, [Next]_vars
  PROVE  EventLoopInv'
<1> USE DEF GateInv, Synchronous
<1> SUFFICES ASSUME NEW c \in Calls, NEW d \in Calls, ProcOf[c] = ProcOf[d],
                    pc'[c] \in Synchronous, pc'[d] \in Synchronous
             PROVE  c = d
  BY DEF EventLoopInv
<1>1. CASE UNCHANGED << pc, approval, binding >>
  BY <1>1 DEF EventLoopInv
<1>2. ASSUME NEW S \in SUBSET Calls, NEW v \in Reports, Free(S, v)
      PROVE  c = d
  BY <1>2 DEF Free, EventLoopInv
<1>3. ASSUME NEW e \in Calls, Moves(e)
      PROVE  c = d
  <2>1. CASE /\ \E a \in Ids, b \in Bindings : LookUp(e, a, b)
             /\ pc' = [pc EXCEPT ![e] = "matched"]
    <3>1. LoopFree(e)
      BY <2>1 DEF LookUp
    <3> QED
      BY <2>1, <3>1 DEF LoopFree, EventLoopInv, TypeOK
  <2>2. CASE pc[e] = "matched" /\ pc' = [pc EXCEPT ![e] = "unused"]
    BY <2>2 DEF EventLoopInv, TypeOK
  <2>3. CASE /\ pc[e] \in {"unused", "claimed"}
             /\ pc' \in {[pc EXCEPT ![e] = "claimed"],
                          [pc EXCEPT ![e] = "answered"]}
    BY <2>3 DEF EventLoopInv, TypeOK
  <2> QED
    BY <1>3, <2>1, <2>2, <2>3 DEF Moves
<1> QED
  BY <1>1, <1>2, <1>3, CallEffects

----------------------------------------------------------------------------
LEMMA InitGate == Init => GateInv
<1> SUFFICES ASSUME Init PROVE GateInv
  OBVIOUS
<1>1. TypeOK
  BY InitType
<1>2. FileInv /\ FreshInv /\ CallInv /\ EventLoopInv
  BY DEF Init, FileInv, TornHasLine, EmptyFile, FreshInv, CallInv,
         EventLoopInv, Synchronous
<1>3. SpentIsVisible /\ UsesWhatWasGranted
  BY DEF Init, SpentIsVisible, UsesWhatWasGranted
<1> QED
  BY <1>1, <1>2, <1>3 DEF GateInv

LEMMA NextGate == GateInv /\ [Next]_vars => GateInv'
<1> SUFFICES ASSUME GateInv, [Next]_vars PROVE GateInv'
  OBVIOUS
<1> USE DEF GateInv
<1>1. TypeOK'
  BY NextType
<1>2. FileInv' /\ FreshInv'
  BY NextFile, NextFresh
<1>3. CallInv' /\ EventLoopInv'
  BY NextCall, NextEventLoop
<1>4. SpentIsVisible' /\ UsesWhatWasGranted'
  BY NextSpent, NextGranted
<1> QED
  BY <1>1, <1>2, <1>3, <1>4

(***************************************************************************)
(* The inductive invariant holds for any set of processes and calls, any   *)
(* interleaving of them, and any number of crashes and cut writes.         *)
(***************************************************************************)
THEOREM GateInvariant == Spec => []GateInv
<1> QED
  BY InitGate, NextGate, PTL DEF Spec

(***************************************************************************)
(* The variables keep their types.                                         *)
(***************************************************************************)
THEOREM TypeCorrect == Spec => []TypeOK
<1>1. GateInv => TypeOK
  BY DEF GateInv
<1> QED
  BY <1>1, GateInvariant, PTL

(***************************************************************************)
(* A spent approval never looks unused again, whatever is lost of the      *)
(* audit file: either the use is on file or the approval cannot be found.  *)
(***************************************************************************)
THEOREM SpentStaysVisible == Spec => []SpentIsVisible
<1>1. GateInv => SpentIsVisible
  BY DEF GateInv
<1> QED
  BY <1>1, GateInvariant, PTL

(***************************************************************************)
(* A control is claimed only under an approval minted for it.              *)
(***************************************************************************)
THEOREM UsedAsGranted == Spec => []UsesWhatWasGranted
<1>1. GateInv => UsesWhatWasGranted
  BY DEF GateInv
<1> QED
  BY <1>1, GateInvariant, PTL

----------------------------------------------------------------------------
(***************************************************************************)
(* One process.  Its event loop runs lookup, check and claim of a call     *)
(* without another in between, so what the lookup saw still holds at the   *)
(* claim.                                                                  *)
(***************************************************************************)
OneProcess == \A c, d \in Calls : ProcOf[c] = ProcOf[d]

UnspentInv ==
  \A c \in Calls :
    /\ pc[c] = "matched" => Finds(file, approval[c])
    /\ pc[c] = "unused" => uses[approval[c]] = << >>

(***************************************************************************)
(* While one call is between its lookup and its claim, no step of another  *)
(* writes the file.                                                        *)
(***************************************************************************)
LEMMA OthersWait ==
  ASSUME OneProcess, GateInv, [Next]_vars,
         NEW c \in Calls, pc[c] \in Synchronous, pc'[c] \in Synchronous
  PROVE  UNCHANGED << file, uses >>
<1> USE DEF GateInv, Synchronous
<1>1. ASSUME NEW d \in Calls, LoopFree(d)
      PROVE  d = c
  BY <1>1 DEF LoopFree, OneProcess
<1>2. ASSUME NEW d \in Calls, pc[d] = "unused"
      PROVE  d = c
  BY <1>2 DEF EventLoopInv, OneProcess
<1>3. ASSUME NEW d \in Calls, NEW b \in Bindings, DryRun(d, b) \/ DryRunCut(d, b)
      PROVE  FALSE
  BY <1>1, <1>3 DEF DryRun, DryRunCut
<1>4. ASSUME NEW d \in Calls, Complete(d) \/ CompleteCut(d)
      PROVE  FALSE
  BY <1>1, <1>4 DEF Complete, CompleteCut
<1>5. ASSUME NEW d \in Calls, Claim(d)
      PROVE  FALSE
  BY <1>2, <1>5 DEF Claim, TypeOK
<1>6. ASSUME NEW d \in Calls, ClaimCut(d)
      PROVE  FALSE
  <2>1. d = c /\ (Die(ProcOf[d]) \/ Return(d, "not_sent"))
    BY <1>2, <1>6 DEF ClaimCut, CutWrite
  <2> QED
    BY <2>1 DEF Die, Return, Free
<1>7. ASSUME NEW d \in Calls, NEW a \in Ids, NEW b \in Bindings, LookUp(d, a, b)
      PROVE  UNCHANGED << file, uses >>
  BY <1>7 DEF LookUp, fileVars, history
<1>8. ASSUME NEW d \in Calls, CheckUnused(d) \/ Send(d) \/ Answer(d)
      PROVE  UNCHANGED << file, uses >>
  BY <1>8 DEF CheckUnused, Send, Answer, fileVars, history
<1>9. CASE (\E p \in Procs : Crash(p)) \/ Tick \/ UNCHANGED vars
  BY <1>9 DEF Crash, Tick, vars, fileVars, history
<1> QED
  BY <1>3, <1>4, <1>5, <1>6, <1>7, <1>8, <1>9 DEF Next

(***************************************************************************)
(* A call that is past its lookup either was already, and still holds the  *)
(* same approval, or has just moved.                                       *)
(***************************************************************************)
LEMMA StaysOrMoves ==
  ASSUME GateInv, [Next]_vars, NEW c \in Calls, pc'[c] \in Synchronous
  PROVE  \/ pc'[c] = pc[c] /\ approval'[c] = approval[c]
         \/ Moves(c)
<1> USE DEF GateInv, Synchronous
<1>1. CASE UNCHANGED << pc, approval, binding >>
  BY <1>1
<1>2. ASSUME NEW S \in SUBSET Calls, NEW v \in Reports, Free(S, v)
      PROVE  pc'[c] = pc[c] /\ approval'[c] = approval[c]
  BY <1>2 DEF Free
<1>3. ASSUME NEW d \in Calls, Moves(d), d # c
      PROVE  pc'[c] = pc[c] /\ approval'[c] = approval[c]
  <2>1. ASSUME NEW a \in Ids, NEW b \in Bindings, LookUp(d, a, b),
               pc' = [pc EXCEPT ![d] = "matched"]
        PROVE  pc'[c] = pc[c] /\ approval'[c] = approval[c]
    <3>1. approval' = [approval EXCEPT ![d] = a]
      BY <2>1, LookUpMatches
    <3> QED
      BY <1>3, <2>1, <3>1 DEF TypeOK
  <2>2. ASSUME UNCHANGED approval, NEW w, pc' = [pc EXCEPT ![d] = w]
        PROVE  pc'[c] = pc[c] /\ approval'[c] = approval[c]
    BY <1>3, <2>2 DEF TypeOK
  <2> QED
    BY <1>3, <2>1, <2>2 DEF Moves
<1> QED
  BY <1>1, <1>2, <1>3, CallEffects

LEMMA NextUnspent ==
  ASSUME OneProcess, GateInv, UnspentInv, [Next]_vars
  PROVE  UnspentInv'
<1> USE DEF GateInv, Synchronous
<1> SUFFICES ASSUME NEW c \in Calls, pc'[c] \in Synchronous
             PROVE  /\ pc'[c] = "matched" => Finds(file', approval'[c])
                    /\ pc'[c] = "unused" => uses'[approval'[c]] = << >>
  BY DEF UnspentInv
<1>1. CASE pc'[c] = pc[c] /\ approval'[c] = approval[c]
  <2>1. UNCHANGED << file, uses >>
    BY <1>1, OthersWait
  <2> QED
    BY <1>1, <2>1 DEF UnspentInv
<1>2. CASE Moves(c)
  <2>1. ASSUME NEW a \in Ids, NEW b \in Bindings, LookUp(c, a, b),
               pc' = [pc EXCEPT ![c] = "matched"]
        PROVE  pc'[c] = "matched" /\ Finds(file', approval'[c])
    <3>1. Finds(file, a) /\ approval' = [approval EXCEPT ![c] = a]
      BY <2>1, LookUpMatches
    <3>2. file' = file
      BY <2>1 DEF LookUp, fileVars
    <3> QED
      BY <2>1, <3>1, <3>2 DEF TypeOK
  <2>2. CASE /\ pc[c] = "matched"
             /\ ~HasApprovalUse(file, approval[c])
             /\ pc' = [pc EXCEPT ![c] = "unused"]
             /\ UNCHANGED << approval, binding, uses >>
    <3>1. Finds(file, approval[c]) /\ approval[c] \in Ids
      BY <2>2 DEF UnspentInv, CallInv
    <3>2. uses[approval[c]] = << >>
      BY <2>2, <3>1 DEF SpentIsVisible
    <3> QED
      BY <2>2, <3>2 DEF TypeOK
  <2>3. CASE pc' \in {[pc EXCEPT ![c] = "claimed"], [pc EXCEPT ![c] = "answered"]}
    BY <2>3 DEF TypeOK
  <2> QED
    BY <1>2, <2>1, <2>2, <2>3 DEF Moves
<1> QED
  BY <1>1, <1>2, StaysOrMoves

LEMMA InitUnspent == Init => UnspentInv
BY DEF Init, UnspentInv

(***************************************************************************)
(* With one process every claim is the first under its approval.           *)
(***************************************************************************)
LEMMA NextSingle ==
  ASSUME GateInv, UnspentInv, SingleUse, [Next]_vars
  PROVE  SingleUse'
<1> USE DEF GateInv
<1>1. ASSUME NEW c \in Calls, Claims(c)
      PROVE  SingleUse'
  <2>1. approval[c] \in Ids /\ uses[approval[c]] = << >>
    BY <1>1 DEF Claims, CallInv, UnspentInv
  <2>2. Len(Append(<< >>, binding[c])) = 1
    OBVIOUS
  <2> SUFFICES ASSUME NEW a \in Ids PROVE Len(uses'[a]) <= 1
    BY DEF SingleUse
  <2>3. CASE a = approval[c]
    BY <1>1, <2>1, <2>2, <2>3 DEF Claims, TypeOK
  <2>4. CASE a # approval[c]
    BY <1>1, <2>4 DEF Claims, TypeOK, SingleUse
  <2> QED
    BY <2>3, <2>4
<1>2. ASSUME UNCHANGED uses
      PROVE  SingleUse'
  BY <1>2 DEF SingleUse
<1> QED
  BY <1>1, <1>2, FileEffects DEF Quiet, Mints, Mint, Notes

(***************************************************************************)
(* One process never lets an approval be used twice, whatever crashes and  *)
(* cut writes do to the audit file.                                        *)
(***************************************************************************)
THEOREM OneProcessSingleUse ==
  ASSUME OneProcess
  PROVE  Spec => []SingleUse
<1> DEFINE SingleInv == GateInv /\ UnspentInv /\ SingleUse
<1>1. Init => SingleInv
  BY InitGate, InitUnspent DEF Init, SingleUse
<1>2. SingleInv /\ [Next]_vars => SingleInv'
  BY NextGate, NextUnspent, NextSingle
<1>3. SingleInv => SingleUse
  OBVIOUS
<1> QED
  BY <1>1, <1>2, <1>3, PTL DEF Spec

(***************************************************************************)
(* One process implements the ledger: a step of the gate is a grant, a     *)
(* first use, or nothing the ledger sees.                                  *)
(***************************************************************************)
LEMMA StepImplementsLedger ==
  ASSUME GateInv, UnspentInv, [Next]_vars
  PROVE  [Ledger!Next]_(Ledger!ledgerVars)
<1> USE DEF GateInv
<1>1. ASSUME NEW b \in Bindings, Mints(b)
      PROVE  Ledger!Next
  <2>1. nextId \in Ids /\ granted[nextId] = NoBinding
    BY <1>1 DEF Mints, Touches, FreshInv, Ids
  <2>2. Ledger!Grant(nextId, b)
    BY <1>1, <2>1 DEF Mints, Mint, Ledger!Grant
  <2> QED
    BY <2>1, <2>2 DEF Ledger!Next
<1>2. ASSUME NEW c \in Calls, Claims(c)
      PROVE  Ledger!Next
  <2>1. /\ approval[c] \in Ids /\ uses[approval[c]] = << >>
        /\ granted[approval[c]] = binding[c] /\ binding[c] # NoBinding
    BY <1>2, BindingsAssumption DEF Claims, CallInv, UnspentInv
  <2>2. Append(<< >>, binding[c]) = << binding[c] >>
    OBVIOUS
  <2>3. uses' = [uses EXCEPT ![approval[c]] = << granted[approval[c]] >>]
    BY <1>2, <2>1, <2>2 DEF Claims
  <2>4. Ledger!Use(approval[c])
    BY <1>2, <2>1, <2>3 DEF Claims, Ledger!Use
  <2> QED
    BY <2>1, <2>4 DEF Ledger!Next
<1>3. ASSUME UNCHANGED << granted, uses >>
      PROVE  UNCHANGED Ledger!ledgerVars
  BY <1>3 DEF Ledger!ledgerVars
<1> QED
  BY <1>1, <1>2, <1>3, FileEffects DEF Quiet, Notes

THEOREM OneProcessImplementsLedger ==
  ASSUME OneProcess
  PROVE  Spec => ImplementsLedger
<1> DEFINE Inv == GateInv /\ UnspentInv
<1>1. Init => Inv /\ Ledger!Init
  BY InitGate, InitUnspent DEF Init, Ledger!Init
<1>2. Inv /\ [Next]_vars => Inv'
  BY NextGate, NextUnspent
<1>3. Inv /\ [Next]_vars => [Ledger!Next]_(Ledger!ledgerVars)
  BY StepImplementsLedger
<1> QED
  BY <1>1, <1>2, <1>3, PTL DEF Spec, ImplementsLedger, Ledger!Spec
----------------------------------------------------------------------------
(***************************************************************************)
(* What the callers are told.  A call that has not sent its control cannot *)
(* have had it performed, and once Codex has answered, only an             *)
(* indeterminate answer leaves that open.  The record that closes a call   *)
(* is written last, and what a cut has left of it never becomes a line     *)
(* with a newline.                                                         *)
(***************************************************************************)
AnswerInv ==
  \A c \in Calls :
    /\ pc[c] \in {"matched", "unused", "claimed"} => ~ran[c]
    /\ pc[c] = "answered" =>
         /\ outcome[c] = "accepted" => ran[c]
         /\ outcome[c] \in {"refused", "gated"} => ~ran[c]
    /\ closing[c] \in 0 .. nextId - 1
    /\ pc[c] # "idle" => closing[c] = NoId

HonestInv == AnswerInv /\ HonestReport

\* A step writes at most one record, whole or not, under the next id.
OneRecord ==
  \/ UNCHANGED << file, nextId >>
  \/ /\ nextId' = nextId + 1
     /\ \E rec \in Line :
          /\ rec.id = nextId
          /\ file' = AppendRecord(file, rec) \/ file' \in CutAppend(file, rec)

LEMMA NextOneRecord ==
  ASSUME TypeOK, [Next]_vars
  PROVE  OneRecord
<1>1. ASSUME NEW rec \in Line, Write(rec), rec.id = nextId PROVE OneRecord
  BY <1>1 DEF Write, OneRecord
<1>2. ASSUME NEW c \in Calls, NEW rec \in Line, NEW v, CutWrite(c, rec, v), rec.id = nextId
      PROVE  OneRecord
  BY <1>2 DEF CutWrite, OneRecord
<1>3. ASSUME nextId <= MaxId
      PROVE  /\ \A b \in Bindings : DryRunRecord(b) \in Line /\ DryRunRecord(b).id = nextId
             /\ \A c \in Calls : ClaimRecord(c) \in Line /\ ClaimRecord(c).id = nextId
             /\ \A c \in Calls : CompletedRecord(c) \in Line /\ CompletedRecord(c).id = nextId
  BY <1>3, RecordTypes, RecordFields
<1>4. ASSUME NEW c \in Calls, NEW b \in Bindings, DryRun(c, b) \/ DryRunCut(c, b)
      PROVE  OneRecord
  <2>1. nextId <= MaxId
    BY <1>4 DEF DryRun, DryRunCut, Write, CutWrite
  <2> QED BY <1>1, <1>2, <1>3, <1>4, <2>1 DEF DryRun, DryRunCut
<1>5. ASSUME NEW c \in Calls, Claim(c) \/ ClaimCut(c) \/ Complete(c) \/ CompleteCut(c)
      PROVE  OneRecord
  <2>1. nextId <= MaxId
    BY <1>5 DEF Claim, ClaimCut, Complete, CompleteCut, Write, CutWrite
  <2> QED BY <1>1, <1>2, <1>3, <1>5, <2>1 DEF Claim, ClaimCut, Complete, CompleteCut
<1>6. ASSUME UNCHANGED fileVars PROVE OneRecord
  BY <1>6 DEF fileVars, OneRecord
<1>7. \/ \E c \in Calls, b \in Bindings : DryRun(c, b) \/ DryRunCut(c, b)
      \/ \E c \in Calls : Claim(c) \/ ClaimCut(c) \/ Complete(c) \/ CompleteCut(c)
      \/ UNCHANGED fileVars
  BY DEF Next, vars, LookUp, CheckUnused, Send, Answer, Crash, Tick
<1> QED BY <1>4, <1>5, <1>6, <1>7

(***************************************************************************)
(* No write finishes a record that was left unfinished, and none that is   *)
(* cut is finished (append: one call of appendFileSync per record).        *)
(***************************************************************************)
FinishedStays == \A id \in 1 .. nextId - 1 : Finished(file', id) => Finished(file, id)

LEMMA AppendedLine ==
  ASSUME NEW s \in Seq(Line), NEW e \in Line, NEW i \in DOMAIN Append(s, e)
  PROVE  \/ i = Len(Append(s, e)) /\ Append(s, e)[i] = e
         \/ i \in DOMAIN s /\ i # Len(Append(s, e)) /\ Append(s, e)[i] = s[i]
OBVIOUS

LEMMA SpoiledLine ==
  ASSUME NEW s \in Seq(Line), s # << >>, NEW t, t = [s EXCEPT ![Len(s)] = Corrupt],
         NEW i \in DOMAIN t
  PROVE  /\ i \in DOMAIN s /\ Len(t) = Len(s)
         /\ t[i] = IF i = Len(s) THEN Corrupt ELSE s[i]
<1>1. DOMAIN t = DOMAIN s /\ DOMAIN s = 1 .. Len(s) /\ Len(s) \in Nat
  OBVIOUS
<1>2. Len(t) = Len(s)
  BY CorruptType
<1> QED BY <1>1, <1>2

LEMMA NoneIsFinishedLater ==
  ASSUME TypeOK, FileInv, OneRecord
  PROVE  FinishedStays
<1>0. /\ file.lines \in Seq(Line) /\ file.torn \in BOOLEAN /\ nextId \in Nat
      /\ file.torn => file.lines # << >>
      /\ Corrupt \in Line /\ Corrupt.id = 0
  BY CorruptType DEF TypeOK, FileInv, TornHasLine, File, Corrupt, AuditRecord, NoId
<1> SUFFICES ASSUME NEW id \in 1 .. nextId - 1, Finished(file', id)
             PROVE  Finished(file, id)
  BY DEF FinishedStays
<1>1. PICK i \in DOMAIN file'.lines :
        file'.lines[i].id = id /\ (i = Len(file'.lines) => ~file'.torn)
  BY DEF Finished
<1>2. CASE UNCHANGED file
  BY <1>1, <1>2 DEF Finished
<1>3. ASSUME NEW rec \in Line, rec.id = nextId \/ rec = Corrupt,
             file'.lines = Append(file.lines, rec), ~file.torn
      PROVE  Finished(file, id)
  <2>1. rec.id # id
    BY <1>0, <1>3
  <2>2. i \in DOMAIN file.lines /\ file'.lines[i] = file.lines[i]
    BY <1>0, <1>1, <1>3, <2>1, AppendedLine
  <2>3. file.lines[i].id = id /\ (i = Len(file.lines) => ~file.torn)
    BY <1>1, <1>3, <2>2
  <2> QED BY <2>2, <2>3 DEF Finished
<1>4. ASSUME file'.lines = SpoilLast(file), file.torn
      PROVE  Finished(file, id)
  <2>1. /\ i \in DOMAIN file.lines
        /\ file'.lines[i] = IF i = Len(file.lines) THEN Corrupt ELSE file.lines[i]
    BY <1>0, <1>1, <1>4, SpoiledLine DEF SpoilLast
  <2>2. i # Len(file.lines) /\ file'.lines[i] = file.lines[i]
    BY <1>0, <1>1, <2>1
  <2> QED BY <1>1, <2>1, <2>2 DEF Finished
<1>5. CASE UNCHANGED file \/ \E rec \in Line :
             /\ rec.id = nextId
             /\ file' = AppendRecord(file, rec) \/ file' \in CutAppend(file, rec)
  <2>1. ASSUME NEW rec \in Line, rec.id = nextId,
               file' = AppendRecord(file, rec) \/ file' \in CutAppend(file, rec),
               ~UNCHANGED file
        PROVE  \/ file'.lines = SpoilLast(file) /\ file.torn
               \/ file'.lines \in {Append(file.lines, rec), Append(file.lines, Corrupt)} /\ ~file.torn
    BY <2>1 DEF AppendRecord, CutAppend
  <2> QED BY <1>0, <1>2, <1>3, <1>4, <1>5, <2>1
<1> QED BY <1>5 DEF OneRecord

LEMMA CutIsUnfinished ==
  ASSUME TypeOK, FileInv, NEW rec \in Line, file' \in CutAppend(file, rec)
  PROVE  ~Finished(file', nextId)
<1>0. /\ file.lines \in Seq(Line) /\ nextId \in Nat \ {0}
      /\ file.torn => file.lines # << >>
      /\ Corrupt.id = 0
      /\ \A i \in DOMAIN file.lines : file.lines[i].id # nextId
      /\ Corrupt \in Line
  BY BoundsAssumption, CorruptType DEF TypeOK, FileInv, TornHasLine, LineInv, File, Corrupt, AuditRecord, NoId
<1>1. CASE file' = file
  BY <1>0, <1>1 DEF Finished
<1>2. ASSUME NEW line \in Line, file'.lines = Append(file.lines, line), file'.torn
      PROVE  ~Finished(file', nextId)
  <2>1. ASSUME NEW i \in DOMAIN file'.lines
        PROVE  i = Len(file'.lines) \/ (i \in DOMAIN file.lines /\ file'.lines[i] = file.lines[i])
    BY <1>0, <1>2, <2>1, AppendedLine
  <2> QED BY <1>0, <1>2, <2>1 DEF Finished
<1>3. CASE file'.lines = SpoilLast(file) /\ file.torn
  <2>1. ASSUME NEW i \in DOMAIN file'.lines
        PROVE  i \in DOMAIN file.lines /\ (file'.lines[i] = file.lines[i] \/ file'.lines[i] = Corrupt)
    BY <1>0, <1>3, <2>1, SpoiledLine DEF SpoilLast
  <2> QED BY <1>0, <2>1 DEF Finished
<1>4. \/ file' = file
      \/ file'.lines = SpoilLast(file) /\ file.torn
      \/ file'.lines \in {Append(file.lines, rec), Append(file.lines, Corrupt)} /\ file'.torn
  BY DEF CutAppend
<1> QED BY <1>0, <1>1, <1>2, <1>3, <1>4

(***************************************************************************)
(* Slots that are freed with nothing said, or with a report that is true   *)
(* of each of them, keep both.                                             *)
(***************************************************************************)
TrueOf(c, value) ==
  /\ value = "sent" => ran'[c]
  /\ value = "not_sent" /\ ran'[c] => closing'[c] # NoId /\ ~Finished(file', closing'[c])

SameAnswer(c) == ran'[c] = ran[c] /\ outcome'[c] = outcome[c] /\ closing'[c] = closing[c]

\* What every step does to the records, and what it leaves of other calls' reports.
Progress == nextId \in Nat /\ nextId' \in Nat /\ nextId' >= nextId /\ FinishedStays

LEMMA IdIsANumber ==
  ASSUME TypeOK
  PROVE  nextId \in Nat /\ nextId >= 1
BY BoundsAssumption DEF TypeOK

LEMMA AboveOne ==
  \A k, m \in Nat : k >= 1 /\ m >= k =>
    k \in Nat \ {0} /\ m - 1 \in Nat /\ 0 \in 0 .. m - 1
OBVIOUS

LEMMA NextProgress ==
  ASSUME TypeOK, FileInv, [Next]_vars
  PROVE  Progress
<1>1. OneRecord /\ nextId \in Nat
  BY NextOneRecord DEF TypeOK
<1> QED BY <1>1, NoneIsFinishedLater DEF OneRecord, Progress

LEMMA ReportKept ==
  ASSUME HonestInv, Progress, NEW c \in Calls, SameAnswer(c), pc[c] = "idle",
         report'[c] = report[c]
  PROVE  /\ report'[c] = "sent" => ran'[c]
         /\ report'[c] = "not_sent" /\ ran'[c] =>
              closing'[c] # NoId /\ ~Finished(file', closing'[c])
<1>1. closing[c] # NoId => closing[c] \in 1 .. nextId - 1
  BY DEF HonestInv, AnswerInv, NoId, Progress
<1> QED BY <1>1 DEF HonestInv, HonestReport, SameAnswer, Progress, FinishedStays

LEMMA FreeHonest ==
  ASSUME TypeOK, HonestInv, Progress, NEW S \in SUBSET Calls, NEW v, Free(S, v),
         \A c \in S : TrueOf(c, v) /\ closing'[c] \in 0 .. nextId' - 1,
         \A c \in Calls \ S : SameAnswer(c)
  PROVE  HonestInv'
<1>1. AnswerInv'
  <2> SUFFICES ASSUME NEW c \in Calls
               PROVE  /\ pc'[c] \in {"matched", "unused", "claimed"} => ~ran'[c]
                      /\ pc'[c] = "answered" =>
                           /\ outcome'[c] = "accepted" => ran'[c]
                           /\ outcome'[c] \in {"refused", "gated"} => ~ran'[c]
                      /\ closing'[c] \in 0 .. nextId' - 1
                      /\ pc'[c] # "idle" => closing'[c] = NoId
    BY DEF AnswerInv
  <2> QED BY DEF HonestInv, AnswerInv, Free, SameAnswer, Progress, TypeOK
<1>2. HonestReport'
  <2> SUFFICES ASSUME NEW c \in Calls, pc'[c] = "idle"
               PROVE  /\ report'[c] = "sent" => ran'[c]
                      /\ report'[c] = "not_sent" /\ ran'[c] =>
                           closing'[c] # NoId /\ ~Finished(file', closing'[c])
    BY DEF HonestReport
  <2>1. CASE c \in S
    BY <2>1 DEF Free, TrueOf
  <2>2. CASE c \notin S
    <3>1. pc[c] = "idle" /\ report'[c] = report[c]
      BY <2>2 DEF Free
    <3> QED BY <2>2, <3>1, ReportKept
  <2> QED BY <2>1, <2>2
<1> QED BY <1>1, <1>2 DEF HonestInv

LEMMA CutHonest ==
  ASSUME TypeOK, HonestInv, Progress, NEW c \in Calls, NEW rec, NEW v,
         CutWrite(c, rec, v), TrueOf(c, v), closing'[c] \in 0 .. nextId' - 1,
         \A d \in Calls \ {c} : SameAnswer(d)
  PROVE  HonestInv'
<1>1. CASE Die(ProcOf[c])
  <2> DEFINE S == {e \in Calls : ProcOf[e] = ProcOf[c]}
  <2>1. \A d \in S : TrueOf(d, "none") /\ closing'[d] \in 0 .. nextId' - 1
    BY DEF TrueOf, SameAnswer, HonestInv, AnswerInv, Progress
  <2>2. c \in S /\ S \in SUBSET Calls
    OBVIOUS
  <2> QED
    BY <1>1, <2>1, <2>2, FreeHonest DEF Die
<1>2. CASE Return(c, v)
  BY <1>2, FreeHonest DEF Return
<1> QED
  BY <1>1, <1>2 DEF CutWrite

\* A call that goes from one place to another has not been told anything.
Goes(c, place) ==
  /\ pc' = [pc EXCEPT ![c] = place] /\ place # "idle"
  /\ closing'[c] = NoId
  /\ place \in {"matched", "unused", "claimed"} => ~ran'[c]
  /\ place = "answered" =>
       /\ outcome'[c] = "accepted" => ran'[c]
       /\ outcome'[c] \in {"refused", "gated"} => ~ran'[c]
  /\ \A d \in Calls \ {c} : SameAnswer(d) /\ report'[d] = report[d]

LEMMA GoHonest ==
  ASSUME TypeOK, HonestInv, Progress, NEW c \in Calls, NEW place, Goes(c, place)
  PROVE  HonestInv'
<1>1. pc'[c] = place /\ \A d \in Calls \ {c} : pc'[d] = pc[d]
  BY DEF Goes, TypeOK
<1>1a. nextId' - 1 \in Nat /\ nextId' >= nextId
  <2>1. nextId \in Nat /\ nextId >= 1
    BY IdIsANumber
  <2>2. nextId' \in Nat /\ nextId' >= nextId
    BY DEF Progress
  <2> QED BY <2>1, <2>2, AboveOne
<1>2. AnswerInv'
  <2> SUFFICES ASSUME NEW d \in Calls
               PROVE  /\ pc'[d] \in {"matched", "unused", "claimed"} => ~ran'[d]
                      /\ pc'[d] = "answered" =>
                           /\ outcome'[d] = "accepted" => ran'[d]
                           /\ outcome'[d] \in {"refused", "gated"} => ~ran'[d]
                      /\ closing'[d] \in 0 .. nextId' - 1
                      /\ pc'[d] # "idle" => closing'[d] = NoId
    BY DEF AnswerInv
  <2> QED BY <1>1, <1>1a DEF HonestInv, AnswerInv, Goes, SameAnswer, Progress, NoId
<1>3. HonestReport'
  <2> SUFFICES ASSUME NEW d \in Calls, pc'[d] = "idle"
               PROVE  /\ report'[d] = "sent" => ran'[d]
                      /\ report'[d] = "not_sent" /\ ran'[d] =>
                           closing'[d] # NoId /\ ~Finished(file', closing'[d])
    BY DEF HonestReport
  <2>1. d # c /\ pc[d] = "idle"
    BY <1>1 DEF Goes
  <2> QED BY <2>1, ReportKept DEF Goes
<1> QED BY <1>2, <1>3 DEF HonestInv

LEMMA NextHonest ==
  ASSUME TypeOK, FileInv, HonestInv, [Next]_vars
  PROVE  HonestInv'
<1> USE DEF HonestInv
<1>1. Progress
  BY NextProgress
<1>a. 0 \in 0 .. nextId' - 1 /\ nextId \in Nat \ {0}
  <2>1. nextId \in Nat /\ nextId >= 1
    BY IdIsANumber
  <2>2. nextId' \in Nat /\ nextId' >= nextId
    BY <1>1 DEF Progress
  <2> QED BY <2>1, <2>2, AboveOne
<1>2. ASSUME NEW c \in Calls, NEW b \in Bindings, DryRun(c, b)
      PROVE  HonestInv'
  <2>1. /\ Free({c}, "dry_run") /\ TrueOf(c, "dry_run") /\ closing'[c] = 0
        /\ \A d \in Calls \ {c} : SameAnswer(d)
    BY <1>2 DEF DryRun, Return, Fresh, TrueOf, SameAnswer, TypeOK, NoId
  <2> QED
    BY <1>1, <1>a, <2>1, FreeHonest
<1>3. ASSUME NEW c \in Calls, NEW b \in Bindings, DryRunCut(c, b)
      PROVE  HonestInv'
  <2>1. /\ CutWrite(c, DryRunRecord(b), "not_sent") /\ TrueOf(c, "not_sent")
        /\ closing'[c] = 0 /\ \A d \in Calls \ {c} : SameAnswer(d)
    BY <1>3 DEF DryRunCut, Fresh, TrueOf, SameAnswer, TypeOK, NoId
  <2> QED
    BY <1>1, <1>a, <2>1, CutHonest
<1>4. ASSUME NEW c \in Calls, NEW b \in Bindings, NEW a \in Ids, LookUp(c, a, b)
      PROVE  HonestInv'
  <2>1. /\ ran'[c] = FALSE /\ closing'[c] = NoId
        /\ \A d \in Calls \ {c} : SameAnswer(d)
    BY <1>4 DEF LookUp, Fresh, SameAnswer, TypeOK
  <2>2. CASE Return(c, "not_sent")
    BY <1>1, <1>a, <2>1, <2>2, FreeHonest DEF Return, TrueOf, NoId
  <2>3. CASE /\ pc' = [pc EXCEPT ![c] = "matched"]
             /\ report' = [report EXCEPT ![c] = "none"]
    <3>1. Goes(c, "matched")
      BY <2>1, <2>3 DEF Goes, TypeOK
    <3> QED BY <1>1, <3>1, GoHonest
  <2> QED
    BY <1>4, <2>2, <2>3 DEF LookUp
<1>5. ASSUME NEW c \in Calls, CheckUnused(c)
      PROVE  HonestInv'
  <2>1. /\ ~ran'[c] /\ closing'[c] = NoId /\ \A d \in Calls : SameAnswer(d)
    BY <1>5 DEF CheckUnused, AnswerInv, SameAnswer
  <2>2. CASE Return(c, "not_sent")
    BY <1>1, <1>a, <2>1, <2>2, FreeHonest DEF Return, TrueOf, NoId
  <2>3. CASE pc' = [pc EXCEPT ![c] = "unused"] /\ report' = report
    <3>1. Goes(c, "unused")
      BY <2>1, <2>3 DEF Goes
    <3> QED BY <1>1, <3>1, GoHonest
  <2> QED
    BY <1>5, <2>2, <2>3 DEF CheckUnused
<1>6. ASSUME NEW c \in Calls, Claim(c)
      PROVE  HonestInv'
  <2>1. Goes(c, "claimed")
    BY <1>6 DEF Claim, AnswerInv, Goes, SameAnswer
  <2> QED BY <1>1, <2>1, GoHonest
<1>7. ASSUME NEW c \in Calls, ClaimCut(c)
      PROVE  HonestInv'
  <2>1. /\ TrueOf(c, "not_sent") /\ closing'[c] = 0
        /\ \A d \in Calls : SameAnswer(d)
    BY <1>7 DEF ClaimCut, AnswerInv, TrueOf, SameAnswer, NoId
  <2> QED
    BY <1>1, <1>7, <1>a, <2>1, CutHonest DEF ClaimCut
<1>8. ASSUME NEW c \in Calls, Send(c)
      PROVE  HonestInv'
  <2>1. PICK o \in Outcomes : /\ outcome' = [outcome EXCEPT ![c] = o]
                              /\ \E r \in MayRun(o) : ran' = [ran EXCEPT ![c] = r]
    BY <1>8 DEF Send
  <2>2. /\ outcome'[c] = "accepted" => ran'[c] = TRUE
        /\ outcome'[c] \in {"refused", "gated"} => ran'[c] = FALSE
    BY <2>1 DEF MayRun, TypeOK
  <2>3. /\ pc' = [pc EXCEPT ![c] = "answered"] /\ report' = report
        /\ closing' = closing /\ closing[c] = NoId
    BY <1>8 DEF Send, AnswerInv
  <2>4. \A d \in Calls \ {c} : SameAnswer(d)
    BY <2>1, <2>3 DEF TypeOK, SameAnswer
  <2>5. Goes(c, "answered")
    BY <2>2, <2>3, <2>4 DEF Goes
  <2> QED
    BY <1>1, <2>5, GoHonest
<1>9. ASSUME NEW c \in Calls, Answer(c)
      PROVE  HonestInv'
  <2>1. closing'[c] = 0 /\ \A d \in Calls : SameAnswer(d)
    BY <1>9 DEF Answer, AnswerInv, SameAnswer, NoId
  <2>2. CASE Return(c, "unknown")
    BY <1>1, <1>a, <2>1, <2>2, FreeHonest DEF Return, TrueOf
  <2>3. CASE outcome[c] \in {"gated", "refused"} /\ Return(c, "not_sent")
    <3>1. ~ran'[c]
      BY <1>9, <2>3 DEF Answer, AnswerInv
    <3> QED
      BY <1>1, <1>a, <2>1, <2>3, <3>1, FreeHonest DEF Return, TrueOf
  <2> QED
    BY <1>9, <2>2, <2>3 DEF Answer, NotSentOutcomes
<1>10. ASSUME NEW c \in Calls, Complete(c)
       PROVE  HonestInv'
  <2>1. /\ ran[c] /\ ran' = ran /\ closing'[c] = nextId /\ nextId' = nextId + 1
        /\ \A d \in Calls \ {c} : SameAnswer(d)
    BY <1>10 DEF Complete, Write, AnswerInv, SameAnswer, TypeOK
  <2>2. closing'[c] \in 0 .. nextId' - 1
    BY <1>a, <2>1
  <2>3. TrueOf(c, "sent")
    BY <2>1 DEF TrueOf
  <2> QED
    BY <1>1, <1>10, <2>1, <2>2, <2>3, FreeHonest DEF Complete, Return
<1>11. ASSUME NEW c \in Calls, CompleteCut(c)
       PROVE  HonestInv'
  <2>1. /\ closing'[c] = nextId /\ nextId' = nextId + 1 /\ nextId <= MaxId
        /\ file' \in CutAppend(file, CompletedRecord(c))
        /\ \A d \in Calls \ {c} : SameAnswer(d)
    BY <1>11 DEF CompleteCut, CutWrite, SameAnswer, TypeOK
  <2>2. closing'[c] \in 0 .. nextId' - 1 /\ closing'[c] # NoId
    BY <1>a, <2>1 DEF NoId
  <2>3. ~Finished(file', nextId)
    BY <2>1, RecordTypes, CutIsUnfinished
  <2>4. TrueOf(c, "not_sent")
    BY <2>1, <2>2, <2>3 DEF TrueOf
  <2> QED
    BY <1>1, <1>11, <2>1, <2>2, <2>4, CutHonest DEF CompleteCut
<1>12. ASSUME NEW p \in Procs, Crash(p)
       PROVE  HonestInv'
  <2>1. \A d \in Calls : SameAnswer(d) /\ TrueOf(d, "none") /\ closing'[d] \in 0 .. nextId' - 1
    BY <1>1, <1>12 DEF Crash, SameAnswer, TrueOf, AnswerInv, Progress
  <2>2. Free({c \in Calls : ProcOf[c] = p}, "none")
    BY <1>12 DEF Crash, Die
  <2> QED BY <1>1, <2>1, <2>2, FreeHonest
<1>13. CASE Tick \/ UNCHANGED vars
  BY <1>13 DEF Tick, vars, fileVars, callVars, AnswerInv, HonestReport
<1> QED
  BY <1>2, <1>3, <1>4, <1>5, <1>6, <1>7, <1>8, <1>9, <1>10, <1>11, <1>12, <1>13
  DEF Next

(***************************************************************************)
(* Whatever dies, times out or is cut, a caller who is told that its       *)
(* control was sent or was not sent is told the truth, but for one case:   *)
(* Codex performed the control, the write of the record that closes this   *)
(* very call was cut, and the audit file has no finished line of it.       *)
(***************************************************************************)
THEOREM CallersAreToldTheTruth == Spec => []HonestReport
<1>1. Init => HonestInv
  BY DEF Init, HonestInv, AnswerInv, HonestReport, NoId
<1>2. TypeOK /\ FileInv /\ HonestInv /\ [Next]_vars => HonestInv'
  BY NextHonest
<1>3. HonestInv => HonestReport
  BY DEF HonestInv
<1>4. GateInv => TypeOK /\ FileInv
  BY DEF GateInv
<1> QED
  BY <1>1, <1>2, <1>3, <1>4, GateInvariant, PTL DEF Spec
=============================================================================
