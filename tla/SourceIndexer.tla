--------------------------- MODULE SourceIndexer ---------------------------
(***************************************************************************)
(* indexCodexSessions (packages/core/src/index.ts) for one session file of *)
(* Codex.  Processes share a SQLite database; a run looks at the file, and *)
(* skips it when its watermark says that nothing changed, extends what is  *)
(* indexed when the file only grew, and parses it afresh otherwise; then   *)
(* it derives the summary leaves and the prepared card of the thread.      *)
(*                                                                         *)
(* Codex writes the file meanwhile, a line or half a line at a time, or    *)
(* rewrites it.  Each statement and each transaction is atomic; other      *)
(* processes and Codex run between any two.                                *)
(*                                                                         *)
(* A line is two pieces, its text and its end.  A hash is the text hashed. *)
(* Rows are sets of << ordinal, line >>; the rows a value was derived from *)
(* stand for the value.  Every write of the file changes its mtime: the    *)
(* index documents that it cannot see the others.                          *)
(***************************************************************************)
EXTENDS Integers, Sequences, FiniteSets

CONSTANTS Procs,
          NoMark,       \* no row for the file in codex_source_files
          MaxBytes, MaxEvents,   \* maxBytesPerFile, maxEventsPerFile
          MaxWrites     \* bound on Codex's writes

ASSUME CapsAssumption == MaxBytes \in Nat /\ MaxEvents \in Nat
ASSUME WritesAssumption == MaxWrites \in Nat

VARIABLES
  exists, text, mtime,   \* the file; what was unlinked stays readable
  mark,        \* its row in codex_source_files
  session,     \* the events its codex_sessions row summarises
  ranges,      \* prepared_source_events and prepared_source_ranges
  leaves,      \* the ranges its summary leaves were built from
  card,        \* the leaves its prepared card was built from
  limited,     \* it has a row in codex_index_limited_files
  destructive, \* destructive_generation
  pc,
  verify,      \* options.verify
  size, stamp, \* what the run's stat said
  seen,        \* the watermark it read
  got,         \* the session it read, or the ranges
  buffer,      \* the text it read
  prev,        \* previousSource
  calm         \* history: nothing else changed since the run began

fileVars  == << exists, text, mtime >>
dbVars    == << mark, session, ranges, leaves, card, limited, destructive >>
localVars == << verify, size, stamp, seen, got, buffer, prev >>
vars      == << fileVars, dbVars, pc, localVars, calm >>

----------------------------------------------------------------------------
LineText(n) == [line |-> n, end |-> FALSE]
LineEnd(n)  == [line |-> n, end |-> TRUE]
Pieces      == [line : Nat, end : BOOLEAN]

Marks ==
  [size : Nat, mtime : Nat, hash : Seq(Pieces), epoch : Seq(Pieces),
   gen : Nat, drift : BOOLEAN, leaves : BOOLEAN, cards : BOOLEAN]

ASSUME NoMarkAssumption == NoMark \notin Marks

EndsLine(t) == t # << >> /\ t[Len(t)].end

Before(t, i) == Cardinality({j \in 1 .. i - 1 : t[j].end})

\* parseCodexJsonl: the lines that parse, each at its ordinal.
Parsed(t, offset) ==
  {<< offset + Before(t, i), t[i].line >> :
     i \in {j \in 1 .. Len(t) - 1 : ~t[j].end /\ t[j + 1] = LineEnd(t[j].line)}}

\* countJsonlEvents
Events(t) == Before(t, Len(t) + 1) + (IF t = << >> \/ EndsLine(t) THEN 0 ELSE 1)

Drifts(t) == Cardinality(Parsed(t, 0)) # Events(t)

\* preparedSourceStatsForAppend: no gap, and as many rows as counted.

Dense(rows, n) == Cardinality(rows) = n /\ \A r \in rows : r[1] < n

Init ==
  /\ exists = FALSE /\ text = << >> /\ mtime = 0
  /\ mark = NoMark
  /\ session = {} /\ ranges = {} /\ leaves = {} /\ card = {}
  /\ limited = FALSE /\ destructive = 0
  /\ pc = [p \in Procs |-> "idle"]
  /\ verify = [p \in Procs |-> FALSE]
  /\ size = [p \in Procs |-> 0]
  /\ stamp = [p \in Procs |-> 0]
  /\ seen = [p \in Procs |-> NoMark]
  /\ got = [p \in Procs |-> {}]
  /\ buffer = [p \in Procs |-> << >>]
  /\ prev = [p \in Procs |-> NoMark]
  /\ calm = [p \in Procs |-> FALSE]

----------------------------------------------------------------------------
Go(p, place) == pc' = [pc EXCEPT ![p] = place]

\* The run is over, or its process died.
Leave(p, place) ==
  /\ Go(p, place)
  /\ verify' = [verify EXCEPT ![p] = FALSE]
  /\ size' = [size EXCEPT ![p] = 0]
  /\ stamp' = [stamp EXCEPT ![p] = 0]
  /\ seen' = [seen EXCEPT ![p] = NoMark]
  /\ got' = [got EXCEPT ![p] = {}]
  /\ buffer' = [buffer EXCEPT ![p] = << >>]
  /\ prev' = [prev EXCEPT ![p] = NoMark]

Finish(p) == Leave(p, "done")

Step(p, from, to) ==
  /\ pc[p] = from
  /\ Go(p, to)
  /\ UNCHANGED localVars

\* A write to the database disturbs the other runs.
Disturb(p) == calm' = [q \in Procs |-> q = p /\ calm[p]]

Reading == UNCHANGED << fileVars, dbVars, calm >>

Writing(p) == Disturb(p) /\ UNCHANGED fileVars

\* clearSourceFileIndexInsideTransaction
ClearIndex ==
  /\ destructive' = destructive + (IF mark = NoMark THEN 0 ELSE 1)
  /\ mark' = NoMark
  /\ session' = {} /\ ranges' = {} /\ leaves' = {} /\ card' = {}
  /\ limited' = FALSE

----------------------------------------------------------------------------
Begin(p) ==
  /\ pc[p] \in {"idle", "done"}
  /\ exists
  /\ Go(p, "stat")
  /\ \E v \in BOOLEAN : verify' = [verify EXCEPT ![p] = v]
  /\ calm' = [calm EXCEPT ![p] = TRUE]
  /\ UNCHANGED << fileVars, dbVars, size, stamp, seen, got, buffer, prev >>

\* pruneMissingCodexSourceFiles
Prune(p) ==
  /\ pc[p] \in {"idle", "done"}
  /\ ~exists /\ (mark # NoMark \/ limited)
  /\ ClearIndex
  /\ Go(p, "idle")
  /\ Writing(p) /\ UNCHANGED localVars

Stat(p) ==
  /\ pc[p] = "stat"
  /\ exists
  /\ size' = [size EXCEPT ![p] = Len(text)]
  /\ stamp' = [stamp EXCEPT ![p] = mtime]
  /\ Go(p, IF Len(text) > MaxBytes THEN "limit" ELSE "mark")
  /\ Reading /\ UNCHANGED << verify, seen, got, buffer, prev >>

\* recordLimitedFile: two transactions.
Limit(p) == Step(p, "limit", "limitRow") /\ ClearIndex /\ Writing(p)

LimitRow(p) ==
  /\ pc[p] = "limitRow" /\ Finish(p)
  /\ limited' = TRUE
  /\ Writing(p)
  /\ UNCHANGED << mark, session, ranges, leaves, card, destructive >>

Current(m) == m # NoMark /\ m.leaves /\ m.cards

Same(p, m) == m.size = size[p] /\ m.mtime = stamp[p]

MayAppend(p, m) == Current(m) /\ m.size > 0 /\ size[p] > m.size

ReadMark(p) ==
  /\ pc[p] = "mark"
  /\ \/ /\ Current(mark) /\ Same(p, mark) /\ ~verify[p]
        /\ Finish(p)
     \/ /\ ~(Current(mark) /\ Same(p, mark) /\ ~verify[p])
        /\ seen' = [seen EXCEPT ![p] = mark]
        /\ Go(p, IF MayAppend(p, mark) THEN "seed" ELSE "read")
        /\ UNCHANGED << verify, size, stamp, got, buffer, prev >>
  /\ Reading

----------------------------------------------------------------------------
(* tryIndexCodexAppendDelta: what fails a test falls back to a full parse. *)
FallBack(p, from) == Step(p, from, "read")

Resumable == mark # NoMark /\ ~mark.drift

ReadSeed(p) ==
  /\ \/ /\ pc[p] = "seed" /\ Resumable
        /\ got' = [got EXCEPT ![p] = session]
        /\ Go(p, "prefix")
        /\ UNCHANGED << verify, size, stamp, seen, buffer, prev >>
     \/ FallBack(p, "seed") /\ ~Resumable
  /\ Reading

\* The indexed prefix is still there, and ends a line.
PrefixHolds(m) ==
  /\ Len(text) >= m.size
  /\ SubSeq(text, 1, m.size) = m.hash
  /\ EndsLine(m.hash)

ReadPrefix(p) ==
  /\ exists
  /\ \/ Step(p, "prefix", "tail") /\ PrefixHolds(seen[p])
     \/ FallBack(p, "prefix") /\ ~PrefixHolds(seen[p])
  /\ Reading

\* The descriptor is open: an unlinked file is still read.
Appended(p) == SubSeq(text, seen[p].size + 1, size[p])

Fits(p) ==
  /\ Len(text) >= size[p]
  /\ Cardinality(got[p]) + Events(Appended(p)) <= MaxEvents

ReadTail(p) ==
  /\ \/ /\ pc[p] = "tail" /\ Fits(p)
        /\ buffer' = [buffer EXCEPT ![p] = Appended(p)]
        /\ Go(p, "stats")
        /\ UNCHANGED << verify, size, stamp, seen, got, prev >>
     \/ FallBack(p, "tail") /\ ~Fits(p)
  /\ Reading

CheckRows(p) ==
  LET sound == Dense(ranges, Cardinality(got[p])) /\ ~Drifts(buffer[p])
  IN /\ \/ sound  /\ Step(p, "stats", "append")
        \/ ~sound /\ FallBack(p, "stats")
     /\ Reading

\* A change of the text makes what was derived from it out of date.
\*
\* A slip: versions left as they are.
KeepsVersions(m) == m

Outdated(m) == [m EXCEPT !.leaves = FALSE, !.cards = FALSE]

\* appendSessionDelta.  Rows that bear the new hash already make the rekeying
\* throw, as a session that is gone does.
AppendDelta(p) ==
  LET hash  == seen[p].hash \o buffer[p]
      delta == Parsed(buffer[p], Cardinality(got[p]))
  IN /\ Step(p, "append", "ranges")
     /\ mark # NoMark /\ (ranges # {} => mark.hash # hash)
     /\ mark' = Outdated([mark EXCEPT !.gen = @ + 1, !.hash = hash,
                            !.size = size[p], !.mtime = stamp[p], !.drift = FALSE])
     /\ session' = got[p] \cup delta
     /\ ranges' = ranges \cup delta
     /\ Writing(p)
     /\ UNCHANGED << leaves, card, limited, destructive >>

----------------------------------------------------------------------------
ReadText(p) ==
  /\ pc[p] = "read"
  /\ exists
  /\ buffer' = [buffer EXCEPT ![p] = text]
  /\ Go(p, IF Events(text) > MaxEvents THEN "limit" ELSE "decide")
  /\ Reading /\ UNCHANGED << verify, size, stamp, seen, got, prev >>

SameHash(p) == Current(seen[p]) /\ seen[p].hash = buffer[p]

\* refreshSourceFileWatermarkMetadata
\*
\* A slip: the watermark not refreshed.
LeavesTheRow(p) == mark

Refreshed(p) == IF mark = NoMark THEN NoMark
                ELSE [mark EXCEPT !.size = size[p], !.mtime = stamp[p]]

Decide(p) ==
  /\ pc[p] = "decide"
  /\ \/ /\ SameHash(p) /\ Same(p, seen[p])
        /\ Finish(p)
        /\ Reading
     \/ /\ SameHash(p) /\ ~Same(p, seen[p])
        /\ mark' = Refreshed(p)
        /\ limited' = FALSE
        /\ Finish(p)
        /\ Writing(p)
        /\ UNCHANGED << session, ranges, leaves, card, destructive >>
     \/ /\ ~SameHash(p)
        /\ prev' = [prev EXCEPT ![p] = mark]
        /\ Go(p, "upsert")
        /\ Reading /\ UNCHANGED << verify, size, stamp, seen, got, buffer >>

\* sourceTextExtendsWatermark
\*
\* A slip: the old text not compared.
LongerText(t, m) == m.size > 0 /\ Len(t) > m.size

Extends(t, m) ==
  m.size > 0 /\ Len(t) > m.size /\ SubSeq(t, 1, m.size) = m.hash

Monotonic(p) ==
  seen[p] # NoMark /\ prev[p] # NoMark /\ Extends(buffer[p], seen[p])

\* upsertSession.  The size and the mtime are those of the stat, which came
\* before the text was read.
\*
\* A slip: a second stat after the read.
StampOfText(p) == << Len(buffer[p]), mtime >>

StampOf(p) == << size[p], stamp[p] >>

Upsert(p) ==
  /\ Step(p, "upsert", "ranges")
  /\ destructive' = destructive +
       (IF prev[p] # NoMark /\ prev[p].hash # buffer[p] /\ ~Monotonic(p)
        THEN 1 ELSE 0)
  /\ mark' = [size |-> StampOf(p)[1], mtime |-> StampOf(p)[2], hash |-> buffer[p],
              epoch |-> IF Monotonic(p) THEN prev[p].epoch ELSE buffer[p],
              gen |-> IF Monotonic(p) THEN prev[p].gen + 1 ELSE 0,
              drift |-> Drifts(buffer[p]), leaves |-> FALSE, cards |-> FALSE]
  /\ session' = Parsed(buffer[p], 0)
  /\ ranges' = Parsed(buffer[p], 0)
  /\ leaves' = {} /\ card' = {}
  /\ limited' = FALSE
  /\ Writing(p)

----------------------------------------------------------------------------
(* materializeSummaryLeaves reads the ranges before its transaction; the   *)
(* card reads the leaves inside its own.                                   *)
ReadRanges(p) ==
  /\ pc[p] = "ranges"
  /\ got' = [got EXCEPT ![p] = ranges]
  /\ Go(p, "leaves")
  /\ Reading /\ UNCHANGED << verify, size, stamp, seen, buffer, prev >>

WriteLeaves(p) ==
  /\ Step(p, "leaves", "leafMark")
  /\ leaves' = got[p]
  /\ Writing(p)
  /\ UNCHANGED << mark, session, ranges, card, limited, destructive >>

MarkLeaves(p) ==
  /\ Step(p, "leafMark", "card")
  /\ mark' = IF mark = NoMark THEN NoMark ELSE [mark EXCEPT !.leaves = TRUE]
  /\ Writing(p)
  /\ UNCHANGED << session, ranges, leaves, card, limited, destructive >>

WriteCard(p) ==
  /\ Step(p, "card", "cardMark")
  /\ card' = leaves
  /\ Writing(p)
  /\ UNCHANGED << mark, session, ranges, leaves, limited, destructive >>

MarkCard(p) ==
  /\ pc[p] = "cardMark" /\ Finish(p)
  /\ mark' = IF mark = NoMark THEN NoMark ELSE [mark EXCEPT !.cards = TRUE]
  /\ Writing(p)
  /\ UNCHANGED << session, ranges, leaves, card, limited, destructive >>

\* The leaves could not be written: the run reports it and goes on.
LeavesFail(p) ==
  /\ pc[p] \in {"ranges", "leaves", "leafMark"}
  /\ Go(p, "card")
  /\ calm' = [calm EXCEPT ![p] = FALSE]
  /\ UNCHANGED << fileVars, dbVars, localVars >>

\* Any other statement throws (the file is gone, the database is locked), or
\* the process dies.
Abandon(p) ==
  /\ pc[p] \notin {"idle", "done"}
  /\ Leave(p, "idle")
  /\ Reading

----------------------------------------------------------------------------
(* Codex and the user. *)
Changed(t) ==
  /\ mtime < MaxWrites
  /\ mtime' = mtime + 1
  /\ exists' = TRUE
  /\ text' = t
  /\ calm' = [p \in Procs |-> FALSE]
  /\ UNCHANGED << dbVars, pc, localVars >>

Fresh == mtime + 1

AppendLine ==
  /\ exists /\ EndsLine(text)
  /\ Changed(text \o << LineText(Fresh), LineEnd(Fresh) >>)

AppendHalf ==
  /\ exists /\ EndsLine(text)
  /\ Changed(Append(text, LineText(Fresh)))

EndLine ==
  /\ exists /\ text # << >> /\ ~EndsLine(text)
  /\ Changed(Append(text, LineEnd(text[Len(text)].line)))

\* A new file, or the old one with other lines, or with one put in front.
Rewrite ==
  \E rest \in {<< >>, text} :
    Changed(<< LineText(Fresh), LineEnd(Fresh) >> \o rest)

Remove ==
  /\ exists
  /\ exists' = FALSE
  /\ calm' = [p \in Procs |-> FALSE]
  /\ UNCHANGED << text, mtime, dbVars, pc, localVars >>

Next ==
  \/ \E p \in Procs :
       \/ Begin(p) \/ Prune(p) \/ Stat(p) \/ Limit(p) \/ LimitRow(p)
       \/ ReadMark(p) \/ ReadSeed(p) \/ ReadPrefix(p) \/ ReadTail(p)
       \/ CheckRows(p) \/ AppendDelta(p)
       \/ ReadText(p) \/ Decide(p) \/ Upsert(p)
       \/ ReadRanges(p) \/ WriteLeaves(p) \/ MarkLeaves(p)
       \/ WriteCard(p) \/ MarkCard(p) \/ LeavesFail(p) \/ Abandon(p)
  \/ AppendLine \/ AppendHalf \/ EndLine \/ Rewrite \/ Remove

Spec == Init /\ [][Next]_vars

----------------------------------------------------------------------------
Unchanged == /\ exists /\ Current(mark)
             /\ mark.size = Len(text) /\ mark.mtime = mtime

(***************************************************************************)
(* What a run would skip as unchanged is what a full parse of the file     *)
(* would give, down to the card.                                           *)
(***************************************************************************)
Derived == /\ session = Parsed(text, 0) /\ ranges = session
           /\ leaves = ranges /\ card = leaves

SkipIsSound == Unchanged => Derived

(***************************************************************************)
(* So it is once every process has ended its run, none of them cut short.  *)
(* It holds when one process uses the database.                            *)
(***************************************************************************)
SettledIsSound == (\A p \in Procs : pc[p] = "done") /\ Unchanged => Derived

(***************************************************************************)
(* A watermark that agrees with the file in size and mtime bears the hash  *)
(* of the text the file now has, however the file changed while it was     *)
(* read.  It holds when one process uses the database: another's row may   *)
(* come between a reading of the row and the refreshing of its stamp.      *)
(***************************************************************************)
WatermarkIsHonest ==
  exists /\ mark # NoMark /\ mark.size = Len(text) /\ mark.mtime = mtime
    => mark.hash = text

(***************************************************************************)
(* A run that nothing disturbed leaves the file indexed, so that the next  *)
(* one can skip it, or, over the caps, not indexed at all.                 *)
(***************************************************************************)
CatchesUp ==
  \A p \in Procs : pc[p] = "done" /\ calm[p] =>
    Unchanged \/ (limited /\ mark = NoMark)

(***************************************************************************)
(* While the epoch of a file and the destructive generation stand, rows    *)
(* are added and none goes: a cursor taken before is still good.           *)
(***************************************************************************)
EpochOnlyGrows ==
  [][(/\ mark # NoMark /\ destructive' = destructive
      /\ (mark' = NoMark \/ mark'.epoch = mark.epoch))
     => mark' # NoMark /\ ranges \subseteq ranges']_vars
=============================================================================
