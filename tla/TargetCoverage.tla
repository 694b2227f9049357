--------------------------- MODULE TargetCoverage ---------------------------
(***************************************************************************)
(* getPreparedTargetCoverage (packages/core/src/index.ts): whether what is *)
(* prepared for a thread can be used as it is.  A reader asks one table    *)
(* after another, with no transaction, and compares the time of the        *)
(* thread's last event, which Codex states, with the oldest of the stamps  *)
(* of what was derived from it, which LCO gives.  An indexer run and       *)
(* commands meanwhile take in what was appended and derive leaves and      *)
(* cards from it, each in a transaction of its own.  The ranges that       *)
(* leaves are made of are read before their transaction; a run may die     *)
(* between any two steps.                                                  *)
(*                                                                         *)
(* One thread.  A row tells how many events it was made from.  Stamps are  *)
(* numbered; the time of an event, if it states one, is that of the stamp  *)
(* before it.  What may be missing is a set of at most one.                *)
(***************************************************************************)
EXTENDS Integers, Sequences

CONSTANTS NoRow,
          MaxEvents, MaxInstant, MaxCommands  \* bounds on the thread, the stamps, the commands

VARIABLES
  instant,
  dates,    \* the session file: the time of each event
  session,  \* codex_sessions, and whether its source file is marked as derived
  ranges,   \* prepared_source_events and prepared_source_ranges
  leaves,   \* summary_leaves
  card,     \* prepared_cards, with its prepared_inbox_items
  deriveAt, \* where the run is
  taken,    \* how many events it has read
  held,     \* the ranges that the run, and a command, have read for their leaves
  commands, \* other commands so far
  askAt,    \* the tables that the reader has yet to ask
  got,      \* what it got
  astray,   \* history: an event came late, or a row outrun, and the thread is not current yet
  wasSo     \* history: since the reader began, the thread was current, or astray

storeVars == << session, ranges, leaves, card >>
readerVars == << askAt, got >>
vars == << instant, dates, storeVars, deriveAt, taken, held, commands, readerVars,
           astray, wasSo >>

\* Events and ranges, which are written together, are asked for together.
Tables == << "session", "ranges", "leaves", "card", "inbox", "inboxCard", "updated" >>

Nothing == [t \in {Tables[i] : i \in DOMAIN Tables} |-> NoRow]

\* A run has been through the thread's first event.
Init ==
  /\ instant = 3 /\ dates = << {0} >>
  /\ session = [upTo |-> 1, updated |-> {0}, marked |-> TRUE]
  /\ ranges = [upTo |-> 1, created |-> 1] /\ leaves = [upTo |-> 1, created |-> 2]
  /\ card = [upTo |-> 1, dated |-> {0}, fresh |-> TRUE, updated |-> 3]
  /\ deriveAt = "done" /\ taken = 0 /\ held = [run |-> {}, command |-> {}] /\ commands = 0
  /\ askAt = << >> /\ got = Nothing
  /\ astray = FALSE /\ wasSo = FALSE

\* allocateSessionDiffMutationTimestamp: later than every stamp before it.
Tock == instant < MaxInstant /\ instant' = instant + 1

----------------------------------------------------------------------------
\* The leaves and the card are made from all the events that are indexed.
Current ==
  /\ session # NoRow /\ leaves # NoRow /\ card # NoRow
  /\ leaves.upTo = session.upTo /\ card.upTo = session.upTo

\* A history is kept until what was derived is current again.
Judge(erred) == astray' = (~Current' /\ (astray \/ erred))

\* Codex writes an event that it dated now, or a while ago, or not at all.
Write ==
  /\ Len(dates) < MaxEvents
  /\ \E date \in {{instant}, {instant - 1}, {}} : dates' = Append(dates, date)
  /\ UNCHANGED << instant, storeVars, deriveAt, taken, held, commands, readerVars, astray >>

Begin ==
  /\ deriveAt \in {"idle", "done"} /\ dates # << >>
  /\ IF session # NoRow /\ session.marked /\ session.upTo = Len(dates)
       THEN deriveAt' = "done" /\ UNCHANGED taken
       ELSE deriveAt' = "store" /\ taken' = Len(dates)
  /\ UNCHANGED << instant, dates, storeVars, held, commands, readerVars, astray >>

\* The time that the session bears after its first n events, if any bore one.
LastDate(n) ==
  UNION {dates[m] : m \in {i \in 1 .. n : dates[i] # {} /\ \A j \in i + 1 .. n : dates[j] = {}}}

\* The event that was appended is dated before what had been derived by then.
Late ==
  /\ leaves # NoRow
  /\ \A d \in session'.updated : d < leaves.created \/ (card # NoRow /\ d < card.updated)

\* What is derived lacks an event that is indexed, or is of a thread that was deleted.
Outrun(row) ==
  IF session = NoRow THEN row # NoRow ELSE row = NoRow \/ row.upTo < session.upTo

\* appendSessionDelta leaves what was derived; upsertSession deletes it.
Store ==
  /\ deriveAt = "store" /\ Tock
  /\ session' = [upTo |-> taken, updated |-> LastDate(taken), marked |-> FALSE]
  /\ ranges' = [upTo |-> taken, created |-> instant']
  /\ IF session # NoRow /\ session.marked THEN UNCHANGED << leaves, card >>
     ELSE leaves' = NoRow /\ card' = NoRow
  /\ deriveAt' = "leaves" /\ taken' = 0
  /\ UNCHANGED << dates, held, commands, readerVars >>
  /\ Judge(Late)

\* A slip: a leaf that is there keeps its stamp, whatever it becomes.
LeafedAsBefore(read) ==
  IF read = NoRow THEN NoRow
  ELSE [upTo |-> read.upTo, created |-> IF leaves # NoRow THEN leaves.created ELSE instant']

\* materializeSummaryLeaves: a leaf that is what it was keeps its stamp.
Leafed(read) ==
  IF read = NoRow THEN NoRow
  ELSE [upTo |-> read.upTo,
        created |-> IF leaves # NoRow /\ leaves.upTo = read.upTo THEN leaves.created
                    ELSE instant']

\* The ranges are read before the transaction that replaces the leaves.
ReadRanges(w) == held[w] = {} /\ held' = [held EXCEPT ![w] = {ranges}]

PutLeaves(w) ==
  /\ Tock
  /\ held' = [held EXCEPT ![w] = {}]
  /\ \E read \in held[w] : leaves' = Leafed(read) /\ Judge(Outrun(leaves'))

SessionDated == IF session = NoRow THEN {} ELSE session.updated

Unchanged(fresh) ==
  card # NoRow /\ card.upTo = leaves.upTo /\ card.dated = SessionDated /\ card.fresh = fresh

\* materializePreparedCardsForThread, whose card states the time of the session;
\* fresh tells whether its lifecycle state is one that counts as covered.
Carded(fresh) ==
  IF leaves = NoRow THEN NoRow
  ELSE [upTo |-> leaves.upTo, dated |-> SessionDated, fresh |-> fresh,
        updated |-> IF Unchanged(fresh) THEN card.updated ELSE instant']

PutCard == Tock /\ \E fresh \in BOOLEAN : card' = Carded(fresh) /\ Judge(Outrun(card'))

ReadForLeaves ==
  /\ deriveAt = "leaves" /\ ReadRanges("run")
  /\ UNCHANGED << instant, dates, storeVars, deriveAt, taken, commands, readerVars, astray >>

DeriveLeaves ==
  /\ deriveAt = "leaves" /\ deriveAt' = "cards"
  /\ UNCHANGED << dates, session, ranges, card, taken, commands, readerVars >>
  /\ PutLeaves("run")

DeriveCards ==
  /\ deriveAt = "cards" /\ deriveAt' = "mark"
  /\ UNCHANGED << dates, session, ranges, leaves, taken, held, commands, readerVars >>
  /\ PutCard

\* Both marks, of which the last makes the file one that a run skips.
Mark ==
  /\ deriveAt = "mark"
  /\ session' = IF session = NoRow THEN NoRow ELSE [session EXCEPT !.marked = TRUE]
  /\ deriveAt' = "done"
  /\ UNCHANGED << instant, dates, ranges, leaves, card, taken, held, commands, readerVars, astray >>

\* It dies, or a statement fails.
Abandon ==
  /\ deriveAt \notin {"idle", "done"}
  /\ deriveAt' = "idle" /\ taken' = 0 /\ held' = [held EXCEPT !["run"] = {}]
  /\ UNCHANGED << instant, dates, storeVars, commands, readerVars, astray >>

Command == commands < MaxCommands /\ commands' = commands + 1

\* The commands that derive leaves, or cards, of what is there.
CommandReads ==
  /\ Command /\ ReadRanges("command")
  /\ UNCHANGED << instant, dates, storeVars, deriveAt, taken, readerVars, astray >>

CommandLeaves ==
  /\ UNCHANGED << dates, session, ranges, card, deriveAt, taken, commands, readerVars >>
  /\ PutLeaves("command")

CommandCards ==
  /\ Command
  /\ UNCHANGED << dates, session, ranges, leaves, deriveAt, taken, held, readerVars >>
  /\ PutCard

\* clearSourceFileIndex
Forget ==
  /\ Tock /\ Command /\ session # NoRow
  /\ session' = NoRow /\ ranges' = NoRow /\ leaves' = NoRow /\ card' = NoRow
  /\ UNCHANGED << dates, deriveAt, taken, held, readerVars >>
  /\ Judge(FALSE)

----------------------------------------------------------------------------
\* What a table has now.  An item of the inbox bears the ref of its card, and
\* counts if that card is still found.
Row(table) ==
  CASE table = "session" -> session
    [] table = "ranges" -> ranges
    [] table = "leaves" -> leaves
    [] OTHER -> card

Ask ==
  /\ askAt = << >>
  /\ askAt' = Tables /\ UNCHANGED got
  /\ UNCHANGED << instant, dates, storeVars, deriveAt, taken, held, commands, astray >>

\* A table that lacks its row makes the thread not ready, whatever the rest.
Lacks(table) ==
  table # "updated" /\ (Row(table) = NoRow \/ (table = "card" /\ ~card.fresh))

Select ==
  /\ askAt # << >>
  /\ IF Lacks(Head(askAt)) THEN askAt' = << >> /\ got' = Nothing
     ELSE /\ got' = [got EXCEPT ![Head(askAt)] = Row(Head(askAt))]
          /\ askAt' = Tail(askAt)
  /\ UNCHANGED << instant, dates, storeVars, deriveAt, taken, held, commands, astray >>

SameCard(a, b) == a.upTo = b.upTo /\ a.dated = b.dated /\ a.fresh = b.fresh

\* oldestSafeTimestamp
\* A slip: the latest of them.
Latest(stamps) == CHOOSE s \in stamps : \A t \in stamps : t <= s

Oldest(stamps) == CHOOSE s \in stamps : \A t \in stamps : s <= t

Covered(g) ==
  /\ \A t \in DOMAIN g \ {"updated"} : g[t] # NoRow
  /\ g["card"].fresh
  /\ SameCard(g["inbox"], g["inboxCard"])

Stamps(g) ==
  {g["ranges"].created, g["leaves"].created, g["inbox"].updated}
  \cup (IF g["updated"] = NoRow THEN {} ELSE {g["updated"].updated})

\* A thread with no dated event is never older than its stamps.
Ready(g) == Covered(g) /\ \A d \in g["session"].updated : d < Oldest(Stamps(g))

\* A reader changes nothing: a behaviour ends with the first answer that lacks none.
Answered == askAt = << >> /\ got # Nothing

Next ==
  /\ ~Answered
  /\ \/ Write \/ Begin \/ Store \/ ReadForLeaves \/ DeriveLeaves \/ DeriveCards \/ Mark
     \/ Abandon \/ CommandReads \/ CommandLeaves \/ CommandCards \/ Forget \/ Ask \/ Select
  /\ wasSo' = ((askAt # << >> /\ wasSo) \/ Current' \/ astray')

Spec == Init /\ [][Next]_vars

----------------------------------------------------------------------------
\* When a thread is said to be ready, there was a moment since the reader began at
\* which its leaves and its card were made from every event that was indexed: rows
\* of different moments, and stamps that are kept, do not make a thread look ready
\* that never was.  Two things the code does not notice, and they are left aside until
\* the thread is current again: an event is appended with a date before the last
\* derivation, or with none (Late); and leaves or a card are made after an append
\* from what was there before it, and stamped later than the event they lack (Outrun).
ReadyWasSo == Answered /\ Ready(got) => wasSo

\* A thread whose file is marked as derived, and which every later run will skip, is
\* ready to whoever asks while nothing changes, if the state of its card allows it: no
\* stamp that was kept, through runs that die, appends, deletions and commands, stays
\* behind the date of its last event and leaves it stale for good.  Its leaves and
\* card are missing only if a command replaced them from ranges read before (Outrun).
DerivedIsReady ==
  session # NoRow /\ session.marked =>
    IF leaves = NoRow \/ card = NoRow THEN astray
    ELSE card.fresh => Ready([t \in DOMAIN Nothing |-> Row(t)])
----------------------------------------------------------------------------
\* What makes DerivedIsReady inductive.  Every date has been; a row of ranges or
\* leaves is stamped after every event that it was made from, a card after the date
\* that it states; and the time of the session is that of one of its events.
DatesInv ==
  /\ instant \in 0 .. MaxInstant /\ dates \in Seq(SUBSET Int) /\ Len(dates) <= MaxEvents
  /\ \A m \in 1 .. Len(dates) : \A d \in dates[m] : d <= instant

Stamped(row) ==
  /\ row.upTo \in 0 .. Len(dates) /\ row.created \in Nat
  /\ \A m \in 1 .. row.upTo : \A d \in dates[m] : d < row.created

StoreInv ==
  /\ session # NoRow =>
       /\ session \in [upTo : 0 .. Len(dates), updated : SUBSET Int, marked : BOOLEAN]
       /\ \A d \in session.updated : \E m \in 1 .. session.upTo : d \in dates[m]
       /\ ranges # NoRow /\ ranges.upTo = session.upTo
  /\ ranges # NoRow => Stamped(ranges)
  /\ leaves # NoRow => Stamped(leaves)
  /\ card # NoRow => card.updated \in Nat /\ \A d \in card.dated : d < card.updated

\* What the run has read is what there is still, if the session is.
HeldInv ==
  /\ DOMAIN held = {"run", "command"}
  /\ \A w \in {"run", "command"} : \A read \in held[w] : read # NoRow => read.upTo \in 0 .. Len(dates)
  /\ deriveAt = "store" => taken \in 0 .. Len(dates)
  /\ deriveAt # "leaves" => held["run"] = {}
  /\ deriveAt = "leaves" /\ session # NoRow => held["run"] \subseteq {ranges}

\* From where the run derives them, leaves and card are stamped after the session's
\* time, or are missing because a command outran the run.
DerivedInv ==
  session # NoRow =>
    /\ session.marked \/ deriveAt \in {"cards", "mark"} =>
         IF leaves = NoRow THEN astray ELSE \A d \in session.updated : d < leaves.created
    /\ session.marked \/ deriveAt = "mark" =>
         IF card = NoRow THEN astray ELSE \A d \in session.updated : d < card.updated

CoverageInv == DatesInv /\ StoreInv /\ HeldInv /\ DerivedInv
=============================================================================
