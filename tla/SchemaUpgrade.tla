--------------------------- MODULE SchemaUpgrade ---------------------------
(* Opening the database (core/src/index.ts createDatabase, migrate): every *)
(* process brings the schema up to date for itself, statement by statement *)
(* and without a transaction, while others do the same and a process of an *)
(* older version, opened before, goes on writing.  Opening fails or dies   *)
(* between any two statements and is begun again.                          *)
(*                                                                         *)
(* Of the schema: the key column of prepared_source_ranges with its        *)
(* backfill and its triggers, and the search index with its repair; the    *)
(* ledger of migrations says which one-time work is done.  A range's key   *)
(* is null, right, or wrong: that of the columns it had before.            *)
EXTENDS Integers, FiniteSets

CONSTANTS Openers,      \* processes of this version
          Rows,         \* source ranges
          Chats,        \* sessions
          MaxOldWrites, \* bound: writes of the older process
          MaxOpens      \* bound: times that databases are opened

Migrations == {"key", "search"}

VARIABLES
  tables,    \* "none" in an empty file, "old" or "new"
  column,    \* has prepared_source_ranges the key column
  triggers,  \* are the triggers there that keep the keys
  ledger,    \* the one-time migrations recorded
  keys,      \* the key of each range: "none" where there is no row
  chats,     \* sessions
  indexed,   \* those that the search index has under their rowid
  opener,    \* where each process is in migrate
  mode,      \* its maintenance: "full" or "schema-only"
  slipped,   \* history: ranges the older process wrote between a backfill and the triggers
  late,      \* history: sessions it wrote, or a VACUUM renumbered, since a full opening ended
  fullOnce,  \* history: has a full opening ended
  oldWrites, opens

vars == << tables, column, triggers, ledger, keys, chats, indexed, opener, mode, slipped,
           late, fullOnce, oldWrites, opens >>

schema == << tables, column, triggers, ledger >>
data == << keys, chats, indexed, slipped, late, fullOnce, oldWrites >>

At(p, step) == opener[p] = step

Goto(p, step) == opener' = [opener EXCEPT ![p] = step]

----------------------------------------------------------------------------
\* An empty file, or the database of a version without the key and the index.
Init ==
  /\ tables \in {"none", "old"} /\ column = FALSE /\ triggers = FALSE /\ ledger = {}
  /\ \E key \in IF tables = "old" THEN {"none", "null"} ELSE {"none"} :
       keys = [r \in Rows |-> key]
  /\ chats \in IF tables = "old" THEN {{}, Chats} ELSE {{}}
  /\ indexed = {}
  /\ opener = [p \in Openers |-> "shut"] /\ mode = [p \in Openers |-> "full"]
  /\ slipped = {} /\ late = {} /\ fullOnce = FALSE /\ oldWrites = 0 /\ opens = 0

Open(p, maintenance) ==
  /\ At(p, "shut") /\ opens < MaxOpens
  /\ mode' = [mode EXCEPT ![p] = maintenance]
  /\ Goto(p, "tables") /\ opens' = opens + 1
  /\ UNCHANGED << schema, data >>

\* CREATE ... IF NOT EXISTS and INSERT OR IGNORE: again does no harm.  A table that is
\* new has the column.
CreateTables(p) ==
  /\ At(p, "tables")
  /\ column' = (column \/ tables = "none")
  /\ tables' = "new"
  /\ Goto(p, "columns")
  /\ UNCHANGED << triggers, ledger, data, mode, opens >>

\* ensureColumn reads the columns first, and adds the one that is missing later.
ReadColumns(p) ==
  /\ At(p, "columns")
  /\ Goto(p, IF column THEN "ledger" ELSE "alter")
  /\ UNCHANGED << schema, data, mode, opens >>

\* A column that another process has added meanwhile is an error: opening fails.
AddColumn(p) ==
  /\ At(p, "alter")
  /\ Goto(p, IF column THEN "shut" ELSE "ledger")
  /\ column' = TRUE
  /\ UNCHANGED << tables, triggers, ledger, data, mode, opens >>

ReadLedger(p) ==
  /\ At(p, "ledger")
  /\ Goto(p, IF "key" \in ledger THEN "triggers" ELSE "backfill")
  /\ UNCHANGED << schema, data, mode, opens >>

Backfill(p) ==
  /\ At(p, "backfill")
  /\ keys' = [r \in Rows |-> IF keys[r] = "null" THEN "right" ELSE keys[r]]
  /\ slipped' = {r \in slipped : keys[r] # "null"}
  /\ Goto(p, "record")
  /\ UNCHANGED << schema, chats, indexed, late, fullOnce, oldWrites, mode, opens >>

RecordKeys(p) ==
  /\ At(p, "record")
  /\ ledger' = ledger \cup {"key"}
  /\ Goto(p, "triggers")
  /\ UNCHANGED << tables, column, triggers, data, mode, opens >>

CreateTriggers(p) ==
  /\ At(p, "triggers")
  /\ triggers' = TRUE
  /\ Goto(p, IF mode[p] = "full" THEN "probe" ELSE "open")
  /\ UNCHANGED << tables, column, ledger, data, mode, opens >>

FullOpenEnds(p) ==
  /\ Goto(p, "open")
  /\ fullOnce' = TRUE /\ late' = {}

\* Is a session missing in the index, or has the index never been filled.
NeedsRepair == "search" \notin ledger \/ indexed # chats

\* The probe, and the end of the opening when it finds nothing to do.
ProbeSearch(p) ==
  /\ At(p, "probe")
  /\ IF NeedsRepair
     THEN Goto(p, "repair") /\ UNCHANGED << fullOnce, late >>
     ELSE FullOpenEnds(p)
  /\ UNCHANGED << schema, keys, chats, indexed, slipped, oldWrites, mode, opens >>

\* One transaction: empty the index, fill it from the sessions, record.
RepairSearch(p) ==
  /\ At(p, "repair")
  /\ indexed' = chats
  /\ ledger' = ledger \cup {"search"}
  /\ FullOpenEnds(p)
  /\ UNCHANGED << tables, column, triggers, keys, chats, slipped, oldWrites, mode, opens >>

\* A statement finds the database locked, or the process dies; or an open one ends.
Abandon(p) ==
  /\ ~At(p, "shut")
  /\ Goto(p, "shut")
  /\ UNCHANGED << schema, data, mode, opens >>

\* runDatabaseMaintenance: VACUUM, where it is asked for and there is room for it, may
\* renumber the sessions, so that the index has any of them under another rowid.
\* Checkpoint and ANALYZE change no row, and an operation that is skipped or fails none.
Vacuum(p) ==
  /\ At(p, "open") /\ mode[p] = "schema-only"
  /\ \E renumbered \in SUBSET indexed :
       /\ indexed' = indexed \ renumbered
       /\ late' = late \cup renumbered
  /\ UNCHANGED << schema, keys, chats, opener, mode, slipped, fullOnce, oldWrites, opens >>

\* A slip: there is a trigger for new ranges, and none for those that are replaced.
InsertTriggerOnly(key) == IF key = "none" THEN "right" ELSE "wrong"

\* What the triggers make of a range that was written without regard to its key.
Triggered(key) == "right"

\* The older process puts a range, or replaces one under its id: it knows no key.
OldRange(r) ==
  LET written == IF triggers THEN Triggered(keys[r])
                 ELSE IF keys[r] \in {"none", "null"} THEN "null" ELSE "wrong"
  IN /\ oldWrites < MaxOldWrites /\ tables # "none"
     /\ keys' = [keys EXCEPT ![r] = written]
     /\ slipped' = IF ~triggers /\ ("key" \in ledger \/ written = "wrong"
                                    \/ \E p \in Openers : At(p, "record"))
                   THEN slipped \cup {r} ELSE slipped
     /\ oldWrites' = oldWrites + 1
     /\ UNCHANGED << schema, chats, indexed, opener, mode, late, fullOnce, opens >>

\* ... or a session, which it does not index under its rowid.
OldChat(s) ==
  /\ oldWrites < MaxOldWrites /\ tables # "none" /\ s \notin chats
  /\ chats' = chats \cup {s}
  /\ late' = late \cup {s}
  /\ oldWrites' = oldWrites + 1
  /\ UNCHANGED << schema, keys, indexed, opener, mode, slipped, fullOnce, opens >>

Next ==
  \/ \E p \in Openers, maintenance \in {"full", "schema-only"} : Open(p, maintenance)
  \/ \E p \in Openers : \/ CreateTables(p) \/ ReadColumns(p) \/ AddColumn(p)
                        \/ ReadLedger(p) \/ Backfill(p) \/ RecordKeys(p)
                        \/ CreateTriggers(p) \/ ProbeSearch(p) \/ RepairSearch(p)
                        \/ Abandon(p) \/ Vacuum(p)
  \/ \E r \in Rows : OldRange(r)
  \/ \E s \in Chats : OldChat(s)

Spec == Init /\ [][Next]_vars

----------------------------------------------------------------------------
\* A process that has opened the database finds its schema whole, every range with its
\* own key, and, once a full opening has ended, every session in the search index: for
\* openings that overlap, fail or die anywhere, and beside a process that knows of none
\* of it.  What that one wrote is excepted between a backfill and the triggers, which
\* nothing repairs since the ledger has the backfill down as done, and, for the index,
\* after the last full opening (migrate, repairCodexFtsRowidPinning); so are sessions that
\* a VACUUM has renumbered since then.
OpenedIsWhole ==
  (\E p \in Openers : At(p, "open")) =>
    /\ tables = "new" /\ column /\ triggers
    /\ \A r \in Rows \ slipped : keys[r] \in {"none", "right"}
    /\ fullOnce => chats \ indexed \subseteq late

----------------------------------------------------------------------------
\* What every step keeps: how far each process has come tells what is there (SchemaUpgrade).
Steps == { "shut", "tables", "columns", "alter", "ledger", "backfill", "record", "triggers",
           "probe", "repair", "open" }

Past(p, steps) == opener[p] \in Steps \ ({ "shut", "tables" } \cup steps)

TypeInv ==
  /\ tables \in { "none", "old", "new" } /\ column \in BOOLEAN /\ triggers \in BOOLEAN
  /\ keys \in [Rows -> { "none", "null", "right", "wrong" }]
  /\ opener \in [Openers -> Steps] /\ mode \in [Openers -> { "full", "schema-only" }]

StepsInv ==
  \A p \in Openers :
    /\ Past(p, {}) => tables = "new"
    /\ Past(p, { "columns", "alter" }) => column
    /\ At(p, "triggers") => "key" \in ledger
    /\ opener[p] \in { "probe", "repair", "open" } => triggers

\* No range has a wrong key, nor lacks one after a backfill, but those that slipped in.
KeysInv ==
  /\ triggers => "key" \in ledger
  /\ \A r \in Rows \ slipped :
       /\ keys[r] # "wrong"
       /\ keys[r] = "null" => "key" \notin ledger /\ \A p \in Openers : ~At(p, "record")

UpgradeInv ==
  /\ TypeInv /\ StepsInv /\ KeysInv
  /\ fullOnce => chats \ indexed \subseteq late
=============================================================================
