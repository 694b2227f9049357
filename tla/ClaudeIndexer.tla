--------------------------- MODULE ClaudeIndexer ---------------------------
(***************************************************************************)
(* indexClaudeSessions (packages/core/src/index.ts): the session files of  *)
(* Claude Code, newest first, each parsed afresh and put in one            *)
(* transaction as the row of its session and the row of its search text.   *)
(* A file over a cap loses its rows instead, a statement at a time, with   *)
(* no transaction.  Another process may index an inventory of sessions     *)
(* meanwhile, Claude Code may write, and the run may die.                  *)
(*                                                                         *)
(* Nothing is remembered of a file but its rows, and the rows of a file    *)
(* that is gone stay.  The caps on bytes and on events are one.            *)
(***************************************************************************)
EXTENDS Integers, Sequences, FiniteSets

CONSTANTS ClaudeFiles, SessionIds,
          Fixture,        \* the source of rows that come from an inventory
          NoRow,
          MaxClaudeSteps  \* bound on what happens around the run

VARIABLES
  files,      \* each file: the session it names, its version, if it is too big
  newest,     \* the files, last written first
  rows,       \* claude_sessions: the source and version of each session
  texts,      \* claude_safe_text_fts, by session
  indexAt,    \* where the run is
  todo,       \* the files it has yet to do, the one in hand first
  parsed,     \* the session parsed from the one in hand
  doomed,     \* the sessions it is dropping, whose texts are
  calm,       \* history: nothing else has changed since the run began
  meddled,    \* history: sessions written while the run was dropping them
  claudeSteps

runVars == << indexAt, todo, parsed, doomed >>
vars == << files, newest, rows, texts, runVars, calm, meddled, claudeSteps >>

NoSession == [id |-> NoRow, version |-> 0, big |-> FALSE]

\* Every file is in the list once.
Listing(list) ==
  /\ \A i, j \in DOMAIN list : i # j => list[i] # list[j]
  /\ \A f \in ClaudeFiles : \E i \in DOMAIN list : list[i] = f

Init ==
  /\ files \in [ClaudeFiles -> [id : SessionIds, version : {0}, big : BOOLEAN]]
  /\ newest \in UNION {[1 .. n -> ClaudeFiles] : n \in 0 .. Cardinality(ClaudeFiles)}
  /\ Listing(newest)
  /\ rows = [i \in SessionIds |-> NoRow] /\ texts = rows
  /\ indexAt = "idle" /\ todo = << >> /\ parsed = NoSession /\ doomed = {}
  /\ calm = FALSE /\ meddled = {} /\ claudeSteps = 0

Row(f, session) == [source |-> f, version |-> session.version]

Without(table, ids) == [i \in SessionIds |-> IF i \in ids THEN NoRow ELSE table[i]]

From(f) == {i \in SessionIds : rows[i] # NoRow /\ rows[i].source = f}

----------------------------------------------------------------------------
\* collectJsonlFiles
Start ==
  /\ indexAt \in {"idle", "done"}
  /\ indexAt' = "stat" /\ todo' = newest /\ calm' = TRUE
  /\ UNCHANGED << files, newest, rows, texts, parsed, doomed, meddled, claudeSteps >>

Stat ==
  /\ indexAt = "stat" /\ todo # << >>
  /\ IF files[Head(todo)].big
       THEN indexAt' = "clear" /\ doomed' = From(Head(todo))
       ELSE indexAt' = "read" /\ UNCHANGED doomed
  /\ UNCHANGED << files, newest, rows, texts, todo, parsed, calm, meddled, claudeSteps >>

\* parseClaudeCodeJsonl; too many events are found only now.
Read ==
  /\ indexAt = "read"
  /\ IF files[Head(todo)].big
       THEN indexAt' = "clear" /\ doomed' = From(Head(todo)) /\ UNCHANGED parsed
       ELSE indexAt' = "upsert" /\ parsed' = files[Head(todo)] /\ UNCHANGED doomed
  /\ UNCHANGED << files, newest, rows, texts, todo, calm, meddled, claudeSteps >>

\* clearRemappedClaudeSourcePathSessions
Remapped == From(Head(todo)) \ {parsed.id}

Upsert ==
  /\ indexAt = "upsert"
  /\ LET row == Row(Head(todo), parsed)
     IN /\ rows' = [Without(rows, Remapped) EXCEPT ![parsed.id] = row]
        /\ texts' = [Without(texts, Remapped) EXCEPT ![parsed.id] = row]
  /\ indexAt' = "stat" /\ todo' = Tail(todo) /\ parsed' = NoSession
  /\ UNCHANGED << files, newest, doomed, calm, meddled, claudeSteps >>

\* A slip: the row first, its text after.
RowThenText == << "row", "text" >>

\* clearClaudeSessionsForSourcePathRef, one session after another: the order of
\* its two statements.
DropOrder == << "text", "row" >>

Drop(what, i) ==
  IF what = "text" THEN texts' = Without(texts, {i}) /\ UNCHANGED rows
                   ELSE rows' = Without(rows, {i}) /\ UNCHANGED texts

ClearFirst(i) ==
  /\ indexAt = "clear" /\ i \in doomed
  /\ Drop(DropOrder[1], i)
  /\ indexAt' = "clearRest" /\ parsed' = [NoSession EXCEPT !.id = i]
  /\ UNCHANGED << files, newest, todo, doomed, calm, meddled, claudeSteps >>

ClearSecond ==
  /\ indexAt = "clearRest"
  /\ Drop(DropOrder[2], parsed.id)
  /\ indexAt' = "clear" /\ doomed' = doomed \ {parsed.id} /\ parsed' = NoSession
  /\ UNCHANGED << files, newest, todo, calm, meddled, claudeSteps >>

Limited ==
  /\ indexAt = "clear" /\ doomed = {}
  /\ indexAt' = "stat" /\ todo' = Tail(todo)
  /\ UNCHANGED << files, newest, rows, texts, parsed, doomed, calm, meddled, claudeSteps >>

Leave(place) ==
  /\ indexAt' = place /\ todo' = << >> /\ parsed' = NoSession /\ doomed' = {}
  /\ UNCHANGED << files, newest, rows, texts, meddled >>

Finish ==
  /\ indexAt = "stat" /\ todo = << >>
  /\ Leave("done")
  /\ UNCHANGED << calm, claudeSteps >>

Around == claudeSteps < MaxClaudeSteps /\ claudeSteps' = claudeSteps + 1 /\ calm' = FALSE

Die ==
  /\ indexAt \notin {"idle", "done"}
  /\ Leave("idle") /\ Around

\* A file that fails, at any of its steps, is reported and passed over.
Fail ==
  /\ indexAt \notin {"idle", "done"} /\ todo # << >>
  /\ indexAt' = "stat" /\ todo' = Tail(todo) /\ parsed' = NoSession /\ doomed' = {}
  /\ UNCHANGED << files, newest, rows, texts, meddled >>
  /\ Around

\* Claude Code writes a file, maybe under another session: it is the newest, and
\* those that were newer follow it.
Fronted(f) ==
  LET place == CHOOSE n \in DOMAIN newest : newest[n] = f
  IN [n \in DOMAIN newest |-> IF n = 1 THEN f
                              ELSE IF n <= place THEN newest[n - 1] ELSE newest[n]]

Write(f) ==
  /\ Around
  /\ \E i \in SessionIds, big \in BOOLEAN :
       files' = [files EXCEPT ![f] = [id |-> i, version |-> claudeSteps', big |-> big]]
  /\ newest' = Fronted(f)
  /\ UNCHANGED << rows, texts, runVars, meddled >>

\* indexClaudeSessionInventory, a transaction: sessions taken in, or thrown out.
Inventory(accepted, rejected) ==
  /\ Around
  /\ LET row == [source |-> Fixture, version |-> claudeSteps']
         Taken(table) == [i \in SessionIds |->
                            IF i \in accepted THEN row ELSE Without(table, rejected)[i]]
     IN rows' = Taken(rows) /\ texts' = Taken(texts)
  /\ meddled' = meddled \cup (accepted \cap (doomed \cup {parsed.id}))
  /\ UNCHANGED << files, newest, runVars >>

Next ==
  \/ Start \/ Stat \/ Read \/ Upsert \/ ClearSecond \/ Limited \/ Finish \/ Die \/ Fail
  \/ \E i \in SessionIds : ClearFirst(i)
  \/ \E f \in ClaudeFiles : Write(f)
  \/ \E accepted, rejected \in SUBSET SessionIds :
       accepted \cup rejected # {} /\ Inventory(accepted, rejected)

Spec == Init /\ [][Next]_vars

----------------------------------------------------------------------------
\* A text that the search finds is that of a session's row, wherever a run may
\* have died; of those alone that another process wrote while the run was
\* dropping them may a text be left over.  And after a run during which nothing
\* else happened, the rows say what the files say: a file over the cap has none,
\* any other has the row of its session and no other, and a session in two files
\* has that of the one written earlier.
Claimed(n, k) ==
  \E m \in (n + 1) .. k : ~files[newest[m]].big /\ files[newest[m]].id = files[newest[n]].id

Told(k) ==
  \A n \in 1 .. k :
    LET f == newest[n]
    IN /\ From(f) = IF files[f].big \/ Claimed(n, k) THEN {} ELSE {files[f].id}
       /\ \A i \in From(f) : rows[i] = Row(f, files[f]) /\ texts[i] = rows[i]

RowsTellTheFiles ==
  /\ \A i \in SessionIds \ meddled : texts[i] \in {NoRow, rows[i]}
  /\ indexAt = "done" /\ calm => Told(Len(newest))

----------------------------------------------------------------------------
\* What every step keeps (indexClaudeSessions).
Records == [source : ClaudeFiles \cup {Fixture}, version : Nat]

TypeInv ==
  /\ files \in [ClaudeFiles -> [id : SessionIds, version : Nat, big : BOOLEAN]]
  /\ newest \in Seq(ClaudeFiles) /\ Listing(newest)
  /\ rows = [i \in SessionIds |-> rows[i]] /\ texts = [i \in SessionIds |-> texts[i]]
  /\ todo \in Seq(ClaudeFiles) /\ claudeSteps \in Nat
  /\ indexAt \in {"idle", "done", "stat", "read", "upsert", "clear", "clearRest"}
  /\ indexAt \in {"read", "upsert", "clear", "clearRest"} => todo # << >>
  /\ indexAt = "upsert" => parsed \in [id : SessionIds, version : Nat, big : BOOLEAN]
  /\ indexAt \in {"clear", "clearRest"} => doomed \subseteq SessionIds
  /\ indexAt = "clearRest" => parsed.id \in doomed

\* A text goes before its row.
TextsInv ==
  /\ \A i \in SessionIds \ meddled : texts[i] \in {NoRow, rows[i]}
  /\ indexAt = "clearRest" /\ parsed.id \notin meddled => texts[parsed.id] = NoRow

\* All but the first k of the list are yet to do.
Ahead(k) ==
  /\ Len(todo) = Len(newest) - k
  /\ \A j \in 1 .. Len(todo) : todo[j] = newest[k + j]

\* A run that nothing disturbs has told of all files but those it has yet to do.
CalmInv ==
  /\ indexAt = "done" => Told(Len(newest))
  /\ indexAt \notin {"idle", "done"} => \E k \in 0 .. Len(newest) : Ahead(k) /\ Told(k)
  /\ indexAt = "upsert" => parsed = files[Head(todo)] /\ ~parsed.big
  /\ indexAt \in {"clear", "clearRest"} => files[Head(todo)].big /\ doomed = From(Head(todo))

ClaudeInv == TypeInv /\ TextsInv /\ (calm => CalmInv)
=============================================================================
