---------------------------- MODULE EventContent ----------------------------
(***************************************************************************)
(* The text that the search reads, codex_event_content, as                 *)
(* indexCodexSessions (packages/core/src/index.ts) keeps it for one file:  *)
(* an optional cache beside the prepared events.  A process may index      *)
(* without it, the user may drop it, and a later run that wants it fills   *)
(* it in, from the text if that has not changed.  An event's id holds the  *)
(* hash of the whole file, so an append renames every event.               *)
(*                                                                         *)
(* A hash is a generation of the file and its length in lines; a rewrite   *)
(* starts a generation.  Caps, half lines and the derivation of leaves and *)
(* cards are in SourceIndexer: here a derivation is one step, and what an  *)
(* append reads before its transaction is one step.                        *)
(***************************************************************************)
EXTENDS Integers, FiniteSets

CONSTANTS Indexers,
          NoRow,
          MaxLines, MaxChanges  \* bounds on a file and on what happens around

VARIABLES
  source,      \* the file: generation, length and mtime
  sourceRow,   \* its row in codex_source_files, and whether all is derived
  events,      \* prepared_source_events
  content,     \* codex_event_content
  runAt,       \* where each process is
  wanted,      \* eventContentEnabled
  looked,      \* what its stat and its first two SELECTs said
  loaded,      \* the text it read, as a hash
  undisturbed, \* history: nothing else has changed since its run began
  crossed,     \* history: rows that another process wrote have been renamed
  changes

storeVars == << sourceRow, events, content >>
callVars  == << wanted, looked, loaded >>
vars == << source, storeVars, runAt, callVars, undisturbed, crossed, changes >>

NoHash == [gen |-> 0, len |-> 0]
Unlooked == [len |-> 0, mtime |-> 0, row |-> NoRow, current |-> FALSE]

Hash == [gen |-> source.gen, len |-> source.len]

\* The events of a text: ordinal, the generation of the line, hash of the file.
EventsOf(hash) == {[n |-> n, gen |-> hash.gen, hash |-> hash] : n \in 1 .. hash.len}

Init ==
  /\ source = [gen |-> 1, len |-> 1, mtime |-> 0]
  /\ sourceRow = NoRow /\ events = {} /\ content = {}
  /\ runAt = [p \in Indexers |-> "idle"]
  /\ wanted = [p \in Indexers |-> FALSE]
  /\ looked = [p \in Indexers |-> Unlooked]
  /\ loaded = [p \in Indexers |-> NoHash]
  /\ undisturbed = [p \in Indexers |-> FALSE]
  /\ crossed = FALSE
  /\ changes = 0

----------------------------------------------------------------------------
Go(p, place) == runAt' = [runAt EXCEPT ![p] = place]

\* The run is over, or its process died.
Leave(p, place) ==
  /\ Go(p, place)
  /\ looked' = [looked EXCEPT ![p] = Unlooked]
  /\ loaded' = [loaded EXCEPT ![p] = NoHash]
  /\ wanted' = [wanted EXCEPT ![p] = @ /\ place = "done"]

Reading == UNCHANGED << source, storeVars, undisturbed, crossed, changes >>

Writing(p) ==
  /\ undisturbed' = [q \in Indexers |-> q = p /\ undisturbed[p]]
  /\ UNCHANGED << source, changes >>

Begin(p) ==
  /\ runAt[p] \in {"idle", "done"}
  /\ Go(p, "stat")
  /\ \E on \in BOOLEAN : wanted' = [wanted EXCEPT ![p] = on]
  /\ undisturbed' = [undisturbed EXCEPT ![p] = TRUE]
  /\ UNCHANGED << source, storeVars, looked, loaded, crossed, changes >>

Stat(p) ==
  /\ runAt[p] = "stat"
  /\ Go(p, "row")
  /\ looked' = [looked EXCEPT ![p].len = source.len, ![p].mtime = source.mtime]
  /\ Reading /\ UNCHANGED << wanted, loaded >>

ReadRow(p) ==
  /\ runAt[p] = "row"
  /\ Go(p, "content")
  /\ looked' = [looked EXCEPT ![p].row = sourceRow]
  /\ Reading /\ UNCHANGED << wanted, loaded >>

Same(p) == looked[p].row # NoRow
           /\ looked[p].row.len = looked[p].len /\ looked[p].row.mtime = looked[p].mtime

Derived(p) == looked[p].row # NoRow /\ looked[p].row.derived

\* A slip: the join the wrong way round, content without an event and not an
\* event without content.
NoneOrphaned == content \subseteq events

Matching == Cardinality(content) = Cardinality(events) /\ events \subseteq content

\* sourceFileEventContentCurrent
ContentCurrent ==
  \/ sourceRow = NoRow /\ events = {} /\ content = {}
  \/ events # {} /\ Matching

ReadContent(p) ==
  /\ runAt[p] = "content"
  /\ LET current == ~wanted[p] \/ (looked[p].row # NoRow /\ ContentCurrent)
         settled == Same(p) /\ Derived(p) /\ current
         grown   == Derived(p) /\ current /\ looked[p].len > looked[p].row.len
     IN \E verify \in BOOLEAN :
          \/ settled /\ ~verify /\ Leave(p, "done")
          \/ /\ ~(settled /\ ~verify)
             /\ looked' = [looked EXCEPT ![p].current = current]
             /\ Go(p, IF grown THEN "append" ELSE "read")
             /\ UNCHANGED << wanted, loaded >>
  /\ Reading

\* tryIndexCodexAppendDelta, up to its transaction: the indexed prefix is still
\* there, and its events are.
ReadAppended(p) ==
  /\ runAt[p] = "append"
  /\ LET hash == looked[p].row.hash
     IN IF /\ hash.len = looked[p].row.len
           /\ source.gen = hash.gen /\ source.len >= looked[p].len
           /\ sourceRow # NoRow /\ Cardinality(events) = hash.len
           /\ \A e \in events : e.n <= hash.len
          THEN /\ Go(p, "appendRows")
               /\ loaded' = [loaded EXCEPT ![p] = [gen |-> hash.gen, len |-> looked[p].len]]
          ELSE Go(p, "read") /\ UNCHANGED loaded
  /\ Reading /\ UNCHANGED << wanted, looked >>

Renamed(rows, hash) == {[e EXCEPT !.hash = hash] : e \in rows}

\* appendSessionDelta: what is there is renamed, with its content, and what
\* came with the text is added.
AppendRows(p) ==
  LET hash  == loaded[p]
      delta == {e \in EventsOf(hash) : e.n > looked[p].row.hash.len}
  IN /\ runAt[p] = "appendRows" /\ sourceRow # NoRow /\ sourceRow.hash # hash
     /\ events' = Renamed(events, hash) \cup delta
     /\ content' = (content \ events) \cup Renamed(content \cap events, hash)
                     \cup (IF wanted[p] THEN delta ELSE {})
     /\ sourceRow' = [hash |-> hash, len |-> looked[p].len, mtime |-> looked[p].mtime,
                      derived |-> FALSE]
     /\ crossed' = (crossed \/ sourceRow.hash # looked[p].row.hash)
     /\ Go(p, "derive")
     /\ Writing(p) /\ UNCHANGED callVars

ReadText(p) ==
  /\ runAt[p] = "read"
  /\ Go(p, "decide")
  /\ loaded' = [loaded EXCEPT ![p] = Hash]
  /\ Reading /\ UNCHANGED << wanted, looked >>

SameText(p) == Derived(p) /\ looked[p].row.hash = loaded[p]

Decide(p) ==
  /\ runAt[p] = "decide"
  /\ \/ /\ SameText(p) /\ looked[p].current /\ Same(p)
        /\ Leave(p, "done") /\ Reading
     \/ /\ SameText(p) /\ looked[p].current /\ ~Same(p)
        /\ sourceRow' = IF sourceRow = NoRow THEN NoRow
                        ELSE [sourceRow EXCEPT !.len = looked[p].len, !.mtime = looked[p].mtime]
        /\ Leave(p, "done") /\ Writing(p) /\ UNCHANGED << events, content, crossed >>
     \/ /\ ~(SameText(p) /\ looked[p].current)
        /\ Go(p, IF SameText(p) THEN "backfill" ELSE "upsert")
        /\ Reading /\ UNCHANGED callVars

\* backfillCodexEventContentForSession
Backfill(p) ==
  /\ runAt[p] = "backfill"
  /\ content' = content \cup EventsOf(loaded[p])
  /\ Leave(p, "done")
  /\ Writing(p) /\ UNCHANGED << sourceRow, events, crossed >>

\* upsertSession
Upsert(p) ==
  /\ runAt[p] = "upsert"
  /\ sourceRow' = [hash |-> loaded[p], len |-> looked[p].len, mtime |-> looked[p].mtime,
                   derived |-> FALSE]
  /\ events' = EventsOf(loaded[p])
  /\ content' = IF wanted[p] THEN EventsOf(loaded[p]) ELSE {}
  /\ crossed' = FALSE
  /\ Go(p, "derive")
  /\ Writing(p) /\ UNCHANGED callVars

\* Leaves and cards; their marks are set whatever row is there by now.
Derive(p) ==
  /\ runAt[p] = "derive"
  /\ sourceRow' = IF sourceRow = NoRow THEN NoRow ELSE [sourceRow EXCEPT !.derived = TRUE]
  /\ Leave(p, "done")
  /\ Writing(p) /\ UNCHANGED << events, content, crossed >>

\* A statement throws, an append finds its rows renamed already, or it dies.
Abandon(p) ==
  /\ runAt[p] \notin {"idle", "done"}
  /\ Leave(p, "idle")
  /\ undisturbed' = [undisturbed EXCEPT ![p] = FALSE]
  /\ UNCHANGED << source, storeVars, crossed, changes >>

----------------------------------------------------------------------------
Around ==
  /\ changes < MaxChanges /\ changes' = changes + 1
  /\ undisturbed' = [p \in Indexers |-> FALSE]
  /\ UNCHANGED << runAt, callVars >>

\* Codex adds lines, or writes another text.
Write ==
  /\ Around
  /\ \E gen \in source.gen .. source.gen + 1, len \in 1 .. MaxLines :
       /\ gen = source.gen => len > source.len
       /\ source' = [gen |-> gen, len |-> len, mtime |-> source.mtime + 1]
  /\ UNCHANGED << storeVars, crossed >>

\* dropCodexEventContentCache
DropContent == Around /\ content' = {} /\ UNCHANGED << source, sourceRow, events, crossed >>

\* clearSourceFileIndex: the content goes with the thread.
ClearIndex ==
  /\ Around /\ sourceRow # NoRow
  /\ sourceRow' = NoRow /\ events' = {} /\ content' = {}
  /\ crossed' = FALSE
  /\ UNCHANGED source

Next ==
  \/ \E p \in Indexers :
       \/ Begin(p) \/ Stat(p) \/ ReadRow(p) \/ ReadContent(p) \/ ReadAppended(p)
       \/ AppendRows(p) \/ ReadText(p) \/ Decide(p) \/ Backfill(p) \/ Upsert(p)
       \/ Derive(p) \/ Abandon(p)
  \/ Write \/ DropContent \/ ClearIndex

Spec == Init /\ [][Next]_vars

----------------------------------------------------------------------------
\* A run that wants the cache and that nothing disturbs leaves every event with
\* its own content, whatever runs without the cache, drops of it, races and
\* deaths came before.  Content of events that are gone may be left beside it.
\* An append that renames rows another process wrote meanwhile is left aside:
\* their events never match, and every run fills the content in again.
EveryEventHasContent ==
  ~crossed => \A p \in Indexers :
    runAt[p] = "done" /\ wanted[p] /\ undisturbed[p] =>
      events # {} /\ events \subseteq content

----------------------------------------------------------------------------
\* What every step keeps (EventContent).
Places == {"idle", "stat", "row", "content", "append", "appendRows", "read", "decide",
           "backfill", "upsert", "derive", "done"}

Hashes == [gen : Nat, len : Nat]
RowsOrNone == [hash : Hashes, len : Nat, mtime : Nat, derived : BOOLEAN] \cup {NoRow}

TypeInv ==
  /\ source \in [gen : Nat, len : Nat \ {0}, mtime : Nat]
  /\ sourceRow \in RowsOrNone
  /\ runAt \in [Indexers -> Places]
  /\ wanted \in [Indexers -> BOOLEAN] /\ undisturbed \in [Indexers -> BOOLEAN]
  /\ looked \in [Indexers -> [len : Nat, mtime : Nat, row : RowsOrNone, current : BOOLEAN]]
  /\ loaded \in [Indexers -> Hashes]

\* The events are those of the text that the row tells.
StoreInv ==
  sourceRow # NoRow => events # {} /\ (~crossed => events = EventsOf(sourceRow.hash))

\* What a run has made sure of before it goes on.
Placed(p) ==
  /\ runAt[p] \in {"append", "appendRows"} =>
       looked[p].row # NoRow /\ looked[p].current /\ looked[p].len > looked[p].row.len
  /\ runAt[p] = "appendRows" =>
       /\ looked[p].row.hash.len = looked[p].row.len
       /\ loaded[p] = [gen |-> looked[p].row.hash.gen, len |-> looked[p].len]
  /\ runAt[p] \in {"decide", "backfill", "upsert"} => loaded[p].len > 0
  /\ runAt[p] = "backfill" => SameText(p)

Filled == events # {} /\ events \subseteq content

\* What an undisturbed run knows is still so.
Undisturbed(p) ==
  /\ runAt[p] \in {"content", "append", "appendRows", "read", "decide", "backfill", "upsert"} =>
       looked[p].row = sourceRow
  /\ wanted[p] /\ runAt[p] \in {"append", "appendRows", "read", "decide"} /\ looked[p].current
       /\ looked[p].row # NoRow => Filled
  /\ wanted[p] /\ runAt[p] \in {"derive", "done"} /\ ~crossed => Filled

ContentInv ==
  /\ TypeInv /\ StoreInv
  /\ \A p \in Indexers : Placed(p) /\ (undisturbed[p] => Undisturbed(p))
=============================================================================
