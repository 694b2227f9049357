--------------------------- MODULE PreparedReads ---------------------------
(* The bounded reports of the prepared tables (core/src/index.ts): source  *)
(* ranges, summary leaves, cards, the inbox, watcher events, and the       *)
(* ranges a thread's leaves are made of.  Each asks with one or several    *)
(* statements, outside a transaction, while other processes write the      *)
(* rows, and says how much of the table it left out.                       *)
(*                                                                         *)
(* A row is hidden when it is counted but not taken (a ref that is not     *)
(* public), odd when the SQL takes it and the stricter test of the row     *)
(* does not, fit when it may be told.  Keys stand in the order of          *)
(* ORDER BY.                                                               *)
EXTENDS Integers, Sequences, FiniteSets, SequencesExt

CONSTANTS Keys,       \* of the rows of one table, numbers
          Limits,     \* that a caller may ask for, 0 for none
          PageSize,   \* rows that one statement of a paged report takes
          MaxRowWrites \* bound: changes that other processes make

VARIABLES
  prepared,     \* the table the report is about: the state of each key's row
  second,   \* the other table: the cards of inbox items, the queue of watchers
  ask,      \* the report that is being made and its limit
  at,       \* its next statement
  raw, safe, \* the two counts taken first
  offset,   \* of the next page
  read,     \* what the statements so far returned
  found,    \* what the reading of the other table returned
  stayed,   \* history: keys whose rows have been fit since the report began
  came, went, \* history: has a row come into, or gone from, what the SQL takes
  rowWrites

vars == << prepared, second, ask, at, raw, safe, offset, read, found, stayed, came, went,
           rowWrites >>

Reports == {"ranges", "leaves", "material", "cards", "inbox", "events"}

Stored == {k \in Keys : prepared[k] # "none"}

\* What the WHERE clause of the report takes.
Taken(table) == {k \in Keys : table[k] \in {"odd", "fit"}}

\* Numbers in their order: each stands after as many as are less.
InOrder(set) ==
  [i \in 1..Cardinality(set) |->
     CHOOSE k \in set : Cardinality({j \in set : j < k}) = i - 1]

Ordered(name, table) ==
  [i \in 1..Cardinality(Taken(table)) |->
     LET k == InOrder(Taken(table))[i]
     IN [table |-> name, key |-> k, fit |-> table[k] = "fit"]]

\* The elements of a sequence at some of its places.
Select(s, places) == [n \in 1..Cardinality(places) |-> s[InOrder(places)[n]]]

Fits(s) == Select(s, {i \in 1..Len(s) : s[i].fit})
Odd(s) == Len(s) - Len(Fits(s))
Cut(s, n) == SubSeq(s, 1, Min({n, Len(s)}))
RowsIn(s) == {s[i].key : i \in {j \in 1..Len(s) : s[j].table = "rows"}}

----------------------------------------------------------------------------
Init ==
  /\ prepared \in [Keys -> {"none", "hidden", "odd", "fit"}]
  /\ second = [k \in Keys |-> "fit"]
  /\ ask = [report |-> "none", limit |-> 0] /\ at = "idle"
  /\ raw = 0 /\ safe = 0 /\ offset = 0 /\ read = << >> /\ found = second
  /\ stayed = {} /\ came = FALSE /\ went = FALSE /\ rowWrites = 0

Begin(report, limit) ==
  /\ at = "idle"
  /\ (limit = 0) => report = "material"
  /\ ask' = [report |-> report, limit |-> limit]
  /\ at' = IF report \in {"ranges", "leaves", "material"} THEN "raw" ELSE "list"
  /\ stayed' = {k \in Keys : prepared[k] = "fit" /\ (report = "inbox" => second[k] = "fit")}
  /\ UNCHANGED << prepared, second, raw, safe, offset, read, found, came, went, rowWrites >>

CountRaw ==
  /\ at = "raw"
  /\ raw' = Cardinality(Stored) /\ at' = "safe"
  /\ UNCHANGED << prepared, second, ask, safe, offset, read, found, stayed, came, went,
                  rowWrites >>

CountSafe ==
  /\ at = "safe"
  /\ safe' = Cardinality(Taken(prepared)) /\ at' = "list"
  /\ UNCHANGED << prepared, second, ask, raw, offset, read, found, stayed, came, went,
                  rowWrites >>

\* Ranges are taken with one LIMIT, before the stricter test.
ListRanges ==
  /\ at = "list" /\ ask.report = "ranges"
  /\ read' = Cut(Ordered("rows", prepared), ask.limit) /\ at' = "done"
  /\ UNCHANGED << prepared, second, ask, raw, safe, offset, found, stayed, came, went,
                  rowWrites >>

\* A slip: the pages of the leaves go no further than the limit either.
BoundByLimit == ask.limit

\* How far the pages go: to the limit of the ranges for leaves, or the count taken first.
Bound == IF ask.report = "material" /\ ask.limit > 0 THEN ask.limit ELSE safe

PageLimit ==
  IF ask.report = "material" THEN Min({PageSize, Bound - offset}) ELSE PageSize

NextOffset(page) == offset + PageSize

\* One page of the leaves, or of the ranges that leaves are made of.
ListPage ==
  LET page == IF offset < Bound
              THEN SubSeq(Ordered("rows", prepared), offset + 1,
                          Min({offset + PageLimit, Cardinality(Taken(prepared))}))
              ELSE << >>
  IN /\ at = "list" /\ ask.report \in {"leaves", "material"}
     /\ read' = read \o page
     /\ offset' = NextOffset(page)
     /\ at' = IF page = << >> \/ NextOffset(page) >= Bound THEN "done" ELSE "list"
     /\ UNCHANGED << prepared, second, ask, raw, safe, found, stayed, came, went, rowWrites >>

\* All rows with one statement: cards, and the first half of inbox and events.
ListAll ==
  /\ at = "list" /\ ask.report \in {"cards", "inbox", "events"}
  /\ read' = Ordered("rows", prepared)
  /\ at' = IF ask.report = "cards" THEN "done" ELSE "second"
  /\ UNCHANGED << prepared, second, ask, raw, safe, offset, found, stayed, came, went,
                  rowWrites >>

\* The cards the items name, or the queue of the watchers, some time later.
ListSecond ==
  /\ at = "second"
  /\ found' = second /\ at' = "done"
  /\ UNCHANGED << prepared, second, ask, raw, safe, offset, read, stayed, came, went,
                  rowWrites >>

\* Another process puts a row, replaces it or deletes it.
WriteRow(k, state) ==
  /\ rowWrites < MaxRowWrites /\ at \notin {"idle", "done"} /\ prepared[k] # state
  /\ prepared' = [prepared EXCEPT ![k] = state]
  /\ came' = (came \/ (k \in Taken(prepared') /\ k \notin Taken(prepared)))
  /\ went' = (went \/ (k \in Taken(prepared) /\ k \notin Taken(prepared')))
  /\ stayed' = stayed \ {k}
  /\ rowWrites' = rowWrites + 1
  /\ UNCHANGED << second, ask, at, raw, safe, offset, read, found >>

\* ... or a card, or a queue item.
WriteSecond(k, state) ==
  /\ rowWrites < MaxRowWrites /\ at \notin {"idle", "done"} /\ second[k] # state
  /\ ask.report \in {"inbox", "events"}
  /\ second' = [second EXCEPT ![k] = state]
  /\ stayed' = IF ask.report = "inbox" THEN stayed \ {k} ELSE stayed
  /\ rowWrites' = rowWrites + 1
  /\ UNCHANGED << prepared, ask, at, raw, safe, offset, read, found, came, went >>

Next ==
  \/ \E report \in Reports, limit \in Limits : Begin(report, limit)
  \/ CountRaw \/ CountSafe \/ ListRanges \/ ListPage \/ ListAll \/ ListSecond
  \/ \E k \in Keys, state \in {"none", "hidden", "odd", "fit"} : WriteRow(k, state)
  \/ \E k \in Keys, state \in {"none", "odd", "fit"} : WriteSecond(k, state)

Spec == Init /\ [][Next]_vars

----------------------------------------------------------------------------
(* What is said: the rows shown, how many the limit left out, and how many *)
(* the tests did; all is how many there were to tell of.                   *)
RangesReport ==
  [shown |-> Fits(read), limited |-> Max({0, safe - Len(read)}),
   filtered |-> Max({0, raw - safe}) + Odd(read), all |-> Cardinality(Stored)]

LeavesReport ==
  LET shown == Cut(Fits(read), ask.limit)
  IN [shown |-> shown, limited |-> Len(Fits(read)) - Len(shown),
      filtered |-> Max({0, raw - safe}) + Odd(read), all |-> Cardinality(Stored)]

MaterialReport ==
  [shown |-> Fits(read), limited |-> Max({0, safe - Bound}),
   filtered |-> Max({0, raw - safe}) + Odd(read), all |-> Cardinality(Stored)]

CardsReport ==
  LET shown == Cut(Fits(read), ask.limit)
  IN [shown |-> shown, limited |-> Len(Fits(read)) - Len(shown), filtered |-> Odd(read),
      all |-> Cardinality(Taken(prepared))]

\* An item whose card cannot be told is passed over and not counted.
InboxReport ==
  LET held == Select(read, {i \in 1..Len(read) : read[i].fit /\ found[read[i].key] = "fit"})
      shown == Cut(held, ask.limit)
  IN [shown |-> shown, limited |-> Len(held) - Len(shown), filtered |-> 0,
      all |-> Cardinality({k \in Keys : prepared[k] = "fit" /\ second[k] = "fit"})]

\* Observations and queue items, each up to the limit.
EventsReport ==
  LET observed == CardsReport
      queue == Ordered("second", found)
      items == Cut(Fits(queue), ask.limit)
  IN [shown |-> observed.shown \o items,
      limited |-> observed.limited + Len(Fits(queue)) - Len(items),
      filtered |-> observed.filtered + Odd(queue),
      all |-> observed.all + Cardinality(Taken(second))]

Said ==
  CASE ask.report = "ranges" -> RangesReport
    [] ask.report = "leaves" -> LeavesReport
    [] ask.report = "material" -> MaterialReport
    [] ask.report = "cards" -> CardsReport
    [] ask.report = "inbox" -> InboxReport
    [] ask.report = "events" -> EventsReport

\* What another process must have done for a report to pass over a row in silence:
\* new rows take the place of old ones under a LIMIT that was compared with an older
\* count; pages shift when rows come before them or go.
Shifted ==
  \/ ask.report = "ranges" /\ came
  \/ ask.report \in {"leaves", "material"} /\ (came \/ went)

\* Every row that was there throughout is shown, or the report says that its limit
\* left some out; no row is shown twice; and when nothing changed, the rows shown and
\* the omissions counted add up to all there is.  It fails to hold only where Shifted
\* says (getPreparedSourceRanges, getSummaryLeaves, getPreparedCards, getPreparedInbox,
\* getWatcherEvents, getPreparedSourceRangesForSummaryMaterialization).
EveryRowAccountedFor ==
  (at = "done" /\ ~Shifted) =>
    /\ stayed \subseteq RowsIn(Said.shown) \/ Said.limited > 0
    /\ IsInjective(Said.shown)
    /\ (rowWrites = 0) => Len(Said.shown) + Said.limited + Said.filtered = Said.all

----------------------------------------------------------------------------
(* Why it holds.  What was read so far is, in the order of the keys, the   *)
(* first of those that the table then had, and what stayed is fit in it.   *)
States == {"none", "hidden", "odd", "fit"}
TableRows == [table : {"rows", "second"}, key : Keys, fit : BOOLEAN]

TypeInv ==
  /\ prepared \in [Keys -> States] /\ second \in [Keys -> States] /\ found \in [Keys -> States]
  /\ ask \in [report : Reports \cup {"none"}, limit : Limits \cup {0}]
  /\ at \in {"idle", "raw", "safe", "list", "second", "done"}
  /\ (at # "idle") => ask.report # "none"
  /\ (at = "second") => ask.report \in {"inbox", "events"}
  /\ raw \in Nat /\ safe \in Nat /\ offset \in Nat /\ rowWrites \in Nat
  /\ read \in Seq(TableRows) /\ stayed \subseteq Keys
  /\ came \in BOOLEAN /\ went \in BOOLEAN

Paged == ask.report \in {"leaves", "material"}
Counted == Paged \/ ask.report = "ranges"
Twofold == ask.report \in {"inbox", "events"}

\* What the history says of the rows as they are.
StayedInv ==
  /\ (at = "idle" \/ rowWrites = 0) => ~came /\ ~went
  /\ (at = "idle") => rowWrites = 0
  /\ (at # "idle") =>
       \A k \in stayed : prepared[k] = "fit" /\ (ask.report = "inbox" => second[k] = "fit")

CountsInv ==
  Counted =>
    /\ (at \in {"safe", "list", "done"} /\ rowWrites = 0) => raw = Cardinality(Stored)
    /\ (at \in {"list", "done"} /\ ~came) => Cardinality(Taken(prepared)) <= safe
    /\ (at \in {"list", "done"} /\ ~came /\ ~went) => safe = Cardinality(Taken(prepared))

Begins(set) ==
  /\ Len(read) <= Cardinality(set)
  /\ \A i \in 1..Len(read) :
       /\ read[i].table = "rows" /\ read[i].key = InOrder(set)[i]
       /\ (read[i].key \in stayed) => read[i].fit

\* The pages have come as far as the offset, and end at the bound.
PagesInv ==
  (Paged /\ at \in {"list", "done"} /\ ~came /\ ~went) =>
    LET all == Min({Bound, Cardinality(Taken(prepared))})
    IN /\ Begins(Taken(prepared))
       /\ Len(read) = IF at = "list" THEN Min({offset, all}) ELSE all

ReadInv ==
  /\ (at \in {"idle", "raw", "safe"}) => read = << >> /\ offset = 0
  /\ (at = "list" /\ ~Paged) => read = << >>
  /\ (ask.report = "ranges" /\ at = "done") =>
       /\ Begins(Taken(prepared))
       /\ Len(read) = Min({ask.limit, Cardinality(Taken(prepared))})
  /\ (ask.report = "cards" /\ at = "done") =>
       Begins(Taken(prepared)) /\ Len(read) = Cardinality(Taken(prepared))
  /\ (Twofold /\ at \in {"second", "done"}) =>
       \E set \in SUBSET Keys :
         /\ Begins(set) /\ Len(read) = Cardinality(set) /\ stayed \subseteq set
         /\ (rowWrites = 0) =>
              /\ set = Taken(prepared)
              /\ \A i \in 1..Len(read) : read[i].fit <=> prepared[read[i].key] = "fit"
  /\ (Twofold /\ at = "done") => found = second

ReadsInv == TypeInv /\ StayedInv /\ CountsInv /\ PagesInv /\ ReadInv
=============================================================================
