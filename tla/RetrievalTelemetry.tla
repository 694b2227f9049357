------------------------- MODULE RetrievalTelemetry -------------------------
(* The opt-in record of searches and of what was opened after them, and    *)
(* the scenarios harvested from it (core/src/index.ts searchSessions,      *)
(* recordTelemetry*, harvestRetrievalTelemetry).  Every agent has a        *)
(* session of its own in its own process, all share one database, and the  *)
(* caller may say what time it is.  A follow goes to the newest search of  *)
(* the same session that showed the ref; the row of that search may be     *)
(* pruned by another process before the follow is written.                 *)
EXTENDS Integers, Sequences, FiniteSets, FiniteSetsExt

CONSTANTS Agents,      \* telemetry sessions
          Queries,     \* query hashes
          Results,     \* sequences of refs that a search may return
          Window,      \* how long after a search a follow is taken to come of it
          Lookback,    \* how long rows are kept
          PruneEvery,  \* how often a process prunes
          PruneBatch,  \* rows of a table that one pruning deletes
          SearchLimit, \* newest searches that are looked through
          MaxRows,     \* groups that a harvest samples
          MaxNow,      \* bound: times
          MaxCalls     \* bound: calls

Times == 0..MaxNow
RefsShown == UNION {{r[i] : i \in 1..Len(r)} : r \in Results}

VARIABLES
  searches,   \* rows of telemetry_search_events
  follows,    \* rows of telemetry_follow_events
  pruned,     \* when each process last pruned, -1 for never
  opening,    \* the record that an agent's call is about to write
  proposed,   \* the candidates of the last harvest
  shown,      \* history: every search made
  deeds,      \* history: every ref opened
  calls

vars == << searches, follows, pruned, opening, proposed, shown, deeds, calls >>

Nothing == [kinds |-> << >>, call |-> 0, ref |-> "none", now |-> 0, search |-> 0, rank |-> 0]

Place(refs, ref) == {i \in 1..Len(refs) : refs[i] = ref}

----------------------------------------------------------------------------
Init ==
  /\ searches = {} /\ follows = {}
  /\ pruned = [a \in Agents |-> -1] /\ opening = [a \in Agents |-> Nothing]
  /\ proposed = {} /\ shown = {} /\ deeds = {} /\ calls = 0

\* The oldest rows of a table from before a time, at most a batch of them.
Outdated(table, cutoff) ==
  LET old == {row \in table : row.at < cutoff}
      n == Min({PruneBatch, Cardinality(old)})
  IN {gone \in SUBSET old : /\ Cardinality(gone) = n
                            /\ \A x \in gone, y \in old \ gone : x.at <= y.at}

DueToPrune(a, now) == pruned[a] = -1 \/ now - pruned[a] >= PruneEvery

\* Pruning takes old follows, then old searches, and the follows of those with them.
\* What it leaves of both tables.
PrunedTables(a, now) ==
  IF ~DueToPrune(a, now) THEN {<< searches, follows >>}
  ELSE {<< searches \ old,
           {f \in follows \ gone : \A s \in old : f.search # s.id} >> :
         gone \in Outdated(follows, now - Lookback),
         old \in Outdated(searches, now - Lookback)}

LastPruned(a, now) == IF DueToPrune(a, now) THEN [pruned EXCEPT ![a] = now] ELSE pruned

\* searchSessions and grepRecall: the inner search of a grep records nothing.
Search(a, query, refs, now) ==
  /\ calls < MaxCalls /\ opening[a] = Nothing
  /\ LET row == [id |-> calls + 1, by |-> a, at |-> now, query |-> query, refs |-> refs]
     IN /\ \E left \in PrunedTables(a, now) :
             searches' = left[1] \cup {row} /\ follows' = left[2]
        /\ shown' = shown \cup {row}
  /\ pruned' = LastPruned(a, now)
  /\ calls' = calls + 1
  /\ UNCHANGED << opening, proposed, deeds >>

\* The ways to open a ref.
Ways == {"describeSession", "expandSession", "describeRecallRef", "expandRecallRef"}

KindOf(way) ==
  IF way \in {"describeSession", "describeRecallRef"} THEN "describe" ELSE "expand"

\* A slip: the call that the way makes for its content is recorded too.
RecordedWithInner(way) ==
  IF way = "describeSession" THEN << KindOf(way) >>
  ELSE << IF way = "expandRecallRef" THEN "expand" ELSE "describe", KindOf(way) >>

\* What is recorded: the call itself, not those it makes for its content, which are
\* told telemetry: false.
Recorded(way) == << KindOf(way) >>

\* An agent opens a ref; the record is written when it has its content.
OpenRef(a, ref, way, now) ==
  /\ calls < MaxCalls /\ opening[a] = Nothing
  /\ deeds' = deeds \cup {[n |-> calls, by |-> a, at |-> now, ref |-> ref,
                           kind |-> KindOf(way)]}
  /\ opening' = [opening EXCEPT ![a] =
       [kinds |-> Recorded(way), call |-> calls, ref |-> ref, now |-> now,
        search |-> 0, rank |-> 0]]
  /\ calls' = calls + 1
  /\ UNCHANGED << searches, follows, pruned, proposed, shown >>

\* The newest searches of the session up to now, within the window.
Recent(a, table, now) ==
  LET mine == {s \in table : s.by = a /\ s.at >= now - Window /\ s.at <= now}
  IN {some \in SUBSET mine :
        /\ Cardinality(some) = Min({SearchLimit, Cardinality(mine)})
        /\ \A x \in some, y \in mine \ some : x.at >= y.at}

\* Those that showed the ref, the newest of them.
Sources(recent, ref) ==
  LET hits == {s \in recent : Place(s.refs, ref) # {}}
  IN {s \in hits : \A t \in hits : t.at <= s.at}

Attribute(a) ==
  LET open == opening[a]
  IN /\ open.kinds # << >> /\ open.search = 0
     /\ \E left \in PrunedTables(a, open.now) :
          /\ searches' = left[1] /\ follows' = left[2]
          /\ \E recent \in Recent(a, left[1], open.now) :
               LET found == Sources(recent, open.ref)
               IN \/ /\ found = {}
                     /\ opening' = [opening EXCEPT ![a] = Nothing]
                  \/ \E s \in found :
                       opening' = [opening EXCEPT
                                     ![a].search = s.id,
                                     ![a].rank = Min(Place(s.refs, open.ref))]
     /\ pruned' = LastPruned(a, open.now)
     /\ UNCHANGED << proposed, shown, deeds, calls >>

\* The row is refused, in silence, when its search has gone.  It is one for each
\* thing recorded of a call.
WriteFollow(a) ==
  LET open == opening[a]
      row == [call |-> open.call, nth |-> Len(open.kinds), at |-> open.now,
              search |-> open.search, ref |-> open.ref, rank |-> open.rank,
              kind |-> Head(open.kinds)]
  IN /\ open.search # 0
     /\ follows' = IF \E s \in searches : s.id = open.search
                   THEN follows \cup {row} ELSE follows
     /\ opening' = [opening EXCEPT ![a] = IF Len(open.kinds) = 1 THEN Nothing
                      ELSE [open EXCEPT !.kinds = Tail(@), !.search = 0, !.rank = 0]]
     /\ UNCHANGED << searches, pruned, proposed, shown, deeds, calls >>

----------------------------------------------------------------------------
\* Follows with their searches, of the time that a harvest looks at.
Pairs(now) ==
  {p \in searches \X follows :
     /\ p[2].search = p[1].id
     /\ p[1].at \in (now - Lookback)..now /\ p[2].at \in (now - Lookback)..now}

GroupOf(p) ==
  [query |-> p[1].query, ref |-> p[2].ref, rank |-> p[2].rank, kind |-> p[2].kind]

\* The rows of a harvest: groups of follows with the query of their search.
Group(now, g) ==
  LET rows == {p \in Pairs(now) : GroupOf(p) = g}
  IN [group |-> g, rows |-> rows, count |-> Cardinality(rows)]

Groups(now) == {Group(now, GroupOf(p)) : p \in Pairs(now)}

Samples(groups) ==
  {s \in SUBSET groups :
     /\ Cardinality(s) = Min({MaxRows, Cardinality(groups)})
     /\ \A x \in s, y \in groups \ s :
          x.count > y.count \/ (x.count = y.count /\ x.group.rank <= y.group.rank)}

\* The groups of a query and a ref summed up: no row is in two of them.
Of(sample, query, ref) == {x \in sample : x.group.query = query /\ x.group.ref = ref}

SumOf(query, ref, groups) ==
  [query |-> query, ref |-> ref,
   rank |-> Min({x.group.rank : x \in groups}),
   count |-> Cardinality(UNION {x.rows : x \in groups}),
   kinds |-> {x.group.kind : x \in groups}]

\* What was opened after a query.
Candidates(sample) ==
  {SumOf(y.group.query, y.group.ref, Of(sample, y.group.query, y.group.ref)) : y \in sample}

\* One for each query: opened most often, then ranked best.
Harvest(now) ==
  /\ \E sample \in Samples(Groups(now)) :
       LET all == Candidates(sample)
           best(c) == \A d \in {x \in all : x.query = c.query} :
                        c.count > d.count \/ (c.count = d.count /\ c.rank <= d.rank)
       IN proposed' \in {p \in SUBSET {c \in all : best(c)} :
                           \A q \in {c.query : c \in all} :
                             Cardinality({c \in p : c.query = q}) = 1}
  /\ UNCHANGED << searches, follows, pruned, opening, shown, deeds, calls >>

Next ==
  \/ \E a \in Agents, now \in Times :
       \/ \E query \in Queries, refs \in Results : Search(a, query, refs, now)
       \/ \E ref \in RefsShown, way \in Ways : OpenRef(a, ref, way, now)
  \/ \E a \in Agents : Attribute(a) \/ WriteFollow(a)
  \/ \E now \in Times : Harvest(now)

Spec == Init /\ [][Next]_vars

----------------------------------------------------------------------------
\* The search s of a proposal's query led to the deed d, ...
Led(s, d, c) ==
  /\ s.by = d.by /\ s.query = c.query /\ Place(s.refs, c.ref) # {}
  /\ s.at \in (d.at - Window)..d.at

\* ... as one must have to each that the proposal tells of.
LedTo(c) ==
  {d \in deeds : d.ref = c.ref /\ d.kind \in c.kinds /\ \E s \in shown : Led(s, d, c)}

\* A proposed scenario says no more than what happened: as many openings of the ref as
\* it counts, of the kinds it names, each after a search of that query by the same
\* session that showed the ref, and one that showed it at the rank it names; whatever
\* was pruned between, and however the clocks of the callers go.
ProposalsHappened ==
  \A c \in proposed :
    /\ Cardinality(LedTo(c)) >= c.count
    /\ \E d \in LedTo(c), s \in shown : Led(s, d, c) /\ c.rank \in Place(s.refs, c.ref)
    /\ \A k \in c.kinds : \E d \in LedTo(c) : d.kind = k

\* A record that is kept of a deed, and the search that it came of.
Tells(d, call, ref, kind, at) == d.n = call /\ d.ref = ref /\ d.kind = kind /\ d.at = at

CameOf(d, search, ref, rank) ==
  \E s \in shown : /\ s.id = search /\ s.by = d.by /\ s.at \in (d.at - Window)..d.at
                   /\ rank \in Place(s.refs, ref)

\* Searches and deeds are told apart by their calls.
CallsInv ==
  /\ calls \in Nat /\ IsFiniteSet(deeds) /\ searches \subseteq shown
  /\ \A s \in shown : s.id \in 1..calls /\ s.at \in Int
  /\ \A s, t \in shown : s.id = t.id => s = t
  /\ \A d \in deeds : d.n \in 0..(calls - 1) /\ d.at \in Int
  /\ \A d, e \in deeds : d.n = e.n => d = e
  /\ \A c \in proposed : c.count \in Nat

\* What an agent is about to record it did, and has not recorded yet.
OpeningInv ==
  /\ DOMAIN opening = Agents
  /\ \A a \in Agents : opening[a] # Nothing =>
       /\ {"search", "rank"} \subseteq DOMAIN opening[a]
       /\ Len(opening[a].kinds) = 1
       /\ \A f \in follows : f.call # opening[a].call
       /\ \E d \in deeds :
            /\ d.by = a
            /\ Tells(d, opening[a].call, opening[a].ref, opening[a].kinds[1], opening[a].now)
            /\ opening[a].search # 0 =>
                 CameOf(d, opening[a].search, opening[a].ref, opening[a].rank)

\* What was recorded was done, and recorded once.
FollowsInv ==
  /\ \A f, g \in follows : f.call = g.call => f = g
  /\ \A f \in follows : \E d \in deeds :
       Tells(d, f.call, f.ref, f.kind, f.at) /\ CameOf(d, f.search, f.ref, f.rank)

\* What every step keeps.
TelemetryInv == CallsInv /\ OpeningInv /\ FollowsInv /\ ProposalsHappened
=============================================================================
