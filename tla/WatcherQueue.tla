---------------------------- MODULE WatcherQueue ----------------------------
(***************************************************************************)
(* persistWatcherObservations (packages/core/src/index.ts): watcher specs  *)
(* are judged against the clock, and each leaves an observation and, when  *)
(* it asks for attention, an item in the attention queue.  A run is one    *)
(* transaction, whichever process makes it; a spec that mutates fails it   *)
(* and changes nothing.  The two tables are read separately.               *)
(***************************************************************************)
EXTENDS Integers, Sequences, SequencesExt

CONSTANTS WatchIds, Targets,
          Ttl, StaleAfter,     \* ttlSeconds and staleAfterSeconds of the specs
          MaxTime, MaxPersists \* bounds on the clock and on the runs

VARIABLES
  clock,
  watcherSpecs,        \* the target of each watch, NoTarget if it has no row
  observations,        \* watcher_observations
  attention,           \* attention_queue, its watcher items
  persists             \* runs so far

vars == << clock, watcherSpecs, observations, attention, persists >>

NoTarget == "no target"

\* A spec: woken if what was observed answers its kind, sure if its confidence
\* is half or more, seen at its last observation.
Specs ==
  [watch : WatchIds, target : Targets, woken : BOOLEAN, sure : BOOLEAN, seen : 0 .. MaxTime]

Init ==
  /\ clock = 0 /\ persists = 0
  /\ watcherSpecs = [w \in WatchIds |-> NoTarget]
  /\ observations = {} /\ attention = {}

\* The specs are created at time 0.
Status(spec, now) ==
  CASE now >= Ttl -> "expired"
    [] now < Ttl /\ ~spec.sure -> "low_confidence"
    [] now < Ttl /\ spec.sure /\ spec.woken -> "triggered"
    [] OTHER -> IF now - spec.seen >= StaleAfter THEN "stale" ELSE "active"

SamePair(a, b) == a.watch = b.watch /\ a.target = b.target

\* What identifies an item: the watcher, its status, and its tool call, which
\* carries the spec.
Item(row) == [watch |-> row.watch, target |-> row.target, status |-> row.status,
              spec |-> row.spec]

\* A slip: only the item that is about to be written is taken out.
OtherItems(items, row) == {q \in items : q # Item(row)}

\* The items of the target whose source refs name the watcher.
OfOthers(items, row) == {q \in items : ~SamePair(q, row)}

Calls(row) == IF row.status \in {"active", "expired"} THEN {} ELSE {Item(row)}

\* One spec of a run.
Observe(tables, spec) ==
  LET row == [watch |-> spec.watch, target |-> spec.target,
              status |-> Status(spec, clock), spec |-> spec]
  IN [specs |-> [tables.specs EXCEPT ![spec.watch] = spec.target],
      observations |-> {o \in tables.observations : ~SamePair(o, row)} \cup {row},
      attention |-> OfOthers(tables.attention, row) \cup Calls(row)]

\* The tables when so many of the specs have been observed.
Observed(given) ==
  LET tables[n \in 0 .. Len(given)] ==
        IF n = 0 THEN [specs |-> watcherSpecs, observations |-> observations,
                       attention |-> attention]
        ELSE Observe(tables[n - 1], given[n])
  IN tables

Persist(given) ==
  /\ persists < MaxPersists
  /\ persists' = persists + 1
  /\ LET after == Observed(given)[Len(given)]
     IN /\ watcherSpecs' = after.specs
        /\ observations' = after.observations
        /\ attention' = after.attention
  /\ UNCHANGED clock

TimePasses ==
  /\ clock < MaxTime
  /\ clock' = clock + 1
  /\ UNCHANGED << watcherSpecs, observations, attention, persists >>

Next ==
  \/ TimePasses
  \/ \E given \in BoundedSeq({s \in Specs : s.seen <= clock}, 2) : Persist(given)

Spec == Init /\ [][Next]_vars

----------------------------------------------------------------------------
\* The queue asks exactly for what the observations say, of which there is one for
\* each pair of a watcher and its target, and one for each watcher that has a row.
Follows(specs, observed, queue) ==
  /\ queue = UNION {Calls(o) : o \in observed}
  /\ \A o, p \in observed : SamePair(o, p) => o = p
  /\ \A w \in WatchIds : specs[w] # NoTarget =>
       \E o \in observed : o.watch = w /\ o.target = specs[w]

\* After any runs, with specs that come back under another status, another
\* content or another target, the queue asks exactly for what the observations
\* say: one item for each that is triggered, stale or unsure, with its status and
\* its spec, and no item that an observation has since answered or let expire.
QueueFollowsObservations == Follows(watcherSpecs, observations, attention)

\* What every step keeps.
QueueInv ==
  /\ watcherSpecs = [w \in WatchIds |-> watcherSpecs[w]]
  /\ QueueFollowsObservations
=============================================================================
