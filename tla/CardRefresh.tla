----------------------------- MODULE CardRefresh -----------------------------
(***************************************************************************)
(* The prepared cards: what an index run makes of the threads it has read  *)
(* again, what the refresh of everything makes of threads and of Claude    *)
(* sessions, and the state a card is given.                                *)
(* (packages/core/src/index.ts, indexCodexSessions 3990-4030,              *)
(* materializePreparedCards 7117-7514, preparedLifecycleFromMetadata)      *)
(*                                                                         *)
(* A run writes the sessions of the files it reads, then the leaves of     *)
(* each thread, then it reads plans, renames, touched files and open       *)
(* attention of all its threads into a lookup cache, and then it makes the *)
(* card of each.  Leaves and cards are each written in a transaction of    *)
(* their own and marked on the thread's file in another; the ranges leaves *)
(* are of are read before their transaction begins.  Runs of several       *)
(* processes interleave between transactions, watchers change the          *)
(* attention queue at any time, and a run may die anywhere.                *)
(***************************************************************************)
EXTENDS Naturals

CONSTANTS CardThreads, Indexers, Claudes,
          NoCard,
          Signals,     \* the lifecycle signals a session's metadata may hold
          MaxTexts,    \* bound: times a thread's file is read with a new text
          MaxWatch     \* bound: changes of the attention queue

VARIABLES session,     \* codex_sessions, its plans and ranges: the text they are
                       \* of, its signals, the coverage of its ranges, and the
                       \* attention there was at the time
          leaves,      \* summary_leaves: the text they are of and their coverage
          attention,   \* attention_queue, as a number of changes
          card,        \* prepared_cards of the threads
          by,          \* codex_source_files: the marks of the leaves and of the
                       \* card, as the set of the run that made it; and so who
                       \* wrote the session, and since then leaves and card
          claude,      \* claude_sessions: a text, 0 when there is none
          claudeCard,  \* their prepared_cards
          run,         \* what each index run is doing
          refreshed    \* Claude sessions that no run changed since a refresh

vars == << session, leaves, attention, card, by, claude, claudeCard, run, refreshed >>

-----------------------------------------------------------------------------
(* The state of a card.                                                    *)

(* Signals are found in the status, the blocker, the next action, the      *)
(* closeout and the plan; the first that is there names the state.         *)
Open == << "dirty_worktree_handoff", "waiting_approval", "blocked_missing_info",
           "needs_resume", "watching_external_check", "ready_for_review" >>

AllSignals == { "completed" } \cup { Open[i] : i \in DOMAIN Open }

(* A blocker is not one when what is waited for has a name of its own.     *)
Matched(signals) ==
  IF signals \cap { "dirty_worktree_handoff", "waiting_approval",
                    "watching_external_check" } # {}
  THEN signals \ { "blocked_missing_info" } ELSE signals

First(matched) ==
  Open[CHOOSE i \in DOMAIN Open :
         Open[i] \in matched /\ \A j \in 1 .. i - 1 : Open[j] \notin matched]

(* preparedLifecycleFromMetadata: an end and something open contradict     *)
(* each other, and an end needs evidence that is ready.                    *)
Lifecycle(signals, evidence) ==
  LET matched == Matched(signals) IN
  CASE "completed" \in matched /\ matched # { "completed" } -> "unknown_lifecycle"
    [] matched = { "completed" } -> IF evidence = "ready" THEN "completed" ELSE evidence
    [] matched = {} -> evidence
    [] OTHER -> First(matched)

(* buildPreparedCardDraft: what the leaves are worth as evidence; partial  *)
(* stands for unknown and stale ones and for a session without metadata.   *)
Evidence(t) == IF leaves[t].coverage = "partial" THEN "stale_or_partial" ELSE "ready"

-----------------------------------------------------------------------------
(* The card of a thread: no leaves, no card.                               *)

Lookup(t) == [plan |-> session[t].text, attention |-> attention[t]]

Draft(t, cache) ==
  IF leaves[t].coverage = "none" THEN NoCard
  ELSE [text |-> session[t].text, leaf |-> leaves[t].text,
        plan |-> cache.plan, attention |-> cache.attention,
        state |-> Lifecycle(session[t].signals, Evidence(t))]

States == AllSignals \cup { "unknown_lifecycle", "ready", "stale_or_partial" }
Drafts == [text : Nat, leaf : Nat, plan : Nat, attention : Nat, state : States]

Coverages == { "none", "ok", "partial" }
NoLeaves == [text |-> 0, coverage |-> "none"]

Idle == [at |-> "idle", todo |-> {}, left |-> {}, on |-> {}, seen |-> NoLeaves,
         cache |-> << >>]

WrittenBy(p) ==
  [session |-> p, leaves |-> {}, card |-> {}, leafMark |-> {}, cardMark |-> {}]

Init ==
  /\ session = [t \in CardThreads |->
                  [text |-> 0, signals |-> {}, coverage |-> "none", since |-> 0]]
  /\ leaves = [t \in CardThreads |-> NoLeaves]
  /\ attention = [t \in CardThreads |-> 0]
  /\ card = [t \in CardThreads |-> NoCard]
  /\ by = [t \in CardThreads |-> WrittenBy({})]
  /\ refreshed = {}
  /\ claude = [c \in Claudes |-> 0]
  /\ claudeCard = [c \in Claudes |-> 0]
  /\ run = [p \in Indexers |-> Idle]

\* sourceFileExtractorStateIsCurrent: the file is not read again as it is.
Current(t) == by[t].leafMark # {} /\ by[t].cardMark # {}

-----------------------------------------------------------------------------
(* An index run writes its sessions: a transaction per file, with which    *)
(* both marks of the file go.  A thread has one file, and a run reads each *)
(* file once.                                                              *)

\* Slip: the marks of the file are left.
WrittenAndMarked(p, t) ==
  [by EXCEPT ![t].session = {p}, ![t].leaves = {}, ![t].card = {}]

Written(p, t) == [by EXCEPT ![t] = WrittenBy({p})]

Writes(p, t) ==
  /\ run[p].at \in { "idle", "upsert" } /\ t \notin run[p].todo
  /\ run' = [run EXCEPT ![p] = [@ EXCEPT !.at = "upsert",
       !.todo = run[p].todo \cup {t}, !.left = run[p].left \cup {t}]]
  /\ by' = Written(p, t)

NewText(t, signals, coverage) ==
  /\ session[t].text < MaxTexts
  /\ session' = [session EXCEPT ![t] =
       [text |-> @.text + 1, signals |-> signals, coverage |-> coverage,
        since |-> attention[t]]]

Cleared(t) ==
  /\ leaves' = [leaves EXCEPT ![t] = NoLeaves]
  /\ card' = [card EXCEPT ![t] = NoCard]

(* upsertSession: the leaves and the card of the thread go.                *)
Upsert(p, t, signals, coverage) ==
  /\ NewText(t, signals, coverage)
  /\ Cleared(t)
  /\ Writes(p, t)
  /\ UNCHANGED << attention, claude, claudeCard, refreshed >>

(* appendSessionDelta, of a file that was current when it was looked at,   *)
(* if it is not any more: they stay.                                       *)
Append(p, t, signals, coverage) ==
  /\ session[t].text > 0
  /\ NewText(t, signals, coverage)
  /\ Writes(p, t)
  /\ UNCHANGED << leaves, attention, card, claude, claudeCard, refreshed >>

(* upsertSession, of a file that is not current, with the text it had.     *)
UpsertAgain(p, t) ==
  /\ session[t].text > 0 /\ ~Current(t)
  /\ session' = [session EXCEPT ![t].since = attention[t]]
  /\ Cleared(t)
  /\ Writes(p, t)
  /\ UNCHANGED << attention, claude, claudeCard, refreshed >>

-----------------------------------------------------------------------------
(* The leaves, thread by thread.                                           *)

Goes(p, step) == run' = [run EXCEPT ![p].at = step]

LeavesOf(t) == [text |-> session[t].text, coverage |-> session[t].coverage]

(* getPreparedSourceRangesForSummaryMaterialization, in no transaction.    *)
ReadRanges(p, t) ==
  /\ run[p].at \in { "upsert", "leaves" } /\ t \in run[p].left
  /\ run' = [run EXCEPT ![p] = [@ EXCEPT !.at = "ranges", !.on = {t}, !.seen = LeavesOf(t)]]
  /\ UNCHANGED << session, leaves, attention, card, by, claude, claudeCard, refreshed >>

(* materializeSummaryLeaves: the transaction.                              *)
MakeLeaves(p, t) ==
  /\ run[p].at = "ranges" /\ t \in run[p].on
  /\ leaves' = [leaves EXCEPT ![t] = run[p].seen]
  /\ by' = [by EXCEPT ![t].leaves = {p}]
  /\ Goes(p, "leafMark")
  /\ UNCHANGED << session, attention, card, claude, claudeCard, refreshed >>

LeavesDone(p, t) ==
  run' = [run EXCEPT ![p] = [@ EXCEPT !.at = "leaves",
       !.left = run[p].left \ {t}, !.on = {}, !.seen = NoLeaves]]

(* markSourceFilesSummaryLeafCurrent.                                      *)
MarkLeaves(p, t) ==
  /\ run[p].at = "leafMark" /\ t \in run[p].on
  /\ by' = [by EXCEPT ![t].leafMark = {p}]
  /\ LeavesDone(p, t)
  /\ UNCHANGED << session, leaves, attention, card, claude, claudeCard, refreshed >>

LeavesFail(p, t) ==
  /\ run[p].at \in { "ranges", "leafMark" } /\ t \in run[p].on
  /\ LeavesDone(p, t)
  /\ UNCHANGED << session, leaves, attention, card, by, claude, claudeCard, refreshed >>

-----------------------------------------------------------------------------
(* The cards, thread by thread, from one lookup.                           *)

(* buildPreparedCardWorkStateLookupCache.                                  *)
BuildLookup(p) ==
  /\ run[p].at = "leaves" /\ run[p].left = {}
  /\ run' = [run EXCEPT ![p] = [@ EXCEPT !.at = "cards",
                                  !.cache = [t \in run[p].todo |-> Lookup(t)]]]
  /\ UNCHANGED << session, leaves, attention, card, by, claude, claudeCard, refreshed >>

(* materializePreparedCardsForTarget, and then the mark of the card, also  *)
(* of a thread whose leaves failed.                                        *)
MakeCard(p, t) ==
  /\ run[p].at = "cards" /\ t \in run[p].todo
  /\ card' = [card EXCEPT ![t] = Draft(t, run[p].cache[t])]
  /\ by' = [by EXCEPT ![t].card = {p}]
  /\ run' = [run EXCEPT ![p] = [@ EXCEPT !.at = "cardMark", !.on = {t}]]
  /\ UNCHANGED << session, leaves, attention, claude, claudeCard, refreshed >>

CardDone(p, t) ==
  LET rest == run[p].todo \ {t} IN
  run' = [run EXCEPT ![p] = IF rest = {} THEN Idle
            ELSE [@ EXCEPT !.at = "cards", !.todo = rest, !.on = {}]]

MarkCard(p, t) ==
  /\ run[p].at = "cardMark" /\ t \in run[p].on
  /\ by' = [by EXCEPT ![t].cardMark = {p}]
  /\ CardDone(p, t)
  /\ UNCHANGED << session, leaves, attention, card, claude, claudeCard, refreshed >>

CardFails(p, t) ==
  /\ \/ run[p].at = "cards" /\ t \in run[p].todo
     \/ run[p].at = "cardMark" /\ t \in run[p].on
  /\ CardDone(p, t)
  /\ UNCHANGED << session, leaves, attention, card, by, claude, claudeCard, refreshed >>

Dies(p) ==
  /\ run[p].at # "idle"
  /\ run' = [run EXCEPT ![p] = Idle]
  /\ UNCHANGED << session, leaves, attention, card, by, claude, claudeCard, refreshed >>

-----------------------------------------------------------------------------
(* The refresh of everything: the threads are listed, and then the cards   *)
(* of those and of all Claude sessions are made in one transaction.        *)
ListThreads(p) ==
  /\ run[p].at = "idle"
  /\ run' = [run EXCEPT ![p] = [Idle EXCEPT
       !.at = "refresh",
       !.todo = { t \in CardThreads : leaves[t].coverage # "none" \/ card[t] # NoCard }]]
  /\ UNCHANGED << session, leaves, attention, card, by, claude, claudeCard, refreshed >>

(* A Claude session that is gone loses its card.                           *)
Refresh(p) ==
  /\ run[p].at = "refresh"
  /\ card' = [t \in CardThreads |->
       IF t \in run[p].todo THEN Draft(t, Lookup(t)) ELSE card[t]]
  /\ claudeCard' = claude
  /\ refreshed' = Claudes
  /\ run' = [run EXCEPT ![p] = Idle]
  /\ UNCHANGED << session, leaves, attention, by, claude >>

-----------------------------------------------------------------------------
(* What others change.                                                     *)

Watch(t) ==
  /\ attention[t] < MaxWatch
  /\ attention' = [attention EXCEPT ![t] = @ + 1]
  /\ UNCHANGED << session, leaves, card, by, claude, claudeCard, run, refreshed >>

IndexClaude(c, text) ==
  /\ claude[c] # text
  /\ claude' = [claude EXCEPT ![c] = text]
  /\ refreshed' = refreshed \ {c}
  /\ UNCHANGED << session, leaves, attention, card, by, claudeCard, run >>

Next ==
  \/ \E p \in Indexers :
       \/ \E t \in CardThreads :
            \/ \E signals \in SUBSET Signals, coverage \in Coverages :
                 Upsert(p, t, signals, coverage) \/ Append(p, t, signals, coverage)
            \/ UpsertAgain(p, t)
            \/ ReadRanges(p, t) \/ MakeLeaves(p, t) \/ MarkLeaves(p, t) \/ LeavesFail(p, t)
            \/ MakeCard(p, t) \/ MarkCard(p, t) \/ CardFails(p, t)
       \/ BuildLookup(p) \/ Dies(p) \/ ListThreads(p) \/ Refresh(p)
  \/ \E t \in CardThreads : Watch(t)
  \/ \E c \in Claudes, text \in 0 .. 1 : IndexClaude(c, text)

Spec == Init /\ [][Next]_vars

-----------------------------------------------------------------------------
\* A run that did not read the file last has written of the thread since.
Late(t) == \E what \in DOMAIN by[t] : by[t][what] \notin { {}, by[t].session }

\* The leaves and the card there are were written by the run that did.
Remade(t) ==
  by[t].session # {} /\ by[t].leaves = by[t].session /\ by[t].card = by[t].session

(* Once both marks of its file are set, a thread's card is of one text     *)
(* throughout, its session's, its leaves' and its plan's, and knows what   *)
(* needed attention when that text was read; it calls a thread completed   *)
(* only if nothing is open and the evidence is ready, and ready only if    *)
(* nothing was said.  So it is under overlapping runs as well: a run that  *)
(* read the file earlier may still write leaves, a card and marks of the   *)
(* older text, and the run that read it last then writes its own over      *)
(* them.  Left out is the thread such an earlier run has written leaves, a *)
(* card or a mark of, while what is there is not, or no longer, the leaves *)
(* and the card of the run that read it last: nothing in the code notices. *)
Whole(t) ==
  LET s == session[t] c == card[t] IN
  /\ (c = NoCard) <=> (leaves[t].coverage = "none")
  /\ c # NoCard =>
       /\ { c.text, c.leaf, c.plan } = { s.text }
       /\ c.attention >= s.since
       /\ c.state = "completed" => s.signals = { "completed" } /\ Evidence(t) = "ready"
       /\ c.state = "ready" => s.signals = {}

CardsAreWhole ==
  /\ \A t \in CardThreads : Current(t) /\ (Late(t) => Remade(t)) => Whole(t)
  /\ \A c \in Claudes \cap refreshed : claudeCard[c] = claude[c]

-----------------------------------------------------------------------------
(* What every step keeps.                                                  *)

Shaped(r) ==
  /\ r = [f \in { "at", "todo", "left", "on", "seen", "cache" } |-> r[f]]
  /\ r.at \in { "idle", "upsert", "leaves", "ranges", "leafMark", "cards", "cardMark",
                 "refresh" }
  /\ r.todo \subseteq CardThreads
  /\ r.left \subseteq r.todo /\ r.on \subseteq r.todo
  /\ r.seen \in [text : Nat, coverage : Coverages]
  /\ \A s, t \in r.on : s = t
  /\ r.at = "idle" => r.todo = {}
  /\ r.at \in { "cards", "cardMark" } => r.left = {}

Writers == [session : SUBSET Indexers, leaves : SUBSET Indexers, card : SUBSET Indexers,
            leafMark : SUBSET Indexers, cardMark : SUBSET Indexers]

TypeInv ==
  /\ session \in [CardThreads ->
       [text : Nat, signals : SUBSET Signals, coverage : Coverages, since : Nat]]
  /\ leaves \in [CardThreads -> [text : Nat, coverage : Coverages]]
  /\ attention \in [CardThreads -> Nat]
  /\ card = [t \in CardThreads |-> card[t]]
  /\ by \in [CardThreads -> Writers]
  /\ claude \in [Claudes -> 0 .. 1] /\ claudeCard \in [Claudes -> 0 .. 1]
  /\ refreshed \subseteq Claudes
  /\ run = [p \in Indexers |-> run[p]] /\ \A p \in Indexers : Shaped(run[p])

\* What the run that read a thread's file last knows and has done.
Grounded(p, t) ==
  LET r == run[p] IN
  /\ r.at \in { "upsert", "leaves", "ranges", "leafMark" } => by[t].card # {p}
  /\ r.at = "ranges" /\ t \in r.on => r.seen = LeavesOf(t)
  /\ r.at = "leafMark" /\ t \in r.on => by[t].leaves # {}
  /\ r.at \in { "cards", "cardMark" } =>
       /\ r.cache[t].plan = session[t].text
       /\ r.cache[t].attention \in Nat /\ r.cache[t].attention >= session[t].since
  /\ r.at = "cardMark" /\ t \in r.on => by[t].card # {}

RunsInv ==
  \A p \in Indexers, t \in CardThreads :
    run[p].at # "refresh" /\ t \in run[p].todo /\ by[t].session = {p} => Grounded(p, t)

\* What the thread holds, by who wrote it.
Held(t) ==
  /\ by[t].session # {} /\ by[t].leaves = by[t].session => leaves[t] = LeavesOf(t)
  /\ Remade(t) => Whole(t)
  /\ by[t].leafMark # {} /\ by[t].leafMark = by[t].session => by[t].leaves # {}
  /\ by[t].cardMark # {} /\ by[t].cardMark = by[t].session => by[t].card # {}
  /\ session[t].since <= attention[t]

CardInv ==
  /\ TypeInv /\ RunsInv
  /\ \A t \in CardThreads : Held(t)
  /\ \A c \in Claudes \cap refreshed : claudeCard[c] = claude[c]

=============================================================================
