---------------------------- MODULE SessionDiff ----------------------------
(***************************************************************************)
(* Session diff (packages/core/src/index.ts): what changed in the derived  *)
(* tables since a cursor the caller holds.                                 *)
(*                                                                         *)
(* Processes commit transactions to the tables; each stamps the rows it    *)
(* makes with one mutation timestamp.  A diff takes a snapshot of counts   *)
(* and digests, then reads the tables one SELECT after the other, outside  *)
(* a transaction: other processes commit between any two.  It answers with *)
(* a page of rows and a cursor, which holds the position it has reached    *)
(* and the snapshot the next diff compares with.                           *)
(*                                                                         *)
(* A file is the sequence of its lines, a thread is its file, and a hash   *)
(* is what was hashed.  One leaf stands for the leaves of a thread.  The   *)
(* limit and the token budget of a diff are one bound on its page.         *)
(***************************************************************************)
EXTENDS Integers, Sequences, FiniteSets, FiniteSetsExt

CONSTANTS Files,        \* 1 .. n: their order is that of the keys
          Asked,        \* the threads a caller asks about by their id
          Lines,        \* what a line may be
          UnsafeLines,  \* the lines whose rows are not public safe
          Watches,      \* watch ids, 1 .. n
          NoRow,        \* no row; also no row in codex_source_files
          NoCursor,     \* the caller has no cursor
          Clock,        \* what Date.now() may say
          ScanLimit,    \* rows a collector reads
          PageSizes,    \* the limits a caller gives
          Shared,       \* other processes commit during a diff
          MaxLines, MaxCommits   \* bounds on the files and on the commits

ASSUME ClockAssumption == Clock \subseteq Nat \ {0}
ASSUME FilesAssumption ==
  /\ Files \subseteq Nat /\ IsFiniteSet(Files) /\ Asked \subseteq Files
  /\ Lines \subseteq Nat /\ Watches \subseteq Nat
ASSUME SizesAssumption ==
  ScanLimit \in Nat \ {0} /\ PageSizes \subseteq Nat \ {0} /\ MaxLines \in Nat

ASSUME NoRowAssumption == NoRow \notin [hash : Seq(Lines), epoch : Seq(Lines), generation : Nat]

VARIABLES
  source,       \* codex_source_files: hash, epoch, append generation
  destructive,  \* destructive_generation
  ranges,       \* prepared_source_ranges of a file: a stamp for each line
  leaf,         \* its row in summary_leaves
  card,         \* its rows in prepared_cards and prepared_inbox_items
  observations, \* watcher_observations
  commits,
  pc,
  scope,        \* what the diff is about: its files, and whether it is global
  page,         \* its limit
  snapshot,     \* the snapshot it took
  watermark,    \* the position it starts from
  got,          \* what its collectors returned
  cursor,       \* the cursor the caller holds
  more,         \* the last answer said hasMore
  told,         \* history: an answer of this chain said stale
  anew,         \* history: its thread began anew from the text it had begun with
  issued,       \* history: the latest stamp ever given to a row
  torn,         \* history: this chain saw a commit during a diff, or a stamp
                \* that is not later than one given to a row since deleted
  base,         \* history: the rows there were when the diff began
  missing,      \* history: those an answer that said no more has left out
  pages         \* history: the rows this chain has delivered

dbVars      == << source, destructive, ranges, leaf, card, observations >>
callVars    == << scope, page, snapshot, watermark, got >>
historyVars == << told, anew, base, missing, pages >>
vars == << dbVars, commits, issued, pc, callVars, cursor, more, torn, historyVars >>

----------------------------------------------------------------------------
(* Rows and positions.                                                     *)

\* The kinds, in the order localeCompare gives their names.
PreparedCard == 1
InboxItem    == 2
SourceRange  == 3
SummaryLeaf  == 4
Observation  == 5

RangeRows(S) ==
  UNION {{[kind |-> SourceRange, key |-> << f, i, source[f].hash[i] >>,
           at |-> ranges[f][i], safe |-> source[f].hash[i] \notin UnsafeLines] :
            i \in 1 .. Len(ranges[f])} : f \in S}

LeafRows(S) ==
  {[kind |-> SummaryLeaf, key |-> << f >> \o leaf[f].body, at |-> leaf[f].at,
    safe |-> TRUE] : f \in {f \in S : leaf[f] # NoRow}}

CardRows(S, kind) ==
  {[kind |-> kind, key |-> << f, card[f].watched >> \o card[f].body,
    at |-> card[f].at, safe |-> TRUE] : f \in {f \in S : card[f] # NoRow}}

ObservationRows(S) ==
  {[kind |-> Observation, key |-> << o.watch, o.target, o.seen >>,
    at |-> o.at, safe |-> TRUE] : o \in {o \in observations : o.target \in S}}

Table(kind, S) ==
  CASE kind = SourceRange -> RangeRows(S)
    [] kind = SummaryLeaf -> LeafRows(S)
    [] kind \in {PreparedCard, InboxItem} -> CardRows(S, kind)
    [] kind = Observation -> ObservationRows(S)

Rows(S) == UNION {Table(kind, S) : kind \in PreparedCard .. Observation}

\* compareSessionDiffWatermarks: by time, then kind, then key.
Position(x) == << x.at, x.kind >> \o x.key

Less(p, q) ==
  \E i \in 1 .. Len(q) :
     /\ \A j \in 1 .. i - 1 : j <= Len(p) /\ p[j] = q[j]
     /\ i > Len(p) \/ p[i] < q[i]

Before(x, y) == Less(Position(x), Position(y))

Start == [at |-> 0, kind |-> 0, key |-> << >>]

Watermark(row) == [at |-> row.at, kind |-> row.kind, key |-> row.key]

----------------------------------------------------------------------------
(* The writers.                                                            *)

Stamps == {row.at : row \in Rows(Files)}

\* A slip: a timestamp equal to the latest is let through.
SameInstantStamp(now) ==
  IF Stamps # {} /\ now < Max(Stamps) THEN Max(Stamps) + 1 ELSE now

MutationTimestamp(now) ==
  IF Stamps # {} /\ now <= Max(Stamps) THEN Max(Stamps) + 1 ELSE now

Commit ==
  /\ commits' = commits + 1
  /\ LET given == {row.at : row \in Rows(Files)' \ Rows(Files)}
     IN /\ issued' = Max(given \cup {issued})
        /\ torn' = (torn \/ pc # "idle" \/ \E at \in given : at <= issued)
  /\ base' = base \cap Rows(Files)'
  /\ UNCHANGED << pc, callVars, cursor, more, told, anew, missing, pages >>

\* The delta is appended: old ranges keep their stamps.
AppendDelta(f, line) ==
  /\ source[f] # NoRow /\ Len(source[f].hash) < MaxLines
  /\ \E now \in Clock :
       ranges' = [ranges EXCEPT ![f] = Append(@, MutationTimestamp(now))]
  /\ source' = [source EXCEPT ![f].hash = Append(@, line), ![f].generation = @ + 1]
  /\ UNCHANGED << destructive, leaf, card, observations >>

Texts == UNION {[1 .. n -> Lines] : n \in 1 .. MaxLines}

Extends(text, hash) == Len(text) > Len(hash) /\ SubSeq(text, 1, Len(hash)) = hash

Keeps(text, hash) == text = hash \/ Extends(text, hash)

\* A slip: a new history keeps the epoch of the old one.
LastingEpoch(f, text) ==
  IF source[f] # NoRow
  THEN [hash |-> text, epoch |-> source[f].epoch, generation |-> source[f].generation + 1]
  ELSE [hash |-> text, epoch |-> text, generation |-> 0]

NewSource(f, text) ==
  IF source[f] # NoRow /\ Extends(text, source[f].hash)
  THEN [hash |-> text, epoch |-> source[f].epoch, generation |-> source[f].generation + 1]
  ELSE [hash |-> text, epoch |-> text, generation |-> 0]

\* The file is parsed afresh: its ranges are new, its leaves go.
UpsertSession(f, text) ==
  /\ \E now \in Clock :
       ranges' = [ranges EXCEPT ![f] = [i \in 1 .. Len(text) |-> MutationTimestamp(now)]]
  /\ source' = [source EXCEPT ![f] = NewSource(f, text)]
  /\ destructive' = destructive +
       (IF source[f] # NoRow /\ source[f].hash # text /\ ~Extends(text, source[f].hash)
        THEN 1 ELSE 0)
  /\ leaf' = [leaf EXCEPT ![f] = NoRow]
  /\ UNCHANGED << card, observations >>

\* The card stays until cards are materialised.
ClearSourceFileIndex(f) ==
  /\ source[f] # NoRow
  /\ destructive' = destructive + 1
  /\ source' = [source EXCEPT ![f] = NoRow]
  /\ ranges' = [ranges EXCEPT ![f] = << >>]
  /\ leaf' = [leaf EXCEPT ![f] = NoRow]
  /\ UNCHANGED << card, observations >>

\* A row that did not change keeps its stamp.
Renewed(old, new) == IF old # NoRow /\ old = [new EXCEPT !.at = old.at] THEN old ELSE new

MaterializeSummaryLeaves(f) ==
  /\ \E now \in Clock :
       leaf' = [leaf EXCEPT ![f] =
                  IF ranges[f] = << >> THEN NoRow
                  ELSE Renewed(@, [body |-> source[f].hash, at |-> MutationTimestamp(now)])]
  /\ UNCHANGED << source, destructive, ranges, card, observations >>

Watched(f) == IF \E o \in observations : o.target = f THEN 1 ELSE 0

\* For one thread, or for all of them under one stamp.
MaterializePreparedCards(S) ==
  /\ \E now \in Clock :
       card' = [f \in Files |->
                  CASE f \notin S -> card[f]
                    [] f \in S /\ leaf[f] = NoRow -> NoRow
                    [] f \in S /\ leaf[f] # NoRow ->
                         Renewed(card[f], [body |-> leaf[f].body, watched |-> Watched(f),
                                           at |-> MutationTimestamp(now)])]
  /\ UNCHANGED << source, destructive, ranges, leaf, observations >>

\* The same observation keeps its stamp; another one replaces it.
PersistWatcherObservation(w, target, seen) ==
  /\ LET last == {o \in observations : o.watch = w /\ o.target = target}
         same == {o \in last : o.seen = seen}
     IN \E now \in Clock :
          observations' = (observations \ last) \cup
            (IF same # {} THEN same
             ELSE {[watch |-> w, target |-> target, seen |-> seen,
                    at |-> MutationTimestamp(now)]})
  /\ UNCHANGED << source, destructive, ranges, leaf, card >>

Write ==
  /\ commits < MaxCommits
  /\ pc # "idle" => Shared
  /\ \/ \E f \in Files, line \in Lines : AppendDelta(f, line)
     \/ \E f \in Files, text \in Texts : UpsertSession(f, text)
     \/ \E f \in Files : ClearSourceFileIndex(f)
     \/ \E f \in Files : MaterializeSummaryLeaves(f)
     \/ \E S \in {Files} \cup {{f} : f \in Files} : MaterializePreparedCards(S)
     \/ \E w \in Watches, f \in Files, seen \in 1 .. 2 : PersistWatcherObservation(w, f, seen)
  /\ Commit

----------------------------------------------------------------------------
(* The reader.                                                             *)

Tracked(S) == {f \in S : source[f] # NoRow}

Total(S, n(_)) == MapThenSumSet(n, S)

\* createSessionDiffSnapshot; the generation counts for a global diff only.
Snapshot(S) == LET T == Tracked(S.files) IN
  [files       |-> T,
   hashes      |-> [f \in T |-> source[f].hash],
   epochs      |-> [f \in T |-> source[f].epoch],
   generation  |-> Total(T, LAMBDA f : source[f].generation),
   bytes       |-> Total(T, LAMBDA f : Len(source[f].hash)),
   destructive |-> IF S.global THEN destructive ELSE 0,
   counts      |-> [kind \in PreparedCard .. Observation |-> Cardinality(Table(kind, S.files))]]

Fewer(old, new) ==
  \/ Cardinality(new.files) < Cardinality(old.files)
  \/ new.bytes < old.bytes
  \/ \E kind \in DOMAIN old.counts : new.counts[kind] < old.counts[kind]
  \/ new.destructive # old.destructive

FilesAdded(old, new) ==
  Cardinality(new.files) > Cardinality(old.files) /\ ~Fewer(old, new)

AppendShape(old, new) ==
  /\ ~Fewer(old, new)
  /\ new.files = old.files
  /\ new.epochs = old.epochs
  /\ new.generation > old.generation
  /\ new.bytes > old.bytes
  /\ new.counts[SourceRange] > old.counts[SourceRange]

Stale(old, new) ==
  \/ Fewer(old, new)
  \/ ~FilesAdded(old, new) /\ old.files # new.files
  \/ /\ old.hashes # new.hashes
     /\ ~FilesAdded(old, new)
     /\ ~AppendShape(old, new)

\* The thread began as it did, but what followed is not as it was.
BegunAnew(old, new) ==
  \E f \in old.files \cap new.files :
     /\ new.epochs[f] = old.epochs[f] /\ Keeps(new.hashes[f], old.epochs[f])
     /\ ~Keeps(new.hashes[f], old.hashes[f])

\* getSessionDiff up to its snapshot.  A cursor of another scope is invalid.
Ask(S, size, given) ==
  LET accepted == given # NoCursor /\ given.scope = S
  IN /\ pc = "idle"
     /\ pc' = "ranges"
     /\ scope' = S /\ page' = size /\ got' = {}
     /\ snapshot' = Snapshot(S)
     /\ watermark' = IF accepted THEN given.watermark ELSE Start
     /\ told' = (accepted /\ (told \/ Stale(given.snapshot, Snapshot(S))))
     /\ torn' = (accepted /\ torn)
     /\ anew' = (accepted /\ (anew \/ BegunAnew(given.snapshot, Snapshot(S))))
     /\ base' = {row \in Rows(S.files) : row.safe} /\ missing' = {}
     /\ pages' = IF accepted THEN pages ELSE << >>
     /\ UNCHANGED << dbVars, commits, issued, cursor, more >>

\* A slip: the row at the watermark is scanned again.
ScanFrom(row, wm) ==
  \/ wm.kind = 0 /\ row.at > wm.at
  \/ wm.kind # 0 /\ row.kind > wm.kind /\ row.at >= wm.at
  \/ wm.kind # 0 /\ row.kind < wm.kind /\ row.at > wm.at
  \/ wm.kind # 0 /\ row.kind = wm.kind /\ ~Less(<< row.at >> \o row.key, << wm.at >> \o wm.key)

\* sessionDiffScanWhere: the clause depends on how the kinds compare.
ScanAfter(row, wm) ==
  \/ wm.kind = 0 /\ row.at > wm.at
  \/ wm.kind # 0 /\ row.kind > wm.kind /\ row.at >= wm.at
  \/ wm.kind # 0 /\ row.kind < wm.kind /\ row.at > wm.at
  \/ wm.kind # 0 /\ row.kind = wm.kind /\ Less(<< wm.at >> \o wm.key, << row.at >> \o row.key)

\* How many of the rows come before this one.
Rank(row, rows) == Cardinality({other \in rows : Before(other, row)})

\* The first ScanLimit rows after the watermark, unsafe ones included.
Collect(kind) ==
  LET found == {row \in Table(kind, scope.files) : ScanAfter(row, watermark)}
  IN [rows      |-> {row \in found : Rank(row, found) < ScanLimit},
      exhausted |-> Cardinality(found) <= ScanLimit]

Read(from, kind, to) ==
  /\ pc = from
  /\ pc' = to
  /\ got' = got \cup {Collect(kind)}
  /\ UNCHANGED << dbVars, commits, issued, scope, page, snapshot, watermark, cursor, more,
                  torn, historyVars >>

Latest(rows)   == CHOOSE row \in rows : \A other \in rows : ~Before(row, other)
Earliest(rows) == CHOOSE row \in rows : \A other \in rows : ~Before(other, row)

ScanWatermarks(results) == {Watermark(Latest(r.rows)) : r \in {r \in results : r.rows # {}}}

\* The earliest point a collector that is not exhausted has reached.
Barriers(results) == ScanWatermarks({r \in results : ~r.exhausted})

Scanned(results) == UNION {r.rows : r \in results}

\* A slip: what lies beyond a collector's reach is offered too.
AllScanned(results) == {row \in Scanned(results) : row.safe}

Candidates(results) ==
  {row \in Scanned(results) :
     /\ row.safe
     /\ Barriers(results) # {} => ~Before(Earliest(Barriers(results)), row)}

Sorted(rows) == [i \in 1 .. Cardinality(rows) |-> CHOOSE row \in rows : Rank(row, rows) = i - 1]

Selected(results) == LET all == Candidates(results) IN
  {row \in all : Rank(row, all) < page}

HasMore(results) ==
  Barriers(results) # {} \/ Selected(results) # Candidates(results)

\* sessionDiffNextWatermark
NextWatermark(results) ==
  LET ends == IF Barriers(results) # {} THEN {Earliest(Barriers(results))}
              ELSE ScanWatermarks(results)
  IN CASE Selected(results) # {} -> Watermark(Latest(Selected(results)))
       [] Selected(results) = {} /\ ends # {} -> Latest(ends)
       [] Selected(results) = {} /\ ends = {} -> watermark

NoScope == [files |-> {}, global |-> FALSE]

\* The last collector, and the answer with its cursor.
Answer ==
  LET results == got \cup {Collect(Observation)}
  IN /\ pc = "observations"
     /\ pc' = "idle"
     /\ cursor' = [scope |-> scope, watermark |-> NextWatermark(results), snapshot |-> snapshot]
     /\ more' = HasMore(results)
     /\ pages' = pages \o Sorted(Selected(results))
     /\ missing' = IF more' \/ told THEN {}
                   ELSE (base \cap Rows(Files)) \ {pages'[i] : i \in DOMAIN pages'}
     /\ base' = {}
     /\ scope' = NoScope /\ page' = 0 /\ snapshot' = NoRow /\ watermark' = Start /\ got' = {}
     /\ UNCHANGED << dbVars, commits, issued, torn, told, anew >>

Collecting ==
  \/ Read("ranges", SourceRange, "leaves")
  \/ Read("leaves", SummaryLeaf, "cards")
  \/ Read("cards", PreparedCard, "inbox")
  \/ Read("inbox", InboxItem, "observations")
  \/ Answer

Scopes == {[files |-> Files, global |-> TRUE]}
            \cup {[files |-> {f}, global |-> FALSE] : f \in Asked}

\* The caller starts afresh, follows its cursor, or gives it for another scope.
AskAny ==
  \E S \in Scopes, size \in PageSizes, given \in {NoCursor, cursor} : Ask(S, size, given)

Init ==
  /\ source = [f \in Files |-> NoRow] /\ destructive = 0
  /\ ranges = [f \in Files |-> << >>]
  /\ leaf = [f \in Files |-> NoRow] /\ card = [f \in Files |-> NoRow]
  /\ observations = {}
  /\ commits = 0 /\ issued = 0
  /\ pc = "idle"
  /\ scope = NoScope /\ page = 0 /\ snapshot = NoRow /\ watermark = Start /\ got = {}
  /\ cursor = NoCursor /\ more = FALSE
  /\ told = FALSE /\ torn = FALSE /\ anew = FALSE /\ base = {} /\ missing = {} /\ pages = << >>

Next == Write \/ AskAny \/ Collecting

Spec == Init /\ [][Next]_vars

----------------------------------------------------------------------------
(* Properties.                                                             *)

\* A chain of diffs delivers its rows in order and none twice, whatever is
\* committed between and during its pages.
InOrderOnce ==
  \A i, j \in DOMAIN pages : i < j => Before(pages[i], pages[j])

\* A chain that says there is no more, and never said stale, has delivered every
\* public-safe row that was there when the last diff began and still is.  Two
\* kinds of chain are left out (`torn`): one during whose diffs something was
\* committed, and one that saw a stamp given a second time.  The allocator takes
\* the largest stamp of the rows that exist, so that after a deletion, with a
\* clock that has gone back, a row may get a stamp that the cursor has passed.
NothingIsLost == ~torn => missing = {}

\* Both: a chain of diffs is the changes, in order, once and all of them.
ChainIsTheChanges == InOrderOnce /\ NothingIsLost

\* The same whatever is committed during a diff: "session diff cursor drains
\* omitted changes instead of advancing past them".
DrainsWhateverIsCommitted == missing = {}

\* A diff that does not say stale begins with every source range its chain
\* has delivered still in the store: rewritten history is told.  A diff about
\* one thread does not compare the destructive generation, and so takes a
\* thread that began anew from the text it had begun with for an appended one.
RewritesAreTold ==
  [][pc = "idle" /\ pc' # "idle" /\ ~told' /\ ~torn' /\ (scope'.global \/ ~anew') =>
       \A i \in DOMAIN pages' : pages'[i].kind = SourceRange =>
         \E row \in RangeRows(Files) : row.key = pages'[i].key]_vars
----------------------------------------------------------------------------
(* Why a chain is the changes: its position tells what it has delivered.   *)

TypeInv ==
  /\ issued \in Nat /\ page \in Nat /\ told \in BOOLEAN /\ torn \in BOOLEAN

\* What the tables hold; each line that is stored has its range.
TablesInv ==
  /\ source \in [Files -> [hash : Seq(Lines), epoch : Seq(Lines), generation : Nat] \cup {NoRow}]
  /\ ranges \in [Files -> Seq(Nat \ {0})]
  /\ leaf \in [Files -> [body : Seq(Lines), at : Nat \ {0}] \cup {NoRow}]
  /\ card \in [Files -> [body : Seq(Lines), watched : {0, 1}, at : Nat \ {0}] \cup {NoRow}]
  /\ observations \subseteq [watch : Watches, target : Files, seen : 1 .. 2, at : Nat \ {0}]
  /\ IsFiniteSet(observations)
  /\ \A f \in Files :
       /\ source[f] # NoRow => Len(ranges[f]) = Len(source[f].hash)
       /\ ranges[f] # << >> => source[f].hash \in Seq(Lines) /\ Len(ranges[f]) = Len(source[f].hash)

StampsInv == \A row \in Rows(Files) : row.at <= issued

\* A row says by its key whether it is safe.
TableRows ==
  {r \in [kind : PreparedCard .. Observation, key : Seq(Nat), at : Nat \ {0}, safe : BOOLEAN] :
     r.safe = (r.kind = SourceRange => r.key[3] \notin UnsafeLines)}

\* What a collector returns lies after the watermark.
Collected(r) ==
  /\ r.rows \subseteq TableRows /\ IsFiniteSet(r.rows)
  /\ \A row \in r.rows : Before(watermark, row) /\ row.at <= issued
  /\ ~r.exhausted => r.rows # {}

ReadBefore ==
  CASE pc = "leaves" -> {SourceRange}
    [] pc = "cards" -> {SourceRange, SummaryLeaf}
    [] pc = "inbox" -> {SourceRange, SummaryLeaf, PreparedCard}
    [] pc = "observations" -> {SourceRange, SummaryLeaf, PreparedCard, InboxItem}
    [] OTHER -> {}

\* If nothing was committed meanwhile, it is what the collectors would return now.
CallInv ==
  pc # "idle" =>
    /\ page >= 1 /\ IsFiniteSet(got) /\ \A r \in got : Collected(r)
    /\ ~torn => /\ got = {Collect(kind) : kind \in ReadBefore}
                /\ base = {row \in Rows(scope.files) : row.safe}

\* What was delivered is not after the watermark, and what is not after it was delivered.
Reached(wm, S) ==
  /\ S.files \subseteq Files
  /\ wm \in [at : 0 .. issued, kind : 0 .. 5, key : Seq(Nat)] /\ (wm.kind = 0 => wm = Start)
  /\ \A i \in DOMAIN pages : ~Before(wm, pages[i])
  /\ ~torn => \A row \in Rows(S.files) :
       row.safe /\ ~Before(wm, row) => \E i \in DOMAIN pages : pages[i] = row

ChainInv ==
  /\ pages \in Seq(TableRows) /\ InOrderOnce /\ NothingIsLost
  /\ pc # "idle" => Reached(watermark, scope)
  /\ pc = "idle" =>
       \/ cursor = NoCursor /\ pages = << >>
       \/ Reached(cursor.watermark, cursor.scope)

DiffInv == TypeInv /\ TablesInv /\ StampsInv /\ CallInv /\ ChainInv

----------------------------------------------------------------------------
(* Why rewrites are told: what was delivered is in the snapshot.           *)

\* A history goes on from the text it began with.
HistoriesInv ==
  /\ destructive \in Nat
  /\ \A f \in Files :
       IF source[f] = NoRow THEN ranges[f] = << >> ELSE Keeps(source[f].hash, source[f].epoch)

Delivered == {pages[i].key : i \in {i \in DOMAIN pages : pages[i].kind = SourceRange}}

\* The snapshot is of the scope's files, and shows what the chain delivered of them.
Shows(shot, S) ==
  /\ S \in Scopes
  /\ shot.files \subseteq S.files
  /\ shot.hashes \in [shot.files -> Seq(Lines)] /\ shot.epochs \in [shot.files -> Seq(Lines)]
  /\ ~told /\ (S.global \/ ~anew) =>
       \A key \in Delivered : \E f \in shot.files : \E i \in DOMAIN shot.hashes[f] :
         key = << f, i, shot.hashes[f][i] >>

\* While nothing was destroyed, the files of a global diff keep what they were.
Lasts(shot) ==
  /\ shot.destructive \in 0 .. destructive
  /\ shot.destructive = destructive =>
       \A f \in shot.files : source[f] # NoRow /\ Keeps(source[f].hash, shot.hashes[f])

\* It was taken of the store as it is.
Current(shot, S) ==
  /\ shot.files = Tracked(S.files)
  /\ \A f \in shot.files : shot.hashes[f] = source[f].hash
  /\ S.global => shot.destructive = destructive

SnapshotInv ==
  ~torn =>
    /\ pc # "idle" => Current(snapshot, scope) /\ Shows(snapshot, scope)
    /\ pc = "idle" /\ cursor # NoCursor =>
         /\ Shows(cursor.snapshot, cursor.scope)
         /\ cursor.scope.global => Lasts(cursor.snapshot)

RewriteInv == HistoriesInv /\ SnapshotInv
============================================================================
