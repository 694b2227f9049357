--------------------------- MODULE TitleFinalizer ---------------------------
(***************************************************************************)
(* The hooks of packages/core/src/index.ts, each run of which is a process *)
(* of its own and writes with no transaction around its statements.        *)
(*   captureThreadTitleFinalizerHookPacket: the Stop hook gives a thread a *)
(*     title, once: it reads the alias, drafts a title from what it was    *)
(*     given or what is indexed, and writes a packet and an alias.  The    *)
(*     packet's id is that of the thread, not of the title.                *)
(*   captureCloseoutHookPacket, captureCompactionMarkerHookPacket: one row *)
(*     for an event, whose id is a digest of the event; events may be      *)
(*     delivered again.                                                    *)
(*   runStatePrepHook: reads the prepared state and writes one job row.    *)
(* One thread.                                                             *)
(***************************************************************************)
EXTENDS Naturals

CONSTANTS Hooks,       \* the processes
          Titles, NoTitle,
          MaxHookRuns, \* bound on the title and state-prep hooks started
          HookEvents,  \* what may be delivered to a capture hook
          MaxPrepared  \* bound on the changes of the prepared state

VARIABLES
  titleIndexed, \* the title in codex_sessions, NoTitle if there is no row
  packet,       \* the title in hook_capture_packets, NoTitle if no row
  titleAlias,   \* the text in codex_thread_title_aliases, NoTitle if no row
  hookAt,       \* where each process is
  draft,        \* its titleDraft
  told,         \* its report: the title, and what it says of it
  hookRuns,
  captured,     \* the rows of events in hook_capture_packets
  claimed,      \* how many reports said that they inserted each of them
  preparedNow,  \* which version of cards, inbox and leaves the tables hold
  job,          \* the output_hash in state_prep_jobs, 0 if there is no row
  prep,         \* of each process: the version it read, and that it saw no row
  jobTold,      \* the last version given by a report whose hook ran alone
  jobClaims     \* how many of those reports said that they inserted the row

tables   == << titleIndexed, packet, titleAlias >>
captures == << captured, claimed >>
prepVars == << preparedNow, job, prep, jobTold, jobClaims >>
vars     == << tables, hookAt, draft, told, hookRuns, captures, prepVars >>

Kinds == {"closeout_capture", "compaction_marker"}
NoPrep == [of |-> 0, new |-> FALSE, alone |-> FALSE]

Silent == [title |-> NoTitle, says |-> "nothing"]

Init ==
  /\ titleIndexed \in Titles \cup {NoTitle}
  /\ packet = NoTitle /\ titleAlias = NoTitle
  /\ hookAt = [h \in Hooks |-> "idle"]
  /\ draft = [h \in Hooks |-> NoTitle]
  /\ told = [h \in Hooks |-> Silent]
  /\ hookRuns = 0
  /\ captured = {} /\ claimed = [row \in Kinds \X HookEvents |-> 0]
  /\ preparedNow = 1 /\ job = 0
  /\ prep = [h \in Hooks |-> NoPrep]
  /\ jobTold = 0 /\ jobClaims = 0

Go(h, place) == hookAt' = [hookAt EXCEPT ![h] = place]

Report(h, title, says) == told' = [told EXCEPT ![h] = [title |-> title, says |-> says]]

Start(h) ==
  /\ hookAt[h] = "idle" /\ hookRuns < MaxHookRuns
  /\ hookRuns' = hookRuns + 1
  /\ Go(h, "alias")
  /\ told' = [told EXCEPT ![h] = Silent]
  /\ UNCHANGED << tables, draft, captures, prepVars >>

\* getThreadTitleAlias: a thread that has an alias keeps it.
ReadAlias(h) ==
  /\ hookAt[h] = "alias"
  /\ \/ /\ titleAlias = NoTitle
        /\ Go(h, "signal") /\ UNCHANGED told
     \/ /\ titleAlias # NoTitle
        /\ Go(h, "idle") /\ Report(h, titleAlias, "already_finalized")
  /\ UNCHANGED << tables, draft, hookRuns, captures, prepVars >>

\* getThreadTitleIndexedSignal and deriveThreadTitleDraft: what the hook was
\* given may yield any title, or none; without it, the indexed one.
Derive(h) ==
  /\ hookAt[h] = "signal"
  /\ \E title \in Titles \cup {titleIndexed} :
       \/ /\ title # NoTitle
          /\ draft' = [draft EXCEPT ![h] = title]
          /\ Go(h, "packet") /\ UNCHANGED told
       \/ /\ title = NoTitle
          /\ Go(h, "idle") /\ Report(h, NoTitle, "title_signal_insufficient")
          /\ UNCHANGED draft
  /\ UNCHANGED << tables, hookRuns, captures, prepVars >>

\* A slip: the alias written whether or not the packet was.
AnyPacket == TRUE

\* insertHookCapturePacket, INSERT OR IGNORE: whether it inserted.
PacketInserted == packet = NoTitle

InsertPacket(h) ==
  /\ hookAt[h] = "packet"
  /\ packet' = IF packet = NoTitle THEN draft[h] ELSE packet
  /\ \/ /\ PacketInserted
        /\ Go(h, "insertAlias")
        /\ UNCHANGED << draft, told >>
     \/ /\ ~PacketInserted
        /\ Go(h, "idle") /\ Report(h, draft[h], "not_inserted")
        /\ draft' = [draft EXCEPT ![h] = NoTitle]
  /\ UNCHANGED << titleIndexed, titleAlias, hookRuns, captures, prepVars >>

\* insertThreadTitleAlias, INSERT OR IGNORE
InsertAlias(h) ==
  /\ hookAt[h] = "insertAlias"
  /\ titleAlias' = IF titleAlias = NoTitle THEN draft[h] ELSE titleAlias
  /\ Report(h, draft[h], IF titleAlias = NoTitle THEN "alias_inserted" ELSE "packet_inserted")
  /\ Go(h, "idle")
  /\ draft' = [draft EXCEPT ![h] = NoTitle]
  /\ UNCHANGED << titleIndexed, packet, hookRuns, captures, prepVars >>

----------------------------------------------------------------------------
\* insertHookCapturePacket, INSERT OR IGNORE by the digest of target, turn, event and
\* payload: the hook may end, or fail to write its evidence, before it reports.
Insert(row) ==
  /\ captured' = captured \cup {row}
  /\ \E reported \in BOOLEAN :
       claimed' = [claimed EXCEPT ![row] = @ + IF reported /\ row \notin captured THEN 1 ELSE 0]
  /\ UNCHANGED << tables, hookAt, draft, told, hookRuns, prepVars >>

\* captureCloseoutHookPacket: a message without a closeout envelope is captured too,
\* and its report has a blocker.
CaptureCloseout(event) == Insert(<< "closeout_capture", event >>)

\* captureCompactionMarkerHookPacket: a mode other than marker throws.
CaptureCompactionMarker(event, mode) ==
  /\ mode = "marker"
  /\ Insert(<< "compaction_marker", event >>)

----------------------------------------------------------------------------
Preparing(h) == hookAt[h] \in {"job", "upsert"}

\* runStatePrepHook: the status, cards, inbox and leaves, taken as one read.
StartPrep(h) ==
  LET others == {other \in Hooks \ {h} : Preparing(other)} IN
  /\ hookAt[h] = "idle" /\ hookRuns < MaxHookRuns
  /\ hookRuns' = hookRuns + 1
  /\ Go(h, "job")
  /\ prep' = [other \in Hooks |->
                IF other = h THEN [of |-> preparedNow, new |-> FALSE, alone |-> others = {}]
                ELSE IF other \in others THEN [prep[other] EXCEPT !.alone = FALSE]
                ELSE prep[other]]
  /\ UNCHANGED << tables, draft, told, captures, preparedNow, job, jobTold, jobClaims >>

\* insertStatePrepJob: whether the row is there, and then the upsert.
LooksForJob(h) ==
  /\ hookAt[h] = "job"
  /\ prep' = [prep EXCEPT ![h].new = job = 0]
  /\ Go(h, "upsert")
  /\ UNCHANGED << tables, draft, told, hookRuns, captures, preparedNow, job, jobTold, jobClaims >>

\* ON CONFLICT DO UPDATE: the last writer's output stands.
UpsertsJob(h) ==
  /\ hookAt[h] = "upsert"
  /\ job' = prep[h].of
  /\ IF prep[h].alone
       THEN /\ jobTold' = prep[h].of
            /\ jobClaims' = jobClaims + IF prep[h].new THEN 1 ELSE 0
       ELSE UNCHANGED << jobTold, jobClaims >>
  /\ Go(h, "idle")
  /\ prep' = [prep EXCEPT ![h] = NoPrep]
  /\ UNCHANGED << tables, draft, told, hookRuns, captures, preparedNow >>

\* Other processes refresh cards, inbox and leaves.
Prepare ==
  /\ preparedNow < MaxPrepared
  /\ preparedNow' = preparedNow + 1
  /\ UNCHANGED << tables, hookAt, draft, told, hookRuns, captures, job, prep, jobTold, jobClaims >>

----------------------------------------------------------------------------
\* A process of either kind dies, or a statement finds the database locked.
Die(h) ==
  /\ hookAt[h] # "idle"
  /\ Go(h, "idle")
  /\ draft' = [draft EXCEPT ![h] = NoTitle]
  /\ prep' = [prep EXCEPT ![h] = NoPrep]
  /\ UNCHANGED << tables, told, hookRuns, captures, preparedNow, job, jobTold, jobClaims >>

\* upsertSession; clearSourceFileIndex and clearRemappedSourcePathSessions take
\* the thread's row and its alias, and leave the packet.
Index(title) ==
  /\ titleIndexed' = title
  /\ UNCHANGED << packet, titleAlias, hookAt, draft, told, hookRuns, captures, prepVars >>

ClearIndex ==
  /\ titleIndexed # NoTitle
  /\ titleIndexed' = NoTitle /\ titleAlias' = NoTitle
  /\ UNCHANGED << packet, hookAt, draft, told, hookRuns, captures, prepVars >>

Next ==
  \/ \E h \in Hooks :
       \/ Start(h) \/ ReadAlias(h) \/ Derive(h) \/ InsertPacket(h) \/ InsertAlias(h)
       \/ StartPrep(h) \/ LooksForJob(h) \/ UpsertsJob(h)
       \/ Die(h)
  \/ \E event \in HookEvents :
       \/ CaptureCloseout(event)
       \/ \E mode \in {"marker", "summary"} : CaptureCompactionMarker(event, mode)
  \/ Prepare
  \/ \E title \in Titles : Index(title)
  \/ ClearIndex

Spec == Init /\ [][Next]_vars

----------------------------------------------------------------------------
\* A thread has one title: its alias is the title of its packet, and so is every
\* title that a hook reports as the thread's.
OneTitleForEver ==
  /\ titleAlias \in {NoTitle, packet}
  /\ \A h \in Hooks :
       told[h].says \in {"already_finalized", "alias_inserted", "packet_inserted"} =>
         told[h].title = packet

\* However often an event is delivered, one delivery at most is told that it is new.
CapturedOnce ==
  \A row \in Kinds \X HookEvents : claimed[row] \in IF row \in captured THEN 0 .. 1 ELSE {0}

\* A hook that ran alone is not undone by an older output, whatever overlaps after it,
\* and one such hook at most says that it made the row.
PrepKeepsUp == job >= jobTold /\ jobClaims <= 1

\* However the hooks race, die, are delivered again or find the index cleared, what
\* was written once stays as it was told: a thread's title, an event's row, and the
\* newest output of a state-prep job (core/src/index.ts 7982-8276).
HooksWriteOnce == OneTitleForEver /\ CapturedOnce /\ PrepKeepsUp
----------------------------------------------------------------------------
\* Why it holds.  A hook that is to insert the alias holds the packet's title;
\* whoever prepares the state read no older version than any told so far, and one
\* that is alone has nobody beside it.
Places == {"idle", "alias", "signal", "packet", "insertAlias", "job", "upsert"}

TypeInv ==
  /\ hookAt \in [Hooks -> Places]
  /\ draft \in [Hooks -> Titles \cup {NoTitle}]
  /\ told \in [Hooks -> [title : Titles \cup {NoTitle},
                         says : {"nothing", "already_finalized", "title_signal_insufficient",
                                 "not_inserted", "alias_inserted", "packet_inserted"}]]
  /\ { titleIndexed, packet, titleAlias } \subseteq Titles \cup {NoTitle}
  /\ claimed \in [Kinds \X HookEvents -> Nat]
  /\ prep \in [Hooks -> [of : Nat, new : BOOLEAN, alone : BOOLEAN]]
  /\ { preparedNow, job, jobTold, jobClaims } \subseteq Nat

TitleInv ==
  /\ titleAlias \in {NoTitle, packet}
  /\ \A h \in Hooks :
       /\ told[h].says \in {"already_finalized", "alias_inserted", "packet_inserted"} =>
            told[h].title = packet /\ packet # NoTitle
       /\ hookAt[h] = "packet" => draft[h] # NoTitle
       /\ hookAt[h] = "insertAlias" => draft[h] = packet /\ packet # NoTitle

PrepInv ==
  /\ preparedNow >= 1 /\ preparedNow >= jobTold /\ PrepKeepsUp
  /\ jobClaims # 0 => job # 0
  /\ \A h \in Hooks : Preparing(h) =>
       /\ prep[h].of >= 1 /\ prep[h].of >= jobTold /\ prep[h].of <= preparedNow
       /\ prep[h].alone => \A other \in Hooks \ {h} : ~Preparing(other)
       /\ hookAt[h] = "upsert" /\ prep[h].alone /\ prep[h].new => job = 0

HooksInv == TypeInv /\ TitleInv /\ CapturedOnce /\ PrepInv
=============================================================================
