---------------------------- MODULE DerivedStore ----------------------------
(* What LCO keeps beside its sessions: titles and events that hooks       *)
(* capture, the databases of peers, cards, the content of events, Claude   *)
(* sessions, the schema.                                                   *)
EXTENDS Derived

CONSTANTS Summaries, Blank, MaxNodes, MaxDepth, MaxPeerWrites, MaxLinks,
          PeerFiles, Links, PeerIds, NoAlias, ScanMax, MaxPeerSteps,
          Hooks, Titles, NoTitle, MaxHookRuns, HookEvents, MaxPrepared,
          ClaudeFiles, SessionIds, Fixture, MaxClaudeSteps,
          Indexers, MaxLines, MaxChanges,
          Openers, Rows, Chats, MaxOldWrites, MaxOpens,
          CardThreads, Claudes, NoCard, Signals, MaxTexts, MaxWatch

Walk == INSTANCE LcmWalk WITH
  present <- v1, parents <- v2, peerWrites <- v3, place <- v4, root <- v5,
  queue <- v6, batch <- v7, depth <- v8, seen <- v9, listed <- v10, reasons <- v11,
  still <- v12

\* The path of a file is not that of a link.
ASSUME LinksAreNotFiles == Links \cap PeerFiles = {}

Peers == INSTANCE LcmPeers WITH
  mounted <- v1, linkTo <- v2, summaries <- v3, cards <- v4, aliases <- v5,
  peerSteps <- v6, lastRead <- v7, led <- v8, lastRun <- v9

Title == INSTANCE TitleFinalizer WITH
  titleIndexed <- v1, packet <- v2, titleAlias <- v3, hookAt <- v4, draft <- v5,
  told <- v6, hookRuns <- v7, captured <- v8, claimed <- v9, preparedNow <- v10,
  job <- v11, prep <- v12, jobTold <- v13, jobClaims <- v14

Claude == INSTANCE ClaudeIndexer WITH
  files <- v1, newest <- v2, rows <- v3, texts <- v4, indexAt <- v5, todo <- v6,
  parsed <- v7, doomed <- v8, calm <- v9, meddled <- v10, claudeSteps <- v11

\* There are so many files, and no row is not one.
ASSUME ClaudesAreTold == NoRow \notin Claude!Records

Content == INSTANCE EventContent WITH
  source <- v1, sourceRow <- v2, events <- v3, content <- v4, runAt <- v5,
  wanted <- v6, looked <- v7, loaded <- v8, undisturbed <- v9, crossed <- v10,
  changes <- v11

Upgrade == INSTANCE SchemaUpgrade WITH
  tables <- v1, column <- v2, triggers <- v3, ledger <- v4, keys <- v5, chats <- v6,
  indexed <- v7, opener <- v8, mode <- v9, slipped <- v10, late <- v11,
  fullOnce <- v12, oldWrites <- v13, opens <- v14

Cards == INSTANCE CardRefresh WITH
  session <- v1, leaves <- v2, attention <- v3, card <- v4, by <- v5,
  claude <- v6, claudeCard <- v7, run <- v8, refreshed <- v9

\* A card names its state after the signals; none at all is not a card.
ASSUME CardsAreTold ==
  /\ Signals \subseteq Cards!AllSignals
  /\ NoCard \notin Cards!Drafts

\* bound: a summary was made from others by so many links, and the peer has no more;
\* it writes only where it has half as many.
FewLinks ==
  LET Link == (Summaries \ {Blank}) \X Summaries
  IN  {links \in {{f[i] : i \in 1 .. MaxLinks} : f \in [1 .. MaxLinks -> Link]} \cup {{}} :
         \A l \in links : l[1] = 1 \/ \E m \in links \ {l} : m[2] = l[1]}

StoreInit ==
  \/ Only("walk", 12) /\ v5 = 1 /\ v2 \in FewLinks /\ Walk!Init /\ 1 \in v1
  \/ Only("peers", 9) /\ Peers!Init
  \/ Only("title", 14) /\ Title!Init
  \/ Only("claude", 11) /\ Claude!Init
  \/ Only("content", 11) /\ Content!Init
  \/ Only("upgrade", 14) /\ Upgrade!Init
  \/ Only("cards", 9) /\ Cards!Init

WalkNext ==
  /\ component = "walk" /\ Walk!Next /\ (v3' # v3 => 2 * Cardinality(v2') <= MaxLinks)
  /\ UNCHANGED << component, v13, v14, v15, v16 >>

PeersNext ==
  /\ component = "peers" /\ Peers!Next
  /\ UNCHANGED << component, v10, v11, v12, v13, v14, v15, v16 >>

TitleNext ==
  /\ component = "title" /\ Title!Next
  /\ UNCHANGED << component, v15, v16 >>

ClaudeNext ==
  /\ component = "claude" /\ Claude!Next
  /\ UNCHANGED << component, v12, v13, v14, v15, v16 >>

ContentNext ==
  /\ component = "content" /\ Content!Next
  /\ UNCHANGED << component, v12, v13, v14, v15, v16 >>

UpgradeNext ==
  /\ component = "upgrade" /\ Upgrade!Next
  /\ UNCHANGED << component, v15, v16 >>

\* bound: a behaviour reads the thread or the Claude session, whose cards have
\* nothing in common but the refresh, which makes one after the other.
CardsOfOneKind ==
  \/ \A t \in CardThreads : v1[t].text = 0
  \/ \A c \in Claudes : v6[c] = 0 /\ v7[c] = 0

\* bound: what is open, what it rests on and what needs attention is told of a
\* thread's last text; of one that has no leaves, nothing.
LastTextTells ==
  \A t \in CardThreads :
    /\ v1[t].text < MaxTexts => v1[t].signals = {} /\ v1[t].coverage # "partial" /\ v3[t] = 0
    /\ v1[t].coverage = "none" => v1[t].signals = {}
    /\ v1[t].coverage = "partial" => v1[t].signals # {}

CardsNext ==
  /\ component = "cards" /\ Cards!Next /\ (CardsOfOneKind /\ LastTextTells)'
  /\ UNCHANGED << component, v10, v11, v12, v13, v14, v15, v16 >>

StoreNext ==
  \/ WalkNext \/ PeersNext \/ TitleNext \/ ClaudeNext \/ ContentNext \/ UpgradeNext
  \/ CardsNext

StoreSpec == StoreInit /\ [][StoreNext]_vars

----------------------------------------------------------------------------
\* An expansion of a peer's summary leaves out nothing without a reason (LcmWalk).
NothingOmittedSilently == component = "walk" => Walk!NothingOmittedSilently

\* The cards of a peer are those of one reading of it (LcmPeers).
OneReadingPerPeer == component = "peers" => Peers!OneReadingPerPeer

\* However the hooks race, die, are delivered again or find the index cleared, what
\* was written once stays as it was told: a title, an event's row, the newest
\* output of a state-prep job (TitleFinalizer).
HooksWriteOnce == component = "title" => Title!HooksWriteOnce

\* The rows of Claude sessions say what their files say (ClaudeIndexer).
RowsTellTheFiles == component = "claude" => Claude!RowsTellTheFiles

\* A run that wants the content of events leaves every event with its own (EventContent).
EveryEventHasContent == component = "content" => Content!EveryEventHasContent

\* A database that has been opened is brought up to date (SchemaUpgrade).
OpenedIsWhole == component = "upgrade" => Upgrade!OpenedIsWhole

\* A card whose marks are set is of one text and hides nothing, unless a run that read
\* the file earlier has written last (CardRefresh).
CardsAreWhole == component = "cards" => Cards!CardsAreWhole
=============================================================================
