--------------------------- MODULE DesktopPlanner ---------------------------
(***************************************************************************)
(* Whether Codex Desktop shows a thread, and what to do next about it      *)
(* (packages/core/src/index.ts, with the fallback report of                *)
(* packages/adapters/src/index.ts).  Nothing tells LCO which threads the   *)
(* Desktop shows: it sees titles, and finds the threads by joining them    *)
(* with the titles of the app-server's threads and of the index, each read *)
(* at another moment.  From such maps an agent gets a coherence report,    *)
(* from that a fallback report, and from both a lane, the planner's next   *)
(* step and a verdict on coverage.  The reports are files the agent keeps: *)
(* LCO sees only what it is given, of whatever age.                        *)
(***************************************************************************)
EXTENDS FiniteSets, Integers

CONSTANTS ShownThreads, Target,       \* the threads, and the one the agent asks about
          ThreadTitles, Untitled,     \* Untitled: not in the index, or not listed
          MaxWorld, MaxAsks           \* bounds: changes of the world, reports made

VARIABLES
  title,     \* the world: the title of each thread
  indexCard, \* the world: the title under which each thread is indexed
  onScreen,  \* the world: the threads that the Desktop shows
  sessionNeeds, \* the world: an approval or a watcher that the target's session waits for
  worldSteps,
  mapAt,     \* how far the agent's map is
  shownAs,   \* its snapshot of the Desktop: titles, and (history) whose they are
  listedAs,  \* the titles in the app-server's answer
  beforeMap, \* a map that the agent has kept
  coherence, fallback, proof, \* the reports it holds
  asks,
  wasSeen,   \* history: a snapshot was taken while the Desktop showed the target
  unfit,     \* history: a map was made of titles that did not tell the threads apart
  asked      \* history: the packet just followed, of the world as it still is

world == << title, indexCard, onScreen, sessionNeeds >>
joining == << mapAt, shownAs, listedAs >>
reports == << beforeMap, coherence, fallback, proof >>
vars == << world, worldSteps, joining, reports, asks, wasSeen, unfit, asked >>

NoMap == [matched |-> FALSE, cli |-> FALSE, visible |-> FALSE, doubt |-> FALSE,
          present |-> FALSE]

Nowhere == [t \in ShownThreads |-> Untitled]

Init ==
  /\ title \in [ShownThreads -> ThreadTitles] /\ indexCard = title
  /\ onScreen \in SUBSET ShownThreads /\ sessionNeeds = "nothing" /\ worldSteps = 0
  /\ mapAt = "idle" /\ shownAs = Nowhere /\ listedAs = Nowhere
  /\ beforeMap = NoMap /\ coherence = "none" /\ fallback = "none" /\ proof = FALSE
  /\ asks = 0 /\ wasSeen = FALSE /\ unfit = FALSE /\ asked = "none"

----------------------------------------------------------------------------
\* A thread is renamed, indexed or forgotten, comes on the screen or leaves it.
WorldChanges ==
  /\ worldSteps < MaxWorld /\ worldSteps' = worldSteps + 1
  /\ \/ \E t \in ShownThreads, x \in ThreadTitles :
          title' = [title EXCEPT ![t] = x] /\ UNCHANGED << indexCard, onScreen, sessionNeeds >>
     \/ \E t \in ShownThreads : \E x \in {title[t], Untitled} :
          indexCard' = [indexCard EXCEPT ![t] = x] /\ UNCHANGED << title, onScreen, sessionNeeds >>
     \/ \E t \in ShownThreads :
          /\ onScreen' = (onScreen \ {t}) \cup ({t} \ onScreen)
          /\ UNCHANGED << title, indexCard, sessionNeeds >>
     \/ \E n \in {"nothing", "approval", "watcher"} :
          sessionNeeds' = n /\ UNCHANGED << title, indexCard, onScreen >>
  /\ asked' = "none"
  /\ UNCHANGED << joining, reports, asks, wasSeen, unfit >>

----------------------------------------------------------------------------
\* The map: a snapshot of the Desktop, if it was asked for, ...
SeeDesktop(look) ==
  /\ mapAt' = "app"
  /\ shownAs' = [t \in ShownThreads |-> IF look /\ t \in onScreen THEN title[t] ELSE Untitled]
  /\ wasSeen' = (wasSeen \/ (look /\ Target \in onScreen))

BeginMap ==
  /\ mapAt = "idle" /\ asks < MaxAsks /\ asks' = asks + 1
  /\ \E look \in BOOLEAN : SeeDesktop(look)
  /\ asked' = "none"
  /\ UNCHANGED << world, worldSteps, listedAs, reports, unfit >>

\* ... the app-server's list, which is cut off at a limit, and a reading of the target, ...
ListThreads ==
  /\ mapAt = "app"
  /\ mapAt' = "join"
  /\ \E listed \in SUBSET ShownThreads, readable \in BOOLEAN :
       listedAs' = [t \in ShownThreads |->
                      IF t \in listed \/ (t = Target /\ readable) THEN title[t] ELSE Untitled]
  /\ UNCHANGED << world, worldSteps, shownAs, reports, asks, wasSeen, unfit, asked >>

\* ... and the index.
\* A slip: a title leads to one thread, whichever took it.
Taken(x, names) ==
  LET titled == {t \in ShownThreads : names[t] = x}
  IN IF titled = {} THEN {} ELSE {CHOOSE t \in titled : TRUE}

Titled(x, names) == {t \in ShownThreads : names[t] = x}

Only(set) == IF Cardinality(set) = 1 THEN set ELSE {}

AppThreadOf(x) == Only(Titled(x, listedAs))

CardOf(x) ==
  LET ofApp == {t \in AppThreadOf(x) : indexCard[t] # Untitled}
  IN IF ofApp # {} THEN ofApp ELSE Only(Titled(x, indexCard))

\* An item for each title on the screen, and one for each listed thread without such.
VisibleItem(x) ==
  LET ofApp == {t \in AppThreadOf(x) : indexCard[t] # Untitled}
  IN [about   |-> AppThreadOf(x) \cup CardOf(x), card |-> CardOf(x), desktop |-> TRUE,
      doubt   |-> \/ Cardinality(Titled(x, indexCard)) > 1 /\ ofApp = {}
                  \/ Cardinality(Titled(x, listedAs)) > 1,
      unknown |-> Titled(x, indexCard) = {} /\ CardOf(x) = {}]

Seen == {shownAs[t] : t \in ShownThreads} \ {Untitled}

\* Listed, and not that of a title on the screen.
Unused == {t \in ShownThreads \ UNION {AppThreadOf(x) : x \in Seen} : listedAs[t] # Untitled}

CardOfListed(t) == IF indexCard[t] # Untitled THEN {t} ELSE Only(Titled(listedAs[t], indexCard))

\* The threads are gone through in the order of the list, and an indexed card that an
\* item before has taken is in doubt.
AppItem(t, rank) ==
  [about   |-> {t} \cup CardOfListed(t), card |-> CardOfListed(t), desktop |-> FALSE,
   doubt   |-> \/ Cardinality(Titled(listedAs[t], indexCard)) > 1
               \/ /\ CardOfListed(t) # {}
                  /\ \/ \E x \in Seen : CardOf(x) = CardOfListed(t)
                     \/ \E u \in Unused : rank[u] < rank[t] /\ CardOfListed(u) = CardOfListed(t),
   unknown |-> CardOfListed(t) = {}]

Items(rank) == {VisibleItem(x) : x \in Seen} \cup {AppItem(t, rank) : t \in Unused}

\* What a map says of the target.  An item in any doubt is of low confidence, and
\* one without may be, too.
Observation(rank, confident) ==
  LET matched == {i \in Items(rank) : Target \in i.about}
      doubt   == \E i \in matched : i.doubt
  IN [matched |-> matched # {}, doubt |-> doubt, present |-> TRUE,
      cli     |-> matched # {} /\ ~doubt,
      visible |-> confident /\ ~doubt /\ \E i \in matched : i.desktop /\ ~i.unknown]

Ranks == {r \in [ShownThreads -> 1 .. Cardinality(ShownThreads)] :
            \A t, u \in ShownThreads : r[t] = r[u] => t = u}

Maps == {Observation(rank, confident) : rank \in Ranks, confident \in BOOLEAN}

\* The titles tell the threads apart if each thread on the screen is listed under the
\* title it has there, and indexed.
TellsApart ==
  \A t \in ShownThreads :
    shownAs[t] # Untitled => listedAs[t] = shownAs[t] /\ indexCard[t] # Untitled

EndMap ==
  /\ mapAt = "join"
  /\ mapAt' = "idle" /\ shownAs' = Nowhere /\ listedAs' = Nowhere
  /\ unfit' = (unfit \/ ~TellsApart)
  /\ UNCHANGED << world, worldSteps, asks, wasSeen >>

\* The agent keeps a map, to compare it with a later one.
KeepMap ==
  /\ EndMap
  /\ beforeMap' \in Maps
  /\ UNCHANGED << coherence, fallback, proof, asked >>

----------------------------------------------------------------------------
\* The outcome of the first of several rules that applies.
FirstOf(rules) ==
  rules[CHOOSE i \in DOMAIN rules : rules[i][1] /\ \A j \in 1 .. i - 1 : ~rules[j][1]][2]

\* The coherence report, from a map made before, a current one and one made after the
\* Desktop was refreshed or restarted.  gui tells whether the agent says that it has
\* itself seen the Desktop act, and whether that was before the map was made.
State(before, current, after, gui, refresh) ==
  LET all     == {before, current, after}
      visible == \E o \in all : o.visible
      cli     == \E o \in all : o.cli
      fresh   == gui = "earlier" /\ (current.matched \/ after.matched)
      missed  == \E o \in {before, current} : o.matched /\ ~o.doubt /\ ~o.visible
  IN FirstOf(<< << \E o \in all : o.doubt, "unknown" >>,
                << fresh /\ cli /\ ~visible, "read_state_stale" >>,
                << gui # "none" /\ ~fresh /\ ~visible, "unknown" >>,
                << before.visible \/ current.visible, "desktop_visible" >>,
                << after.visible /\ refresh # "none" /\ missed, refresh >>,
                << after.visible, "desktop_visible" >>,
                << cli, "cli_visible" >>,
                << TRUE, "unknown" >> >>)

Refreshes == {"desktop_refresh_required", "desktop_restart_required"}

\* Whatever maps the agent passes on, and whatever it says it has done and seen.
ReportsOf(map) ==
  {State(beforeMap, map, NoMap, gui, "none") : gui \in {"none", "earlier", "later"}} \cup
  {State(beforeMap, NoMap, map, gui, refresh) :
     gui \in {"none", "earlier", "later"}, refresh \in Refreshes \cup {"none"}}

MakeReport ==
  /\ EndMap
  /\ \E map \in Maps :
       \/ asked = "asking" /\ asked' = "coherence"
          /\ coherence' = State(NoMap, map, NoMap, "none", "none")
       \/ asked = "reconciling" /\ asked' = "reconcile"
          /\ coherence' = State(NoMap, map, NoMap, "earlier", "none")
       \/ asked = "none" /\ coherence' \in ReportsOf(map) /\ UNCHANGED asked
  /\ UNCHANGED << beforeMap, fallback, proof >>

\* The fallback report looks at the state of the coherence report it is given.
FallbackReason(report) ==
  CASE report = "none" -> "coherence_input_missing"
    [] report = "desktop_visible" -> "desktop_visibility_already_proven"
    [] OTHER -> "desktop_visibility_not_proven"

AskFallback ==
  /\ mapAt = "idle" /\ asks < MaxAsks /\ asks' = asks + 1
  /\ \E report \in {"none", coherence} : fallback' = FallbackReason(report)
  /\ asked' = "none"
  /\ UNCHANGED << world, worldSteps, joining, beforeMap, coherence, proof, wasSeen, unfit >>

\* An action-bound proof that is ready, and the loss of a report.
HoldOrDrop ==
  /\ mapAt = "idle"
  /\ \/ ~proof /\ proof' = TRUE /\ UNCHANGED coherence
     \/ coherence # "none" /\ coherence' = "none" /\ UNCHANGED proof
  /\ asked' = "none"
  /\ UNCHANGED << world, worldSteps, joining, beforeMap, fallback, asks, wasSeen, unfit >>

----------------------------------------------------------------------------
\* The lane, from the reports that the agent passes on.
FallbackRequired ==
  /\ coherence # "read_state_stale"
  /\ IF fallback # "none" THEN fallback = "desktop_visibility_not_proven"
     ELSE coherence \notin {"none", "desktop_visible"}

\* No backend is ready as long as the visibility is not proven.
BackendReady == fallback = "desktop_visibility_already_proven"

\* A slip: what is seen of the thread comes before what was tried about it.
SeenFirst ==
  FirstOf(<< << coherence = "desktop_visible", "desktop_visible" >>,
             << coherence \in {"cli_visible", "read_state_stale"} \cup Refreshes, "cli_visible" >>,
             << fallback = "coherence_input_missing", "fallback_blocked" >>,
             << FallbackRequired /\ BackendReady, "fallback_ready" >>,
             << FallbackRequired /\ fallback # "none", "fallback_blocked" >>,
             << coherence = "none" /\ fallback = "none", "not_configured" >>,
             << TRUE, "unknown" >> >>)

LaneState ==
  FirstOf(<< << fallback = "coherence_input_missing", "fallback_blocked" >>,
             << FallbackRequired /\ BackendReady, "fallback_ready" >>,
             << FallbackRequired /\ fallback # "none", "fallback_blocked" >>,
             << \/ coherence = "desktop_visible"
                \/ fallback = "desktop_visibility_already_proven", "desktop_visible" >>,
             << coherence \in {"cli_visible", "read_state_stale"} \cup Refreshes, "cli_visible" >>,
             << coherence = "none" /\ fallback = "none", "not_configured" >>,
             << TRUE, "unknown" >> >>)

\* What the planner says to do next.
NextStep ==
  LET byAction == LaneState \in {"fallback_ready", "fallback_blocked"}
      unseen   == LaneState \in {"cli_visible", "unknown"}
  IN FirstOf(<< << sessionNeeds = "approval" /\ ~byAction, "wait_for_approval" >>,
                << sessionNeeds = "watcher", "resume_request_packet" >>,
                << fallback = "coherence_input_missing", "coherence" >>,
                << LaneState = "not_configured", "coherence" >>,
                << unseen /\ coherence = "none", "coherence" >>,
                << unseen /\ coherence = "read_state_stale", "reconcile" >>,
                << unseen /\ coherence # "desktop_visible", "fallback_status" >>,
                << byAction, "wait_for_approval" >>,
                << TRUE, "observe" >> >>)

\* The agent follows a packet to the letter: none asks for a snapshot, and the one of a
\* watcher asks for a packet that nothing keeps.
Follow ==
  /\ mapAt = "idle" /\ asks < MaxAsks /\ asks' = asks + 1
  /\ \/ /\ NextStep \in {"coherence", "reconcile"}
        /\ SeeDesktop(FALSE)
        /\ asked' = IF NextStep = "reconcile" THEN "reconciling" ELSE "asking"
        /\ UNCHANGED << listedAs, fallback >>
     \/ /\ NextStep = "fallback_status"
        /\ fallback' = FallbackReason(coherence)
        /\ asked' = "fallback_status"
        /\ UNCHANGED << joining, wasSeen >>
     \/ /\ NextStep = "resume_request_packet"
        /\ asked' = "resume_request_packet"
        /\ UNCHANGED << joining, fallback, wasSeen >>
  /\ UNCHANGED << world, worldSteps, beforeMap, coherence, proof, unfit >>

\* The verdict on a lane.
Coverage ==
  FirstOf(<< << LaneState = "desktop_visible" \/ proof, "covered" >>,
             << LaneState = "fallback_ready", "partial" >>,
             << TRUE, "blocked" >> >>)

Next ==
  \/ WorldChanges \/ BeginMap \/ ListThreads \/ KeepMap \/ MakeReport
  \/ AskFallback \/ HoldOrDrop \/ Follow

Spec == Init /\ [][Next]_vars

----------------------------------------------------------------------------
\* A lane counts as covered without an action-bound proof only if the Desktop did show
\* the thread when a snapshot was taken, as far as titles can tell: the joins of
\* createVisibleCodexSessionMap must give up wherever two threads could be meant.
CoveredWasSeen == Coverage = "covered" /\ ~proof => wasSeen \/ unfit

\* Who follows the planner's packet while the world stands still is told something else
\* next, with three exceptions: a watcher that was triggered asks for its packet for as
\* long as the agent passes it on, for createResumeRequestPacket only reads; an
\* app-server reading alone never ends read_state_stale; and a fallback report made
\* without a coherence report keeps asking for one even when it is there
\* (createCodexCollaborationNextSteps).
NotToldAgain ==
  asked = NextStep =>
    asked \in {"resume_request_packet", "reconcile"} \/ fallback = "coherence_input_missing"

\* What the planner says is so, and following it leads on.
PlannerLeadsOn == CoveredWasSeen /\ NotToldAgain

\* What every step keeps: what is on the screen in a map, or is said to be there, was
\* seen or is not to be told apart; and what was followed has had its effect.
PlannerInv ==
  /\ shownAs[Target] # Untitled => wasSeen
  /\ beforeMap.visible => wasSeen \/ unfit
  /\ coherence = "desktop_visible" => wasSeen \/ unfit
  /\ fallback = "desktop_visibility_already_proven" => wasSeen \/ unfit
  /\ asked = "coherence" => coherence # "none"
  /\ asked = "fallback_status" =>
       /\ coherence \notin {"none", "desktop_visible", "read_state_stale"}
       /\ fallback = "desktop_visibility_not_proven"
  /\ asked \in {"none", "asking", "reconciling", "coherence", "reconcile", "fallback_status",
               "resume_request_packet"}
=============================================================================
