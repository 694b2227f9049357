----------------------------- MODULE ToolEvidence -----------------------------
(***************************************************************************)
(* What is known of the tools of a package: `openclaw dogfood` installs    *)
(* the plugin and reads its tool list, `openclaw tool-smoke` calls the     *)
(* tools one after the other through a gateway, the published-package      *)
(* smoke sums both up, and `qa-lab tool-coverage` says of every declared   *)
(* tool whether it has product evidence.                                   *)
(* (src/packages/cli/src/openclaw-tool-smoke.ts, openclaw-dogfood.ts,      *)
(* published-package-smoke.ts, qa-lab-tool-coverage.ts)                    *)
(*                                                                         *)
(* The gateway of a profile, and what a tool does when it is called, may   *)
(* change between two calls of one smoke, and between two commands.  A     *)
(* report is a file: a command reads the ones that are there, whenever     *)
(* they were written.  The fields defects, asked, proven and answered of a *)
(* report are not in the file: they say what it rests on.                  *)
(***************************************************************************)
EXTENDS Naturals, Sequences, FiniteSets, SequencesExt

CONSTANTS ToolThreads, \* threads the tools may answer with
          NoThread,    \* none selected
          NoReport,    \* a file that is not there, a smoke that is not running
          MaxGateways, \* bound: how often the world changes
          MaxSmokes,   \* bound: how many smokes are started
          MaxRuns      \* bound: how often each other command is run

VARIABLES gateway,     \* per profile: "ready", "setup" (not paired), "down"
          broken,      \* tools that do not answer as they should
          plugin,      \* the plugin installed: "none", "old", "new"
          changes,     \* bound counter
          smoke,       \* the smoke that is running
          ran,         \* per command, how often it was run (bound)
          smokeReport, \* per profile: openclaw-tool-smoke.json
          dogfood,     \* dogfood-report.json
          published,   \* published-package-smoke.json
          coverage     \* tool-coverage.json

vars == << gateway, broken, plugin, changes, smoke, ran, smokeReport,
           dogfood, published, coverage >>

worldVars == << gateway, broken, plugin, changes >>
fileVars == << smokeReport, dogfood, published, coverage >>

-----------------------------------------------------------------------------
(* The declared tools, one of each kind the smoke tells apart.             *)

Profiles == { "clean", "configured" }
Commands == { "smoke", "dogfood", "published", "coverage" }
Declared == { "find", "describe", "send", "postCreate", "deliver" }
PublicFacade == { "find", "deliver" }
ThreadBound == { "describe", "send", "postCreate" }

Disposition(t) ==
  CASE t = "postCreate"              -> "expected_fail_closed"
    [] t = "send"                    -> "successful_dry_run"
    [] t \in { "find", "describe" }  -> "successful_invocation"
    [] OTHER                         -> "unknown_non_claim"

RequiredLists == { << "find", "describe" >>,                        \* default
                   << "find", "describe", "send", "postCreate" >>,  \* full
                   << "find", "deliver" >> }                        \* asked for

Catalog(p) == CASE p = "none" -> {}
                [] p = "old"  -> Declared \ { "send" }
                [] p = "new"  -> Declared

-----------------------------------------------------------------------------
(* The tool smoke.                                                         *)

GatewayBlockers(p) ==
  CASE gateway[p] = "ready" -> {}
    [] gateway[p] = "setup" -> { "gateway_setup" }
    [] gateway[p] = "down"  -> { "gateway_failed" }

CatalogBlockers(p, required) ==
  IF gateway[p] # "ready" THEN GatewayBlockers(p)
  ELSE (IF required \subseteq Catalog(plugin) THEN {} ELSE { "missing_tools" })
       \cup (IF \E t \in required : Disposition(t) = "unknown_non_claim"
             THEN { "unknown_disposition" } ELSE {})

\* A slip: one blocker that setting up the gateway would remove is enough.
SetupStatusOfAny(blockers) ==
  IF blockers = {} THEN "ready"
  ELSE IF "gateway_setup" \in blockers THEN "gateway_setup_required"
  ELSE "gateway_blocked"

SetupStatus(blockers) ==
  IF blockers = {} THEN "ready"
  ELSE IF \A b \in blockers : b = "gateway_setup" THEN "gateway_setup_required"
  ELSE "gateway_blocked"

Run(command) == ran' = [ran EXCEPT ![command] = @ + 1]

NotCalled == [t \in Declared |-> "none"]

StartSmoke(p, required, thread) ==
  /\ smoke = NoReport /\ ran["smoke"] < MaxSmokes
  /\ LET found == CatalogBlockers(p, ToSet(required)) IN
     smoke' = [profile |-> p, required |-> ToSet(required),
               todo |-> IF found = {} THEN required ELSE << >>,
               thread |-> thread, blockers |-> found, calls |-> NotCalled,
               defects |-> {}, asked |-> {}]
  /\ Run("smoke")
  /\ UNCHANGED << worldVars, fileVars >>

\* A slip: the tool is passed over like one that is excluded.
PassedOver == [smoke EXCEPT !.todo = Tail(@)]

(* A tool that needs a thread is not called while none is selected.        *)
MissingThread == [smoke EXCEPT !.todo = Tail(@),
                               !.blockers = @ \cup { "missing_thread" }]

(* What the reply of a tool that works proves, by its disposition: the     *)
(* post-create probe is good if it refuses as it should, and if it shows   *)
(* the thread to be there.                                                 *)
Replies(t) == IF t \in broken THEN { "bad" }
              ELSE IF Disposition(t) = "expected_fail_closed"
                   THEN { "refused", "good" }
              ELSE { "good" }

InvocationBlockers(t, reply) ==
  IF Disposition(t) = "successful_invocation" /\ reply # "good"
  THEN { "invocation_not_proven" } ELSE {}

DryRunBlockers(t, reply) ==
  IF Disposition(t) = "successful_dry_run" /\ reply # "good"
  THEN { "dry_run_not_proven" } ELSE {}

PersistedProven(t, reply) == t = "postCreate" /\ reply = "good"

FailClosedProven(reply) == reply = "refused"

FailClosedBlockers(t, reply) ==
  IF /\ Disposition(t) = "expected_fail_closed"
     /\ ~PersistedProven(t, reply) /\ ~FailClosedProven(reply)
  THEN { "fail_closed_not_proven" } ELSE {}

Blockers(t, reply) == InvocationBlockers(t, reply) \cup DryRunBlockers(t, reply)
                        \cup FailClosedBlockers(t, reply)

(* The first thread a reply names is the one of the calls that follow.     *)
SelectThread(selected, named) == IF selected # NoThread THEN selected ELSE named

Asked(t) == IF t \in ThreadBound THEN { smoke.thread } ELSE {}

(* A tool was called: what it adds to what blocks the smoke.               *)
Called(t, blockers, call, thread, defects) ==
  smoke' = [smoke EXCEPT !.todo = Tail(@), !.blockers = @ \cup blockers,
                         !.calls[t] = call, !.thread = thread,
                         !.defects = @ \cup defects, !.asked = @ \cup Asked(t)]

CallTool ==
  /\ smoke # NoReport /\ smoke.todo # << >>
  /\ LET t == Head(smoke.todo)
         p == smoke.profile
     IN \/ /\ t \in ThreadBound /\ smoke.thread = NoThread
           /\ smoke' = MissingThread
        \/ /\ t \in ThreadBound => smoke.thread # NoThread
           /\ gateway[p] # "ready"
           /\ Called(t, GatewayBlockers(p), "failed", smoke.thread,
                     IF gateway[p] = "setup" THEN {} ELSE { t })
        \/ /\ t \in ThreadBound => smoke.thread # NoThread
           /\ gateway[p] = "ready"
           /\ \E reply \in Replies(t), named \in ToolThreads \cup { NoThread } :
                Called(t, Blockers(t, reply),
                       IF Blockers(t, reply) = {} THEN "ok" ELSE "failed",
                       SelectThread(smoke.thread, named),
                       IF reply = "bad" THEN { t } ELSE {})
  /\ UNCHANGED << worldVars, ran, fileVars >>

WriteSmokeReport ==
  /\ smoke # NoReport /\ smoke.todo = << >>
  /\ smokeReport' = [smokeReport EXCEPT ![smoke.profile] =
       [required |-> smoke.required, blockers |-> smoke.blockers,
        calls |-> smoke.calls, status |-> SetupStatus(smoke.blockers),
        defects |-> smoke.defects, asked |-> smoke.asked]]
  /\ smoke' = NoReport
  /\ UNCHANGED << worldVars, ran, dogfood, published, coverage >>

-----------------------------------------------------------------------------
(* Dogfood: an install that finds a plugin there leaves it as it is.       *)

InstallOutcomes == { "not_attempted", "installed", "already_installed", "failed" }

DogfoodReady(p, listed) == listed /\ p # "none"
                             /\ { "find", "describe" } \subseteq Catalog(p)

Dogfood(outcome, listed) ==
  /\ ran["dogfood"] < MaxRuns /\ Run("dogfood")
  /\ outcome = "already_installed" => plugin # "none"
  /\ plugin' = IF outcome = "installed" THEN "new" ELSE plugin
  /\ dogfood' = [ready |-> DogfoodReady(plugin', listed), outcome |-> outcome]
  /\ UNCHANGED << gateway, broken, changes, smoke, smokeReport,
                  published, coverage >>

-----------------------------------------------------------------------------
(* The published-package smoke reads the reports of the two others.        *)

Probes == { "candidate", "mismatch", "missing" }

PathOk(clean, probe, registryOk) ==
  /\ dogfood.ready /\ dogfood.outcome \in { "installed", "already_installed" }
  /\ clean.status \in { "ready", "gateway_setup_required" }
  /\ probe = "candidate" /\ registryOk

(* The tools the smoke of the configured profile called, however they      *)
(* answered.                                                               *)
InvokedTools(report) == IF report = NoReport THEN {}
                        ELSE { t \in Declared : report.calls[t] # "none" }

OkTools(report) == IF report = NoReport THEN {}
                   ELSE { t \in Declared : report.calls[t] = "ok" }

PublishedSmoke(probe, registryOk, configured) ==
  /\ ran["published"] < MaxRuns /\ Run("published")
  /\ dogfood # NoReport /\ smokeReport["clean"] # NoReport
  /\ LET clean == smokeReport["clean"]
         other == IF configured THEN smokeReport["configured"] ELSE NoReport
         ok == PathOk(clean, probe, registryOk)
     IN published' = [pathOk |-> ok, ready |-> ok /\ clean.blockers = {},
                      setup |-> clean.status = "gateway_setup_required",
                      configured |-> other # NoReport /\ other.status = "ready",
                      also |-> IF other = NoReport THEN {} ELSE other.defects,
                      invoked |-> InvokedTools(other),
                      answered |-> OkTools(other), defects |-> clean.defects]
  /\ UNCHANGED << worldVars, smoke, smokeReport, dogfood, coverage >>

\* A slip: that the gateway still has to be set up may be allowed as it is.
TakenAsAllowed(allowSetup) ==
  /\ published # NoReport /\ published.pathOk
  /\ IF published.setup THEN allowSetup ELSE published.ready

(* The GA smoke takes a package whose gateway still has to be set up, when *)
(* told so, if the gateway of the configured profile is proven instead.    *)
GaTakesPublished(allowSetup) ==
  /\ published # NoReport /\ published.pathOk
  /\ IF published.setup THEN allowSetup /\ published.configured
     ELSE published.ready

-----------------------------------------------------------------------------
(* Tool coverage.                                                          *)

(* The tools the reports say were invoked and ok: a tool the published     *)
(* smoke lists counts as ok, and ok in one report outweighs failed in      *)
(* another.                                                                *)
Invoked(report, pub) ==
  OkTools(report) \cup (IF pub = NoReport THEN {} ELSE pub.invoked)

RequiredForPolicy(policy) ==
  IF policy = "full" THEN Declared ELSE PublicFacade

EvidenceOk(report, pub, dog) ==
  /\ report # NoReport /\ report.blockers = {} /\ report.status = "ready"
  /\ pub # NoReport => pub.pathOk /\ pub.ready
  /\ dog # NoReport => dog.ready

Coverage(policy, from, withPublished, withDogfood) ==
  /\ ran["coverage"] < MaxRuns /\ Run("coverage")
  /\ LET report == smokeReport[from]
         pub == IF withPublished THEN published ELSE NoReport
         dog == IF withDogfood THEN dogfood ELSE NoReport
         rows == Invoked(report, pub)
         accepted == EvidenceOk(report, pub, dog)
     IN coverage' = [rows |-> rows, accepted |-> accepted,
                     ready |-> /\ accepted
                               /\ RequiredForPolicy(policy) \subseteq rows
                               /\ PublicFacade \subseteq rows,
                     proven |-> OkTools(report) \cup
                       (IF pub = NoReport THEN {} ELSE pub.answered)]
  /\ UNCHANGED << worldVars, smoke, smokeReport, dogfood, published >>

-----------------------------------------------------------------------------
(* Pairing, tokens, the tools themselves: none of it is the package's.     *)
Change ==
  /\ changes < MaxGateways
  /\ changes' = changes + 1
  /\ \/ \E p \in Profiles, g \in { "ready", "setup", "down" } :
          g # gateway[p] /\ gateway' = [gateway EXCEPT ![p] = g]
            /\ UNCHANGED broken
     \/ \E t \in { "send", "postCreate" } :
          broken' = (IF t \in broken THEN broken \ { t } ELSE broken \cup { t })
            /\ UNCHANGED gateway
  /\ UNCHANGED << plugin, smoke, ran, fileVars >>

(* The configured profile may have been smoked before.                     *)
EarlierReport ==
  [required |-> { "find", "describe" }, blockers |-> {}, status |-> "ready",
   calls |-> [t \in Declared |-> IF t \in { "find", "describe" } THEN "ok"
                                  ELSE "none"],
   defects |-> {}, asked |-> {}]

Init ==
  /\ gateway \in [Profiles -> { "ready", "setup" }]
  /\ broken \in { {}, { "describe" } }
  /\ plugin \in { "none", "old" }
  /\ changes = 0
  /\ smoke = NoReport
  /\ ran = [c \in Commands |-> 0]
  /\ \E earlier \in { NoReport, EarlierReport } :
       smokeReport = [p \in Profiles |->
                        IF p = "configured" THEN earlier ELSE NoReport]
  /\ dogfood = NoReport
  /\ published = NoReport
  /\ coverage = NoReport

Next ==
  \/ \E p \in Profiles, required \in RequiredLists,
        thread \in ToolThreads \cup { NoThread } : StartSmoke(p, required, thread)
  \/ CallTool
  \/ WriteSmokeReport
  \/ \E outcome \in InstallOutcomes, listed \in BOOLEAN :
       Dogfood(outcome, listed)
  \/ \E probe \in Probes, registryOk, configured \in BOOLEAN :
       PublishedSmoke(probe, registryOk, configured)
  \/ \E policy \in { "full", "public-facade" }, from \in Profiles,
        withPublished, withDogfood \in BOOLEAN :
       Coverage(policy, from, withPublished, withDogfood)
  \/ Change

Spec == Init /\ [][Next]_vars

\* The threads may change places.
Alike == Permutations(ToolThreads)

-----------------------------------------------------------------------------
(* A smoke that says it is ready has called every tool that was required,  *)
(* each was proven by its own reply, and all of those that take a thread   *)
(* were asked about the same one.                                          *)
ReadySmokeAskedAll ==
  \A p \in Profiles :
    LET r == smokeReport[p] IN
    r # NoReport /\ r.status = "ready" =>
      /\ r.required \subseteq OkTools(r)
      /\ r.defects = {}
      /\ Cardinality(r.asked) <= 1

(* A package whose path is said to be ok, be it with a gateway that still  *)
(* has to be set up, had no tool that failed for another reason in the     *)
(* smoke this rests on; and a GA smoke takes it only if one of its smokes  *)
(* has called the tools and found none.                                    *)
PathOkHidesNoDefect ==
  published # NoReport /\ published.pathOk =>
    /\ published.defects = {}
    /\ \A allowSetup \in BOOLEAN : GaTakesPublished(allowSetup) =>
         published.ready \/ (published.configured /\ published.also = {})

(* What the smokes say of the tools is what the tools answered.            *)
SmokesAreHonest == ReadySmokeAskedAll /\ PathOkHidesNoDefect

(* "Public facade tools have product invocation evidence" and, under the   *)
(* full policy, so has every declared tool (docs/QA_LAB.md): a tool whose  *)
(* row is covered was called, and its reply was proven, in one of the      *)
(* reports the rows are taken from, none of which has a blocker.           *)
CoveredRowsWereProven ==
  coverage # NoReport /\ coverage.accepted =>
    coverage.rows \subseteq coverage.proven

-----------------------------------------------------------------------------
(* What every step keeps: what a smoke has found so far, and what its      *)
(* report says of it.                                                      *)

TypeInv ==
  /\ \A p \in Profiles : gateway[p] \in { "ready", "setup", "down" }
  /\ plugin \in { "none", "old", "new" }
  /\ smokeReport = [p \in Profiles |-> smokeReport[p]]
  /\ smoke # NoReport => /\ smoke.profile \in Profiles
                         /\ smoke.required \subseteq Declared
                         /\ smoke.todo \in Seq(Declared)
                         /\ smoke.calls = [t \in Declared |-> smoke.calls[t]]
                         /\ { "profile", "required", "todo", "thread", "blockers",
                              "calls", "defects", "asked" } \subseteq DOMAIN smoke
                         /\ smoke = [f \in DOMAIN smoke |-> smoke[f]]

(* A defect is not blamed on a gateway that has to be set up.              *)
Blamed(found) == found.defects # {} => \E b \in found.blockers : b # "gateway_setup"

(* As long as nothing blocks, what is required was proven or is still to   *)
(* be called; and no tool is called whose reply would prove nothing.       *)
SmokeInv ==
  smoke # NoReport =>
    /\ Blamed(smoke)
    /\ smoke.blockers = {} => \A t \in smoke.required :
         smoke.calls[t] = "ok" \/ \E i \in DOMAIN smoke.todo : smoke.todo[i] = t
    /\ \A i \in DOMAIN smoke.todo : smoke.todo[i] # "deliver"
    /\ \A th \in smoke.asked : th = smoke.thread /\ th # NoThread

Reported(r) ==
  /\ Blamed(r) /\ r.status = SetupStatus(r.blockers)
  /\ r.required \subseteq Declared
  /\ r.blockers = {} => \A t \in r.required : r.calls[t] = "ok"
  /\ \A th, other \in r.asked : th = other

ReportInv ==
  /\ \A p \in Profiles : smokeReport[p] # NoReport => Reported(smokeReport[p])
  /\ published # NoReport /\ published.pathOk =>
       published.defects = {} /\ (published.configured => published.also = {})

ToolsInv == TypeInv /\ SmokeInv /\ ReportInv
=============================================================================
