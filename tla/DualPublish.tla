----------------------------- MODULE DualPublish ----------------------------
(* A release is published to npm under two names                           *)
(* (.github/workflows/publish-npm.yml, scripts/prepare-dual-npm-release    *)
(* .mjs, scripts/check-npm-release-slots.mjs).  The tag of a version       *)
(* starts a run: one job validates and prepares both packages, the other   *)
(* publishes them, one after the other.  Either job may fail at any step   *)
(* and be run again, alone or with the other.  Runs of one tag queue, runs *)
(* of different tags do not, and both move the same dist-tag.              *)
EXTENDS Integers, FiniteSets

CONSTANTS Releases,    \* the versions that are tagged, all for one dist-tag
          MaxBuilds,   \* the packages that one version's runs prepare
          MaxReruns    \* how often jobs are run again

Names == {"canonical", "compatibility"}

VARIABLES
  registry, \* of each name and version the build that is published, or 0
  distTag,  \* of each name the version it names, or 0
  visible,  \* the names and versions that a lookup finds already
  step,     \* of each version's run: its next step
  builds,   \* of each version: how many were prepared
  kept,     \* of each version: the build that validation preserved, or 0
  state,    \* of each version's run: what it found of each name
  reruns

vars == << registry, distTag, visible, step, builds, kept, state, reruns >>
npm == << registry, distTag, visible >>

Init ==
  /\ registry = [n \in Names |-> [v \in Releases |-> 0]]
  /\ distTag = [n \in Names |-> 0] /\ visible = {}
  /\ step = [v \in Releases |-> << "prepare" >>]
  /\ builds = [v \in Releases |-> 0] /\ kept = builds
  /\ state = [v \in Releases |-> [n \in Names |-> "unknown"]]
  /\ reruns = 0

-----------------------------------------------------------------------------
\* A build is one packed source with its name written into it twice: the
\* packages of one build differ in their name and in nothing else.
Prepare(v) ==
  /\ step[v] = << "prepare" >> /\ builds[v] < MaxBuilds
  /\ builds' = [builds EXCEPT ![v] = @ + 1]
  /\ step' = [step EXCEPT ![v] = << "unused", "canonical" >>]
  /\ UNCHANGED << npm, kept, state, reruns >>

Published(n, v) == << n, v >> \in visible

\* Slip: what is published under the version matches, whatever it is.
MatchesByVersion(n, v, build) == distTag[n] = v

Matches(n, v, build) == registry[n][v] = build /\ distTag[n] = v

\* Both slots are looked up before anything is kept.
CheckUnused(v, n, next) ==
  /\ step[v] = << "unused", n >> /\ ~Published(n, v)
  /\ step' = [step EXCEPT ![v] = next]
  /\ kept' = IF next = << "download" >> THEN [kept EXCEPT ![v] = builds[v]] ELSE kept
  /\ UNCHANGED << npm, builds, state, reruns >>

\* The artifacts arrive as they were kept: their checksums are the manifest's.
Download(v) ==
  /\ step[v] = << "download" >> /\ kept[v] # 0
  /\ step' = [step EXCEPT ![v] = << "recheck", "canonical" >>]
  /\ UNCHANGED << npm, builds, kept, state, reruns >>

\* A slot is missing, or has this very build under the dist-tag.
Recheck(v, n, next) ==
  /\ step[v] = << "recheck", n >>
  /\ Published(n, v) => Matches(n, v, kept[v])
  /\ state' = [state EXCEPT ![v][n] = IF Published(n, v) THEN "matching" ELSE "missing"]
  /\ step' = [step EXCEPT ![v] = next]
  /\ UNCHANGED << npm, builds, kept, reruns >>

Done(v, n, next) ==
  /\ step[v] = << "publish", n >> /\ state[v][n] = "matching"
  /\ step' = [step EXCEPT ![v] = next]
  /\ UNCHANGED << npm, builds, kept, state, reruns >>

\* The registry takes a version of a name once.  The answer may be lost.
Publish(v, n, next) ==
  /\ step[v] = << "publish", n >> /\ state[v][n] = "missing"
  /\ registry[n][v] = 0
  /\ registry' = [registry EXCEPT ![n][v] = kept[v]]
  /\ distTag' = [distTag EXCEPT ![n] = v]
  /\ step' \in {[step EXCEPT ![v] = s] : s \in {next, << "failed", "publish" >>}}
  /\ UNCHANGED << visible, builds, kept, state, reruns >>

Propagate(n, v) ==
  /\ registry[n][v] # 0 /\ visible' = visible \cup {<< n, v >>} /\ visible' # visible
  /\ UNCHANGED << registry, distTag, step, builds, kept, state, reruns >>

Verify(v, n, next) ==
  /\ step[v] = << "verify", n >>
  /\ Published(n, v) /\ Matches(n, v, kept[v])
  /\ step' = [step EXCEPT ![v] = next]
  /\ UNCHANGED << npm, builds, kept, state, reruns >>

Job(v) == IF step[v][1] \in {"prepare", "unused"} THEN "validate" ELSE "publish"
Stopped(v) == step[v][1] \in {"failed", "green"}

\* A check throws, a command or the network fails, or the job times out.
Fail(v) ==
  /\ ~Stopped(v) /\ step' = [step EXCEPT ![v] = << "failed", Job(v) >>]
  /\ UNCHANGED << npm, builds, kept, state, reruns >>

\* The failed job is run again, or both are.
Rerun(v, from) ==
  /\ Stopped(v) /\ reruns < MaxReruns /\ reruns' = reruns + 1
  /\ from = << "download" >> => step[v] = << "failed", "publish" >>
  /\ step' = [step EXCEPT ![v] = from]
  /\ UNCHANGED << npm, builds, kept, state >>

Next ==
  \/ \E v \in Releases :
       \/ Prepare(v) \/ Download(v) \/ Fail(v)
       \/ CheckUnused(v, "canonical", << "unused", "compatibility" >>)
       \/ CheckUnused(v, "compatibility", << "download" >>)
       \/ Recheck(v, "canonical", << "recheck", "compatibility" >>)
       \/ Recheck(v, "compatibility", << "publish", "canonical" >>)
       \/ Done(v, "canonical", << "publish", "compatibility" >>)
       \/ Done(v, "compatibility", << "verify", "canonical" >>)
       \/ Publish(v, "canonical", << "publish", "compatibility" >>)
       \/ Publish(v, "compatibility", << "verify", "canonical" >>)
       \/ Verify(v, "canonical", << "verify", "compatibility" >>)
       \/ Verify(v, "compatibility", << "green" >>)
       \/ \E from \in {<< "prepare" >>, << "download" >>} : Rerun(v, from)
  \/ \E n \in Names, v \in Releases : Propagate(n, v)

Spec == Init /\ [][Next]_vars

-----------------------------------------------------------------------------
(* Under both names a version is the same build, however often its jobs    *)
(* failed and were run again, even if a lookup does not find at once what  *)
(* is published; a green run has published both; and when every run is     *)
(* green, the dist-tag of both names is on the same version, though runs   *)
(* of two versions overlapped.                                             *)
NamesStayAlike ==
  /\ \A v \in Releases :
       /\ registry["canonical"][v] # 0 /\ registry["compatibility"][v] # 0 =>
            registry["canonical"][v] = registry["compatibility"][v]
       /\ step[v] = << "green" >> => \A n \in Names : registry[n][v] # 0
  /\ (\A v \in Releases : step[v] = << "green" >>) =>
       distTag["canonical"] = distTag["compatibility"]

-----------------------------------------------------------------------------
(* Why NamesStayAlike holds.  A run publishes, and finds matching, only    *)
(* what its validation kept, the canonical name first; and it verifies the *)
(* dist-tag of both names only when it has published both.                 *)
Steps ==
  {<< "prepare" >>, << "download" >>, << "green" >>}
    \cup ({"unused", "recheck", "publish", "verify"} \X Names)
    \cup ({"failed"} \X {"validate", "publish"})

TypeInv ==
  /\ registry \in [Names -> [Releases -> Nat]]
  /\ distTag \in [Names -> Releases \cup {0}]
  /\ step \in [Releases -> Steps]
  /\ builds \in [Releases -> Nat] /\ kept \in [Releases -> Nat]
  /\ state \in [Releases -> [Names -> {"unknown", "matching", "missing"}]]

Kept(n, v) == registry[n][v] = kept[v] /\ kept[v] # 0

\* The run is past its check, or its publication, of a name.
At(v, phase, n) == step[v][1] = phase /\ step[v][2] = n

Rechecked(n, v) ==
  \/ step[v][1] \in {"publish", "verify", "green"}
  \/ n = "canonical" /\ At(v, "recheck", "compatibility")

Placed(n, v) ==
  \/ step[v][1] \in {"verify", "green"}
  \/ n = "canonical" /\ At(v, "publish", "compatibility")

RunInv(v) ==
  /\ step[v][1] \in {"recheck", "publish", "verify", "green"} => kept[v] # 0
  /\ \A n \in Names :
       /\ Rechecked(n, v) /\ state[v][n] = "matching" => Kept(n, v)
       /\ Placed(n, v) => Kept(n, v)

RegistryInv ==
  /\ \A n \in Names, v \in Releases :
       /\ registry[n][v] # 0 => distTag[n] \in Releases
       /\ << n, v >> \in visible => registry[n][v] # 0
  /\ \A v \in Releases :
       registry["compatibility"][v] # 0 =>
         registry["compatibility"][v] = registry["canonical"][v]

\* The version a name was moved to last can not have been verified under it before.
TagInv ==
  \A v, w \in Releases :
    distTag["canonical"] = v /\ distTag["compatibility"] = w /\ v # w =>
      ~(step[v][1] = "green" /\ (step[w][1] = "green" \/ At(w, "verify", "compatibility")))

AlikeInv == TypeInv /\ (\A v \in Releases : RunInv(v)) /\ RegistryInv /\ TagInv
=============================================================================
