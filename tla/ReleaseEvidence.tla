-------------------------- MODULE ReleaseEvidence --------------------------
(***************************************************************************)
(* The desktop evidence of a release (packages/adapters/src/index.ts and   *)
(* packages/cli/src/release-status.ts).  A harness signs an approval of    *)
(* one action; the action, with that approval, launches an application and *)
(* leaves an observation if its output and the focus bear it out; a proof  *)
(* report turns an observation into an approval of the release and a       *)
(* runtime proof; the release status asks for both.  Each is a process of  *)
(* its own and they meet in the files of an evidence directory, which have *)
(* no locks and are replaced one by one.                                   *)
(*                                                                         *)
(* The target, window and action are the only ones the action allows, so   *)
(* that every action hash is the same.  An hour is the unit of the TTL.    *)
(***************************************************************************)
EXTENDS Naturals, Sequences

CONSTANTS Actors,            \* the processes that run the action
          Refs,              \* approval references
          NoFile,
          ApprovalTtl,       \* DESKTOP_GUI_APPROVAL_TTL_MS
          MaxHour, MaxLaunches, MaxKeys  \* bounds

VARIABLES
  hour,
  key, keysMade, \* the signing key there is, 0 if none; how many there were
  permit,        \* desktop-proof-action-approval.json
  observed,      \* desktop-gui-observation.json
  guiApproval,   \* desktop-gui-approval.json
  runtimeProof,  \* desktop-collaboration-action-bound-v1-1.runtime-proof.json
  acting,        \* what each action is at
  launches,      \* history: what was launched, on what grounds, and the outcome
  gate,          \* the approval that the release status has read
  verdict        \* the approval that a release status that is ready rests on

dirVars == << permit, observed, guiApproval, runtimeProof >>
vars == << hour, key, keysMade, dirVars, acting, launches, gate, verdict >>

Resting == [at |-> "idle", ref |-> NoFile, permit |-> NoFile, launch |-> 0]

Init ==
  /\ hour = 0 /\ key = 0 /\ keysMade = 0
  /\ permit = NoFile /\ observed = NoFile /\ guiApproval = NoFile /\ runtimeProof = NoFile
  /\ acting = [a \in Actors |-> Resting]
  /\ launches = << >>
  /\ gate = NoFile /\ verdict = NoFile

\* What is signed at an hour holds for a TTL.
Unexpired(file) == hour < file.issued + ApprovalTtl

----------------------------------------------------------------------------
\* writeDesktopLiveProofHarness: ready, with a key made if there is none, or not,
\* and then an approval that is there is unlinked.
Harness(ref) ==
  /\ \/ /\ key # 0 \/ keysMade < MaxKeys
        /\ key' = IF key = 0 THEN keysMade + 1 ELSE key
        /\ keysMade' = IF key = 0 THEN keysMade + 1 ELSE keysMade
        /\ permit' = [ref |-> ref, issued |-> hour, key |-> key']
     \/ /\ permit' = NoFile
        /\ UNCHANGED << key, keysMade >>
  /\ UNCHANGED << hour, observed, guiApproval, runtimeProof, acting, launches, gate, verdict >>

\* parseDesktopProofActionArgs: the approval file is read first.
CallAction(a, ref) ==
  /\ acting[a].at = "idle"
  /\ acting' = [acting EXCEPT ![a] = [Resting EXCEPT !.at = "validate", !.ref = ref,
                                                     !.permit = permit]]
  /\ UNCHANGED << hour, key, keysMade, dirVars, launches, gate, verdict >>

\* validateDesktopProofActionApproval
Permitted(a) ==
  LET p == acting[a].permit
  IN p # NoFile /\ p.ref = acting[a].ref /\ Unexpired(p) /\ key # 0 /\ p.key = key

\* createDesktopProofAction, up to its launch: anything else may block it too.
Validate(a) ==
  /\ acting[a].at = "validate"
  /\ \E at \in IF Permitted(a) THEN {"launch", "write"} ELSE {"write"} :
       acting' = [acting EXCEPT ![a].at = at]
  /\ UNCHANGED << hour, key, keysMade, dirVars, launches, gate, verdict >>

\* What may be amiss with a launch, one thing at a time: the driver's exit status,
\* its word that the application did not activate itself, the window it names,
\* the focus before and after.
Faults == {"status", "activation", "target", "focus"}

\* A slip: an application that activates itself let through.
Seen(l) == l.amiss \notin Faults \ {"activation"}

\* proofActionReady
ActionReady(l) == l.amiss \notin Faults

Launch(a) ==
  /\ acting[a].at = "launch" /\ Len(launches) < MaxLaunches
  /\ \E amiss \in Faults \cup {"nothing"} :
       LET l == [ref |-> acting[a].ref, permitted |-> acting[a].permit.ref, amiss |-> amiss]
       IN /\ launches' = Append(launches, l)
          /\ acting' = [acting EXCEPT ![a].at = "write",
                          ![a].launch = IF ActionReady(l) THEN Len(launches') ELSE 0]
  /\ UNCHANGED << hour, key, keysMade, dirVars, gate, verdict >>

\* writeDesktopProofAction
Observation(a) == IF acting[a].launch = 0 THEN NoFile
                  ELSE [ref |-> acting[a].ref, launch |-> acting[a].launch]

WriteObservation(a) ==
  /\ acting[a].at = "write"
  /\ observed' = Observation(a)
  /\ acting' = [acting EXCEPT ![a] = Resting]
  /\ UNCHANGED << hour, key, keysMade, permit, guiApproval, runtimeProof, launches, gate,
                  verdict >>

DieActing(a) ==
  /\ acting[a].at # "idle"
  /\ acting' = [acting EXCEPT ![a] = Resting]
  /\ UNCHANGED << hour, key, keysMade, dirVars, launches, gate, verdict >>

\* writeDesktopGuiProofReport, of the observation there is; it may die between
\* its two files.  One that is not ready writes neither and removes neither.
Report ==
  /\ observed # NoFile
  /\ guiApproval' = [ref |-> observed.ref, issued |-> hour, launch |-> observed.launch]
  /\ runtimeProof' \in {runtimeProof, [launch |-> observed.launch]}
  /\ UNCHANGED << hour, key, keysMade, permit, observed, acting, launches, gate, verdict >>

----------------------------------------------------------------------------
\* createReleaseStatus: the release approval first, the runtime proof after.
ReadApproval ==
  /\ gate = NoFile /\ guiApproval # NoFile /\ Unexpired(guiApproval)
  /\ gate' = guiApproval
  /\ UNCHANGED << hour, key, keysMade, dirVars, acting, launches, verdict >>

\* The preflight and the other approvals may block it as well.
Conclude ==
  /\ gate # NoFile
  /\ \E others \in BOOLEAN :
       verdict' = IF others /\ runtimeProof # NoFile THEN gate ELSE NoFile
  /\ gate' = NoFile
  /\ UNCHANGED << hour, key, keysMade, dirVars, acting, launches >>

LoseKey ==
  /\ key # 0 /\ key' = 0
  /\ UNCHANGED << hour, keysMade, dirVars, acting, launches, gate, verdict >>

TimePasses ==
  /\ hour < MaxHour /\ hour' = hour + 1
  /\ UNCHANGED << key, keysMade, dirVars, acting, launches, gate, verdict >>

Next ==
  \/ \E ref \in Refs : Harness(ref)
  \/ \E a \in Actors :
       \/ \E ref \in Refs : CallAction(a, ref)
       \/ Validate(a) \/ Launch(a) \/ WriteObservation(a) \/ DieActing(a)
  \/ Report \/ ReadApproval \/ Conclude \/ LoseKey \/ TimePasses

Spec == Init /\ [][Next]_vars

----------------------------------------------------------------------------
Earned(file) ==
  /\ file.launch \in DOMAIN launches
  /\ launches[file.launch].amiss = "nothing"
  /\ launches[file.launch].ref = launches[file.launch].permitted

\* A release that is ready to claim the desktop rests on a launch that was
\* approved under its own reference and borne out by its output and by the focus,
\* and so does every approval and proof that a later status may read: whichever
\* processes wrote over each other's files, died between two of them, or lost the
\* key.  What is written by hand is left aside.
ReadyIsEarned ==
  /\ verdict # NoFile => Earned(verdict) /\ launches[verdict.launch].ref = verdict.ref
  /\ guiApproval # NoFile => Earned(guiApproval)
  /\ runtimeProof # NoFile => Earned(runtimeProof)

----------------------------------------------------------------------------
(* Why ReadyIsEarned holds: a launch is recorded before the first file that *)
(* names it, launches are only added to, and each file is made of the one   *)
(* before it, from the action that launched to the verdict.                 *)
Permits  == [ref : Refs, issued : Nat, key : Nat]
Launches == [ref : Refs, permitted : Refs, amiss : Faults \cup {"nothing"}]
Acts     == [at : {"idle", "validate", "launch", "write"}, ref : Refs \cup {NoFile},
             permit : Permits \cup {NoFile}, launch : Nat]

TypeInv ==
  /\ hour \in Nat /\ key \in Nat /\ keysMade \in Nat
  /\ permit \in Permits \cup {NoFile}
  /\ acting \in [Actors -> Acts]
  /\ launches \in Seq(Launches)

\* The file names a launch that was approved under the reference it bears.
Grounded(file) == Earned(file) /\ launches[file.launch].ref = file.ref

ActingInv ==
  \A a \in Actors :
    /\ acting[a].at = "validate" => acting[a].ref \in Refs /\ acting[a].launch = 0
    /\ acting[a].at = "launch" =>
         acting[a].ref \in Refs /\ acting[a].permit \in Permits
           /\ acting[a].permit.ref = acting[a].ref
    /\ acting[a].at = "write" /\ acting[a].launch # 0 => Grounded(acting[a])

FilesInv ==
  /\ observed # NoFile => Grounded(observed)
  /\ guiApproval # NoFile => Grounded(guiApproval)
  /\ runtimeProof # NoFile => Earned(runtimeProof)
  /\ gate # NoFile => Grounded(gate)
  /\ verdict # NoFile => Grounded(verdict)

EvidenceInv == TypeInv /\ ActingInv /\ FilesInv
=============================================================================
