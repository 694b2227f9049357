--------------------------- MODULE DerivedHarness ---------------------------
(* What LCO's harnesses claim, and what a release is said to rest on. *)
EXTENDS Derived

CONSTANTS Actors, Refs, NoFile, ApprovalTtl, MaxHour, MaxLaunches, MaxKeys,
          Operators, Dirs, Actions, Sacrificed, TailLimit, MaxAudit, MaxPerformed, MaxWall,
          Runs,
          ToolThreads, NoThread, NoReport, MaxGateways, MaxSmokes, MaxRuns,
          TriedThreads, NoSha, MaxHead, MaxMakes,
          MaxUnread,
          MaxRequests, MaxRepairs,
          Releases, MaxBuilds, MaxReruns

Evidence == INSTANCE ReleaseEvidence WITH
  hour <- v1, key <- v2, keysMade <- v3, permit <- v4, observed <- v5,
  guiApproval <- v6, runtimeProof <- v7, acting <- v8, launches <- v9, gate <- v10,
  verdict <- v11

Proofs == INSTANCE LiveProofs WITH
  wall <- v1, audit <- v2, performed <- v3, stored <- v4, reading <- v5,
  overlapped <- v6, smoke <- v7, liveReport <- v8, liveProof <- v9,
  refreshProof <- v10, direct <- v11, refresh <- v12

\* What is nobody's report or number is none, and a control may be a send.
ASSUME SmokesAreTold ==
  /\ NoFile \notin Nat \cup Proofs!Reports
  /\ "send" \in Actions

Route == INSTANCE IdleRoute WITH
  installed <- v1, receipt <- v2, run <- v3

Tools == INSTANCE ToolEvidence WITH
  gateway <- v1, broken <- v2, plugin <- v3, changes <- v4, smoke <- v5, ran <- v6,
  smokeReport <- v7, dogfood <- v8, published <- v9, coverage <- v10

Chain == INSTANCE EvidenceChain WITH
  head <- v1, file <- v2, makes <- v3

\* A thread is there to be tried on, a candidate has a name.
ASSUME CandidatesAreTold == NoFile \notin TriedThreads /\ NoSha \notin Nat

Probe == INSTANCE ProductProbe WITH
  cliProbe <- v1, requests <- v2, pending <- v3, stdout <- v4, served <- v5,
  tools <- v6, invalid <- v7, pendingSuccess <- v8, timer <- v9, child <- v10,
  mcpProbe <- v11

\* What the probe resolves to, and what its tool answers, is not nothing.
ASSUME ProbesAreTold ==
  NoResult \notin BOOLEAN \cup [ready : BOOLEAN, ok : BOOLEAN, silent : BOOLEAN]

\* A session has a request, the one that initializes it.
ASSUME SessionsAreAsked == MaxRequests \in Nat \ {0}

Mcp == INSTANCE McpSession WITH
  phase <- v1, status <- v2, got <- v3, lines <- v4, answers <- v5, asked <- v6,
  server <- v7, runtime <- v8, leaky <- v9, running <- v10, broken <- v11,
  brokenAt <- v12, repairs <- v13

Dual == INSTANCE DualPublish WITH
  registry <- v1, distTag <- v2, visible <- v3, step <- v4, builds <- v5, kept <- v6,
  state <- v7, reruns <- v8

HarnessInit ==
  \/ Only("evidence", 11) /\ Evidence!Init
  \/ Only("proofs", 12) /\ Proofs!Init
  \/ Only("route", 3) /\ Route!Init
  \/ Only("tools", 10) /\ Tools!Init
  \/ Only("chain", 3) /\ Chain!Init
  \/ Only("probe", 11) /\ Probe!Init
  \/ Only("mcp", 13) /\ Mcp!Init
  \/ Only("publish", 8) /\ Dual!Init

EvidenceNext ==
  /\ component = "evidence" /\ Evidence!Next
  /\ UNCHANGED << component, v12, v13, v14, v15, v16 >>

ProofsNext ==
  /\ component = "proofs" /\ Proofs!Next
  /\ UNCHANGED << component, v13, v14, v15, v16 >>

RouteNext ==
  /\ component = "route" /\ Route!Next
  /\ UNCHANGED << component, v4, v5, v6, v7, v8, v9, v10, v11, v12, v13, v14, v15,
                  v16 >>

ToolsNext ==
  /\ component = "tools" /\ Tools!Next
  /\ UNCHANGED << component, v11, v12, v13, v14, v15, v16 >>

ChainNext ==
  /\ component = "chain" /\ Chain!Next
  /\ UNCHANGED << component, v4, v5, v6, v7, v8, v9, v10, v11, v12, v13, v14, v15,
                  v16 >>

ProbeNext ==
  /\ component = "probe" /\ Probe!Next
  /\ UNCHANGED << component, v12, v13, v14, v15, v16 >>

McpNext ==
  /\ component = "mcp" /\ Mcp!Next
  /\ UNCHANGED << component, v14, v15, v16 >>

DualNext ==
  /\ component = "publish" /\ Dual!Next
  /\ UNCHANGED << component, v9, v10, v11, v12, v13, v14, v15, v16 >>

HarnessNext ==
  \/ EvidenceNext \/ ProofsNext \/ RouteNext \/ ToolsNext \/ ChainNext \/ ProbeNext
  \/ McpNext \/ DualNext

HarnessSpec == HarnessInit /\ [][HarnessNext]_vars

----------------------------------------------------------------------------
\* A release that is ready rests on an approved launch (ReleaseEvidence).
ReadyIsEarned == component = "evidence" => Evidence!ReadyIsEarned

\* Whatever says that a control ran rests on one that did (LiveProofs).
ProofsAreEarned == component = "proofs" => Proofs!ProofsAreEarned

\* What a run of the idle-route harness has said stays true (IdleRoute).
ReceiptIsTrue == component = "route" => Route!ReceiptIsTrue

\* What the smokes say of the tools is what the tools answered (ToolEvidence).
SmokesAreHonest == component = "tools" => Tools!SmokesAreHonest

\* A GA smoke that is ready rests on reports that were, and of its candidate (EvidenceChain).
GaIsGrounded == component = "chain" => Chain!GaIsGrounded

\* A candidate passes only if its server answered as it should (ProductProbe).
PassesOnlyIfServed == [][component = "probe" => Probe!PassStep]_vars

\* A request of a session with the MCP server is settled by its own answer (McpSession).
CallsGetTheirAnswers == component = "mcp" => Mcp!CallsGetTheirAnswers

\* A release is the same under both its names (DualPublish).
NamesStayAlike == component = "publish" => Dual!NamesStayAlike
=============================================================================
