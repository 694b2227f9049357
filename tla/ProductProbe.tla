---------------------------- MODULE ProductProbe ----------------------------
(***************************************************************************)
(* The product smoke of a candidate: its CLI is asked for its help and its *)
(* version, then its MCP server is started and asked to initialize, to     *)
(* list its tools and to run one, over its pipes.                          *)
(* (packages/cli/src/cli-mcp-product-smoke.ts)                             *)
(*                                                                         *)
(* The server is whatever was packaged.  It may answer late, before it is  *)
(* asked, twice, or what nobody asked, linger after its last answer, or    *)
(* exit at any time; timers race its lines.  Lines that are no response    *)
(* change nothing and are left out, and so is a last line without its end, *)
(* which is never read.                                                    *)
(***************************************************************************)
EXTENDS Naturals, Sequences

CONSTANTS NoResult,   \* the probe has not resolved
          MaxUnread   \* bound: responses in the pipe at once

VARIABLES cliProbe,   \* what the CLI was found to be, "" before
          requests,   \* ids of the requests written to the server
          pending,    \* pendingResponseIds
          stdout,     \* responses the server wrote and the probe has not read
          served,     \* how many of the three answers it gave well, in order
                      \* and nothing else; 4 after anything else
          tools,      \* the list it gave: "none", "some" or "all" of the required
          invalid,    \* invalidNotificationResponseCount is not zero
          pendingSuccess,
          timer,      \* "none", "stage" or "linger"
          child,      \* "none", "running", "exited" or "closed"
          mcpProbe    \* what the probe resolved to

vars == << cliProbe, requests, pending, stdout, served, tools, invalid,
           pendingSuccess, timer, child, mcpProbe >>

Responses ==
  { r \in [id : 0 .. 3, is : { "good", "bad", "error", "odd", "some", "lacking" }] :
      \/ r.is = "good"
      \/ r.id # 0 /\ r.is = "odd"           \* neither error nor record
      \/ r.id # 0 /\ r.is = "bad"           \* an error; another version; no tool
      \/ r.id = 2 /\ r.is \in { "some", "lacking" }   \* not all required tools,
                                            \* not the one to call
      \/ r.id = 3 /\ r.is = "error" }       \* of the protocol, not of the tool

-----------------------------------------------------------------------------
(* What the probe resolves to.                                             *)

Result(ready, ok) == [ready |-> ready, ok |-> ok, silent |-> ~invalid]
Defect == Result(FALSE, FALSE)
CallFailed == Result(TRUE, FALSE)

(* It resolves once, and the server is told to end: what it writes later   *)
(* is read and changes nothing.                                            *)
Finish(r) ==
  /\ mcpProbe = NoResult
  /\ mcpProbe' = r
  /\ timer' = "none"

(* The report's ok.                                                        *)
Ok == /\ mcpProbe # NoResult /\ mcpProbe.ready /\ mcpProbe.ok /\ mcpProbe.silent
      /\ cliProbe = "ready" /\ tools = "all"

-----------------------------------------------------------------------------
Init ==
  /\ cliProbe = "" /\ requests = {} /\ pending = {}
  /\ stdout = << >> /\ served = 0
  /\ tools = "none" /\ invalid = FALSE /\ pendingSuccess = NoResult
  /\ timer = "none" /\ child = "none" /\ mcpProbe = NoResult

(* The server is probed whatever the CLI was found to be; its directory    *)
(* may not be made.                                                        *)
ProbeCli ==
  /\ cliProbe = ""
  /\ cliProbe' \in { "ready", "setupRequired", "defect" }
  /\ \/ /\ child' = "running" /\ timer' = "stage"
        /\ requests' = {1} /\ pending' = {1}
        /\ UNCHANGED mcpProbe
     \/ Finish(Defect) /\ UNCHANGED << child, requests, pending >>
  /\ UNCHANGED << stdout, served, tools, invalid, pendingSuccess >>

(* A request goes out, unless the server has exited: then the write throws *)
(* or, before its exit is seen, fails later where nobody listens and ends  *)
(* the smoke without a report, which is no better than a defect.           *)
Request(id) ==
  IF child = "running"
  THEN /\ requests' = requests \cup {id}
       /\ pending' = (pending \ {id - 1}) \cup {id}
       /\ timer' = "stage"
       /\ UNCHANGED mcpProbe
  ELSE /\ Finish(Defect)
       /\ pending' = pending \ {id - 1}
       /\ UNCHANGED requests

-----------------------------------------------------------------------------
(* One response is read.                                                   *)

Read == Head(stdout)

Reading ==
  /\ mcpProbe = NoResult /\ stdout # << >>
  /\ stdout' = Tail(stdout)
  /\ served' = IF served < 3 /\ Read = [id |-> served + 1, is |-> "good"]
               THEN served + 1 ELSE 4
  /\ UNCHANGED << cliProbe, child >>

(* It answers no request that is open.                                     *)
ReadsInvalid ==
  /\ Reading
  /\ Read.id \notin pending
  /\ invalid' = TRUE
  /\ UNCHANGED << requests, pending, tools, pendingSuccess, timer, mcpProbe >>

ReadsInitialized ==
  /\ Reading
  /\ Read.id = 1 /\ 1 \in pending
  /\ \/ Read.is = "good" /\ Request(2)
     \/ /\ Read.is = "bad"
        /\ Finish(Defect) /\ pending' = {} /\ UNCHANGED requests
     \/ /\ Read.is = "odd"
        /\ pending' = {} /\ UNCHANGED << requests, timer, mcpProbe >>
  /\ UNCHANGED << tools, invalid, pendingSuccess >>

ReadsTools ==
  /\ Reading
  /\ Read.id = 2 /\ 2 \in pending
  /\ tools' = CASE Read.is = "good" -> "all"
                [] Read.is \in { "some", "lacking" } -> "some"
                [] OTHER -> tools
  /\ \/ Read.is \in { "good", "some" } /\ Request(3)
     \/ /\ Read.is \in { "bad", "lacking" }
        /\ Finish(IF Read.is = "lacking" THEN CallFailed ELSE Defect)
        /\ pending' = {} /\ UNCHANGED requests
     \/ /\ Read.is = "odd"
        /\ pending' = {} /\ UNCHANGED << requests, timer, mcpProbe >>
  /\ UNCHANGED << invalid, pendingSuccess >>

(* Slip: the answer of the tool ends the probe.                            *)
ResultAtOnce(ok) ==
  /\ pendingSuccess' = ok
  /\ Finish(Result(TRUE, ok))

(* The answer of the tool is not yet the result: the server's input is     *)
(* closed, and what else it writes until it is gone counts.                *)
AwaitSilence(ok) ==
  /\ pendingSuccess' = ok
  /\ timer' = "linger"
  /\ UNCHANGED mcpProbe

ReadsCall ==
  /\ Reading
  /\ Read.id = 3 /\ 3 \in pending
  /\ pending' = {}
  /\ \/ Read.is \in { "good", "bad" } /\ AwaitSilence(Read.is = "good")
     \/ Read.is = "error" /\ Finish(CallFailed) /\ UNCHANGED pendingSuccess
     \/ Read.is = "odd" /\ UNCHANGED << timer, mcpProbe, pendingSuccess >>
  /\ UNCHANGED << requests, tools, invalid >>

-----------------------------------------------------------------------------
(* A timer fires.                                                          *)
Timeout ==
  /\ \/ timer = "linger" /\ Finish(Result(TRUE, pendingSuccess))
     \/ timer = "stage" /\ Finish(IF 3 \in requests THEN CallFailed ELSE Defect)
  /\ UNCHANGED << cliProbe, requests, pending, stdout, served, tools, invalid,
                  pendingSuccess, child >>

(* Its pipes end, after everything in them was read.                       *)
Closes ==
  /\ child = "exited" /\ stdout = << >> /\ mcpProbe = NoResult
  /\ child' = "closed"
  /\ Finish(IF pendingSuccess # NoResult THEN Result(TRUE, pendingSuccess)
            ELSE IF tools # "none" THEN CallFailed ELSE Defect)
  /\ UNCHANGED << cliProbe, requests, pending, stdout, served, tools, invalid,
                  pendingSuccess >>

ServerWrites(r) ==
  /\ child = "running" /\ mcpProbe = NoResult
  /\ Len(stdout) < MaxUnread
  /\ stdout' = Append(stdout, r)
  /\ UNCHANGED << cliProbe, served, requests, pending, tools, invalid, pendingSuccess,
                  timer, child, mcpProbe >>

ServerExits ==
  /\ child = "running" /\ mcpProbe = NoResult
  /\ child' = "exited"
  /\ UNCHANGED << cliProbe, requests, pending, stdout, served, tools, invalid,
                  pendingSuccess, timer, mcpProbe >>

Next ==
  \/ ProbeCli \/ Timeout \/ Closes \/ ServerExits
  \/ ReadsInvalid \/ ReadsInitialized \/ ReadsTools \/ ReadsCall
  \/ \E r \in Responses : ServerWrites(r)

Spec == Init /\ [][Next]_vars

-----------------------------------------------------------------------------
(* A candidate passes only if its server answered the three requests well, *)
(* each once and in their order, wrote no other response that was read,    *)
(* and was given the time to: it has ended, or stayed for the linger time. *)
PassStep ==
  (~Ok /\ Ok') => served' = 3 /\ (child' = "closed" \/ timer = "linger")

PassesOnlyIfServed == [][PassStep]_vars

-----------------------------------------------------------------------------
(* Why: with one request open at a time, and none after the last, a probe  *)
(* that read no invalid response read the answers in order.                *)

TypeInv ==
  /\ stdout \in Seq(Responses) /\ served \in 0 .. 4 /\ tools \in { "none", "some", "all" }
  /\ invalid \in BOOLEAN /\ pendingSuccess \in BOOLEAN \cup {NoResult}

Unstarted ==
  /\ mcpProbe = NoResult /\ pending = {} /\ served = 0 /\ tools = "none"
  /\ pendingSuccess = NoResult /\ child = "none" /\ timer = "none" /\ stdout = << >>

(* The request that is open, and how many answers there were before it.    *)
OpenInv ==
  /\ pending \in { {}, {1}, {2}, {3} }
  /\ pending # {} => pendingSuccess = NoResult
  /\ 1 \in pending => tools = "none" /\ (~invalid => served = 0)
  /\ 2 \in pending => tools = "none" /\ (~invalid => served = 1)
  /\ 3 \in pending /\ tools = "all" /\ ~invalid => served = 2

ServedInv ==
  /\ pendingSuccess = TRUE /\ tools = "all" /\ ~invalid => served = 3
  /\ timer = "linger" => pendingSuccess # NoResult

ProbeInv ==
  /\ TypeInv
  /\ cliProbe = "" => Unstarted
  /\ mcpProbe = NoResult => OpenInv /\ ServedInv
=============================================================================
