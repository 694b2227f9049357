----------------------------- MODULE McpSession -----------------------------
(* One stdio session between the idle route's client                       *)
(* (qa-lab-eva-idle-route.ts, PersistentMcpSession) and the MCP server     *)
(* (server-runtime.ts).  The client asks one thing at a time, but what     *)
(* timed out may still be at work in the server, whose answers come in the *)
(* order the tools end.  The server opens its database, its audit store    *)
(* and its tools with the first call, again with every call until it       *)
(* succeeds, and leaves the database open that it could not migrate.       *)
EXTENDS Naturals, Sequences

CONSTANTS MaxRequests,  \* the requests of the client, the first is initialize
          MaxRepairs    \* how often somebody changes what is broken

VARIABLES
  phase,    \* of the client: "starting", "open", "closing", "closed"
  status,   \* of each request: "new", "pending", "result", "error"
  got,      \* the answer that each request was settled with
  lines,    \* written to the server and not read, 0 is a notification
  answers,  \* written to the client and not read
  asked,    \* the kind of each request
  server,   \* "up", "dead", or "closed": the client has seen it go
  runtime,  \* the server has started its tools
  leaky,    \* the calls whose failed start left a database open in the server
  running,  \* the requests whose tool is at work
  broken,   \* what would fail now
  brokenAt, \* what did when the server read the request
  repairs   \* counts changes of broken

client == << phase, status, got, asked >>
inside == << runtime, leaky, running, brokenAt >>
vars == << phase, status, got, lines, answers, asked, server, runtime, leaky,
           running, broken, brokenAt, repairs >>

Requests == 1 .. MaxRequests
\* The first that fails of a start; the rest: the audit store and the tools.
Faults == {"nothing", "database", "schema", "rest"}
NoAnswer == [id |-> 0, what |-> "none"]
Pending == {r \in Requests : status[r] = "pending"}

Init ==
  /\ phase = "starting" /\ server = "up" /\ runtime = FALSE /\ leaky = {}
  /\ status = [r \in Requests |-> IF r = 1 THEN "pending" ELSE "new"]
  /\ asked = [r \in Requests |-> IF r = 1 THEN "initialize" ELSE "none"]
  /\ lines = <<1>> /\ answers = <<>> /\ running = {}
  /\ got = [r \in Requests |-> NoAnswer]
  /\ broken \in Faults
  /\ brokenAt = [r \in Requests |-> "nothing"] /\ repairs = 0

-----------------------------------------------------------------------------
(* The server.                                                             *)

Send(id, what) == answers' = Append(answers, [id |-> id, what |-> what])

Reads(kind) ==
  /\ server = "up" /\ lines # <<>> /\ lines' = Tail(lines)
  /\ kind = IF Head(lines) = 0 THEN "notification" ELSE asked[Head(lines)]
  /\ UNCHANGED << client, server, broken, repairs >>

\* A message without an id is not even looked at.
IgnoresNotification ==
  Reads("notification") /\ UNCHANGED << answers, inside >>

AnswersAtOnce ==
  /\ \/ Reads("initialize") /\ Send(Head(lines), "version")
     \/ Reads("list") /\ Send(Head(lines), "catalog")
     \/ Reads("unknown") /\ Send(Head(lines), "error")
  /\ UNCHANGED inside

\* createDatabase opens and then migrates, and does not close what it cannot migrate;
\* getRuntimeState closes a database that was opened for nothing.
LeftOpen == broken = "schema"

\* Nothing of a failure is kept, but the next call tries again.
ReadsCall ==
  /\ Reads("call")
  /\ brokenAt' = [brokenAt EXCEPT ![Head(lines)] = broken]
  /\ runtime' = (runtime \/ broken = "nothing")
  /\ leaky' = IF ~runtime /\ LeftOpen THEN leaky \cup {Head(lines)} ELSE leaky
  /\ IF runtime' THEN running' = running \cup {Head(lines)} /\ UNCHANGED answers
                 ELSE Send(Head(lines), "unavailable") /\ UNCHANGED running

ToolEnds(r) ==
  /\ server = "up" /\ r \in running /\ running' = running \ {r}
  /\ \E what \in {"done", "error"} : Send(r, what)
  /\ UNCHANGED << client, lines, server, runtime, leaky, broken, brokenAt, repairs >>

\* The process ends, by itself or because it is told to.
Dies ==
  /\ server = "up" /\ server' = "dead"
  /\ running' = {} /\ lines' = <<>> /\ runtime' = FALSE /\ leaky' = {}
  /\ UNCHANGED << client, answers, broken, brokenAt, repairs >>

-----------------------------------------------------------------------------
(* The client.                                                             *)

Settle(settled, how) == status' = [r \in Requests |-> IF r \in settled THEN how ELSE status[r]]

\* The next request is made when the last one is settled.
Ask(kind) ==
  /\ phase = "open" /\ Pending = {}
  /\ \E r \in Requests :
       /\ status[r] = "new" /\ \A q \in 1 .. r - 1 : status[q] # "new"
       /\ Settle({r}, "pending")
       /\ asked' = [asked EXCEPT ![r] = kind]
       /\ lines' = IF server = "up" THEN Append(lines, r) ELSE lines
  /\ UNCHANGED << phase, got, answers, server, inside, broken, repairs >>

\* Slip: an answer is for whoever waits.
WhoeverWaits(answer) == Pending

\* The pending request that an answer is for.
Owner(answer) == {answer.id} \cap Pending

\* An answer whose request is not pending any more is dropped.
Consumes ==
  /\ phase # "closed" /\ answers # <<>> /\ answers' = Tail(answers)
  /\ LET answer == Head(answers)
         owner == Owner(answer)
     IN  /\ Settle(owner, IF answer.what = "error" THEN "error" ELSE "result")
         /\ got' = [r \in Requests |-> IF r \in owner THEN answer ELSE got[r]]
  /\ UNCHANGED << phase, lines, asked, server, inside, broken, repairs >>

TimesOut(r) ==
  /\ r \in Pending /\ Settle({r}, "error")
  /\ UNCHANGED << phase, got, lines, answers, asked, server, inside, broken, repairs >>

\* The client learns that the server is gone, once it has read all it wrote.
SeesItClosed ==
  /\ server = "dead" /\ answers = <<>> /\ server' = "closed"
  /\ Settle(Pending, "error")
  /\ UNCHANGED << phase, got, lines, answers, asked, inside, broken, repairs >>

\* A write to a server that is gone fails everything that is pending.
WriteFails ==
  /\ server # "up" /\ Pending # {} /\ Settle(Pending, "error")
  /\ UNCHANGED << phase, got, lines, answers, asked, server, inside, broken, repairs >>

\* Initialized, with the expected version: the notification, and the session
\* is open.  Any other start ends it, as its user does when it is done.
Opens ==
  /\ phase = "starting" /\ status[1] = "result" /\ phase' = "open"
  /\ lines' = IF server = "up" THEN Append(lines, 0) ELSE lines
  /\ UNCHANGED << status, got, answers, asked, server, inside, broken, repairs >>

Ends ==
  /\ phase \in {"starting", "open"} /\ Pending = {} /\ phase' = "closing"
  /\ UNCHANGED << status, got, lines, answers, asked, server, inside, broken, repairs >>

\* SIGTERM and SIGKILL, each with a wait: closed, the exit confirmed or not.
Closes ==
  /\ phase = "closing" /\ phase' = "closed"
  /\ Settle(Pending, "error")
  /\ UNCHANGED << got, lines, answers, asked, server, inside, broken, repairs >>

\* Somebody repairs the setup, or breaks it.
Repair ==
  /\ repairs < MaxRepairs /\ repairs' = repairs + 1
  /\ broken' \in Faults \ {broken}
  /\ UNCHANGED << client, lines, answers, server, inside >>

Next ==
  \/ IgnoresNotification \/ AnswersAtOnce \/ ReadsCall
  \/ \E r \in Requests : ToolEnds(r) \/ TimesOut(r)
  \/ Dies \/ SeesItClosed \/ WriteFails
  \/ \E kind \in {"call", "list", "unknown"} : Ask(kind)
  \/ Consumes \/ Opens \/ Ends \/ Closes
  \/ Repair

Spec == Init /\ [][Next]_vars

-----------------------------------------------------------------------------
\* What a request may be told.
Suits(r, what) ==
  /\ what \in (CASE asked[r] = "initialize" -> {"version"}
                 [] asked[r] = "list" -> {"catalog"}
                 [] asked[r] = "call" -> {"done", "unavailable"}
                 [] OTHER -> {})
  /\ what = "unavailable" => brokenAt[r] # "nothing"
  /\ r \in leaky => what = "unavailable"

(* A request is settled by its own answer and by no other, though an older *)
(* one may still be under way; it hears that the server cannot start only  *)
(* if that was so when its call was read; and no call is served whose      *)
(* start left a database open, however often the start is tried again.     *)
CallsGetTheirAnswers ==
  \A r \in Requests : status[r] = "result" => got[r].id = r /\ Suits(r, got[r].what)

-----------------------------------------------------------------------------
(* Why it holds: a request is on its way to the server, at work, or        *)
(* answered, one after the other, and what is said of it was so.           *)
Words == {"version", "catalog", "unavailable", "done", "error"}
Replies == [id : Requests, what : Words]

TypeInv ==
  /\ phase \in {"starting", "open", "closing", "closed"}
  /\ server \in {"up", "dead", "closed"} /\ runtime \in BOOLEAN /\ leaky \subseteq Requests
  /\ status \in [Requests -> {"new", "pending", "result", "error"}]
  /\ asked \in [Requests -> {"none", "initialize", "call", "list", "unknown"}]
  /\ lines \in Seq(Requests \cup {0})
  /\ answers \in Seq(Replies)
  /\ running \subseteq Requests /\ broken \in Faults
  /\ brokenAt \in [Requests -> Faults]

LinesInv ==
  /\ server # "up" => lines = <<>>
  /\ \A i \in DOMAIN lines : lines[i] # 0 =>
       /\ status[lines[i]] \in {"pending", "error"} /\ lines[i] \notin running \cup leaky
       /\ \A j \in DOMAIN lines : lines[j] = lines[i] => j = i
       /\ \A j \in DOMAIN answers : answers[j].id # lines[i]

AnswersInv ==
  /\ \A r \in running : status[r] # "new" /\ asked[r] = "call" /\ r \notin leaky
  /\ \A r \in leaky : status[r] # "new"
  /\ \A j \in DOMAIN answers :
       /\ status[answers[j].id] # "new"
       /\ answers[j].what # "error" => Suits(answers[j].id, answers[j].what)
  /\ \A r \in Requests : status[r] = "result" => got[r].id = r /\ Suits(r, got[r].what)

SessionInv == TypeInv /\ LinesInv /\ AnswersInv
=============================================================================
