--------------------------- MODULE JsonRpcClient ---------------------------
(***************************************************************************)
(* CodexJsonRpcClient and the persistent client around it                  *)
(* (packages/adapters/src/codex-jsonrpc.ts).  Operations queue up for one  *)
(* connection to the Codex app-server.  An operation sends its requests    *)
(* one after the other and reads the lines that arrive until one answers   *)
(* the request or the deadline passes; a deadline leaves the connection    *)
(* open, so an answer may arrive late, in the middle of the next           *)
(* operation.  Some operations then wait for the end of their turn.        *)
(*                                                                         *)
(* The app-server is not in this repository: it performs or refuses any    *)
(* request it holds, at any time or never, answers in any order, runs and  *)
(* ends turns, and sends requests of its own.                              *)
(***************************************************************************)
EXTENDS Integers, Sequences, FiniteSets

CONSTANTS Ops,         \* operations, each submitted once
          KindOf,      \* which control an operation is
          ActiveTurn,  \* the turn that runs when the model starts
          NoTurn,
          ServerIds,   \* ids the app-server gives its own requests
          MaxServerRequests

Kinds == {"idle_send", "send", "steer"}

ASSUME KindOfAssumption == KindOf \in [Ops -> Kinds]
ASSUME TurnsAssumption == ActiveTurn \notin Ops /\ NoTurn \notin Ops \cup {ActiveTurn}
ASSUME ServerAssumption == ServerIds \subseteq Nat /\ MaxServerRequests \in Nat

VARIABLES
  queue,      \* operationQueue: the operations not over yet
  link,       \* the transport of persistentClient
  conn,       \* how many connections were opened
  nextId,     \* nextId of the current client
  inbox,      \* lines received and not read
  phase,      \* where an operation is
  step,       \* its request: 0 is the initialize of a new connection
  await,      \* the id it waits for
  turnId,     \* the turn it waits for
  result,     \* what its caller makes of the response
  turnStatus, \* the turn resolution reported with it
  requests,   \* app-server: requests it holds
  performed,  \* app-server: requests performed and not answered
  ran,        \* app-server: the control of an operation was performed
  turn,       \* app-server: its turns
  posture,    \* app-server: the active turn never asks, reads only
  asked       \* app-server: requests it made

linkVars   == << link, conn, nextId >>
opVars     == << phase, step, await, turnId, result, turnStatus >>
serverVars == << requests, performed, ran, turn, posture, asked >>
vars       == << queue, linkVars, inbox, opVars, serverVars >>

Turns      == Ops \cup {ActiveTurn}
Resolved   == {"completed", "failed"}
TurnStates == {"none", "running"} \cup Resolved

StepsOf(o) == CASE KindOf[o] = "idle_send" -> << "start" >>
                [] KindOf[o] = "send"      -> << "resume", "start" >>
                [] KindOf[o] = "steer"     -> << "resume", "steer" >>

AwaitsTurn(o) == KindOf[o] # "idle_send"

\* A send's turn is the one it starts; a steer names the turn it expects.
TurnOf(o) == IF KindOf[o] = "steer" THEN ActiveTurn ELSE o

Init ==
  /\ queue = << >>
  /\ link = "closed"
  /\ conn = 0
  /\ nextId = 1
  /\ inbox = << >>
  /\ phase = [o \in Ops |-> "idle"]
  /\ step = [o \in Ops |-> 0]
  /\ await = [o \in Ops |-> 0]
  /\ turnId = [o \in Ops |-> NoTurn]
  /\ result = [o \in Ops |-> "none"]
  /\ turnStatus = [o \in Ops |-> "none"]
  /\ requests = {}
  /\ performed = {}
  /\ ran = [o \in Ops |-> FALSE]
  /\ turn = [t \in Turns |-> IF t = ActiveTurn THEN "running" ELSE "none"]
  /\ posture \in BOOLEAN
  /\ asked = 0

----------------------------------------------------------------------------
Line(kind, id, ok, t, status, safe) ==
  [kind |-> kind, id |-> id, ok |-> ok, turn |-> t, status |-> status,
   safe |-> safe]

Note(t, status)   == Line("note", 0, TRUE, t, status, FALSE)
ServerRequest(id) == Line("request", id, TRUE, NoTurn, "none", FALSE)

Deliver(m) ==
  inbox' = IF link = "open" THEN Append(inbox, m) ELSE inbox

\* withClient: an operation starts when the ones before it are over, whether
\* they returned or threw.
\*
\* A slip: no queue.
Anyone(o) == o \in {queue[i] : i \in DOMAIN queue}

MayStart(o) == queue # << >> /\ Head(queue) = o

\* A slip: a throw leaves the queue blocked.
OnlyReturned(o, thrown) == IF thrown THEN queue ELSE Tail(queue)

Leave(o, thrown) == Tail(queue)

Finish(o, value, status, thrown) ==
  /\ queue' = Leave(o, thrown)
  /\ phase' = [phase EXCEPT ![o] = "done"]
  /\ result' = [result EXCEPT ![o] = value]
  /\ turnStatus' = [turnStatus EXCEPT ![o] = status]
  /\ UNCHANGED << step, await, turnId >>

\* requestRaw: a closed WebSocket swallows what is sent on it.
SendRequest(o, k, id, c, up) ==
  /\ requests' = IF up
                 THEN requests \cup {[conn |-> c, id |-> id, op |-> o, step |-> k]}
                 ELSE requests
  /\ nextId' = id + 1
  /\ phase' = [phase EXCEPT ![o] = "waiting"]
  /\ step' = [step EXCEPT ![o] = k]
  /\ await' = [await EXCEPT ![o] = id]
  /\ UNCHANGED << queue, turnId, result, turnStatus, performed, ran, turn,
                  posture, asked >>

----------------------------------------------------------------------------
Submit(o) ==
  /\ phase[o] = "idle"
  /\ phase' = [phase EXCEPT ![o] = "queued"]
  /\ queue' = Append(queue, o)
  /\ UNCHANGED << linkVars, inbox, step, await, turnId, result, turnStatus,
                  serverVars >>

Begin(o) == phase[o] = "queued" /\ MayStart(o)

UseConnection(o) ==
  /\ Begin(o)
  /\ link = "open"
  /\ SendRequest(o, 1, nextId, conn, TRUE)
  /\ UNCHANGED << link, conn, inbox >>

\* A new client counts its ids from 1 and reads from its own transport.
Connect(o) ==
  /\ Begin(o)
  /\ link = "closed"
  /\ link' = "open"
  /\ conn' = conn + 1
  /\ inbox' = << >>
  /\ SendRequest(o, 0, 1, conn + 1, TRUE)

\* The handshake is refused ("connection failed", and the socket reports its
\* close later) or times out ("connect timed out", and is closed at once).
ConnectFails(o) ==
  /\ Begin(o)
  /\ link = "closed"
  /\ \/ link' = "failing" /\ Finish(o, "indeterminate", "none", TRUE)
     \/ link' = "closed"  /\ Finish(o, "refused", "none", TRUE)
  /\ inbox' = << >>
  /\ UNCHANGED << conn, nextId, serverVars >>

\* An operation that meets a client whose handshake failed throws, and the
\* client is dropped.
MeetsFailedClient(o) ==
  /\ Begin(o)
  /\ link = "failing"
  /\ link' = "closed"
  /\ Finish(o, "indeterminate", "none", TRUE)
  /\ UNCHANGED << conn, nextId, inbox, serverVars >>

SocketCloses ==
  /\ link # "closed"
  /\ link' = "closed"
  /\ UNCHANGED << queue, conn, nextId, inbox, opVars, serverVars >>

----------------------------------------------------------------------------
\* requestRaw compares ids and nothing else: a request of the app-server that
\* bears the id is taken for a result.
\*
\* A slip: the id not compared.
AnswersSomething(m, id) == m.kind # "note"

Answers(m, id) == m.kind # "note" /\ m.id = id

\* safeActiveRuntimeFromResume
\*
\* A slip: steering whatever the runtime is in.
NotGated(o, m) == FALSE

Gated(o, m) == KindOf[o] = "steer" /\ step[o] = 1 /\ ~m.safe

More(o) == step[o] < Len(StepsOf(o))

\* The turn to wait for: the one expected, or the one the response names.
Known(o, m) == IF KindOf[o] = "steer" THEN ActiveTurn ELSE m.turn

\* The response is ok: go on with the sequence.
Advance(o, m) ==
  \/ /\ ~Gated(o, m)
     /\ More(o)
     /\ SendRequest(o, step[o] + 1, nextId, conn, link = "open")
  \/ /\ Gated(o, m)
     /\ Finish(o, "gated", "none", FALSE)
     /\ UNCHANGED << nextId, serverVars >>
  \/ /\ ~Gated(o, m)
     /\ step[o] = Len(StepsOf(o))
     /\ \/ /\ ~AwaitsTurn(o)
           /\ Finish(o, "accepted", "none", FALSE)
        \/ /\ AwaitsTurn(o) /\ Known(o, m) = NoTurn
           /\ Finish(o, "accepted", "turn_id_missing", FALSE)
        \/ /\ AwaitsTurn(o) /\ Known(o, m) # NoTurn /\ m.status \in Resolved
           /\ Finish(o, "accepted", m.status, FALSE)
        \/ /\ AwaitsTurn(o) /\ Known(o, m) # NoTurn /\ m.status \notin Resolved
           /\ phase' = [phase EXCEPT ![o] = "turn_wait"]
           /\ turnId' = [turnId EXCEPT ![o] = Known(o, m)]
           /\ UNCHANGED << queue, step, await, result, turnStatus >>
     /\ UNCHANGED << nextId, serverVars >>

Receive(o) ==
  /\ phase[o] = "waiting" /\ inbox # << >>
  /\ inbox' = Tail(inbox)
  /\ LET m == Head(inbox) IN
     \/ /\ ~Answers(m, await[o])
        /\ UNCHANGED << queue, linkVars, opVars, serverVars >>
     \/ /\ Answers(m, await[o]) /\ ~m.ok
        /\ link' = IF step[o] = 0 THEN "closed" ELSE link
        /\ Finish(o, "refused", "none", step[o] = 0)
        /\ UNCHANGED << conn, nextId, serverVars >>
     \/ /\ Answers(m, await[o]) /\ m.ok
        /\ Advance(o, m)
        /\ UNCHANGED << link, conn >>

Timeout(o) ==
  /\ phase[o] = "waiting"
  /\ link' = IF step[o] = 0 THEN "closed" ELSE link
  /\ Finish(o, "indeterminate", "none", step[o] = 0)
  /\ UNCHANGED << conn, nextId, inbox, serverVars >>

----------------------------------------------------------------------------
\* waitForJsonRpcTurnResolution: what requestRaw read before is forgotten.
\*
\* A slip: the turn not compared.
ResolvesAnyTurn(m, t) == m.kind = "note" /\ m.status \in Resolved

EndsTheWait(m, t) == m.kind = "note" /\ m.turn = t /\ m.status \in Resolved

ReceiveTurn(o) ==
  /\ phase[o] = "turn_wait" /\ inbox # << >>
  /\ inbox' = Tail(inbox)
  /\ LET m == Head(inbox) IN
     \/ /\ m.kind = "request"
        /\ Finish(o, "accepted", "turn_server_request_unconfirmed", FALSE)
     \/ /\ EndsTheWait(m, turnId[o])
        /\ Finish(o, "accepted", m.status, FALSE)
     \/ /\ m.kind # "request" /\ ~EndsTheWait(m, turnId[o])
        /\ UNCHANGED << queue, opVars >>
  /\ UNCHANGED << linkVars, serverVars >>

TurnTimeout(o) ==
  /\ phase[o] = "turn_wait"
  /\ Finish(o, "accepted", "turn_started_unconfirmed", FALSE)
  /\ UNCHANGED << linkVars, inbox, serverVars >>

----------------------------------------------------------------------------
\* The app-server.
MethodOf(r) == IF r.step = 0 THEN "initialize" ELSE StepsOf(r.op)[r.step]

Reachable(r) == r.conn = conn /\ link = "open"

Perform(r) ==
  /\ r \in requests
  /\ MethodOf(r) = "steer" => turn[ActiveTurn] = "running"
  /\ requests' = requests \ {r}
  /\ performed' = performed \cup {r}
  /\ ran' = [ran EXCEPT ![r.op] = @ \/ MethodOf(r) \in {"start", "steer"}]
  /\ turn' = IF MethodOf(r) = "start" THEN [turn EXCEPT ![r.op] = "running"] ELSE turn
  /\ UNCHANGED << queue, linkVars, inbox, opVars, posture, asked >>

Reply(r) ==
  /\ r \in performed /\ Reachable(r)
  /\ performed' = performed \ {r}
  /\ \E t \in IF MethodOf(r) = "start" THEN {r.op, NoTurn} ELSE {NoTurn} :
       Deliver(Line("reply", r.id, TRUE, t,
                    IF t = NoTurn THEN "none" ELSE turn[t],
                    MethodOf(r) = "resume" /\ posture))
  /\ UNCHANGED << queue, linkVars, opVars, requests, ran, turn, posture, asked >>

Refuse(r) ==
  /\ r \in requests /\ Reachable(r)
  /\ requests' = requests \ {r}
  /\ Deliver(Line("reply", r.id, FALSE, NoTurn, "none", FALSE))
  /\ UNCHANGED << queue, linkVars, opVars, performed, ran, turn, posture, asked >>

TurnEnds(t) ==
  /\ turn[t] = "running"
  /\ \E status \in Resolved :
       /\ turn' = [turn EXCEPT ![t] = status]
       /\ Deliver(Note(t, status))
  /\ UNCHANGED << queue, linkVars, opVars, requests, performed, ran, posture, asked >>

Ask(id) ==
  /\ asked < MaxServerRequests /\ link = "open"
  /\ asked' = asked + 1
  /\ Deliver(ServerRequest(id))
  /\ UNCHANGED << queue, linkVars, opVars, requests, performed, ran, turn, posture >>

----------------------------------------------------------------------------
Next ==
  \/ \E o \in Ops : \/ Submit(o)
                    \/ UseConnection(o) \/ Connect(o) \/ ConnectFails(o)
                    \/ MeetsFailedClient(o)
                    \/ Receive(o) \/ Timeout(o)
                    \/ ReceiveTurn(o) \/ TurnTimeout(o)
  \/ SocketCloses
  \/ \E r \in requests : Perform(r) \/ Refuse(r)
  \/ \E r \in performed : Reply(r)
  \/ \E t \in Turns : TurnEnds(t)
  \/ \E id \in ServerIds : Ask(id)

Spec == Init /\ [][Next]_vars

\* The queue is a promise chain and every wait has a timer; the app-server
\* owes nothing.
Fairness ==
  \A o \in Ops :
    /\ WF_vars(UseConnection(o) \/ Connect(o) \/ MeetsFailedClient(o))
    /\ WF_vars(Timeout(o))
    /\ WF_vars(TurnTimeout(o))

FairSpec == Spec /\ Fairness

----------------------------------------------------------------------------
(***************************************************************************)
(* What the approval gate relies on, for ever after the operation is over: *)
(* accepted controls were performed, refused and gated ones never are, and *)
(* only the indeterminate ones may be performed or not.                    *)
(***************************************************************************)
SendContract ==
  \A o \in Ops : phase[o] = "done" =>
    /\ result[o] = "accepted" => ran[o]
    /\ result[o] \in {"refused", "gated"} => ~ran[o]

(***************************************************************************)
(* A turn is reported completed only when that very turn completed.        *)
(***************************************************************************)
CompletedIsReal ==
  \A o \in Ops : turnStatus[o] \in Resolved =>
    ran[o] /\ turn[TurnOf(o)] = turnStatus[o]

(***************************************************************************)
(* A running turn is steered only if its posture is the safe one.          *)
(***************************************************************************)
SteeredOnlyIfSafe ==
  \A o \in Ops : KindOf[o] = "steer" /\ ran[o] => posture

(***************************************************************************)
(* Both: what an operation did to a turn, and what it says became of it.   *)
(***************************************************************************)
TurnsAreAsReported == CompletedIsReal /\ SteeredOnlyIfSafe

(***************************************************************************)
(* An answer that has arrived for a waiting operation is not read by       *)
(* another one: operations share a connection, never at the same time.     *)
(***************************************************************************)
AnswersFor(o) == {i \in DOMAIN inbox : inbox[i].kind = "reply" /\ inbox[i].id = await[o]}

NoAnswerIsStolen ==
  [][\A o \in Ops :
       /\ phase[o] = "waiting" /\ phase'[o] = "waiting" /\ await'[o] = await[o]
       => Cardinality(AnswersFor(o)') >= Cardinality(AnswersFor(o))]_vars

(***************************************************************************)
(* Whatever the app-server does, and whichever operations before it fail,  *)
(* an operation that was submitted comes to an end.                        *)
(***************************************************************************)
EveryOperationEnds == \A o \in Ops : phase[o] = "queued" ~> phase[o] = "done"
=============================================================================
