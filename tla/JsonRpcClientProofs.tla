------------------------ MODULE JsonRpcClientProofs ------------------------
(***************************************************************************)
(* What the answers of the JSON-RPC client mean, for any number of         *)
(* operations and any behaviour of the app-server.                         *)
(***************************************************************************)
EXTENDS JsonRpcClient, SequenceTheorems, FiniteSetTheorems, TLAPS

Lines ==
  [kind: {"note", "reply", "request"}, id: Nat, ok: BOOLEAN,
   turn: Turns \cup {NoTurn}, status: TurnStates, safe: BOOLEAN]

Requests == [conn: Nat, id: Nat, op: Ops, step: 0 .. 2]

Phases  == {"idle", "queued", "waiting", "turn_wait", "done"}
Results == {"none", "refused", "indeterminate", "gated", "accepted"}

Reports == {"none", "turn_id_missing", "turn_server_request_unconfirmed",
            "turn_started_unconfirmed"} \cup Resolved

TypeInv ==
  /\ queue \in Seq(Ops)
  /\ link \in {"closed", "open", "failing"}
  /\ conn \in Nat
  /\ nextId \in Nat
  /\ inbox \in Seq(Lines)
  /\ phase \in [Ops -> Phases]
  /\ step \in [Ops -> 0 .. 2]
  /\ await \in [Ops -> Nat]
  /\ turnId \in [Ops -> Turns \cup {NoTurn}]
  /\ result \in [Ops -> Results]
  /\ turnStatus \in [Ops -> Reports]
  /\ requests \subseteq Requests
  /\ performed \subseteq Requests
  /\ ran \in [Ops -> BOOLEAN]
  /\ turn \in [Turns -> TurnStates]
  /\ posture \in BOOLEAN
  /\ asked \in Nat

\* The request that performs the control of an operation is its last one.
Last(o) == Len(StepsOf(o))

Final(r) == r.step = Last(r.op)

Begun(o) == phase[o] \notin {"idle", "queued"}

Sent == requests \cup performed

Arrived == {inbox[i] : i \in DOMAIN inbox}

\* The operation at work is the first of the queue.
QueueInv ==
  \A o \in Ops : phase[o] \in {"waiting", "turn_wait"} =>
    queue # << >> /\ Head(queue) = o

\* What the app-server holds or has performed was sent by an operation that
\* has begun, once, and bears the id that operation waits for or waited for.
RequestInv ==
  /\ \A r \in Sent :
       /\ r.conn <= conn
       /\ r.conn = conn => r.id < nextId
       /\ Begun(r.op)
       /\ r.step <= step[r.op]
       /\ MethodOf(r) = "steer" => posture
       /\ phase[r.op] = "waiting" /\ r.step = step[r.op] =>
            r.conn = conn /\ r.id = await[r.op]
  /\ \A r, q \in Sent : r.op = q.op /\ r.step = q.step => r = q
  /\ requests \cap performed = {}

\* An id names one request of a connection.
AwaitInv ==
  \A o \in Ops : phase[o] = "waiting" =>
    /\ await[o] < nextId
    /\ \A r \in Sent : r.conn = conn /\ r.id = await[o] =>
         r.op = o /\ r.step = step[o]

\* A control is performed by the last request of its operation.
RanInv ==
  /\ \A o \in Ops : step[o] <= Last(o)
  /\ \A o \in Ops : ran[o] =>
       /\ Begun(o)
       /\ step[o] = Last(o)
       /\ KindOf[o] = "steer" => posture
  /\ \A r \in requests : Final(r) => ~ran[r.op]
  /\ \A r \in performed : Final(r) => ran[r.op]
  /\ \A t \in Ops : turn[t] # "none" => ran[t]

\* Nothing the app-server holds can perform the control of the operation.
NeverRuns(o) == ~ran[o] /\ \A r \in requests : r.op = o => ~Final(r)

\* What a reply that has arrived means to the operation that waits for it.
AnswerMeans(m, o) ==
  /\ m.turn \in {o, NoTurn}
  /\ m.turn = o => KindOf[o] # "steer"
  /\ m.ok /\ step[o] = Last(o) => ran[o]
  /\ ~m.ok => NeverRuns(o)

InboxInv ==
  \A m \in Arrived :
    /\ m.safe => posture
    /\ m.status \in Resolved => m.turn \in Turns /\ turn[m.turn] = m.status
    /\ m.kind = "reply" =>
         /\ m.id < nextId
         /\ \A o \in Ops : phase[o] = "waiting" /\ await[o] = m.id => AnswerMeans(m, o)

\* What an operation says when it is over, and the turn it waits for.
ReportInv ==
  \A o \in Ops :
    /\ phase[o] = "turn_wait" => ran[o] /\ turnId[o] = TurnOf(o)
    /\ result[o] # "none" => phase[o] = "done"
    /\ result[o] = "accepted" => ran[o]
    /\ result[o] \in {"refused", "gated"} => NeverRuns(o)
    /\ turnStatus[o] \in Resolved => ran[o] /\ turn[TurnOf(o)] = turnStatus[o]

ClientInv ==
  /\ TypeInv
  /\ QueueInv
  /\ RequestInv
  /\ AwaitInv
  /\ RanInv
  /\ InboxInv
  /\ ReportInv

\* No request of the app-server bears the id an operation waits for.
NoCollision ==
  \A o \in Ops, m \in Arrived :
    phase[o] = "waiting" /\ m.kind = "request" => m.id # await[o]

----------------------------------------------------------------------------
(***************************************************************************)
(* An operation sends one or two requests after the initialize; the last   *)
(* one starts a turn, or steers the active one, and no other does.         *)
(***************************************************************************)
LEMMA StepsFacts ==
  ASSUME NEW o \in Ops
  PROVE  /\ Last(o) \in 1 .. 2
         /\ KindOf[o] = "steer" => Last(o) = 2
<1>1. KindOf[o] \in Kinds
  BY KindOfAssumption
<1>2. CASE KindOf[o] = "idle_send"
  BY <1>2 DEF Last, StepsOf
<1>3. CASE KindOf[o] = "send"
  BY <1>3 DEF Last, StepsOf
<1>4. CASE KindOf[o] = "steer"
  BY <1>4 DEF Last, StepsOf
<1> QED BY <1>1, <1>2, <1>3, <1>4 DEF Kinds

LEMMA MethodFacts ==
  ASSUME NEW r \in Requests, r.step <= Last(r.op)
  PROVE  /\ Final(r) <=> MethodOf(r) \in {"start", "steer"}
         /\ MethodOf(r) = "start" => KindOf[r.op] # "steer"
         /\ MethodOf(r) = "steer" => KindOf[r.op] = "steer" /\ r.step = 2
         /\ Final(r) /\ KindOf[r.op] = "steer" => MethodOf(r) = "steer"
<1>1. KindOf[r.op] \in Kinds /\ r.op \in Ops /\ r.step \in 0 .. 2
  BY KindOfAssumption DEF Requests
<1>2. CASE r.step = 0
  BY <1>1, <1>2, StepsFacts DEF MethodOf, Final
<1>3. CASE r.step # 0
  <2>1. CASE KindOf[r.op] = "idle_send"
    BY <1>1, <1>3, <2>1 DEF MethodOf, Final, Last, StepsOf
  <2>2. CASE KindOf[r.op] = "send"
    BY <1>1, <1>3, <2>2 DEF MethodOf, Final, Last, StepsOf
  <2>3. CASE KindOf[r.op] = "steer"
    BY <1>1, <1>3, <2>3 DEF MethodOf, Final, Last, StepsOf
  <2> QED BY <1>1, <2>1, <2>2, <2>3 DEF Kinds
<1> QED BY <1>2, <1>3

(***************************************************************************)
(* Reading, dropping and delivering lines.                                 *)
(***************************************************************************)
LEMMA ReadFacts ==
  ASSUME inbox \in Seq(Lines), inbox # << >>, inbox' = Tail(inbox)
  PROVE  /\ Head(inbox) \in Arrived /\ Head(inbox) \in Lines
         /\ inbox' \in Seq(Lines)
         /\ Arrived' \subseteq Arrived
<1>1. /\ Len(inbox) \in Nat /\ DOMAIN inbox = 1 .. Len(inbox)
      /\ Len(inbox) \in Nat \ {0}
  BY LenProperties, EmptySeq
<1>2. Head(inbox) = inbox[1] /\ 1 \in DOMAIN inbox
  BY <1>1
<1>3. /\ Head(inbox) \in Lines
      /\ inbox' \in Seq(Lines)
      /\ Len(inbox') = Len(inbox) - 1
      /\ \A i \in 1 .. Len(inbox') : inbox'[i] = inbox[i + 1]
  BY HeadTailProperties
<1>4. DOMAIN inbox' = 1 .. Len(inbox')
  BY <1>3, LenProperties
<1>5. \A i \in DOMAIN inbox' : i + 1 \in DOMAIN inbox /\ inbox'[i] = inbox[i + 1]
  BY <1>1, <1>3, <1>4
<1>6. Arrived' \subseteq Arrived
  BY <1>5 DEF Arrived
<1> QED BY <1>2, <1>3, <1>6 DEF Arrived

LEMMA DropFacts ==
  ASSUME inbox' = << >>
  PROVE  inbox' \in Seq(Lines) /\ Arrived' = {}
BY EmptySeq DEF Arrived

LEMMA DeliverFacts ==
  ASSUME NEW m \in Lines, inbox \in Seq(Lines), Deliver(m)
  PROVE  /\ inbox' \in Seq(Lines)
         /\ Arrived' \subseteq Arrived \cup {m}
<1>1. Len(inbox) \in Nat /\ DOMAIN inbox = 1 .. Len(inbox)
  BY LenProperties
<1>2. CASE link = "open"
  <2>1. /\ inbox' = Append(inbox, m)
        /\ inbox' \in Seq(Lines)
        /\ Len(inbox') = Len(inbox) + 1
        /\ \A i \in 1 .. Len(inbox) : inbox'[i] = inbox[i]
        /\ inbox'[Len(inbox) + 1] = m
    BY <1>2, AppendProperties DEF Deliver
  <2>2. DOMAIN inbox' = 1 .. Len(inbox) + 1
    BY <2>1, LenProperties
  <2> QED BY <1>1, <2>1, <2>2 DEF Arrived
<1>3. CASE link # "open"
  BY <1>3 DEF Deliver, Arrived
<1> QED BY <1>2, <1>3

----------------------------------------------------------------------------
(***************************************************************************)
(* The steps, by what they do: an operation sends, ends, starts to wait    *)
(* for its turn or reads a line that is not for it; the others are the     *)
(* submission and the steps of the app-server.                             *)
(***************************************************************************)
Links == {"closed", "open", "failing"}

Reads == inbox' \in Seq(Lines) /\ Arrived' \subseteq Arrived

First(o) == queue # << >> /\ Head(queue) = o

Sends(o) ==
  \E k \in 0 .. 2, up \in BOOLEAN :
    /\ First(o)
    /\ k <= Last(o)
    /\ phase[o] = "queued" \/ (phase[o] = "waiting" /\ step[o] < k)
    /\ KindOf[o] = "steer" /\ k = 2 => posture
    /\ link' \in Links
    /\ Reads
    /\ \/ conn' = conn /\ k >= 1 /\ SendRequest(o, k, nextId, conn, up)
       \/ conn' = conn + 1 /\ SendRequest(o, k, 1, conn + 1, up) /\ Arrived' = {}

Justified(o, value, status) ==
  /\ value = "accepted" => ran[o]
  /\ value \in {"refused", "gated"} => NeverRuns(o)
  /\ status \in Resolved => ran[o] /\ turn[TurnOf(o)] = status

Ends(o) ==
  \E value \in Results \ {"none"}, status \in Reports, thrown \in BOOLEAN :
    /\ First(o)
    /\ phase[o] \in {"queued", "waiting", "turn_wait"}
    /\ Finish(o, value, status, thrown)
    /\ Justified(o, value, status)
    /\ link' \in Links
    /\ Reads
    /\ UNCHANGED << conn, nextId, serverVars >>

Waits(o) ==
  /\ phase[o] = "waiting"
  /\ ran[o]
  /\ phase' = [phase EXCEPT ![o] = "turn_wait"]
  /\ turnId' = [turnId EXCEPT ![o] = TurnOf(o)]
  /\ Reads
  /\ UNCHANGED << queue, linkVars, step, await, result, turnStatus, serverVars >>

Skips ==
  /\ link' \in Links
  /\ Reads
  /\ UNCHANGED << queue, conn, nextId, opVars, serverVars >>

Serves ==
  \/ \E r \in requests : Perform(r) \/ Refuse(r)
  \/ \E r \in performed : Reply(r)
  \/ \E t \in Turns : TurnEnds(t)
  \/ \E id \in ServerIds : Ask(id)

(***************************************************************************)
(* An operation that has not begun has nothing at the app-server.          *)
(***************************************************************************)
LEMMA NothingSent ==
  ASSUME ClientInv, NEW o \in Ops, phase[o] = "queued"
  PROVE  NeverRuns(o)
BY DEF ClientInv, RequestInv, RanInv, NeverRuns, Begun, Sent

(***************************************************************************)
(* The last request of an operation was not sent before it was reached.    *)
(***************************************************************************)
LEMMA NotYet ==
  ASSUME ClientInv, NEW o \in Ops, step[o] < Last(o)
  PROVE  NeverRuns(o)
<1>1. step[o] \in 0 .. 2 /\ Last(o) \in 1 .. 2
  BY StepsFacts DEF ClientInv, TypeInv
<1>2. ~ran[o]
  BY <1>1 DEF ClientInv, RanInv
<1>3. ASSUME NEW r \in requests, r.op = o PROVE ~Final(r)
  <2>1. r.step <= step[o] /\ r.step \in 0 .. 2
    BY <1>3 DEF ClientInv, TypeInv, RequestInv, Sent, Requests
  <2> QED BY <1>1, <2>1, <1>3 DEF Final
<1> QED BY <1>2, <1>3 DEF NeverRuns

(***************************************************************************)
(* A response read by the operation that waits for it.                     *)
(***************************************************************************)
LEMMA AdvanceCases ==
  ASSUME ClientInv, NEW o \in Ops, phase[o] = "waiting",
         NEW m \in Arrived, m \in Lines, AnswerMeans(m, o), m.ok,
         Reads, link' = link, conn' = conn, Advance(o, m)
  PROVE  Sends(o) \/ Ends(o) \/ Waits(o)
<1> USE KindOfAssumption, TurnsAssumption
<1>1. /\ First(o) /\ link' \in Links
      /\ step[o] \in 0 .. 2 /\ Last(o) \in 1 .. 2
      /\ KindOf[o] = "steer" => Last(o) = 2
  BY StepsFacts DEF ClientInv, TypeInv, QueueInv, First, Links
<1>2. CASE ~Gated(o, m) /\ More(o)
           /\ SendRequest(o, step[o] + 1, nextId, conn, link = "open")
  <2>1. /\ step[o] + 1 \in 0 .. 2 /\ step[o] + 1 <= Last(o)
        /\ step[o] < step[o] + 1 /\ step[o] + 1 >= 1
    <3>1. step[o] < Last(o)
      BY <1>2 DEF More, Last
    <3> QED BY <1>1, <3>1
  <2>2. KindOf[o] = "steer" /\ step[o] + 1 = 2 => posture
    <3>1. ASSUME KindOf[o] = "steer", step[o] + 1 = 2 PROVE posture
      <4>1. step[o] = 1
        BY <1>1, <3>1
      <4>2. m.safe
        BY <1>2, <3>1, <4>1 DEF Gated
      <4> QED BY <4>2 DEF ClientInv, InboxInv
    <3> QED BY <3>1
  <2>3. (link = "open") \in BOOLEAN
    OBVIOUS
  <2> QED BY <1>1, <1>2, <2>1, <2>2, <2>3 DEF Sends
<1>3. CASE Gated(o, m) /\ Finish(o, "gated", "none", FALSE)
           /\ UNCHANGED << nextId, serverVars >>
  <2>1. step[o] < Last(o)
    BY <1>1, <1>3 DEF Gated
  <2>2. NeverRuns(o)
    BY <2>1, NotYet
  <2>3. Justified(o, "gated", "none")
    BY <2>2 DEF Justified, Resolved
  <2> QED BY <1>1, <1>3, <2>3 DEF Ends, Results, Reports
<1>4. CASE /\ ~Gated(o, m)
           /\ step[o] = Len(StepsOf(o))
           /\ \/ /\ ~AwaitsTurn(o)
                 /\ Finish(o, "accepted", "none", FALSE)
              \/ /\ AwaitsTurn(o) /\ Known(o, m) = NoTurn
                 /\ Finish(o, "accepted", "turn_id_missing", FALSE)
              \/ /\ AwaitsTurn(o) /\ Known(o, m) # NoTurn /\ m.status \in Resolved
                 /\ Finish(o, "accepted", m.status, FALSE)
              \/ /\ AwaitsTurn(o) /\ Known(o, m) # NoTurn /\ m.status \notin Resolved
                 /\ phase' = [phase EXCEPT ![o] = "turn_wait"]
                 /\ turnId' = [turnId EXCEPT ![o] = Known(o, m)]
                 /\ UNCHANGED << queue, step, await, result, turnStatus >>
           /\ UNCHANGED << nextId, serverVars >>
  <2>1. ran[o]
    BY <1>4 DEF AnswerMeans, Last
  <2>2. m.status \in Resolved => m.turn \in Turns /\ turn[m.turn] = m.status
    BY DEF ClientInv, InboxInv
  <2>3. Known(o, m) # NoTurn => Known(o, m) = TurnOf(o)
    BY DEF AnswerMeans, Known, TurnOf
  <2>4. m.status \in Resolved => turn[TurnOf(o)] = m.status
    BY <2>2 DEF AnswerMeans, TurnOf, Turns
  <2>5. ASSUME NEW status \in Reports, Finish(o, "accepted", status, FALSE),
               status \in Resolved => status = m.status
        PROVE  Ends(o)
    <3>1. Justified(o, "accepted", status)
      BY <2>1, <2>4, <2>5 DEF Justified
    <3> QED BY <1>1, <1>4, <2>5, <3>1 DEF Ends, Results
  <2>6. CASE /\ phase' = [phase EXCEPT ![o] = "turn_wait"]
             /\ turnId' = [turnId EXCEPT ![o] = Known(o, m)]
             /\ Known(o, m) # NoTurn
             /\ UNCHANGED << queue, step, await, result, turnStatus >>
    BY <1>4, <2>1, <2>3, <2>6 DEF Waits, linkVars
  <2> QED BY <1>4, <2>5, <2>6 DEF Reports, Resolved
<1> QED BY <1>2, <1>3, <1>4 DEF Advance

(***************************************************************************)
(* Every step is one of those.                                             *)
(***************************************************************************)
LEMMA NextCases ==
  ASSUME ClientInv, NoCollision, Next
  PROVE  \/ \E o \in Ops : Submit(o) \/ Sends(o) \/ Ends(o) \/ Waits(o)
         \/ Skips
         \/ Serves
<1>1. /\ inbox \in Seq(Lines) /\ link \in Links /\ conn \in Nat
      /\ phase \in [Ops -> Phases] /\ step \in [Ops -> 0 .. 2]
  BY DEF ClientInv, TypeInv, Links
<1>2. UNCHANGED inbox => Reads
  BY <1>1 DEF Reads, Arrived
<1>3. ASSUME NEW o \in Ops, Begin(o)
      PROVE  phase[o] = "queued" /\ First(o) /\ NeverRuns(o)
  BY <1>3, NothingSent DEF Begin, MayStart, First
<1>4. ASSUME NEW o \in Ops, UseConnection(o) PROVE Sends(o)
  <2>1. /\ phase[o] = "queued" /\ First(o) /\ Reads /\ conn' = conn
        /\ SendRequest(o, 1, nextId, conn, TRUE)
    BY <1>2, <1>3, <1>4 DEF UseConnection
  <2>2. 1 <= Last(o) /\ link' \in Links
    BY <1>1, <1>4, StepsFacts DEF UseConnection
  <2>3. 1 \in 0 .. 2 /\ 1 # 2 /\ 1 >= 1 /\ TRUE \in BOOLEAN
    OBVIOUS
  <2> QED BY <2>1, <2>2, <2>3 DEF Sends
<1>5. ASSUME NEW o \in Ops, Connect(o) PROVE Sends(o)
  <2>1. /\ phase[o] = "queued" /\ First(o) /\ conn' = conn + 1
        /\ SendRequest(o, 0, 1, conn + 1, TRUE)
        /\ inbox' \in Seq(Lines) /\ Arrived' = {}
    BY <1>3, <1>5, DropFacts DEF Connect
  <2>2. 0 <= Last(o) /\ link' \in Links /\ Reads
    BY <1>5, <2>1, StepsFacts DEF Connect, Links, Reads
  <2>3. 0 \in 0 .. 2 /\ 0 # 2 /\ TRUE \in BOOLEAN
    OBVIOUS
  <2> QED BY <2>1, <2>2, <2>3 DEF Sends
<1>6. ASSUME NEW o \in Ops, ConnectFails(o) PROVE Ends(o)
  <2>1. /\ phase[o] = "queued" /\ First(o) /\ NeverRuns(o)
        /\ inbox' \in Seq(Lines) /\ Arrived' = {}
        /\ UNCHANGED << conn, nextId, serverVars >>
        /\ link' \in Links
    BY <1>3, <1>6, DropFacts DEF ConnectFails, Links
  <2>2. \E value \in {"indeterminate", "refused"} : Finish(o, value, "none", TRUE)
    BY <1>6 DEF ConnectFails
  <2> QED BY <2>1, <2>2 DEF Ends, Justified, Reads, Results, Reports, Resolved
<1>7. ASSUME NEW o \in Ops, MeetsFailedClient(o) PROVE Ends(o)
  <2>1. /\ phase[o] = "queued" /\ First(o) /\ Reads
        /\ UNCHANGED << conn, nextId, serverVars >>
        /\ link' \in Links
        /\ Finish(o, "indeterminate", "none", TRUE)
    BY <1>2, <1>3, <1>7 DEF MeetsFailedClient, Links
  <2> QED BY <2>1 DEF Ends, Justified, Results, Reports, Resolved
<1>8. ASSUME NEW o \in Ops, Receive(o) PROVE Sends(o) \/ Ends(o) \/ Waits(o) \/ Skips
  <2> DEFINE m == Head(inbox)
  <2>1. /\ phase[o] = "waiting" /\ First(o)
        /\ Reads /\ m \in Arrived /\ m \in Lines
    BY <1>1, <1>8, ReadFacts DEF Receive, Reads, ClientInv, QueueInv, First
  <2>2. ASSUME Answers(m, await[o]) PROVE AnswerMeans(m, o)
    <3>1. m.kind = "reply" /\ m.id = await[o]
      BY <2>1, <2>2 DEF Answers, NoCollision, Lines
    <3> QED BY <2>1, <3>1 DEF ClientInv, InboxInv
  <2>3. CASE UNCHANGED << queue, linkVars, opVars, serverVars >>
    BY <1>1, <2>1, <2>3 DEF Skips, linkVars
  <2>4. CASE /\ Answers(m, await[o]) /\ ~m.ok
             /\ link' = IF step[o] = 0 THEN "closed" ELSE link
             /\ Finish(o, "refused", "none", step[o] = 0)
             /\ UNCHANGED << conn, nextId, serverVars >>
    <3>1. NeverRuns(o)
      BY <2>2, <2>4 DEF AnswerMeans
    <3>2. Justified(o, "refused", "none")
      BY <3>1 DEF Justified, Resolved
    <3>3. link' \in Links /\ (step[o] = 0) \in BOOLEAN
      BY <1>1, <2>4 DEF Links
    <3> QED BY <2>1, <2>4, <3>2, <3>3 DEF Ends, Results, Reports
  <2>5. CASE /\ Answers(m, await[o]) /\ m.ok
             /\ Advance(o, m)
             /\ UNCHANGED << link, conn >>
    BY <2>1, <2>2, <2>5, AdvanceCases
  <2> QED BY <1>8, <2>3, <2>4, <2>5 DEF Receive
<1>9. ASSUME NEW o \in Ops, Timeout(o) PROVE Ends(o)
  <2>1. /\ phase[o] = "waiting" /\ First(o) /\ Reads
        /\ UNCHANGED << conn, nextId, serverVars >>
        /\ link' \in Links
        /\ Finish(o, "indeterminate", "none", step[o] = 0)
        /\ (step[o] = 0) \in BOOLEAN
    BY <1>1, <1>2, <1>9 DEF Timeout, Links, ClientInv, QueueInv, First
  <2> QED BY <2>1 DEF Ends, Justified, Results, Reports, Resolved
<1>10. ASSUME NEW o \in Ops, phase[o] = "turn_wait"
       PROVE  First(o) /\ ran[o] /\ turnId[o] = TurnOf(o)
  BY <1>10 DEF ClientInv, QueueInv, ReportInv, First
<1>11. ASSUME NEW o \in Ops, ReceiveTurn(o) PROVE Ends(o) \/ Skips
  <2> DEFINE m == Head(inbox)
  <2>1. /\ phase[o] = "turn_wait" /\ First(o) /\ ran[o] /\ turnId[o] = TurnOf(o)
        /\ Reads /\ m \in Arrived /\ m \in Lines
        /\ link' \in Links
        /\ UNCHANGED << conn, nextId, serverVars >>
    BY <1>1, <1>10, <1>11, ReadFacts DEF ReceiveTurn, Reads, linkVars
  <2>2. CASE Finish(o, "accepted", "turn_server_request_unconfirmed", FALSE)
    BY <2>1, <2>2 DEF Ends, Justified, Results, Reports, Resolved
  <2>3. CASE EndsTheWait(m, turnId[o]) /\ Finish(o, "accepted", m.status, FALSE)
    <3>1. m.status \in Resolved /\ turn[TurnOf(o)] = m.status
      BY <2>1, <2>3 DEF EndsTheWait, ClientInv, InboxInv
    <3>2. Justified(o, "accepted", m.status) /\ m.status \in Reports
      BY <2>1, <3>1 DEF Justified, Reports
    <3> QED BY <2>1, <2>3, <3>2 DEF Ends, Results
  <2>4. CASE UNCHANGED << queue, opVars >>
    BY <2>1, <2>4 DEF Skips
  <2> QED BY <1>11, <2>2, <2>3, <2>4 DEF ReceiveTurn
<1>12. ASSUME NEW o \in Ops, TurnTimeout(o) PROVE Ends(o)
  <2>1. /\ phase[o] = "turn_wait" /\ First(o) /\ ran[o] /\ Reads
        /\ UNCHANGED << conn, nextId, serverVars >>
        /\ link' \in Links
        /\ Finish(o, "accepted", "turn_started_unconfirmed", FALSE)
    BY <1>1, <1>2, <1>10, <1>12 DEF TurnTimeout, linkVars
  <2> QED BY <2>1 DEF Ends, Justified, Results, Reports, Resolved
<1>13. ASSUME SocketCloses PROVE Skips
  BY <1>1, <1>2, <1>13 DEF SocketCloses, Skips, Links
<1> QED
  BY <1>4, <1>5, <1>6, <1>7, <1>8, <1>9, <1>11, <1>12, <1>13 DEF Next, Serves

----------------------------------------------------------------------------
(***************************************************************************)
(* What the app-server puts on the wire is a line.                         *)
(***************************************************************************)
LEMMA RefusalFacts ==
  ASSUME TypeInv, NEW r \in requests, Refuse(r)
  PROVE  \E m \in Lines : /\ Deliver(m)
                          /\ m.kind = "reply" /\ m.id = r.id /\ ~m.ok
                          /\ m.turn = NoTurn /\ m.status = "none" /\ ~m.safe
<1> DEFINE m == Line("reply", r.id, FALSE, NoTurn, "none", FALSE)
<1>1. r.id \in Nat
  BY DEF TypeInv, Requests
<1>2. /\ m \in Lines /\ m.kind = "reply" /\ m.id = r.id /\ m.ok = FALSE
      /\ m.turn = NoTurn /\ m.status = "none" /\ m.safe = FALSE
  BY <1>1 DEF Line, Lines, TurnStates
<1>3. Deliver(m)
  BY DEF Refuse
<1> QED BY <1>2, <1>3

LEMMA ReplyFacts ==
  ASSUME TypeInv, NEW r \in performed, Reply(r)
  PROVE  \E m \in Lines :
           /\ Deliver(m)
           /\ m.kind = "reply" /\ m.id = r.id /\ m.ok
           /\ m.turn \in {r.op, NoTurn}
           /\ m.turn # NoTurn => m.turn = r.op /\ MethodOf(r) = "start"
           /\ m.status \in Resolved => m.turn = r.op /\ m.status = turn[r.op]
           /\ m.safe => posture
<1>1. PICK t \in IF MethodOf(r) = "start" THEN {r.op, NoTurn} ELSE {NoTurn} :
        Deliver(Line("reply", r.id, TRUE, t,
                     IF t = NoTurn THEN "none" ELSE turn[t],
                     MethodOf(r) = "resume" /\ posture))
  BY DEF Reply
<1> DEFINE status == IF t = NoTurn THEN "none" ELSE turn[t]
           safe == MethodOf(r) = "resume" /\ posture
           m == Line("reply", r.id, TRUE, t, status, safe)
<1>2. r.id \in Nat /\ r.op \in Ops
  BY DEF TypeInv, Requests
<1>3. /\ t \in Turns \cup {NoTurn}
      /\ t # NoTurn => t = r.op /\ MethodOf(r) = "start"
      /\ t \in {r.op, NoTurn}
  BY <1>1, <1>2 DEF Turns
<1>4. status \in TurnStates /\ safe \in BOOLEAN
  BY <1>2, <1>3, TurnsAssumption DEF TypeInv, TurnStates, Turns
<1>5. /\ m \in Lines /\ m.kind = "reply" /\ m.id = r.id /\ m.ok = TRUE
      /\ m.turn = t /\ m.status = status /\ m.safe = safe
  <2> HIDE DEF status, safe
  <2> QED BY <1>2, <1>3, <1>4 DEF Line, Lines
<1>6. status \in Resolved => t = r.op /\ status = turn[r.op]
  BY <1>3 DEF Resolved
<1>7. Deliver(m)
  BY <1>1
<1> HIDE DEF m
<1> QED BY <1>3, <1>5, <1>6, <1>7

LEMMA NoteFacts ==
  ASSUME NEW t \in Turns, TurnEnds(t)
  PROVE  \E m \in Lines :
           /\ Deliver(m)
           /\ m.kind = "note" /\ m.turn = t /\ ~m.safe
           /\ m.status \in Resolved /\ turn' = [turn EXCEPT ![t] = m.status]
<1>1. PICK status \in Resolved :
        turn' = [turn EXCEPT ![t] = status] /\ Deliver(Note(t, status))
  BY DEF TurnEnds
<1>2. /\ Note(t, status) \in Lines /\ Note(t, status).kind = "note"
      /\ Note(t, status).turn = t /\ Note(t, status).status = status
      /\ Note(t, status).safe = FALSE
  BY DEF Line, Lines, Note, TurnStates, Resolved
<1> QED BY <1>1, <1>2

LEMMA AskFacts ==
  ASSUME NEW id \in ServerIds, Ask(id)
  PROVE  \E m \in Lines : /\ Deliver(m)
                          /\ m.kind = "request" /\ m.id = id
                          /\ m.status = "none" /\ ~m.safe
<1>1. /\ ServerRequest(id) \in Lines /\ ServerRequest(id).kind = "request"
      /\ ServerRequest(id).id = id /\ ServerRequest(id).status = "none"
      /\ ServerRequest(id).safe = FALSE
  BY ServerAssumption DEF Line, Lines, ServerRequest, TurnStates
<1> QED BY <1>1 DEF Ask

----------------------------------------------------------------------------
(***************************************************************************)
(* Types are kept.                                                         *)
(***************************************************************************)
Grouped == \/ \E o \in Ops : Submit(o) \/ Sends(o) \/ Ends(o) \/ Waits(o)
           \/ Skips
           \/ Serves

LEMMA NextTypeOfClient ==
  ASSUME TypeInv, Grouped
  PROVE  TypeInv'
<1>1. ASSUME NEW o \in Ops, Submit(o) PROVE TypeInv'
  <2>1. queue' \in Seq(Ops)
    BY <1>1, AppendProperties DEF Submit, TypeInv
  <2> QED BY <1>1, <2>1 DEF Submit, TypeInv, linkVars, serverVars, Phases
<1>2. ASSUME NEW o \in Ops, Sends(o) PROVE TypeInv'
  <2>1. PICK k \in 0 .. 2, up \in BOOLEAN :
          /\ link' \in Links
          /\ Reads
          /\ \/ conn' = conn /\ SendRequest(o, k, nextId, conn, up)
             \/ conn' = conn + 1 /\ SendRequest(o, k, 1, conn + 1, up)
    BY <1>2 DEF Sends
  <2>2. ASSUME NEW c \in Nat, NEW id \in Nat, conn' = c, SendRequest(o, k, id, c, up)
        PROVE  TypeInv'
    <3>1. [conn |-> c, id |-> id, op |-> o, step |-> k] \in Requests
      BY DEF Requests
    <3>2. requests' \subseteq Requests
      BY <2>2, <3>1 DEF SendRequest, TypeInv
    <3> QED BY <2>1, <2>2, <3>2 DEF SendRequest, TypeInv, Links, Reads, Phases
  <2> QED BY <2>1, <2>2 DEF TypeInv
<1>3. ASSUME NEW o \in Ops, Ends(o) PROVE TypeInv'
  <2>1. PICK value \in Results \ {"none"}, status \in Reports, thrown \in BOOLEAN :
          /\ First(o) /\ Finish(o, value, status, thrown)
          /\ link' \in Links /\ Reads
          /\ UNCHANGED << conn, nextId, serverVars >>
    BY <1>3 DEF Ends
  <2>2. queue' \in Seq(Ops)
    BY <2>1, HeadTailProperties DEF Finish, Leave, First, TypeInv
  <2> QED BY <2>1, <2>2 DEF Finish, TypeInv, serverVars, Links, Reads, Phases
<1>4. ASSUME NEW o \in Ops, Waits(o) PROVE TypeInv'
  BY <1>4 DEF Waits, TypeInv, linkVars, serverVars, Reads, Phases, TurnOf, Turns
<1>5. ASSUME Skips PROVE TypeInv'
  BY <1>5 DEF Skips, TypeInv, opVars, serverVars, Reads, Links
<1>6. ASSUME NEW m \in Lines, Deliver(m) PROVE inbox' \in Seq(Lines)
  BY <1>6, DeliverFacts DEF TypeInv
<1>7. ASSUME NEW r \in requests, Perform(r) PROVE TypeInv'
  <2>1. r \in Requests /\ r.op \in Ops
    BY DEF TypeInv, Requests
  <2>2. performed' \subseteq Requests /\ requests' \subseteq Requests
    BY <1>7, <2>1 DEF Perform, TypeInv
  <2>3. turn' \in [Turns -> TurnStates]
    BY <1>7, <2>1 DEF Perform, TypeInv, TurnStates
  <2>4. ran' \in [Ops -> BOOLEAN]
    BY <1>7, <2>1 DEF Perform, TypeInv
  <2> QED BY <1>7, <2>2, <2>3, <2>4 DEF Perform, TypeInv, linkVars, opVars
<1>8. ASSUME NEW r \in requests, Refuse(r) PROVE TypeInv'
  <2>1. inbox' \in Seq(Lines)
    BY <1>6, <1>8, RefusalFacts
  <2> QED BY <1>8, <2>1 DEF Refuse, TypeInv, linkVars, opVars
<1>9. ASSUME NEW r \in performed, Reply(r) PROVE TypeInv'
  <2>1. inbox' \in Seq(Lines)
    BY <1>6, <1>9, ReplyFacts
  <2> QED BY <1>9, <2>1 DEF Reply, TypeInv, linkVars, opVars
<1>10. ASSUME NEW t \in Turns, TurnEnds(t) PROVE TypeInv'
  <2>1. inbox' \in Seq(Lines)
    BY <1>6, <1>10, NoteFacts
  <2>2. turn' \in [Turns -> TurnStates]
    BY <1>10 DEF TurnEnds, TypeInv, TurnStates
  <2> QED BY <1>10, <2>1, <2>2 DEF TurnEnds, TypeInv, linkVars, opVars
<1>11. ASSUME NEW id \in ServerIds, Ask(id) PROVE TypeInv'
  <2>1. inbox' \in Seq(Lines)
    BY <1>6, <1>11, AskFacts
  <2> QED BY <1>11, <2>1 DEF Ask, TypeInv, linkVars, opVars
<1> QED
  BY <1>1, <1>2, <1>3, <1>4, <1>5, <1>7, <1>8, <1>9, <1>10, <1>11
  DEF Grouped, Serves

(***************************************************************************)
(* The app-server leaves the operations and the queue alone.               *)
(***************************************************************************)
LEMMA ServesOnly ==
  ASSUME Serves
  PROVE  UNCHANGED << queue, link, conn, nextId, phase, step, await, turnId,
                      result, turnStatus, posture >>
BY DEF Serves, Perform, Refuse, Reply, TurnEnds, Ask, linkVars, opVars

(***************************************************************************)
(* Only the first operation of the queue is ever at work.                  *)
(***************************************************************************)
LEMMA NextQueue ==
  ASSUME TypeInv, QueueInv, Grouped
  PROVE  QueueInv'
<1> USE DEF QueueInv
<1>1. phase \in [Ops -> Phases] /\ queue \in Seq(Ops)
  BY DEF TypeInv
<1>2. ASSUME NEW o \in Ops, Submit(o) PROVE QueueInv'
  <2>1. queue # << >> => queue' # << >> /\ Head(queue') = Head(queue)
    BY <1>1, <1>2 DEF Submit
  <2> QED BY <1>1, <1>2, <2>1 DEF Submit
<1>3. ASSUME NEW o \in Ops, Sends(o) PROVE QueueInv'
  <2>1. /\ First(o) /\ queue' = queue
        /\ phase' = [phase EXCEPT ![o] = "waiting"]
    BY <1>3 DEF Sends, SendRequest
  <2> QED BY <1>1, <2>1 DEF First
<1>4. ASSUME NEW o \in Ops, Ends(o) PROVE QueueInv'
  <2>1. First(o) /\ phase' = [phase EXCEPT ![o] = "done"]
    BY <1>4 DEF Ends, Finish
  <2> QED BY <1>1, <2>1 DEF First
<1>5. ASSUME NEW o \in Ops, Waits(o) PROVE QueueInv'
  BY <1>1, <1>5 DEF Waits
<1>6. ASSUME Skips PROVE QueueInv'
  BY <1>6 DEF Skips, opVars
<1>7. ASSUME Serves PROVE QueueInv'
  BY <1>7, ServesOnly
<1> QED BY <1>2, <1>3, <1>4, <1>5, <1>6, <1>7 DEF Grouped

----------------------------------------------------------------------------
(***************************************************************************)
(* A request is put on the wire once, under an id of its own.              *)
(***************************************************************************)
Quiet == UNCHANGED << conn, nextId, phase, step, await, requests, performed, posture >>

SentInv == RequestInv /\ AwaitInv

LEMMA QuietSent == ASSUME SentInv, Quiet PROVE SentInv'
BY DEF Quiet, SentInv, RequestInv, AwaitInv, Sent, Begun, MethodOf

\* The app-server forgets requests, or moves them from one set to the other.
LEMMA FewerSent ==
  ASSUME SentInv, Sent' \subseteq Sent, requests' \cap performed' = {},
         UNCHANGED << conn, nextId, phase, step, await, posture >>
  PROVE  SentInv'
BY DEF SentInv, RequestInv, AwaitInv, Begun, MethodOf

LEMMA SendsSent ==
  ASSUME TypeInv, QueueInv, SentInv, RanInv, NEW o \in Ops, Sends(o)
  PROVE  SentInv'
<1>1. PICK k \in 0 .. 2, up \in BOOLEAN :
        /\ First(o)
        /\ k <= Last(o)
        /\ phase[o] = "queued" \/ (phase[o] = "waiting" /\ step[o] < k)
        /\ KindOf[o] = "steer" /\ k = 2 => posture
        /\ \/ conn' = conn /\ SendRequest(o, k, nextId, conn, up)
           \/ conn' = conn + 1 /\ SendRequest(o, k, 1, conn + 1, up)
  BY DEF Sends
<1>2. PICK c \in Nat, id \in Nat :
        /\ conn' = c /\ SendRequest(o, k, id, c, up)
        /\ (c = conn /\ id = nextId) \/ (c = conn + 1 /\ id = 1)
  BY <1>1 DEF TypeInv
<1> DEFINE new == [conn |-> c, id |-> id, op |-> o, step |-> k]
<1>3. /\ new \in Requests /\ new.conn = c /\ new.id = id
      /\ new.op = o /\ new.step = k
  BY DEF Requests
<1>4. /\ requests' \subseteq requests \cup {new}
      /\ performed' = performed
      /\ nextId' = id + 1
      /\ phase' = [phase EXCEPT ![o] = "waiting"]
      /\ step' = [step EXCEPT ![o] = k]
      /\ await' = [await EXCEPT ![o] = id]
      /\ posture' = posture
  BY <1>2 DEF SendRequest
<1> HIDE DEF new
<1>5. /\ conn \in Nat /\ nextId \in Nat /\ phase \in [Ops -> Phases]
      /\ step \in [Ops -> 0 .. 2] /\ await \in [Ops -> Nat]
      /\ Sent \subseteq Requests
      /\ Sent' \subseteq Sent \cup {new}
  BY <1>4 DEF TypeInv, Sent
<1>6. \A r \in Sent : r.op = o => phase[o] = "waiting" /\ r.step < k
  <2>1. SUFFICES ASSUME NEW r \in Sent, r.op = o PROVE phase[o] = "waiting" /\ r.step < k
    OBVIOUS
  <2>2. r.step <= step[o] /\ phase[o] # "queued" /\ r.step \in 0 .. 2 /\ step[o] \in 0 .. 2
    BY <1>5, <2>1 DEF SentInv, RequestInv, Begun, Requests
  <2> QED BY <1>1, <2>2
<1>7. \A r \in Sent : r.conn = c => c = conn /\ r.id < id
  <2>1. SUFFICES ASSUME NEW r \in Sent, r.conn = c PROVE c = conn /\ r.id < id
    OBVIOUS
  <2>2. r.conn <= conn /\ (r.conn = conn => r.id < nextId) /\ r.conn \in Nat
    BY <1>5, <2>1 DEF SentInv, RequestInv, Requests
  <2> QED BY <1>2, <1>5, <2>1, <2>2
<1>8. \A p \in Ops : p # o => phase[p] # "waiting"
  BY <1>1 DEF QueueInv, First
<1>9. MethodOf(new) = "steer" => posture
  <2>1. MethodOf(new) = "steer" => KindOf[o] = "steer" /\ k = 2
    BY <1>1, <1>3, MethodFacts
  <2> QED BY <1>1, <2>1
<1>10. \A r : MethodOf(r)' = MethodOf(r)
  BY DEF MethodOf
<1>11. ASSUME NEW r \in Sent'
       PROVE  /\ r.conn <= conn'
              /\ r.conn = conn' => r.id < nextId'
              /\ Begun(r.op)'
              /\ r.step <= step'[r.op]
              /\ MethodOf(r) = "steer" => posture'
              /\ phase'[r.op] = "waiting" /\ r.step = step'[r.op] =>
                   r.conn = conn' /\ r.id = await'[r.op]
  <2>1. CASE r = new
    BY <1>2, <1>3, <1>4, <1>5, <1>9, <2>1 DEF Begun
  <2>2. CASE r # new
    <3>1. /\ r \in Sent /\ r \in Requests /\ r.op \in Ops /\ r.conn \in Nat
          /\ r.id \in Nat /\ r.step \in 0 .. 2
      BY <1>5, <2>2 DEF Requests
    <3>2. /\ r.conn <= conn /\ (r.conn = conn => r.id < nextId)
          /\ Begun(r.op) /\ r.step <= step[r.op]
          /\ MethodOf(r) = "steer" => posture
          /\ phase[r.op] = "waiting" /\ r.step = step[r.op] =>
               r.conn = conn /\ r.id = await[r.op]
      BY <3>1 DEF SentInv, RequestInv
    <3>3. r.conn <= conn' /\ (r.conn = conn' => r.id < nextId')
      BY <1>2, <1>4, <1>5, <1>7, <3>1, <3>2
    <3>4. CASE r.op = o
      BY <1>4, <1>5, <1>6, <3>1, <3>2, <3>3, <3>4 DEF Begun
    <3>5. CASE r.op # o
      BY <1>4, <1>5, <1>8, <3>1, <3>2, <3>3, <3>5 DEF Begun
    <3> QED BY <3>4, <3>5
  <2> QED BY <2>1, <2>2
<1>12. \A r, q \in Sent' : r.op = q.op /\ r.step = q.step => r = q
  <2>1. SUFFICES ASSUME NEW r \in Sent', NEW q \in Sent', r.op = q.op, r.step = q.step
                 PROVE  r = q
    OBVIOUS
  <2>2. CASE r \in Sent /\ q \in Sent
    BY <2>1, <2>2 DEF SentInv, RequestInv
  <2>3. ASSUME NEW p \in Sent, p.op = o, p.step = k PROVE FALSE
    BY <1>5, <1>6, <2>3 DEF Requests
  <2> QED BY <1>3, <1>5, <2>1, <2>2, <2>3
<1>13. requests' \cap performed' = {}
  <2>1. new \notin performed
    BY <1>3, <1>5, <1>6 DEF Requests, Sent
  <2> QED BY <1>4, <2>1 DEF SentInv, RequestInv
<1>14. ASSUME NEW p \in Ops, phase'[p] = "waiting"
       PROVE  /\ await'[p] < nextId'
              /\ \A r \in Sent' : r.conn = conn' /\ r.id = await'[p] =>
                   r.op = p /\ r.step = step'[p]
  <2>1. p = o
    BY <1>4, <1>5, <1>8, <1>14
  <2>2. await'[o] = id /\ step'[o] = k /\ nextId' = id + 1 /\ conn' = c
    BY <1>2, <1>4, <1>5
  <2>3. \A r \in Sent : ~(r.conn = c /\ r.id = id)
    BY <1>5, <1>7 DEF Requests
  <2> QED BY <1>3, <1>5, <2>1, <2>2, <2>3
<1> QED BY <1>10, <1>11, <1>12, <1>13, <1>14 DEF SentInv, RequestInv, AwaitInv

LEMMA NextSent ==
  ASSUME TypeInv, QueueInv, SentInv, RanInv, Grouped
  PROVE  SentInv'
<1>1. phase \in [Ops -> Phases]
  BY DEF TypeInv
<1>2. ASSUME NEW o \in Ops, Submit(o) PROVE SentInv'
  BY <1>1, <1>2 DEF Submit, SentInv, RequestInv, AwaitInv, Sent, Begun, MethodOf,
     linkVars, serverVars
<1>3. ASSUME NEW o \in Ops, Sends(o) PROVE SentInv'
  BY <1>3, SendsSent
<1>4. ASSUME NEW o \in Ops, Ends(o) PROVE SentInv'
  <2>1. /\ phase' = [phase EXCEPT ![o] = "done"]
        /\ UNCHANGED << conn, nextId, step, await, requests, performed, posture >>
    BY <1>4 DEF Ends, Finish, serverVars
  <2> QED BY <1>1, <2>1 DEF SentInv, RequestInv, AwaitInv, Sent, Begun, MethodOf
<1>5. ASSUME NEW o \in Ops, Waits(o) PROVE SentInv'
  <2>1. /\ phase' = [phase EXCEPT ![o] = "turn_wait"]
        /\ UNCHANGED << conn, nextId, step, await, requests, performed, posture >>
    BY <1>5 DEF Waits, linkVars, serverVars
  <2> QED BY <1>1, <2>1 DEF SentInv, RequestInv, AwaitInv, Sent, Begun, MethodOf
<1>6. ASSUME Skips PROVE SentInv'
  BY <1>6, QuietSent DEF Skips, Quiet, opVars, serverVars
<1>7. ASSUME NEW r \in requests, Perform(r) PROVE SentInv'
  <2>1. /\ requests' = requests \ {r} /\ performed' = performed \cup {r}
        /\ UNCHANGED << conn, nextId, phase, step, await, posture >>
    BY <1>7 DEF Perform, linkVars, opVars
  <2>2. Sent' \subseteq Sent /\ requests' \cap performed' = {}
    BY <2>1 DEF Sent, SentInv, RequestInv
  <2> QED BY <2>1, <2>2, FewerSent
<1>8. ASSUME NEW r \in requests, Refuse(r) PROVE SentInv'
  <2>1. /\ requests' = requests \ {r} /\ performed' = performed
        /\ UNCHANGED << conn, nextId, phase, step, await, posture >>
    BY <1>8 DEF Refuse, linkVars, opVars
  <2>2. Sent' \subseteq Sent /\ requests' \cap performed' = {}
    BY <2>1 DEF Sent, SentInv, RequestInv
  <2> QED BY <2>1, <2>2, FewerSent
<1>9. ASSUME NEW r \in performed, Reply(r) PROVE SentInv'
  <2>1. /\ performed' = performed \ {r} /\ requests' = requests
        /\ UNCHANGED << conn, nextId, phase, step, await, posture >>
    BY <1>9 DEF Reply, linkVars, opVars
  <2>2. Sent' \subseteq Sent /\ requests' \cap performed' = {}
    BY <2>1 DEF Sent, SentInv, RequestInv
  <2> QED BY <2>1, <2>2, FewerSent
<1>10. ASSUME NEW t \in Turns, TurnEnds(t) PROVE SentInv'
  BY <1>10, QuietSent DEF TurnEnds, Quiet, linkVars, opVars
<1>11. ASSUME NEW id \in ServerIds, Ask(id) PROVE SentInv'
  BY <1>11, QuietSent DEF Ask, Quiet, linkVars, opVars
<1> QED
  BY <1>2, <1>3, <1>4, <1>5, <1>6, <1>7, <1>8, <1>9, <1>10, <1>11
  DEF Grouped, Serves

----------------------------------------------------------------------------
(***************************************************************************)
(* A control is performed once, by its last request.                       *)
(***************************************************************************)
LEMMA PerformFacts ==
  ASSUME TypeInv, SentInv, RanInv, NEW r \in requests, Perform(r)
  PROVE  /\ r.op \in Ops /\ r \in Requests
         /\ requests' = requests \ {r} /\ performed' = performed \cup {r}
         /\ Final(r) => ~ran[r.op]
         /\ \A o \in Ops : ran'[o] = (ran[o] \/ (o = r.op /\ Final(r)))
         /\ Final(r) => Begun(r.op) /\ step[r.op] = Last(r.op)
         /\ Final(r) /\ KindOf[r.op] = "steer" => posture
         /\ \A t \in Turns : turn'[t] # turn[t] => t = r.op /\ Final(r)
         /\ UNCHANGED << phase, step, await, nextId, conn, result, turnStatus,
                         turnId, posture, inbox >>
<1>1. r \in Requests /\ r.op \in Ops /\ r \in Sent /\ r.step \in 0 .. 2
  BY DEF TypeInv, Requests, Sent
<1>2. Begun(r.op) /\ r.step <= step[r.op] /\ (MethodOf(r) = "steer" => posture)
  BY <1>1 DEF SentInv, RequestInv
<1>3. step[r.op] <= Last(r.op) /\ step[r.op] \in 0 .. 2 /\ Last(r.op) \in 1 .. 2
  BY <1>1, StepsFacts DEF RanInv, TypeInv
<1>4. r.step <= Last(r.op)
  BY <1>1, <1>2, <1>3
<1>5. /\ Final(r) <=> MethodOf(r) \in {"start", "steer"}
      /\ Final(r) /\ KindOf[r.op] = "steer" => MethodOf(r) = "steer"
  BY <1>1, <1>4, MethodFacts
<1>6. Final(r) => step[r.op] = Last(r.op)
  BY <1>1, <1>2, <1>3 DEF Final
<1>7. \A o \in Ops : ran'[o] = (ran[o] \/ (o = r.op /\ Final(r)))
  BY <1>1, <1>5 DEF Perform, TypeInv
<1>8. \A t \in Turns : turn'[t] # turn[t] => t = r.op /\ Final(r)
  BY <1>1, <1>5 DEF Perform, TypeInv
<1> QED
  BY <1>1, <1>2, <1>5, <1>6, <1>7, <1>8 DEF Perform, RanInv, linkVars, opVars

LEMMA NextRan ==
  ASSUME TypeInv, TypeInv', SentInv, RanInv, Grouped
  PROVE  RanInv'
<1> USE TurnsAssumption
<1>1. /\ phase \in [Ops -> Phases] /\ step \in [Ops -> 0 .. 2]
      /\ ran \in [Ops -> BOOLEAN] /\ turn \in [Turns -> TurnStates]
      /\ requests \subseteq Requests /\ performed \subseteq Requests
      /\ Ops \subseteq Turns
  BY DEF TypeInv, Turns
<1>2. \A o : Last(o)' = Last(o)
  BY DEF Last, StepsOf
<1>3. \A r : Final(r)' = Final(r)
  BY <1>2 DEF Final
<1>4. ASSUME NEW o \in Ops, Submit(o) PROVE RanInv'
  BY <1>1, <1>2, <1>3, <1>4 DEF Submit, RanInv, Begun, serverVars
<1>5. ASSUME NEW o \in Ops, Sends(o) PROVE RanInv'
  <2>1. PICK k \in 0 .. 2, up \in BOOLEAN, c \in Nat, id \in Nat :
          /\ k <= Last(o)
          /\ phase[o] = "queued" \/ (phase[o] = "waiting" /\ step[o] < k)
          /\ SendRequest(o, k, id, c, up)
    <3>1. conn \in Nat /\ nextId \in Nat /\ conn + 1 \in Nat /\ 1 \in Nat
      BY DEF TypeInv
    <3> QED BY <1>5, <3>1 DEF Sends
  <2>2. /\ \A r \in requests' : r \in requests \/ r.op = o
        /\ phase' = [phase EXCEPT ![o] = "waiting"]
        /\ step' = [step EXCEPT ![o] = k]
        /\ UNCHANGED << performed, ran, turn, posture >>
    BY <2>1 DEF SendRequest
  <2>3. ~ran[o]
    <3>1. step[o] \in 0 .. 2 /\ Last(o) \in 1 .. 2
      BY <1>1, StepsFacts
    <3> QED BY <2>1, <3>1 DEF RanInv, Begun
  <2> QED BY <1>1, <1>2, <1>3, <2>1, <2>2, <2>3 DEF RanInv, Begun
<1>6. ASSUME NEW o \in Ops, Ends(o) PROVE RanInv'
  <2>1. /\ phase' = [phase EXCEPT ![o] = "done"]
        /\ UNCHANGED << step, serverVars >>
    BY <1>6 DEF Ends, Finish
  <2> QED BY <1>1, <1>2, <1>3, <2>1 DEF RanInv, Begun, serverVars
<1>7. ASSUME NEW o \in Ops, Waits(o) PROVE RanInv'
  BY <1>1, <1>2, <1>3, <1>7 DEF Waits, RanInv, Begun, serverVars
<1>8. ASSUME Skips PROVE RanInv'
  BY <1>2, <1>3, <1>8 DEF Skips, RanInv, Begun, opVars, serverVars
<1>9. ASSUME NEW r \in requests, Perform(r) PROVE RanInv'
  <2> USE <1>9, PerformFacts
  <2>1. \A o \in Ops : step'[o] <= Last(o)'
    BY <1>2 DEF RanInv
  <2>2. \A o \in Ops : ran'[o] =>
          Begun(o)' /\ step'[o] = Last(o)' /\ (KindOf[o] = "steer" => posture')
    BY <1>1, <1>2 DEF RanInv, Begun
  <2>3. \A q \in requests' : Final(q)' => ~ran'[q.op]
    <3>1. SUFFICES ASSUME NEW q \in requests', Final(q) PROVE ~ran'[q.op]
      BY <1>3
    <3>2. q \in requests /\ q # r /\ q.op \in Ops /\ ~ran[q.op]
      BY <1>1, <3>1 DEF RanInv, Requests
    <3>3. ~(q.op = r.op /\ Final(r))
      BY <3>1, <3>2 DEF SentInv, RequestInv, Sent, Final
    <3> QED BY <3>2, <3>3
  <2>4. \A q \in performed' : Final(q)' => ran'[q.op]
    <3>1. SUFFICES ASSUME NEW q \in performed', Final(q) PROVE ran'[q.op]
      BY <1>3
    <3>2. q \in performed \/ q = r
      OBVIOUS
    <3>3. q \in performed => ran[q.op] /\ q.op \in Ops
      BY <1>1, <3>1 DEF RanInv, Requests
    <3> QED BY <3>1, <3>2, <3>3
  <2>5. \A t \in Ops : turn'[t] # "none" => ran'[t]
    BY <1>1 DEF RanInv
  <2> QED BY <2>1, <2>2, <2>3, <2>4, <2>5 DEF RanInv
<1>10. ASSUME NEW r \in requests, Refuse(r) PROVE RanInv'
  BY <1>2, <1>3, <1>10 DEF Refuse, RanInv, Begun, opVars
<1>11. ASSUME NEW r \in performed, Reply(r) PROVE RanInv'
  BY <1>2, <1>3, <1>11 DEF Reply, RanInv, Begun, opVars
<1>12. ASSUME NEW t \in Turns, TurnEnds(t) PROVE RanInv'
  <2>1. \A u \in Ops : turn'[u] # "none" => turn[u] # "none"
    BY <1>1, <1>12 DEF TurnEnds
  <2> QED BY <1>2, <1>3, <1>12, <2>1 DEF TurnEnds, RanInv, Begun, opVars
<1>13. ASSUME NEW id \in ServerIds, Ask(id) PROVE RanInv'
  BY <1>2, <1>3, <1>13 DEF Ask, RanInv, Begun, opVars
<1> QED
  BY <1>4, <1>5, <1>6, <1>7, <1>8, <1>9, <1>10, <1>11, <1>12, <1>13
  DEF Grouped, Serves

(***************************************************************************)
(* What the app-server did stays done, and what it can no longer do it     *)
(* never does.                                                             *)
(***************************************************************************)
LEMMA ServedStays ==
  ASSUME TypeInv, SentInv, RanInv, Serves
  PROVE  /\ \A o \in Ops : ran[o] => ran'[o]
         /\ \A t \in Turns : turn[t] \in Resolved => turn'[t] = turn[t]
         /\ \A o \in Ops : NeverRuns(o) => NeverRuns(o)'
<1> USE TurnsAssumption
<1>1. \A r : Final(r)' = Final(r)
  BY DEF Final, Last, StepsOf
<1>2. ASSUME NEW r \in requests, Perform(r)
      PROVE  /\ \A o \in Ops : ran[o] => ran'[o]
             /\ \A t \in Turns : turn[t] \in Resolved => turn'[t] = turn[t]
             /\ \A o \in Ops : NeverRuns(o) => NeverRuns(o)'
  <2> USE <1>2, PerformFacts
  <2>1. \A t \in Turns : turn[t] \in Resolved => turn'[t] = turn[t]
    BY DEF RanInv, Resolved
  <2>2. \A o \in Ops : NeverRuns(o) => NeverRuns(o)'
    BY <1>1 DEF NeverRuns
  <2> QED BY <2>1, <2>2
<1>3. ASSUME NEW r \in requests, Refuse(r)
      PROVE  /\ \A o \in Ops : NeverRuns(o) => NeverRuns(o)'
             /\ UNCHANGED << ran, turn >>
  BY <1>1, <1>3 DEF Refuse, NeverRuns
<1>4. ASSUME NEW r \in performed, Reply(r) PROVE UNCHANGED << ran, turn, requests >>
  BY <1>4 DEF Reply
<1>5. ASSUME NEW t \in Turns, TurnEnds(t)
      PROVE  /\ \A u \in Turns : turn[u] \in Resolved => turn'[u] = turn[u]
             /\ UNCHANGED << ran, requests >>
  BY <1>5 DEF TurnEnds, Resolved, TypeInv
<1>6. ASSUME NEW id \in ServerIds, Ask(id) PROVE UNCHANGED << ran, turn, requests >>
  BY <1>6 DEF Ask
<1> QED BY <1>1, <1>2, <1>3, <1>4, <1>5, <1>6 DEF Serves, NeverRuns

----------------------------------------------------------------------------
(***************************************************************************)
(* What arrives, and has arrived, means what the operations read in it.    *)
(***************************************************************************)
LineMeans(m) ==
  /\ m.safe => posture
  /\ m.status \in Resolved => m.turn \in Turns /\ turn[m.turn] = m.status
  /\ m.kind = "reply" =>
       /\ m.id < nextId
       /\ \A o \in Ops : phase[o] = "waiting" /\ await[o] = m.id => AnswerMeans(m, o)

LEMMA InboxByLine == InboxInv <=> \A m \in Arrived : LineMeans(m)
BY DEF InboxInv, LineMeans

LEMMA NeverRunsKept ==
  ASSUME UNCHANGED << ran, requests >>, NEW o, NeverRuns(o)
  PROVE  NeverRuns(o)'
BY DEF NeverRuns, Final, Last, StepsOf

\* A line keeps its meaning while no operation starts to wait for it.
LEMMA LineKeepsMeaning ==
  ASSUME NEW m \in Lines, LineMeans(m),
         nextId \in Nat, nextId' \in Nat, nextId <= nextId',
         posture' = posture,
         \A t \in Turns : turn[t] \in Resolved => turn'[t] = turn[t],
         \A o \in Ops : ran[o] => ran'[o],
         \A o \in Ops : NeverRuns(o) => NeverRuns(o)',
         \A o \in Ops : phase'[o] = "waiting" =>
           \/ phase[o] = "waiting" /\ await'[o] = await[o] /\ step'[o] = step[o]
           \/ await'[o] # m.id
  PROVE  LineMeans(m)'
<1>1. m.safe => posture'
  BY DEF LineMeans
<1>2. m.status \in Resolved => m.turn \in Turns /\ turn'[m.turn] = m.status
  BY DEF LineMeans
<1>3. ASSUME m.kind = "reply"
      PROVE  /\ m.id < nextId'
             /\ \A o \in Ops : phase'[o] = "waiting" /\ await'[o] = m.id
                  => AnswerMeans(m, o)'
  <2>1. m.id < nextId'
    BY <1>3 DEF LineMeans, Lines
  <2>2. ASSUME NEW o \in Ops, phase'[o] = "waiting", await'[o] = m.id
        PROVE  AnswerMeans(m, o)'
    <3>1. AnswerMeans(m, o) /\ step'[o] = step[o]
      BY <1>3, <2>2 DEF LineMeans
    <3> QED BY <3>1 DEF AnswerMeans, Last, StepsOf
  <2> QED BY <2>1, <2>2
<1> QED BY <1>1, <1>2, <1>3 DEF LineMeans

LEMMA ServedLines ==
  ASSUME TypeInv, SentInv, RanInv, Serves, NEW m \in Lines, LineMeans(m)
  PROVE  LineMeans(m)'
<1>1. nextId \in Nat /\ nextId' = nextId /\ nextId <= nextId /\ posture' = posture
  BY ServesOnly DEF TypeInv
<1>2. phase' = phase /\ await' = await /\ step' = step
  BY ServesOnly
<1>3. /\ \A t \in Turns : turn[t] \in Resolved => turn'[t] = turn[t]
      /\ \A o \in Ops : ran[o] => ran'[o]
      /\ \A o \in Ops : NeverRuns(o) => NeverRuns(o)'
  BY ServedStays
<1> QED BY <1>1, <1>2, <1>3, LineKeepsMeaning

\* The line that a step of the app-server delivers.
LEMMA NewLine ==
  ASSUME TypeInv, TypeInv', SentInv, RanInv, RanInv', Serves
  PROVE  \/ UNCHANGED inbox
         \/ \E m \in Lines : Deliver(m) /\ LineMeans(m)'
<1> USE TurnsAssumption
<1>1. /\ phase \in [Ops -> Phases] /\ step \in [Ops -> 0 .. 2]
      /\ turn \in [Turns -> TurnStates] /\ ran \in [Ops -> BOOLEAN]
      /\ requests \subseteq Requests /\ performed \subseteq Requests
      /\ Ops \subseteq Turns
  BY DEF TypeInv, Turns
<1>2. UNCHANGED << nextId, phase, await, step, posture, conn >>
  BY ServesOnly
<1>3. ASSUME NEW r \in Sent, Reachable(r)
      PROVE  /\ r \in Requests /\ r.op \in Ops /\ r.step \in 0 .. 2
             /\ r.id < nextId /\ r.step <= step[r.op] /\ r.step <= Last(r.op)
             /\ \A o \in Ops : phase[o] = "waiting" /\ await[o] = r.id
                  => r.op = o /\ r.step = step[o]
  <2>1. r \in Requests /\ r.op \in Ops /\ r.step \in 0 .. 2
    BY <1>1 DEF Sent, Requests
  <2>2. r.conn = conn /\ r.id < nextId /\ r.step <= step[r.op]
    BY <1>3 DEF Reachable, SentInv, RequestInv
  <2>3. \A o \in Ops : phase[o] = "waiting" /\ await[o] = r.id
          => r.op = o /\ r.step = step[o]
    BY <2>2 DEF SentInv, AwaitInv
  <2>4. r.step <= Last(r.op)
    <3>1. step[r.op] <= Last(r.op) /\ step[r.op] \in 0 .. 2 /\ Last(r.op) \in 1 .. 2
      BY <1>1, <2>1, StepsFacts DEF RanInv
    <3> QED BY <2>1, <2>2, <3>1
  <2> QED BY <2>1, <2>2, <2>3, <2>4
<1>4. ASSUME NEW r \in requests, Refuse(r)
      PROVE  \E m \in Lines : Deliver(m) /\ LineMeans(m)'
  <2>1. PICK m \in Lines : /\ Deliver(m)
                           /\ m.kind = "reply" /\ m.id = r.id /\ ~m.ok
                           /\ m.turn = NoTurn /\ m.status = "none" /\ ~m.safe
    BY <1>4, RefusalFacts
  <2>2. /\ requests' = requests \ {r} /\ ran' = ran /\ Reachable(r) /\ r \in Sent
    BY <1>4 DEF Refuse, Sent
  <2>3. ASSUME NEW o \in Ops, phase[o] = "waiting", await[o] = r.id
        PROVE  NeverRuns(o)'
    <3>1. r.op = o /\ r.step = step[o]
      BY <1>3, <2>2, <2>3
    <3>2. \A q : Final(q)' = Final(q)
      BY DEF Final, Last, StepsOf
    <3>3. ASSUME NEW q \in requests, q # r, q.op = o, Final(q) PROVE FALSE
      <4>1. /\ q \in Sent /\ q.step <= step[o]
            /\ ~(q.op = r.op /\ q.step = r.step)
        BY <2>2, <3>3 DEF Sent, SentInv, RequestInv
      <4>2. /\ q.step = Last(o) /\ step[o] <= Last(o)
            /\ step[o] \in 0 .. 2 /\ Last(o) \in 1 .. 2
        BY <1>1, <3>3, StepsFacts DEF Final, RanInv
      <4> QED BY <3>1, <3>3, <4>1, <4>2
    <3>4. ~ran[o]
      <4>1. ran[o] => step[o] = Last(o)
        BY DEF RanInv
      <4>2. step[o] = Last(o) => ~ran[o]
        BY <3>1 DEF RanInv, Final
      <4> QED BY <4>1, <4>2
    <3> QED BY <2>2, <3>2, <3>3, <3>4 DEF NeverRuns
  <2>4. ASSUME NEW o \in Ops, phase[o] = "waiting", await[o] = r.id
        PROVE  AnswerMeans(m, o)'
    BY <2>1, <2>3, <2>4 DEF AnswerMeans, Turns
  <2>5. m.id < nextId
    BY <1>3, <2>1, <2>2
  <2> QED BY <1>2, <2>1, <2>4, <2>5 DEF LineMeans, Resolved
<1>5. ASSUME NEW r \in performed, Reply(r)
      PROVE  \E m \in Lines : Deliver(m) /\ LineMeans(m)'
  <2>1. PICK m \in Lines :
          /\ Deliver(m)
          /\ m.kind = "reply" /\ m.id = r.id /\ m.ok
          /\ m.turn \in {r.op, NoTurn}
          /\ m.turn # NoTurn => m.turn = r.op /\ MethodOf(r) = "start"
          /\ m.status \in Resolved => m.turn = r.op /\ m.status = turn[r.op]
          /\ m.safe => posture
    BY <1>5, ReplyFacts
  <2>2. ran' = ran /\ turn' = turn /\ Reachable(r) /\ r \in Sent
    BY <1>5 DEF Reply, Sent
  <2>3. ASSUME NEW o \in Ops, phase[o] = "waiting", await[o] = r.id
        PROVE  AnswerMeans(m, o)'
    <3>1. r.op = o /\ r.step = step[o]
      BY <1>3, <2>2, <2>3
    <3>2. step[o] = Last(o) => ran[o]
      BY <3>1 DEF RanInv, Final
    <3>3. m.turn = o => KindOf[o] # "steer"
      <4>1. MethodOf(r) = "start" => KindOf[r.op] # "steer"
        BY <1>3, <2>2, MethodFacts
      <4> QED BY <2>1, <3>1, <4>1 DEF Turns
    <3> QED BY <1>2, <2>1, <2>2, <3>1, <3>2, <3>3 DEF AnswerMeans, Last, StepsOf
  <2>4. m.id < nextId
    BY <1>3, <2>1, <2>2
  <2>5. m.status \in Resolved => m.turn \in Turns /\ turn[m.turn] = m.status
    BY <1>1, <1>3, <2>1, <2>2
  <2> QED BY <1>2, <2>1, <2>2, <2>3, <2>4, <2>5 DEF LineMeans
<1>6. ASSUME NEW t \in Turns, TurnEnds(t)
      PROVE  \E m \in Lines : Deliver(m) /\ LineMeans(m)'
  <2>1. PICK m \in Lines :
          /\ Deliver(m)
          /\ m.kind = "note" /\ m.turn = t /\ ~m.safe
          /\ m.status \in Resolved /\ turn' = [turn EXCEPT ![t] = m.status]
    BY <1>6, NoteFacts
  <2>2. turn'[t] = m.status
    BY <1>1, <2>1
  <2> QED BY <2>1, <2>2 DEF LineMeans
<1>7. ASSUME NEW id \in ServerIds, Ask(id)
      PROVE  \E m \in Lines : Deliver(m) /\ LineMeans(m)'
  <2>1. PICK m \in Lines : /\ Deliver(m)
                           /\ m.kind = "request" /\ m.id = id
                           /\ m.status = "none" /\ ~m.safe
    BY <1>7, AskFacts
  <2> QED BY <2>1 DEF LineMeans, Resolved
<1>8. ASSUME NEW r \in requests, Perform(r) PROVE UNCHANGED inbox
  BY <1>8 DEF Perform
<1> QED BY <1>4, <1>5, <1>6, <1>7, <1>8 DEF Serves

LEMMA NextInbox ==
  ASSUME TypeInv, TypeInv', QueueInv, SentInv, RanInv, RanInv', InboxInv, Grouped
  PROVE  InboxInv'
<1>1. /\ phase \in [Ops -> Phases] /\ inbox \in Seq(Lines)
      /\ nextId \in Nat /\ nextId' \in Nat
      /\ await \in [Ops -> Nat] /\ step \in [Ops -> 0 .. 2]
  BY DEF TypeInv
<1>2. Arrived \subseteq Lines
  BY <1>1, LenProperties DEF Arrived
<1>3. \A m \in Arrived : LineMeans(m)
  BY InboxByLine
<1>4. InboxInv' <=> \A m \in Arrived' : LineMeans(m)'
  BY DEF InboxInv, LineMeans
<1>5. ASSUME Arrived' \subseteq Arrived, nextId <= nextId',
             UNCHANGED << posture, turn, ran >>,
             \A o \in Ops : NeverRuns(o) => NeverRuns(o)',
             \A m \in Arrived : \A o \in Ops : phase'[o] = "waiting" =>
               \/ phase[o] = "waiting" /\ await'[o] = await[o] /\ step'[o] = step[o]
               \/ m.kind # "reply"
               \/ await'[o] # m.id
      PROVE  InboxInv'
  <2>1. SUFFICES ASSUME NEW m \in Arrived PROVE LineMeans(m)'
    BY <1>4, <1>5
  <2>2. m \in Lines /\ LineMeans(m)
    BY <1>2, <1>3
  <2>3. CASE m.kind = "reply"
    BY <1>1, <1>5, <2>2, <2>3, LineKeepsMeaning
  <2>4. CASE m.kind # "reply"
    BY <1>5, <2>2, <2>4 DEF LineMeans
  <2> QED BY <2>3, <2>4
<1>6. UNCHANGED << requests, ran >> => \A o \in Ops : NeverRuns(o) => NeverRuns(o)'
  BY NeverRunsKept
<1>7. UNCHANGED inbox => Arrived' = Arrived
  BY DEF Arrived
<1>8. ASSUME NEW o \in Ops, Submit(o) PROVE InboxInv'
  <2>1. /\ phase' = [phase EXCEPT ![o] = "queued"]
        /\ UNCHANGED << inbox, nextId, await, step, requests, ran, turn, posture >>
    BY <1>8 DEF Submit, linkVars, serverVars
  <2>2. \A p \in Ops : phase'[p] = "waiting" => phase[p] = "waiting"
    BY <1>1, <2>1
  <2> QED BY <1>1, <1>5, <1>6, <1>7, <2>1, <2>2
<1>9. ASSUME NEW o \in Ops, Sends(o) PROVE InboxInv'
  <2>1. PICK k \in 0 .. 2, up \in BOOLEAN :
          /\ First(o) /\ Reads
          /\ \/ conn' = conn /\ SendRequest(o, k, nextId, conn, up)
             \/ conn' = conn + 1 /\ SendRequest(o, k, 1, conn + 1, up) /\ Arrived' = {}
    BY <1>9 DEF Sends
  <2>2. CASE Arrived' = {}
    BY <1>4, <2>2
  <2>3. CASE SendRequest(o, k, nextId, conn, up)
    <3>1. /\ phase' = [phase EXCEPT ![o] = "waiting"]
          /\ await' = [await EXCEPT ![o] = nextId]
          /\ step' = [step EXCEPT ![o] = k]
          /\ nextId' = nextId + 1
          /\ UNCHANGED << posture, turn, ran >>
          /\ \A r \in requests' : r \in requests \/ r.op = o
      BY <2>3 DEF SendRequest
    <3>2. \A p \in Ops : p # o => phase[p] # "waiting"
      BY <2>1 DEF QueueInv, First
    <3>3. SUFFICES ASSUME NEW m \in Arrived, m \in Arrived' PROVE LineMeans(m)'
      BY <1>4, <2>1 DEF Reads
    <3>4. LineMeans(m) /\ m \in Lines
      BY <1>2, <1>3
    <3>5. ASSUME m.kind = "reply"
          PROVE  /\ m.id < nextId'
                 /\ \A p \in Ops : ~(phase'[p] = "waiting" /\ await'[p] = m.id)
      <4>1. m.id < nextId /\ m.id \in Nat
        BY <3>4, <3>5 DEF LineMeans, Lines
      <4> QED BY <1>1, <3>1, <3>2, <4>1
    <3> QED BY <3>1, <3>4, <3>5 DEF LineMeans
  <2> QED BY <2>1, <2>2, <2>3
<1>10. ASSUME NEW o \in Ops, Ends(o) PROVE InboxInv'
  <2>1. /\ phase' = [phase EXCEPT ![o] = "done"] /\ Reads
        /\ UNCHANGED << nextId, await, step, requests, ran, turn, posture >>
    BY <1>10 DEF Ends, Finish, serverVars
  <2>2. \A p \in Ops : phase'[p] = "waiting" => phase[p] = "waiting"
    BY <1>1, <2>1
  <2> QED BY <1>1, <1>5, <1>6, <2>1, <2>2 DEF Reads
<1>11. ASSUME NEW o \in Ops, Waits(o) PROVE InboxInv'
  <2>1. /\ phase' = [phase EXCEPT ![o] = "turn_wait"] /\ Reads
        /\ UNCHANGED << nextId, await, step, requests, ran, turn, posture >>
    BY <1>11 DEF Waits, linkVars, serverVars
  <2>2. \A p \in Ops : phase'[p] = "waiting" => phase[p] = "waiting"
    BY <1>1, <2>1
  <2> QED BY <1>1, <1>5, <1>6, <2>1, <2>2 DEF Reads
<1>12. ASSUME Skips PROVE InboxInv'
  <2>1. /\ Reads
        /\ UNCHANGED << phase, nextId, await, step, requests, ran, turn, posture >>
    BY <1>12 DEF Skips, opVars, serverVars
  <2> QED BY <1>1, <1>5, <1>6, <2>1 DEF Reads
<1>13. ASSUME Serves PROVE InboxInv'
  <2>1. \A m \in Arrived : LineMeans(m)'
    BY <1>2, <1>3, <1>13, ServedLines
  <2>2. CASE UNCHANGED inbox
    BY <1>4, <1>7, <2>1, <2>2
  <2>3. CASE \E m \in Lines : Deliver(m) /\ LineMeans(m)'
    <3>1. PICK m \in Lines : Deliver(m) /\ LineMeans(m)'
      BY <2>3
    <3>2. Arrived' \subseteq Arrived \cup {m}
      BY <1>1, <3>1, DeliverFacts
    <3> QED BY <1>4, <2>1, <3>1, <3>2
  <2> QED BY <1>13, <2>2, <2>3, NewLine
<1> QED
  BY <1>8, <1>9, <1>10, <1>11, <1>12, <1>13 DEF Grouped

(***************************************************************************)
(* What an operation reports stays true.                                   *)
(***************************************************************************)
LEMMA NextReport ==
  ASSUME TypeInv, SentInv, RanInv, ReportInv, Grouped
  PROVE  ReportInv'
<1> USE TurnsAssumption
<1>1. /\ phase \in [Ops -> Phases] /\ result \in [Ops -> Results]
      /\ turnId \in [Ops -> Turns \cup {NoTurn}]
      /\ turnStatus \in [Ops -> Reports] /\ turn \in [Turns -> TurnStates]
      /\ \A o \in Ops : TurnOf(o) \in Turns
  BY DEF TypeInv, TurnOf, Turns
<1>2. \A o : TurnOf(o)' = TurnOf(o)
  BY DEF TurnOf
<1>3. UNCHANGED << requests, ran >> => \A o \in Ops : NeverRuns(o) => NeverRuns(o)'
  BY NeverRunsKept
<1>4. ASSUME NEW o \in Ops, Submit(o) PROVE ReportInv'
  <2>1. /\ phase[o] = "idle" /\ phase' = [phase EXCEPT ![o] = "queued"]
        /\ UNCHANGED << result, turnId, turnStatus, requests, ran, turn >>
    BY <1>4 DEF Submit, serverVars
  <2> QED BY <1>1, <1>2, <1>3, <2>1 DEF ReportInv
<1>5. ASSUME NEW o \in Ops, Sends(o) PROVE ReportInv'
  <2>1. PICK k \in 0 .. 2, up \in BOOLEAN, c \in Nat, id \in Nat :
          /\ k <= Last(o)
          /\ phase[o] = "queued" \/ (phase[o] = "waiting" /\ step[o] < k)
          /\ SendRequest(o, k, id, c, up)
    <3>1. conn \in Nat /\ nextId \in Nat /\ conn + 1 \in Nat /\ 1 \in Nat
      BY DEF TypeInv
    <3> QED BY <1>5, <3>1 DEF Sends
  <2>2. /\ \A r \in requests' : r \in requests \/ r.op = o
        /\ phase' = [phase EXCEPT ![o] = "waiting"]
        /\ UNCHANGED << turnId, result, turnStatus, ran, turn >>
    BY <2>1 DEF SendRequest
  <2>3. result[o] = "none"
    BY <2>1 DEF ReportInv
  <2>4. \A r : Final(r)' = Final(r)
    BY DEF Final, Last, StepsOf
  <2>5. \A p \in Ops : p # o /\ NeverRuns(p) => NeverRuns(p)'
    BY <2>2, <2>4 DEF NeverRuns
  <2> QED BY <1>1, <1>2, <2>1, <2>2, <2>3, <2>5 DEF ReportInv
<1>6. ASSUME NEW o \in Ops, Ends(o) PROVE ReportInv'
  <2>1. PICK value \in Results \ {"none"}, status \in Reports, thrown \in BOOLEAN :
          /\ Finish(o, value, status, thrown)
          /\ Justified(o, value, status)
          /\ UNCHANGED serverVars
    BY <1>6 DEF Ends
  <2>2. /\ phase' = [phase EXCEPT ![o] = "done"]
        /\ result' = [result EXCEPT ![o] = value]
        /\ turnStatus' = [turnStatus EXCEPT ![o] = status]
        /\ UNCHANGED << turnId, requests, ran, turn >>
    BY <2>1 DEF Finish, serverVars
  <2> QED BY <1>1, <1>2, <1>3, <2>1, <2>2 DEF ReportInv, Justified
<1>7. ASSUME NEW o \in Ops, Waits(o) PROVE ReportInv'
  <2>1. /\ phase[o] = "waiting" /\ ran[o]
        /\ phase' = [phase EXCEPT ![o] = "turn_wait"]
        /\ turnId' = [turnId EXCEPT ![o] = TurnOf(o)]
        /\ UNCHANGED << result, turnStatus, requests, ran, turn >>
    BY <1>7 DEF Waits, serverVars
  <2> QED BY <1>1, <1>2, <1>3, <2>1 DEF ReportInv
<1>8. ASSUME Skips PROVE ReportInv'
  <2>1. UNCHANGED << phase, turnId, result, turnStatus, requests, ran, turn >>
    BY <1>8 DEF Skips, opVars, serverVars
  <2> QED BY <1>2, <1>3, <2>1 DEF ReportInv
<1>9. ASSUME Serves PROVE ReportInv'
  <2>1. UNCHANGED << phase, turnId, result, turnStatus >>
    BY <1>9, ServesOnly
  <2>2. /\ \A o \in Ops : ran[o] => ran'[o]
        /\ \A t \in Turns : turn[t] \in Resolved => turn'[t] = turn[t]
        /\ \A o \in Ops : NeverRuns(o) => NeverRuns(o)'
    BY <1>9, ServedStays
  <2> QED BY <1>1, <1>2, <2>1, <2>2 DEF ReportInv
<1> QED BY <1>4, <1>5, <1>6, <1>7, <1>8, <1>9 DEF Grouped

----------------------------------------------------------------------------
LEMMA InitClient == Init => ClientInv
<1> SUFFICES ASSUME Init PROVE ClientInv
  OBVIOUS
<1> USE TurnsAssumption
<1>1. TypeInv
  BY EmptySeq DEF Init, TypeInv, Phases, Results, Reports, Turns, TurnStates
<1>2. Arrived = {}
  BY DEF Init, Arrived
<1>3. RanInv
  BY StepsFacts DEF Init, RanInv, Turns
<1> QED
  BY <1>1, <1>2, <1>3
  DEF Init, ClientInv, QueueInv, RequestInv, AwaitInv, InboxInv, ReportInv,
      Sent, Resolved

LEMMA NextClient == ClientInv /\ NoCollision /\ [Next]_vars => ClientInv'
<1> SUFFICES ASSUME ClientInv, NoCollision, [Next]_vars PROVE ClientInv'
  OBVIOUS
<1>1. Next => Grouped
  BY NextCases DEF Grouped
<1>2. UNCHANGED vars => Grouped
  <2>1. ASSUME UNCHANGED vars PROVE Skips
    BY <2>1 DEF vars, linkVars, opVars, serverVars, Skips, Reads, Arrived, Links,
       ClientInv, TypeInv
  <2> QED BY <2>1 DEF Grouped
<1>3. /\ Grouped /\ TypeInv /\ QueueInv /\ SentInv /\ RanInv /\ InboxInv /\ ReportInv
  BY <1>1, <1>2 DEF ClientInv, SentInv
<1>4. TypeInv' /\ QueueInv' /\ SentInv'
  BY <1>3, NextTypeOfClient, NextQueue, NextSent
<1>5. RanInv'
  BY <1>3, <1>4, NextRan
<1>6. InboxInv' /\ ReportInv'
  BY <1>3, <1>4, <1>5, NextInbox, NextReport
<1> QED BY <1>4, <1>5, <1>6 DEF ClientInv, SentInv

----------------------------------------------------------------------------
(***************************************************************************)
(* As long as no request of the app-server bears an id that is waited for, *)
(* the invariant holds, and with it what the approval gate relies on.      *)
(***************************************************************************)
THEOREM ClientInvariant == Spec /\ []NoCollision => []ClientInv
<1>1. Init => ClientInv
  BY InitClient
<1>2. ClientInv /\ NoCollision /\ [Next]_vars => ClientInv'
  BY NextClient
<1> QED BY <1>1, <1>2, PTL DEF Spec

(***************************************************************************)
(* An accepted control was performed; a refused or gated one never is      *)
(* (codex-jsonrpc.ts, the results of sendMessage, steer and idle send).    *)
(***************************************************************************)
THEOREM AnswersMeanWhatTheySay == Spec /\ []NoCollision => []SendContract
<1>1. ClientInv => SendContract
  BY DEF ClientInv, ReportInv, SendContract, NeverRuns
<1> QED BY <1>1, ClientInvariant, PTL

(***************************************************************************)
(* A turn reported completed or failed is the operation's own and ended    *)
(* so, and a turn is steered only while its posture is the safe one.       *)
(***************************************************************************)
THEOREM TurnsReportedTruly == Spec /\ []NoCollision => []TurnsAreAsReported
<1>1. ClientInv => TurnsAreAsReported
  BY DEF ClientInv, ReportInv, RanInv, TurnsAreAsReported, CompletedIsReal,
     SteeredOnlyIfSafe
<1> QED BY <1>1, ClientInvariant, PTL

----------------------------------------------------------------------------
(***************************************************************************)
(* How many answers an operation has in its inbox, when the inbox grows or *)
(* loses a line that is not one of them.                                   *)
(***************************************************************************)
AnswersIn(box, id) == {i \in DOMAIN box : box[i].kind = "reply" /\ box[i].id = id}

LEMMA AnswersGrow ==
  ASSUME NEW box \in Seq(Lines), NEW m \in Lines, NEW id
  PROVE  Cardinality(AnswersIn(Append(box, m), id)) >= Cardinality(AnswersIn(box, id))
<1>1. /\ Len(box) \in Nat /\ DOMAIN box = 1 .. Len(box)
      /\ Append(box, m) \in Seq(Lines)
      /\ Len(Append(box, m)) = Len(box) + 1
      /\ \A i \in 1 .. Len(box) : Append(box, m)[i] = box[i]
  BY LenProperties, AppendProperties
<1>2. DOMAIN Append(box, m) = 1 .. Len(box) + 1
  BY <1>1, LenProperties
<1>3. AnswersIn(box, id) \subseteq AnswersIn(Append(box, m), id)
  BY <1>1, <1>2 DEF AnswersIn
<1>4. IsFiniteSet(AnswersIn(Append(box, m), id))
  <2>1. IsFiniteSet(1 .. Len(box) + 1)
    BY <1>1, FS_Interval
  <2>2. AnswersIn(Append(box, m), id) \subseteq 1 .. Len(box) + 1
    BY <1>2 DEF AnswersIn
  <2> QED BY <2>1, <2>2, FS_Subset
<1>5. /\ Cardinality(AnswersIn(box, id)) <= Cardinality(AnswersIn(Append(box, m), id))
      /\ IsFiniteSet(AnswersIn(box, id))
  BY <1>3, <1>4, FS_Subset
<1> QED BY <1>4, <1>5, FS_CardinalityType

LEMMA AnswersShift ==
  ASSUME NEW box \in Seq(Lines), box # << >>, NEW id,
         ~(Head(box).kind = "reply" /\ Head(box).id = id)
  PROVE  Cardinality(AnswersIn(Tail(box), id)) >= Cardinality(AnswersIn(box, id))
<1>1. /\ Len(box) \in Nat \ {0} /\ DOMAIN box = 1 .. Len(box)
      /\ Tail(box) \in Seq(Lines) /\ Len(Tail(box)) = Len(box) - 1
      /\ \A i \in 1 .. Len(Tail(box)) : Tail(box)[i] = box[i + 1]
      /\ Head(box) = box[1]
  BY LenProperties, EmptySeq, HeadTailProperties
<1>2. DOMAIN Tail(box) = 1 .. Len(box) - 1
  BY <1>1, LenProperties
<1> DEFINE S == AnswersIn(box, id)
           T == AnswersIn(Tail(box), id)
           f == [i \in S |-> i - 1]
<1>3. \A i \in S : i \in 2 .. Len(box) /\ i - 1 \in T
  <2>1. SUFFICES ASSUME NEW i \in S PROVE i \in 2 .. Len(box) /\ i - 1 \in T
    OBVIOUS
  <2>2. i \in 1 .. Len(box) /\ box[i].kind = "reply" /\ box[i].id = id
    BY <1>1 DEF AnswersIn
  <2>3. i # 1
    BY <1>1, <2>2
  <2>4. i - 1 \in 1 .. Len(box) - 1 /\ Tail(box)[i - 1] = box[(i - 1) + 1] /\ (i - 1) + 1 = i
    BY <1>1, <2>2, <2>3
  <2> QED BY <1>2, <2>2, <2>3, <2>4 DEF AnswersIn
<1>4. f \in Injection(S, T)
  <2>1. f \in [S -> T]
    BY <1>3
  <2>2. \A i, j \in S : f[i] = f[j] => i = j
    BY <1>3
  <2> QED BY <2>1, <2>2 DEF Injection, IsInjective
<1>5. IsFiniteSet(T)
  <2>1. IsFiniteSet(1 .. Len(box) - 1)
    BY <1>1, FS_Interval
  <2>2. T \subseteq 1 .. Len(box) - 1
    BY <1>2 DEF AnswersIn
  <2> QED BY <2>1, <2>2, FS_Subset
<1>6. IsFiniteSet(S) /\ Cardinality(S) <= Cardinality(T)
  BY <1>4, <1>5, FS_Injection
<1> QED BY <1>5, <1>6, FS_CardinalityType

LEMMA AnswerStays ==
  ASSUME ClientInv, [Next]_vars, NEW o \in Ops,
         phase[o] = "waiting", phase'[o] = "waiting", await'[o] = await[o]
  PROVE  Cardinality(AnswersFor(o)') >= Cardinality(AnswersFor(o))
<1>1. /\ inbox \in Seq(Lines) /\ phase \in [Ops -> Phases] /\ await \in [Ops -> Nat]
      /\ nextId \in Nat
  BY DEF ClientInv, TypeInv
<1>2. /\ AnswersFor(o) = AnswersIn(inbox, await[o])
      /\ AnswersFor(o)' = AnswersIn(inbox', await[o])
  BY DEF AnswersFor, AnswersIn
<1>3. CASE inbox' = inbox
  <2>1. AnswersFor(o)' = AnswersFor(o)
    BY <1>2, <1>3
  <2>2. AnswersFor(o) \subseteq 1 .. Len(inbox) /\ Len(inbox) \in Nat
    BY <1>1, LenProperties DEF AnswersFor
  <2>3. IsFiniteSet(AnswersFor(o))
    <3>1. IsFiniteSet(1 .. Len(inbox))
      BY <2>2, FS_Interval
    <3> QED BY <2>2, <3>1, FS_Subset
  <2>4. Cardinality(AnswersFor(o)) \in Nat
    BY <2>3, FS_CardinalityType
  <2> QED BY <2>1, <2>4
<1>4. ASSUME NEW m \in Lines, Deliver(m)
      PROVE  Cardinality(AnswersFor(o)') >= Cardinality(AnswersFor(o))
  BY <1>1, <1>2, <1>3, <1>4, AnswersGrow DEF Deliver
<1>5. \A p \in Ops : phase[p] \in {"waiting", "turn_wait"} => p = o
  BY DEF ClientInv, QueueInv
<1>6. ASSUME NEW p \in Ops, Begin(p) PROVE FALSE
  BY <1>6 DEF Begin, MayStart, ClientInv, QueueInv
<1>7. ASSUME NEW p \in Ops, Receive(p)
      PROVE  Cardinality(AnswersFor(o)') >= Cardinality(AnswersFor(o))
  <2>1. p = o /\ inbox # << >> /\ inbox' = Tail(inbox)
    BY <1>5, <1>7 DEF Receive
  <2>2. ~Answers(Head(inbox), await[o])
    <3>1. ASSUME NEW value, NEW status, NEW thrown, Finish(o, value, status, thrown)
          PROVE  FALSE
      BY <1>1, <3>1 DEF Finish
    <3>2. ASSUME NEW k, NEW c, NEW up, SendRequest(o, k, nextId, c, up) PROVE FALSE
      BY <1>1, <3>2 DEF SendRequest, ClientInv, AwaitInv
    <3>3. ASSUME phase' = [phase EXCEPT ![o] = "turn_wait"] PROVE FALSE
      BY <1>1, <3>3
    <3>4. ~Advance(o, Head(inbox))
      BY <3>1, <3>2, <3>3 DEF Advance
    <3> QED BY <1>7, <2>1, <3>1, <3>4 DEF Receive
  <2> QED BY <1>1, <1>2, <2>1, <2>2, AnswersShift DEF Answers
<1>8. ASSUME NEW p \in Ops, ReceiveTurn(p) PROVE FALSE
  BY <1>5, <1>8 DEF ReceiveTurn
<1>9. ASSUME NEW p \in Ops,
             \/ Submit(p) \/ UseConnection(p) \/ Connect(p) \/ ConnectFails(p)
             \/ MeetsFailedClient(p) \/ Timeout(p) \/ TurnTimeout(p)
      PROVE  inbox' = inbox
  BY <1>6, <1>9
  DEF Submit, UseConnection, Connect, ConnectFails, MeetsFailedClient, Timeout, TurnTimeout
<1>10. ASSUME Serves PROVE inbox' = inbox \/ \E m \in Lines : Deliver(m)
  BY <1>10, RefusalFacts, ReplyFacts, NoteFacts, AskFacts
  DEF Serves, Perform, ClientInv
<1>11. SocketCloses \/ UNCHANGED vars => inbox' = inbox
  BY DEF SocketCloses, vars
<1> QED
  BY <1>3, <1>4, <1>7, <1>8, <1>9, <1>10, <1>11 DEF Next, Serves

(***************************************************************************)
(* An answer that has arrived stays in the inbox until the operation that  *)
(* waits for it reads it (requestRaw drops every line it does not answer). *)
(***************************************************************************)
THEOREM AnswersAreNotStolen == Spec /\ []NoCollision => NoAnswerIsStolen
<1>1. ClientInv /\ [Next]_vars =>
        [\A o \in Ops :
           /\ phase[o] = "waiting" /\ phase'[o] = "waiting" /\ await'[o] = await[o]
           => Cardinality(AnswersFor(o)') >= Cardinality(AnswersFor(o))]_vars
  BY AnswerStays
<1> QED BY <1>1, ClientInvariant, PTL DEF Spec, NoAnswerIsStolen

----------------------------------------------------------------------------
(***************************************************************************)
(* When the app-server numbers its own requests past everything a client   *)
(* may count to, no request of it ever bears an id that is waited for: an  *)
(* first operation of a connection spends three ids, the others two.                    *)
(***************************************************************************)
IdsApart ==
  IsFiniteSet(Ops) /\ ServerIds \cap 1 .. 2 * Cardinality(Ops) + 1 = {}

BegunOps == {o \in Ops : Begun(o)}

Spent == Cardinality(BegunOps)

IdInv ==
  /\ \A m \in Arrived : m.kind = "request" => m.id \in ServerIds
  /\ nextId >= 1 /\ nextId <= 2 * Spent + 2
  /\ \A o \in Ops : phase[o] = "waiting" =>
       await[o] >= 1 /\ nextId <= 2 * (Spent - 1) + step[o] + 2

LEMMA SpentFacts ==
  ASSUME IsFiniteSet(Ops)
  PROVE  /\ Spent \in Nat /\ Spent <= Cardinality(Ops)
         /\ Cardinality(Ops) \in Nat /\ IsFiniteSet(BegunOps)
<1>1. BegunOps \in SUBSET Ops
  BY DEF BegunOps
<1>2. IsFiniteSet(BegunOps) /\ Spent <= Cardinality(Ops)
  BY <1>1, FS_Subset DEF Spent
<1> QED BY <1>2, FS_CardinalityType DEF Spent

LEMMA IdsApartSuffice ==
  ASSUME IdsApart, ClientInv, IdInv
  PROVE  NoCollision
<1> SUFFICES ASSUME NEW o \in Ops, NEW m \in Arrived,
                    phase[o] = "waiting", m.kind = "request"
             PROVE  m.id # await[o]
  BY DEF NoCollision
<1>1. /\ Spent \in Nat /\ Spent <= Cardinality(Ops) /\ Cardinality(Ops) \in Nat
  BY SpentFacts DEF IdsApart
<1>2. await[o] \in Nat /\ nextId \in Nat /\ await[o] < nextId
  BY DEF ClientInv, TypeInv, AwaitInv
<1>3. await[o] >= 1 /\ nextId <= 2 * Spent + 2
  BY DEF IdInv
<1>4. await[o] \in 1 .. 2 * Cardinality(Ops) + 1
  BY <1>1, <1>2, <1>3
<1>5. m.id \in ServerIds
  BY DEF IdInv
<1> QED BY <1>4, <1>5 DEF IdsApart

LEMMA NextId ==
  ASSUME IsFiniteSet(Ops), ClientInv, ClientInv', IdInv, Grouped
  PROVE  IdInv'
<1>1. /\ phase \in [Ops -> Phases] /\ step \in [Ops -> 0 .. 2]
      /\ await \in [Ops -> Nat] /\ nextId \in Nat /\ nextId' \in Nat
      /\ inbox \in Seq(Lines)
  BY DEF ClientInv, TypeInv
<1>2. Spent \in Nat /\ IsFiniteSet(BegunOps)
  BY SpentFacts
<1>3. BegunOps' = BegunOps => Spent' = Spent
  BY DEF Spent
<1>4. ASSUME NEW o \in Ops, Submit(o) PROVE IdInv'
  <2>1. /\ phase[o] = "idle" /\ phase' = [phase EXCEPT ![o] = "queued"]
        /\ UNCHANGED << inbox, nextId, step, await >>
    BY <1>4 DEF Submit, linkVars
  <2>2. BegunOps' = BegunOps /\ Arrived' = Arrived
    BY <1>1, <2>1 DEF BegunOps, Begun, Arrived
  <2> QED BY <1>1, <1>3, <2>1, <2>2 DEF IdInv
<1>5. ASSUME NEW o \in Ops, Sends(o) PROVE IdInv'
  <2>1. PICK k \in 0 .. 2, up \in BOOLEAN, c \in Nat, id \in Nat :
          /\ First(o) /\ Reads
          /\ phase[o] = "queued" \/ (phase[o] = "waiting" /\ step[o] < k)
          /\ SendRequest(o, k, id, c, up)
          /\ (id = nextId /\ k >= 1) \/ id = 1
    BY <1>5 DEF Sends, ClientInv, TypeInv
  <2>2. /\ phase' = [phase EXCEPT ![o] = "waiting"]
        /\ await' = [await EXCEPT ![o] = id]
        /\ step' = [step EXCEPT ![o] = k]
        /\ nextId' = id + 1
    BY <2>1 DEF SendRequest
  <2>3. \A p \in Ops : p # o => phase'[p] # "waiting"
    BY <1>1, <2>1, <2>2 DEF ClientInv, QueueInv, First
  <2>4. BegunOps' = BegunOps \cup {o}
    BY <1>1, <2>2 DEF BegunOps, Begun
  <2>5. o \in BegunOps <=> phase[o] = "waiting"
    BY <2>1 DEF BegunOps, Begun
  <2>6. Spent' = IF phase[o] = "waiting" THEN Spent ELSE Spent + 1
    BY <1>2, <2>4, <2>5, FS_AddElement DEF Spent
  <2>7. phase[o] = "waiting" => Spent >= 1
    BY <1>2, <2>5, FS_EmptySet DEF Spent
  <2>8. /\ phase[o] = "waiting" => nextId <= 2 * (Spent - 1) + step[o] + 2
        /\ nextId >= 1 /\ nextId <= 2 * Spent + 2 /\ step[o] \in 0 .. 2
    BY <1>1 DEF IdInv
  <2>9. id >= 1 /\ id + 1 <= 2 * (Spent' - 1) + k + 2
    <3>1. CASE phase[o] = "waiting"
      BY <1>1, <1>2, <2>1, <2>6, <2>7, <2>8, <3>1
    <3>2. CASE phase[o] # "waiting"
      BY <1>1, <1>2, <2>1, <2>6, <2>8, <3>2
    <3> QED BY <3>1, <3>2
  <2>10. Spent' \in Nat
    BY <1>2, <2>6
  <2>11. \A m \in Arrived' : m.kind = "request" => m.id \in ServerIds
    BY <2>1 DEF IdInv, Reads
  <2>12. nextId' >= 1 /\ nextId' <= 2 * Spent' + 2
    <3>1. \A n \in Nat, j \in 0 .. 2, i \in Nat :
            i + 1 <= 2 * (n - 1) + j + 2 => i + 1 <= 2 * n + 2
      OBVIOUS
    <3>2. id + 1 <= 2 * Spent' + 2
      BY <2>9, <2>10, <3>1
    <3>3. id + 1 >= 1
      OBVIOUS
    <3> QED BY <2>2, <3>2, <3>3
  <2>13. await'[o] = id /\ step'[o] = k
    BY <1>1, <2>2
  <2> QED BY <2>2, <2>3, <2>9, <2>11, <2>12, <2>13 DEF IdInv
<1>6. ASSUME Reads, UNCHANGED << nextId, step, await >>, BegunOps' = BegunOps,
             \A o \in Ops : phase'[o] = "waiting" => phase[o] = "waiting"
      PROVE  IdInv'
  BY <1>3, <1>6 DEF IdInv, Reads
<1>7. ASSUME NEW o \in Ops, Ends(o) PROVE IdInv'
  <2>1. PICK value, status, thrown :
          Finish(o, value, status, thrown) /\ Reads /\ nextId' = nextId
            /\ phase[o] \in {"queued", "waiting", "turn_wait"}
    BY <1>7 DEF Ends
  <2>2. /\ phase' = [phase EXCEPT ![o] = "done"]
        /\ UNCHANGED << step, await >>
    BY <2>1 DEF Finish
  <2>3. \A p \in Ops : phase'[p] = "waiting" => phase[p] = "waiting"
    BY <1>1, <2>2
  <2>4. CASE phase[o] = "queued"
    <3>1. BegunOps' = BegunOps \cup {o} /\ o \notin BegunOps
      BY <1>1, <2>2, <2>4 DEF BegunOps, Begun
    <3>2. Spent' = Spent + 1
      BY <1>2, <3>1, FS_AddElement DEF Spent
    <3>3. ASSUME NEW p \in Ops, phase'[p] = "waiting"
          PROVE  await'[p] >= 1 /\ nextId' <= 2 * (Spent' - 1) + step'[p] + 2
      <4>1. /\ await[p] >= 1 /\ nextId <= 2 * (Spent - 1) + step[p] + 2
            /\ step[p] \in 0 .. 2
        BY <1>1, <2>3, <3>3 DEF IdInv
      <4> QED BY <1>1, <1>2, <2>1, <2>2, <3>2, <4>1
    <3>4. nextId' >= 1 /\ nextId' <= 2 * Spent' + 2
      BY <1>1, <1>2, <2>1, <3>2 DEF IdInv
    <3> QED BY <2>1, <3>3, <3>4 DEF IdInv, Reads
  <2>5. CASE phase[o] # "queued"
    <3>1. BegunOps' = BegunOps
      BY <1>1, <2>1, <2>2, <2>5 DEF BegunOps, Begun
    <3> QED BY <1>6, <2>1, <2>2, <2>3, <3>1
  <2> QED BY <2>4, <2>5
<1>8. ASSUME NEW o \in Ops, Waits(o) PROVE IdInv'
  <2>1. /\ phase[o] = "waiting" /\ phase' = [phase EXCEPT ![o] = "turn_wait"]
        /\ Reads /\ UNCHANGED << nextId, step, await >>
    BY <1>8 DEF Waits, linkVars
  <2>2. /\ BegunOps' = BegunOps
        /\ \A p \in Ops : phase'[p] = "waiting" => phase[p] = "waiting"
    BY <1>1, <2>1 DEF BegunOps, Begun
  <2> QED BY <1>6, <2>1, <2>2
<1>9. ASSUME Skips PROVE IdInv'
  <2>1. Reads /\ UNCHANGED << nextId, step, await, phase >>
    BY <1>9 DEF Skips, opVars
  <2>2. BegunOps' = BegunOps
    BY <2>1 DEF BegunOps, Begun
  <2> QED BY <1>6, <2>1, <2>2
<1>10. ASSUME Serves PROVE IdInv'
  <2>1. UNCHANGED << nextId, step, await, phase >>
    BY <1>10, ServesOnly
  <2>2. Spent' = Spent
    BY <2>1 DEF Spent, BegunOps, Begun
  <2>3. \A m \in Arrived' : m.kind = "request" => m.id \in ServerIds
    <3>1. ASSUME NEW m \in Lines, Deliver(m),
                 m.kind = "request" => m.id \in ServerIds
          PROVE  \A n \in Arrived' : n.kind = "request" => n.id \in ServerIds
      <4>1. Arrived' \subseteq Arrived \cup {m}
        BY <1>1, <3>1, DeliverFacts
      <4> QED BY <3>1, <4>1 DEF IdInv
    <3>2. ASSUME NEW r \in requests, Perform(r) PROVE Arrived' = Arrived
      BY <3>2 DEF Perform, Arrived
    <3>3. TypeInv
      BY DEF ClientInv
    <3>4. \A kind \in {"note", "reply"} : kind # "request"
      OBVIOUS
    <3> QED
      BY <1>10, <3>1, <3>2, <3>3, <3>4, RefusalFacts, ReplyFacts, NoteFacts, AskFacts
      DEF Serves, IdInv
  <2> QED BY <2>1, <2>2, <2>3 DEF IdInv
<1> QED
  BY <1>4, <1>5, <1>7, <1>8, <1>9, <1>10 DEF Grouped

(***************************************************************************)
(* Ids that are apart never collide (nextId of CodexJsonRpcClient counts   *)
(* from 1 on every connection).                                            *)
(***************************************************************************)
THEOREM ApartIdsNeverCollide ==
  ASSUME IdsApart
  PROVE  Spec => [](ClientInv /\ NoCollision)
<1>1. Init => ClientInv /\ IdInv
  <2>1. SUFFICES ASSUME Init PROVE ClientInv /\ IdInv
    OBVIOUS
  <2>2. ClientInv
    BY <2>1, InitClient
  <2>3. BegunOps = {} /\ Arrived = {}
    BY <2>1 DEF Init, BegunOps, Begun, Arrived
  <2>4. Spent = 0
    BY <2>3, FS_EmptySet DEF Spent
  <2>5. nextId = 1 /\ \A o \in Ops : phase[o] # "waiting"
    BY <2>1 DEF Init
  <2> QED BY <2>2, <2>3, <2>4, <2>5 DEF IdInv
<1>2. ClientInv /\ IdInv => NoCollision
  BY IdsApartSuffice
<1>3. ClientInv /\ IdInv /\ [Next]_vars => ClientInv' /\ IdInv'
  <2>1. SUFFICES ASSUME ClientInv, IdInv, [Next]_vars PROVE ClientInv' /\ IdInv'
    OBVIOUS
  <2>2. NoCollision /\ ClientInv'
    BY <1>2, <2>1, NextClient
  <2>3. CASE Next
    <3>1. Grouped
      BY <2>1, <2>2, <2>3, NextCases DEF Grouped
    <3> QED BY <2>1, <2>2, <3>1, NextId DEF IdsApart
  <2>4. CASE UNCHANGED vars
    BY <2>1, <2>2, <2>4
    DEF IdInv, vars, linkVars, opVars, Arrived, Spent, BegunOps, Begun
  <2> QED BY <2>1, <2>3, <2>4
<1> QED BY <1>1, <1>2, <1>3, PTL DEF Spec

(***************************************************************************)
(* With ids that are apart the client keeps its contract: what it answers  *)
(* to the approval gate, what it reports of turns, and no answer is lost   *)
(* to another operation.                                                   *)
(***************************************************************************)
THEOREM ApartIdsKeepTheContract ==
  ASSUME IdsApart
  PROVE  Spec => [](SendContract /\ TurnsAreAsReported) /\ NoAnswerIsStolen
<1>1. Spec => [](ClientInv /\ NoCollision)
  BY ApartIdsNeverCollide
<1> QED
  BY <1>1, AnswersMeanWhatTheySay, TurnsReportedTruly, AnswersAreNotStolen, PTL
=============================================================================
