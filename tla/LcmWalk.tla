------------------------------ MODULE LcmWalk ------------------------------
(***************************************************************************)
(* walkLcmSummarySources (packages/core/src/index.ts): the summaries that  *)
(* a summary of a peer database was made from, breadth first, up to a cap  *)
(* on nodes and on depth.  Every SELECT is a step of its own: the peer is  *)
(* another program's database, and no transaction holds it still.  The     *)
(* rows of a summary come in the order of their ordinals, which is any.    *)
(***************************************************************************)
EXTENDS Integers, Sequences, FiniteSets

CONSTANTS Summaries,   \* ids of summaries
          Blank,       \* the empty id: a link may name it
          MaxNodes, MaxDepth,  \* LCM_SUMMARY_DAG_MAX_NODES, ..._MAX_DEPTH
          MaxPeerWrites        \* bound on the peer's writes

VARIABLES
  present,    \* the peer: the ids of its summaries
  parents,    \* the peer: summary_parents, pairs of a summary and its source
  peerWrites, \* the peer's writes so far
  place,      \* where the walk is
  root,       \* the summary it is about
  queue,      \* the summaries to expand, with their depth
  batch,      \* the rows of the one being expanded
  depth,      \* its depth
  seen,
  listed,     \* sourceSummaries
  reasons,    \* reasonCodes
  still       \* history: the peer has not changed since the walk began

walkVars == << place, root, queue, batch, depth, seen, listed, reasons >>
vars == << present, parents, peerWrites, walkVars, still >>

Init ==
  /\ present \in SUBSET (Summaries \ {Blank})
  /\ parents \in SUBSET (Summaries \X Summaries)
  /\ peerWrites = 0
  /\ place = "idle" /\ root \in Summaries \ {Blank}
  /\ queue = << >> /\ batch = {} /\ depth = 0 /\ seen = {} /\ listed = << >>
  /\ reasons = {} /\ still = TRUE

\* The root has been read; its sources are looked up next.
Start ==
  /\ place = "idle" /\ root \in present
  /\ place' = "queue"
  /\ queue' = << << root, 0 >> >>
  /\ seen' = {root}
  /\ still' = TRUE
  /\ UNCHANGED << present, parents, peerWrites, root, batch, depth, listed, reasons >>

Full == Len(listed) >= MaxNodes

\* A slip: a summary at the depth cap passed over without a word.
PassedOver == {}

TooDeep == {"depth_cap"}

TakeNext ==
  /\ place = "queue" /\ queue # << >> /\ ~Full
  /\ queue' = Tail(queue)
  /\ LET summary == Head(queue)[1]
         at      == Head(queue)[2]
     IN \/ /\ at >= MaxDepth
           /\ reasons' = reasons \cup TooDeep
           /\ UNCHANGED << place, batch, depth >>
        \/ /\ at < MaxDepth
           /\ place' = "rows"
           /\ batch' = {s \in Summaries : << summary, s >> \in parents}
           /\ depth' = at
           /\ UNCHANGED reasons
  /\ UNCHANGED << present, parents, peerWrites, root, seen, listed, still >>

\* The next row, and the SELECT of the summary it names; one that names none is
\* passed over.
TakeRow(s) ==
  /\ place = "rows" /\ s \in batch
  /\ \/ /\ Full
        /\ reasons' = reasons \cup {"node_cap"}
        /\ batch' = {}
        /\ UNCHANGED << seen, listed, queue >>
     \/ /\ ~Full /\ s = Blank
        /\ batch' = batch \ {s}
        /\ UNCHANGED << seen, listed, queue, reasons >>
     \/ /\ ~Full /\ s # Blank /\ s \in seen
        /\ reasons' = reasons \cup {"cycle_omitted"}
        /\ batch' = batch \ {s}
        /\ UNCHANGED << seen, listed, queue >>
     \/ /\ ~Full /\ s # Blank /\ s \notin seen
        /\ seen' = seen \cup {s}
        /\ batch' = batch \ {s}
        /\ \/ /\ s \notin present
              /\ reasons' = reasons \cup {"missing_child"}
              /\ UNCHANGED << listed, queue >>
           \/ /\ s \in present
              /\ listed' = Append(listed, s)
              /\ queue' = Append(queue, << s, depth + 1 >>)
              /\ UNCHANGED reasons
  /\ UNCHANGED << present, parents, peerWrites, place, root, depth, still >>

EndOfRows ==
  /\ place = "rows" /\ batch = {}
  /\ place' = "queue"
  /\ depth' = 0
  /\ UNCHANGED << present, parents, peerWrites, root, queue, batch, seen, listed,
                  reasons, still >>

LeftOver == IF queue # << >> THEN {"truncated"} ELSE {}

Finish ==
  /\ place = "queue" /\ (queue = << >> \/ Full)
  /\ place' = "done"
  /\ reasons' = reasons \cup LeftOver
  /\ queue' = << >> /\ seen' = {}
  /\ UNCHANGED << present, parents, peerWrites, root, batch, depth, listed, still >>

\* A SELECT fails, or the peer has no summary_parents.
Fail ==
  /\ place \in {"queue", "rows"}
  /\ place' = "done"
  /\ listed' = << >> /\ reasons' = {"dag_unavailable"}
  /\ queue' = << >> /\ batch' = {} /\ depth' = 0 /\ seen' = {}
  /\ UNCHANGED << present, parents, peerWrites, root, still >>

\* The peer adds or drops a summary or a link.
PeerWrites ==
  /\ peerWrites < MaxPeerWrites /\ place \in {"queue", "rows"}
  /\ peerWrites' = peerWrites + 1
  /\ \/ \E s \in Summaries \ {Blank} :
          present' = (present \ {s}) \cup ({s} \ present) /\ UNCHANGED parents
     \/ \E l \in Summaries \X Summaries :
          parents' = (parents \ {l}) \cup ({l} \ parents) /\ UNCHANGED present
  /\ still' = FALSE
  /\ UNCHANGED walkVars

Next ==
  \/ Start \/ TakeNext \/ EndOfRows \/ Finish \/ Fail \/ PeerWrites
  \/ \E s \in Summaries : TakeRow(s)

Spec == Init /\ [][Next]_vars

----------------------------------------------------------------------------
\* What a summary was made from, directly or not, through summaries that exist: the
\* least set that has it and their sources.
Closed(set) == \A c \in set, p \in present : << c, p >> \in parents => p \in set

Sources(s) ==
  {p \in Summaries : \A set \in SUBSET Summaries : s \in set /\ Closed(set) => p \in set} \ {s}

\* The sources of summaries it reaches that are not in the database.
Dangling(s) ==
  {p \in Summaries \ (present \cup {Blank}) : \E c \in Sources(s) \cup {s} : << c, p >> \in parents}

\* An expansion lists nothing twice, whatever the shape of the graph and whatever
\* the peer writes meanwhile.  If the peer held still, one without a reason code is
\* the whole ancestry of its summary, every link to a summary that is not there
\* told, and one with reason codes lists some of it: nothing is left out in silence
\* but the links that name no summary at all.
NothingOmittedSilently ==
  place = "done" =>
    /\ \A i, j \in DOMAIN listed : listed[i] = listed[j] => i = j
    /\ still => \A i \in DOMAIN listed : listed[i] \in Sources(root)
    /\ still /\ reasons = {} =>
         /\ Dangling(root) = {}
         /\ \A s \in Sources(root) : \E i \in DOMAIN listed : listed[i] = s

----------------------------------------------------------------------------
\* What every step keeps (walkLcmSummarySources).
Listed == {listed[i] : i \in DOMAIN listed}
Queued == {queue[i][1] : i \in DOMAIN queue}

TypeInv ==
  /\ present \subseteq Summaries \ {Blank} /\ root \in Summaries
  /\ place \in {"idle", "queue", "rows", "done"}
  /\ queue \in Seq(Summaries \X Int) /\ batch \subseteq Summaries /\ depth \in Int
  /\ listed \in Seq(Summaries)

\* What is listed has been seen; and it is listed once.
ListInv ==
  /\ \A i, j \in DOMAIN listed : listed[i] = listed[j] => i = j
  /\ place = "idle" => listed = << >> /\ reasons = {}
  /\ place \in {"queue", "rows"} => Listed \cup {root} \subseteq seen
  /\ place = "done" /\ reasons = {} => queue = << >>

\* The sources of a summary are there, and were listed.
Expanded(c) == \A p \in Summaries \ {Blank} : << c, p >> \in parents => p \in Listed

\* All that is listed has been expanded, is queued, or is in hand.
Awaited(hand) == \A d \in Listed \cup {root} : d \in Queued \cup hand \/ Expanded(d)

\* The peer holding still, the walk has not left out in silence but what it has yet
\* to look at.
StillInv ==
  /\ Listed \subseteq Sources(root) \cap present /\ Queued \subseteq Listed \cup {root}
  /\ place \in {"queue", "done"} /\ reasons = {} => Awaited({})
  /\ place = "rows" =>
       \E c \in Listed \cup {root} :
         /\ \A p \in batch : << c, p >> \in parents
         /\ reasons = {} =>
              /\ Awaited({c})
              /\ \A p \in Summaries \ {Blank} :
                   << c, p >> \in parents => p \in batch \cup Listed

WalkInv == TypeInv /\ ListInv /\ (still => StillInv)
=============================================================================
