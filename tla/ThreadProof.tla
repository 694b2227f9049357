---------------------------- MODULE ThreadProof ----------------------------
(***************************************************************************)
(* A thread is started through Codex, and then proven to be there: what    *)
(* the start itself may claim, and what the read-only post-create proof    *)
(* says after it has asked Codex twice and the index several times.        *)
(* (packages/adapters/src/index.ts, liveProofState and                     *)
(* createCodexAppServerThreadsReport; packages/mcp-server/src/tools.ts,    *)
(* createStartThreadPostCreateProof; packages/core/src/search.ts)          *)
(*                                                                         *)
(* Each question is a moment of its own.  In between Codex writes the      *)
(* thread, lists it, renames it or archives it, and other processes index  *)
(* it, or drop it from the index when its file is gone.     *)
(***************************************************************************)
CONSTANTS Unasked   \* the proof has not asked yet

VARIABLES start,    \* the proofState of the start, or "none"
          hasId,    \* the caller knows the id of the thread
          stored,   \* Codex can read the thread
          listed,   \* Codex lists it
          name,     \* its name: "plain", or "related" to its own id
          row,      \* it is in codex_sessions
          alias,    \* codex_thread_title_aliases: "none", "plain" or "related"
          proof,    \* what the proof has read
          was,      \* ghost: what was the case at some moment of the proof
          said      \* the status it reports, "none" before

vars == << start, hasId, stored, listed, name, row, alias, proof, was, said >>
world == << stored, listed, name, row, alias >>

-----------------------------------------------------------------------------
(* The start.                                                              *)

Responses ==
  [ok : BOOLEAN, id : BOOLEAN,
   status : { "none", "running", "completed", "turn_started_unconfirmed" }]

Started(r) == r.ok /\ (r.id \/ r.status = "running")
Completed(r) == r.ok /\ r.status = "completed"

(* liveProofState: nothing a response says makes the thread persisted.     *)
ProofState(r) ==
  IF ~r.ok THEN "transport_rejected"
  ELSE IF r.status = "turn_started_unconfirmed" THEN r.status
  ELSE IF Started(r) \/ Completed(r) \/ r.status # "none" THEN "unverified_pending"
  ELSE "accepted_by_transport"

(* The proof is proposed with the id the response bears; without one the   *)
(* caller has nothing to ask for.                                          *)
NextProof(r) == r.ok /\ r.id

-----------------------------------------------------------------------------
(* What was the case at one moment.                                        *)

Facts(s, l, r) ==
  { IF s THEN "stored" ELSE "notStored", IF l THEN "listed" ELSE "notListed",
    IF r THEN "indexed" ELSE "notIndexed" }

Asked == proof # Unasked

(* Every change of the world goes into the ghost while the proof is asked. *)
Noted == was' = IF Asked /\ said = "none"
                THEN was \cup Facts(stored', listed', row') ELSE was

Init ==
  /\ start = "none" /\ hasId = FALSE
  /\ stored = FALSE /\ listed = FALSE /\ name = "plain"
  /\ row = FALSE /\ alias = "none"
  /\ proof = Unasked /\ was = {} /\ said = "none"

(* The answer of a start may be lost: it is then indeterminate, though the *)
(* thread may be there.                                                    *)
Start(r) ==
  /\ start = "none"
  /\ \/ start' = ProofState(r) /\ hasId' = NextProof(r)
     \/ start' = "indeterminate" /\ hasId' = FALSE
  /\ UNCHANGED << world, proof, was, said >>

-----------------------------------------------------------------------------
(* Codex and the processes that index.                                     *)

Exists == start \notin { "none", "transport_rejected" }

CodexWrites ==
  /\ Exists /\ ~stored
  /\ stored' = TRUE
  /\ UNCHANGED << start, hasId, listed, name, row, alias, proof, said >> /\ Noted

CodexLists ==
  /\ Exists /\ ~listed
  /\ listed' = TRUE
  /\ UNCHANGED << start, hasId, stored, name, row, alias, proof, said >> /\ Noted

CodexRenames ==
  /\ listed /\ name = "plain"
  /\ name' = "related"
  /\ UNCHANGED << start, hasId, stored, listed, row, alias, proof, said >> /\ Noted

CodexArchives ==
  /\ stored \/ listed
  /\ stored' = FALSE
  /\ listed' \in { listed, FALSE }
  /\ UNCHANGED << start, hasId, name, row, alias, proof, said >> /\ Noted

Index ==
  /\ stored
  /\ row' = TRUE
  /\ UNCHANGED << start, hasId, stored, listed, name, alias, proof, said >> /\ Noted

Unindex ==
  /\ row /\ ~stored
  /\ row' = FALSE
  /\ UNCHANGED << start, hasId, stored, listed, name, alias, proof, said >> /\ Noted

FinalizeTitle(kind) ==
  /\ Exists /\ alias = "none"
  /\ alias' = kind
  /\ UNCHANGED << start, hasId, stored, listed, name, row, proof, said >> /\ Noted

-----------------------------------------------------------------------------
(* The proof.                                                              *)

Step(at) == Asked /\ proof.at = at /\ said = "none"

(* thread/list; the request may fail, and then nothing is listed.          *)
AskList ==
  /\ start # "none" /\ ~Asked
  /\ \/ /\ ~hasId
        /\ said' = "unresolved_unknown"
        /\ UNCHANGED << proof, was >>
     \/ /\ hasId
        /\ \E found \in { listed, FALSE } :
             proof' = [at |-> "read", list |-> found,
                       name |-> IF found THEN name ELSE "plain",
                       read |-> FALSE, search |-> FALSE, described |-> FALSE]
        /\ was' = Facts(stored, listed, row)
        /\ UNCHANGED said
  /\ UNCHANGED << start, hasId, world >>

(* thread/read of its id, without turns; it may fail too.                  *)
AskRead ==
  /\ Step("read")
  /\ \E found \in { stored, FALSE } :
       proof' = [proof EXCEPT !.at = "search", !.read = found]
  /\ UNCHANGED << start, hasId, world, was, said >>

(* searchCodexSessions for its id: its row if there is one, and else what  *)
(* bears its id and a title alias, or a listed name, related to the query; *)
(* the text of other rows is searched too, and is not of this thread.      *)
ByTitleAlias == alias = "related"
ByListedName == proof.list /\ proof.name = "related"
Found == row \/ ByTitleAlias \/ ByListedName

AskSearch ==
  /\ Step("search")
  /\ proof' = [proof EXCEPT !.at = "describe", !.search = Found]
  /\ UNCHANGED << start, hasId, world, was, said >>

AskDescribe ==
  /\ Step("describe")
  /\ proof' = [proof EXCEPT !.at = "say", !.described = row]
  /\ UNCHANGED << start, hasId, world, was, said >>

(* Slip: a thread that is listed counts as read.                           *)
PersistedIfFound ==
  (proof.list \/ proof.read) /\ (proof.described \/ proof.search)

Persisted == proof.read /\ (proof.described \/ proof.search)

(* The prepared card is reported beside the status and left out.           *)
Say ==
  /\ Step("say")
  /\ said' = IF Persisted THEN "persisted"
             ELSE IF proof.described THEN "described"
             ELSE IF proof.search THEN "indexed"
             ELSE IF proof.list \/ proof.read THEN "created_but_unindexed_pending"
             ELSE "unresolved_unknown"
  /\ UNCHANGED << start, hasId, world, proof, was >>

Next ==
  \/ \E r \in Responses : Start(r)
  \/ CodexWrites \/ CodexLists \/ CodexRenames \/ CodexArchives
  \/ Index \/ Unindex \/ \E kind \in { "plain", "related" } : FinalizeTitle(kind)
  \/ AskList \/ AskRead \/ AskSearch \/ AskDescribe \/ Say

Spec == Init /\ [][Next]_vars

-----------------------------------------------------------------------------
(* A name or an alias related to the id is found by a search for the id,   *)
(* and taken for a row.                                                    *)
Misled == alias = "related" \/ (Asked /\ proof.name = "related")

(* What the proof says of a thread was the case while it asked: persisted  *)
(* only what Codex could read and the index had, pending only what Codex   *)
(* had and the index had not, described only what the index had.           *)
SaidWasSo ==
  /\ said = "persisted" => "stored" \in was /\ ("indexed" \in was \/ Misled)
  /\ said = "described" => "indexed" \in was
  /\ said = "indexed" => "indexed" \in was \/ Misled
  /\ said = "created_but_unindexed_pending" =>
       "notIndexed" \in was /\ was \cap { "stored", "listed" } # {}
  /\ said \notin { "none", "unresolved_unknown" } =>
       hasId /\ start # "transport_rejected"
-----------------------------------------------------------------------------
(* Why it holds: what the proof has read so far was the case, and what is  *)
(* the case is noted as long as it reads.                                  *)

Readings ==
  [at : { "read", "search", "describe", "say" }, list : BOOLEAN,
   name : { "plain", "related" }, read : BOOLEAN, search : BOOLEAN, described : BOOLEAN]

ReadInv ==
  /\ proof \in Readings /\ hasId
  /\ proof.list => "listed" \in was
  /\ proof.read => "stored" \in was
  /\ proof.at \in { "describe", "say" } =>
       IF proof.search THEN "indexed" \in was \/ Misled ELSE "notIndexed" \in was
  /\ proof.described => proof.at = "say" /\ "indexed" \in was

ProofInv ==
  /\ { stored, listed, row } \subseteq BOOLEAN /\ name \in { "plain", "related" }
  /\ start = "none" => said = "none" /\ ~Asked
  /\ hasId => start # "transport_rejected"
  /\ ~Asked => said \in { "none", "unresolved_unknown" }
  /\ Asked => ReadInv
  /\ Asked /\ said = "none" => Facts(stored, listed, row) \subseteq was
  /\ SaidWasSo
=============================================================================
