----------------------------- MODULE LcmPeers -----------------------------
(***************************************************************************)
(* The prepared cards of LCM peers (packages/core/src/index.ts,            *)
(* materializePreparedCardsForLcmPeers).  A peer is another program's      *)
(* database at a configured path, which may be a symbolic link.  Its cards *)
(* bear the hash of its real path.  A run reads the peers that open, and   *)
(* replaces their cards; a peer that does not open keeps the cards of its  *)
(* last reading, as long as it is configured.  Since the real path of a    *)
(* link is lost with its target, a table of aliases remembers it.          *)
(*                                                                         *)
(* A run is one transaction.  A hash is the path it is the hash of.        *)
(***************************************************************************)
EXTENDS Integers, FiniteSets

CONSTANTS PeerFiles,   \* where peers really are
          Links,       \* symbolic links to them
          PeerIds,     \* ids of summaries
          NoAlias,
          ScanMax,     \* LCM_PEER_SUMMARY_SCAN_MAX
          MaxPeerSteps \* bound on what happens around the runs

VARIABLES
  mounted,   \* the files that exist
  linkTo,    \* where the links point
  summaries, \* the summaries in each file: ids with a version
  cards,     \* prepared_cards of peers, with their inbox items
  aliases,   \* lcm_peer_aliases
  peerSteps,
  lastRead,  \* history: the cards of each file's last reading
  led,       \* history: the file each path led to when it was last read
  lastRun    \* history: what the last run was given and has read

storeVars == << cards, aliases, lastRead, led, lastRun >>
vars == << mounted, linkTo, summaries, storeVars, peerSteps >>

Paths == PeerFiles \cup Links

Card(peer, s) == [peer |-> peer, id |-> s.id, version |-> s.version]

\* The store may come from a version that named cards after the link.
Init ==
  /\ mounted = PeerFiles
  /\ linkTo \in [Links -> PeerFiles]
  /\ summaries = [f \in PeerFiles |-> {[id |-> i, version |-> 1] : i \in PeerIds}]
  /\ cards \in {{}, {Card(l, s) : l \in Links, s \in {[id |-> i, version |-> 0] : i \in PeerIds}}}
  /\ aliases = [p \in Paths |-> NoAlias]
  /\ peerSteps = 0
  /\ lastRead = [f \in PeerFiles |-> {}]
  /\ led = [p \in Paths |-> NoAlias]
  /\ lastRun = [paths |-> {}, read |-> {}]

\* normalizePeerPath: a link whose target is gone is taken by its own name.
Canonical(p) == IF p \in Links /\ linkTo[p] \in mounted THEN linkTo[p] ELSE p

\* The peer's cards: its latest summaries, up to the cap.
Newer(s, t) == s.version > t.version \/ (s.version = t.version /\ s.id < t.id)

Drafts(f) ==
  {Card(f, s) : s \in {s \in summaries[f] :
                          Cardinality({t \in summaries[f] : Newer(t, s)}) < ScanMax}}

\* The aliases a run leaves behind: of each peer read, by each path to it.
Remembered(paths, read) ==
  [p \in Paths |->
     CASE p \in read -> p
       [] p \notin read /\ p \in paths /\ Canonical(p) \in read -> Canonical(p)
       [] OTHER -> aliases[p]]

\* A slip: the aliases not asked.
OwnNames(paths, table) == paths \cup {Canonical(p) : p \in paths}

Configured(paths, table) ==
  LET names == paths \cup {Canonical(p) : p \in paths}
  IN names \cup {table[p] : p \in {p \in names : table[p] # NoAlias}}

Refreshed(paths, read) == read \cup {p \in paths : Canonical(p) \in read}

\* A slip: a peer that fails half-way leaves the cards made so far.
HalfRead(f) == {Card(f, s) : s \in {s \in summaries[f] : \A t \in summaries[f] : ~Newer(t, s)}}

\* What a peer yields that fails, at once or after some of its rows.
Unread(f) == {}

Materialize(paths, read) ==
  LET opened == {Canonical(p) : p \in paths} \cap mounted
      names  == Remembered(paths, read)
      kept   == {c \in cards : c.peer \in Configured(paths, names) \ Refreshed(paths, read)}
  IN /\ read \subseteq opened
     /\ cards' = kept \cup UNION {Drafts(f) : f \in read}
                     \cup UNION {Unread(f) : f \in opened \ read}
     /\ aliases' = names
     /\ lastRead' = [f \in PeerFiles |-> IF f \in read THEN Drafts(f) ELSE lastRead[f]]
     /\ led' = [p \in Paths |->
                  IF p \in paths /\ Canonical(p) \in read THEN Canonical(p) ELSE led[p]]
     /\ lastRun' = [paths |-> paths, read |-> read]

\* indexCodexSessions and materializePreparedCards: with no peers configured,
\* only when there are cards to drop.
Refresh(paths, read) ==
  /\ paths # {} \/ cards # {}
  /\ Materialize(paths, read)
  /\ UNCHANGED << mounted, linkTo, summaries >>

\* A peer writes or drops a summary; a file comes and goes; a link is changed.
PeerWrites(f, i) ==
  /\ f \in mounted
  /\ \E S \in {{}, {[id |-> i, version |-> 2]}} :
       summaries' = [summaries EXCEPT ![f] = {s \in @ : s.id # i} \cup S]
  /\ UNCHANGED << mounted, linkTo, storeVars >>

ComesOrGoes(f) ==
  /\ mounted' = (mounted \ {f}) \cup ({f} \ mounted)
  /\ UNCHANGED << linkTo, summaries, storeVars >>

Relink(l, f) ==
  /\ linkTo[l] # f
  /\ linkTo' = [linkTo EXCEPT ![l] = f]
  /\ UNCHANGED << mounted, summaries, storeVars >>

Next ==
  /\ peerSteps < MaxPeerSteps
  /\ peerSteps' = peerSteps + 1
  /\ \/ \E paths \in SUBSET Paths, read \in SUBSET PeerFiles : Refresh(paths, read)
     \/ \E f \in PeerFiles, i \in PeerIds : PeerWrites(f, i)
     \/ \E f \in PeerFiles : ComesOrGoes(f)
     \/ \E l \in Links, f \in PeerFiles : Relink(l, f)

Spec == Init /\ [][Next]_vars

----------------------------------------------------------------------------
\* The cards of a peer are those of its last reading, all of them or none: a
\* peer that fails half-way, moves or comes back never leaves a mixture of two
\* readings, nor a second card of a summary under another name of its peer.
OneReadingPerPeer ==
  /\ \A f \in PeerFiles : {c \in cards : c.peer = f} \in {{}, lastRead[f]}
  /\ \A l \in Links : led[l] # NoAlias => \A c \in cards : c.peer # l
=============================================================================
