---------------------------- MODULE StoreProofs -----------------------------
(***************************************************************************)
(* What LCO keeps beside its sessions, for any number of processes, files  *)
(* and threads.  Each component keeps its invariant whatever the others    *)
(* are; the invariants are declared in the components' own modules, and    *)
(* v1, v2, ... below are the variables that DerivedStore gives to them.    *)
(***************************************************************************)
EXTENDS DerivedStore, SequenceTheorems, FiniteSetTheorems, TLAPS

\* A step is one of the component that the behaviour chose.
LEMMA StepsOfOne ==
  ASSUME [StoreNext]_vars
  PROVE  /\ component' = component
         /\ component = "title" => Title!Next \/ UNCHANGED Title!vars
         /\ component = "peers" => Peers!Next \/ UNCHANGED Peers!vars
         /\ component = "walk" => Walk!Next \/ UNCHANGED Walk!vars
         /\ component = "cards" => Cards!Next \/ UNCHANGED Cards!vars
         /\ component = "upgrade" => Upgrade!Next \/ UNCHANGED Upgrade!vars
         /\ component = "content" => Content!Next \/ UNCHANGED Content!vars
         /\ component = "claude" => Claude!Next \/ UNCHANGED Claude!vars
<1>1. CASE UNCHANGED vars
  BY <1>1 DEF vars, Title!vars, Title!tables, Title!captures, Title!prepVars, Peers!vars,
              Peers!storeVars, Walk!vars, Walk!walkVars, Cards!vars, Upgrade!vars,
              Content!vars, Content!storeVars, Content!callVars, Claude!vars,
              Claude!runVars
<1>2. CASE StoreNext
  BY <1>2 DEF StoreNext, TitleNext, PeersNext, WalkNext, CardsNext, UpgradeNext,
              ContentNext, ClaudeNext
<1> QED BY <1>1, <1>2

LEMMA StartsOfOne ==
  ASSUME StoreInit
  PROVE  /\ component = "title" => Title!Init
         /\ component = "peers" => Peers!Init
         /\ component = "walk" => Walk!Init
         /\ component = "cards" => Cards!Init
         /\ component = "upgrade" => Upgrade!Init
         /\ component = "content" => Content!Init
         /\ component = "claude" => Claude!Init
BY DEF StoreInit, Only

-----------------------------------------------------------------------------
(* TitleFinalizer: the packet is v2, the alias v3, the places v4, the       *)
(* drafts v5, the reports v6; the captured rows v8, the claims v9; the      *)
(* prepared state v10, the job v11, what was read of it v12, what was told  *)
(* v13 and v14.                                                             *)

LEMMA TitleInit ==
  ASSUME Title!Init
  PROVE  Title!HooksInv
BY DEF Title!Init, Title!HooksInv, Title!TypeInv, Title!TitleInv, Title!CapturedOnce,
       Title!PrepInv, Title!PrepKeepsUp, Title!Places, Title!NoPrep, Title!Silent,
       Title!Preparing

\* The steps of a Stop hook: the events and the prepared state are left alone.
LEMMA TitleHookKept ==
  ASSUME Title!HooksInv, NEW h \in Hooks,
         \/ Title!Start(h) \/ Title!ReadAlias(h) \/ Title!Derive(h)
         \/ Title!InsertPacket(h) \/ Title!InsertAlias(h)
  PROVE  Title!HooksInv'
<1> USE DEF Title!tables, Title!captures, Title!prepVars, Title!Go, Title!Report
<1>1. Title!TypeInv /\ Title!TitleInv /\ Title!CapturedOnce /\ Title!PrepInv
  BY DEF Title!HooksInv
<1>2. PICK place \in Title!Places \ {"job", "upsert"} : v4' = [v4 EXCEPT ![h] = place]
  BY DEF Title!Start, Title!ReadAlias, Title!Derive, Title!InsertPacket, Title!InsertAlias,
         Title!Places
<1>3. /\ v4'[h] = place /\ \A g \in Hooks \ {h} : v4'[g] = v4[g]
      /\ v4' \in [Hooks -> Title!Places]
  BY <1>1, <1>2 DEF Title!TypeInv
<1>4. Title!TypeInv'
  BY <1>1, <1>3
  DEF Title!TypeInv, Title!Start, Title!ReadAlias, Title!Derive, Title!InsertPacket,
      Title!InsertAlias, Title!Silent, Title!PacketInserted
<1>5. Title!TitleInv'
  <2>1. CASE Title!Start(h)
    BY <1>1, <1>3, <2>1 DEF Title!TypeInv, Title!TitleInv, Title!Start, Title!Silent
  <2>2. CASE Title!ReadAlias(h)
    BY <1>1, <1>3, <2>2 DEF Title!TypeInv, Title!TitleInv, Title!ReadAlias
  <2>3. CASE Title!Derive(h)
    BY <1>1, <1>3, <2>3 DEF Title!TypeInv, Title!TitleInv, Title!Derive
  <2>4. CASE Title!InsertPacket(h)
    BY <1>1, <1>3, <2>4 DEF Title!TypeInv, Title!TitleInv, Title!InsertPacket, Title!PacketInserted
  <2>5. CASE Title!InsertAlias(h)
    BY <1>1, <1>3, <2>5 DEF Title!TypeInv, Title!TitleInv, Title!InsertAlias
  <2> QED BY <2>1, <2>2, <2>3, <2>4, <2>5
<1>6. UNCHANGED << v8, v9, v10, v11, v12, v13, v14 >>
  BY DEF Title!Start, Title!ReadAlias, Title!Derive, Title!InsertPacket, Title!InsertAlias
<1>7. Title!CapturedOnce'
  BY <1>1, <1>6 DEF Title!CapturedOnce
<1>8. Title!PrepInv'
  BY <1>1, <1>3, <1>6 DEF Title!PrepInv, Title!PrepKeepsUp, Title!Preparing
<1> QED BY <1>4, <1>5, <1>7, <1>8 DEF Title!HooksInv

\* An event's row is claimed by the delivery that wrote it, if by any.
LEMMA TitleInsertKept ==
  ASSUME Title!HooksInv, NEW row \in Title!Kinds \X HookEvents, Title!Insert(row)
  PROVE  Title!HooksInv'
<1> USE DEF Title!tables, Title!prepVars
<1>1. Title!TypeInv /\ Title!TitleInv /\ Title!CapturedOnce /\ Title!PrepInv
  BY DEF Title!HooksInv
<1>2. PICK n \in {0, 1} :
        /\ v9' = [v9 EXCEPT ![row] = @ + n]
        /\ n = 1 => row \notin v8
  <2>1. PICK reported \in BOOLEAN :
          v9' = [v9 EXCEPT ![row] = @ + IF reported /\ row \notin v8 THEN 1 ELSE 0]
    BY DEF Title!Insert
  <2> DEFINE k == IF reported /\ row \notin v8 THEN 1 ELSE 0
  <2>2. k \in {0, 1} /\ (k = 1 => row \notin v8) /\ v9' = [v9 EXCEPT ![row] = @ + k]
    BY <2>1
  <2> HIDE DEF k
  <2> QED BY <2>2
<1>3. v8' = v8 \cup {row} /\ UNCHANGED << v1, v2, v3, v4, v5, v6, v10, v11, v12, v13, v14 >>
  BY DEF Title!Insert
<1>4. v9' \in [Title!Kinds \X HookEvents -> Nat]
  BY <1>1, <1>2 DEF Title!TypeInv
<1>5. Title!CapturedOnce'
  <2> DEFINE all == Title!Kinds \X HookEvents
  <2>1. v9 \in [all -> Nat]
    BY <1>1 DEF Title!TypeInv
  <2>2. \A r \in all : v9[r] \in IF r \in v8 THEN 0 .. 1 ELSE {0}
    BY <1>1 DEF Title!CapturedOnce
  <2>3. row \in all
    OBVIOUS
  <2> HIDE DEF all
  <2>4. \A r \in all : v9'[r] \in IF r \in v8' THEN 0 .. 1 ELSE {0}
    BY <1>2, <1>3, <2>1, <2>2, <2>3
  <2> QED BY <2>4 DEF Title!CapturedOnce, all
<1> QED BY <1>1, <1>3, <1>4, <1>5
    DEF Title!HooksInv, Title!TypeInv, Title!TitleInv, Title!PrepInv, Title!PrepKeepsUp,
        Title!Preparing

\* The state-prep hooks.
LEMMA TitlePrepKept ==
  ASSUME Title!HooksInv, NEW h \in Hooks,
         Title!StartPrep(h) \/ Title!LooksForJob(h) \/ Title!UpsertsJob(h) \/ Title!Die(h)
  PROVE  Title!HooksInv'
<1> USE DEF Title!tables, Title!captures, Title!Go
<1>1. Title!TypeInv /\ Title!TitleInv /\ Title!CapturedOnce /\ Title!PrepInv
  BY DEF Title!HooksInv
<1>2. PICK place \in {"idle", "job", "upsert"} : v4' = [v4 EXCEPT ![h] = place]
  BY DEF Title!StartPrep, Title!LooksForJob, Title!UpsertsJob, Title!Die
<1>3. /\ v4'[h] = place /\ \A g \in Hooks \ {h} : v4'[g] = v4[g]
      /\ v4' \in [Hooks -> Title!Places]
  BY <1>1, <1>2 DEF Title!TypeInv, Title!Places
<1>4. UNCHANGED << v1, v2, v3, v6, v8, v9, v10 >>
  BY DEF Title!StartPrep, Title!LooksForJob, Title!UpsertsJob, Title!Die
<1>5. /\ v5' \in [Hooks -> Titles \cup {NoTitle}]
      /\ \A g \in Hooks \ {h} : v5'[g] = v5[g]
  BY <1>1 DEF Title!TypeInv, Title!StartPrep, Title!LooksForJob, Title!UpsertsJob, Title!Die
<1>6. Title!TitleInv'
  BY <1>1, <1>3, <1>4, <1>5 DEF Title!TitleInv
<1>7. Title!CapturedOnce'
  BY <1>1, <1>4 DEF Title!CapturedOnce
<1> DEFINE Preps == [of : Nat, new : BOOLEAN, alone : BOOLEAN]
<1>8. ASSUME v12' \in [Hooks -> Preps], {v11', v13', v14'} \subseteq Nat, Title!PrepInv'
      PROVE  Title!HooksInv'
  BY <1>1, <1>3, <1>4, <1>5, <1>6, <1>7, <1>8 DEF Title!HooksInv, Title!TypeInv
<1>9. CASE Title!StartPrep(h)
  <2>1. /\ v12'[h] = [of |-> v10, new |-> FALSE, alone |-> {g \in Hooks \ {h} : Title!Preparing(g)} = {}]
        /\ \A g \in Hooks \ {h} : v12'[g] = IF Title!Preparing(g) THEN [v12[g] EXCEPT !.alone = FALSE] ELSE v12[g]
        /\ v12' \in [Hooks -> Preps]
    BY <1>1, <1>9 DEF Title!TypeInv, Title!StartPrep
  <2>2. \A g \in Hooks \ {h} :
          /\ v12'[g].of = v12[g].of /\ v12'[g].new = v12[g].new
          /\ Title!Preparing(g) => ~v12'[g].alone
    BY <1>1, <2>1 DEF Title!TypeInv
  <2>3. place = "job"
    BY <1>1, <1>3, <1>9 DEF Title!TypeInv, Title!StartPrep
  <2>4. Title!PrepInv'
    BY <1>1, <1>3, <1>4, <1>9, <2>1, <2>2, <2>3
    DEF Title!TypeInv, Title!PrepInv, Title!PrepKeepsUp, Title!Preparing, Title!StartPrep
  <2> QED BY <1>1, <1>8, <1>9, <2>1, <2>4 DEF Title!TypeInv, Title!StartPrep
<1>10. CASE Title!LooksForJob(h)
  <2>1. /\ v12'[h].of = v12[h].of /\ v12'[h].alone = v12[h].alone /\ v12'[h].new = (v11 = 0)
        /\ \A g \in Hooks \ {h} : v12'[g] = v12[g]
        /\ v12' \in [Hooks -> Preps]
    <3> DEFINE none == v11 = 0
    <3>1. v12' = [v12 EXCEPT ![h].new = none] /\ none \in BOOLEAN
      BY <1>10 DEF Title!LooksForJob
    <3> HIDE DEF none
    <3>2. /\ v12'[h].of = v12[h].of /\ v12'[h].alone = v12[h].alone /\ v12'[h].new = none
          /\ \A g \in Hooks \ {h} : v12'[g] = v12[g]
          /\ v12' \in [Hooks -> Preps]
      BY <1>1, <3>1 DEF Title!TypeInv
    <3> QED BY <3>2 DEF none
  <2>2. v4[h] = "job" /\ UNCHANGED << v11, v13, v14 >>
    BY <1>10 DEF Title!LooksForJob
  <2>3. Title!PrepInv'
    BY <1>1, <1>3, <1>4, <2>1, <2>2
    DEF Title!TypeInv, Title!PrepInv, Title!PrepKeepsUp, Title!Preparing
  <2> QED BY <1>1, <1>8, <2>1, <2>2, <2>3 DEF Title!TypeInv
<1>11. CASE Title!UpsertsJob(h)
  <2>1. /\ v4[h] = "upsert" /\ v11' = v12[h].of
        /\ IF v12[h].alone
             THEN v13' = v12[h].of /\ v14' = v14 + IF v12[h].new THEN 1 ELSE 0
             ELSE UNCHANGED << v13, v14 >>
        /\ v12'[h] = Title!NoPrep /\ (\A g \in Hooks \ {h} : v12'[g] = v12[g])
        /\ v12' \in [Hooks -> Preps]
    BY <1>1, <1>11 DEF Title!TypeInv, Title!UpsertsJob, Title!NoPrep
  <2>2. place = "idle"
    BY <1>1, <1>3, <1>11 DEF Title!TypeInv, Title!UpsertsJob
  <2>3. {v11', v13', v14'} \subseteq Nat
    BY <1>1, <2>1 DEF Title!TypeInv
  <2>4. Title!Preparing(h)
    BY <2>1 DEF Title!Preparing
  <2>5. Title!PrepInv'
    BY <1>1, <1>3, <1>4, <2>1, <2>2, <2>4
    DEF Title!TypeInv, Title!PrepInv, Title!PrepKeepsUp, Title!Preparing
  <2> QED BY <1>8, <2>1, <2>3, <2>5
<1>12. CASE Title!Die(h)
  <2>1. /\ v12'[h] = Title!NoPrep /\ (\A g \in Hooks \ {h} : v12'[g] = v12[g])
        /\ v12' \in [Hooks -> Preps] /\ UNCHANGED << v11, v13, v14 >>
    BY <1>1, <1>12 DEF Title!TypeInv, Title!Die, Title!NoPrep
  <2>2. place = "idle"
    BY <1>1, <1>3, <1>12 DEF Title!TypeInv, Title!Die
  <2>3. Title!PrepInv'
    BY <1>1, <1>3, <1>4, <2>1, <2>2
    DEF Title!TypeInv, Title!PrepInv, Title!PrepKeepsUp, Title!Preparing
  <2> QED BY <1>1, <1>8, <2>1, <2>3 DEF Title!TypeInv
<1> QED BY <1>9, <1>10, <1>11, <1>12

LEMMA TitleKept ==
  ASSUME Title!HooksInv, Title!Next \/ UNCHANGED Title!vars
  PROVE  Title!HooksInv'
<1> USE DEF Title!tables, Title!captures, Title!prepVars
<1>1. Title!TypeInv /\ Title!TitleInv /\ Title!CapturedOnce /\ Title!PrepInv
  BY DEF Title!HooksInv
<1>2. ASSUME NEW event \in HookEvents,
             \/ Title!CaptureCloseout(event)
             \/ \E mode \in {"marker", "summary"} : Title!CaptureCompactionMarker(event, mode)
      PROVE  Title!HooksInv'
  BY <1>2, TitleInsertKept
  DEF Title!CaptureCloseout, Title!CaptureCompactionMarker, Title!Kinds
<1>3. CASE Title!Prepare
  BY <1>1, <1>3
  DEF Title!HooksInv, Title!TypeInv, Title!TitleInv, Title!CapturedOnce, Title!PrepInv,
      Title!PrepKeepsUp, Title!Preparing, Title!Prepare
<1>4. CASE (\E title \in Titles : Title!Index(title)) \/ Title!ClearIndex
  BY <1>1, <1>4
  DEF Title!HooksInv, Title!TypeInv, Title!TitleInv, Title!CapturedOnce, Title!PrepInv,
      Title!PrepKeepsUp, Title!Preparing, Title!Index, Title!ClearIndex
<1>5. CASE UNCHANGED Title!vars
  BY <1>1, <1>5
  DEF Title!HooksInv, Title!TypeInv, Title!TitleInv, Title!CapturedOnce, Title!PrepInv,
      Title!PrepKeepsUp, Title!Preparing, Title!vars
<1> QED BY <1>2, <1>3, <1>4, <1>5, TitleHookKept, TitlePrepKept DEF Title!Next

(***************************************************************************)
(* What a hook wrote once stays as it was told, for any number of hooks    *)
(* and runs: a thread keeps one title, one delivery at most of an event is *)
(* told that it is new, and an older output never undoes what a state-prep *)
(* hook that ran alone has told.                                           *)
(***************************************************************************)
THEOREM HooksKeepTheirWord == StoreSpec => []HooksWriteOnce
<1> DEFINE I == component = "title" => Title!HooksInv
<1>1. StoreInit => I
  BY StartsOfOne, TitleInit
<1>2. I /\ [StoreNext]_vars => I'
  BY StepsOfOne, TitleKept
<1>3. I => HooksWriteOnce
  BY DEF HooksWriteOnce, Title!HooksWriteOnce, Title!HooksInv, Title!OneTitleForEver,
         Title!TitleInv, Title!PrepInv
<1> QED BY <1>1, <1>2, <1>3, PTL DEF StoreSpec

-----------------------------------------------------------------------------
(* LcmPeers: what is mounted v1, the links v2, the summaries v3, the cards *)
(* v4, the aliases v5; the last readings v7, where the paths led v8.       *)

\* A run keeps all the cards of a peer that it does not read, or none of them.
LEMMA PeersRead ==
  ASSUME Peers!OneReadingPerPeer, NEW paths \in SUBSET Peers!Paths, NEW read \in SUBSET PeerFiles,
         Peers!Materialize(paths, read), UNCHANGED << v1, v2, v3 >>
  PROVE  Peers!OneReadingPerPeer'
<1> DEFINE names == Peers!Configured(paths, Peers!Remembered(paths, read))
                      \ Peers!Refreshed(paths, read)
           made == UNION { Peers!Drafts(f) : f \in read }
<1>1. v4' = { c \in v4 : c.peer \in names } \cup made
  BY DEF Peers!Materialize, Peers!Unread
<1>2. \A f \in read : \A c \in Peers!Drafts(f) : c.peer = f
  <2> SUFFICES ASSUME NEW f \in read, NEW c \in Peers!Drafts(f)
               PROVE  c.peer = f
    OBVIOUS
  <2>1. PICK s : c = Peers!Card(f, s)
    BY DEF Peers!Drafts
  <2> QED BY <2>1 DEF Peers!Card
<1>3. \A f \in read : f \notin names
  BY DEF Peers!Refreshed
<1>4. /\ v7' = [f \in PeerFiles |-> IF f \in read THEN Peers!Drafts(f) ELSE v7[f]]
      /\ v8' = [p \in Peers!Paths |->
                  IF p \in paths /\ Peers!Canonical(p) \in read THEN Peers!Canonical(p) ELSE v8[p]]
  BY DEF Peers!Materialize
<1>5. \A p \in paths : Peers!Canonical(p) \in read => p \notin names
  BY DEF Peers!Refreshed
<1> HIDE DEF names
<1>6. \A c \in made : c.peer \in read /\ c \in Peers!Drafts(c.peer)
  BY <1>2
<1>7. \A f \in read : \A c \in Peers!Drafts(f) : c \in made
  OBVIOUS
<1> HIDE DEF made
<1>8. ASSUME NEW f \in PeerFiles
      PROVE  { c \in v4' : c.peer = f } \in { {}, v7'[f] }
  <2>1. CASE f \in read
    <3>1. { c \in v4' : c.peer = f } = Peers!Drafts(f)
      BY <1>1, <1>2, <1>3, <1>6, <1>7, <2>1
    <3> QED BY <1>4, <2>1, <3>1
  <2>2. CASE f \notin read
    <3>1. v7'[f] = v7[f] /\ { c \in v4 : c.peer = f } \in { {}, v7[f] }
      BY <1>4, <2>2 DEF Peers!OneReadingPerPeer
    <3>2. CASE f \in names
      BY <1>1, <1>6, <2>2, <3>1, <3>2
    <3>3. CASE f \notin names
      BY <1>1, <1>6, <2>2, <3>3
    <3> QED BY <3>2, <3>3
  <2> QED BY <2>1, <2>2
<1>9. ASSUME NEW l \in Links, v8'[l] # NoAlias, NEW c \in v4'
      PROVE  c.peer # l
  <2>1. l \notin read /\ l \in Peers!Paths
    BY LinksAreNotFiles DEF Peers!Paths
  <2>2. CASE l \in paths /\ Peers!Canonical(l) \in read
    BY <1>1, <1>5, <1>6, <1>9, <2>1, <2>2
  <2>3. CASE ~(l \in paths /\ Peers!Canonical(l) \in read)
    BY <1>1, <1>4, <1>6, <1>9, <2>1, <2>3 DEF Peers!OneReadingPerPeer
  <2> QED BY <2>2, <2>3
<1> QED BY <1>8, <1>9 DEF Peers!OneReadingPerPeer

(***************************************************************************)
(* The cards of a peer are those of its last reading, all or none, and a   *)
(* link that was ever read has no card of its own: for any files, links    *)
(* and aliases, whatever fails, moves or comes back between the runs.      *)
(***************************************************************************)
THEOREM PeersAreReadWhole == StoreSpec => []OneReadingPerPeer
<1> DEFINE I == component = "peers" => Peers!OneReadingPerPeer
<1>1. Peers!Init => Peers!OneReadingPerPeer
  <2> SUFFICES ASSUME Peers!Init
               PROVE  Peers!OneReadingPerPeer
    OBVIOUS
  <2>1. \A c \in v4 : c.peer \in Links
    BY DEF Peers!Init, Peers!Card
  <2>2. \A f \in PeerFiles : { c \in v4 : c.peer = f } = {}
    BY <2>1, LinksAreNotFiles
  <2>3. \A l \in Links : v8[l] = NoAlias
    BY DEF Peers!Init, Peers!Paths
  <2> QED BY <2>2, <2>3 DEF Peers!OneReadingPerPeer
<1>2. StoreInit => I
  BY <1>1, StartsOfOne
<1>3. ASSUME Peers!OneReadingPerPeer, UNCHANGED Peers!storeVars
      PROVE  Peers!OneReadingPerPeer'
  BY <1>3 DEF Peers!storeVars, Peers!OneReadingPerPeer
<1>4. ASSUME Peers!OneReadingPerPeer, Peers!Next \/ UNCHANGED Peers!vars
      PROVE  Peers!OneReadingPerPeer'
  BY <1>3, <1>4, PeersRead
  DEF Peers!Next, Peers!Refresh, Peers!PeerWrites, Peers!ComesOrGoes, Peers!Relink, Peers!vars
<1>5. I /\ [StoreNext]_vars => I'
  BY <1>4, StepsOfOne
<1>6. I => OneReadingPerPeer
  BY DEF OneReadingPerPeer, Peers!OneReadingPerPeer
<1> QED BY <1>2, <1>5, <1>6, PTL DEF StoreSpec

-----------------------------------------------------------------------------
(* LcmWalk: the peer is v1 and v2; the walk's place is v4, its root v5, its *)
(* queue v6, the rows in hand v7, what it has seen v9, listed v10 and its   *)
(* reasons v11; v12 tells whether the peer held still.                      *)

\* A sequence with one more at its end, and one without its first.
LEMMA AddedAtEnd ==
  ASSUME NEW S, NEW s \in Seq(S), NEW x \in S
  PROVE  LET t == Append(s, x)
         IN  /\ t \in Seq(S)
             /\ \A i \in DOMAIN s : i \in DOMAIN t /\ t[i] = s[i]
             /\ \E i \in DOMAIN t : t[i] = x
             /\ \A i \in DOMAIN t :
                  (i \in DOMAIN s /\ t[i] = s[i]) \/ (i = Len(s) + 1 /\ t[i] = x)
<1>0. PICK t : t = Append(s, x)
  OBVIOUS
<1>1. PICK n \in Nat : n = Len(s) /\ DOMAIN s = 1 .. n
  OBVIOUS
<1>2. /\ t \in Seq(S) /\ DOMAIN t = 1 .. (n + 1)
      /\ \A i \in 1 .. n : t[i] = s[i]
      /\ t[n + 1] = x
  BY <1>0, <1>1
<1>3. \A i \in DOMAIN t : i \in 1 .. n \/ i = n + 1
  BY <1>2
<1>4. \A i \in DOMAIN s : i \in DOMAIN t /\ t[i] = s[i]
  BY <1>1, <1>2
<1>5. n + 1 \in DOMAIN t
  BY <1>1, <1>2
<1> QED BY <1>0, <1>1, <1>2, <1>3, <1>4, <1>5

LEMMA TakenFromFront ==
  ASSUME NEW S, NEW s \in Seq(S), s # << >>
  PROVE  LET t == Tail(s)
         IN  /\ t \in Seq(S) /\ Head(s) \in S
             /\ \A i \in DOMAIN s : s[i] = Head(s) \/ \E j \in DOMAIN t : t[j] = s[i]
             /\ \A j \in DOMAIN t : \E i \in DOMAIN s : s[i] = t[j]
             /\ \E i \in DOMAIN s : s[i] = Head(s)
<1>0. PICK t : t = Tail(s)
  OBVIOUS
<1>1. PICK n \in Nat : n = Len(s) /\ DOMAIN s = 1 .. n /\ n > 0
  OBVIOUS
<1>2. /\ t \in Seq(S) /\ DOMAIN t = 1 .. (n - 1) /\ Head(s) = s[1] /\ Head(s) \in S
      /\ \A j \in 1 .. (n - 1) : t[j] = s[j + 1]
  BY <1>0, <1>1
<1>3. ASSUME NEW i \in 1 .. n
      PROVE  i = 1 \/ \E j \in 1 .. (n - 1) : t[j] = s[i]
  <2>1. CASE i # 1
    <3>1. PICK j \in 1 .. (n - 1) : j + 1 = i
      BY <2>1
    <3> QED BY <1>2, <3>1
  <2> QED BY <2>1
<1>4. ASSUME NEW j \in 1 .. (n - 1)
      PROVE  \E i \in 1 .. n : s[i] = t[j]
  BY <1>2
<1>5. 1 \in DOMAIN s
  BY <1>1
<1>6. \A i \in DOMAIN s : s[i] = Head(s) \/ \E j \in DOMAIN t : t[j] = s[i]
  BY <1>1, <1>2, <1>3
<1>7. \A j \in DOMAIN t : \E i \in DOMAIN s : s[i] = t[j]
  BY <1>1, <1>2, <1>4
<1> QED BY <1>0, <1>2, <1>5, <1>6, <1>7

LEMMA WalkInit ==
  ASSUME Walk!Init
  PROVE  Walk!WalkInv
BY DEF Walk!Init, Walk!WalkInv, Walk!TypeInv, Walk!ListInv, Walk!StillInv, Walk!Listed,
       Walk!Queued

LEMMA WalkStart ==
  ASSUME Walk!WalkInv, Walk!Start
  PROVE  Walk!WalkInv'
<1>1. Walk!TypeInv /\ Walk!ListInv
  BY DEF Walk!WalkInv
<1>2. /\ v4 = "idle" /\ v4' = "queue" /\ v6' = << << v5, 0 >> >> /\ v9' = { v5 } /\ v10 = << >>
      /\ v11 = {} /\ UNCHANGED << v1, v2, v5, v7, v8, v10, v11 >>
  BY <1>1 DEF Walk!Start, Walk!ListInv
<1>3. v6' \in Seq(Summaries \X Int) /\ DOMAIN v6' = { 1 } /\ v6'[1][1] = v5
  BY <1>1, <1>2 DEF Walk!TypeInv
<1>4. Walk!Listed' = {} /\ Walk!Queued' = { v5 }
  BY <1>2, <1>3 DEF Walk!Listed, Walk!Queued
<1>5. Walk!TypeInv'
  BY <1>1, <1>2, <1>3 DEF Walk!TypeInv
<1>6. Walk!ListInv'
  BY <1>1, <1>2, <1>4 DEF Walk!ListInv
<1>7. Walk!StillInv'
  BY <1>2, <1>4 DEF Walk!StillInv, Walk!Awaited
<1> QED BY <1>5, <1>6, <1>7 DEF Walk!WalkInv

LEMMA WalkTakeNext ==
  ASSUME Walk!WalkInv, Walk!TakeNext
  PROVE  Walk!WalkInv'
<1>1. Walk!TypeInv /\ Walk!ListInv
  BY DEF Walk!WalkInv
<1>2. PICK c : /\ v4 = "queue" /\ v6 # << >> /\ v6' = Tail(v6) /\ c = Head(v6)[1]
               /\ UNCHANGED << v1, v2, v5, v9, v10, v12 >>
               /\ \/ v11' = v11 \cup { "depth_cap" } /\ UNCHANGED << v4, v7, v8 >>
                  \/ /\ v4' = "rows" /\ v11' = v11 /\ v8' = Head(v6)[2]
                     /\ v7' = {s \in Summaries : << c, s >> \in v2}
  BY DEF Walk!TakeNext, Walk!TooDeep
<1>3. /\ v6' \in Seq(Summaries \X Int) /\ Head(v6) \in Summaries \X Int
      /\ Walk!Queued' \subseteq Walk!Queued /\ c \in Walk!Queued
      /\ Walk!Queued \subseteq Walk!Queued' \cup { c }
  <2>1. PICK S : S = Summaries \X Int /\ v6 \in Seq(S)
    BY <1>1 DEF Walk!TypeInv
  <2>2. PICK s \in Seq(S) : s = v6 /\ s # << >>
    BY <1>2, <2>1
  <2>3. PICK t : t = Tail(s) /\ t = v6'
    BY <1>2, <2>2
  <2>4. /\ t \in Seq(S) /\ Head(s) \in S
        /\ \A i \in DOMAIN s : s[i] = Head(s) \/ \E j \in DOMAIN t : t[j] = s[i]
        /\ \A j \in DOMAIN t : \E i \in DOMAIN s : s[i] = t[j]
        /\ \E i \in DOMAIN s : s[i] = Head(s)
    BY <2>2, <2>3, TakenFromFront
  <2>5. Walk!Queued = {s[i][1] : i \in DOMAIN s} /\ Walk!Queued' = {t[i][1] : i \in DOMAIN t}
    BY <2>2, <2>3 DEF Walk!Queued
  <2>6. {t[i][1] : i \in DOMAIN t} \subseteq {s[i][1] : i \in DOMAIN s}
    BY <2>4
  <2>7. {s[i][1] : i \in DOMAIN s} \subseteq {t[i][1] : i \in DOMAIN t} \cup { Head(s)[1] }
    BY <2>4
  <2>8. Head(s)[1] \in {s[i][1] : i \in DOMAIN s}
    BY <2>4
  <2>9. c = Head(s)[1]
    BY <1>2, <2>2
  <2> QED BY <1>2, <2>1, <2>2, <2>3, <2>4, <2>5, <2>6, <2>7, <2>8, <2>9
<1>4. Walk!Listed' = Walk!Listed /\ v4' \in { "queue", "rows" }
  BY <1>2 DEF Walk!Listed
<1>5. Walk!TypeInv'
  BY <1>1, <1>2, <1>3 DEF Walk!TypeInv
<1>6. Walk!ListInv'
  BY <1>1, <1>2, <1>4 DEF Walk!ListInv
<1>7. ASSUME v12'
      PROVE  Walk!StillInv'
  <2>1. Walk!StillInv
    BY <1>2, <1>7 DEF Walk!WalkInv
  <2>2. /\ (Walk!Listed \subseteq Walk!Sources(v5) \cap v1)'
        /\ Walk!Queued' \subseteq Walk!Listed' \cup { v5' } /\ c \in Walk!Listed' \cup { v5' }
    BY <1>2, <1>3, <1>4, <2>1 DEF Walk!StillInv, Walk!Sources, Walk!Closed
  <2>3. v11 = {} => \A d \in Walk!Listed' \cup { v5' } :
                      d \in Walk!Queued' \cup { c } \/ Walk!Expanded(d)'
    BY <1>2, <1>3, <1>4, <2>1 DEF Walk!StillInv, Walk!Awaited, Walk!Expanded
  <2>4. CASE v11' = v11 \cup { "depth_cap" } /\ UNCHANGED << v4, v7, v8 >>
    <3>1. v11' # {} /\ v4' = "queue"
      BY <1>2, <2>4
    <3> QED BY <2>2, <3>1 DEF Walk!StillInv
  <2>5. CASE v4' = "rows" /\ v11' = v11 /\ v7' = {s \in Summaries : << c, s >> \in v2}
    <3>1. \A p \in v7' : << c, p >> \in v2'
      BY <1>2, <2>5
    <3>2. \A p \in Summaries \ { Blank } : << c, p >> \in v2' => p \in v7'
      BY <1>2, <2>5
    <3>3. v11' = {} => Walk!Awaited({ c })'
      BY <2>3, <2>5 DEF Walk!Awaited
    <3> QED BY <2>2, <2>5, <3>1, <3>2, <3>3 DEF Walk!StillInv
  <2> QED BY <1>2, <2>4, <2>5
<1> QED BY <1>5, <1>6, <1>7 DEF Walk!WalkInv

LEMMA WalkTakeRow ==
  ASSUME Walk!WalkInv, NEW s \in Summaries, Walk!TakeRow(s)
  PROVE  Walk!WalkInv'
<1>1. Walk!TypeInv /\ Walk!ListInv
  BY DEF Walk!WalkInv
<1>2. /\ v4 = "rows" /\ v4' = "rows" /\ s \in v7 /\ v7' \subseteq v7
      /\ v9 \subseteq v9' /\ v11 \subseteq v11' /\ UNCHANGED << v1, v2, v5, v8, v12 >>
      /\ \/ v11' # {} /\ UNCHANGED << v6, v10 >>
         \/ s = Blank /\ v7' = v7 \ { s } /\ UNCHANGED << v6, v9, v10, v11 >>
         \/ /\ v7' = v7 \ { s } /\ s \notin v9 /\ s \in v9' /\ s \in v1 /\ v11' = v11
            /\ v10' = Append(v10, s) /\ v6' = Append(v6, << s, v8 + 1 >>)
  BY DEF Walk!TakeRow
<1>3. v7' \subseteq Summaries
  BY <1>1, <1>2 DEF Walk!TypeInv
<1>4. CASE v11' # {} /\ UNCHANGED << v6, v10 >>
  <2>1. Walk!Listed' = Walk!Listed /\ Walk!Queued' = Walk!Queued
    BY <1>4 DEF Walk!Listed, Walk!Queued
  <2>2. Walk!TypeInv'
    BY <1>1, <1>2, <1>3, <1>4 DEF Walk!TypeInv
  <2>3. Walk!ListInv'
    BY <1>1, <1>2, <1>4, <2>1 DEF Walk!ListInv
  <2>4. ASSUME v12'
        PROVE  Walk!StillInv'
    <3>1. Walk!StillInv
      BY <1>2, <2>4 DEF Walk!WalkInv
    <3>2. /\ (Walk!Listed \subseteq Walk!Sources(v5) \cap v1)'
          /\ Walk!Queued' \subseteq Walk!Listed' \cup { v5' }
      BY <1>2, <2>1, <3>1 DEF Walk!StillInv, Walk!Sources, Walk!Closed
    <3>3. \E c \in Walk!Listed' \cup { v5' } : \A p \in v7' : << c, p >> \in v2'
      BY <1>2, <2>1, <3>1 DEF Walk!StillInv
    <3> QED BY <1>2, <1>4, <3>2, <3>3 DEF Walk!StillInv
  <2> QED BY <2>2, <2>3, <2>4 DEF Walk!WalkInv
<1>5. CASE /\ v7' = v7 \ { s } /\ s \notin v9 /\ s \in v9' /\ s \in v1 /\ v11' = v11
           /\ v10' = Append(v10, s) /\ v6' = Append(v6, << s, v8 + 1 >>)
  <2>1. /\ v10' \in Seq(Summaries) /\ Walk!Listed' = Walk!Listed \cup { s }
        /\ \A i \in DOMAIN v10' :
             (i \in DOMAIN v10 /\ v10'[i] = v10[i]) \/ (i = Len(v10) + 1 /\ v10'[i] = s)
    <3>1. PICK l \in Seq(Summaries) : l = v10 /\ v10' = Append(l, s)
      BY <1>1, <1>5 DEF Walk!TypeInv
    <3>2. PICK t : t = Append(l, s)
      OBVIOUS
    <3>3. /\ t \in Seq(Summaries)
          /\ \A i \in DOMAIN l : i \in DOMAIN t /\ t[i] = l[i]
          /\ \E i \in DOMAIN t : t[i] = s
          /\ \A i \in DOMAIN t : (i \in DOMAIN l /\ t[i] = l[i]) \/ (i = Len(l) + 1 /\ t[i] = s)
      BY <3>2, AddedAtEnd
    <3>4. {t[i] : i \in DOMAIN t} = {l[i] : i \in DOMAIN l} \cup { s }
      BY <3>3
    <3> QED BY <3>1, <3>2, <3>3, <3>4 DEF Walk!Listed
  <2>2. v6' \in Seq(Summaries \X Int) /\ Walk!Queued' = Walk!Queued \cup { s }
    <3>1. PICK S : S = Summaries \X Int
      OBVIOUS
    <3>2. PICK x \in S : x = << s, v8 + 1 >> /\ x[1] = s
      <4>1. v8 + 1 \in Int
        BY <1>1 DEF Walk!TypeInv
      <4>2. << s, v8 + 1 >> \in S
        BY <3>1, <4>1
      <4> QED BY <4>2
    <3>3. PICK q \in Seq(S) : q = v6 /\ v6' = Append(q, x)
      BY <1>1, <1>5, <3>1, <3>2 DEF Walk!TypeInv
    <3>4. PICK t : t = Append(q, x)
      OBVIOUS
    <3>5. /\ t \in Seq(S)
          /\ \A i \in DOMAIN q : i \in DOMAIN t /\ t[i] = q[i]
          /\ \E i \in DOMAIN t : t[i] = x
          /\ \A i \in DOMAIN t : (i \in DOMAIN q /\ t[i] = q[i]) \/ (i = Len(q) + 1 /\ t[i] = x)
      BY <3>4, AddedAtEnd
    <3>6. {t[i][1] : i \in DOMAIN t} = {q[i][1] : i \in DOMAIN q} \cup { s }
      BY <3>2, <3>5
    <3>7. v6' = t
      BY <3>3, <3>4
    <3>8. Walk!Queued = {q[i][1] : i \in DOMAIN q} /\ Walk!Queued' = {t[i][1] : i \in DOMAIN t}
      BY <3>3, <3>7 DEF Walk!Queued
    <3> QED BY <3>1, <3>5, <3>6, <3>7, <3>8
  <2>3. Walk!TypeInv'
    BY <1>1, <1>2, <1>3, <2>1, <2>2 DEF Walk!TypeInv
  <2>4. s \notin Walk!Listed /\ Walk!Listed \cup { v5 } \subseteq v9 /\ s # v5
    BY <1>1, <1>2, <1>5 DEF Walk!ListInv
  <2>5. Walk!ListInv'
    <3>1. \A i \in DOMAIN v10 : v10[i] # s
      BY <2>4 DEF Walk!Listed
    <3>2. \A i, j \in DOMAIN v10' : v10'[i] = v10'[j] => i = j
      BY <1>1, <2>1, <3>1 DEF Walk!ListInv
    <3>3. Walk!Listed' \cup { v5' } \subseteq v9'
      BY <1>2, <1>5, <2>1, <2>4
    <3> QED BY <1>2, <3>2, <3>3 DEF Walk!ListInv
  <2>6. ASSUME v12'
        PROVE  Walk!StillInv'
    <3>1. Walk!StillInv
      BY <1>2, <2>6 DEF Walk!WalkInv
    <3>2. PICK c \in Walk!Listed \cup { v5 } :
            /\ \A p \in v7 : << c, p >> \in v2
            /\ v11 = {} =>
                 /\ Walk!Awaited({ c })
                 /\ \A p \in Summaries \ { Blank } : << c, p >> \in v2 => p \in v7 \cup Walk!Listed
      BY <1>2, <3>1 DEF Walk!StillInv
    <3>3. s \in Walk!Sources(v5)
      <4>1. \A set \in SUBSET Summaries : v5 \in set /\ Walk!Closed(set) => c \in set
        BY <3>1, <3>2 DEF Walk!StillInv, Walk!Sources
      <4>2. << c, s >> \in v2 /\ s \in v1
        BY <1>2, <1>5, <3>2
      <4>3. \A set \in SUBSET Summaries : v5 \in set /\ Walk!Closed(set) => s \in set
        BY <4>1, <4>2 DEF Walk!Closed
      <4> QED BY <2>4, <4>3 DEF Walk!Sources
    <3>4. (Walk!Listed \subseteq Walk!Sources(v5) \cap v1)'
      BY <1>2, <1>5, <2>1, <3>1, <3>3 DEF Walk!StillInv, Walk!Sources, Walk!Closed
    <3>5. Walk!Queued' \subseteq Walk!Listed' \cup { v5' }
      BY <1>2, <2>1, <2>2, <3>1 DEF Walk!StillInv
    <3>6. v11' = {} => Walk!Awaited({ c })'
      BY <1>2, <1>5, <2>1, <2>2, <3>2 DEF Walk!Awaited, Walk!Expanded
    <3>7. /\ c \in Walk!Listed' \cup { v5' } /\ \A p \in v7' : << c, p >> \in v2'
          /\ v11' = {} => \A p \in Summaries \ { Blank } :
                            << c, p >> \in v2' => p \in v7' \cup Walk!Listed'
      BY <1>2, <1>5, <2>1, <3>2
    <3> QED BY <1>2, <3>4, <3>5, <3>6, <3>7 DEF Walk!StillInv
  <2> QED BY <2>3, <2>5, <2>6 DEF Walk!WalkInv
<1>6. CASE s = Blank /\ v7' = v7 \ { s } /\ UNCHANGED << v6, v9, v10, v11 >>
  <2>1. Walk!Listed' = Walk!Listed /\ Walk!Queued' = Walk!Queued
    BY <1>6 DEF Walk!Listed, Walk!Queued
  <2>2. Walk!TypeInv' /\ Walk!ListInv'
    BY <1>1, <1>2, <1>3, <1>6, <2>1 DEF Walk!TypeInv, Walk!ListInv
  <2>3. ASSUME v12'
        PROVE  Walk!StillInv'
    <3>1. Walk!StillInv
      BY <1>2, <2>3 DEF Walk!WalkInv
    <3>2. /\ (Walk!Listed \subseteq Walk!Sources(v5) \cap v1)'
          /\ Walk!Queued' \subseteq Walk!Listed' \cup { v5' }
      BY <1>2, <2>1, <3>1 DEF Walk!StillInv, Walk!Sources, Walk!Closed
    <3>3. PICK c \in Walk!Listed \cup { v5 } :
            /\ \A p \in v7 : << c, p >> \in v2
            /\ v11 = {} =>
                 /\ Walk!Awaited({ c })
                 /\ \A p \in Summaries \ { Blank } : << c, p >> \in v2 => p \in v7 \cup Walk!Listed
      BY <1>2, <3>1 DEF Walk!StillInv
    <3>4. v11' = {} => Walk!Awaited({ c })'
      BY <1>2, <1>6, <2>1, <3>3 DEF Walk!Awaited, Walk!Expanded
    <3>5. /\ c \in Walk!Listed' \cup { v5' } /\ \A p \in v7' : << c, p >> \in v2'
          /\ v11' = {} => \A p \in Summaries \ { Blank } :
                            << c, p >> \in v2' => p \in v7' \cup Walk!Listed'
      BY <1>2, <1>6, <2>1, <3>3
    <3> QED BY <1>2, <3>2, <3>4, <3>5 DEF Walk!StillInv
  <2> QED BY <2>2, <2>3 DEF Walk!WalkInv
<1> QED BY <1>2, <1>4, <1>5, <1>6

LEMMA WalkEnds ==
  ASSUME Walk!WalkInv, Walk!EndOfRows \/ Walk!Finish \/ Walk!Fail
  PROVE  Walk!WalkInv'
<1>1. Walk!TypeInv /\ Walk!ListInv
  BY DEF Walk!WalkInv
<1>2. CASE Walk!EndOfRows
  <2>1. /\ v4 = "rows" /\ v7 = {} /\ v4' = "queue"
        /\ v8' = 0 /\ UNCHANGED << v1, v2, v5, v6, v7, v9, v10, v11, v12 >>
    BY <1>2 DEF Walk!EndOfRows
  <2>2. Walk!Listed' = Walk!Listed /\ Walk!Queued' = Walk!Queued
    BY <2>1 DEF Walk!Listed, Walk!Queued
  <2>3. Walk!TypeInv' /\ Walk!ListInv'
    BY <1>1, <2>1, <2>2 DEF Walk!TypeInv, Walk!ListInv
  <2>4. ASSUME v12'
        PROVE  Walk!StillInv'
    <3>1. Walk!StillInv
      BY <2>1, <2>4 DEF Walk!WalkInv
    <3>2. /\ (Walk!Listed \subseteq Walk!Sources(v5) \cap v1)'
          /\ Walk!Queued' \subseteq Walk!Listed' \cup { v5' }
      BY <2>1, <2>2, <3>1 DEF Walk!StillInv, Walk!Sources, Walk!Closed
    <3>3. v11 = {} => Walk!Awaited({})
      BY <2>1, <3>1 DEF Walk!StillInv, Walk!Awaited, Walk!Expanded
    <3>4. v11' = {} => Walk!Awaited({})'
      BY <2>1, <2>2, <3>3 DEF Walk!Awaited, Walk!Expanded
    <3> QED BY <2>1, <3>2, <3>4 DEF Walk!StillInv
  <2> QED BY <2>3, <2>4 DEF Walk!WalkInv
<1>3. CASE Walk!Finish
  <2>1. /\ v4 = "queue" /\ v4' = "done" /\ v6' = << >> /\ (v11' = {} => v11 = {} /\ v6 = << >>)
        /\ UNCHANGED << v1, v2, v5, v7, v8, v10, v12 >>
    BY <1>3 DEF Walk!Finish, Walk!LeftOver
  <2>2. Walk!Listed' = Walk!Listed /\ Walk!Queued' = {}
    BY <2>1 DEF Walk!Listed, Walk!Queued
  <2>3. Walk!TypeInv' /\ Walk!ListInv'
    BY <1>1, <2>1 DEF Walk!TypeInv, Walk!ListInv
  <2>4. ASSUME v12'
        PROVE  Walk!StillInv'
    <3>1. Walk!StillInv
      BY <2>1, <2>4 DEF Walk!WalkInv
    <3>2. (Walk!Listed \subseteq Walk!Sources(v5) \cap v1)'
      BY <2>1, <2>2, <3>1 DEF Walk!StillInv, Walk!Sources, Walk!Closed
    <3>3. v11' = {} => Walk!Awaited({}) /\ Walk!Queued = {}
      BY <2>1, <3>1 DEF Walk!StillInv, Walk!Queued
    <3>4. v11' = {} => Walk!Awaited({})'
      BY <2>1, <2>2, <3>3 DEF Walk!Awaited, Walk!Expanded
    <3> QED BY <2>1, <2>2, <3>2, <3>4 DEF Walk!StillInv
  <2> QED BY <2>3, <2>4 DEF Walk!WalkInv
<1>4. CASE Walk!Fail
  <2>1. /\ v4' = "done" /\ v10' = << >> /\ v11' # {} /\ v6' = << >> /\ v7' = {} /\ v8' = 0
        /\ UNCHANGED << v1, v5 >>
    BY <1>4 DEF Walk!Fail
  <2>2. Walk!Listed' = {} /\ Walk!Queued' = {}
    BY <2>1 DEF Walk!Listed, Walk!Queued
  <2>3. Walk!TypeInv' /\ Walk!ListInv'
    BY <1>1, <2>1 DEF Walk!TypeInv, Walk!ListInv
  <2>4. Walk!StillInv'
    BY <2>1, <2>2 DEF Walk!StillInv
  <2> QED BY <2>3, <2>4 DEF Walk!WalkInv
<1> QED BY <1>2, <1>3, <1>4

LEMMA WalkRestKept ==
  ASSUME Walk!WalkInv, Walk!PeerWrites \/ UNCHANGED Walk!vars
  PROVE  Walk!WalkInv'
<1>1. /\ UNCHANGED << v4, v5, v6, v7, v8, v9, v10, v11 >>
      /\ v12' => v12 /\ UNCHANGED << v1, v2 >>
      /\ v1' \subseteq v1 \cup (Summaries \ { Blank })
  BY DEF Walk!PeerWrites, Walk!vars, Walk!walkVars
<1>2. Walk!Listed' = Walk!Listed /\ Walk!Queued' = Walk!Queued
  BY <1>1 DEF Walk!Listed, Walk!Queued
<1>3. Walk!TypeInv' /\ Walk!ListInv'
  BY <1>1, <1>2 DEF Walk!WalkInv, Walk!TypeInv, Walk!ListInv
<1>4. v12' => Walk!StillInv'
  BY <1>1, <1>2 DEF Walk!WalkInv, Walk!StillInv, Walk!Awaited, Walk!Expanded, Walk!Sources,
     Walk!Closed
<1> QED BY <1>3, <1>4 DEF Walk!WalkInv

\* What the walk has expanded is closed, so there is nothing beyond it.
LEMMA WalkLeftOutNothing ==
  ASSUME Walk!WalkInv
  PROVE  Walk!NothingOmittedSilently
<1>0. \A i, j \in DOMAIN v10 : v10[i] = v10[j] => i = j
  BY DEF Walk!WalkInv, Walk!ListInv
<1>1. SUFFICES ASSUME v4 = "done", v12
               PROVE  /\ \A i \in DOMAIN v10 : v10[i] \in Walk!Sources(v5)
                      /\ v11 = {} =>
                           /\ Walk!Dangling(v5) = {}
                           /\ \A s \in Walk!Sources(v5) : \E i \in DOMAIN v10 : v10[i] = s
  BY <1>0 DEF Walk!NothingOmittedSilently
<1>2. Walk!StillInv /\ Walk!ListInv /\ Walk!TypeInv
  BY <1>1 DEF Walk!WalkInv
<1>3. \A i \in DOMAIN v10 : v10[i] \in Walk!Sources(v5)
  BY <1>2 DEF Walk!StillInv, Walk!Listed
<1>4. ASSUME v11 = {}
      PROVE  /\ Walk!Dangling(v5) = {}
             /\ \A s \in Walk!Sources(v5) : \E i \in DOMAIN v10 : v10[i] = s
  <2>1. Walk!Queued = {}
    BY <1>1, <1>2, <1>4 DEF Walk!ListInv, Walk!Queued
  <2>2. \A d \in Walk!Listed \cup { v5 } : Walk!Expanded(d)
    BY <1>1, <1>2, <1>4, <2>1 DEF Walk!StillInv, Walk!Awaited
  <2>3. Walk!Listed \cup { v5 } \subseteq Summaries /\ Walk!Listed \subseteq v1
    BY <1>2 DEF Walk!StillInv, Walk!Sources, Walk!TypeInv
  <2>4. PICK set \in SUBSET Summaries : set = Walk!Listed \cup { v5 }
    BY <2>3
  <2>5. Walk!Closed(set)
    <3>1. SUFFICES ASSUME NEW c \in set, NEW p \in v1, << c, p >> \in v2
                   PROVE  p \in set
      BY DEF Walk!Closed
    <3> QED BY <1>2, <2>2, <2>4, <3>1 DEF Walk!Expanded, Walk!TypeInv
  <2>6. Walk!Sources(v5) \subseteq Walk!Listed
    BY <2>4, <2>5 DEF Walk!Sources
  <2>7. Walk!Dangling(v5) = {}
    BY <2>2, <2>3, <2>6 DEF Walk!Dangling, Walk!Expanded
  <2> QED BY <2>6, <2>7 DEF Walk!Listed
<1> QED BY <1>2, <1>3, <1>4 DEF Walk!ListInv

(***************************************************************************)
(* An expansion that gives no reason is all that the summary was made      *)
(* from, and lists nothing twice: for any number of summaries, links, caps *)
(* and whatever order the rows come in, as long as the peer holds still.   *)
(***************************************************************************)
THEOREM ExpansionsOmitNothingSilently == StoreSpec => []NothingOmittedSilently
<1> DEFINE I == component = "walk" => Walk!WalkInv
<1>1. StoreInit => I
  BY StartsOfOne, WalkInit
<1>2. ASSUME Walk!WalkInv, Walk!Next \/ UNCHANGED Walk!vars
      PROVE  Walk!WalkInv'
  BY <1>2, WalkStart, WalkTakeNext, WalkTakeRow, WalkEnds, WalkRestKept DEF Walk!Next
<1>3. I /\ [StoreNext]_vars => I'
  BY <1>2, StepsOfOne
<1>4. I => NothingOmittedSilently
  BY WalkLeftOutNothing DEF NothingOmittedSilently
<1> QED BY <1>1, <1>3, <1>4, PTL DEF StoreSpec

-----------------------------------------------------------------------------
(* CardRefresh: the sessions v1, their leaves v2, what needs attention v3, *)
(* the cards v4, who wrote of each thread and marked its file v5; the      *)
(* Claude sessions v6, their cards v7; the runs v8, the Claude sessions    *)
(* that are as refreshed v9.                                               *)

\* A card says completed, or ready, only of a thread of which that is so.
LEMMA StatesAreHonest ==
  ASSUME NEW signals \in SUBSET Signals, NEW evidence \in {"ready", "stale_or_partial"}
  PROVE  LET state == Cards!Lifecycle(signals, evidence) IN
         /\ state \in Cards!States
         /\ state = "completed" => signals = {"completed"} /\ evidence = "ready"
         /\ state = "ready" => signals = {}
<1> DEFINE matched == Cards!Matched(signals)
           shown == Cards!First(matched)
<1>1. \A s \in signals : s = "completed" \/ \E i \in 1 .. 6 : s = Cards!Open[i]
  BY CardsAreTold DEF Cards!AllSignals, Cards!Open
<1>2. /\ matched \subseteq signals
      /\ matched = {} => signals = {}
      /\ matched = {"completed"} => signals = {"completed"}
  BY DEF Cards!Matched
<1>3. ASSUME matched # {}, "completed" \notin matched
      PROVE  shown \in Cards!States \ {"completed", "ready"}
  <2> DEFINE P(i) == Cards!Open[i] \in matched /\ \A j \in 1 .. i - 1 : Cards!Open[j] \notin matched
  <2>1. PICK i \in 1 .. 6 : Cards!Open[i] \in matched
    BY <1>1, <1>2, <1>3
  <2>2. \E k \in 1 .. 6 : P(k)
    <3>1. CASE Cards!Open[1] \in matched
      BY <3>1
    <3>2. CASE Cards!Open[1] \notin matched /\ Cards!Open[2] \in matched
      BY <3>2
    <3>3. CASE /\ \A j \in 1 .. 2 : Cards!Open[j] \notin matched
               /\ Cards!Open[3] \in matched
      BY <3>3
    <3>4. CASE /\ \A j \in 1 .. 3 : Cards!Open[j] \notin matched
               /\ Cards!Open[4] \in matched
      BY <3>4
    <3>5. CASE /\ \A j \in 1 .. 4 : Cards!Open[j] \notin matched
               /\ Cards!Open[5] \in matched
      BY <3>5
    <3>6. CASE /\ \A j \in 1 .. 5 : Cards!Open[j] \notin matched
               /\ Cards!Open[6] \in matched
      BY <3>6
    <3> HIDE DEF matched, P
    <3> QED BY <2>1, <3>1, <3>2, <3>3, <3>4, <3>5, <3>6
  <2>3. DOMAIN Cards!Open = 1 .. 6
    BY DEF Cards!Open
  <2>4. PICK k \in 1 .. 6 : shown = Cards!Open[k]
    BY <2>2, <2>3 DEF Cards!First
  <2> HIDE DEF shown, matched, P
  <2>5. shown \in Cards!States /\ shown \in { "dirty_worktree_handoff", "waiting_approval", "blocked_missing_info",
                   "needs_resume", "watching_external_check", "ready_for_review" }
    BY <2>3, <2>4 DEF Cards!Open, Cards!States, Cards!AllSignals
  <2> QED BY <2>5
<1> HIDE DEF matched, shown
<1>4. Cards!Lifecycle(signals, evidence) =
        IF "completed" \in matched /\ matched # {"completed"} THEN "unknown_lifecycle"
        ELSE IF matched = {"completed"}
        THEN IF evidence = "ready" THEN "completed" ELSE evidence
        ELSE IF matched = {} THEN evidence ELSE shown
  BY DEF Cards!Lifecycle, matched, shown
<1> DEFINE state == Cards!Lifecycle(signals, evidence)
<1>5. state \in {"unknown_lifecycle", "completed", evidence, shown}
  BY <1>4
<1>6. state \in Cards!States
  BY <1>3, <1>4 DEF Cards!States, Cards!AllSignals
<1>7. state = "completed" => matched = {"completed"} /\ evidence = "ready"
  BY <1>3, <1>4
<1>8. state = "ready" => matched = {}
  BY <1>3, <1>4
<1> HIDE DEF state
<1>9. /\ state \in Cards!States
      /\ state = "completed" => signals = {"completed"} /\ evidence = "ready"
      /\ state = "ready" => signals = {}
  BY <1>2, <1>6, <1>7, <1>8
<1> QED BY <1>9 DEF state

\* A draft from leaves and lookups of the session's text is whole.
LEMMA DraftsAreWhole ==
  ASSUME Cards!TypeInv, NEW t \in CardThreads, NEW cache,
         v2[t].text = v1[t].text, cache.plan = v1[t].text,
         cache.attention \in Nat, cache.attention >= v1[t].since,
         v1' = v1, v2' = v2, v4'[t] = Cards!Draft(t, cache)
  PROVE  Cards!Whole(t)'
<1> DEFINE state == Cards!Lifecycle(v1[t].signals, Cards!Evidence(t))
           d == [text |-> v1[t].text, leaf |-> v2[t].text, plan |-> cache.plan,
                 attention |-> cache.attention, state |-> state]
<1>1. /\ v1[t] \in [text : Nat, signals : SUBSET Signals, coverage : Cards!Coverages, since : Nat]
      /\ v2[t] \in [text : Nat, coverage : Cards!Coverages]
  BY DEF Cards!TypeInv
<1>2. Cards!Evidence(t) \in {"ready", "stale_or_partial"}
  BY DEF Cards!Evidence
<1>3. /\ state \in Cards!States
      /\ state = "completed" => v1[t].signals = {"completed"} /\ Cards!Evidence(t) = "ready"
      /\ state = "ready" => v1[t].signals = {}
  BY <1>1, <1>2, StatesAreHonest
<1>4. Cards!Evidence(t)' = Cards!Evidence(t)
  BY DEF Cards!Evidence
<1>5. v4'[t] = IF v2[t].coverage = "none" THEN NoCard ELSE d
  BY DEF Cards!Draft
<1> HIDE DEF state
<1>6. d \in Cards!Drafts
  BY <1>1, <1>3 DEF Cards!Drafts
<1>7. d # NoCard
  BY <1>6, CardsAreTold
<1>8. /\ d.text = v1[t].text /\ d.leaf = v1[t].text /\ d.plan = v1[t].text
      /\ d.attention >= v1[t].since /\ d.state = state
  OBVIOUS
<1> HIDE DEF d
<1> QED BY <1>3, <1>4, <1>5, <1>7, <1>8 DEF Cards!Whole

LEMMA WholeStays ==
  ASSUME NEW t, Cards!Whole(t), v1'[t] = v1[t], v2'[t] = v2[t], v4'[t] = v4[t]
  PROVE  Cards!Whole(t)'
BY DEF Cards!Whole, Cards!Evidence

LEMMA CardsInit ==
  ASSUME Cards!Init
  PROVE  Cards!CardInv
<1>1. Cards!TypeInv
  BY DEF Cards!Init, Cards!TypeInv, Cards!Shaped, Cards!Idle, Cards!NoLeaves, Cards!Coverages,
     Cards!Writers, Cards!WrittenBy
<1>2. Cards!RunsInv
  BY DEF Cards!Init, Cards!RunsInv, Cards!Idle
<1>3. \A t \in CardThreads : Cards!Held(t)
  BY DEF Cards!Init, Cards!Held, Cards!Remade, Cards!WrittenBy
<1> QED BY <1>1, <1>2, <1>3 DEF Cards!Init, Cards!CardInv

\* What a run does leaves the other runs as they are.
LEMMA RunsChange ==
  ASSUME Cards!TypeInv, NEW p \in Indexers, NEW r, v8' = [v8 EXCEPT ![p] = r]
  PROVE  /\ v8'[p] = r /\ \A q \in Indexers \ {p} : v8'[q] = v8[q]
         /\ v8' = [q \in Indexers |-> v8'[q]]
         /\ Cards!Shaped(r) => \A q \in Indexers : Cards!Shaped(v8[q])'
<1>1. v8 = [q \in Indexers |-> v8[q]] /\ \A q \in Indexers : Cards!Shaped(v8[q])
  BY DEF Cards!TypeInv
<1>2. /\ v8'[p] = r /\ \A q \in Indexers \ {p} : v8'[q] = v8[q]
      /\ v8' = [q \in Indexers |-> v8'[q]]
  BY <1>1
<1>3. ASSUME Cards!Shaped(r), NEW q \in Indexers
      PROVE  Cards!Shaped(v8[q])'
  <2>1. v8'[q] = IF q = p THEN r ELSE v8[q]
    BY <1>2
  <2>2. CASE q = p
    BY <1>3, <2>1, <2>2 DEF Cards!Shaped
  <2>3. CASE q # p
    <3>1. Cards!Shaped(v8[q]) /\ v8'[q] = v8[q]
      BY <1>1, <2>1, <2>3
    <3> QED BY <3>1 DEF Cards!Shaped
  <2> QED BY <2>2, <2>3
<1> QED BY <1>2, <1>3

\* A thread of which nothing is written but, perhaps, a whole card.
LEMMA HeldStays ==
  ASSUME Cards!TypeInv, NEW t \in CardThreads, Cards!Held(t),
         v1'[t] = v1[t], v2'[t] = v2[t], v5'[t] = v5[t],
         v3'[t] \in Nat, v3'[t] >= v3[t],
         Cards!Remade(t) /\ Cards!Whole(t) => Cards!Whole(t)'
  PROVE  Cards!Held(t)'
<1>1. v3[t] \in Nat /\ v1[t].since \in Nat
  BY DEF Cards!TypeInv
<1>2. Cards!Remade(t)' <=> Cards!Remade(t)
  BY DEF Cards!Remade
<1>3. Cards!LeavesOf(t)' = Cards!LeavesOf(t)
  BY DEF Cards!LeavesOf
<1> QED BY <1>1, <1>2, <1>3 DEF Cards!Held

\* The runs, when one of them moves: what it writes of a thread that another read
\* last takes nothing from what that one has done.
LEMMA RunMoves ==
  ASSUME Cards!TypeInv, Cards!RunsInv, NEW p \in Indexers, NEW r,
         v8' = [v8 EXCEPT ![p] = r],
         \A s \in CardThreads :
           \/ v5'[s].session = {p}
           \/ /\ v1'[s] = v1[s] /\ v5'[s].session = v5[s].session
              /\ v5'[s].card \in { v5[s].card, {p} }
              /\ v5[s].leaves # {} => v5'[s].leaves # {},
         \A s \in CardThreads :
           r.at # "refresh" /\ s \in r.todo /\ v5'[s].session = {p} => Cards!Grounded(p, s)'
  PROVE  Cards!RunsInv'
<1>1. v8'[p] = r /\ \A q \in Indexers \ {p} : v8'[q] = v8[q]
  BY RunsChange
<1>2. SUFFICES ASSUME NEW q \in Indexers, NEW s \in CardThreads, v8'[q].at # "refresh",
                      s \in v8'[q].todo, v5'[s].session = {q}
               PROVE  Cards!Grounded(q, s)'
  BY DEF Cards!RunsInv
<1>3. CASE q = p
  BY <1>1, <1>2, <1>3
<1>4. CASE q # p
  <2>1. {q} # {p}
    BY <1>4
  <2>2. /\ v8'[q] = v8[q] /\ v1'[s] = v1[s] /\ v5[s].session = {q}
        /\ v5'[s].card \in { v5[s].card, {p} }
        /\ v5[s].leaves # {} => v5'[s].leaves # {}
    BY <1>1, <1>2, <1>4, <2>1
  <2>3. Cards!Grounded(q, s)
    BY <1>2, <2>2 DEF Cards!RunsInv
  <2> QED BY <2>1, <2>2, <2>3 DEF Cards!Grounded, Cards!LeavesOf
<1> QED BY <1>3, <1>4

\* A run writes the session of a thread.
LEMMA WritesKept ==
  ASSUME Cards!CardInv, NEW p \in Indexers, NEW t \in CardThreads,
         \/ Cards!UpsertAgain(p, t)
         \/ \E signals \in SUBSET Signals, coverage \in Cards!Coverages :
              Cards!Upsert(p, t, signals, coverage) \/ Cards!Append(p, t, signals, coverage)
  PROVE  Cards!CardInv'
<1> DEFINE r == [v8[p] EXCEPT !.at = "upsert", !.todo = v8[p].todo \cup {t},
                              !.left = v8[p].left \cup {t}]
<1>1. Cards!TypeInv /\ Cards!RunsInv /\ Cards!Shaped(v8[p])
  BY DEF Cards!CardInv, Cards!TypeInv
<1>2. /\ Cards!Writes(p, t)
      /\ \/ Cards!Cleared(t)
         \/ UNCHANGED << v2, v4 >>
      /\ UNCHANGED << v3, v6, v7, v9 >>
  BY DEF Cards!Upsert, Cards!Append, Cards!UpsertAgain
<1>3. /\ v2' \in [CardThreads -> [text : Nat, coverage : Cards!Coverages]]
      /\ v4' = [s \in CardThreads |-> v4'[s]]
      /\ \A s \in CardThreads \ {t} : v2'[s] = v2[s] /\ v4'[s] = v4[s]
  BY <1>1, <1>2 DEF Cards!Cleared, Cards!TypeInv, Cards!NoLeaves, Cards!Coverages
<1>4. /\ v1' \in [CardThreads ->
           [text : Nat, signals : SUBSET Signals, coverage : Cards!Coverages, since : Nat]]
      /\ v1'[t].since = v3[t] /\ \A s \in CardThreads \ {t} : v1'[s] = v1[s]
  <2>1. /\ v1 \in [CardThreads ->
             [text : Nat, signals : SUBSET Signals, coverage : Cards!Coverages, since : Nat]]
        /\ v3[t] \in Nat
    BY <1>1 DEF Cards!TypeInv
  <2>2. CASE Cards!UpsertAgain(p, t)
    <3>1. v1' = [v1 EXCEPT ![t].since = v3[t]]
      BY <2>2 DEF Cards!UpsertAgain
    <3> QED BY <2>1, <3>1
  <2>3. CASE \E signals \in SUBSET Signals, coverage \in Cards!Coverages : Cards!NewText(t, signals, coverage)
    <3>1. PICK signals \in SUBSET Signals, coverage \in Cards!Coverages :
            v1' = [v1 EXCEPT ![t] = [text |-> v1[t].text + 1, signals |-> signals,
                                     coverage |-> coverage, since |-> v3[t]]]
      BY <2>3 DEF Cards!NewText
    <3> QED BY <2>1, <3>1
  <2> QED BY <2>2, <2>3 DEF Cards!Upsert, Cards!Append
<1>5. /\ v5' = [v5 EXCEPT ![t] = Cards!WrittenBy({p})]
      /\ v5' \in [CardThreads -> Cards!Writers]
      /\ v5'[t] = Cards!WrittenBy({p}) /\ \A s \in CardThreads \ {t} : v5'[s] = v5[s]
  <2>1. v5 \in [CardThreads -> Cards!Writers] /\ Cards!WrittenBy({p}) \in Cards!Writers
    BY <1>1 DEF Cards!TypeInv, Cards!WrittenBy, Cards!Writers
  <2>2. v5' = [v5 EXCEPT ![t] = Cards!WrittenBy({p})]
    BY <1>2 DEF Cards!Writes, Cards!Written
  <2> QED BY <2>1, <2>2
<1>6. /\ v8[p].at \in { "idle", "upsert" } /\ v8' = [v8 EXCEPT ![p] = r]
  BY <1>2 DEF Cards!Writes
<1>7. /\ r.at = "upsert" /\ r.todo = v8[p].todo \cup {t} /\ Cards!Shaped(r)
  BY <1>1, <1>6 DEF Cards!Shaped
<1> HIDE DEF r
<1>8. Cards!TypeInv'
  BY <1>1, <1>2, <1>3, <1>4, <1>5, <1>6, <1>7, RunsChange DEF Cards!TypeInv
<1>9. v8'[p] = r /\ (v8[p].at = "idle" => v8[p].todo = {})
  BY <1>1, <1>6, RunsChange DEF Cards!Shaped
<1>10. ASSUME NEW s \in CardThreads, s \in r.todo, v5'[s].session = {p}
       PROVE  Cards!Grounded(p, s)'
  <2>1. v5'[s].card # {p}
    <3>1. CASE s = t
      BY <1>5, <3>1 DEF Cards!WrittenBy
    <3>2. CASE s # t
      <4>1. s \in v8[p].todo /\ v8[p].at = "upsert" /\ v5[s] = v5'[s]
        BY <1>5, <1>6, <1>7, <1>9, <1>10, <3>2
      <4>2. Cards!Grounded(p, s)
        BY <1>1, <1>10, <4>1 DEF Cards!RunsInv
      <4> QED BY <4>1, <4>2 DEF Cards!Grounded
    <3> QED BY <3>1, <3>2
  <2> QED BY <1>7, <1>9, <2>1 DEF Cards!Grounded
<1>11. Cards!RunsInv'
  <2>1. v5'[t].session = {p}
    BY <1>5 DEF Cards!WrittenBy
  <2>2. \A s \in CardThreads :
          \/ v5'[s].session = {p}
          \/ v1'[s] = v1[s] /\ v5'[s] = v5[s]
    BY <1>4, <1>5, <2>1
  <2> QED BY <1>1, <1>6, <1>10, <2>2, RunMoves
<1>12. ASSUME NEW s \in CardThreads
       PROVE  Cards!Held(s)'
  <2>1. v3'[s] = v3[s] /\ v3[s] \in Nat
    BY <1>1, <1>2 DEF Cards!TypeInv
  <2>2. CASE s = t
    <3>1. v1'[t].since <= v3'[t]
      BY <1>4, <2>1, <2>2
    <3> QED BY <1>5, <2>2, <3>1 DEF Cards!Held, Cards!Remade, Cards!WrittenBy
  <2>3. CASE s # t
    <3>1. v1'[s] = v1[s] /\ v2'[s] = v2[s] /\ v4'[s] = v4[s] /\ v5'[s] = v5[s]
      BY <1>3, <1>4, <1>5, <2>3
    <3>2. Cards!Held(s)
      BY DEF Cards!CardInv
    <3>3. Cards!Whole(s) => Cards!Whole(s)'
      BY <3>1, WholeStays
    <3> QED BY <1>1, <2>1, <3>1, <3>2, <3>3, HeldStays
  <2> QED BY <2>2, <2>3
<1> QED BY <1>2, <1>8, <1>11, <1>12 DEF Cards!CardInv

\* A run moves on without writing of a thread.
LEMMA RunGoesOn ==
  ASSUME Cards!CardInv, NEW p \in Indexers, NEW r, Cards!Shaped(r),
         v8' = [v8 EXCEPT ![p] = r], UNCHANGED << v1, v2, v3, v4, v5, v6, v7, v9 >>,
         \A s \in CardThreads :
           r.at # "refresh" /\ s \in r.todo /\ v5[s].session = {p} => Cards!Grounded(p, s)'
  PROVE  Cards!CardInv'
<1>1. Cards!TypeInv /\ Cards!RunsInv
  BY DEF Cards!CardInv
<1>2. Cards!TypeInv'
  BY <1>1, RunsChange DEF Cards!TypeInv
<1>3. Cards!RunsInv'
  BY <1>1, RunMoves
<1>4. ASSUME NEW s \in CardThreads
      PROVE  Cards!Held(s)'
  <2>1. Cards!Held(s) /\ v3[s] \in Nat
    BY <1>1 DEF Cards!CardInv, Cards!TypeInv
  <2>2. Cards!Whole(s) => Cards!Whole(s)'
    BY WholeStays
  <2> QED BY <1>1, <2>1, <2>2, HeldStays
<1> QED BY <1>2, <1>3, <1>4 DEF Cards!CardInv

\* A run reads the ranges of a thread.
LEMMA ReadRangesKept ==
  ASSUME Cards!CardInv, NEW p \in Indexers, NEW t \in CardThreads, Cards!ReadRanges(p, t)
  PROVE  Cards!CardInv'
<1> DEFINE seen == Cards!LeavesOf(t)
           r == [v8[p] EXCEPT !.at = "ranges", !.on = {t}, !.seen = seen]
<1>1. Cards!TypeInv /\ Cards!RunsInv /\ Cards!Shaped(v8[p])
  BY DEF Cards!CardInv, Cards!TypeInv
<1>2. /\ v8[p].at \in { "upsert", "leaves" } /\ t \in v8[p].left
      /\ v8' = [v8 EXCEPT ![p] = r] /\ UNCHANGED << v1, v2, v3, v4, v5, v6, v7, v9 >>
  BY DEF Cards!ReadRanges
<1>3. seen \in [text : Nat, coverage : Cards!Coverages]
  BY <1>1 DEF Cards!LeavesOf, Cards!TypeInv
<1>4. seen' = seen
  BY <1>2 DEF Cards!LeavesOf
<1> HIDE DEF seen
<1>5. /\ r.at = "ranges" /\ r.todo = v8[p].todo /\ r.on = {t} /\ r.seen = seen /\ Cards!Shaped(r)
  BY <1>1, <1>2, <1>3 DEF Cards!Shaped
<1> HIDE DEF r
<1>6. v8'[p] = r
  BY <1>1, <1>2, RunsChange
<1>7. ASSUME NEW s \in CardThreads, s \in r.todo, v5[s].session = {p}
      PROVE  Cards!Grounded(p, s)'
  <2>1. Cards!Grounded(p, s)
    BY <1>1, <1>2, <1>5, <1>7 DEF Cards!RunsInv
  <2>2. v5'[s].card # {p}
    BY <1>2, <2>1 DEF Cards!Grounded
  <2>3. s = t => seen = Cards!LeavesOf(s)'
    BY <1>4 DEF seen
  <2> QED BY <1>5, <1>6, <2>2, <2>3 DEF Cards!Grounded
<1> QED BY <1>2, <1>5, <1>7, RunGoesOn

\* A run makes the leaves of a thread: those of the ranges it read.
LEMMA LeavesKept ==
  ASSUME Cards!CardInv, NEW p \in Indexers, NEW t \in CardThreads, Cards!MakeLeaves(p, t)
  PROVE  Cards!CardInv'
<1> DEFINE r == [v8[p] EXCEPT !.at = "leafMark"]
<1>1. Cards!TypeInv /\ Cards!RunsInv /\ Cards!Shaped(v8[p])
  BY DEF Cards!CardInv, Cards!TypeInv
<1>2. /\ v8[p].at = "ranges" /\ t \in v8[p].on
      /\ v2' = [v2 EXCEPT ![t] = v8[p].seen] /\ v5' = [v5 EXCEPT ![t].leaves = {p}]
      /\ UNCHANGED << v1, v3, v4, v6, v7, v9 >>
  BY DEF Cards!MakeLeaves
<1>3. v8' = [v8 EXCEPT ![p] = r]
  BY DEF Cards!MakeLeaves, Cards!Goes
<1>4. /\ r.at = "leafMark" /\ r.todo = v8[p].todo /\ r.on = v8[p].on /\ Cards!Shaped(r)
  BY <1>1, <1>2 DEF Cards!Shaped
<1> HIDE DEF r
<1>5. /\ v5' \in [CardThreads -> Cards!Writers] /\ \A s \in CardThreads \ {t} : v5'[s] = v5[s]
      /\ v5'[t] = [v5[t] EXCEPT !.leaves = {p}]
      /\ v5'[t].session = v5[t].session /\ v5'[t].leaves = {p} /\ v5'[t].card = v5[t].card
      /\ v5'[t].leafMark = v5[t].leafMark /\ v5'[t].cardMark = v5[t].cardMark
  <2>1. v5 \in [CardThreads -> Cards!Writers] /\ v5[t] \in Cards!Writers
    BY <1>1 DEF Cards!TypeInv
  <2>2. v5'[t] = [v5[t] EXCEPT !.leaves = {p}] /\ \A s \in CardThreads \ {t} : v5'[s] = v5[s]
    BY <1>2, <2>1
  <2>3. v5'[t] \in Cards!Writers
    BY <2>1, <2>2 DEF Cards!Writers
  <2> QED BY <1>2, <2>1, <2>2, <2>3 DEF Cards!Writers
<1>6. /\ v2' \in [CardThreads -> [text : Nat, coverage : Cards!Coverages]]
      /\ v2'[t] = v8[p].seen /\ \A s \in CardThreads \ {t} : v2'[s] = v2[s]
  BY <1>1, <1>2 DEF Cards!TypeInv, Cards!Shaped
<1>7. Cards!TypeInv'
  BY <1>1, <1>2, <1>3, <1>4, <1>5, <1>6, RunsChange DEF Cards!TypeInv
<1>8. v8'[p] = r
  BY <1>1, <1>3, RunsChange
<1>9. ASSUME NEW s \in CardThreads, s \in r.todo, v5'[s].session = {p}
      PROVE  Cards!Grounded(p, s)'
  <2>1. v5[s].session = {p} /\ v5'[s].card = v5[s].card /\ (s = t => v5'[s].leaves # {})
    BY <1>5, <1>9
  <2>2. Cards!Grounded(p, s)
    BY <1>1, <1>2, <1>4, <1>9, <2>1 DEF Cards!RunsInv
  <2>3. v5[s].card # {p} /\ (s \in r.on => s = t)
    BY <1>1, <1>2, <1>4, <2>2 DEF Cards!Grounded, Cards!Shaped
  <2> QED BY <1>4, <1>8, <2>1, <2>3 DEF Cards!Grounded
<1>10. Cards!RunsInv'
  <2>1. \A s \in CardThreads :
          /\ v1'[s] = v1[s] /\ v5'[s].session = v5[s].session /\ v5'[s].card = v5[s].card
          /\ v5[s].leaves # {} => v5'[s].leaves # {}
    BY <1>2, <1>5
  <2> QED BY <1>1, <1>3, <1>9, <2>1, RunMoves
<1>11. ASSUME NEW s \in CardThreads
       PROVE  Cards!Held(s)'
  <2>1. Cards!Held(s) /\ v3'[s] = v3[s] /\ v3[s] \in Nat /\ v1'[s] = v1[s] /\ v4'[s] = v4[s]
    BY <1>1, <1>2 DEF Cards!CardInv, Cards!TypeInv
  <2>2. CASE s # t
    <3>1. v2'[s] = v2[s] /\ v5'[s] = v5[s]
      BY <1>5, <1>6, <2>2
    <3>2. Cards!Whole(s) => Cards!Whole(s)'
      BY <2>1, <3>1, WholeStays
    <3> QED BY <1>1, <2>1, <3>1, <3>2, HeldStays
  <2>3. CASE s = t
    <3>1. v5[t].session = {p} => Cards!Grounded(p, t)
      BY <1>1, <1>2 DEF Cards!RunsInv, Cards!Shaped
    <3>2. v5[t].session = {p} => v2'[t] = Cards!LeavesOf(t)' /\ v5[t].card # {p}
      <4>1. Cards!LeavesOf(t)' = Cards!LeavesOf(t)
        BY <1>2 DEF Cards!LeavesOf
      <4> QED BY <1>2, <1>6, <3>1, <4>1 DEF Cards!Grounded
    <3>3. v5'[t].leaves = v5'[t].session => v5[t].session = {p}
      BY <1>5
    <3>4. ~Cards!Remade(t)'
      BY <1>5, <3>2, <3>3 DEF Cards!Remade
    <3> QED BY <1>5, <2>1, <2>3, <3>2, <3>3, <3>4 DEF Cards!Held
  <2> QED BY <2>2, <2>3
<1> QED BY <1>2, <1>7, <1>10, <1>11 DEF Cards!CardInv

\* A run is done with the leaves of a thread, and has marked them or not.
LEMMA LeavesDoneKept ==
  ASSUME Cards!CardInv, NEW p \in Indexers, NEW t \in CardThreads,
         Cards!MarkLeaves(p, t) \/ Cards!LeavesFail(p, t)
  PROVE  Cards!CardInv'
<1> DEFINE r == [v8[p] EXCEPT !.at = "leaves", !.left = v8[p].left \ {t}, !.on = {},
                              !.seen = Cards!NoLeaves]
<1>1. Cards!TypeInv /\ Cards!RunsInv /\ Cards!Shaped(v8[p])
  BY DEF Cards!CardInv, Cards!TypeInv
<1>2. /\ v8[p].at \in { "ranges", "leafMark" } /\ t \in v8[p].on
      /\ v8' = [v8 EXCEPT ![p] = r] /\ UNCHANGED << v1, v2, v3, v4, v6, v7, v9 >>
      /\ \/ v5' = v5
         \/ v8[p].at = "leafMark" /\ v5' = [v5 EXCEPT ![t].leafMark = {p}]
  BY DEF Cards!MarkLeaves, Cards!LeavesFail, Cards!LeavesDone
<1>3. Cards!NoLeaves \in [text : Nat, coverage : Cards!Coverages]
  BY DEF Cards!NoLeaves, Cards!Coverages
<1>4. /\ r.at = "leaves" /\ r.todo = v8[p].todo /\ Cards!Shaped(r)
  BY <1>1, <1>2, <1>3 DEF Cards!Shaped
<1> HIDE DEF r
<1>5. v8'[p] = r
  BY <1>1, <1>2, RunsChange
<1>6. ASSUME NEW s \in CardThreads, s \in r.todo, v5[s].session = {p}, v5'[s].card = v5[s].card
      PROVE  Cards!Grounded(p, s)'
  <2>1. Cards!Grounded(p, s)
    BY <1>1, <1>2, <1>4, <1>6 DEF Cards!RunsInv
  <2>2. v5[s].card # {p}
    BY <1>2, <2>1 DEF Cards!Grounded
  <2> QED BY <1>4, <1>5, <1>6, <2>2 DEF Cards!Grounded
<1>7. CASE v5' = v5
  BY <1>2, <1>4, <1>6, <1>7, RunGoesOn
<1>8. CASE v8[p].at = "leafMark" /\ v5' = [v5 EXCEPT ![t].leafMark = {p}]
  <2>1. /\ v5' \in [CardThreads -> Cards!Writers] /\ \A s \in CardThreads \ {t} : v5'[s] = v5[s]
        /\ v5'[t].session = v5[t].session /\ v5'[t].leaves = v5[t].leaves
        /\ v5'[t].card = v5[t].card
        /\ v5'[t].leafMark = {p} /\ v5'[t].cardMark = v5[t].cardMark
    <3>1. v5 \in [CardThreads -> Cards!Writers] /\ v5[t] \in Cards!Writers
      BY <1>1 DEF Cards!TypeInv
    <3>2. v5'[t] = [v5[t] EXCEPT !.leafMark = {p}] /\ \A s \in CardThreads \ {t} : v5'[s] = v5[s]
      BY <1>8, <3>1
    <3>3. v5'[t] \in Cards!Writers
      BY <3>1, <3>2 DEF Cards!Writers
    <3> QED BY <1>8, <3>1, <3>2, <3>3 DEF Cards!Writers
  <2>2. Cards!TypeInv'
    BY <1>1, <1>2, <1>4, <2>1, RunsChange DEF Cards!TypeInv
  <2>3. \A s \in CardThreads :
          /\ v1'[s] = v1[s] /\ v5'[s].session = v5[s].session /\ v5'[s].card = v5[s].card
          /\ v5'[s].leaves = v5[s].leaves
    BY <1>2, <2>1
  <2>4. Cards!RunsInv'
    BY <1>1, <1>2, <1>6, <2>3, RunMoves
  <2>5. ASSUME NEW s \in CardThreads
        PROVE  Cards!Held(s)'
    <3>1. /\ Cards!Held(s) /\ v3'[s] = v3[s] /\ v3[s] \in Nat
          /\ v1'[s] = v1[s] /\ v2'[s] = v2[s] /\ v4'[s] = v4[s]
      BY <1>1, <1>2 DEF Cards!CardInv, Cards!TypeInv
    <3>2. Cards!Whole(s) => Cards!Whole(s)'
      BY <3>1, WholeStays
    <3>3. CASE s # t
      BY <1>1, <2>1, <3>1, <3>2, <3>3, HeldStays
    <3>4. CASE s = t
      <4>1. v5[t].session = {p} => v5[t].leaves # {}
        BY <1>1, <1>2, <1>8 DEF Cards!RunsInv, Cards!Grounded, Cards!Shaped
      <4>2. Cards!Remade(t)' <=> Cards!Remade(t)
        BY <2>1 DEF Cards!Remade
      <4>3. Cards!LeavesOf(t)' = Cards!LeavesOf(t)
        BY <1>2 DEF Cards!LeavesOf
      <4> QED BY <2>1, <3>1, <3>2, <3>4, <4>1, <4>2, <4>3 DEF Cards!Held
    <3> QED BY <3>3, <3>4
  <2> QED BY <1>2, <2>2, <2>4, <2>5 DEF Cards!CardInv
<1> QED BY <1>2, <1>7, <1>8

\* A run looks up the plans and the attention of its threads.
LEMMA LookupKept ==
  ASSUME Cards!CardInv, NEW p \in Indexers, Cards!BuildLookup(p)
  PROVE  Cards!CardInv'
<1> DEFINE cache == [t \in v8[p].todo |-> Cards!Lookup(t)]
           r == [v8[p] EXCEPT !.at = "cards", !.cache = cache]
<1>1. Cards!TypeInv /\ Cards!RunsInv /\ Cards!Shaped(v8[p])
  BY DEF Cards!CardInv, Cards!TypeInv
<1>2. /\ v8[p].at = "leaves" /\ v8[p].left = {}
      /\ UNCHANGED << v1, v2, v3, v4, v5, v6, v7, v9 >>
      /\ v8' = [v8 EXCEPT ![p] = r]
  BY DEF Cards!BuildLookup
<1>3. \A s \in v8[p].todo : cache[s].plan = v1[s].text /\ cache[s].attention = v3[s]
  BY DEF Cards!Lookup
<1> HIDE DEF cache
<1>4. /\ r.at = "cards" /\ r.todo = v8[p].todo /\ r.cache = cache /\ Cards!Shaped(r)
  BY <1>1, <1>2 DEF Cards!Shaped
<1> HIDE DEF r
<1>5. v8'[p] = r
  BY <1>1, <1>2, RunsChange
<1>6. ASSUME NEW s \in CardThreads, s \in r.todo
      PROVE  Cards!Grounded(p, s)'
  <2>1. v3[s] \in Nat /\ v1[s].since <= v3[s] /\ v1[s].since \in Nat
    BY <1>1 DEF Cards!CardInv, Cards!Held, Cards!TypeInv
  <2>2. /\ r.cache[s].plan = v1'[s].text
        /\ r.cache[s].attention \in Nat /\ r.cache[s].attention >= v1'[s].since
    BY <1>2, <1>3, <1>4, <1>6, <2>1
  <2> QED BY <1>4, <1>5, <2>2 DEF Cards!Grounded
<1> QED BY <1>2, <1>4, <1>6, RunGoesOn

\* A run makes a card; of a thread it read last, from lookups of its text.
LEMMA MakeCardKept ==
  ASSUME Cards!CardInv, NEW p \in Indexers, NEW t \in CardThreads, Cards!MakeCard(p, t)
  PROVE  Cards!CardInv'
<1> DEFINE r == [v8[p] EXCEPT !.at = "cardMark", !.on = {t}]
<1>1. Cards!TypeInv /\ Cards!RunsInv /\ Cards!Shaped(v8[p])
  BY DEF Cards!CardInv, Cards!TypeInv
<1>2. /\ v8[p].at = "cards" /\ t \in v8[p].todo /\ UNCHANGED << v1, v2, v3, v6, v7, v9 >>
      /\ v4' = [v4 EXCEPT ![t] = Cards!Draft(t, v8[p].cache[t])]
      /\ v5' = [v5 EXCEPT ![t].card = {p}]
      /\ v8' = [v8 EXCEPT ![p] = r]
  BY DEF Cards!MakeCard
<1>3. /\ r.at = "cardMark" /\ r.todo = v8[p].todo /\ r.on = {t}
      /\ r.cache = v8[p].cache /\ Cards!Shaped(r)
  BY <1>1, <1>2 DEF Cards!Shaped
<1> HIDE DEF r
<1>4. /\ v4'[t] = Cards!Draft(t, v8[p].cache[t]) /\ \A s \in CardThreads \ {t} : v4'[s] = v4[s]
      /\ v4' = [s \in CardThreads |-> v4'[s]]
  BY <1>1, <1>2 DEF Cards!TypeInv
<1>5. /\ v5' \in [CardThreads -> Cards!Writers] /\ \A s \in CardThreads \ {t} : v5'[s] = v5[s]
      /\ v5'[t].session = v5[t].session /\ v5'[t].leaves = v5[t].leaves /\ v5'[t].card = {p}
      /\ v5'[t].leafMark = v5[t].leafMark /\ v5'[t].cardMark = v5[t].cardMark
  <2>1. v5 \in [CardThreads -> Cards!Writers] /\ v5[t] \in Cards!Writers
    BY <1>1 DEF Cards!TypeInv
  <2>2. v5'[t] = [v5[t] EXCEPT !.card = {p}] /\ \A s \in CardThreads \ {t} : v5'[s] = v5[s]
    BY <1>2, <2>1
  <2>3. v5'[t] \in Cards!Writers
    BY <2>1, <2>2 DEF Cards!Writers
  <2> QED BY <1>2, <2>1, <2>2, <2>3 DEF Cards!Writers
<1>6. Cards!TypeInv'
  BY <1>1, <1>2, <1>3, <1>4, <1>5, RunsChange DEF Cards!TypeInv
<1>7. v8'[p] = r
  BY <1>1, <1>2, RunsChange
<1>8. ASSUME NEW s \in CardThreads, s \in v8[p].todo, v5[s].session = {p}
      PROVE  /\ v8[p].cache[s].plan = v1[s].text
             /\ v8[p].cache[s].attention \in Nat /\ v8[p].cache[s].attention >= v1[s].since
  BY <1>1, <1>2, <1>8 DEF Cards!RunsInv, Cards!Grounded
<1>9. ASSUME NEW s \in CardThreads, s \in r.todo, v5'[s].session = {p}
      PROVE  Cards!Grounded(p, s)'
  <2>1. v5[s].session = {p} /\ (s = t => v5'[s].card # {})
    BY <1>5, <1>9
  <2>2. /\ r.cache[s].plan = v1'[s].text
        /\ r.cache[s].attention \in Nat /\ r.cache[s].attention >= v1'[s].since
    BY <1>2, <1>3, <1>8, <1>9, <2>1
  <2> QED BY <1>3, <1>7, <2>1, <2>2 DEF Cards!Grounded
<1>10. Cards!RunsInv'
  <2>1. \A s \in CardThreads :
          /\ v1'[s] = v1[s] /\ v5'[s].session = v5[s].session
          /\ v5'[s].card \in { v5[s].card, {p} } /\ v5'[s].leaves = v5[s].leaves
    BY <1>2, <1>5
  <2> QED BY <1>1, <1>2, <1>9, <2>1, RunMoves
<1>11. ASSUME NEW s \in CardThreads
       PROVE  Cards!Held(s)'
  <2>1. /\ Cards!Held(s) /\ v3'[s] = v3[s] /\ v3[s] \in Nat
        /\ v1'[s] = v1[s] /\ v2'[s] = v2[s]
    BY <1>1, <1>2 DEF Cards!CardInv, Cards!TypeInv
  <2>2. CASE s # t
    <3>1. v4'[s] = v4[s] /\ v5'[s] = v5[s]
      BY <1>4, <1>5, <2>2
    <3>2. Cards!Whole(s) => Cards!Whole(s)'
      BY <2>1, <3>1, WholeStays
    <3> QED BY <1>1, <2>1, <3>1, <3>2, HeldStays
  <2>3. CASE s = t
    <3>1. ASSUME Cards!Remade(t)'
          PROVE  Cards!Whole(t)'
      <4>1. v5[t].session = {p} /\ v5[t].leaves = v5[t].session
        BY <1>5, <3>1 DEF Cards!Remade
      <4>2. v2[t] = Cards!LeavesOf(t)
        BY <2>1, <2>3, <4>1 DEF Cards!Held
      <4>3. v2[t].text = v1[t].text
        BY <4>2 DEF Cards!LeavesOf
      <4> QED BY <1>1, <1>2, <1>4, <1>8, <4>1, <4>3, DraftsAreWhole
    <3>2. Cards!LeavesOf(t)' = Cards!LeavesOf(t)
      BY <1>2 DEF Cards!LeavesOf
    <3> QED BY <1>5, <2>1, <2>3, <3>1, <3>2 DEF Cards!Held
  <2> QED BY <2>2, <2>3
<1> QED BY <1>2, <1>6, <1>10, <1>11 DEF Cards!CardInv

\* A run is done with the card of a thread, and has marked it or not.
LEMMA CardDoneKept ==
  ASSUME Cards!CardInv, NEW p \in Indexers, NEW t \in CardThreads,
         Cards!MarkCard(p, t) \/ Cards!CardFails(p, t)
  PROVE  Cards!CardInv'
<1> DEFINE rest == v8[p].todo \ {t}
           r == IF rest = {} THEN Cards!Idle
                ELSE [v8[p] EXCEPT !.at = "cards", !.todo = rest, !.on = {}]
<1>1. Cards!TypeInv /\ Cards!RunsInv /\ Cards!Shaped(v8[p])
  BY DEF Cards!CardInv, Cards!TypeInv
<1>2. /\ v8[p].at \in { "cards", "cardMark" } /\ UNCHANGED << v1, v2, v3, v4, v6, v7, v9 >>
      /\ v8' = [v8 EXCEPT ![p] = r]
      /\ \/ v5' = v5
         \/ /\ v8[p].at = "cardMark" /\ t \in v8[p].on
            /\ v5' = [v5 EXCEPT ![t].cardMark = {p}]
  BY DEF Cards!MarkCard, Cards!CardFails, Cards!CardDone
<1>3. /\ r.at = "cards" => r.cache = v8[p].cache
      /\ r.at \in { "idle", "cards" } /\ r.todo \subseteq v8[p].todo
      /\ r.at = "idle" => r.todo = {}
      /\ Cards!Shaped(r)
  <2>1. CASE rest = {}
    BY <2>1 DEF Cards!Shaped, Cards!Idle, Cards!NoLeaves, Cards!Coverages
  <2>2. CASE rest # {}
    <3>1. r = [v8[p] EXCEPT !.at = "cards", !.todo = rest, !.on = {}]
      BY <2>2
    <3>2. v8[p].left = {} /\ rest \subseteq v8[p].todo
      BY <1>1, <1>2 DEF Cards!Shaped
    <3> QED BY <1>1, <3>1, <3>2 DEF Cards!Shaped
  <2> QED BY <2>1, <2>2
<1> HIDE DEF r
<1>4. v8'[p] = r
  BY <1>1, <1>2, RunsChange
<1>5. ASSUME NEW s \in CardThreads, s \in r.todo, v5[s].session = {p}
      PROVE  Cards!Grounded(p, s)'
  <2>1. Cards!Grounded(p, s) /\ r.at = "cards"
    BY <1>1, <1>2, <1>3, <1>5 DEF Cards!RunsInv
  <2>2. /\ r.cache[s].plan = v1'[s].text
        /\ r.cache[s].attention \in Nat /\ r.cache[s].attention >= v1'[s].since
    BY <1>2, <1>3, <2>1 DEF Cards!Grounded
  <2> QED BY <1>4, <2>1, <2>2 DEF Cards!Grounded
<1>6. CASE v5' = v5
  BY <1>2, <1>3, <1>5, <1>6, RunGoesOn
<1>7. CASE /\ v8[p].at = "cardMark" /\ t \in v8[p].on
           /\ v5' = [v5 EXCEPT ![t].cardMark = {p}]
  <2>1. /\ v5' \in [CardThreads -> Cards!Writers] /\ \A s \in CardThreads \ {t} : v5'[s] = v5[s]
        /\ v5'[t].session = v5[t].session /\ v5'[t].leaves = v5[t].leaves
        /\ v5'[t].card = v5[t].card
        /\ v5'[t].leafMark = v5[t].leafMark /\ v5'[t].cardMark = {p}
    <3>1. v5 \in [CardThreads -> Cards!Writers] /\ v5[t] \in Cards!Writers
      BY <1>1 DEF Cards!TypeInv
    <3>2. v5'[t] = [v5[t] EXCEPT !.cardMark = {p}] /\ \A s \in CardThreads \ {t} : v5'[s] = v5[s]
      BY <1>7, <3>1
    <3>3. v5'[t] \in Cards!Writers
      BY <3>1, <3>2 DEF Cards!Writers
    <3> QED BY <1>7, <3>1, <3>2, <3>3 DEF Cards!Writers
  <2>2. Cards!TypeInv'
    BY <1>1, <1>2, <1>3, <2>1, RunsChange DEF Cards!TypeInv
  <2>3. \A s \in CardThreads :
          /\ v1'[s] = v1[s] /\ v5'[s].session = v5[s].session /\ v5'[s].card = v5[s].card
          /\ v5'[s].leaves = v5[s].leaves
    BY <1>2, <2>1
  <2>4. Cards!RunsInv'
    BY <1>1, <1>2, <1>5, <2>3, RunMoves
  <2>5. ASSUME NEW s \in CardThreads
        PROVE  Cards!Held(s)'
    <3>1. /\ Cards!Held(s) /\ v3'[s] = v3[s] /\ v3[s] \in Nat
          /\ v1'[s] = v1[s] /\ v2'[s] = v2[s] /\ v4'[s] = v4[s]
      BY <1>1, <1>2 DEF Cards!CardInv, Cards!TypeInv
    <3>2. Cards!Whole(s) => Cards!Whole(s)'
      BY <3>1, WholeStays
    <3>3. CASE s # t
      BY <1>1, <2>1, <3>1, <3>2, <3>3, HeldStays
    <3>4. CASE s = t
      <4>1. v5[t].session = {p} => v5[t].card # {}
        BY <1>1, <1>7 DEF Cards!RunsInv, Cards!Grounded, Cards!Shaped
      <4>2. Cards!Remade(t)' <=> Cards!Remade(t)
        BY <2>1 DEF Cards!Remade
      <4>3. Cards!LeavesOf(t)' = Cards!LeavesOf(t)
        BY <1>2 DEF Cards!LeavesOf
      <4> QED BY <2>1, <3>1, <3>2, <3>4, <4>1, <4>2, <4>3 DEF Cards!Held
    <3> QED BY <3>3, <3>4
  <2> QED BY <1>2, <2>2, <2>4, <2>5 DEF Cards!CardInv
<1> QED BY <1>2, <1>6, <1>7

\* A run dies, or lists the threads that a refresh is to make.
LEMMA RestKept ==
  ASSUME Cards!CardInv, NEW p \in Indexers, Cards!Dies(p) \/ Cards!ListThreads(p)
  PROVE  Cards!CardInv'
<1>1. UNCHANGED << v1, v2, v3, v4, v5, v6, v7, v9 >>
  BY DEF Cards!Dies, Cards!ListThreads
<1>2. Cards!Shaped(Cards!Idle) /\ Cards!Idle.at = "idle" /\ Cards!Idle.todo = {}
  BY DEF Cards!Idle, Cards!Shaped, Cards!NoLeaves, Cards!Coverages
<1>3. CASE Cards!Dies(p)
  <2>1. v8' = [v8 EXCEPT ![p] = Cards!Idle]
    BY <1>3 DEF Cards!Dies
  <2> QED BY <1>1, <1>2, <2>1, RunGoesOn
<1>4. CASE Cards!ListThreads(p)
  <2> DEFINE all == { t \in CardThreads : v2[t].coverage # "none" \/ v4[t] # NoCard }
             r == [Cards!Idle EXCEPT !.at = "refresh", !.todo = all]
  <2>1. v8' = [v8 EXCEPT ![p] = r] /\ all \subseteq CardThreads
    BY <1>4 DEF Cards!ListThreads
  <2> HIDE DEF all
  <2>2. Cards!Shaped(r) /\ r.at = "refresh"
    BY <2>1 DEF Cards!Idle, Cards!Shaped, Cards!NoLeaves, Cards!Coverages
  <2> HIDE DEF r
  <2> QED BY <1>1, <2>1, <2>2, RunGoesOn
<1> QED BY <1>3, <1>4

\* The refresh of everything: its cards are of what there is.
LEMMA RefreshKept ==
  ASSUME Cards!CardInv, NEW p \in Indexers, Cards!Refresh(p)
  PROVE  Cards!CardInv'
<1>1. Cards!TypeInv /\ Cards!RunsInv
  BY DEF Cards!CardInv
<1>2. /\ UNCHANGED << v1, v2, v3, v5, v6 >>
      /\ v4' = [t \in CardThreads |->
            IF t \in v8[p].todo THEN Cards!Draft(t, Cards!Lookup(t)) ELSE v4[t]]
      /\ v7' = v6 /\ v9' = Claudes
      /\ v8' = [v8 EXCEPT ![p] = Cards!Idle]
  BY DEF Cards!Refresh
<1>3. Cards!Shaped(Cards!Idle) /\ Cards!Idle.at = "idle" /\ Cards!Idle.todo = {}
  BY DEF Cards!Idle, Cards!Shaped, Cards!NoLeaves, Cards!Coverages
<1>4. Cards!TypeInv'
  <2>1. v4' = [t \in CardThreads |-> v4'[t]]
    BY <1>2
  <2> QED BY <1>1, <1>2, <1>3, <2>1, RunsChange DEF Cards!TypeInv
<1>5. Cards!RunsInv'
  BY <1>1, <1>2, <1>3, RunMoves
<1>6. ASSUME NEW s \in CardThreads
      PROVE  Cards!Held(s)'
  <2>1. /\ Cards!Held(s) /\ v3[s] \in Nat /\ v1[s].since <= v3[s] /\ v1[s].since \in Nat
    BY <1>1 DEF Cards!CardInv, Cards!TypeInv, Cards!Held
  <2>2. ASSUME Cards!Remade(s), Cards!Whole(s)
        PROVE  Cards!Whole(s)'
    <3>1. CASE s \in v8[p].todo
      <4>1. /\ Cards!Lookup(s).plan = v1[s].text /\ Cards!Lookup(s).attention = v3[s]
        BY DEF Cards!Lookup
      <4>2. v2[s] = Cards!LeavesOf(s)
        BY <2>1, <2>2 DEF Cards!Held, Cards!Remade
      <4>3. v2[s].text = v1[s].text
        BY <4>2 DEF Cards!LeavesOf
      <4>4. v4'[s] = Cards!Draft(s, Cards!Lookup(s)) /\ v3[s] >= v1[s].since
        BY <1>2, <2>1, <3>1
      <4> QED BY <1>1, <1>2, <2>1, <4>1, <4>3, <4>4, DraftsAreWhole
    <3>2. CASE s \notin v8[p].todo
      <4>1. v4'[s] = v4[s] /\ v1'[s] = v1[s] /\ v2'[s] = v2[s]
        BY <1>2, <3>2
      <4> QED BY <2>2, <4>1, WholeStays
    <3> QED BY <3>1, <3>2
  <2> QED BY <1>1, <1>2, <2>1, <2>2, HeldStays
<1> QED BY <1>2, <1>4, <1>5, <1>6 DEF Cards!CardInv

\* What watchers and Claude's indexer change.
LEMMA OthersKept ==
  ASSUME Cards!CardInv,
         \/ \E t \in CardThreads : Cards!Watch(t)
         \/ \E c \in Claudes, text \in 0 .. 1 : Cards!IndexClaude(c, text)
         \/ UNCHANGED Cards!vars
  PROVE  Cards!CardInv'
<1>1. Cards!TypeInv /\ Cards!RunsInv
  BY DEF Cards!CardInv
<1>2. UNCHANGED << v1, v2, v4, v5, v7, v8 >>
  BY DEF Cards!Watch, Cards!IndexClaude, Cards!vars
<1>3. /\ v3' \in [CardThreads -> Nat]
      /\ \A t \in CardThreads : v3'[t] >= v3[t]
  <2>1. v3 \in [CardThreads -> Nat]
    BY <1>1 DEF Cards!TypeInv
  <2>2. CASE \E t \in CardThreads : Cards!Watch(t)
    BY <2>1, <2>2 DEF Cards!Watch
  <2>3. CASE v3' = v3
    BY <2>1, <2>3
  <2> QED BY <2>2, <2>3 DEF Cards!IndexClaude, Cards!vars
<1>4. /\ v6' \in [Claudes -> 0 .. 1] /\ v9' \subseteq v9
      /\ \A c \in Claudes \cap v9' : v6'[c] = v6[c]
  <2>1. v6 \in [Claudes -> 0 .. 1]
    BY <1>1 DEF Cards!TypeInv
  <2>2. CASE \E c \in Claudes, text \in 0 .. 1 : Cards!IndexClaude(c, text)
    BY <2>1, <2>2 DEF Cards!IndexClaude
  <2>3. CASE v9' = v9 /\ v6' = v6
    BY <2>1, <2>3
  <2> QED BY <2>2, <2>3 DEF Cards!Watch, Cards!vars
<1>5. Cards!TypeInv'
  BY <1>1, <1>2, <1>3, <1>4 DEF Cards!TypeInv, Cards!Shaped
<1>6. Cards!RunsInv'
  BY <1>1, <1>2 DEF Cards!RunsInv, Cards!Grounded, Cards!LeavesOf
<1>7. ASSUME NEW s \in CardThreads
      PROVE  Cards!Held(s)'
  <2>1. Cards!Held(s) /\ v3'[s] \in Nat /\ v3'[s] >= v3[s]
    BY <1>3 DEF Cards!CardInv
  <2>2. Cards!Whole(s) => Cards!Whole(s)'
    BY <1>2, WholeStays
  <2> QED BY <1>1, <1>2, <2>1, <2>2, HeldStays
<1> QED BY <1>2, <1>4, <1>5, <1>6, <1>7 DEF Cards!CardInv

\* Marks that no earlier run set are of leaves and of a card that there are.
LEMMA MarkedIsWhole ==
  ASSUME Cards!CardInv
  PROVE  Cards!CardsAreWhole
<1>1. ASSUME NEW t \in CardThreads, Cards!Current(t), Cards!Late(t) => Cards!Remade(t)
      PROVE  Cards!Whole(t)
  <2>1. Cards!Held(t) /\ v5[t] \in Cards!Writers
    BY DEF Cards!CardInv, Cards!TypeInv
  <2>2. CASE Cards!Remade(t)
    BY <2>1, <2>2 DEF Cards!Held
  <2>3. CASE ~Cards!Late(t)
    <3>1. /\ v5[t].leafMark \in { {}, v5[t].session } /\ v5[t].cardMark \in { {}, v5[t].session }
          /\ v5[t].leaves \in { {}, v5[t].session } /\ v5[t].card \in { {}, v5[t].session }
      BY <2>1, <2>3 DEF Cards!Late, Cards!Writers
    <3>2. Cards!Remade(t)
      BY <1>1, <2>1, <3>1 DEF Cards!Current, Cards!Held, Cards!Remade
    <3> QED BY <2>1, <3>2 DEF Cards!Held
  <2> QED BY <1>1, <2>2, <2>3
<1> QED BY <1>1 DEF Cards!CardsAreWhole, Cards!CardInv

(***************************************************************************)
(* A card that both marks vouch for is of one text throughout, knows what  *)
(* needed attention, and says no more than its evidence: for any threads,  *)
(* runs and Claude sessions, wherever a run dies or fails, and however     *)
(* runs overlap, but where a run that read the file earlier has written    *)
(* leaves, a card or a mark of it later than the run that read it last.    *)
(***************************************************************************)
THEOREM CardsStayWhole == StoreSpec => []CardsAreWhole
<1> DEFINE I == component = "cards" => Cards!CardInv
<1>1. StoreInit => I
  BY StartsOfOne, CardsInit
<1>2. ASSUME Cards!CardInv, Cards!Next \/ UNCHANGED Cards!vars
      PROVE  Cards!CardInv'
  BY <1>2, WritesKept, ReadRangesKept, LeavesKept, LeavesDoneKept, LookupKept, MakeCardKept,
     CardDoneKept, RestKept, RefreshKept, OthersKept
  DEF Cards!Next
<1>3. I /\ [StoreNext]_vars => I'
  BY <1>2, StepsOfOne
<1>4. I => CardsAreWhole
  BY MarkedIsWhole DEF CardsAreWhole
<1> QED BY <1>1, <1>3, <1>4, PTL DEF StoreSpec

-----------------------------------------------------------------------------
(* SchemaUpgrade: the schema is v1 to v4, the keys v5, the sessions v6 and  *)
(* those indexed v7, the places v8; what slipped in is v10, what came late  *)
(* v11.                                                                     *)

LEMMA UpgradeInit ==
  ASSUME Upgrade!Init
  PROVE  Upgrade!UpgradeInv
BY DEF Upgrade!Init, Upgrade!UpgradeInv, Upgrade!TypeInv, Upgrade!StepsInv, Upgrade!KeysInv,
       Upgrade!Steps, Upgrade!Past, Upgrade!At

\* What was created stays, and a process goes on or is shut.
LEMMA UpgradeSchemaKept ==
  ASSUME Upgrade!UpgradeInv, Upgrade!Next \/ UNCHANGED Upgrade!vars
  PROVE  Upgrade!TypeInv' /\ Upgrade!StepsInv'
<1> USE DEF Upgrade!UpgradeInv, Upgrade!TypeInv, Upgrade!StepsInv, Upgrade!Steps,
            Upgrade!Past, Upgrade!At, Upgrade!Goto, Upgrade!schema, Upgrade!data
<1>1. ASSUME NEW p \in Openers, NEW maintenance \in { "full", "schema-only" },
             Upgrade!Open(p, maintenance)
      PROVE  Upgrade!TypeInv' /\ Upgrade!StepsInv'
  BY <1>1 DEF Upgrade!Open
<1>2. ASSUME NEW p \in Openers, Upgrade!CreateTables(p)
      PROVE  Upgrade!TypeInv' /\ Upgrade!StepsInv'
  BY <1>2 DEF Upgrade!CreateTables
<1>3. ASSUME NEW p \in Openers, Upgrade!ReadColumns(p)
      PROVE  Upgrade!TypeInv' /\ Upgrade!StepsInv'
  BY <1>3 DEF Upgrade!ReadColumns
<1>4. ASSUME NEW p \in Openers, Upgrade!AddColumn(p)
      PROVE  Upgrade!TypeInv' /\ Upgrade!StepsInv'
  BY <1>4 DEF Upgrade!AddColumn
<1>5. ASSUME NEW p \in Openers, Upgrade!ReadLedger(p)
      PROVE  Upgrade!TypeInv' /\ Upgrade!StepsInv'
  BY <1>5 DEF Upgrade!ReadLedger
<1>6. ASSUME NEW p \in Openers, Upgrade!Backfill(p)
      PROVE  Upgrade!TypeInv' /\ Upgrade!StepsInv'
  BY <1>6 DEF Upgrade!Backfill
<1>7. ASSUME NEW p \in Openers, Upgrade!RecordKeys(p)
      PROVE  Upgrade!TypeInv' /\ Upgrade!StepsInv'
  BY <1>7 DEF Upgrade!RecordKeys
<1>8. ASSUME NEW p \in Openers, Upgrade!CreateTriggers(p)
      PROVE  Upgrade!TypeInv' /\ Upgrade!StepsInv'
  BY <1>8 DEF Upgrade!CreateTriggers
<1>9. ASSUME NEW p \in Openers, Upgrade!ProbeSearch(p)
      PROVE  Upgrade!TypeInv' /\ Upgrade!StepsInv'
  BY <1>9 DEF Upgrade!ProbeSearch, Upgrade!FullOpenEnds
<1>10. ASSUME NEW p \in Openers, Upgrade!RepairSearch(p)
       PROVE  Upgrade!TypeInv' /\ Upgrade!StepsInv'
  BY <1>10 DEF Upgrade!RepairSearch, Upgrade!FullOpenEnds
<1>11. ASSUME NEW p \in Openers, Upgrade!Abandon(p) \/ Upgrade!Vacuum(p)
       PROVE  Upgrade!TypeInv' /\ Upgrade!StepsInv'
  BY <1>11 DEF Upgrade!Abandon, Upgrade!Vacuum
<1>12. ASSUME NEW r \in Rows, Upgrade!OldRange(r)
       PROVE  Upgrade!TypeInv' /\ Upgrade!StepsInv'
  BY <1>12 DEF Upgrade!OldRange, Upgrade!Triggered
<1>13. ASSUME NEW s \in Chats, Upgrade!OldChat(s)
       PROVE  Upgrade!TypeInv' /\ Upgrade!StepsInv'
  BY <1>13 DEF Upgrade!OldChat
<1>14. ASSUME UNCHANGED Upgrade!vars
       PROVE  Upgrade!TypeInv' /\ Upgrade!StepsInv'
  BY <1>14 DEF Upgrade!vars
<1> QED
  BY <1>1, <1>2, <1>3, <1>4, <1>5, <1>6, <1>7, <1>8, <1>9, <1>10, <1>11, <1>12, <1>13, <1>14
  DEF Upgrade!Next

\* A range that the older process writes has its key from the triggers, is filled
\* in by the backfill to come, or slips in.
LEMMA UpgradeKeysKept ==
  ASSUME Upgrade!UpgradeInv, Upgrade!Next \/ UNCHANGED Upgrade!vars
  PROVE  Upgrade!KeysInv'
<1>1. Upgrade!TypeInv /\ Upgrade!StepsInv /\ Upgrade!KeysInv
  BY DEF Upgrade!UpgradeInv
<1>2. CASE \E p \in Openers : Upgrade!Backfill(p)
  <2>1. /\ v5' = [r \in Rows |-> IF v5[r] = "null" THEN "right" ELSE v5[r]]
        /\ v10' = {r \in v10 : v5[r] # "null"} /\ v3' = v3 /\ v4' = v4
    BY <1>2 DEF Upgrade!Backfill, Upgrade!schema
  <2>2. \A r \in Rows : v5'[r] # "null" /\ (v5'[r] = "wrong" => v5[r] = "wrong")
    BY <2>1
  <2>3. \A r \in Rows \ v10' : v5[r] = "wrong" => r \notin v10
    BY <2>1
  <2> QED BY <1>1, <2>1, <2>2, <2>3 DEF Upgrade!KeysInv
<1>3. CASE \E p \in Openers : Upgrade!RecordKeys(p)
  <2>1. PICK p \in Openers : Upgrade!RecordKeys(p)
    BY <1>3
  <2>2. \A q \in Openers : Upgrade!At(q, "record")' => Upgrade!At(q, "record")
    BY <1>1, <2>1 DEF Upgrade!RecordKeys, Upgrade!TypeInv, Upgrade!At, Upgrade!Goto
  <2>3. \A r \in Rows \ v10 : v5[r] # "null"
    BY <1>1, <2>1 DEF Upgrade!RecordKeys, Upgrade!KeysInv
  <2> QED BY <1>1, <2>1, <2>2, <2>3 DEF Upgrade!RecordKeys, Upgrade!KeysInv, Upgrade!data
<1>4. CASE \E r \in Rows : Upgrade!OldRange(r)
  <2>1. PICK r \in Rows : Upgrade!OldRange(r)
    BY <1>4
  <2>2. PICK written \in { "right", "null", "wrong" } :
          /\ written = IF v3 THEN "right" ELSE IF v5[r] \in { "none", "null" } THEN "null" ELSE "wrong"
          /\ v5' = [v5 EXCEPT ![r] = written]
          /\ v10' = IF ~v3 /\ ("key" \in v4 \/ written = "wrong"
                                \/ \E p \in Openers : Upgrade!At(p, "record"))
                    THEN v10 \cup {r} ELSE v10
    BY <2>1, Zenon DEF Upgrade!OldRange, Upgrade!Triggered
  <2>3. UNCHANGED << v3, v4, v8 >>
    BY <2>1 DEF Upgrade!OldRange, Upgrade!schema
  <2> QED BY <1>1, <2>2, <2>3 DEF Upgrade!TypeInv, Upgrade!KeysInv, Upgrade!At
<1>5. CASE \E p \in Openers : Upgrade!CreateTriggers(p)
  BY <1>1, <1>5
  DEF Upgrade!CreateTriggers, Upgrade!TypeInv, Upgrade!StepsInv, Upgrade!KeysInv, Upgrade!At,
      Upgrade!Goto, Upgrade!data
<1>6. ASSUME v5' = v5, v10' = v10, v3' = v3, "key" \in v4' <=> "key" \in v4,
             \A q \in Openers : Upgrade!At(q, "record")' => Upgrade!At(q, "record")
      PROVE  Upgrade!KeysInv'
  BY <1>1, <1>6 DEF Upgrade!KeysInv
<1>7. ASSUME NEW p \in Openers, NEW step \in Upgrade!Steps \ { "record" }, Upgrade!Goto(p, step)
      PROVE  \A q \in Openers : Upgrade!At(q, "record")' => Upgrade!At(q, "record")
  BY <1>1, <1>7 DEF Upgrade!TypeInv, Upgrade!At, Upgrade!Goto
<1>8. CASE \E p \in Openers : \/ Upgrade!CreateTables(p) \/ Upgrade!ReadColumns(p)
                              \/ Upgrade!AddColumn(p) \/ Upgrade!ReadLedger(p)
  <2>1. PICK p \in Openers : \/ Upgrade!CreateTables(p) \/ Upgrade!ReadColumns(p)
                             \/ Upgrade!AddColumn(p) \/ Upgrade!ReadLedger(p)
    BY <1>8
  <2>2. PICK step \in Upgrade!Steps \ { "record" } : Upgrade!Goto(p, step)
    BY <2>1
    DEF Upgrade!CreateTables, Upgrade!ReadColumns, Upgrade!AddColumn, Upgrade!ReadLedger,
        Upgrade!Steps
  <2> QED
    BY <1>6, <1>7, <2>1, <2>2
    DEF Upgrade!CreateTables, Upgrade!ReadColumns, Upgrade!AddColumn, Upgrade!ReadLedger,
        Upgrade!schema, Upgrade!data
<1>9. CASE \E p \in Openers : \/ Upgrade!ProbeSearch(p) \/ Upgrade!RepairSearch(p)
                              \/ Upgrade!Abandon(p)
                              \/ \E m \in { "full", "schema-only" } : Upgrade!Open(p, m)
  <2>1. PICK p \in Openers : \/ Upgrade!ProbeSearch(p) \/ Upgrade!RepairSearch(p)
                             \/ Upgrade!Abandon(p)
                             \/ \E m \in { "full", "schema-only" } : Upgrade!Open(p, m)
    BY <1>9
  <2>2. PICK step \in Upgrade!Steps \ { "record" } : Upgrade!Goto(p, step)
    BY <2>1
    DEF Upgrade!ProbeSearch, Upgrade!RepairSearch, Upgrade!FullOpenEnds, Upgrade!Abandon,
        Upgrade!Open, Upgrade!Steps
  <2> QED
    BY <1>6, <1>7, <2>1, <2>2
    DEF Upgrade!ProbeSearch, Upgrade!RepairSearch, Upgrade!Abandon, Upgrade!Open,
        Upgrade!schema, Upgrade!data
<1>10. CASE \/ \E p \in Openers : Upgrade!Vacuum(p)
            \/ \E s \in Chats : Upgrade!OldChat(s)
            \/ UNCHANGED Upgrade!vars
  <2>1. UNCHANGED << v3, v4, v5, v8, v10 >>
    BY <1>10 DEF Upgrade!Vacuum, Upgrade!OldChat, Upgrade!vars, Upgrade!schema
  <2> QED BY <1>6, <2>1 DEF Upgrade!At
<1> QED
  BY <1>2, <1>3, <1>4, <1>5, <1>8, <1>9, <1>10 DEF Upgrade!Next

\* A full opening ends with all that was there indexed; what comes or is renumbered
\* after it is late.
LEMMA UpgradeIndexKept ==
  ASSUME Upgrade!UpgradeInv, Upgrade!Next \/ UNCHANGED Upgrade!vars
  PROVE  v12' => v6' \ v7' \subseteq v11'
<1>1. v12 => v6 \ v7 \subseteq v11
  BY DEF Upgrade!UpgradeInv
<1>2. CASE \E p \in Openers : \/ Upgrade!ProbeSearch(p) \/ Upgrade!RepairSearch(p)
                              \/ Upgrade!Vacuum(p)
  BY <1>1, <1>2
  DEF Upgrade!ProbeSearch, Upgrade!RepairSearch, Upgrade!Vacuum, Upgrade!FullOpenEnds,
      Upgrade!NeedsRepair
<1>3. CASE \E s \in Chats : Upgrade!OldChat(s)
  BY <1>1, <1>3 DEF Upgrade!OldChat
<1>4. CASE UNCHANGED << v6, v7, v11, v12 >>
  BY <1>1, <1>4
<1> QED
  BY <1>2, <1>3, <1>4
  DEF Upgrade!Next, Upgrade!Open, Upgrade!CreateTables, Upgrade!ReadColumns,
      Upgrade!AddColumn, Upgrade!ReadLedger, Upgrade!Backfill, Upgrade!RecordKeys,
      Upgrade!CreateTriggers, Upgrade!Abandon, Upgrade!OldRange, Upgrade!vars, Upgrade!data

(***************************************************************************)
(* A process that has opened the database finds its schema, the keys and   *)
(* the index whole, but for what the older process wrote where nothing     *)
(* repairs it: for any processes, ranges and sessions, and wherever an     *)
(* opening fails, dies or meets another.                                   *)
(***************************************************************************)
THEOREM OpenedDatabasesAreWhole == StoreSpec => []OpenedIsWhole
<1> DEFINE I == component = "upgrade" => Upgrade!UpgradeInv
<1>1. StoreInit => I
  BY StartsOfOne, UpgradeInit
<1>2. ASSUME Upgrade!UpgradeInv, Upgrade!Next \/ UNCHANGED Upgrade!vars
      PROVE  Upgrade!UpgradeInv'
  BY <1>2, UpgradeSchemaKept, UpgradeKeysKept, UpgradeIndexKept DEF Upgrade!UpgradeInv
<1>3. I /\ [StoreNext]_vars => I'
  BY <1>2, StepsOfOne
<1>4. Upgrade!UpgradeInv => Upgrade!OpenedIsWhole
  BY DEF Upgrade!UpgradeInv, Upgrade!OpenedIsWhole, Upgrade!TypeInv, Upgrade!StepsInv,
         Upgrade!KeysInv, Upgrade!At, Upgrade!Past, Upgrade!Steps
<1> QED BY <1>1, <1>3, <1>4, PTL DEF StoreSpec, OpenedIsWhole

-----------------------------------------------------------------------------
(* EventContent: the file is v1, its row v2, the events v3, the content v4; *)
(* of the runs the places are v5, what they want v6, saw v7 and read v8,    *)
(* and whether anything disturbed them v9; v10 tells of crossed renamings.  *)

LEMMA ContentInit ==
  ASSUME Content!Init
  PROVE  Content!ContentInv
<1>1. Content!TypeInv
  BY DEF Content!Init, Content!TypeInv, Content!RowsOrNone, Content!Hashes, Content!Places,
         Content!Unlooked, Content!NoHash
<1> QED
  BY <1>1
  DEF Content!Init, Content!ContentInv, Content!StoreInv, Content!Placed, Content!Unlooked

\* What a run made sure of, and what it knows, is about itself and the store.
LEMMA ContentFrame ==
  ASSUME Content!ContentInv, Content!TypeInv', Content!StoreInv', NEW p \in Indexers,
         \A q \in Indexers \ {p} : /\ v5'[q] = v5[q] /\ v6'[q] = v6[q] /\ v7'[q] = v7[q]
                                   /\ v8'[q] = v8[q]
                                   /\ v9'[q] => v9[q] /\ UNCHANGED << v2, v3, v4, v10 >>,
         Content!Placed(p)', v9'[p] => Content!Undisturbed(p)'
  PROVE  Content!ContentInv'
<1>1. ASSUME NEW q \in Indexers \ {p}
      PROVE  Content!Placed(q)' /\ (v9'[q] => Content!Undisturbed(q)')
  <2>1. Content!Placed(q) /\ (v9[q] => Content!Undisturbed(q))
    BY DEF Content!ContentInv
  <2>2. Content!Placed(q)'
    BY <2>1 DEF Content!Placed, Content!SameText, Content!Derived
  <2>3. ASSUME v9'[q]
        PROVE  Content!Undisturbed(q)'
    BY <2>1, <2>3 DEF Content!Undisturbed, Content!Filled
  <2> QED BY <2>2, <2>3
<1> QED BY <1>1 DEF Content!ContentInv

\* A run that leaves knows nothing, but that it is done.
LEMMA ContentLeft ==
  ASSUME Content!ContentInv, NEW p \in Indexers, NEW place \in {"idle", "done"},
         Content!Leave(p, place)
  PROVE  /\ v5' \in [Indexers -> Content!Places] /\ v6' \in [Indexers -> BOOLEAN]
         /\ v7' \in [Indexers -> [len : Nat, mtime : Nat, row : Content!RowsOrNone,
                                  current : BOOLEAN]]
         /\ v8' \in [Indexers -> Content!Hashes]
         /\ v5'[p] = place /\ (v6'[p] => v6[p]) /\ Content!Placed(p)'
         /\ \A q \in Indexers \ {p} : /\ v5'[q] = v5[q] /\ v6'[q] = v6[q] /\ v7'[q] = v7[q]
                                      /\ v8'[q] = v8[q]
         /\ place = "idle" => Content!Undisturbed(p)'
         /\ place = "done" /\ (v6[p] /\ ~v10' => Content!Filled') => Content!Undisturbed(p)'
<1>1. /\ v5 \in [Indexers -> Content!Places] /\ v6 \in [Indexers -> BOOLEAN]
      /\ v7 \in [Indexers -> [len : Nat, mtime : Nat, row : Content!RowsOrNone,
                               current : BOOLEAN]]
      /\ v8 \in [Indexers -> Content!Hashes]
  BY DEF Content!ContentInv, Content!TypeInv
<1>2. Content!Unlooked \in [len : Nat, mtime : Nat, row : Content!RowsOrNone, current : BOOLEAN]
  BY DEF Content!Unlooked, Content!RowsOrNone
<1>3. Content!NoHash \in Content!Hashes /\ place \in Content!Places
  BY DEF Content!NoHash, Content!Hashes, Content!Places
<1>4. /\ v5' = [v5 EXCEPT ![p] = place] /\ v7' = [v7 EXCEPT ![p] = Content!Unlooked]
      /\ v8' = [v8 EXCEPT ![p] = Content!NoHash]
      /\ v6' = [v6 EXCEPT ![p] = @ /\ place = "done"]
  BY DEF Content!Leave, Content!Go
<1>5. /\ v5' \in [Indexers -> Content!Places] /\ v6' \in [Indexers -> BOOLEAN]
      /\ v7' \in [Indexers -> [len : Nat, mtime : Nat, row : Content!RowsOrNone,
                               current : BOOLEAN]]
      /\ v8' \in [Indexers -> Content!Hashes]
  BY <1>1, <1>2, <1>3, <1>4
<1>6. v5'[p] = place /\ (v6'[p] => v6[p] /\ place = "done")
  BY <1>1, <1>4
<1>7. \A q \in Indexers \ {p} : /\ v5'[q] = v5[q] /\ v6'[q] = v6[q] /\ v7'[q] = v7[q]
                                /\ v8'[q] = v8[q]
  BY <1>1, <1>4
<1> QED
  BY <1>5, <1>6, <1>7 DEF Content!Placed, Content!Undisturbed

\* Where the content was current, the events are all in it.
LEMMA ContentOfEvents ==
  ASSUME Content!ContentInv, v2 # NoRow, Content!ContentCurrent
  PROVE  Content!Filled
BY DEF Content!ContentInv, Content!StoreInv, Content!ContentCurrent, Content!Matching,
       Content!Filled

LEMMA ContentBeginKept ==
  ASSUME Content!ContentInv, NEW p \in Indexers, Content!Begin(p)
  PROVE  Content!ContentInv'
<1>1. /\ v5 \in [Indexers -> Content!Places] /\ v6 \in [Indexers -> BOOLEAN]
      /\ v9 \in [Indexers -> BOOLEAN]
  BY DEF Content!ContentInv, Content!TypeInv
<1>2. /\ v5' = [v5 EXCEPT ![p] = "stat"] /\ v9' = [v9 EXCEPT ![p] = TRUE]
      /\ \E on \in BOOLEAN : v6' = [v6 EXCEPT ![p] = on]
      /\ UNCHANGED << v1, v2, v3, v4, v7, v8, v10 >>
  BY DEF Content!Begin, Content!Go, Content!storeVars
<1>3. Content!TypeInv'
  BY <1>1, <1>2 DEF Content!ContentInv, Content!TypeInv, Content!Places
<1>4. Content!StoreInv'
  BY <1>2 DEF Content!ContentInv, Content!StoreInv
<1>5. /\ v5'[p] = "stat"
      /\ \A q \in Indexers \ {p} : v5'[q] = v5[q] /\ v6'[q] = v6[q] /\ v9'[q] = v9[q]
  BY <1>1, <1>2
<1>6. Content!Placed(p)' /\ Content!Undisturbed(p)'
  BY <1>5 DEF Content!Placed, Content!Undisturbed
<1> QED BY <1>2, <1>3, <1>4, <1>5, <1>6, ContentFrame

\* A run reads: of the store nothing changes.
LEMMA ContentLookKept ==
  ASSUME Content!ContentInv, NEW p \in Indexers, Content!Stat(p) \/ Content!ReadRow(p)
  PROVE  Content!ContentInv'
<1> DEFINE Looks == [len : Nat, mtime : Nat, row : Content!RowsOrNone, current : BOOLEAN]
<1>1. /\ v5 \in [Indexers -> Content!Places] /\ v7 \in [Indexers -> Looks]
      /\ v2 \in Content!RowsOrNone /\ v1.len \in Nat /\ v1.mtime \in Nat
  BY DEF Content!ContentInv, Content!TypeInv
<1>2. UNCHANGED << v1, v2, v3, v4, v6, v8, v9, v10 >>
  BY DEF Content!Stat, Content!ReadRow, Content!Reading, Content!storeVars
<1>3. PICK place \in {"row", "content"}, look \in Looks :
        /\ v5' = [v5 EXCEPT ![p] = place] /\ v7' = [v7 EXCEPT ![p] = look]
        /\ place = "content" => look.row = v2
  <2>1. v7[p] \in Looks
    BY <1>1
  <2>2. CASE Content!Stat(p)
    <3>1. v7' = [v7 EXCEPT ![p] = [v7[p] EXCEPT !.len = v1.len, !.mtime = v1.mtime]]
      BY <1>1, <2>1, <2>2 DEF Content!Stat
    <3>2. [v7[p] EXCEPT !.len = v1.len, !.mtime = v1.mtime] \in Looks
      BY <1>1, <2>1
    <3> QED BY <2>2, <3>1, <3>2 DEF Content!Stat, Content!Go
  <2>3. CASE Content!ReadRow(p)
    <3>1. v7' = [v7 EXCEPT ![p] = [v7[p] EXCEPT !.row = v2]]
      BY <1>1, <2>1, <2>3 DEF Content!ReadRow
    <3>2. [v7[p] EXCEPT !.row = v2] \in Looks /\ [v7[p] EXCEPT !.row = v2].row = v2
      BY <1>1, <2>1
    <3> QED BY <2>3, <3>1, <3>2 DEF Content!ReadRow, Content!Go
  <2> QED BY <2>2, <2>3
<1>4. /\ v5' \in [Indexers -> Content!Places] /\ v7' \in [Indexers -> Looks]
      /\ v5'[p] = place /\ v7'[p] = look
      /\ \A q \in Indexers \ {p} : v5'[q] = v5[q] /\ v7'[q] = v7[q]
  BY <1>1, <1>3 DEF Content!Places
<1>5. Content!TypeInv' /\ Content!StoreInv'
  BY <1>2, <1>4 DEF Content!ContentInv, Content!TypeInv, Content!StoreInv
<1>6. Content!Placed(p)' /\ Content!Undisturbed(p)'
  BY <1>2, <1>3, <1>4 DEF Content!Placed, Content!Undisturbed
<1> QED BY <1>2, <1>4, <1>5, <1>6, ContentFrame

LEMMA ContentReadContentKept ==
  ASSUME Content!ContentInv, NEW p \in Indexers, Content!ReadContent(p)
  PROVE  Content!ContentInv'
<1> DEFINE Looks == [len : Nat, mtime : Nat, row : Content!RowsOrNone, current : BOOLEAN]
           current == ~v6[p] \/ (v7[p].row # NoRow /\ Content!ContentCurrent)
           grown == Content!Derived(p) /\ current /\ v7[p].len > v7[p].row.len
<1>1. /\ v5 \in [Indexers -> Content!Places] /\ v7 \in [Indexers -> Looks] /\ v5[p] = "content"
  BY DEF Content!ContentInv, Content!TypeInv, Content!ReadContent
<1>2. UNCHANGED << v1, v2, v3, v4, v9, v10 >>
  BY DEF Content!ReadContent, Content!Reading, Content!storeVars
<1>3. Content!StoreInv'
  BY <1>2 DEF Content!ContentInv, Content!StoreInv
<1>4. v9[p] => v7[p].row = v2
  BY <1>1 DEF Content!ContentInv, Content!Undisturbed
<1>5. ASSUME v9[p], v6[p], current, v7[p].row # NoRow
      PROVE  Content!Filled
  BY <1>4, <1>5, ContentOfEvents
<1>6. CASE Content!Leave(p, "done") /\ Content!Derived(p) /\ current
  <2>1. v9[p] /\ v6[p] => Content!Filled
    BY <1>5, <1>6 DEF Content!Derived
  <2>2. v9[p] /\ v6[p] => Content!Filled'
    BY <1>2, <2>1 DEF Content!Filled
  <2>3. Content!TypeInv'
    BY <1>2, <1>6, ContentLeft DEF Content!ContentInv, Content!TypeInv
  <2> QED BY <1>2, <1>3, <1>6, <2>2, <2>3, ContentLeft, ContentFrame
<1>7. CASE /\ v7' = [v7 EXCEPT ![p].current = current]
           /\ Content!Go(p, IF grown THEN "append" ELSE "read")
           /\ UNCHANGED << v6, v8 >>
  <2>1. current \in BOOLEAN /\ grown \in BOOLEAN
    OBVIOUS
  <2>2. PICK c \in BOOLEAN : c <=> current
    BY <2>1
  <2>3. PICK place \in {"append", "read"} : place = IF grown THEN "append" ELSE "read"
    OBVIOUS
  <2>4. v7' = [v7 EXCEPT ![p] = [v7[p] EXCEPT !.current = c]] /\ v5' = [v5 EXCEPT ![p] = place]
    BY <1>1, <1>7, <2>1, <2>2, <2>3 DEF Content!Go
  <2>5. PICK look \in Looks : /\ look = [v7[p] EXCEPT !.current = c]
                              /\ look.row = v7[p].row /\ look.len = v7[p].len
                              /\ look.current <=> c
    <3>1. v7[p] \in Looks
      BY <1>1
    <3>2. [v7[p] EXCEPT !.current = c] \in Looks
      BY <3>1
    <3>3. /\ [v7[p] EXCEPT !.current = c].row = v7[p].row
          /\ [v7[p] EXCEPT !.current = c].len = v7[p].len
      BY <3>1
    <3>4. [v7[p] EXCEPT !.current = c].current <=> c
      BY <3>1
    <3> QED BY <3>2, <3>3, <3>4
  <2>6. /\ v5' \in [Indexers -> Content!Places] /\ v7' \in [Indexers -> Looks]
        /\ v5'[p] = place /\ v7'[p] = look
        /\ \A q \in Indexers \ {p} : v5'[q] = v5[q] /\ v7'[q] = v7[q]
    BY <1>1, <2>4, <2>5 DEF Content!Places
  <2>7. Content!TypeInv'
    BY <1>2, <1>7, <2>6 DEF Content!ContentInv, Content!TypeInv
  <2>8. place = "append" => current /\ v7[p].row # NoRow /\ v7[p].len > v7[p].row.len
    BY <2>3 DEF Content!Derived
  <2>9. Content!Placed(p)'
    BY <2>2, <2>5, <2>6, <2>8 DEF Content!Placed
  <2>10. ASSUME v9'[p]
         PROVE  Content!Undisturbed(p)'
    <3>1. v9[p] /\ v7[p].row = v2
      BY <1>2, <1>4, <2>10
    <3>2. v6'[p] /\ c /\ look.row # NoRow => Content!Filled
      BY <1>5, <1>7, <2>2, <2>5, <3>1
    <3>3. v6'[p] /\ c /\ look.row # NoRow => Content!Filled'
      BY <1>2, <3>2 DEF Content!Filled
    <3> QED BY <1>2, <2>5, <2>6, <3>1, <3>3 DEF Content!Undisturbed
  <2> QED BY <1>2, <1>3, <1>7, <2>6, <2>7, <2>9, <2>10, ContentFrame
<1> QED BY <1>6, <1>7 DEF Content!ReadContent

\* The prefix that was indexed is still there: an append takes what follows it.
LEMMA ContentReadTextKept ==
  ASSUME Content!ContentInv, NEW p \in Indexers, Content!ReadAppended(p) \/ Content!ReadText(p)
  PROVE  Content!ContentInv'
<1>1. /\ v5 \in [Indexers -> Content!Places] /\ v8 \in [Indexers -> Content!Hashes]
      /\ v1 \in [gen : Nat, len : Nat \ {0}, mtime : Nat]
      /\ v7[p].len \in Nat /\ v7[p].row \in Content!RowsOrNone
  BY DEF Content!ContentInv, Content!TypeInv
<1>2. UNCHANGED << v1, v2, v3, v4, v6, v7, v9, v10 >>
  BY DEF Content!ReadAppended, Content!ReadText, Content!Reading, Content!storeVars
<1>3. Content!Placed(p) /\ (v9[p] => Content!Undisturbed(p))
  BY DEF Content!ContentInv
<1>4. PICK place \in {"appendRows", "read", "decide"}, hash \in Content!Hashes :
        /\ v5' = [v5 EXCEPT ![p] = place] /\ v8' = [v8 EXCEPT ![p] = hash]
        /\ place = "appendRows" =>
             /\ v7[p].row.hash.len = v7[p].row.len
             /\ hash = [gen |-> v7[p].row.hash.gen, len |-> v7[p].len]
        /\ place \in {"appendRows", "read"} => v5[p] = "append"
        /\ place = "decide" => hash.len > 0 /\ v5[p] = "read"
  <2>1. v8[p] \in Content!Hashes /\ v8 = [v8 EXCEPT ![p] = v8[p]]
    BY <1>1
  <2>2. CASE Content!ReadText(p)
    <3>1. Content!Hash \in Content!Hashes /\ Content!Hash.len > 0
      BY <1>1 DEF Content!Hash, Content!Hashes
    <3> QED BY <2>2, <3>1 DEF Content!ReadText, Content!Go
  <2>3. CASE Content!ReadAppended(p)
    <3>1. v7[p].row # NoRow /\ v5[p] = "append"
      BY <1>3, <2>3 DEF Content!Placed, Content!ReadAppended
    <3>2. [gen |-> v7[p].row.hash.gen, len |-> v7[p].len] \in Content!Hashes
      BY <1>1, <3>1 DEF Content!RowsOrNone, Content!Hashes
    <3>3. CASE Content!Go(p, "read") /\ UNCHANGED v8
      BY <2>1, <3>1, <3>3 DEF Content!Go
    <3>4. CASE /\ v7[p].row.hash.len = v7[p].row.len
               /\ Content!Go(p, "appendRows")
               /\ v8' = [v8 EXCEPT ![p] = [gen |-> v7[p].row.hash.gen, len |-> v7[p].len]]
      BY <3>1, <3>2, <3>4 DEF Content!Go
    <3> QED BY <2>3, <3>3, <3>4 DEF Content!ReadAppended
  <2> QED BY <2>2, <2>3
<1>5. /\ v5' \in [Indexers -> Content!Places] /\ v8' \in [Indexers -> Content!Hashes]
      /\ v5'[p] = place /\ v8'[p] = hash
      /\ \A q \in Indexers \ {p} : v5'[q] = v5[q] /\ v8'[q] = v8[q]
  BY <1>1, <1>4 DEF Content!Places
<1>6. Content!TypeInv' /\ Content!StoreInv'
  BY <1>2, <1>5 DEF Content!ContentInv, Content!TypeInv, Content!StoreInv
<1>7. Content!Placed(p)'
  BY <1>2, <1>3, <1>4, <1>5 DEF Content!Placed
<1>8. v9'[p] => Content!Undisturbed(p)'
  BY <1>2, <1>3, <1>4, <1>5 DEF Content!Undisturbed, Content!Filled
<1> QED BY <1>2, <1>5, <1>6, <1>7, <1>8, ContentFrame

\* The events of an append are those of the text before, renamed, and what was added.
LEMMA ContentRenamed ==
  ASSUME NEW gen \in Nat, NEW old \in Nat, NEW new \in Nat, new > old
  PROVE  LET hash == [gen |-> gen, len |-> new]
             was == Content!EventsOf([gen |-> gen, len |-> old])
         IN Content!Renamed(was, hash) \cup {e \in Content!EventsOf(hash) : e.n > old}
              = Content!EventsOf(hash)
<1> DEFINE hash == [gen |-> gen, len |-> new]
           before == [gen |-> gen, len |-> old]
           Event(n, h) == [n |-> n, gen |-> gen, hash |-> h]
<1>1. Content!EventsOf(before) = {Event(n, before) : n \in 1 .. old}
  BY DEF Content!EventsOf
<1>2. Content!EventsOf(hash) = {Event(n, hash) : n \in 1 .. new}
  BY DEF Content!EventsOf
<1>3. \A n : [Event(n, before) EXCEPT !.hash = hash] = Event(n, hash) /\ Event(n, hash).n = n
  OBVIOUS
<1> HIDE DEF hash, before, Event
<1>4. Content!Renamed(Content!EventsOf(before), hash) = {Event(n, hash) : n \in 1 .. old}
  BY <1>1, <1>3 DEF Content!Renamed
<1>5. {e \in Content!EventsOf(hash) : e.n > old} = {Event(n, hash) : n \in old + 1 .. new}
  BY <1>2, <1>3
<1>6. 1 .. new = (1 .. old) \cup (old + 1 .. new)
  OBVIOUS
<1>7. Content!Renamed(Content!EventsOf(before), hash)
        \cup {e \in Content!EventsOf(hash) : e.n > old} = Content!EventsOf(hash)
  BY <1>2, <1>4, <1>5, <1>6
<1> QED BY <1>7 DEF hash, before

LEMMA ContentAppendKept ==
  ASSUME Content!ContentInv, NEW p \in Indexers, Content!AppendRows(p)
  PROVE  Content!ContentInv'
<1> DEFINE old == v7[p].row.hash
           hash == v8[p]
           delta == {e \in Content!EventsOf(hash) : e.n > old.len}
<1>1. /\ v5 \in [Indexers -> Content!Places] /\ v9 \in [Indexers -> BOOLEAN]
      /\ v7[p].len \in Nat /\ v7[p].mtime \in Nat /\ v7[p].row \in Content!RowsOrNone
      /\ v2 \in Content!RowsOrNone /\ hash \in Content!Hashes
  BY DEF Content!ContentInv, Content!TypeInv
<1>2. /\ v7[p].row # NoRow /\ v7[p].current /\ v7[p].len > old.len
      /\ hash = [gen |-> old.gen, len |-> v7[p].len]
      /\ old \in Content!Hashes
  <2>1. v7[p].row # NoRow /\ v7[p].current /\ v7[p].len > old.len
        /\ hash = [gen |-> old.gen, len |-> v7[p].len]
    BY DEF Content!ContentInv, Content!Placed, Content!AppendRows
  <2> QED BY <1>1, <2>1 DEF Content!RowsOrNone
<1>3. /\ v2 # NoRow
      /\ v3' = Content!Renamed(v3, hash) \cup delta
      /\ v4' = (v4 \ v3) \cup Content!Renamed(v4 \cap v3, hash) \cup (IF v6[p] THEN delta ELSE {})
      /\ v2' = [hash |-> hash, len |-> v7[p].len, mtime |-> v7[p].mtime, derived |-> FALSE]
      /\ v10' = (v10 \/ v2.hash # old)
      /\ v5' = [v5 EXCEPT ![p] = "derive"]
      /\ v9' = [q \in Indexers |-> q = p /\ v9[p]]
      /\ UNCHANGED << v1, v6, v7, v8 >>
  BY DEF Content!AppendRows, Content!Go, Content!Writing, Content!callVars
<1>4. /\ v5' \in [Indexers -> Content!Places] /\ v9' \in [Indexers -> BOOLEAN]
      /\ v5'[p] = "derive" /\ (v9'[p] => v9[p])
      /\ \A q \in Indexers \ {p} : v5'[q] = v5[q] /\ ~v9'[q]
  BY <1>1, <1>3 DEF Content!Places
<1>5. v2' \in Content!RowsOrNone /\ v2'.hash = hash
  BY <1>1, <1>3 DEF Content!RowsOrNone
<1>6. Content!TypeInv'
  BY <1>3, <1>4, <1>5 DEF Content!ContentInv, Content!TypeInv
<1>7. v3 # {} /\ (~v10 => v3 = Content!EventsOf(v2.hash))
  BY <1>3 DEF Content!ContentInv, Content!StoreInv
<1>8. v3' # {}
  <2>1. Content!Renamed(v3, hash) # {}
    BY <1>7 DEF Content!Renamed
  <2> QED BY <1>3, <2>1
<1>9. ~v10' => v3' = Content!EventsOf(v2'.hash)
  <2>1. SUFFICES ASSUME ~v10', v2.hash = old
                 PROVE  v3' = Content!EventsOf(hash)
    BY <1>3, <1>5
  <2>2. v3 = Content!EventsOf(old)
    BY <1>3, <1>7, <2>1
  <2>3. old = [gen |-> old.gen, len |-> old.len] /\ old.gen \in Nat /\ old.len \in Nat
    BY <1>2 DEF Content!Hashes
  <2>4. Content!Renamed(Content!EventsOf([gen |-> old.gen, len |-> old.len]), hash) \cup delta
          = Content!EventsOf(hash)
    BY <1>1, <1>2, <2>3, ContentRenamed
  <2> QED BY <1>3, <2>2, <2>3, <2>4
<1>10. Content!StoreInv'
  BY <1>8, <1>9 DEF Content!StoreInv
<1>11. v9[p] /\ v6[p] => Content!Filled'
  <2>1. SUFFICES ASSUME v9[p], v6[p]
                 PROVE  Content!Filled'
    OBVIOUS
  <2>2. v3 \subseteq v4
    BY <1>2, <2>1 DEF Content!ContentInv, Content!Undisturbed, Content!AppendRows, Content!Filled
  <2>3. v4 \cap v3 = v3
    BY <2>2
  <2> HIDE DEF delta, hash
  <2>4. v3' \subseteq v4'
    BY <1>3, <2>1, <2>3
  <2> QED BY <1>8, <2>4 DEF Content!Filled
<1>12. Content!Placed(p)' /\ (v9'[p] => Content!Undisturbed(p)')
  BY <1>3, <1>4, <1>11 DEF Content!Placed, Content!Undisturbed
<1> QED BY <1>3, <1>4, <1>6, <1>10, <1>12, ContentFrame

\* A run that ends with the text it knew changes the row at most.
LEMMA ContentDecideKept ==
  ASSUME Content!ContentInv, NEW p \in Indexers, Content!Decide(p)
  PROVE  Content!ContentInv'
<1>1. /\ v5 \in [Indexers -> Content!Places] /\ v9 \in [Indexers -> BOOLEAN]
      /\ v7[p].len \in Nat /\ v7[p].mtime \in Nat
      /\ v2 \in Content!RowsOrNone /\ v5[p] = "decide"
  BY DEF Content!ContentInv, Content!TypeInv, Content!Decide
<1>2. Content!Placed(p) /\ (v9[p] => Content!Undisturbed(p)) /\ Content!StoreInv
  BY DEF Content!ContentInv
<1>3. v9[p] /\ v6[p] /\ Content!SameText(p) /\ v7[p].current => Content!Filled
  BY <1>1, <1>2 DEF Content!SameText, Content!Derived, Content!Undisturbed
<1>4. CASE Content!SameText(p) /\ v7[p].current /\ Content!Leave(p, "done")
  <2>1. /\ UNCHANGED << v1, v3, v4, v10 >> /\ (v9'[p] => v9[p])
        /\ v9' \in [Indexers -> BOOLEAN]
        /\ \A q \in Indexers \ {p} : v9'[q] => v9[q] /\ UNCHANGED << v2, v3, v4, v10 >>
        /\ (v2' = v2 \/ v2' = IF v2 = NoRow THEN NoRow
                           ELSE [v2 EXCEPT !.len = v7[p].len, !.mtime = v7[p].mtime])
    BY <1>1, <1>4
    DEF Content!Decide, Content!Reading, Content!Writing, Content!storeVars
  <2>2. v2' \in Content!RowsOrNone /\ (v2' # NoRow => v2 # NoRow /\ v2'.hash = v2.hash)
    <3>1. CASE v2' = v2
      BY <1>1, <3>1
    <3>2. CASE v2 = NoRow /\ v2' = NoRow
      BY <1>1, <3>2
    <3>3. CASE v2 # NoRow /\ v2' = [v2 EXCEPT !.len = v7[p].len, !.mtime = v7[p].mtime]
      <4>1. v2 \in [hash : Content!Hashes, len : Nat, mtime : Nat, derived : BOOLEAN]
        BY <1>1, <3>3 DEF Content!RowsOrNone
      <4>2. v2' \in [hash : Content!Hashes, len : Nat, mtime : Nat, derived : BOOLEAN]
        BY <1>1, <3>3, <4>1
      <4>3. v2'.hash = v2.hash
        BY <3>3, <4>1
      <4> QED BY <3>3, <4>2, <4>3 DEF Content!RowsOrNone
    <3>4. \/ v2' = v2
          \/ v2 = NoRow /\ v2' = NoRow
          \/ v2 # NoRow /\ v2' = [v2 EXCEPT !.len = v7[p].len, !.mtime = v7[p].mtime]
      BY <2>1, Zenon
    <3> QED BY <3>1, <3>2, <3>3, <3>4
  <2>3. Content!StoreInv'
    BY <1>2, <2>1, <2>2 DEF Content!StoreInv
  <2>4. Content!TypeInv'
    BY <1>4, <2>1, <2>2, ContentLeft DEF Content!ContentInv, Content!TypeInv
  <2>5. v9'[p] => Content!Undisturbed(p)'
    <3>1. v9[p] /\ v6[p] => Content!Filled'
      BY <1>3, <1>4, <2>1 DEF Content!Filled
    <3> QED BY <1>4, <2>1, <3>1, ContentLeft
  <2> QED BY <1>4, <2>1, <2>3, <2>4, <2>5, ContentLeft, ContentFrame
<1>5. CASE /\ Content!Go(p, IF Content!SameText(p) THEN "backfill" ELSE "upsert")
           /\ Content!Reading /\ UNCHANGED Content!callVars
  <2>1. UNCHANGED << v1, v2, v3, v4, v6, v7, v8, v9, v10 >>
    BY <1>5 DEF Content!Reading, Content!callVars, Content!storeVars
  <2>2. PICK place \in {"backfill", "upsert"} :
          /\ v5' = [v5 EXCEPT ![p] = place]
          /\ place = "backfill" => Content!SameText(p)
    BY <1>5 DEF Content!Go
  <2>3. /\ v5' \in [Indexers -> Content!Places] /\ v5'[p] = place
        /\ \A q \in Indexers \ {p} : v5'[q] = v5[q]
    BY <1>1, <2>2 DEF Content!Places
  <2>4. Content!TypeInv' /\ Content!StoreInv'
    BY <2>1, <2>3 DEF Content!ContentInv, Content!TypeInv, Content!StoreInv
  <2>5. Content!Placed(p)'
    BY <1>1, <1>2, <2>1, <2>2, <2>3 DEF Content!Placed, Content!SameText, Content!Derived
  <2>6. v9'[p] => Content!Undisturbed(p)'
    BY <1>1, <1>2, <2>1, <2>3 DEF Content!Undisturbed
  <2> QED BY <2>1, <2>3, <2>4, <2>5, <2>6, ContentFrame
<1> QED BY <1>4, <1>5 DEF Content!Decide

LEMMA ContentBackfillKept ==
  ASSUME Content!ContentInv, NEW p \in Indexers, Content!Backfill(p)
  PROVE  Content!ContentInv'
<1>1. /\ v4' = v4 \cup Content!EventsOf(v8[p]) /\ Content!Leave(p, "done")
      /\ v9' = [q \in Indexers |-> q = p /\ v9[p]]
      /\ UNCHANGED << v1, v2, v3, v10 >>
  BY DEF Content!Backfill, Content!Writing
<1>2. v9' \in [Indexers -> BOOLEAN] /\ (v9'[p] => v9[p])
      /\ \A q \in Indexers \ {p} : ~v9'[q]
  BY <1>1 DEF Content!ContentInv, Content!TypeInv
<1>3. Content!StoreInv'
  BY <1>1 DEF Content!ContentInv, Content!StoreInv
<1>4. Content!TypeInv'
  BY <1>1, <1>2, ContentLeft DEF Content!ContentInv, Content!TypeInv
<1>5. v9'[p] => Content!Undisturbed(p)'
  <2>1. v9[p] /\ ~v10' => Content!Filled'
    <3>1. SUFFICES ASSUME v9[p], ~v10
                   PROVE  v3 # {} /\ v3 = Content!EventsOf(v8[p])
      BY <1>1 DEF Content!Filled
    <3>2. v7[p].row = v2 /\ v2 # NoRow /\ v2.hash = v8[p]
      BY <3>1
      DEF Content!ContentInv, Content!Undisturbed, Content!Placed, Content!Backfill,
          Content!SameText, Content!Derived
    <3> QED BY <3>1, <3>2 DEF Content!ContentInv, Content!StoreInv
  <2> QED BY <1>1, <1>2, <2>1, ContentLeft
<1> QED BY <1>1, <1>2, <1>3, <1>4, <1>5, ContentLeft, ContentFrame

LEMMA ContentUpsertKept ==
  ASSUME Content!ContentInv, NEW p \in Indexers, Content!Upsert(p)
  PROVE  Content!ContentInv'
<1>1. /\ v5 \in [Indexers -> Content!Places] /\ v8[p] \in Content!Hashes
      /\ v7[p].len \in Nat /\ v7[p].mtime \in Nat /\ v8[p].len > 0
  BY DEF Content!ContentInv, Content!TypeInv, Content!Placed, Content!Upsert
<1>2. /\ v2' = [hash |-> v8[p], len |-> v7[p].len, mtime |-> v7[p].mtime, derived |-> FALSE]
      /\ v3' = Content!EventsOf(v8[p])
      /\ v4' = IF v6[p] THEN Content!EventsOf(v8[p]) ELSE {}
      /\ v5' = [v5 EXCEPT ![p] = "derive"]
      /\ v9' = [q \in Indexers |-> q = p /\ v9[p]]
      /\ UNCHANGED << v1, v6, v7, v8 >> /\ v10' = FALSE
  BY DEF Content!Upsert, Content!Go, Content!Writing, Content!callVars
<1>3. /\ v5' \in [Indexers -> Content!Places] /\ v9' \in [Indexers -> BOOLEAN]
      /\ v5'[p] = "derive"
      /\ \A q \in Indexers \ {p} : v5'[q] = v5[q] /\ ~v9'[q]
  BY <1>1, <1>2 DEF Content!Places, Content!ContentInv, Content!TypeInv
<1>4. v2' \in Content!RowsOrNone /\ v2'.hash = v8[p]
  BY <1>1, <1>2 DEF Content!RowsOrNone
<1>5. Content!TypeInv'
  BY <1>2, <1>3, <1>4 DEF Content!ContentInv, Content!TypeInv
<1>6. v3' # {}
  <2>1. 1 \in 1 .. v8[p].len
    BY <1>1 DEF Content!Hashes
  <2> QED BY <1>2, <2>1 DEF Content!EventsOf
<1>7. Content!StoreInv' /\ (v6[p] => Content!Filled')
  BY <1>2, <1>4, <1>6 DEF Content!StoreInv, Content!Filled
<1>8. Content!Placed(p)' /\ Content!Undisturbed(p)'
  BY <1>2, <1>3, <1>7 DEF Content!Placed, Content!Undisturbed
<1> QED BY <1>2, <1>3, <1>5, <1>7, <1>8, ContentFrame

LEMMA ContentDeriveKept ==
  ASSUME Content!ContentInv, NEW p \in Indexers, Content!Derive(p)
  PROVE  Content!ContentInv'
<1>1. /\ v2' = IF v2 = NoRow THEN NoRow ELSE [v2 EXCEPT !.derived = TRUE]
      /\ Content!Leave(p, "done") /\ v5[p] = "derive"
      /\ v9' = [q \in Indexers |-> q = p /\ v9[p]]
      /\ UNCHANGED << v1, v3, v4, v10 >>
  BY DEF Content!Derive, Content!Writing
<1>2. v9' \in [Indexers -> BOOLEAN] /\ (v9'[p] => v9[p])
      /\ \A q \in Indexers \ {p} : ~v9'[q]
  BY <1>1 DEF Content!ContentInv, Content!TypeInv
<1>3. v2' \in Content!RowsOrNone /\ (v2' # NoRow => v2 # NoRow /\ v2'.hash = v2.hash)
  <2>1. v2 \in Content!RowsOrNone
    BY DEF Content!ContentInv, Content!TypeInv
  <2>2. CASE v2 = NoRow
    BY <1>1, <2>1, <2>2
  <2>3. CASE v2 # NoRow
    <3>1. v2 \in [hash : Content!Hashes, len : Nat, mtime : Nat, derived : BOOLEAN]
      BY <2>1, <2>3 DEF Content!RowsOrNone
    <3>2. v2' = [v2 EXCEPT !.derived = TRUE]
      BY <1>1, <2>3
    <3>3. v2' \in [hash : Content!Hashes, len : Nat, mtime : Nat, derived : BOOLEAN]
      BY <3>1, <3>2
    <3>4. v2'.hash = v2.hash
      BY <3>1, <3>2
    <3> QED BY <2>3, <3>3, <3>4 DEF Content!RowsOrNone
  <2> QED BY <2>2, <2>3
<1>4. Content!StoreInv'
  BY <1>1, <1>3 DEF Content!ContentInv, Content!StoreInv
<1>5. Content!TypeInv'
  BY <1>1, <1>2, <1>3, ContentLeft DEF Content!ContentInv, Content!TypeInv
<1>6. v9'[p] => Content!Undisturbed(p)'
  <2>1. v9[p] /\ v6[p] /\ ~v10 => Content!Filled
    BY <1>1 DEF Content!ContentInv, Content!Undisturbed
  <2>2. v9[p] /\ v6[p] /\ ~v10' => Content!Filled'
    BY <1>1, <2>1 DEF Content!Filled
  <2> QED BY <1>1, <1>2, <2>2, ContentLeft
<1> QED BY <1>1, <1>2, <1>4, <1>5, <1>6, ContentLeft, ContentFrame

LEMMA ContentAbandonKept ==
  ASSUME Content!ContentInv, NEW p \in Indexers, Content!Abandon(p)
  PROVE  Content!ContentInv'
<1>1. /\ Content!Leave(p, "idle") /\ v9' = [v9 EXCEPT ![p] = FALSE]
      /\ UNCHANGED << v1, v2, v3, v4, v10 >>
  BY DEF Content!Abandon, Content!storeVars
<1>2. v9' \in [Indexers -> BOOLEAN] /\ \A q \in Indexers \ {p} : v9'[q] = v9[q]
  BY <1>1 DEF Content!ContentInv, Content!TypeInv
<1>3. Content!StoreInv' /\ Content!TypeInv'
  BY <1>1, <1>2, ContentLeft DEF Content!ContentInv, Content!StoreInv, Content!TypeInv
<1> QED BY <1>1, <1>2, <1>3, ContentLeft, ContentFrame

\* What happens around the runs disturbs all of them.
LEMMA ContentAroundKept ==
  ASSUME Content!ContentInv, Content!Write \/ Content!DropContent \/ Content!ClearIndex
  PROVE  Content!ContentInv'
<1>1. /\ v9' = [p \in Indexers |-> FALSE] /\ UNCHANGED << v5, v6, v7, v8 >>
      /\ v2' \in {v2, NoRow} /\ (v2' # NoRow => UNCHANGED << v2, v3, v10 >>)
  BY DEF Content!Write, Content!DropContent, Content!ClearIndex, Content!Around,
         Content!callVars, Content!storeVars
<1>2. v1' \in [gen : Nat, len : Nat \ {0}, mtime : Nat]
  <2>1. v1 \in [gen : Nat, len : Nat \ {0}, mtime : Nat]
    BY DEF Content!ContentInv, Content!TypeInv
  <2>2. CASE Content!Write
    <3>1. PICK gen \in v1.gen .. v1.gen + 1, len \in 1 .. MaxLines :
            v1' = [gen |-> gen, len |-> len, mtime |-> v1.mtime + 1]
      BY <2>2 DEF Content!Write
    <3>2. gen \in Nat /\ len \in Nat \ {0} /\ v1.mtime + 1 \in Nat
      BY <2>1
    <3> QED BY <3>1, <3>2
  <2>3. CASE v1' = v1
    BY <2>1, <2>3
  <2> QED BY <2>2, <2>3 DEF Content!DropContent, Content!ClearIndex
<1>3. Content!TypeInv'
  BY <1>1, <1>2 DEF Content!ContentInv, Content!TypeInv, Content!RowsOrNone
<1>4. Content!StoreInv'
  BY <1>1 DEF Content!ContentInv, Content!StoreInv
<1>5. \A p \in Indexers : Content!Placed(p)' /\ ~v9'[p]
  BY <1>1 DEF Content!ContentInv, Content!Placed, Content!SameText, Content!Derived
<1> QED BY <1>3, <1>4, <1>5 DEF Content!ContentInv

LEMMA ContentStill ==
  ASSUME Content!ContentInv, UNCHANGED Content!vars
  PROVE  Content!ContentInv'
<1> USE DEF Content!vars, Content!storeVars, Content!callVars
<1>1. Content!TypeInv' /\ Content!StoreInv'
  BY DEF Content!ContentInv, Content!TypeInv, Content!StoreInv
<1>2. \A p \in Indexers : Content!Placed(p)' /\ (v9'[p] => Content!Undisturbed(p)')
  BY DEF Content!ContentInv, Content!Placed, Content!SameText, Content!Derived,
         Content!Undisturbed, Content!Filled
<1> QED BY <1>1, <1>2 DEF Content!ContentInv

(***************************************************************************)
(* A run that wants the text of events and that nothing disturbs leaves    *)
(* every event with its own: for any processes and any lengths of file,    *)
(* and whatever came before, but for rows that two runs renamed.           *)
(***************************************************************************)
THEOREM EventsHaveTheirContent == StoreSpec => []EveryEventHasContent
<1> DEFINE I == component = "content" => Content!ContentInv
<1>1. StoreInit => I
  BY StartsOfOne, ContentInit
<1>2. ASSUME Content!ContentInv, Content!Next \/ UNCHANGED Content!vars
      PROVE  Content!ContentInv'
  BY <1>2, ContentBeginKept, ContentLookKept, ContentReadContentKept, ContentReadTextKept,
     ContentAppendKept, ContentDecideKept, ContentBackfillKept, ContentUpsertKept,
     ContentDeriveKept, ContentAbandonKept, ContentAroundKept, ContentStill
  DEF Content!Next
<1>3. I /\ [StoreNext]_vars => I'
  BY <1>2, StepsOfOne
<1>4. Content!ContentInv => Content!EveryEventHasContent
  BY DEF Content!ContentInv, Content!EveryEventHasContent, Content!Undisturbed, Content!Filled
<1> QED BY <1>1, <1>3, <1>4, PTL DEF StoreSpec, EveryEventHasContent

-----------------------------------------------------------------------------
(* ClaudeIndexer: the files are v1, newest first in v2; the rows are v3,    *)
(* the texts v4; the run is at v5, has v6 to do, parsed v7 and drops v8;    *)
(* v9 tells whether it was disturbed, v10 of the sessions meddled with.     *)

LEMMA ClaudeInit ==
  ASSUME Claude!Init
  PROVE  Claude!ClaudeInv
<1>1. /\ v1 \in [ClaudeFiles -> [id : SessionIds, version : {0}, big : BOOLEAN]]
      /\ v3 = [i \in SessionIds |-> NoRow] /\ v4 = v3
      /\ v5 = "idle" /\ v6 = << >> /\ v8 = {} /\ v9 = FALSE /\ v10 = {} /\ v11 = 0
  BY DEF Claude!Init
<1>2. Claude!Listing(v2)
  BY DEF Claude!Init
<1>3. v2 \in Seq(ClaudeFiles)
  <2>1. PICK n \in Nat : v2 \in [1 .. n -> ClaudeFiles]
    BY DEF Claude!Init
  <2> QED BY <2>1
<1>4. Claude!TypeInv
  BY <1>1, <1>2, <1>3 DEF Claude!TypeInv
<1> QED BY <1>1, <1>4 DEF Claude!ClaudeInv, Claude!TextsInv

\* A file that is written comes first, and the list still has all.
LEMMA ClaudeFronted ==
  ASSUME Claude!TypeInv, NEW f \in ClaudeFiles
  PROVE  /\ Claude!Fronted(f) \in Seq(ClaudeFiles) /\ Len(Claude!Fronted(f)) = Len(v2)
         /\ Claude!Listing(Claude!Fronted(f))
<1>1. PICK len \in Nat : v2 \in [1 .. len -> ClaudeFiles] /\ len = Len(v2) /\ DOMAIN v2 = 1 .. len
  <2>1. v2 \in Seq(ClaudeFiles)
    BY DEF Claude!TypeInv
  <2> QED BY <2>1
<1>2. /\ \A i, j \in 1 .. len : i # j => v2[i] # v2[j]
      /\ \A g \in ClaudeFiles : \E i \in 1 .. len : v2[i] = g
  BY <1>1 DEF Claude!TypeInv, Claude!Listing
<1>3. PICK place \in 1 .. len : place = (CHOOSE n \in DOMAIN v2 : v2[n] = f) /\ v2[place] = f
  BY <1>1, <1>2
<1>4. PICK new : new = Claude!Fronted(f)
  OBVIOUS
<1>5. /\ DOMAIN new = 1 .. len
      /\ \A n \in 1 .. len : new[n] = IF n = 1 THEN f ELSE IF n <= place THEN v2[n - 1] ELSE v2[n]
  BY <1>1, <1>3, <1>4 DEF Claude!Fronted
<1>6. \A n \in 1 .. len : n # 1 /\ n <= place => n - 1 \in 1 .. len
  OBVIOUS
<1>7. new = [n \in 1 .. len |-> new[n]] /\ new[1] = f
  BY <1>1, <1>3, <1>4, <1>5 DEF Claude!Fronted
<1>8. \A n \in 1 .. len : new[n] \in ClaudeFiles
  BY <1>1, <1>5, <1>6
<1>9. new \in Seq(ClaudeFiles) /\ Len(new) = len
  <2>1. new \in [1 .. len -> ClaudeFiles]
    BY <1>7, <1>8
  <2> QED BY <2>1
<1>10. ASSUME NEW i \in 1 .. len, NEW j \in 1 .. len, i < j
       PROVE  new[i] # new[j]
  <2>1. \/ new[j] = v2[j - 1] /\ j - 1 # place /\ j - 1 \in 1 .. len
        \/ new[j] = v2[j] /\ j # place
    <3>1. CASE j <= place
      BY <1>5, <1>10, <3>1
    <3>2. CASE ~(j <= place)
      BY <1>5, <1>10, <3>2
    <3> QED BY <3>1, <3>2
  <2>2. CASE i = 1
    BY <1>1, <1>2, <1>3, <1>7, <1>10, <2>1, <2>2
  <2>3. CASE i # 1 /\ j <= place
    <3>1. new[i] = v2[i - 1] /\ new[j] = v2[j - 1] /\ i - 1 \in 1 .. len /\ j - 1 \in 1 .. len
      BY <1>5, <1>10, <2>3
    <3> QED BY <1>2, <1>10, <3>1
  <2>4. CASE i # 1 /\ ~(j <= place)
    <3>1. new[j] = v2[j]
      BY <1>5, <1>10, <2>4
    <3>2. CASE i <= place
      <4>1. new[i] = v2[i - 1] /\ i - 1 \in 1 .. len /\ i - 1 # j
        BY <1>5, <1>10, <2>4, <3>2
      <4> QED BY <1>2, <3>1, <4>1
    <3>3. CASE ~(i <= place)
      BY <1>2, <1>5, <1>10, <2>4, <3>1, <3>3
    <3> QED BY <3>2, <3>3
  <2> QED BY <2>2, <2>3, <2>4
<1>11. \A i, j \in 1 .. len : i # j => new[i] # new[j]
  <2> TAKE i, j \in 1 .. len
  <2>1. i \in Int /\ j \in Int
    OBVIOUS
  <2> QED BY <1>10, <2>1
<1>12. ASSUME NEW m \in 1 .. len
       PROVE  \E n \in 1 .. len : new[n] = v2[m]
  <2>1. CASE m = place
    <3>1. 1 \in 1 .. len
      OBVIOUS
    <3> QED BY <1>3, <1>7, <2>1, <3>1
  <2>2. CASE m < place
    <3>1. PICK n \in 1 .. len : n = m + 1 /\ n # 1 /\ n <= place /\ n - 1 = m
      BY <2>2
    <3>2. new[n] = v2[n - 1]
      BY <1>5, <3>1
    <3> QED BY <3>1, <3>2
  <2>3. CASE m > place
    <3>1. m # 1 /\ ~(m <= place)
      BY <2>3
    <3> QED BY <1>5, <3>1
  <2> QED BY <2>1, <2>2, <2>3
<1>13. \A g \in ClaudeFiles : \E i \in DOMAIN new : new[i] = g
  <2> TAKE g \in ClaudeFiles
  <2>1. PICK m \in 1 .. len : v2[m] = g
    BY <1>2
  <2>2. PICK n \in 1 .. len : new[n] = v2[m]
    BY <1>12
  <2> QED BY <1>5, <2>1, <2>2
<1> QED BY <1>1, <1>4, <1>5, <1>9, <1>11, <1>13 DEF Claude!Listing

\* The rows of some files are told still if none of theirs changed.
LEMMA ToldStays ==
  ASSUME NEW k, Claude!Told(k), UNCHANGED << v1, v2 >>,
         \A n \in 1 .. k : \A i \in SessionIds :
           /\ (i \in Claude!From(v2[n])) <=> (i \in Claude!From(v2[n])')
           /\ i \in Claude!From(v2[n]) => v3'[i] = v3[i] /\ v4'[i] = v4[i]
  PROVE  Claude!Told(k)'
<1>1. ASSUME NEW n \in 1 .. k
      PROVE  /\ Claude!From(v2[n])' = Claude!From(v2[n])
             /\ Claude!Claimed(n, k)' <=> Claude!Claimed(n, k)
  <2>1. Claude!From(v2[n])' \subseteq SessionIds /\ Claude!From(v2[n]) \subseteq SessionIds
    BY DEF Claude!From
  <2>2. Claude!From(v2[n])' = Claude!From(v2[n])
    BY <1>1, <2>1
  <2> QED BY <2>2 DEF Claude!Claimed
<1>2. ASSUME NEW n \in 1 .. k
      PROVE  LET f == v2[n]
             IN /\ Claude!From(f)' = IF v1'[f].big \/ Claude!Claimed(n, k)'
                                     THEN {} ELSE { v1'[f].id }
                /\ \A i \in Claude!From(f)' : v3'[i] = Claude!Row(f, v1'[f]) /\ v4'[i] = v3'[i]
  <2>1. /\ Claude!From(v2[n]) = IF v1[v2[n]].big \/ Claude!Claimed(n, k)
                                THEN {} ELSE { v1[v2[n]].id }
        /\ \A i \in Claude!From(v2[n]) : v3[i] = Claude!Row(v2[n], v1[v2[n]]) /\ v4[i] = v3[i]
    BY <1>2 DEF Claude!Told
  <2>2. \A i \in Claude!From(v2[n]) : v3'[i] = v3[i] /\ v4'[i] = v4[i]
    BY <1>2 DEF Claude!From
  <2>3. v2'[n] = v2[n] /\ v1' = v1
    OBVIOUS
  <2>4. Claude!From(v2[n])' = IF v1[v2[n]].big \/ Claude!Claimed(n, k)' THEN {} ELSE { v1[v2[n]].id }
    BY <1>1, <2>1
  <2>5. \A i \in Claude!From(v2[n])' : v3'[i] = Claude!Row(v2[n], v1[v2[n]]) /\ v4'[i] = v3'[i]
    BY <1>1, <2>1, <2>2
  <2> QED BY <2>3, <2>4, <2>5
<1> QED BY <1>2 DEF Claude!Told

\* The file in hand is the next of the list.
LEMMA ClaudeHead ==
  ASSUME Claude!TypeInv, v6 # << >>, NEW k \in 0 .. Len(v2), Claude!Ahead(k)
  PROVE  /\ k \in Nat /\ k + 1 \in 1 .. Len(v2) /\ Head(v6) = v2[k + 1]
         /\ Head(v6) \in ClaudeFiles
         /\ \A n \in 1 .. k : n \in 1 .. Len(v2) /\ v2[n] # Head(v6) /\ v2[n] \in ClaudeFiles
         /\ Tail(v6) \in Seq(ClaudeFiles) /\ Len(Tail(v6)) = Len(v2) - (k + 1)
         /\ \A j \in 1 .. Len(Tail(v6)) : Tail(v6)[j] = v2[(k + 1) + j]
<1>1. /\ v2 \in Seq(ClaudeFiles) /\ v6 \in Seq(ClaudeFiles)
      /\ \A i, j \in DOMAIN v2 : i # j => v2[i] # v2[j]
  BY DEF Claude!TypeInv, Claude!Listing
<1>2. /\ Len(v6) = Len(v2) - k /\ \A j \in 1 .. Len(v6) : v6[j] = v2[k + j]
  BY DEF Claude!Ahead
<1>3. /\ Len(v2) \in Nat /\ Len(v6) \in Nat /\ Len(v6) >= 1 /\ DOMAIN v2 = 1 .. Len(v2)
      /\ \A n \in 1 .. Len(v2) : v2[n] \in ClaudeFiles
  BY <1>1
<1>4. k \in Nat /\ k + 1 \in 1 .. Len(v2)
  BY <1>2, <1>3
<1>5. Head(v6) = v6[1] /\ Head(v6) \in ClaudeFiles
  BY <1>1
<1>6. Head(v6) = v2[k + 1]
  BY <1>2, <1>3, <1>5
<1>7. \A n \in 1 .. k : n \in 1 .. Len(v2) /\ n # k + 1
  BY <1>3, <1>4
<1>8. \A n \in 1 .. k : v2[n] # Head(v6) /\ v2[n] \in ClaudeFiles
  BY <1>1, <1>3, <1>4, <1>6, <1>7
<1>9. /\ Tail(v6) \in Seq(ClaudeFiles) /\ Len(Tail(v6)) = Len(v6) - 1
      /\ \A j \in 1 .. Len(Tail(v6)) : Tail(v6)[j] = v6[j + 1]
  BY <1>1, HeadTailProperties
<1>10. \A j \in 1 .. Len(Tail(v6)) : Tail(v6)[j] = v2[(k + 1) + j]
  <2> TAKE j \in 1 .. Len(Tail(v6))
  <2>1. PICK i \in 1 .. Len(v6) : i = j + 1 /\ k + i = (k + 1) + j
    BY <1>3, <1>4, <1>9
  <2> QED BY <1>2, <1>9, <2>1
<1>11. Len(Tail(v6)) = Len(v2) - (k + 1)
  BY <1>2, <1>3, <1>4, <1>9
<1> QED BY <1>4, <1>5, <1>6, <1>7, <1>8, <1>9, <1>10, <1>11

\* What is told is told still when files and tables are left alone.
LEMMA ToldSame ==
  ASSUME NEW k, Claude!Told(k), UNCHANGED << v1, v2, v3, v4 >>
  PROVE  Claude!Told(k)'
BY ToldStays DEF Claude!From

LEMMA ClaudeStartKept ==
  ASSUME Claude!ClaudeInv, Claude!Start
  PROVE  Claude!ClaudeInv'
<1>1. Claude!TypeInv /\ Claude!TextsInv
  BY DEF Claude!ClaudeInv
<1>2. v5' = "stat" /\ v6' = v2 /\ UNCHANGED << v1, v2, v3, v4, v7, v8, v10, v11 >>
  BY DEF Claude!Start
<1>3. v2 \in Seq(ClaudeFiles)
  BY <1>1 DEF Claude!TypeInv
<1>4. Claude!TypeInv'
  BY <1>1, <1>2, <1>3 DEF Claude!TypeInv, Claude!Listing
<1>5. Claude!TextsInv'
  BY <1>1, <1>2 DEF Claude!TextsInv
<1>6. Claude!Ahead(0)'
  BY <1>2, <1>3 DEF Claude!Ahead
<1>7. Claude!Told(0)'
  BY DEF Claude!Told
<1>8. 0 \in 0 .. Len(v2')
  BY <1>2, <1>3
<1>9. Claude!CalmInv'
  BY <1>2, <1>6, <1>7, <1>8 DEF Claude!CalmInv
<1> QED BY <1>4, <1>5, <1>9 DEF Claude!ClaudeInv

\* A file is looked at, then read.
LEMMA ClaudeLookKept ==
  ASSUME Claude!ClaudeInv, Claude!Stat \/ Claude!Read
  PROVE  Claude!ClaudeInv'
<1>1. Claude!TypeInv /\ Claude!TextsInv
  BY DEF Claude!ClaudeInv
<1>2. /\ UNCHANGED << v1, v2, v3, v4, v6, v9, v10, v11 >> /\ v6 # << >>
      /\ v5 \in { "stat", "read" } /\ v5' \in { "read", "upsert", "clear" }
      /\ v5' = "upsert" => v7' = v1[Head(v6)] /\ ~v1[Head(v6)].big
      /\ v5' = "clear" => v8' = Claude!From(Head(v6)) /\ v1[Head(v6)].big
  BY <1>1 DEF Claude!Stat, Claude!Read, Claude!TypeInv
<1>3. Head(v6) \in ClaudeFiles
  BY <1>1, <1>2 DEF Claude!TypeInv
<1>4. Claude!TypeInv'
  <2>1. v5' = "upsert" => v7' \in [id : SessionIds, version : Nat, big : BOOLEAN]
    BY <1>1, <1>2, <1>3 DEF Claude!TypeInv
  <2>2. v5' = "clear" => v8' \subseteq SessionIds
    BY <1>2 DEF Claude!From
  <2> QED BY <1>1, <1>2, <2>1, <2>2 DEF Claude!TypeInv, Claude!Listing
<1>5. Claude!TextsInv'
  BY <1>1, <1>2 DEF Claude!TextsInv
<1>6. ASSUME v9'
      PROVE  Claude!CalmInv'
  <2>1. PICK k \in 0 .. Len(v2) : Claude!Ahead(k) /\ Claude!Told(k)
    BY <1>2, <1>6 DEF Claude!ClaudeInv, Claude!CalmInv
  <2>2. Claude!Told(k)'
    BY <1>2, <2>1, ToldSame
  <2>3. Claude!Ahead(k)'
    BY <1>2, <2>1 DEF Claude!Ahead
  <2>4. v5' = "upsert" => ~v7'.big
    BY <1>2
  <2>5. v5' = "clear" => v8' = Claude!From(Head(v6))'
    BY <1>2 DEF Claude!From
  <2> QED BY <1>2, <2>2, <2>3, <2>4, <2>5 DEF Claude!CalmInv
<1> QED BY <1>4, <1>5, <1>6 DEF Claude!ClaudeInv

LEMMA ClaudeFinishKept ==
  ASSUME Claude!ClaudeInv, Claude!Finish
  PROVE  Claude!ClaudeInv'
<1>1. Claude!TypeInv /\ Claude!TextsInv
  BY DEF Claude!ClaudeInv
<1>2. /\ v5 = "stat" /\ v5' = "done" /\ v6 = << >> /\ v6' = << >>
      /\ UNCHANGED << v1, v2, v3, v4, v9, v10, v11 >>
  BY DEF Claude!Finish, Claude!Leave
<1>3. Claude!TypeInv'
  BY <1>1, <1>2 DEF Claude!TypeInv, Claude!Listing
<1>4. Claude!TextsInv'
  BY <1>1, <1>2 DEF Claude!TextsInv
<1>5. ASSUME v9'
      PROVE  Claude!Told(Len(v2))'
  <2>1. PICK k \in 0 .. Len(v2) : Claude!Ahead(k) /\ Claude!Told(k)
    BY <1>2, <1>5 DEF Claude!ClaudeInv, Claude!CalmInv
  <2>2. Len(v2) \in Nat /\ Len(v6) = 0
    BY <1>1, <1>2 DEF Claude!TypeInv
  <2>3. k = Len(v2)
    BY <2>1, <2>2 DEF Claude!Ahead
  <2>4. Claude!Told(k)'
    BY <1>2, <2>1, ToldSame
  <2>5. v2' = v2
    BY <1>2
  <2> QED BY <2>3, <2>4, <2>5
<1>6. v9' => Claude!CalmInv'
  BY <1>2, <1>5 DEF Claude!CalmInv
<1> QED BY <1>3, <1>4, <1>6 DEF Claude!ClaudeInv

\* A file over the cap, whose rows are gone.
LEMMA ClaudeLimitedKept ==
  ASSUME Claude!ClaudeInv, Claude!Limited
  PROVE  Claude!ClaudeInv'
<1>1. Claude!TypeInv /\ Claude!TextsInv
  BY DEF Claude!ClaudeInv
<1>2. /\ v5 = "clear" /\ v5' = "stat" /\ v8 = {} /\ v6' = Tail(v6) /\ v6 # << >>
      /\ UNCHANGED << v1, v2, v3, v4, v7, v8, v9, v10, v11 >>
  BY <1>1 DEF Claude!Limited, Claude!TypeInv
<1>3. Tail(v6) \in Seq(ClaudeFiles)
  BY <1>1, <1>2 DEF Claude!TypeInv
<1>4. Claude!TypeInv'
  BY <1>1, <1>2, <1>3 DEF Claude!TypeInv, Claude!Listing
<1>5. Claude!TextsInv'
  BY <1>1, <1>2 DEF Claude!TextsInv
<1>6. ASSUME v9'
      PROVE  Claude!CalmInv'
  <2>1. PICK k \in 0 .. Len(v2) : Claude!Ahead(k) /\ Claude!Told(k)
    BY <1>2, <1>6 DEF Claude!ClaudeInv, Claude!CalmInv
  <2>2. PICK f : f = Head(v6) /\ v1[f].big /\ Claude!From(f) = {}
    BY <1>2, <1>6 DEF Claude!ClaudeInv, Claude!CalmInv
  <2>3. PICK next : next = k + 1
    OBVIOUS
  <2>4. /\ next \in 1 .. Len(v2) /\ v2[next] = f /\ k \in Nat
        /\ \A n \in 1 .. k : n \in 1 .. Len(v2) /\ v2[n] # f /\ v2[n] \in ClaudeFiles
        /\ Tail(v6) \in Seq(ClaudeFiles) /\ Len(Tail(v6)) = Len(v2) - next
        /\ \A j \in 1 .. Len(Tail(v6)) : Tail(v6)[j] = v2[next + j]
    BY <1>1, <1>2, <2>1, <2>2, <2>3, ClaudeHead
  <2>5. Claude!Ahead(next)'
    BY <1>2, <2>4 DEF Claude!Ahead
  <2>6. Claude!Told(k)'
    BY <1>2, <2>1, ToldSame
  <2>7. \A n \in Nat : Claude!Claimed(n, next)' <=> n < next /\ Claude!Claimed(n, k)'
    <3> TAKE n \in Nat
    <3>1. \A m : m \in (n + 1) .. next <=> m \in (n + 1) .. k \/ (m = next /\ n < next)
      BY <2>3, <2>4
    <3>2. v1'[v2'[next]].big
      BY <1>2, <2>2, <2>4
    <3>3. Claude!Claimed(n, k)' => n < next
      BY <2>3, <2>4 DEF Claude!Claimed
    <3> QED BY <3>1, <3>2, <3>3 DEF Claude!Claimed
  <2>8. Claude!From(f)' = {}
    BY <1>2, <2>2 DEF Claude!From
  <2>9. \A n \in 1 .. next : n \in Nat /\ (n = next \/ (n \in 1 .. k /\ n < next))
    BY <2>3, <2>4
  <2>10. v2'[next] = f /\ v1'[f].big
    BY <1>2, <2>2, <2>4
  <2>11. Claude!Told(next)'
    BY <2>6, <2>7, <2>8, <2>9, <2>10 DEF Claude!Told
  <2>12. next \in 0 .. Len(v2')
    BY <1>2, <2>3, <2>4
  <2> QED BY <1>2, <2>5, <2>11, <2>12 DEF Claude!CalmInv
<1> QED BY <1>4, <1>5, <1>6 DEF Claude!ClaudeInv

\* The two statements that drop a session's text and then its row.
LEMMA ClaudeClearKept ==
  ASSUME Claude!ClaudeInv,
         (\E i \in SessionIds : Claude!ClearFirst(i)) \/ Claude!ClearSecond
  PROVE  Claude!ClaudeInv'
<1>1. Claude!TypeInv /\ Claude!TextsInv
  BY DEF Claude!ClaudeInv
<1>2. PICK p \in SessionIds :
        /\ p \in v8 /\ UNCHANGED << v1, v2, v6, v9, v10, v11 >>
        /\ \/ /\ v5 = "clear" /\ v5' = "clearRest" /\ v7'.id = p
              /\ v4' = Claude!Without(v4, { p }) /\ v3' = v3 /\ v8' = v8
           \/ /\ v5 = "clearRest" /\ v5' = "clear" /\ p = v7.id
              /\ v3' = Claude!Without(v3, { p }) /\ v4' = v4 /\ v8' = v8 \ { p }
  <2>1. CASE \E i \in SessionIds : Claude!ClearFirst(i)
    <3>1. PICK i \in SessionIds : Claude!ClearFirst(i)
      BY <2>1
    <3>2. [Claude!NoSession EXCEPT !.id = i].id = i
      BY DEF Claude!NoSession
    <3> QED BY <3>1, <3>2 DEF Claude!ClearFirst, Claude!Drop, Claude!DropOrder
  <2>2. CASE Claude!ClearSecond
    <3>1. v7.id \in v8 /\ v7.id \in SessionIds
      BY <1>1, <2>2 DEF Claude!ClearSecond, Claude!TypeInv
    <3> QED BY <2>2, <3>1 DEF Claude!ClearSecond, Claude!Drop, Claude!DropOrder
  <2> QED BY <2>1, <2>2
<1>3. v6 # << >> /\ v8 \subseteq SessionIds /\ v5 \in { "clear", "clearRest" }
  BY <1>1, <1>2 DEF Claude!TypeInv
<1>4. /\ \A i \in SessionIds \ { p } : v3'[i] = v3[i] /\ v4'[i] = v4[i]
      /\ v3' = [i \in SessionIds |-> v3'[i]] /\ v4' = [i \in SessionIds |-> v4'[i]]
      /\ v5' = "clearRest" => v4'[p] = NoRow /\ v3'[p] = v3[p]
      /\ v5' = "clear" => v3'[p] = NoRow /\ v4'[p] = v4[p]
  BY <1>1, <1>2 DEF Claude!Without, Claude!TypeInv
<1>5. Claude!TypeInv'
  BY <1>1, <1>2, <1>3, <1>4 DEF Claude!TypeInv, Claude!Listing
<1>6. Claude!TextsInv'
  BY <1>1, <1>2, <1>4 DEF Claude!TextsInv
<1>7. ASSUME v9'
      PROVE  Claude!CalmInv'
  <2>1. PICK k \in 0 .. Len(v2) : Claude!Ahead(k) /\ Claude!Told(k)
    BY <1>2, <1>3, <1>7 DEF Claude!ClaudeInv, Claude!CalmInv
  <2>2. PICK f : f = Head(v6) /\ v1[f].big /\ v8 = Claude!From(f)
    BY <1>2, <1>3, <1>7 DEF Claude!ClaudeInv, Claude!CalmInv
  <2>3. \A n \in 1 .. k : v2[n] # f
    BY <1>1, <1>3, <2>1, <2>2, ClaudeHead
  <2>4. v3[p] # NoRow /\ v3[p].source = f
    BY <1>2, <2>2 DEF Claude!From
  <2>5. ASSUME NEW n \in 1 .. k, NEW i \in SessionIds
        PROVE  /\ i \in Claude!From(v2[n]) <=> i \in Claude!From(v2[n])'
               /\ i \in Claude!From(v2[n]) => v3'[i] = v3[i] /\ v4'[i] = v4[i]
    <3>1. CASE i = p
      <4>1. i \notin Claude!From(v2[n])
        BY <2>3, <2>4, <3>1 DEF Claude!From
      <4>2. i \notin Claude!From(v2[n])'
        BY <1>2, <1>4, <2>3, <2>4, <3>1 DEF Claude!From
      <4> QED BY <4>1, <4>2
    <3>2. CASE i # p
      BY <1>2, <1>4, <3>2 DEF Claude!From
    <3> QED BY <3>1, <3>2
  <2>6. Claude!Told(k)'
    BY <1>2, <2>1, <2>5, ToldStays
  <2>7. Claude!Ahead(k)'
    BY <1>2, <2>1 DEF Claude!Ahead
  <2>8. v8' = Claude!From(f)'
    <3>1. ASSUME NEW i \in SessionIds
          PROVE  i \in v8' <=> i \in Claude!From(f)'
      <4>1. i \in v8 <=> v3[i] # NoRow /\ v3[i].source = f
        BY <2>2 DEF Claude!From
      <4>2. i \in Claude!From(f)' <=> v3'[i] # NoRow /\ v3'[i].source = f
        BY DEF Claude!From
      <4> QED BY <1>2, <1>4, <4>1, <4>2
    <3>2. v8' \subseteq SessionIds /\ Claude!From(f)' \subseteq SessionIds
      BY <1>2, <1>3 DEF Claude!From
    <3> QED BY <3>1, <3>2
  <2>9. v5' \in { "clear", "clearRest" } /\ Head(v6') = f /\ v1'[f].big /\ v2' = v2
    BY <1>2, <2>2
  <2> QED BY <2>1, <2>2, <2>6, <2>7, <2>8, <2>9 DEF Claude!CalmInv
<1> QED BY <1>5, <1>6, <1>7 DEF Claude!ClaudeInv

\* A file's session and text are put in one transaction, its other sessions'
\* dropped.
LEMMA ClaudeUpsertKept ==
  ASSUME Claude!ClaudeInv, Claude!Upsert
  PROVE  Claude!ClaudeInv'
<1>1. Claude!TypeInv /\ Claude!TextsInv
  BY DEF Claude!ClaudeInv
<1>2. /\ v5 = "upsert" /\ v5' = "stat" /\ v6' = Tail(v6) /\ v6 # << >>
      /\ UNCHANGED << v1, v2, v8, v9, v10, v11 >>
  BY <1>1 DEF Claude!Upsert, Claude!TypeInv
<1>3. PICK f, row, p :
        /\ f = Head(v6) /\ f \in ClaudeFiles /\ p = v7.id /\ p \in SessionIds
        /\ row = Claude!Row(f, v7) /\ row # NoRow /\ row.source = f
  <2>1. Head(v6) \in ClaudeFiles /\ v7.version \in Nat /\ v7.id \in SessionIds
    BY <1>1, <1>2 DEF Claude!TypeInv
  <2>2. Claude!Row(Head(v6), v7) \in Claude!Records /\ Claude!Row(Head(v6), v7).source = Head(v6)
    BY <2>1 DEF Claude!Row, Claude!Records
  <2>3. Claude!Row(Head(v6), v7) # NoRow
    BY <2>2, ClaudesAreTold
  <2> QED BY <2>1, <2>2, <2>3
<1>4. PICK others \in SUBSET SessionIds :
        /\ others = Claude!From(f) \ { p }
        /\ v3' = [Claude!Without(v3, others) EXCEPT ![p] = row]
        /\ v4' = [Claude!Without(v4, others) EXCEPT ![p] = row]
  <2>1. Claude!Remapped = Claude!From(f) \ { p } /\ Claude!Remapped \subseteq SessionIds
    BY <1>3 DEF Claude!Remapped, Claude!From
  <2> QED BY <1>3, <2>1 DEF Claude!Upsert
<1>5. /\ v3' = [i \in SessionIds |-> v3'[i]] /\ v4' = [i \in SessionIds |-> v4'[i]]
      /\ v3'[p] = row /\ v4'[p] = row
      /\ \A i \in others : v3'[i] = NoRow /\ v4'[i] = NoRow
      /\ \A i \in SessionIds \ { p } : i \notin others => v3'[i] = v3[i] /\ v4'[i] = v4[i]
  BY <1>3, <1>4 DEF Claude!Without
<1>6. Claude!TypeInv'
  <2>1. Tail(v6) \in Seq(ClaudeFiles)
    BY <1>1, <1>2 DEF Claude!TypeInv
  <2> QED BY <1>1, <1>2, <1>5, <2>1 DEF Claude!TypeInv, Claude!Listing
<1>7. Claude!TextsInv'
  <2>1. \A i \in SessionIds \ v10 : v4'[i] \in { NoRow, v3'[i] }
    BY <1>1, <1>5 DEF Claude!TextsInv
  <2> QED BY <1>2, <2>1 DEF Claude!TextsInv
<1>8. ASSUME v9'
      PROVE  Claude!CalmInv'
  <2>1. PICK k \in 0 .. Len(v2) : Claude!Ahead(k) /\ Claude!Told(k)
    BY <1>2, <1>8 DEF Claude!ClaudeInv, Claude!CalmInv
  <2>2. v7 = v1[f] /\ ~v1[f].big
    BY <1>2, <1>3, <1>8 DEF Claude!ClaudeInv, Claude!CalmInv
  <2>3. PICK next : next = k + 1
    OBVIOUS
  <2>4. /\ next \in 1 .. Len(v2) /\ v2[next] = f /\ k \in Nat
        /\ \A n \in 1 .. k : n \in 1 .. Len(v2) /\ v2[n] # f /\ v2[n] \in ClaudeFiles
        /\ Tail(v6) \in Seq(ClaudeFiles) /\ Len(Tail(v6)) = Len(v2) - next
        /\ \A j \in 1 .. Len(Tail(v6)) : Tail(v6)[j] = v2[next + j]
    BY <1>1, <1>2, <1>3, <2>1, <2>3, ClaudeHead
  <2>5. Claude!Ahead(next)'
    BY <1>2, <2>4 DEF Claude!Ahead
  <2>6. Claude!From(f)' = { p }
    <3>1. ASSUME NEW i \in SessionIds
          PROVE  v3'[i] # NoRow /\ v3'[i].source = f <=> i = p
      <4>1. CASE i = p
        BY <1>3, <1>5, <4>1
      <4>2. CASE i \in others
        BY <1>4, <1>5, <4>2
      <4>3. CASE i # p /\ i \notin others
        <5>1. ~(v3[i] # NoRow /\ v3[i].source = f)
          BY <1>4, <4>3 DEF Claude!From
        <5> QED BY <1>5, <4>3, <5>1
      <4> QED BY <4>1, <4>2, <4>3
    <3> QED BY <1>3, <3>1 DEF Claude!From
  <2>7. ASSUME NEW n \in 1 .. k
        PROVE  /\ Claude!From(v2[n])' = Claude!From(v2[n]) \ { p }
               /\ \A i \in Claude!From(v2[n])' : v3'[i] = v3[i] /\ v4'[i] = v4[i]
    <3>1. ASSUME NEW i \in SessionIds
          PROVE  /\ i \in Claude!From(v2[n])' <=> i \in Claude!From(v2[n]) /\ i # p
                 /\ i \in Claude!From(v2[n])' => v3'[i] = v3[i] /\ v4'[i] = v4[i]
      <4>1. v2[n] # f /\ v2' = v2
        BY <1>2, <2>4
      <4>2. /\ i \in Claude!From(v2[n])' <=> v3'[i] # NoRow /\ v3'[i].source = v2[n]
            /\ i \in Claude!From(v2[n]) <=> v3[i] # NoRow /\ v3[i].source = v2[n]
        BY <4>1 DEF Claude!From
      <4>3. CASE i = p
        BY <1>3, <1>5, <4>1, <4>2, <4>3
      <4>4. CASE i \in others
        <5>1. v3[i].source = f /\ v3'[i] = NoRow
          BY <1>4, <1>5, <4>4 DEF Claude!From
        <5> QED BY <4>1, <4>2, <5>1
      <4>5. CASE i # p /\ i \notin others
        BY <1>5, <4>2, <4>5
      <4> QED BY <4>3, <4>4, <4>5
    <3>2. Claude!From(v2[n])' \subseteq SessionIds /\ Claude!From(v2[n]) \subseteq SessionIds
      BY DEF Claude!From
    <3> QED BY <3>1, <3>2
  <2>8. \A n \in 1 .. k : Claude!Claimed(n, next)' <=> Claude!Claimed(n, k) \/ v1[v2[n]].id = p
    <3> TAKE n \in 1 .. k
    <3>1. \A m : m \in (n + 1) .. next <=> m \in (n + 1) .. k \/ m = next
      BY <2>3, <2>4
    <3>2. ~v1[v2[next]].big /\ v1[v2[next]].id = p
      BY <1>3, <2>2, <2>4
    <3> QED BY <1>2, <3>1, <3>2 DEF Claude!Claimed
  <2>9. ~Claude!Claimed(next, next)'
    BY <2>4 DEF Claude!Claimed
  <2>10. ASSUME NEW n \in 1 .. next
         PROVE  LET g == v2[n]
                IN /\ Claude!From(g)' = IF v1'[g].big \/ Claude!Claimed(n, next)'
                                        THEN {} ELSE { v1'[g].id }
                   /\ \A i \in Claude!From(g)' : v3'[i] = Claude!Row(g, v1'[g]) /\ v4'[i] = v3'[i]
    <3>1. CASE n = next
      <4>1. v2[n] = f /\ v1'[f] = v7
        BY <1>2, <2>2, <2>4, <3>1
      <4>2. ~v1'[f].big /\ v1'[f].id = p /\ row = Claude!Row(f, v1'[f])
        BY <1>2, <1>3, <2>2
      <4>3. \A i \in Claude!From(f)' : v3'[i] = row /\ v4'[i] = row
        BY <1>5, <2>6
      <4>4. Claude!From(v2[n])' = Claude!From(f)'
        BY <1>2, <4>1 DEF Claude!From
      <4> QED BY <2>6, <2>9, <3>1, <4>1, <4>2, <4>3, <4>4
    <3>2. CASE n # next
      <4>1. n \in 1 .. k
        BY <2>3, <2>4, <3>2
      <4>2. PICK g : g = v2[n]
        OBVIOUS
      <4>3. /\ Claude!From(g) = IF v1[g].big \/ Claude!Claimed(n, k) THEN {} ELSE { v1[g].id }
            /\ \A i \in Claude!From(g) : v3[i] = Claude!Row(g, v1[g]) /\ v4[i] = v3[i]
        BY <2>1, <4>1, <4>2 DEF Claude!Told
      <4>4. Claude!From(v2[n])' = Claude!From(g)'
        BY <1>2, <4>2 DEF Claude!From
      <4>5. Claude!From(g)' = Claude!From(g) \ { p }
        BY <2>7, <4>1, <4>2, <4>4
      <4>6. Claude!Claimed(n, next)' <=> Claude!Claimed(n, k) \/ v1[g].id = p
        BY <2>8, <4>1, <4>2
      <4>7. Claude!From(g)' = IF v1[g].big \/ Claude!Claimed(n, next)' THEN {} ELSE { v1[g].id }
        BY <4>3, <4>5, <4>6
      <4>8. \A i \in Claude!From(g)' : v3'[i] = Claude!Row(g, v1[g]) /\ v4'[i] = v3'[i]
        BY <2>7, <4>1, <4>2, <4>3, <4>4, <4>5
      <4> QED BY <1>2, <4>2, <4>4, <4>7, <4>8
    <3> QED BY <3>1, <3>2
  <2>11. Claude!Told(next)'
    BY <1>2, <2>10 DEF Claude!Told
  <2>12. next \in 0 .. Len(v2')
    BY <1>2, <2>3, <2>4
  <2> QED BY <1>2, <2>5, <2>11, <2>12 DEF Claude!CalmInv
<1> QED BY <1>6, <1>7, <1>8 DEF Claude!ClaudeInv

\* What happens around the run, and what ends or interrupts it.
LEMMA ClaudeStopKept ==
  ASSUME Claude!ClaudeInv, Claude!Die \/ Claude!Fail
  PROVE  Claude!ClaudeInv'
<1>1. Claude!TypeInv /\ Claude!TextsInv
  BY DEF Claude!ClaudeInv
<1>2. /\ UNCHANGED << v1, v2, v3, v4, v10 >> /\ v5' \in { "idle", "stat" } /\ v9' = FALSE
      /\ v11' = v11 + 1 /\ (v6' = << >> \/ (v6' = Tail(v6) /\ v6 # << >>))
  BY DEF Claude!Die, Claude!Fail, Claude!Leave, Claude!Around
<1>3. v6' \in Seq(ClaudeFiles)
  <2>1. v6 \in Seq(ClaudeFiles)
    BY <1>1 DEF Claude!TypeInv
  <2>2. CASE v6' = << >>
    BY <2>2
  <2>3. CASE v6' = Tail(v6) /\ v6 # << >>
    BY <2>1, <2>3
  <2> QED BY <1>2, <2>2, <2>3
<1>4. Claude!TypeInv'
  <2>1. v11' \in Nat
    BY <1>1, <1>2 DEF Claude!TypeInv
  <2>2. v2' \in Seq(ClaudeFiles) /\ Claude!Listing(v2)'
    BY <1>1, <1>2 DEF Claude!TypeInv, Claude!Listing
  <2>3. /\ v1' \in [ClaudeFiles -> [id : SessionIds, version : Nat, big : BOOLEAN]]
        /\ v3' = [i \in SessionIds |-> v3'[i]] /\ v4' = [i \in SessionIds |-> v4'[i]]
    BY <1>1, <1>2 DEF Claude!TypeInv
  <2> QED BY <1>2, <1>3, <2>1, <2>2, <2>3 DEF Claude!TypeInv
<1> QED BY <1>1, <1>2, <1>4 DEF Claude!ClaudeInv, Claude!TextsInv

LEMMA ClaudeWriteKept ==
  ASSUME Claude!ClaudeInv, NEW f \in ClaudeFiles, Claude!Write(f)
  PROVE  Claude!ClaudeInv'
<1>1. Claude!TypeInv /\ Claude!TextsInv
  BY DEF Claude!ClaudeInv
<1>2. /\ UNCHANGED << v3, v4, v5, v6, v7, v8, v10 >> /\ v2' = Claude!Fronted(f)
      /\ v9' = FALSE /\ v11' = v11 + 1
  BY DEF Claude!Write, Claude!Around, Claude!runVars
<1>3. v1' \in [ClaudeFiles -> [id : SessionIds, version : Nat, big : BOOLEAN]]
  <2>1. PICK i \in SessionIds, big \in BOOLEAN :
          v1' = [v1 EXCEPT ![f] = [id |-> i, version |-> v11', big |-> big]]
    BY DEF Claude!Write
  <2>2. v11' \in Nat
    BY <1>1, <1>2 DEF Claude!TypeInv
  <2> QED BY <1>1, <2>1, <2>2 DEF Claude!TypeInv
<1>4. PICK new : new = Claude!Fronted(f) /\ new \in Seq(ClaudeFiles) /\ Claude!Listing(new)
  BY <1>1, ClaudeFronted
<1>5. Claude!TypeInv'
  <2>1. v2' = new /\ v11' \in Nat
    BY <1>1, <1>2, <1>4 DEF Claude!TypeInv
  <2>2. v2' \in Seq(ClaudeFiles) /\ Claude!Listing(v2)'
    BY <1>4, <2>1 DEF Claude!Listing
  <2>3. v3' = [i \in SessionIds |-> v3'[i]] /\ v4' = [i \in SessionIds |-> v4'[i]]
    BY <1>1, <1>2 DEF Claude!TypeInv
  <2>4. /\ v6' \in Seq(ClaudeFiles)
        /\ v5' \in { "idle", "done", "stat", "read", "upsert", "clear", "clearRest" }
        /\ v5' \in { "read", "upsert", "clear", "clearRest" } => v6' # << >>
        /\ v5' = "upsert" => v7' \in [id : SessionIds, version : Nat, big : BOOLEAN]
        /\ v5' \in { "clear", "clearRest" } => v8' \subseteq SessionIds
        /\ v5' = "clearRest" => v7'.id \in v8'
    BY <1>1, <1>2 DEF Claude!TypeInv
  <2> QED BY <1>3, <2>1, <2>2, <2>3, <2>4 DEF Claude!TypeInv
<1> QED BY <1>1, <1>2, <1>5 DEF Claude!ClaudeInv, Claude!TextsInv

LEMMA ClaudeInventoryKept ==
  ASSUME Claude!ClaudeInv, NEW accepted \in SUBSET SessionIds, NEW rejected \in SUBSET SessionIds,
         Claude!Inventory(accepted, rejected)
  PROVE  Claude!ClaudeInv'
<1>1. Claude!TypeInv /\ Claude!TextsInv
  BY DEF Claude!ClaudeInv
<1>2. /\ UNCHANGED << v1, v2, v5, v6, v7, v8 >> /\ v9' = FALSE /\ v11' = v11 + 1
      /\ v10' = v10 \cup (accepted \cap (v8 \cup { v7.id }))
  BY DEF Claude!Inventory, Claude!Around, Claude!runVars
<1>3. PICK row :
        /\ v3' = [i \in SessionIds |->
                    IF i \in accepted THEN row ELSE IF i \in rejected THEN NoRow ELSE v3[i]]
        /\ v4' = [i \in SessionIds |->
                    IF i \in accepted THEN row ELSE IF i \in rejected THEN NoRow ELSE v4[i]]
  BY DEF Claude!Inventory, Claude!Without
<1>4. Claude!TypeInv'
  BY <1>1, <1>2, <1>3 DEF Claude!TypeInv, Claude!Listing
<1>5. \A i \in SessionIds \ v10' : v4'[i] \in { NoRow, v3'[i] }
  BY <1>1, <1>2, <1>3 DEF Claude!TextsInv
<1>6. v5' = "clearRest" /\ v7'.id \notin v10' => v4'[v7'.id] = NoRow
  <2>1. v5 = "clearRest" => v7.id \in SessionIds
    BY <1>1 DEF Claude!TypeInv
  <2> QED BY <1>1, <1>2, <1>3, <2>1 DEF Claude!TextsInv
<1> QED BY <1>2, <1>4, <1>5, <1>6 DEF Claude!ClaudeInv, Claude!TextsInv

(***************************************************************************)
(* What the search finds is a session's text as its row has it, and a run  *)
(* that nothing disturbs leaves the rows that the files call for: for any  *)
(* files and sessions, over any number of runs, wherever one may die, a    *)
(* file fail, or another process or Claude Code write.                     *)
(***************************************************************************)
THEOREM ClaudeRowsTellTheFiles == StoreSpec => []RowsTellTheFiles
<1> DEFINE I == component = "claude" => Claude!ClaudeInv
<1>1. StoreInit => I
  BY StartsOfOne, ClaudeInit
<1>2. ASSUME Claude!ClaudeInv, Claude!Next \/ UNCHANGED Claude!vars
      PROVE  Claude!ClaudeInv'
  <2>1. CASE Claude!Next
    BY <1>2, <2>1, ClaudeStartKept, ClaudeLookKept, ClaudeUpsertKept, ClaudeClearKept,
       ClaudeLimitedKept, ClaudeFinishKept, ClaudeStopKept, ClaudeWriteKept, ClaudeInventoryKept
    DEF Claude!Next
  <2>2. CASE UNCHANGED Claude!vars
    <3>1. UNCHANGED << v1, v2, v3, v4, v5, v6, v7, v8, v9, v10, v11 >>
      BY <2>2 DEF Claude!vars, Claude!runVars
    <3>2. \A k : Claude!Told(k) => Claude!Told(k)'
      BY <3>1, ToldSame
    <3>3. \A k : Claude!Ahead(k) => Claude!Ahead(k)'
      BY <3>1 DEF Claude!Ahead
    <3>4. Claude!TypeInv' /\ Claude!TextsInv'
      BY <1>2, <3>1 DEF Claude!ClaudeInv, Claude!TypeInv, Claude!TextsInv, Claude!Listing
    <3>5. v9' => Claude!CalmInv'
      BY <1>2, <3>1, <3>2, <3>3 DEF Claude!ClaudeInv, Claude!CalmInv, Claude!From
    <3> QED BY <3>4, <3>5 DEF Claude!ClaudeInv
  <2> QED BY <1>2, <2>1, <2>2
<1>3. I /\ [StoreNext]_vars => I'
  BY <1>2, StepsOfOne
<1>4. I => RowsTellTheFiles
  BY DEF RowsTellTheFiles, Claude!RowsTellTheFiles, Claude!ClaudeInv, Claude!TextsInv, Claude!CalmInv
<1> QED BY <1>1, <1>3, <1>4, PTL DEF StoreSpec
=============================================================================
