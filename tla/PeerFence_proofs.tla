--------------------------- MODULE PeerFence_proofs ---------------------------
(***************************************************************************)
(* Proofs about PeerFence, for any peers, bounds and word size: LSNs       *)
(* survive their conversions, and the inductive invariant from which a     *)
(* recorded fence covers what it says and a run's stamps are honest.       *)
(***************************************************************************)
EXTENDS PeerFence, TLAPS

------------------------------------------------------------------------------
(* LSNs: text, u64 and i64. *)

LEMMA Words ==
  \A w \in Nat \ {0}, l \in Nat :
    /\ l \div w \in Nat
    /\ l % w \in 0..w - 1
    /\ (l \div w) * w + (l % w) = l
OBVIOUS

LEMMA HighWord ==
  \A w \in Nat \ {0}, l \in Nat : l < w * w => l \div w < w
<1> SUFFICES ASSUME NEW w \in Nat \ {0}, NEW l \in Nat, l < w * w
             PROVE  l \div w < w
  OBVIOUS
<1> DEFINE q == l \div w
<1>1. q \in Nat /\ q * w <= l
  BY Words
<1>2. ASSUME q >= w PROVE FALSE
  <2>1. q * w >= w * w
    BY <1>1, <1>2
  <2> QED
    BY <1>1, <2>1
<1> QED
  BY <1>1, <1>2

\* format_lsn and parse_lsn are inverse on the LSNs of a server.
LEMMA ShownIsSame ==
  ASSUME NEW l \in Lsn
  PROVE  Shown(l) = {l}
<1>1. l \in Nat /\ Word \in Nat \ {0} /\ l < Word * Word
  BY ReplicasAssumption DEF Lsn
<1>2. l \div Word < Word
  BY <1>1, HighWord
<1>3. l % Word < Word /\ (l \div Word) * Word + (l % Word) = l
  BY <1>1, Words
<1>4. FormatLsn(l).high = l \div Word /\ FormatLsn(l).low = l % Word
  BY DEF FormatLsn
<1> QED
  BY ONLY <1>2, <1>3, <1>4 DEF Shown, ParseLsn

\* The casts between u64 and i64 keep an LSN below 2^63.
LEMMA ReturnedIsSame ==
  ASSUME NEW l \in Lsn
  PROVE  Returned(l) = l /\ AsU64(l) = {l}
<1>1. l \in Nat /\ 2 * l < Word * Word
  BY ReplicasAssumption DEF Lsn
<1> QED
  BY <1>1 DEF Returned, AsU64, AsPgLsn, AsI64

------------------------------------------------------------------------------
(* What the calls return. *)

LEMMA Positions ==
  ASSUME ReplicasTypeOK, NEW p \in Peer
  PROVE  /\ wal \in Nat /\ wal \in Lsn
         /\ written \in Nat /\ written \in Lsn /\ written <= wal
         /\ applied[p] \in Nat /\ applied[p] \in Lsn /\ applied[p] <= written
         /\ confirmed[p] \in Nat /\ confirmed[p] \in Lsn
BY ReplicasAssumption DEF ReplicasTypeOK, Lsn

LEMMA SlotAnswers ==
  ASSUME ReplicasTypeOK, NEW p \in Peer, NEW l \in Lsn
  PROVE  /\ \A c \in RemoteSlotConfirmedFlushLsn(p) : c = confirmed[p]
         /\ \A c \in RemoteWaitSlotConfirmLsn(p, l) : c = confirmed[p]
<1>1. Shown(confirmed[p]) = {confirmed[p]} /\ Returned(confirmed[p]) = confirmed[p]
  BY Positions, ShownIsSame, ReturnedIsSame
<1>2. AsU64(l) = {l} /\ Shown(l) = {l}
  BY ShownIsSame, ReturnedIsSame
<1>3. \A c \in WaitSlotConfirmLsn(p, l) : c = confirmed[p]
  BY <1>1 DEF WaitSlotConfirmLsn
<1> QED
  BY <1>1, <1>2, <1>3 DEF RemoteSlotConfirmedFlushLsn, FetchSlotConfirmedFlushLsn,
     RemoteWaitSlotConfirmLsn

LEMMA ObserveAnswers ==
  ASSUME ReplicasTypeOK, NEW p \in Peer, NEW l \in Lsn, NEW t,
         NEW o \in RemoteObserveBarrier(p, t, l)
  PROVE  /\ o.origin_progress_lsn = applied[p]
         /\ o.converged => l <= applied[p]
<1>1. Shown(applied[p]) = {applied[p]} /\ Returned(applied[p]) = applied[p]
  BY Positions, ShownIsSame, ReturnedIsSame
<1>2. AsU64(l) = {l} /\ Shown(l) = {l}
  BY ShownIsSame, ReturnedIsSame
<1>3. PICK q \in ObserveBarrier(p, t, l) :
        o = [q EXCEPT !.origin_progress_lsn = Returned(@)]
  BY <1>2 DEF RemoteObserveBarrier
<1>4. q = [origin_progress_lsn |-> applied[p], token_visible |-> t \in seen[p],
           converged |-> l <= applied[p] /\ t \in seen[p]]
  BY <1>1, <1>2 DEF ObserveBarrier
<1> QED
  BY <1>1, <1>3, <1>4

LEMMA ReplayAnswers ==
  ASSUME ReplicasTypeOK, NEW p \in Peer, NEW s \in RemoteStandbyReplayStatus(p)
  PROVE  s.replay_lsn = applied[p]
<1>1. Shown(applied[p]) = {applied[p]} /\ Returned(applied[p]) = applied[p]
  BY Positions, ShownIsSame, ReturnedIsSame
<1>2. PICK q \in FetchStandbyReplayStatus(p) :
        s = [q EXCEPT !.replay_lsn = Returned(@)]
  BY DEF RemoteStandbyReplayStatus
<1>3. q = [in_recovery |-> p \notin promoted, replay_lsn |-> applied[p]]
  BY <1>1, <1>2 DEF FetchStandbyReplayStatus
<1> QED
  BY <1>1, <1>2, <1>3

LEMMA ProviderAnswers ==
  ASSUME ReplicasTypeOK, Peer # {}
  PROVE  /\ \A l \in RemoteCurrentWalLsn : l = written
         /\ \A i \in RemoteInjectBarrier : wal < MaxLsn =>
              i.token = wal + 1 /\ i.barrier_end_lsn = wal + 1
<1>1. written \in Lsn /\ wal \in Nat
  BY Positions
<1>2. Shown(written) = {written} /\ Returned(written) = written
  BY <1>1, ShownIsSame, ReturnedIsSame
<1>3. \A l \in RemoteCurrentWalLsn : l = written
  BY <1>2 DEF RemoteCurrentWalLsn, FetchCurrentWalLsn
<1>4. ASSUME wal < MaxLsn, NEW i \in RemoteInjectBarrier
      PROVE  i.token = wal + 1 /\ i.barrier_end_lsn = wal + 1
  <2>1. wal + 1 \in Lsn
    BY <1>1, <1>4, ReplicasAssumption DEF Lsn
  <2>2. Shown(wal + 1) = {wal + 1} /\ Returned(wal + 1) = wal + 1
    BY <2>1, ShownIsSame, ReturnedIsSame
  <2> QED
    BY <2>2 DEF RemoteInjectBarrier, BarrierInjection
<1> QED
  BY <1>3, <1>4

------------------------------------------------------------------------------
(* The databases only go forward. *)

Later ==
  /\ ReplicasTypeOK'
  /\ backend' = backend
  /\ wal <= wal'
  /\ \A p \in Peer : applied[p] <= applied'[p] /\ confirmed[p] <= confirmed'[p]

LEMMA SameIsLater ==
  ASSUME ReplicasTypeOK, UNCHANGED replicas
  PROVE  Later
<1>1. ReplicasTypeOK'
  BY DEF ReplicasTypeOK, replicas
<1>2. wal \in Nat /\ \A p \in Peer : applied[p] \in Nat /\ confirmed[p] \in Nat
  BY Positions, ReplicasAssumption DEF ReplicasTypeOK, Lsn
<1> QED
  BY <1>1, <1>2 DEF Later, replicas

LEMMA InjectIsLater ==
  ASSUME ReplicasTypeOK, InjectBarrier
  PROVE  Later
<1> USE ReplicasAssumption DEF ReplicasTypeOK, InjectBarrier, Lsn
<1>1. ReplicasTypeOK'
  OBVIOUS
<1> QED
  BY <1>1 DEF Later

LEMMA DatabasesLater ==
  ASSUME ReplicasTypeOK, Databases
  PROVE  Later
<1> USE ReplicasAssumption DEF ReplicasTypeOK, Lsn
<1>1. CASE Commit
  BY <1>1 DEF Commit, Later
<1>2. CASE WriteWal
  BY <1>2 DEF WriteWal, Later
<1>3. ASSUME NEW p \in Peer, Apply(p) PROVE Later
  <2>1. seen' \in [Peer -> SUBSET barriers]
    BY <1>3 DEF Apply
  <2>2. applied' \in [Peer -> 0..written]
    BY <1>3 DEF Apply
  <2>3. \A q \in Peer : applied[q] <= applied'[q]
    BY <1>3 DEF Apply
  <2>4. \A q \in Peer : confirmed[q] <= applied'[q]
    BY <2>2, <2>3
  <2>5. ReplicasTypeOK'
    BY <1>3, <2>1, <2>2, <2>4 DEF Apply
  <2> QED
    BY <1>3, <2>3, <2>5 DEF Apply, Later
<1>4. ASSUME NEW p \in Peer, Confirm(p) PROVE Later
  BY <1>4 DEF Confirm, Later
<1>5. ASSUME NEW p \in Peer, Promote(p) PROVE Later
  BY <1>5 DEF Promote, Later
<1>6. ASSUME NEW p \in Peer, NEW b \in barriers, Forward(p, b) PROVE Later
  <2>1. seen' \in [Peer -> SUBSET barriers]
    BY <1>6 DEF Forward
  <2> QED
    BY <1>6, <2>1 DEF Forward, Later
<1>7. ASSUME NEW p \in Peer, NEW b \in barriers, Cleanup(p, b) PROVE Later
  <2>1. seen' \in [Peer -> SUBSET barriers]
    BY <1>7 DEF Cleanup
  <2> QED
    BY <1>7, <2>1 DEF Cleanup, Later
<1> QED
  BY <1>1, <1>2, <1>3, <1>4, <1>5, <1>6, <1>7 DEF Databases

------------------------------------------------------------------------------
(* The inductive invariant. *)

\* What the coordinator waits for, at each step of a fence.
Awaited ==
  /\ pc \in {"status", "sync", "wait_slot", "slot", "observe", "last_look"} =>
       backend[cur] # "standby"
  /\ pc \in {"sync", "wait_slot", "slot", "observe", "last_look"} =>
       kind \in {"barrier", "degraded"}
  /\ pc = "capture" => (kind = "standby_replay" <=> backend[cur] = "standby")
  /\ pc = "replay" => kind = "standby_replay" /\ backend[cur] = "standby"
  /\ pc = "observe" => kind = "barrier"
  /\ pc \in {"wait_slot", "slot", "observe", "last_look", "replay"} =>
       target = IF kind = "barrier" THEN cut.wal + 1 ELSE cut.written
  /\ pc \in {"capture", "wait_slot", "slot", "observe", "last_look", "replay"} =>
       /\ cur \in current_edge_ids
       /\ kind = "degraded" => degraded_mode

\* What the rows say of an edge, and that a re-fence visits recorded edges.
EdgesKnown ==
  /\ run_edge \subseteq current_edge_ids
  /\ \A p \in run_edge :
       /\ fence_edge[p].fence_kind \in FenceKind
       /\ fence_edge[p].fence_kind = "standby_replay" <=> backend[p] = "standby"
       /\ fence_edge[p].fence_kind = "degraded" => degraded_mode
  /\ \A p \in Peer : fence_attempt[p].status # "none" => p \in run_edge
  /\ refencing => todo \subseteq run_edge

Fenced(p) ==
  /\ fence_attempt[p].epoch_seq = epoch
  /\ \/ fence_attempt[p].status = "converged"
     \/ fence_attempt[p].status = "degraded" /\ degraded_mode

\* Of the peers still compared, those the loop has passed are fenced.
Progressed ==
  /\ pc \in {"throttle", "chunk", "done"} => \A p \in peer_names : Fenced(p)
  /\ pc \in {"throttle", "chunk", "done"} => ~refencing
  /\ pc \notin {"throttle", "chunk", "done", "failed"} =>
       \A p \in peer_names \ todo : pc = "next" \/ p # cur => Fenced(p)
  /\ peer_names # Peer => partial_mode

IInv ==
  /\ TypeOK
  /\ Awaited
  /\ EdgesKnown
  /\ Progressed
  /\ ConvergedCovers
  /\ DegradedCovers

LEMMA InitInv == Init => IInv
<1> SUFFICES ASSUME Init PROVE IInv
  OBVIOUS
<1>1. ReplicasTypeOK
  BY ReplicasAssumption DEF Init, ReplicasInit, ReplicasTypeOK, Lsn
<1>2. 0 \in Lsn /\ NoCut \in Cut
  BY ReplicasAssumption DEF Lsn, Cut, NoCut
<1>3. cur \in Peer
  BY DEF Init, First
<1>4. fence_edge \in [Peer -> [fence_kind : FenceKind \cup {"none"}, barrier_end_lsn : Lsn]]
  BY <1>2 DEF Init
<1>5. fence_attempt \in [Peer -> [status : {"none", "converged", "degraded"},
                                  epoch_seq : 0..MaxChunks + 1, cut : Cut]]
  BY <1>2, PeerFenceAssumption DEF Init
<1>6. epoch \in 1..chunks + 1 /\ chunks \in 0..MaxChunks
  BY PeerFenceAssumption DEF Init
<1>7. TypeOK
  BY <1>1, <1>2, <1>3, <1>4, <1>5, <1>6 DEF Init, TypeOK, FenceKind, Waiting
<1> QED
  BY <1>7 DEF Init, IInv, Awaited, EdgesKnown, Progressed, ConvergedCovers,
     DegradedCovers

\* A recorded fence stays covered while the databases go forward.
LEMMA StaysCovered ==
  ASSUME IInv, Later, UNCHANGED fence_attempt
  PROVE  ConvergedCovers' /\ DegradedCovers'
<1> USE DEF IInv, TypeOK, Cut, Lsn
<1>1. \A p \in Peer : /\ fence_attempt[p].cut.wal \in Nat
                      /\ fence_attempt[p].cut.written \in Nat
                      /\ applied[p] \in Nat /\ applied'[p] \in Nat
                      /\ confirmed[p] \in Nat /\ confirmed'[p] \in Nat
  BY ReplicasAssumption DEF Later, ReplicasTypeOK
<1>2. ConvergedCovers'
  BY <1>1 DEF ConvergedCovers, Later
<1>3. DegradedCovers'
  BY <1>1 DEF DegradedCovers, Later
<1> QED
  BY <1>2, <1>3

\* An exception in a fence: the peer is left out, or the call fails.
LEMMA RaiseInv ==
  ASSUME IInv, Raise, Later, pc \notin {"next", "chunk", "done", "failed"}
  PROVE  IInv'
<1> USE DEF IInv, Raise, round, edge, rows
<1>1. TypeOK'
  BY DEF TypeOK, Later
<1>2. Awaited' /\ EdgesKnown'
  BY DEF Awaited, EdgesKnown, Later
<1>3. Progressed'
  BY DEF Progressed, Fenced, TypeOK
<1> QED
  BY <1>1, <1>2, <1>3, StaysCovered

LEMMA SkipPeerInv ==
  ASSUME IInv, SkipPeer, UNCHANGED replicas, pc = "sync"
  PROVE  IInv'
<1> USE DEF IInv, SkipPeer, round, edge, rows
<1>0. Later
  BY SameIsLater DEF TypeOK
<1>1. TypeOK'
  BY <1>0 DEF TypeOK, Later
<1>2. Awaited' /\ EdgesKnown'
  BY <1>0 DEF Awaited, EdgesKnown, Later
<1>3. Progressed'
  BY DEF Progressed, Fenced, TypeOK
<1> QED
  BY <1>0, <1>1, <1>2, <1>3, StaysCovered

\* A fence is recorded, having reached its target.
LEMMA RecordInv ==
  ASSUME IInv, UNCHANGED replicas, NEW status \in {"converged", "degraded"},
         Record(status),
         pc \in {"wait_slot", "slot", "observe", "replay"},
         IF status = "degraded" THEN kind = "degraded" /\ confirmed[cur] >= target
         ELSE pc \in {"observe", "replay"} /\ applied[cur] >= target
  PROVE  IInv'
<1> USE DEF IInv, Record, round, edge, scope
<1>0. Later
  BY SameIsLater DEF TypeOK
<1>1. TypeOK'
  BY <1>0, PeerFenceAssumption DEF TypeOK, Later
<1>2. Awaited'
  BY DEF Awaited
<1>3. EdgesKnown'
  BY <1>0 DEF EdgesKnown, Awaited, TypeOK, Later
<1>4. Progressed'
  BY DEF Progressed, Fenced, Awaited, TypeOK
<1>5. ConvergedCovers'
  BY <1>0 DEF ConvergedCovers, Awaited, TypeOK, Later, replicas
<1>6. DegradedCovers'
  BY <1>0 DEF DegradedCovers, Awaited, TypeOK, Later, replicas
<1> QED
  BY <1>1, <1>2, <1>3, <1>4, <1>5, <1>6

------------------------------------------------------------------------------
(* The steps. *)

LEMMA NextEdgeInv == ASSUME IInv, NextEdge PROVE IInv'
<1> USE DEF IInv, NextEdge, round, rows
<1>0. Later
  BY SameIsLater DEF TypeOK
<1>1. cur' \in todo /\ todo \subseteq Peer
  BY DEF First, TypeOK
<1>2. CASE refencing
  <2>1. cur' \in run_edge
    BY <1>1, <1>2 DEF EdgesKnown
  <2>2. TypeOK'
    BY <1>0, <1>1, <1>2, <2>1 DEF TypeOK, Later, EdgesKnown
  <2>3. Awaited' /\ EdgesKnown'
    BY <1>0, <1>1, <1>2, <2>1 DEF Awaited, EdgesKnown, Later
  <2>4. Progressed'
    BY <1>2 DEF Progressed, Fenced
  <2> QED
    BY <1>0, <2>2, <2>3, <2>4, StaysCovered
<1>3. CASE ~refencing /\ backend[cur'] = "standby"
  <2>1. NumberEdge("standby_replay")
    BY <1>3
  <2>2. TypeOK'
    BY <1>0, <1>1, <2>1 DEF TypeOK, Later, NumberEdge, FenceKind
  <2>3. Awaited' /\ EdgesKnown'
    BY <1>0, <1>3, <2>1 DEF Awaited, EdgesKnown, Later, NumberEdge
  <2>4. Progressed'
    BY <2>1 DEF Progressed, Fenced, NumberEdge
  <2> QED
    BY <1>0, <2>2, <2>3, <2>4, StaysCovered
<1>4. CASE ~refencing /\ backend[cur'] # "standby"
  <2>1. pc' = "status" /\ UNCHANGED <<kind, current_edge_ids, degraded_mode>>
    BY <1>4
  <2>2. TypeOK'
    BY <1>0, <1>1, <2>1 DEF TypeOK, Later, Waiting
  <2>3. Awaited' /\ EdgesKnown'
    BY <1>0, <1>4, <2>1 DEF Awaited, EdgesKnown, Later
  <2>4. Progressed'
    BY <2>1 DEF Progressed, Fenced
  <2> QED
    BY <1>0, <2>2, <2>3, <2>4, StaysCovered
<1> QED
  BY <1>2, <1>3, <1>4

LEMMA StatusInv == ASSUME IInv, Status PROVE IInv'
<1>0. Later
  BY SameIsLater DEF IInv, TypeOK, Status
<1>1. CASE Raise
  BY <1>0, <1>1, RaiseInv DEF Status
<1>2. ASSUME pc = "status", pc' = "sync", kind' \in {"barrier", "degraded"},
             UNCHANGED <<cur, todo, round, token, target, cut, late, rows, scope,
                         failure>>
      PROVE  IInv'
  <2> USE DEF IInv, round, rows, scope
  <2>1. TypeOK'
    BY <1>0, <1>2 DEF TypeOK, Later, FenceKind
  <2>2. Awaited' /\ EdgesKnown'
    BY <1>0, <1>2 DEF Awaited, EdgesKnown, Later
  <2>3. Progressed'
    BY <1>2 DEF Progressed, Fenced
  <2> QED
    BY <1>0, <1>2, <2>1, <2>2, <2>3, StaysCovered
<1> QED
  BY <1>1, <1>2 DEF Status, Chosen

LEMMA SyncInv == ASSUME IInv, Sync PROVE IInv'
<1>0. Later /\ pc = "sync" /\ UNCHANGED replicas
  BY SameIsLater DEF IInv, TypeOK, Sync
<1>1. CASE SkipPeer
  BY <1>0, <1>1, SkipPeerInv
<1>2. CASE Raise
  BY <1>0, <1>2, RaiseInv
<1>3. ASSUME cur' = cur, NumberEdge(kind),
             UNCHANGED <<todo, round, token, target, cut, late, rows, peer_names,
                         partial_mode, failure>>
      PROVE  IInv'
  <2> USE DEF IInv, round, rows, NumberEdge
  <2>1. TypeOK'
    BY <1>0, <1>3 DEF TypeOK, Later
  <2>2. Awaited' /\ EdgesKnown'
    BY <1>0, <1>3 DEF Awaited, EdgesKnown, Later
  <2>3. Progressed'
    BY <1>0, <1>3 DEF Progressed, Fenced
  <2> QED
    BY <1>0, <1>3, <2>1, <2>2, <2>3, StaysCovered
<1> QED
  BY <1>1, <1>2, <1>3 DEF Sync

LEMMA CaptureInv == ASSUME IInv, Capture PROVE IInv'
<1> USE DEF IInv, Capture, round, rows, scope
<1>0. /\ ReplicasTypeOK /\ cur \in Peer /\ kind \in FenceKind
      /\ wal \in Lsn /\ written \in Lsn /\ wal \in Nat /\ MaxLsn \in Nat
  BY Positions, ReplicasAssumption DEF TypeOK
<1>1. CASE kind = "barrier"
  <2>1. InjectBarrier /\ token' = wal + 1 /\ target' = wal + 1
    BY <1>0, <1>1, ProviderAnswers DEF InjectBarrier
  <2>2. Later /\ wal + 1 \in Lsn
    BY <1>0, <2>1, InjectIsLater DEF InjectBarrier, Lsn
  <2>3. cut' \in Cut
    BY <1>0 DEF Cut
  <2>4. TypeOK'
    BY <2>1, <2>2, <2>3 DEF TypeOK, Later, Waiting
  <2>5. Awaited' /\ EdgesKnown'
    BY <1>1, <2>1, <2>2 DEF Awaited, EdgesKnown, Later
  <2>6. Progressed'
    BY <2>1 DEF Progressed, Fenced
  <2> QED
    BY <2>2, <2>4, <2>5, <2>6, StaysCovered
<1>2. CASE kind # "barrier"
  <2>1. target' = written /\ UNCHANGED <<token, replicas>>
    BY <1>0, <1>2, ProviderAnswers
  <2>2. Later
    BY <1>0, <2>1, SameIsLater
  <2>3. cut' \in Cut
    BY <1>0 DEF Cut
  <2>4. TypeOK'
    BY <1>0, <2>1, <2>2, <2>3 DEF TypeOK, Later, Waiting
  <2>5. Awaited' /\ EdgesKnown'
    BY <1>0, <1>2, <2>1, <2>2 DEF Awaited, EdgesKnown, Later, FenceKind
  <2>6. Progressed'
    BY <2>1 DEF Progressed, Fenced
  <2> QED
    BY <2>2, <2>4, <2>5, <2>6, StaysCovered
<1> QED
  BY <1>1, <1>2

\* A step of the coordinator that only changes where it is within a fence.
LEMMA GotoInv ==
  ASSUME IInv, UNCHANGED replicas, NEW step, Goto(step) \/ Enter(step),
         \/ pc = "wait_slot" /\ step = "observe" /\ kind = "barrier"
         \/ pc = "slot" /\ step \in {"observe", "last_look"} /\ kind = "barrier"
         \/ pc = "throttle" /\ step = "chunk"
         \/ pc = "chunk" /\ step = "done"
  PROVE  IInv'
<1> USE DEF IInv, Goto, Enter, round, edge, rows, scope
<1>0. Later
  BY SameIsLater DEF TypeOK
<1>1. TypeOK'
  BY <1>0 DEF TypeOK, Later, Waiting
<1>2. Awaited' /\ EdgesKnown'
  BY <1>0 DEF Awaited, EdgesKnown, Later
<1>3. Progressed'
  BY DEF Progressed, Fenced
<1> QED
  BY <1>0, <1>1, <1>2, <1>3, StaysCovered

\* What the coordinator compares the answers of a fence with.
LEMMA Targets ==
  ASSUME IInv
  PROVE  /\ ReplicasTypeOK /\ cur \in Peer /\ target \in Lsn /\ target \in Int
         /\ applied[cur] \in Int /\ confirmed[cur] \in Int
         /\ UNCHANGED replicas => Later
BY Positions, SameIsLater DEF IInv, TypeOK, Lsn

LEMMA WaitSlotInv == ASSUME IInv, WaitSlot PROVE IInv'
<1>1. PICK lsn \in RemoteWaitSlotConfirmLsn(cur, target) :
        CASE lsn < target -> Raise
          [] lsn >= target /\ kind = "degraded" -> Record("degraded")
          [] OTHER -> Enter("observe")
  BY DEF WaitSlot
<1>2. lsn = confirmed[cur] /\ pc = "wait_slot" /\ UNCHANGED replicas /\ Later
  BY Targets, SlotAnswers DEF WaitSlot
<1>3. CASE lsn < target
  <2>1. Raise
    BY <1>1, <1>2, <1>3, Targets
  <2> QED
    BY <1>2, <2>1, RaiseInv
<1>4. CASE lsn >= target /\ kind = "degraded"
  <2>1. Record("degraded")
    BY <1>1, <1>2, <1>4, Targets
  <2> QED
    BY <1>2, <1>4, <2>1, RecordInv
<1>5. CASE lsn >= target /\ kind # "degraded"
  <2>1. Enter("observe")
    BY <1>1, <1>2, <1>5, Targets
  <2>2. kind = "barrier"
    BY <1>2, <1>5 DEF IInv, Awaited
  <2> QED
    BY <1>2, <2>1, <2>2, GotoInv
<1>6. lsn < target \/ lsn >= target
  BY <1>2, Targets
<1> QED
  BY <1>3, <1>4, <1>5, <1>6

LEMMA PollSlotInv == ASSUME IInv, PollSlot PROVE IInv'
<1>1. PICK lsn \in RemoteSlotConfirmedFlushLsn(cur) :
       \/ lsn >= target /\ kind = "degraded" /\ Record("degraded")
       \/ lsn >= target /\ kind = "barrier" /\ Goto("observe")
       \/ lsn < target /\ late /\ kind = "degraded" /\ Raise
       \/ lsn < target /\ late /\ kind = "barrier" /\ Goto("last_look")
  BY DEF PollSlot
<1>2. lsn = confirmed[cur] /\ pc = "slot" /\ UNCHANGED replicas /\ Later
  BY Targets, SlotAnswers DEF PollSlot
<1>3. CASE lsn >= target /\ kind = "degraded" /\ Record("degraded")
  BY <1>2, <1>3, RecordInv
<1>4. CASE kind = "barrier" /\ (Goto("observe") \/ Goto("last_look"))
  BY <1>2, <1>4, GotoInv
<1>5. CASE Raise
  BY <1>2, <1>5, RaiseInv
<1> QED
  BY <1>1, <1>3, <1>4, <1>5

LEMMA ObserveInv == ASSUME IInv, Observe PROVE IInv'
<1>1. PICK o \in RemoteObserveBarrier(cur, token, target) :
       \/ /\ o.converged
          /\ IF DerivedConverged(o.origin_progress_lsn, o.token_visible)
             THEN Record("converged")
             ELSE Raise
       \/ ~o.converged /\ late /\ Raise
  BY DEF Observe
<1>2. pc = "observe" /\ UNCHANGED replicas /\ Later
  BY Targets DEF Observe
<1>3. CASE Raise
  BY <1>2, <1>3, RaiseInv
<1>4. CASE o.converged /\ Record("converged")
  <2>1. applied[cur] >= target
    BY <1>4, Targets, ObserveAnswers
  <2> QED
    BY <1>2, <1>4, <2>1, RecordInv
<1> QED
  BY <1>1, <1>3, <1>4

LEMMA ReplayInv == ASSUME IInv, Replay PROVE IInv'
<1>1. PICK s \in RemoteStandbyReplayStatus(cur) :
       \/ ~s.in_recovery /\ Raise
       \/ s.in_recovery /\ DerivedConverged(s.replay_lsn, TRUE) /\ Record("converged")
       \/ s.in_recovery /\ s.replay_lsn < target /\ late /\ Raise
  BY DEF Replay
<1>2. pc = "replay" /\ UNCHANGED replicas /\ Later
  BY Targets DEF Replay
<1>3. CASE Raise
  BY <1>2, <1>3, RaiseInv
<1>4. CASE DerivedConverged(s.replay_lsn, TRUE) /\ Record("converged")
  <2>1. applied[cur] >= target
    BY <1>4, Targets, ReplayAnswers DEF DerivedConverged
  <2> QED
    BY <1>2, <1>4, <2>1, RecordInv
<1> QED
  BY <1>1, <1>3, <1>4

LEMMA EndFencingInv == ASSUME IInv, EndFencing PROVE IInv'
<1> USE DEF IInv, EndFencing, edge, rows, scope
<1>0. Later
  BY SameIsLater DEF TypeOK
<1>1. TypeOK'
  BY <1>0 DEF TypeOK, Later, Waiting, Throttled, Edges
<1>2. Awaited' /\ EdgesKnown'
  BY <1>0 DEF Awaited, EdgesKnown, Later, Throttled
<1>3. Progressed'
  BY DEF Progressed, Fenced, Throttled
<1> QED
  BY <1>0, <1>1, <1>2, <1>3, StaysCovered

LEMMA NextChunkInv == ASSUME IInv, NextChunk PROVE IInv'
<1> USE DEF IInv, NextChunk, edge, rows, scope
<1>0. Later
  BY SameIsLater DEF TypeOK
<1>1. TypeOK'
  <2>1. chunks' \in 0..MaxChunks /\ epoch' \in 1..chunks' + 1
    BY PeerFenceAssumption DEF TypeOK
  <2>2. pc' \in {"next", "throttle", "chunk"}
    BY DEF Throttled
  <2>3. todo' \subseteq Peer /\ refencing' \in BOOLEAN
    BY DEF Edges, TypeOK
  <2> QED
    BY <1>0, <2>1, <2>2, <2>3 DEF TypeOK, Later, Waiting
<1>2. Awaited' /\ EdgesKnown'
  BY <1>0 DEF Awaited, EdgesKnown, Later, Throttled, Edges, Progressed
<1>3. peer_names \subseteq Edges
  BY DEF Progressed, Fenced, EdgesKnown, Edges, TypeOK
<1>4. Progressed'
  BY <1>3 DEF Progressed, Fenced, Throttled
<1> QED
  BY <1>0, <1>1, <1>2, <1>4, StaysCovered

LEMMA ThrottleInv == ASSUME IInv, Throttle PROVE IInv'
<1>0. pc = "throttle" /\ UNCHANGED replicas /\ Later
  BY Targets DEF Throttle
<1>1. CASE Goto("chunk")
  BY <1>0, <1>1, GotoInv
<1>2. CASE Raise
  BY <1>0, <1>2, RaiseInv
<1>3. ASSUME todo' \subseteq Peer,
             UNCHANGED <<pc, cur, round, edge, late, rows, scope, failure>>
      PROVE  IInv'
  <2> USE DEF IInv, round, edge, rows, scope
  <2>1. TypeOK'
    BY <1>0, <1>3 DEF TypeOK, Later
  <2>2. Awaited' /\ EdgesKnown'
    BY <1>0, <1>3 DEF Awaited, EdgesKnown, Later, Progressed
  <2>3. Progressed'
    BY <1>0, <1>3 DEF Progressed, Fenced
  <2> QED
    BY <1>0, <1>3, <2>1, <2>2, <2>3, StaysCovered
<1>4. \A p, lagging : Lags(p, lagging) =>
        \/ Raise
        \/ /\ todo' \subseteq Peer
           /\ UNCHANGED <<pc, cur, round, edge, late, rows, scope, failure>>
  BY DEF Lags, IInv, TypeOK, Edges, scope
<1> QED
  BY <1>0, <1>1, <1>2, <1>3, <1>4 DEF Throttle

LEMMA CallFailsInv == ASSUME IInv, CallFails PROVE IInv'
<1>1. Raise /\ pc \notin {"next", "chunk", "done", "failed"}
  BY DEF CallFails, Waiting
<1>2. Later
  BY SameIsLater, InjectIsLater DEF CallFails, IInv, TypeOK
<1> QED
  BY <1>1, <1>2, RaiseInv

LEMMA DeadlinePassesInv == ASSUME IInv, DeadlinePasses PROVE IInv'
<1> USE DEF IInv, DeadlinePasses, round, edge, rows, scope
<1>0. Later
  BY SameIsLater DEF TypeOK
<1>1. TypeOK'
  BY <1>0 DEF TypeOK, Later
<1>2. Awaited' /\ EdgesKnown'
  BY <1>0 DEF Awaited, EdgesKnown, Later
<1>3. Progressed'
  BY DEF Progressed, Fenced
<1> QED
  BY <1>0, <1>1, <1>2, <1>3, StaysCovered

\* The coordinator does nothing.
LEMMA EnvironmentInv ==
  ASSUME IInv, Later,
         UNCHANGED <<options, pc, cur, todo, refencing, epoch, chunks, kind, token,
                     target, late, current_edge_ids, run_edge, fence_edge,
                     fence_attempt, peer_names, partial_mode, degraded_mode,
                     failure, cut>>
  PROVE  IInv'
<1> USE DEF IInv
<1>1. TypeOK'
  BY DEF TypeOK, Later
<1>2. Awaited' /\ EdgesKnown'
  BY DEF Awaited, EdgesKnown, Later
<1>3. Progressed'
  BY DEF Progressed, Fenced
<1> QED
  BY <1>1, <1>2, <1>3, StaysCovered

LEMMA StepInv == IInv /\ [Next]_vars => IInv'
<1> SUFFICES ASSUME IInv, [Next]_vars PROVE IInv'
  OBVIOUS
<1>1. CASE Proceed
  <2>1. CASE LastChunk
    BY <2>1, GotoInv DEF LastChunk
  <2>2. CASE LastLook
    BY <2>2, Targets, RaiseInv DEF LastLook
  <2> QED
    BY <1>1, <2>1, <2>2, NextEdgeInv, StatusInv, SyncInv, CaptureInv, WaitSlotInv,
       PollSlotInv, ObserveInv, ReplayInv, EndFencingInv, NextChunkInv, ThrottleInv
       DEF Proceed
<1>2. CASE CallFails
  BY <1>2, CallFailsInv
<1>3. CASE DeadlinePasses
  BY <1>3, DeadlinePassesInv
<1>4. CASE Environment
  BY <1>4, DatabasesLater, EnvironmentInv DEF Environment, IInv, TypeOK
<1>5. CASE UNCHANGED vars
  BY <1>5, SameIsLater, EnvironmentInv DEF vars, replicas, IInv, TypeOK
<1> QED
  BY <1>1, <1>2, <1>3, <1>4, <1>5 DEF Next

LEMMA Invariance == Spec => []IInv
BY InitInv, StepInv, PTL DEF Spec

------------------------------------------------------------------------------
(* The properties. *)

\* For any peers, word size and bounds, the fence, its rows and the databases
\* keep their types; no LSN leaves its range on its way through the transport.
THEOREM TypeCorrect == Spec => []TypeOK
<1>1. IInv => TypeOK
  BY DEF IInv
<1> QED
  BY <1>1, Invariance, PTL

\* A fence that fence_pglogical_edge, fence_native_edge or fence_standby_edge
\* records as converged covers what the provider had committed (the standby's:
\* written) when it was captured, for good, whatever tokens are forwarded,
\* cleaned up or injected by calls that failed.
THEOREM ConvergedFences == Spec => []ConvergedCovers
<1>1. IInv => ConvergedCovers
  BY DEF IInv
<1> QED
  BY <1>1, Invariance, PTL

\* A degraded fence (030:330-599) covers, on the slot, what the provider had
\* written when it was captured.
THEOREM DegradedFences == Spec => []DegradedCovers
<1>1. IInv => DegradedCovers
  BY DEF IInv
<1> QED
  BY <1>1, Invariance, PTL

\* Whenever a chunk is compared, every peer still in peer_names has been fenced
\* in the last epoch, and run.fence_mode says degraded and partial when it must.
THEOREM HonestStamps == Spec => []StampedHonestly
<1>1. IInv => StampedHonestly
  BY DEF IInv, Progressed, Fenced, StampedHonestly
<1> QED
  BY <1>1, Invariance, PTL
==============================================================================
