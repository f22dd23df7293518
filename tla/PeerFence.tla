------------------------------- MODULE PeerFence -------------------------------
(***************************************************************************)
(* The fences of one compare_table call between the provider and its       *)
(* peers: the initial fence of every peer, then, chunk by chunk, the       *)
(* re-fence of the same edges when max_snapshot_age has passed and the     *)
(* throttle on replication lag.                                            *)
(*                                                                         *)
(* A call of a fence function writes its rows (run_edge, fence_edge,       *)
(* fence_attempt) in a subtransaction that goes when the call raises, so   *)
(* they are added here together, when it succeeds.  A poll that finds      *)
(* nothing yet changes nothing and is not written.                         *)
(***************************************************************************)
EXTENDS Replicas

CONSTANTS
  MaxChunks,         \* bound: chunks that follow the initial fence
  ThrottleThreshold  \* threshold_ms

ASSUME PeerFenceAssumption ==
  /\ MaxChunks \in Nat
  /\ ThrottleThreshold \in Nat \ {0}

VARIABLES
  options,       \* on_fence_timeout, allow_degraded_fence, throttle_max_lag
  pc,            \* where the coordinator is
  cur,           \* the peer whose edge is fenced
  todo,          \* edges left in the loop over them
  refencing,     \* inside re_fence_run_edges
  epoch,         \* epoch_seq
  chunks,        \* chunks begun
  kind,          \* the fence of cur
  token,         \* injection.token
  target,        \* injection.barrier_end_lsn, or target_lsn
  late,          \* the clock has passed the deadline of the present loop
  current_edge_ids,
  run_edge, fence_edge, fence_attempt,
  peer_names, partial_mode, degraded_mode,
  failure,       \* what ended a failed call
  cut            \* history: WAL and written WAL when the fence was captured

vars == <<backend, carries, wal, written, barriers, applied, confirmed, seen,
          promoted, options, pc, cur, todo, refencing, epoch, chunks, kind,
          token, target, late, current_edge_ids, run_edge, fence_edge, fence_attempt,
          peer_names, partial_mode, degraded_mode, failure, cut>>

edge == <<kind, token, target, cut>>
rows == <<run_edge, fence_edge, fence_attempt>>
scope == <<current_edge_ids, peer_names, partial_mode, degraded_mode>>
round == <<options, refencing, epoch, chunks>>

FenceKind == {"barrier", "degraded", "standby_replay"}

Cut == [wal : Lsn, written : Lsn]

Waiting == {"status", "slot", "observe", "replay", "throttle"}

TypeOK ==
  /\ ReplicasTypeOK
  /\ options \in [skip_peer : BOOLEAN, allow_degraded : BOOLEAN, throttle : BOOLEAN]
  /\ pc \in Waiting \cup {"next", "sync", "capture", "wait_slot", "last_look",
                          "chunk", "done", "failed"}
  /\ cur \in Peer
  /\ todo \subseteq Peer
  /\ refencing \in BOOLEAN
  /\ chunks \in 0..MaxChunks
  /\ epoch \in 1..chunks + 1
  /\ kind \in FenceKind
  /\ token \in Lsn
  /\ target \in Lsn
  /\ late \in BOOLEAN
  /\ current_edge_ids \subseteq Peer
  /\ run_edge \subseteq Peer
  /\ fence_edge \in [Peer -> [fence_kind : FenceKind \cup {"none"}, barrier_end_lsn : Lsn]]
  /\ fence_attempt \in [Peer -> [status : {"none", "converged", "degraded"},
                                 epoch_seq : 0..MaxChunks + 1, cut : Cut]]
  /\ peer_names \subseteq Peer
  /\ partial_mode \in BOOLEAN
  /\ degraded_mode \in BOOLEAN
  /\ failure \in {"none", "raised", "count"}
  /\ cut \in Cut

NoCut == [wal |-> 0, written |-> 0]

First(S) == {p \in S : \A q \in S : p <= q}

Init ==
  /\ ReplicasInit
  /\ options \in [skip_peer : BOOLEAN, allow_degraded : BOOLEAN, throttle : BOOLEAN]
  /\ pc = "next"
  /\ cur \in First(Peer)
  /\ todo = Peer
  /\ refencing = FALSE
  /\ epoch = 1
  /\ chunks = 0
  /\ kind = "barrier"
  /\ token = 0
  /\ target = 0
  /\ late = FALSE
  /\ current_edge_ids = {}
  /\ run_edge = {}
  /\ fence_edge = [p \in Peer |-> [fence_kind |-> "none", barrier_end_lsn |-> 0]]
  /\ fence_attempt =
       [p \in Peer |-> [status |-> "none", epoch_seq |-> 0, cut |-> NoCut]]
  /\ peer_names = Peer
  /\ partial_mode = FALSE
  /\ degraded_mode = FALSE
  /\ failure = "none"
  /\ cut = NoCut

------------------------------------------------------------------------------
(* How a call ends. *)

\* Mutant of Raise: the peer is not removed from peer_names.
RaiseKeepingPeer ==
  /\ IF options.skip_peer /\ ~refencing /\ pc # "throttle"
     THEN pc' = "next" /\ partial_mode' = TRUE /\ UNCHANGED failure
     ELSE pc' = "failed" /\ failure' = "raised" /\ UNCHANGED partial_mode
  /\ UNCHANGED <<cur, todo, round, edge, late, rows, current_edge_ids, peer_names,
                 degraded_mode>>

\* An exception: skip_peer catches it around an initial fence, and only there.
Raise ==
  /\ IF options.skip_peer /\ ~refencing /\ pc # "throttle"
     THEN /\ pc' = "next"
          /\ peer_names' = peer_names \ {cur}
          /\ partial_mode' = TRUE
          /\ UNCHANGED failure
     ELSE /\ pc' = "failed"
          /\ failure' = "raised"
          /\ UNCHANGED <<peer_names, partial_mode>>
  /\ UNCHANGED <<cur, todo, round, edge, late, rows, current_edge_ids,
                 degraded_mode>>

\* The table is not ready on a peer: the peer is left out, whatever the options.
SkipPeer ==
  /\ pc' = "next"
  /\ peer_names' = peer_names \ {cur}
  /\ partial_mode' = TRUE
  /\ UNCHANGED <<cur, todo, round, edge, late, rows, current_edge_ids,
                 degraded_mode, failure>>

\* record_barrier_fence and record_fence_attempt.
Record(status) ==
  /\ pc' = "next"
  /\ run_edge' = run_edge \cup {cur}
  /\ fence_edge' = [fence_edge EXCEPT ![cur] =
       [fence_kind |-> kind, barrier_end_lsn |-> target]]
  /\ fence_attempt' = [fence_attempt EXCEPT ![cur] =
       [status |-> status, epoch_seq |-> epoch, cut |-> cut]]
  /\ UNCHANGED <<cur, todo, round, edge, late, scope, failure>>

\* The status record_fence_attempt derives when no loop gave it one.
DerivedConverged(progress, token_visible) == progress >= target /\ token_visible

Goto(step) ==
  /\ pc' = step
  /\ UNCHANGED <<cur, todo, round, edge, late, rows, scope, failure>>

\* Goto a loop that sets its deadline first.
Enter(step) ==
  /\ pc' = step
  /\ late' = FALSE
  /\ UNCHANGED <<cur, todo, round, edge, rows, scope, failure>>

------------------------------------------------------------------------------
(* The fence of one edge. *)

\* Before its fence an edge gets its number; a degraded one marks the run.
NumberEdge(k) ==
  /\ pc' = "capture"
  /\ kind' = k
  /\ current_edge_ids' = current_edge_ids \cup {cur'}
  /\ degraded_mode' = (degraded_mode \/ k = "degraded")

\* The next peer of the initial fence, or the next edge of a re-fence.
NextEdge ==
  /\ pc = "next"
  /\ todo # {}
  /\ cur' \in First(todo)
  /\ todo' = todo \ {cur'}
  /\ CASE refencing ->
            /\ pc' = "capture"
            /\ kind' = fence_edge[cur'].fence_kind
            /\ UNCHANGED <<current_edge_ids, degraded_mode>>
       [] ~refencing /\ backend[cur'] = "standby" -> NumberEdge("standby_replay")
       [] OTHER ->
            /\ pc' = "status"
            /\ UNCHANGED <<kind, current_edge_ids, degraded_mode>>
  /\ late' = FALSE
  /\ UNCHANGED <<round, token, target, cut, rows, peer_names, partial_mode, failure,
                 replicas>>

Chosen(sets) == IF "pgl_validate_barrier" \in sets THEN "barrier" ELSE "degraded"

\* The subscription: a pglogical one may take until the deadline to replicate.
Status ==
  /\ pc = "status"
  /\ \/ /\ backend[cur] = "pglogical"
        /\ \E s \in RemotePglogicalSubscriptionStatus(cur) :
             \/ /\ s.status = "replicating"
                /\ pc' = "sync"
                /\ kind' = Chosen(s.replication_sets)
                /\ UNCHANGED <<cur, todo, round, token, target, cut, late, rows, scope,
                               failure>>
             \/ s.status # "replicating" /\ late /\ Raise
     \/ /\ backend[cur] = "native"
        /\ \E s \in RemoteNativeSubscriptionStatus(cur) :
             IF s.enabled /\ s.slot_name # "NULL"
             THEN /\ pc' = "sync"
                  /\ kind' = Chosen(s.publications)
                  /\ UNCHANGED <<cur, todo, round, token, target, cut, late, rows, scope,
                                 failure>>
             ELSE Raise
  /\ UNCHANGED replicas

TableSyncStatus(p) ==
  IF backend[p] = "pglogical" THEN RemotePglogicalTableSyncStatus(p)
  ELSE RemoteNativeTableSyncStatus(p)

Sync ==
  /\ pc = "sync"
  /\ \E sync_status \in TableSyncStatus(cur) :
       CASE sync_status # "r" -> SkipPeer
         [] sync_status = "r" /\ kind = "degraded" /\ ~options.allow_degraded -> Raise
         [] OTHER ->
              /\ cur' = cur
              /\ NumberEdge(kind)
              /\ UNCHANGED <<todo, round, token, target, cut, late, rows, peer_names,
                             partial_mode, failure>>
  /\ UNCHANGED replicas

\* The LSN the fence waits for: the commit of a token injected for it, or the
\* provider's WAL position.
Capture ==
  /\ pc = "capture"
  /\ IF kind = "barrier"
     THEN /\ InjectBarrier
          /\ \E injection \in RemoteInjectBarrier :
               /\ token' = injection.token
               /\ target' = injection.barrier_end_lsn
     ELSE /\ target' \in RemoteCurrentWalLsn
          /\ UNCHANGED <<token, replicas>>
  /\ cut' = [wal |-> wal, written |-> written]
  /\ pc' = CASE kind = "standby_replay" -> "replay"
             [] kind # "standby_replay" /\ backend[cur] = "pglogical" -> "wait_slot"
             [] OTHER -> "slot"
  /\ late' = FALSE
  /\ UNCHANGED <<cur, todo, round, kind, rows, scope, failure>>

\* pglogical: the provider waits for the slot.
WaitSlot ==
  /\ pc = "wait_slot"
  /\ \E lsn \in RemoteWaitSlotConfirmLsn(cur, target) :
       CASE lsn < target -> Raise
         [] lsn >= target /\ kind = "degraded" -> Record("degraded")
         [] OTHER -> Enter("observe")
  /\ UNCHANGED replicas

\* Mutant of PollSlot: the deadline ends a degraded fence as if it had succeeded.
PollSlotRecordingLate ==
  /\ pc = "slot"
  /\ \E lsn \in RemoteSlotConfirmedFlushLsn(cur) :
       \/ (lsn >= target \/ late) /\ kind = "degraded" /\ Record("degraded")
       \/ lsn >= target /\ kind = "barrier" /\ Goto("observe")
       \/ lsn < target /\ late /\ kind = "barrier" /\ Goto("last_look")
  /\ UNCHANGED replicas

\* Mutant of PollSlot: the loop of a degraded fence has no deadline.
PollSlotForever ==
  /\ pc = "slot"
  /\ \E lsn \in RemoteSlotConfirmedFlushLsn(cur) :
       \/ lsn >= target /\ kind = "degraded" /\ Record("degraded")
       \/ lsn >= target /\ kind = "barrier" /\ Goto("observe")
       \/ lsn < target /\ late /\ kind = "barrier" /\ Goto("last_look")
  /\ UNCHANGED replicas

\* native: the coordinator polls the slot.  A barrier fence that is late looks
\* at the target once more, for the record.
PollSlot ==
  /\ pc = "slot"
  /\ \E lsn \in RemoteSlotConfirmedFlushLsn(cur) :
       \/ lsn >= target /\ kind = "degraded" /\ Record("degraded")
       \/ lsn >= target /\ kind = "barrier" /\ Goto("observe")
       \/ lsn < target /\ late /\ kind = "degraded" /\ Raise
       \/ lsn < target /\ late /\ kind = "barrier" /\ Goto("last_look")
  /\ UNCHANGED replicas

Observe ==
  /\ pc = "observe"
  /\ \E o \in RemoteObserveBarrier(cur, token, target) :
       \/ /\ o.converged
          /\ IF DerivedConverged(o.origin_progress_lsn, o.token_visible)
             THEN Record("converged")
             ELSE Raise
       \/ ~o.converged /\ late /\ Raise
  /\ UNCHANGED replicas

LastLook == pc = "last_look" /\ Raise /\ UNCHANGED replicas

Replay ==
  /\ pc = "replay"
  /\ \E s \in RemoteStandbyReplayStatus(cur) :
       \/ ~s.in_recovery /\ Raise
       \/ s.in_recovery /\ DerivedConverged(s.replay_lsn, TRUE) /\ Record("converged")
       \/ s.in_recovery /\ s.replay_lsn < target /\ late /\ Raise
  /\ UNCHANGED replicas

------------------------------------------------------------------------------
(* The chunks. *)

Edges == run_edge \cap current_edge_ids

Throttled == IF options.throttle THEN "throttle" ELSE "chunk"

\* Every peer has been fenced, or every edge fenced again: then they are counted.
EndFencing ==
  /\ pc = "next"
  /\ todo = {}
  /\ IF refencing /\ Cardinality(Edges) # Cardinality(current_edge_ids)
     THEN /\ pc' = "failed"
          /\ failure' = "count"
          /\ UNCHANGED <<todo, late, refencing>>
     ELSE /\ pc' = Throttled
          /\ todo' = Edges
          /\ late' = FALSE
          /\ refencing' = FALSE
          /\ UNCHANGED failure
  /\ UNCHANGED <<cur, options, epoch, chunks, edge, rows, scope, replicas>>

\* The next chunk; max_snapshot_age may have passed since the last fence.
NextChunk ==
  /\ pc = "chunk"
  /\ chunks < MaxChunks
  /\ chunks' = chunks + 1
  /\ todo' = Edges
  /\ late' = FALSE
  /\ \/ /\ current_edge_ids # {}
        /\ pc' = "next"
        /\ refencing' = TRUE
        /\ epoch' = epoch + 1
     \/ /\ pc' = Throttled
        /\ UNCHANGED <<refencing, epoch>>
  /\ UNCHANGED <<cur, options, edge, rows, scope, failure, replicas>>

LastChunk ==
  /\ pc = "chunk"
  /\ Goto("done")
  /\ UNCHANGED replicas

\* One edge of throttle_replication_lag: the first that lags ends the pass, and
\* the next pass begins again unless the deadline has come.
Lags(p, lagging) ==
  /\ lagging => IF late THEN Raise
                ELSE todo' = Edges /\ UNCHANGED <<pc, peer_names, partial_mode,
                       failure, cur, round, edge, late, rows, current_edge_ids,
                       degraded_mode>>
  /\ ~lagging => /\ todo' = todo \ {p}
                 /\ UNCHANGED <<pc, cur, round, edge, late, rows, scope, failure>>

Throttle ==
  /\ pc = "throttle"
  /\ IF todo = {}
     THEN Goto("chunk")
     ELSE \E p \in First(todo) :
       IF backend[p] = "standby"
       THEN \E s \in RemoteStandbyReplayLag(p, fence_edge[p].barrier_end_lsn) :
              IF s.in_recovery
              THEN Lags(p, s.lag_ms = -1 \/ s.lag_ms > ThrottleThreshold)
              ELSE Raise
       ELSE \E s \in RemoteLogicalSlotLag(p) :
              Lags(p, ~s.active \/ s.lag_ms > ThrottleThreshold)
  /\ UNCHANGED replicas

------------------------------------------------------------------------------

\* Any call may fail; the token of a failed injection may be there all the same.
CallFails ==
  /\ \/ pc \in Waiting \cup {"sync", "wait_slot", "last_look"}
     \/ pc = "capture" /\ kind # "standby_replay"
  /\ Raise
  /\ \/ UNCHANGED replicas
     \/ pc = "capture" /\ kind = "barrier" /\ InjectBarrier

DeadlinePasses ==
  /\ pc \in Waiting
  /\ ~late
  /\ late' = TRUE
  /\ UNCHANGED <<pc, cur, todo, round, edge, rows, scope, failure, replicas>>

Proceed ==
  \/ NextEdge
  \/ Status
  \/ Sync
  \/ Capture
  \/ WaitSlot
  \/ PollSlot
  \/ Observe
  \/ LastLook
  \/ Replay
  \/ EndFencing
  \/ NextChunk
  \/ LastChunk
  \/ Throttle

Environment ==
  /\ Databases
  /\ UNCHANGED <<options, pc, cur, todo, refencing, epoch, chunks, kind, token,
                 target, late, current_edge_ids, run_edge, fence_edge, fence_attempt,
                 peer_names, partial_mode, degraded_mode, failure, cut>>

Next == Proceed \/ CallFails \/ DeadlinePasses \/ Environment

Spec == Init /\ [][Next]_vars

\* Calls return, the clock advances, and statement_timeout ends a wait for a
\* slot; nothing is assumed of the databases.
FairSpec ==
  /\ Spec
  /\ WF_vars(Proceed)
  /\ WF_vars(DeadlinePasses)
  /\ WF_vars(pc = "wait_slot" /\ CallFails)

------------------------------------------------------------------------------
(* Properties *)

\* A fence recorded as converged covers every change committed, on the provider,
\* before it was captured, and a standby's every change written by then: tokens
\* that reach a peer early, by way of another node, or that are cleaned up there,
\* late polls and the conversions of LSNs never make it converge too soon.
ConvergedCovers ==
  \A p \in Peer : fence_attempt[p].status = "converged" =>
    applied[p] >= IF backend[p] = "standby" THEN fence_attempt[p].cut.written
                  ELSE fence_attempt[p].cut.wal + 1

\* A degraded fence covers, on the slot, what was written when it was captured.
DegradedCovers ==
  \A p \in Peer : fence_attempt[p].status = "degraded" =>
    confirmed[p] >= fence_attempt[p].cut.written

\* When a chunk is compared, every peer that is still compared has a fence of
\* the last epoch, a degraded one only in a run marked degraded, and a run that
\* compares fewer peers than it was asked to is marked partial.
StampedHonestly ==
  pc \in {"chunk", "done"} =>
    /\ \A p \in peer_names :
         /\ fence_attempt[p].epoch_seq = epoch
         /\ \/ fence_attempt[p].status = "converged"
            \/ fence_attempt[p].status = "degraded" /\ degraded_mode
    /\ peer_names # Peer => partial_mode

\* Whatever the replicas do, the fences and throttles of a call end: no loop
\* polls for ever and no wait outlives its deadline.
Ends == <>(pc \in {"done", "failed"})

\* docs/design.md: a run whose unreachable peer was skipped continues without it.
\* The count of re-fenced edges never fails such a run.
SkippedPeersDoNotFailTheRun == failure # "count"
==============================================================================
