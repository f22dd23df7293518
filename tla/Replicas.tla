------------------------------- MODULE Replicas -------------------------------
(***************************************************************************)
(* The databases a fence looks at, and the calls the coordinator makes on  *)
(* them over libpq.  One provider writes; each peer follows it, as a       *)
(* logical subscriber that applies its WAL and confirms what it has        *)
(* flushed to its slot, or as a physical standby that replays it.          *)
(*                                                                         *)
(* A call is two operators: Fetch..., the function of the transport with   *)
(* the SQL it sends, and Remote..., the SQL function around it.  Both are  *)
(* the set of rows the call may return in the current state.  That any     *)
(* call may fail instead is left to the module that makes it: every one    *)
(* connects anew, sets its timeouts and raises what goes wrong.            *)
(***************************************************************************)
EXTENDS Integers, FiniteSets

CONSTANTS
  Peer,        \* peers of the run, numbered in the order they are fenced
  Word,        \* a pg_lsn is two words of this size: 2^32
  MaxLsn,      \* bound: positions of the provider's WAL
  MaxCommits,  \* bound: commits of others than the coordinator
  Lag,         \* lags in milliseconds that statistics may show
  Deployment   \* backends of the peers, and which subscriptions carry barriers

Lsn == 0..MaxLsn

Backends == {"pglogical", "native", "standby"}

\* The coordinator loops over the pglogical peers, the native ones, the standbys.
InFencingOrder(b) ==
  \A p, q \in Peer : p < q =>
    /\ b[q] = "pglogical" => b[p] = "pglogical"
    /\ b[p] = "standby" => b[q] = "standby"

\* An LSN of a real server is far below 2^63.
ASSUME ReplicasAssumption ==
  /\ Peer \subseteq Nat
  /\ Word \in Nat \ {0}
  /\ MaxLsn \in Nat
  /\ 2 * MaxLsn < Word * Word
  /\ Lag \subseteq Nat
  /\ \A d \in Deployment :
       /\ d.backend \in [Peer -> Backends]
       /\ InFencingOrder(d.backend)
       /\ d.carries \subseteq {p \in Peer : d.backend[p] # "standby"}

VARIABLES
  backend,     \* peer.backend
  carries,     \* peers whose subscription has pgl_validate_barrier
  wal,         \* provider: position of the last commit
  written,     \* provider: WAL written so far; behind wal while
               \* asynchronous commits wait for the WAL writer
  barriers,    \* barrier tokens, each named by the position of its commit
  applied,     \* each peer: origin progress, or standby replay
  confirmed,   \* each peer: confirmed_flush_lsn of its slot
  seen,        \* each peer: barrier tokens in its fence_barrier
  promoted     \* standbys that left recovery

replicas == <<backend, carries, wal, written, barriers, applied, confirmed,
              seen, promoted>>

ReplicasTypeOK ==
  /\ backend \in [Peer -> Backends]
  /\ carries \subseteq Peer
  /\ wal \in Lsn
  /\ written \in 0..wal
  /\ barriers \subseteq 1..wal
  /\ applied \in [Peer -> 0..written]
  /\ confirmed \in [Peer -> Lsn]
  /\ \A p \in Peer : confirmed[p] <= applied[p]
  /\ seen \in [Peer -> SUBSET barriers]
  /\ promoted \subseteq Peer

ReplicasInit ==
  /\ \E d \in Deployment : backend = d.backend /\ carries = d.carries
  /\ wal = 0
  /\ written = 0
  /\ barriers = {}
  /\ applied = [p \in Peer |-> 0]
  /\ confirmed = [p \in Peer |-> 0]
  /\ seen = [p \in Peer |-> {}]
  /\ promoted = {}

------------------------------------------------------------------------------
(* What the databases do by themselves. *)

Commit ==
  /\ wal < MaxLsn
  /\ wal - Cardinality(barriers) < MaxCommits
  /\ wal' = wal + 1
  /\ UNCHANGED <<backend, carries, written, barriers, applied, confirmed, seen,
                 promoted>>

WriteWal ==
  /\ written < wal
  /\ written' = wal
  /\ UNCHANGED <<backend, carries, wal, barriers, applied, confirmed, seen,
                 promoted>>

\* The next change reaches p; a barrier on p's own stream becomes visible.
Apply(p) ==
  /\ applied[p] < written
  /\ p \notin promoted
  /\ applied' = [applied EXCEPT ![p] = @ + 1]
  /\ seen' = [seen EXCEPT ![p] =
       IF p \in carries THEN @ \cup (barriers \cap {applied[p] + 1}) ELSE @]
  /\ UNCHANGED <<backend, carries, wal, written, barriers, confirmed, promoted>>

\* A subscriber's feedback.
Confirm(p) ==
  /\ backend[p] # "standby"
  /\ confirmed[p] < applied[p]
  /\ confirmed' = [confirmed EXCEPT ![p] = applied[p]]
  /\ UNCHANGED <<backend, carries, wal, written, barriers, applied, seen,
                 promoted>>

\* With forward_origins = {all} a token also comes by way of another node.
Forward(p, b) ==
  /\ backend[p] # "standby"
  /\ b \in barriers \ seen[p]
  /\ seen' = [seen EXCEPT ![p] = @ \cup {b}]
  /\ UNCHANGED <<backend, carries, wal, written, barriers, applied, confirmed,
                 promoted>>

\* cleanup_fence_barriers at p.  The protected tokens are read from committed
\* rows of p's own catalog, where a run in progress has none.
Cleanup(p, b) ==
  /\ b \in seen[p]
  /\ seen' = [seen EXCEPT ![p] = @ \ {b}]
  /\ UNCHANGED <<backend, carries, wal, written, barriers, applied, confirmed,
                 promoted>>

Promote(p) ==
  /\ backend[p] = "standby"
  /\ p \notin promoted
  /\ promoted' = promoted \cup {p}
  /\ UNCHANGED <<backend, carries, wal, written, barriers, applied, confirmed,
                 seen>>

Databases ==
  \/ Commit
  \/ WriteWal
  \/ \E p \in Peer :
       \/ Apply(p)
       \/ Confirm(p)
       \/ Promote(p)
       \/ \E b \in barriers : Forward(p, b) \/ Cleanup(p, b)

------------------------------------------------------------------------------
(* LSNs travel as text between databases, as u64 in the transport, and as  *)
(* i64 in the SQL functions, whose declarations call the same bits pg_lsn. *)

\* Mutant of FormatLsn: the words change places.
FormatLsnSwapped(l) == [high |-> l % Word, low |-> l \div Word]

FormatLsn(l) == [high |-> l \div Word, low |-> l % Word]

\* {} is a parse error.
ParseLsn(text) ==
  IF text.high < Word /\ text.low < Word THEN {text.high * Word + text.low} ELSE {}

AsI64(l) == IF 2 * l < Word * Word THEN l ELSE l - Word * Word

AsPgLsn(i) == IF i < 0 THEN i + Word * Word ELSE i

\* u64::try_from of an argument; {} is "pg_lsn is negative".
AsU64(l) == IF AsI64(l) < 0 THEN {} ELSE {l}

Shown(l) == ParseLsn(FormatLsn(l))

Returned(l) == AsPgLsn(AsI64(l))

------------------------------------------------------------------------------
(* The provider. *)

\* BEGIN; INSERT; COMMIT; last_commit_lsn() of the session.  A lost
\* acknowledgement is a failed call whose token is committed all the same.
InjectBarrier ==
  /\ wal < MaxLsn
  /\ wal' = wal + 1
  /\ barriers' = barriers \cup {wal + 1}
  /\ UNCHANGED <<backend, carries, written, applied, confirmed, seen, promoted>>

\* Mutant of BarrierInjection: the LSN is taken before the commit.
BarrierInjectionBeforeCommit == Shown(wal)

BarrierInjection == Shown(wal + 1)

RemoteInjectBarrier ==
  {[token |-> wal + 1, barrier_end_lsn |-> Returned(l)] : l \in BarrierInjection}

FetchCurrentWalLsn == Shown(written)

RemoteCurrentWalLsn == {Returned(l) : l \in FetchCurrentWalLsn}

\* pglogical.wait_slot_confirm_lsn blocks until the slot is there; the flush
\* position is read afterwards.
WaitSlotConfirmLsn(p, l) ==
  UNION {Shown(confirmed[p]) : t \in {t \in Shown(l) : t <= confirmed[p]}}

RemoteWaitSlotConfirmLsn(p, l) ==
  {Returned(c) : c \in UNION {WaitSlotConfirmLsn(p, u) : u \in AsU64(l)}}

FetchSlotConfirmedFlushLsn(p) == Shown(confirmed[p])

RemoteSlotConfirmedFlushLsn(p) ==
  {Returned(c) : c \in FetchSlotConfirmedFlushLsn(p)}

\* Only an active slot has statistics; without them the time lag reads 0.
FetchLogicalSlotLag(p) ==
  LET lag(on, ms) ==
        [active |-> on, lag_ms |-> ms, lag_bytes |-> written - confirmed[p]]
  IN {lag(TRUE, ms) : ms \in Lag} \cup {lag(FALSE, 0)}

RemoteLogicalSlotLag(p) == FetchLogicalSlotLag(p)

------------------------------------------------------------------------------
(* The peers. *)

\* One statement, so the two facts and their conjunction are of one moment.
ObserveBarrier(p, token, l) ==
  {[origin_progress_lsn |-> progress,
    token_visible |-> token \in seen[p],
    converged |-> bound <= progress /\ token \in seen[p]] :
     progress \in Shown(applied[p]), bound \in Shown(l)}

RemoteObserveBarrier(p, token, l) ==
  {[o EXCEPT !.origin_progress_lsn = Returned(@)] :
     o \in UNION {ObserveBarrier(p, token, u) : u \in AsU64(l)}}

FetchStandbyReplayStatus(p) ==
  {[in_recovery |-> p \notin promoted, replay_lsn |-> l] : l \in Shown(applied[p])}

RemoteStandbyReplayStatus(p) ==
  {[s EXCEPT !.replay_lsn = Returned(@)] : s \in FetchStandbyReplayStatus(p)}

\* The lag is 0 where replay has reached the fence or recovery is over; -1
\* stands for NULL, no transaction replayed yet.
FetchStandbyReplayLag(p, l) ==
  {[in_recovery |-> p \notin promoted, replay_lsn |-> progress, lag_ms |-> ms] :
     progress \in Shown(applied[p]),
     ms \in IF p \in promoted \/ \E t \in Shown(l) : t <= applied[p]
            THEN {0} ELSE Lag \cup {-1}}

RemoteStandbyReplayLag(p, l) ==
  {[s EXCEPT !.replay_lsn = Returned(@)] :
     s \in UNION {FetchStandbyReplayLag(p, u) : u \in AsU64(l)}}

FetchSubscriptionStatus(p) ==
  {[status |-> s, replication_sets |-> {"other"} \cup
      (IF p \in carries THEN {"pgl_validate_barrier"} ELSE {})] :
     s \in {"replicating", "down"}}

RemotePglogicalSubscriptionStatus(p) == FetchSubscriptionStatus(p)

FetchNativeSubscriptionStatus(p) ==
  {[enabled |-> on, slot_name |-> slot, publications |-> {"other"} \cup
      (IF p \in carries THEN {"pgl_validate_barrier"} ELSE {})] :
     on \in BOOLEAN, slot \in {"slot", "NULL"}}

RemoteNativeSubscriptionStatus(p) == FetchNativeSubscriptionStatus(p)

\* No row of its own: the table came with the initial copy.
FetchPglogicalTableSyncStatus(p) == {"r", "d"}

RemotePglogicalTableSyncStatus(p) == FetchPglogicalTableSyncStatus(p)

FetchNativeTableSyncStatus(p) == {"r", "d", "NULL"}

RemoteNativeTableSyncStatus(p) == FetchNativeTableSyncStatus(p)
==============================================================================
