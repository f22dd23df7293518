# pgl_validate in TLA+

`pgl_validate` is a PostgreSQL extension that compares tables between nodes of a
logical-replication topology (pglogical, native logical replication, physical
standbys) **while they are being written**, and reports which rows really differ.
Its difficulty is one sentence of `docs/design.md` (line 224): lag and live load
must never yield a divergence verdict, and yet a divergence that is there must be
reported. This directory holds the TLA+ models of the code, what TLC checks about
them, and what TLAPS proves.

Most of the program is PL/pgSQL under `sql/bootstrap/`; the Rust part provides the
background worker, the libpq transport and the digests. Paths below are relative to
the repository root; `050` is short for `sql/bootstrap/050_compare.sql`, `070` for
`sql/bootstrap/070_reporting.sql`, and so on.

## 1. Inventory

| component | code | state | operations | correct when |
|---|---|---|---|---|
| Exact comparison of one table | `050` `compare_table` | `run.status`, `table_plan`, `table_result`, `table_node_result`, `divergence`, `divergence_recheck`, samples in temporary tables | fence, whole-table checksums, localize (sample A), recheck passes, verdict | a confirmed key has really diverged; a divergence that stays is reported; no candidate is left open |
| Multi-table run | `050` `compare` | `run` row, `table_result` per table | create or append to a run, skip tables that have a verdict, catch a table's error, aggregate partitions, close the run | an error of one table does not leak into its own or another table's result; a completed run has every table |
| Fences of the peers | `030`, `025`, `src/transport/libpq.rs` | barrier token at the origin, `fence_attempt`, `fence_barrier_run`, `run_edge` | inject, poll, converge, time out; degraded, native and standby variants | convergence implies the target has applied everything the origin committed before the barrier |
| Re-fence, throttle | `036`, `035` | a new epoch over the same edges | re-fence when the snapshot is too old; wait for lag | every edge of the current epoch is fenced again, or the run fails |
| Barrier retention | `080` | tokens, `fence_barrier_run` | delete tokens past retention that no unfinished run needs | no token an open fence still waits for is deleted |
| Contracts | `010` | none (reads pglogical and publication catalogs) | resolve columns, row filter, actions per peer | a difference the contract permits is never confirmed |
| Planning, localization SQL | `040` | chunk queue | cut a table into key ranges, split dirty ranges | every key is in exactly one leaf range |
| Sequences | `050` `compare_sequence` | `sequence_result` | compare against the cache window | lag within the contract is no divergence |
| Repair | `060` | `repair_run`, `repair_result`; rows at the target | statements, apply (local or remote), revalidate | what is recorded is what happened on the target |
| Remote checksums | `src/transport/libpq.rs` `fetch_checksums_batch` | connections, each in a phase of its query; results | keep at most `max_parallel_chunks` queries going over non-blocking libpq, collect, order | every task answered once, by a committed transaction; the coordinator never sleeps on an answer it has |
| Asynchronous run | `src/worker.rs`, `070` | `run.status`, `worker_task`, worker processes | `compare_async`, claim, table loop, finish, fail; `pause`, `resume`, `cancel` | verdicts survive deaths; the two rows agree; cancel is final; an abandoned run can be resumed |
| Schedules, purge | `070`, `src/worker.rs` | `schedule`, `run` | cron match, dispatch, purge | one run per due minute |
| Digests | `src/digest/*` | none | canonical encoding, row digest, LtHash | equal multisets have equal hashes |
| SQL bindings, settings | `src/sql_api.rs`, `src/lib.rs` | session settings | LSN conversions, the `lthash` type and aggregate, argument marshalling | an LSN that goes through text and `i64` is the same LSN |
| Reports, grants | `070`, `sql/finalize.sql` | none of their own | views | out of scope |

**How they interact.** `compare_async` writes a run and a task and launches a
worker; the worker calls `compare` once per table (explicit table list) or once for
the whole run; `compare` calls `compare_table` in a subtransaction per table;
`compare_table` fences edges through libpq, reads every node through libpq, and
records results on the coordinator. Everything the coordinator records is
transactional: an exception takes back a table's rows, a crash takes back a
transaction. The replicated database is shared with the applications, which write
all the time, and with the apply workers of pglogical.

**What is hard.** (a) No two nodes are ever read at the same moment, and each edge
has its own lag. (b) The worker, its replacement and the user's calls share two rows
with different locking. (c) A worker can die, a fence can time out, and a launch is
not undone by a rollback. (d) Remote transactions commit by themselves: a repaired
target stays repaired when the coordinator's call fails or is rolled back. (e) libpq
is driven without blocking, and only sockets and the latch wake the coordinator.
(f) Equal rows have to give equal bytes on every node, in every session. `PROJECT.json` lists the hazards, each with its line and
the properties that watch it.

## 2. The modules

| module | what it is |
|---|---|
| `ValidationPromise` | abstract: what a comparison promises, with no mechanism |
| `DigestStability` | fence, checksum, localize, recheck, verdict of one table, over a replicated database that keeps working; implements `ValidationPromise` |
| `Replicas` | the databases the fences look at, and the transport's calls on them |
| `PeerFence` | extends `Replicas`: the fences of one comparison, for every kind of peer, with skipping, re-fencing and throttling |
| `ChecksumFanOut` | one batch of remote checksums over non-blocking libpq connections |
| `RowDigest`, `LtHash` | pure: canonical bytes of a row and their digest; the additive set hash, its bytes, text and aggregate |
| `TableChecksum` | extends both: the checksum statement on two nodes and the comparison of what they answer |
| `Repair` | one repair call: statements, the target's transaction, sequence, audit rows, revalidation |
| `RunLifecycle` | the run and task rows, the workers, and the user's calls |
| `MC...` | constant values and symmetry for TLC, one module for each of the above that is run |
| `..._proofs` | theorems: `DigestStability_proofs`, `DigestCompleteness_proofs` (extends it), `PeerFence_proofs`, `ChecksumFanOut_proofs`, `TableChecksum_proofs`, `Repair_proofs`, `RunLifecycle_proofs` |
| `DataLemmas` | lemmas about data for those: induction, division, matching, sums |

`DigestStability` takes three things from the others as given, and each is what they
are about: that a converged fence has applied what its barrier covers
(`PeerFence!ConvergedCovers`), that a node's answer is the sum of its committed rows
(`ChecksumFanOut!ResultsCommitted`, `ReturnsAll`), and that equal sums mean equal
tables (`TableChecksum!SameTablesAgree`, `EqualMeansSame`).

### DigestStability

*Environment.* Every key is written at one owner node. A write appends to the
owner's WAL (`wal`); every other node applies each WAL in commit order
(`applied[o][t]` is origin progress, the only thing a fence can observe). `DriftAt`
changes a row at one node outside replication: that is what a comparison is there to
find. A drifted row may absorb a later replicated change or be overwritten by it,
since either may happen under a conflict policy. A row carries its `digest`, which the program sees, and
`ver`, the WAL position that produced it, which it does not see; `used` and
`drifted` are history variables.

*Program.* The actions follow `compare_table` from top to bottom:

| action | code |
|---|---|
| `InjectBarrier`, `Converge` | `inject_barrier` (`libpq.rs:590`), `fence_pglogical_edge` (`030:84-154`), one edge after the other, in any order of the edges |
| `Checksum` | whole-table checksums, local node first, then each peer (`050:2667-2808`); equal sums give `match`, unequal sums of a keyless table give `differ` at once |
| `Localize` | sample A, candidates per peer up to `max_reported_divergences` (`050:3474-3795`) |
| `BeginRecheck` | a new epoch with new barriers (`050:3798-3834`) |
| `Resample` | the next sample; candidates of the peer just read are resolved by `classify_recheck_outcome` (`050:34-61`, `4021-4219`) |
| `Conclude` | verdict from the recorded rows (`050:4273-4344`) |
| `RunFails` | the exception handler of `compare` (`050:354-452`): verdict `error`, divergences rolled back |

*Abstractions.* A node is read in one step although the code reads it chunk by
chunk, each chunk its own snapshot: candidates are resolved key by key, so only the
order of one key's reads on the two sides matters, and that is kept. The barrier
row of a token is not a WAL record; the barrier is the WAL position it was
committed at, which is what `observe_barrier` compares origin progress with. The
recheck reads candidate keys only; the model reads all and uses the candidates.
The contract is
`full`, and every peer is fenced: the candidates of a native peer without a fenced edge
are confirmed without a recheck (`050:4221-4238`), and with a degraded fence nothing is
localized (`050:3474`); neither is modelled. Peers are visited in any order, the code orders them by name. LtHash is taken as
free of collisions (`docs/design.md` gives the bound). `on_fence_timeout` is
its default, `abort_run` (`PeerFence` has the other). The edges are those `compare_table` fences: local to peer,
and peer to local where a reverse subscription is registered.

### Replicas and PeerFence

*Environment* (`Replicas`). One provider commits (`wal`) and writes its WAL
(`written`, which asynchronous commits run ahead of). A peer is a pglogical or native
subscriber, which applies and confirms to its slot, or a standby, which replays and
may be promoted. A barrier token can reach a peer early by way of another node
(`Forward`) and can be deleted there by that peer's own cleanup (`Cleanup`, `080`),
whose catalog does not have the coordinator's run.

*Calls.* Each call of the transport is two operators: `Fetch...`, the function in
`libpq.rs` with the SQL it sends, and `Remote...`, the function in `sql_api.rs`
around it; both are the set of rows the call may return now. LSNs go through
`FormatLsn`, `ParseLsn` and `AsPgLsn` as in the code: two words in text, an `i64`, and
back (`Shown`, `Returned`), at the width `Word`.

*Program* (`PeerFence`). `pc` follows `compare_table`: peers are fenced in the order
pglogical, native, standby (`Status`, `Sync`, `Capture`, then `PollSlot`, `Observe` and
`LastLook`, or `Replay`); `NextChunk` and `Throttle` re-fence and wait between chunks. A
call that raises goes to `Raise`, which `skip_peer` turns into `SkipPeer`.

| action | code |
|---|---|
| `Status`, `Sync` | subscription or standby status, table sync status (`030`) |
| `Capture` | `inject_barrier`, or the LSN a degraded or replay fence waits for |
| `WaitSlot`, `PollSlot`, `Observe`, `LastLook`, `Replay` | `030`'s polling loops, `libpq.rs` `wait_slot_confirm_lsn` |
| `Record`, `SkipPeer`, `Raise` | the rows a fence leaves, the handler of `050` |
| `NextChunk`, `EndFencing`, `Throttle` | `036`, `035`, the chunk loop of `050` |

*Abstractions.* A poll that finds nothing is no step. A deadline is a nondeterministic
event; the slot and the observation of a native fence share one deadline, as in the
code. Reverse subscriptions (`050:1945-2180`) are fenced by the same functions and not
enumerated. Native peers without a subscription are not fenced by the code either.
The throttle's `paused` and `comparing` are written inside an open transaction and seen
by nobody.

### ChecksumFanOut

A reply is `sent` by the server, `read` into libpq's buffer and `taken` out of it. The
coordinator fills its vector (`Connect`, `SendQuery`), walks it (`ConsumeInput`,
`TryFinish`, `ConnectionLost`; `Finish` removes with `swap_remove`), and at the end of a
round that brought nothing sleeps (`EndRound`, `Wake`). Servers answer in parts, fail
a statement (the `COMMIT` too) or go away; the user cancels. A query in `Oversized` may
stay partly in libpq's output buffer: the wait watches sockets for input and closing
only, so nobody sends the rest. That is the exception `EndsUnlessUnsent` names.

### RowDigest, LtHash and TableChecksum

`RowDigest` translates `encode.rs` and `row_digest.rs`: the encoding mode of each
column, frames with a length, signed zeros and NaNs under the session's settings,
float arrays with their bounds, json as jsonb. `LtHash` translates `lthash.rs` and the
SQL type around it: lanes modulo 2^16, the blocks of the varlena, hexadecimal text with
or without `\\x`. `TableChecksum` runs the statement that `040` generates on two nodes
whose sessions are set differently; `SettingsCte` is what pins them. Rows are read in any
order and dealt to partial aggregates.

*Abstractions.* BLAKE3 is free of collisions and its expansion is a function; a byte is
a number of a small base, `LengthSize` is above every length in the run. The settings
CTE is taken to be evaluated before the scan. The generated statement calls
`set_config` and is never run in parallel by PostgreSQL, although the aggregate allows
partial states; the model merges them all the same. The statement and its paranoid
variant are one, and `paranoid_confirm_max_rows` is left out.

*Assumptions on the constants*, which TLC evaluates in the run `digest`:
`TablesAssumption` (rows have a value of its type, or NULL, in each column, and every
digest they get is in the domain of `Expand`), `LengthsAssumption` (an encoded value is
shorter than `LengthSize`: PostgreSQL limits a value to 1 GB, a length has 32 bits), and
`CollisionFree`: of the tables that occur, two with the same sums in every lane hold
every digest equally often, unless one holds some digest 2^16 times. It speaks of the
tables in `Tables` only. For all tables at once it would be false for any `Expand`, there
being more tables than states; what the design relies on is that nobody meets two that
collide (`docs/design.md` has the bound).

### Repair

The call takes the divergences of a finished run (`seen`: the tuples as they were
recorded, read in one quiet comparison) and works in the caller's transaction; a remote
target has a session of its own and commits by itself.

| action | code |
|---|---|
| `Call` | `_repair_statements` (`060:1-600`: source of each row, action, what raises), the checks of the mode, the `repair_run` row |
| `Lock`, `Write`, `Verify`, `CommitBatch` | the batch on the target; in place if the target is local and replicates |
| `SetSequence`, `Results` | `setval` to the value the run recorded (`060:521-545`), the `repair_result` rows |
| `ReadLocal`, `ReadPeer`, `RecheckLocal`, `RecheckPeer`, `TableStillDiffers` | the revalidation: `compare_table` once more, under the run's own options; any verdict but `match` |
| `ReadProvider`, `ReadSubscriber`, `SequenceStillDiffers` | `compare_sequence` once more |
| `FinishRun` | `revalidated`, or `applied` if anything still differs |
| `Fail`, `CommitUnanswered`, `SetvalUnanswered` | an error in the call, which its subtransaction undoes; one after the remote commit |
| `CallerCommits`, `CallerAborts` | the end of the caller's transaction |
| `Change`, `Nextval` | an application, or an apply worker (also one that carries the repair on, under `replicate`); an application that uses the sequence |

*Contracts.* `options.mask` is what the replication sets carry besides inserts, and
`Contract` derives the validated property from it as `010:416-427` does. `keys_only` is the
last branch there, whatever it replicates of deletes and truncates, so `Replicated`
emits the `DELETE` of a `keys_only` table that replicates both (`060:437-440`).

*The report limit.* The revalidation takes over the options of the run (`060:646-649`), its
`max_reported_divergences` with them: `Look` records at most that many of the keys
that differ, advisory ones included, and the verdict is made of those alone. `found`
holds the keys it saw and `omitted` those it had no room for. When more differ than the
limit allows and the recorded ones clear, the call says `revalidated` over a key nobody
has touched and that still differs: the false match of `report_limit`, in a
repair. `RevalidatedAgrees` has just this exception, and says that there is none
if what was found fits.

*The sequence.* `setval` writes the provider's value of the run, not of today
(`SetTarget`); in between `Nextval` may have moved the provider or the target, and the target
may end up outside its window. Only the `compare_sequence` that follows can tell, which is
what the last clause of `RevalidatedAgrees` is about.

*Abstractions.* One table with a key and one sequence whose provider is the coordinator;
foreign-key order, generated columns, filtered contracts and
`correlate_conflict_history` (diagnostics) are left out, as are the argument checks
before the `repair_run` row. The checksum and the localization of the revalidation are one
look, and a recheck pass can be repeated at will. Changes are made at the nodes the call
reads: the call reads no other, and before its first statement it reads no rows at all.

*What the model shows of the code's limits*, besides its properties: with a third node
as authority, a key that is missing both there and at the target makes
`_repair_statements` raise for the whole repair, where `docs/design.md:680` asks for the
least DML; a key where only the authority differs is not repaired, and the revalidation
compares one pair where `docs/design.md:699` says all peers; a failure after the remote
`COMMIT`, or the caller's rollback, leaves committed rows with the status `failed` or with no
record, where `docs/design.md:670` wants every statement audited; and a repair run
again after that fails on the rows it inserted.

### RunLifecycle

A step is what one transaction commits. A transaction others can run into is two
steps, `BeginTable`/`EndTable` or `BeginRun`/`EndRun`, with the worker `"busy"` in
between; `RunFree` is the row lock compare takes with `FOR UPDATE`, `TaskFree` the
one `_run_worker_task` takes. An action that would wait for a row is not
enabled. `explicit` selects between the worker's two ways of running a request: one transaction per
table, or one for everything.

| action | code |
|---|---|
| `CompareAsync`, `CommitCaller`, `AbortCaller` | `070:448-530`; the launch happens inside the caller's transaction and survives its rollback |
| `Pause`, `Cancel`, `Resume`, `Unpause` | `070:1-133` |
| `Claim`, `GiveUp`, `CheckLatch` | `070:532-571`, `worker.rs:380-413`, `worker.rs:64-71` |
| `BeginTable`, `EndTable`, `FailTable`, `Stumble`, `Finish` | `worker.rs:141-378`, `050:287-452`, `050:696-709` |
| `BeginRun`, `EndRun`, `AbortRun`, `RecordAbort` | `070:573-673` |
| `MarkFailed` | `worker.rs:415-438` |
| `Die` | a killed worker process, or an error that ends it |

*Abstractions.* A table's verdict is `done` or `error`, which is all `compare` looks
at when it decides to skip a table. The statuses `fencing` and `rechecking` exist
only inside an open transaction and are never seen by others. `starting` and
`canceled` of `worker_task.status` are never written by any statement, and the
branches on them are left out. A launch that fails raises and takes the whole call
back, so it is no step. A process id is never reused: `resume` would take an unrelated
session with the pid of a dead worker for the worker. Whether an SQL error comes back to the worker's loop or ends
its process is up to the pgrx runtime: the first is `FailTable` or `Stumble`, the
second is `Die`.

## 3. The runs

| run | constants | shows |
|---|---|---|
| `sound` | pair of nodes, a key written on each side, 2 recheck passes | the type and inductive invariants, `ConfirmedIsReal`, `NoMissedDivergence`, `ConfirmedOnEvidence` (the confirming step holds a drifted row in its sample, also when drift was healed and repeated), and that `DigestStability` implements `ValidationPromise` |
| `hub` | one writer with 3 changes of a key, two peers | the per-peer order of reading and resolving does not mix peers; `NoOpenCandidate` with a key that stays hot through both passes; `Terminates` |
| `mesh` | a third node writes, and is not compared | **violated** `ConfirmedIsReal` |
| `report_limit` | `max_reported_divergences` reached | **violated** `NoFalseMatch` |
| `fences` | 2 peers: pglogical with barriers and a standby, pglogical without and native, native and a standby; a chunk after the first fence; `skip_peer`, degraded fences and the throttle on or off | `ConvergedCovers`, `DegradedCovers`, `StampedHonestly`, `Ends` |
| `skip_peer` | a peer that may be skipped, then a re-fence | **violated** `SkippedPeersDoNotFailTheRun` |
| `fan_out` | 3 tasks, 2 connections, one query that may not fit the socket | `NeverSleepsOnAnswer`, `EachTaskOnce`, `ResultsCommitted`, `ReturnsAll`, `EndsUnlessUnsent` |
| `digest` | 13 near misses of a row, tables of up to 4 rows, 3 session settings on either node, lanes of 4 values | `SameTablesAgree`, `EqualMeansSame`, `TextKeepsState` |
| `repair` | coordinator and 2 peers, any authority and target, 2 keys, 3 contracts (`keys_only` with deletes), a report limit of 1 or 2, a sequence behind or ahead of its window, 2 writes, 1 unconfirmed divergence | `WritesAuthority`, `CommittedAsVerified`, `RevalidatedAgrees`, `RecordsTell`, the type and inductive invariants |
| `lifecycle` | 2 tables, with and without a table list, 3 launches, 4 calls, 1 death | `CompletedIsComplete`, `RowsAgree`, `ClaimedIsResumable`, `CanceledIsFinal`, `ResultsKept`, `WorkersEnd`, `Settles`, the type and inductive invariants |
| `two_drivers` | pause and resume before the first claim | **violated** `OneDriver` |
| `pause_lost` | an explicit list of 2 tables, a pause between them | **violated** `PausedUntilResumed` |

**Bounds.** `MaxWal` bounds the changes of one WAL and `MaxDrift` the drifted rows.
A false confirmation needs a lagging key, or a key whose digest stands still on both
sides over two samples: two changes per WAL with two passes contain both. A key that
is hot in the last pass needs a change before each of the three samples, which is why
`hub` has three. Two keys are needed for the report limit and for one key clearing
while another stays. In `RunLifecycle`, `MaxCalls` and `MaxDeaths` bound the user and
the failures, and every worker is launched once: three launches give a first worker,
a replacement, and a replacement of that, each of which can still meet the others.
In `PeerFence`, `MaxChunks = 1` gives one re-fence after the initial fence, with edges
of the epoch before still recorded; `MaxCommits` and `MaxLsn` leave room for a commit and
a barrier of each epoch, and `Word = 3` makes an LSN cross from the low word to the high
one. Three tasks over two connections make `swap_remove` move a connection that is still
working. In `digest` a lane has four values, so four copies of a row are the smallest table
that wraps. In `repair` two writes are what it takes to delete a row before its lock and to
write it again behind it, or to change both sides between two readings; the second key is
one the target already has right or wrong on its own. Under a limit of 1, one write
makes the revalidation find a second difference, for which it has no room. `Window = 1`
puts the value 0 behind 1, and 2 outside the window of 0. `MaxUnconfirmed = 1` leaves one
divergence of what the run has read unconfirmed, in any place; `MaxWrites` bounds row
writes and uses of the sequence together.

**Deadlock** is not checked: a comparison, a batch, a repair and a run really end, and
the environment of a finished one may have used up its bounds.

**Fairness.** `DigestStability!FairSpec` has weak fairness on the coordinator's
`Progress`, a sequential program that is scheduled, and on its failure *while it
fences*: every fence has `fence_timeout_ms` (`030:115`), so a fence that does not
converge raises. Nothing is assumed of writers, appliers or drift. `PeerFence!FairSpec`
has weak fairness on the coordinator's steps, on the clock passing a deadline (`030`'s
loops and the throttle compare `clock_timestamp()`), and on the failure of the one wait
that has no deadline of its own, `wait_slot`, which the session's `statement_timeout`
ends. `ChecksumFanOut!FairSpec` has weak fairness on the coordinator and on the servers
that have received their whole query: a server that hangs is ended by the timeouts set
in the query. `RunLifecycle!FairSpec` has weak fairness on each worker (a process that
is scheduled; every lock it waits for is held by a transaction that ends) and on the end
of the transaction that called `compare_async`. Users need not do anything, so
`Settles` speaks of behaviours without a death: a dead worker's run waits for a user's
`resume`, which no fairness gives.

**Findings.** The five violated runs are disagreements between the code and a
sentence of the repository; `PROJECT.json` quotes each.

1. `mesh`: the design fences every directed edge of a mesh, the code only the edges
   between the coordinator and its peers. A change in flight from a third writer is
   confirmed as a divergence.
2. `report_limit`: keys beyond the limit are not considered by the verdict, and when
   the reported ones clear it says `match`. A repair's revalidation inherits the limit.
3. `two_drivers`: `pause` then `resume` before the first worker's claim leaves two
   workers that both claim the task, which is where the trace ends. Results survive
   (`ResultsKept`), but the second worker then finds the run completed, and turns it into
   a failed one.
4. `pause_lost`: a pause between the two tables of an explicit list is overwritten: the
   second table is compared and gets its verdict without a resume. A pause before the first
   table, and one before the single transaction of a run without a list, are lost the
   same way.
5. `skip_peer`: the edge of a peer that was skipped stays in `current_edge_ids`, and the
   next re-fence finds one edge too few and fails the run.

Five more limits have no run. The soundness proof in the design takes it that
a change alters the digest of its key between two samples, which insert followed by
delete does not (`FreshDigests = FALSE` makes `ConfirmedIsReal` fail). A table without a
key cannot be rechecked and gets `differ` at the first look. A worker that ends before its
claim leaves a task `queued`, which `resume` does not look for. And the query that stays
unsent is an exception in `EndsUnlessUnsent` rather than a finding. Last, the recheck
does not ask the contract again (`050:4198`): a key of a `superset` or `keys_only` table
whose rows change between the samples is confirmed under the classification of the first
one, also when the contract permits what is there now.

## 4. The proofs

All proofs are for arbitrary constants that satisfy the module's assumptions.

`DigestStability_proofs`:

* `TypeCorrect`: `Spec => []TypeOK`.
* `Invariance`, `Soundness`: `FeedsAreFenced` and `FreshDigests` imply `Spec => []IInv`
  and `Spec => []ConfirmedIsReal`.
* `EvidenceSound`: under the same hypotheses, `Spec => ConfirmedOnEvidence`.
* `CandidatesClosed`: `Spec => []NoOpenCandidate`, with no hypothesis.
* `Refinement`: under the two hypotheses and `Keyed`, `Spec => KeepsPromise`.

The two hypotheses are what the code does *not* establish. `FeedsAreFenced` says that
every stream that feeds a compared node is a fenced edge (the run `mesh` shows that it is
needed), `FreshDigests` that no key returns to a digest it had. `Keyed` excludes the
verdict of a table without a key.

*Argument.* `ConfirmedIsReal` says nothing about samples and is far from inductive.
`IInv` adds, in this order: rows come from the WAL or from drift (`RowsKnown`,
`UsedFromWal`, `WalUsed`, `DriftKnown`); an undrifted row is as new as what its node
has seen (`Current`); the barriers of a recheck epoch lie past everything the
previous sample saw on *either* side, and a converged edge has applied that much
(`EpochCovers`); therefore every undrifted row of the new sample is at least as new
as every row of the previous one, on both sides (`SamplesAdvance`). If a key is
then stable on both sides, fresh digests make equal digests equal versions
(`FreshRows`), so each side is at least as new as the other, both rows are the same
change, and their digests could not differ unless one of them drifted
(`StableDifferenceIsDrift`). `Resample` is the only step that confirms.

`Refinement` maps the confirmed pairs to the reports of `ValidationPromise` and the
table's verdict to its outcome. It needs a second invariant, `Orderly`, about the
order of the comparison alone: no pair is confirmed before the first recheck
(`NothingYet`), no verdict stands while the comparison runs (`VerdictLast`), and in
the last pass a peer that has been read has no candidate left (`ClosedAsRead`), from
which `CandidatesClosed` follows for every topology and load.

`DigestCompleteness_proofs`: `Completeness` (`NoMissedDivergence`) under `FreshDigests`,
finitely many peers and keys, and `Cardinality(Key) <= MaxReported`; `MatchIsTrue`
(`NoFalseMatch`) for a table with a key. No fence and no topology is assumed: completeness
is the half of the promise that lag cannot hurt.

*Argument.* A checksum stands for a row its node has seen by now (`SumsSeen`). A row a node
takes later was not seen before, so its digest is not the checksum's (`Grows`), and a node
that has moved away from its checksum never comes back (`MovedForGood`). Hence each
sample holds the checksum's row or the node has moved for good (`Samples`), and a
difference that is still there at the end was there in every sample: it became a
candidate, was stable in the first recheck, and was confirmed (`Recorded`). The report
limit is the only way out, and `report_limit` takes it.

`PeerFence_proofs`: `TypeCorrect`, `ConvergedFences` (`ConvergedCovers`),
`DegradedFences` (`DegradedCovers`), `HonestStamps` (`StampedHonestly`). The first lemmas
are about numbers: an LSN below half of `Word * Word` survives `format_lsn`, `parse_lsn` and
the casts to and from `i64`. The invariant ties the target of the fence at hand to the cut
it was captured at, and lets every step of the databases only move positions forward (`Later`).

`ChecksumFanOut_proofs`: `TypeCorrect`, `NeverSleeps`, `TasksOnce`, `Committed`,
`ReturnsEverything` (`ReturnsAll`). `IInv` adds that only started tasks are filed
(`Filed`), that replies are sent, read and taken in that order and a checksum is its
server's (`Answers`), and that in a round without progress the connections before `index`
are drained (`PolledAreDrained`). The last one is the point of `NeverSleeps`:
`swap_remove` moves an undrained connection only to `index` itself. `ReturnsEverything`
counts (`Counted`): every started task is connecting, in the vector or among the
results, so a batch that is through has as many results as tasks; they are of distinct
tasks, so sorted they are strictly rising (`SortedIsRising`), and a rising function from
`1..n` into itself is the identity (`RisingIsIdentity`): place `i` holds task `i`.

`TableChecksum_proofs` proves all four invariants of the run `digest`.

* `TypeCorrect`, `TextRoundTrip` (`TextKeepsState`): lanes to blocks and back
  (`BlocksKeepCore`), lanes to bytes (`BytesOfLane`), bytes to digits (`DigitsOfByte`).
* `SameRowsMatch` (`SameTablesAgree`). Rows that are to be taken as the same have one
  message (`SameRowMessage`), and being the same is an equivalence, so that tables with
  equally many copies of each row match row by row (`SameTablesMatch`). The invariant
  `Progress` says what a scan has come to: the partial aggregates add up, lane by lane, to
  the digests of the rows that were read (`Lanewise`), and the digests kept for the set hash
  are those rows' (`Rowwise`). What a node answers is then a function of its digests alone
  (`Answered`): sums do not depend on the order (`SumOfMatching`), and digests of one
  width have one sorted arrangement (`SortedIsUnique`).
* `MatchMeansSameRows` (`EqualMeansSame`), from `CollisionFree`. The encoding is taken apart
  from the outside in: equal bytes of lanes are equal lanes (`BytesApart`), the lanes
  are those of the state that adds the digests up one by one (`StateLanes`), so each
  digest occurs as often; a message is cut into frames in one way, since no frame is the
  beginning of another (`FramesApart`, `FlattenUnique`); and equal frames are values to be
  taken as the same, arrays and the float policies included (`ArraysApart`, `ValuesApart`).

`Repair_proofs`: `TypeCorrect`, `Invariance`, `AuthorityIsWritten` (`WritesAuthority`),
`CommitsWhatItVerified` (`CommittedAsVerified`), `RevalidationSound` (`RevalidatedAgrees`),
`RecordsAreTrue` (`RecordsTell`). `IInv` says that the batch is the call's (`Planned`), that
uncommitted rows are locked and outlive the commit step only in the caller's own
transaction (`Transaction`), that from the verification on the target holds the batch but
for keys written since (`Verified`), what the record may say at each point
(`Recorded`), and what of the revalidation's reading still stands, of the table (`Reread`:
an untouched key agrees, is a candidate, or was left out for lack of room) and of the sequence
(`SequenceReread`). `RevalidationSound` holds for every report limit, with the exception
`RevalidatedAgrees` states; `RevalidationComplete` has the hypothesis that rules it out,
as `MatchIsTrue` does for a comparison: a finite table and a limit no smaller than it.

`RunLifecycle_proofs`: `TypeCorrect`, `Invariance`, `CompletionSound`
(`CompletedIsComplete`), `Agreement` (`RowsAgree`), `Resumability` (`ClaimedIsResumable`),
`CancelFinal` (`CanceledIsFinal`) and `ResultsLast` (`ResultsKept`).

*Argument.* `RowsAgree` can be lost in two ways, by a step of a worker that holds no
lock and by one that works for a run nobody has committed. `IInv` rules out the first with
`Locked` (one comparison at a time, over a run that can still be appended to) and
the second with `Unseen` (what the rows say until the caller commits, and that no
worker gets past its launch until then). `Passed` carries completeness: the tables a
worker has passed have a verdict, whoever wrote it. `ResultsKept` and
`CanceledIsFinal` follow step by step from the same invariant.

**Induction.** The library's induction theorems take an operator as a parameter, which no
prover here can instantiate. `DataLemmas` states induction for the members of a set instead
(`NatSetInduction`, `FiniteSetInduction`, from the theorem that the naturals are well
founded), and each use defines the set of numbers for which its claim holds. The
recursive functions behind a concatenation (`FlattenExists`, `FlattenUnique`), a sum
(`SumExists`) and the state of a list of digests (`AddingExists`) are reasoned about in this way.

**Only model-checked:** liveness (`Terminates`, `Ends`, `EndsUnlessUnsent`, `WorkersEnd`,
`Settles`), which is out of this prover's reach. Every invariant and action property that
a passing run checks has a theorem.

## 5. Not modelled, and the plan

Not modelled at all: reports and views, grants, barrier setup and registration (one-time
DDL), definitions of settings, connection strings. Left, most important first:

1. `ContractVerdict`: the row filters and replicated actions of a contract in
   candidate classification (`missing_on`, `extra_on`, `differs`, `advisory`) and in
   the verdict, with the sequence windows; a pure module checked against a reference
   definition, and composed with `DigestStability`.
2. `ChunkQueue`: splitting dirty ranges, waves, the frontier kept for a resumed run, and
   keyless buckets; every key in exactly one leaf range.
3. `RunTables`: the table loop of `compare` with partition aggregation and
   `on_precondition_fail`, as the detail of `EndTable`.
4. `Schedules`: the cron matcher as a function against a reference, dispatch, purge.
5. Several tables in one repair, in foreign-key order.

Theorems to come: the fences of `PeerFence` as an implementation of `DigestStability`'s
`InjectBarrier` and `Converge`, and a batch of `ChecksumFanOut` as one step that answers
every task.
