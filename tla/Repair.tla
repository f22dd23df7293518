--------------------------------- MODULE Repair ---------------------------------
(***************************************************************************)
(* One call of apply_repair over the divergences a run has recorded for a  *)
(* table: the statements for one target, their transaction on that target, *)
(* the sequence step after it, the audit rows and the revalidation, with   *)
(* applications that go on writing and a caller that may roll back.        *)
(*                                                                         *)
(* The call runs inside the caller's transaction and writes its repair_run *)
(* row there; a remote target commits in a session of its own.  Row values *)
(* stand for the repaired columns of a row.                                *)
(***************************************************************************)
EXTENDS Integers, FiniteSets

CONSTANTS
  Node, Local,       \* participants of the run, and the coordinator
  Key, Sequence,     \* the table's keys, and the sequence
  Row, Absent,       \* contents of a row, and no row
  Seen,              \* what the run can have read: functions node -> key -> row
  Options,           \* see RepairAssumption
  Window,            \* sequence_buffer_multiplier * cache_size
  MaxUnconfirmed,    \* bound: divergences the run has not confirmed
  MaxWrites          \* bound: writes of applications

Peer == Node \ {Local}
Image == Row \cup {Absent}
Table == [Node -> [Key -> Image]]
Propagation == {"local_only", "replicate"}

ASSUME RepairAssumption ==
  /\ Local \in Node
  /\ Absent \notin Row
  /\ Sequence \notin Key
  /\ Seen \subseteq Table
  /\ Options \subseteq
       [mask : SUBSET {"update", "delete", "truncate"},  \* replicated with insert
        max_reported : Nat \ {0},   \* max_reported_divergences
        capped : SUBSET Row,        \* truncated when recorded
        forwarded : SUBSET Node,    \* a subscriber forwards {all}
        last : [Node -> Nat],       \* values of the sequence the run has read
        loopback : BOOLEAN]         \* a peer row named local
  /\ Window \in Nat
  /\ MaxUnconfirmed \in Nat
  /\ MaxWrites \in Nat

VARIABLES
  seen, options,     \* the recorded tuples, and the deployment
  confirmed,         \* divergence rows with status confirmed: <<node, key>>
  rows,              \* committed rows of every node
  last,              \* last value of the sequence at every node
  writes,
  pc,
  call,              \* authoritative, target, propagation
  batch,             \* pgl_validate_apply_statement: repaired key -> row written
  setval,            \* ... and whether it holds a setval
  open,              \* the row DML is done and not yet committed
  held, pending,     \* its transaction's row locks and uncommitted rows
  sample,            \* the local rows the revalidation has read
  found,             \* the keys it has seen differ,
  omitted,           \* ... those of them it had no room to record,
  candidates,        \* ... and those recorded and not yet cleared
  provider,          \* the provider's value it has read
  still_differs,     \* objects whose revalidation did not match
  repair_run, repair_result,
  saved,             \* the repair_run status the caller has committed
  committed,         \* history: the row batch is committed on the target
  touched            \* history: <<node, key or sequence>> written since the
                     \* verification, or since the setval

vars == <<seen, options, confirmed, rows, last, writes, pc, call, batch, setval, open,
          held, pending, sample, found, omitted, candidates, provider, still_differs,
          repair_run, repair_result, saved, committed, touched>>

run == <<seen, options, confirmed>>
request == <<call, batch, setval>>
audit == <<repair_run, repair_result, still_differs>>
locks == <<open, held, pending>>
database == <<rows, last, writes>>
reading == <<sample, found, omitted, candidates, provider>>
history == <<committed, touched>>

NoCall == [authoritative |-> Local, target |-> Local, propagation |-> "local_only"]
Status == {"none", "running", "applied", "revalidated", "failed"}

\* Values of a function on some of the keys.
OnKeys(S) == UNION {[K -> S] : K \in SUBSET Key}
NoRows == [k \in {} |-> Absent]

TypeOK ==
  /\ seen \in Table
  /\ options \in Options
  /\ confirmed \subseteq Peer \X Key
  /\ rows \in Table
  /\ last \in [Node -> Nat]
  /\ writes \in 0..MaxWrites
  /\ pc \in {"idle", "lock", "write", "verify", "commit", "setval", "results",
             "read_local", "read_peer", "recheck_local", "recheck_peer",
             "read_provider", "read_subscriber", "finish", "return", "done"}
  /\ call \in [authoritative : Node, target : Node, propagation : Propagation]
  /\ batch \in OnKeys(Image)
  /\ setval \in BOOLEAN
  /\ open \in BOOLEAN
  /\ held \subseteq Key
  /\ pending \in OnKeys(Image)
  /\ sample \in [Key -> Image]
  /\ found \subseteq Key
  /\ omitted \subseteq Key
  /\ candidates \subseteq Key
  /\ provider \in Nat
  /\ still_differs \subseteq {"table", "sequence"}
  /\ repair_run \in Status
  /\ repair_result \subseteq Key \cup {Sequence}
  /\ saved \in Status
  /\ committed \in BOOLEAN
  /\ touched \subseteq Node \X (Key \cup {Sequence})

------------------------------------------------------------------------------
(* What a run records under a contract. *)

\* The actions the subscribers' replication sets carry.
Replicated(mask) ==
  {"insert"} \cup (mask \cap {"update"})
             \cup IF {"delete", "truncate"} \subseteq mask THEN {"delete"} ELSE {}

\* The validated_property of a plan.
Contract(mask) ==
  IF {"update", "delete", "truncate"} \subseteq mask THEN "full"
  ELSE IF "update" \in mask THEN "superset"
  ELSE "keys_only"

\* The two images of a key are classified as missing_on, extra_on or differs.
Differs(contract, local, peer) ==
  local # peer /\ (contract = "keys_only" => Absent \in {local, peer})

\* ... and a candidate: extras of a superset are advisory.
Reported(contract, local, peer) ==
  Differs(contract, local, peer) /\ ~ (contract = "superset" /\ local = Absent)

Differing(contract, local, peer) ==
  {k \in Key : Differs(contract, local[k], peer[k])}

\* The keys of S that become divergence rows, advisory ones included: the first
\* max_reported_divergences in the order of the keys, which is left open.
Recordable(max, S) ==
  {R \in SUBSET S : IF Cardinality(S) <= max THEN R = S ELSE Cardinality(R) = max}

Divergent(o, s) ==
  {pk \in Peer \X Key : Reported(Contract(o.mask), s[Local][pk[2]], s[pk[1]][pk[2]])}

\* What the run can have confirmed: divergences it had room to record.
Confirmable(o, s) ==
  {c \in SUBSET Divergent(o, s) :
     \A p \in Peer :
       \E R \in Recordable(o.max_reported, Differing(Contract(o.mask), s[Local], s[p])) :
         {k \in Key : <<p, k>> \in c} \subseteq R}

\* Divergences in what the run has read that it has not confirmed: beyond the
\* report limit, or cleared or left indeterminate by the recheck.
Unconfirmed == Divergent(options, seen) \ confirmed

Init ==
  /\ seen \in Seen
  /\ options \in Options
  /\ confirmed \in Confirmable(options, seen)
  /\ Cardinality(Unconfirmed) <= MaxUnconfirmed
  /\ rows = seen
  /\ last = options.last
  /\ writes = 0
  /\ pc = "idle"
  /\ call = NoCall
  /\ batch = NoRows
  /\ setval = FALSE
  /\ open = FALSE
  /\ held = {}
  /\ pending = NoRows
  /\ sample = seen[Local]
  /\ found = {}
  /\ omitted = {}
  /\ candidates = {}
  /\ provider = 0
  /\ still_differs = {}
  /\ repair_run = "none"
  /\ repair_result = {}
  /\ saved = "none"
  /\ committed = FALSE
  /\ touched = {}

------------------------------------------------------------------------------
(* _repair_statements *)

\* The node a divergence row of peer p repairs.
RepairTarget(a, p) == IF p = a THEN Local ELSE p

\* Mutant of Source: the peer's side of the row being repaired, not of the
\* authority's own divergence.
SourceOfRow(a, p, k) ==
  IF a = p \/ <<a, k>> \in confirmed THEN seen[p][k] ELSE seen[Local][k]

\* The authority's image of a key, as far as the recorded tuples tell.
Source(a, p, k) ==
  IF a = p \/ <<a, k>> \in confirmed THEN seen[a][k] ELSE seen[Local][k]

RepairAction(a, p, k) ==
  IF Source(a, p, k) = Absent THEN "delete"
  ELSE IF seen[RepairTarget(a, p)][k] = Absent THEN "insert" ELSE "update"

\* No image to write, or no row to take the deleted key from.
Unusable(a, p, k) ==
  \/ Source(a, p, k) \in options.capped
  \/ Source(a, p, k) = Absent /\ seen[RepairTarget(a, p)][k] = Absent

Raises(a) == \E pk \in confirmed : Unusable(a, pk[1], pk[2])

\* The peer whose divergence rows repair target t under authority a.
Edge(a, t) == IF t = Local THEN a ELSE t

Repaired(a, t) ==
  {k \in Key : /\ <<Edge(a, t), k>> \in confirmed
               /\ RepairTarget(a, Edge(a, t)) = t
               /\ RepairAction(a, Edge(a, t), k) \in Replicated(options.mask)}

RowBatch(a, t) == [k \in Repaired(a, t) |-> Source(a, Edge(a, t), k)]

\* compare_sequence: neither behind nor ahead_of_window.
Within(provider_value, subscriber_value) ==
  subscriber_value \in provider_value..provider_value + Window

\* Sequences are compared from the coordinator to its peers.
SetvalDue(a, t) ==
  a = Local /\ t # Local /\ ~ Within(options.last[Local], options.last[t])

------------------------------------------------------------------------------
(* apply_repair *)

Goto(step) == pc' = step

\* Row DML and setval run in the caller's transaction, or in the target's own.
InTransaction == call.target = Local /\ call.propagation = "replicate"

\* The checks on the mode before anything is written.
Refused(t, mode) ==
  /\ mode = "local_only"
  /\ \/ t \in options.forwarded
     \/ t = Local /\ ~ options.loopback

Start(a, t, mode) ==
  /\ batch' = RowBatch(a, t)
  /\ setval' = SetvalDue(a, t)
  /\ IF Repaired(a, t) = {} /\ ~ SetvalDue(a, t)
     THEN repair_run' = "applied" /\ Goto("return")
     ELSE IF Refused(t, mode)
     THEN repair_run' = "failed" /\ Goto("return")
     ELSE repair_run' = "running" /\ Goto(IF Repaired(a, t) = {} THEN "setval" ELSE "lock")

Call(a, t, mode) ==
  /\ pc = "idle"
  /\ a # t
  /\ call' = [authoritative |-> a, target |-> t, propagation |-> mode]
  /\ IF Raises(a)
     THEN /\ repair_run' = "failed"
          /\ Goto("return")
          /\ UNCHANGED <<batch, setval>>
     ELSE Start(a, t, mode)
  /\ UNCHANGED <<run, database, locks, reading, still_differs, repair_result, saved, history>>

\* A key of the target as the repair transaction reads it.
Target(k) == IF k \in DOMAIN pending THEN pending[k] ELSE rows[call.target][k]

\* SELECT ... FOR UPDATE locks the rows that exist.
Lock ==
  /\ pc = "lock"
  /\ held' = {k \in DOMAIN batch : rows[call.target][k] # Absent}
  /\ Goto("write")
  /\ UNCHANGED <<run, database, request, open, pending, reading, audit, saved, history>>

Inserted == {k \in DOMAIN batch : seen[call.target][k] = Absent}
Affected == {k \in DOMAIN batch : k \in Inserted \/ rows[call.target][k] # Absent}

\* Mutant of Write: the rows written are not held until the commit.
WriteUnlocked ==
  /\ pc = "write"
  /\ \A k \in Inserted : rows[call.target][k] = Absent
  /\ pending' = [k \in Affected |-> batch[k]]
  /\ open' = TRUE
  /\ Goto("verify")
  /\ UNCHANGED <<run, database, request, held, reading, audit, saved, history>>

\* The DML: an INSERT raises on a row that exists, an UPDATE or DELETE without
\* one does nothing.
Write ==
  /\ pc = "write"
  /\ \A k \in Inserted : rows[call.target][k] = Absent
  /\ pending' = [k \in Affected |-> batch[k]]
  /\ held' = held \cup Affected
  /\ open' = TRUE
  /\ Goto("verify")
  /\ UNCHANGED <<run, database, request, reading, audit, saved, history>>

\* Mutant of Verify: the batch is committed without its verify statements.
VerifyNothing ==
  /\ pc = "verify"
  /\ touched' = touched \ (Node \X Key)
  /\ Goto(IF InTransaction THEN "setval" ELSE "commit")
  /\ UNCHANGED <<run, database, request, locks, reading, audit, saved, committed>>

\* The verify statements, before the commit.
Verify ==
  /\ pc = "verify"
  /\ \A k \in DOMAIN batch : Target(k) = batch[k]
  /\ touched' = touched \ (Node \X Key)
  /\ Goto(IF InTransaction THEN "setval" ELSE "commit")
  /\ UNCHANGED <<run, database, request, locks, reading, audit, saved, committed>>

Release == open' = FALSE /\ held' = {} /\ pending' = NoRows

CommitRows ==
  /\ rows' = [rows EXCEPT ![call.target] = [k \in Key |-> Target(k)]]
  /\ committed' = (committed \/ open)
  /\ Release

CommitBatch ==
  /\ pc = "commit"
  /\ CommitRows
  /\ Goto("setval")
  /\ UNCHANGED <<run, last, writes, request, reading, audit, saved, touched>>

\* setval to the provider's value as the run has read it.
SetTarget == last' = [last EXCEPT ![call.target] = options.last[Local]]

SetSequence ==
  /\ pc = "setval"
  /\ IF setval THEN SetTarget ELSE UNCHANGED last
  /\ touched' = touched \ (Node \X {Sequence})
  /\ Goto("results")
  /\ UNCHANGED <<run, rows, writes, request, locks, reading, audit, saved, committed>>

AfterTable == IF setval THEN "read_provider" ELSE "finish"

Results ==
  /\ pc = "results"
  /\ repair_result' = DOMAIN batch \cup IF setval THEN {Sequence} ELSE {}
  /\ Goto(IF DOMAIN batch = {} THEN AfterTable ELSE "read_local")
  /\ UNCHANGED <<run, database, request, locks, reading, still_differs, repair_run, saved, history>>

------------------------------------------------------------------------------
(* The revalidation, and the end of the call. *)

Visible(n, k) == IF InTransaction /\ n = call.target THEN Target(k) ELSE rows[n][k]

Revalidated == Edge(call.authoritative, call.target)

validated_property == Contract(options.mask)

\* compare_table: the local rows, and those of the peer after them.  The
\* checksum and the localization are one look.
ReadLocal ==
  /\ pc = "read_local"
  /\ sample' = [k \in Key |-> Visible(Local, k)]
  /\ Goto("read_peer")
  /\ UNCHANGED <<run, database, request, locks, found, omitted, candidates, provider,
                 audit, saved, history>>

Look(keys) ==
  /\ pc = "read_peer"
  /\ found' = keys
  /\ \E R \in Recordable(options.max_reported, keys) :
       /\ omitted' = keys \ R
       /\ candidates' = {k \in R : Reported(validated_property, sample[k], rows[Revalidated][k])}
  /\ Goto(IF candidates' = {} THEN AfterTable ELSE "recheck_local")
  /\ UNCHANGED <<run, database, request, locks, sample, provider, audit, saved, history>>

\* Mutant of ReadPeer: only the repaired keys are looked at again.
ReadPeerRepaired == Look(Differing(validated_property, sample, rows[Revalidated]) \cap DOMAIN batch)

ReadPeer == Look(Differing(validated_property, sample, rows[Revalidated]))

\* A recheck pass, of as many as it takes or the options allow.
RecheckLocal ==
  /\ pc = "recheck_local"
  /\ sample' = [k \in Key |-> Visible(Local, k)]
  /\ Goto("recheck_peer")
  /\ UNCHANGED <<run, database, request, locks, found, omitted, candidates, provider,
                 audit, saved, history>>

\* Equal rows clear a candidate; without any the verdict is match.
RecheckPeer ==
  /\ pc = "recheck_peer"
  /\ candidates' = {k \in candidates : sample[k] # rows[Revalidated][k]}
  /\ Goto(IF candidates' = {} THEN AfterTable ELSE "recheck_local")
  /\ UNCHANGED <<run, database, request, locks, sample, found, omitted, provider,
                 audit, saved, history>>

\* Mutant of TableStillDiffers: the verdict is recorded in place of the object.
TableVerdict ==
  /\ pc \in {"read_local", "read_peer", "recheck_local", "recheck_peer"}
  /\ still_differs' = still_differs \cup {"differ"}
  /\ Goto(AfterTable)
  /\ UNCHANGED <<run, database, request, locks, reading, repair_run, repair_result, saved, history>>

\* Any other verdict, or an error, which is caught: a candidate is confirmed or
\* left indeterminate, a fence does not converge, a connection is lost.
TableStillDiffers ==
  /\ pc \in {"read_local", "read_peer", "recheck_local", "recheck_peer"}
  /\ still_differs' = still_differs \cup {"table"}
  /\ Goto(AfterTable)
  /\ UNCHANGED <<run, database, request, locks, reading, repair_run, repair_result, saved, history>>

\* compare_sequence: the provider's value, and the target's after it.
ReadProvider ==
  /\ pc = "read_provider"
  /\ provider' = last[Local]
  /\ Goto("read_subscriber")
  /\ UNCHANGED <<run, database, request, locks, sample, found, omitted, candidates,
                 audit, saved, history>>

ReadSubscriber ==
  /\ pc = "read_subscriber"
  /\ Within(provider, last[call.target])
  /\ Goto("finish")
  /\ UNCHANGED <<run, database, request, locks, reading, audit, saved, history>>

\* Out of contract, or an error, which is caught.
SequenceStillDiffers ==
  /\ pc \in {"read_provider", "read_subscriber"}
  /\ still_differs' = still_differs \cup {"sequence"}
  /\ Goto("finish")
  /\ UNCHANGED <<run, database, request, locks, reading, repair_run, repair_result, saved, history>>

FinishRun ==
  /\ pc = "finish"
  /\ repair_run' = IF still_differs = {} THEN "revalidated" ELSE "applied"
  /\ Goto("return")
  /\ UNCHANGED <<run, database, request, locks, reading, still_differs, repair_result, saved, history>>

\* Mutant of Fail: the error is caught without a subtransaction to roll back.
FailKeepingRows ==
  /\ pc \in {"lock", "write", "verify", "commit", "setval", "results", "finish"}
  /\ repair_run' = "failed"
  /\ Goto("return")
  /\ UNCHANGED <<run, database, request, locks, reading, still_differs, repair_result, saved, history>>

\* A statement fails, a lock or statement times out, a connection is lost: the
\* block's subtransaction and the target's open transaction are rolled back.
Fail ==
  /\ pc \in {"lock", "write", "verify", "commit", "setval", "results", "finish"}
  /\ repair_run' = "failed"
  /\ repair_result' = {}
  /\ Release
  /\ Goto("return")
  /\ UNCHANGED <<run, database, request, reading, still_differs, saved, history>>

\* The answer to COMMIT, or the origin reset after it, is lost.
CommitUnanswered ==
  /\ pc = "commit"
  /\ CommitRows
  /\ repair_run' = "failed"
  /\ Goto("return")
  /\ UNCHANGED <<run, last, writes, request, reading, still_differs, repair_result, saved, touched>>

\* setval has run on the target and its session fails afterwards.
SetvalUnanswered ==
  /\ pc = "setval" /\ setval
  /\ SetTarget
  /\ repair_run' = "failed"
  /\ Release
  /\ Goto("return")
  /\ UNCHANGED <<run, rows, writes, request, reading, still_differs, repair_result, saved, history>>

\* The caller commits its transaction.
CallerCommits ==
  /\ pc = "return"
  /\ saved' = repair_run
  /\ CommitRows
  /\ Goto("done")
  /\ UNCHANGED <<run, last, writes, request, reading, audit, touched>>

\* It rolls back, is canceled or dies, and the audit rows go with it.
CallerAborts ==
  /\ pc \notin {"idle", "done"}
  /\ repair_run' = "none"
  /\ repair_result' = {}
  /\ Release
  /\ Goto("done")
  /\ UNCHANGED <<run, database, request, reading, still_differs, saved, history>>

------------------------------------------------------------------------------
\* An application, or an apply worker, changes a row of a node the call looks at.
Change(n, k, row) ==
  /\ n \in {Local, Revalidated}
  /\ writes < MaxWrites
  /\ rows[n][k] # row
  /\ ~ (n = call.target /\ k \in held)
  /\ rows' = [rows EXCEPT ![n][k] = row]
  /\ writes' = writes + 1
  /\ touched' = touched \cup {<<n, k>>}
  /\ UNCHANGED <<run, last, pc, request, locks, reading, audit, saved, committed>>

\* An application calls nextval, at the provider or at the target.
Nextval(n) ==
  /\ setval /\ n \in {Local, call.target}
  /\ writes < MaxWrites
  /\ last' = [last EXCEPT ![n] = @ + 1]
  /\ writes' = writes + 1
  /\ touched' = touched \cup {<<n, Sequence>>}
  /\ UNCHANGED <<run, rows, pc, request, locks, reading, audit, saved, committed>>

Revalidating ==
  \/ ReadLocal \/ ReadPeer \/ RecheckLocal \/ RecheckPeer \/ TableStillDiffers
  \/ ReadProvider \/ ReadSubscriber \/ SequenceStillDiffers
  \/ FinishRun

Repairing ==
  \/ \E a, t \in Node, mode \in Propagation : Call(a, t, mode)
  \/ Lock \/ Write \/ Verify \/ CommitBatch \/ SetSequence \/ Results
  \/ Revalidating
  \/ Fail \/ CommitUnanswered \/ SetvalUnanswered

Next ==
  \/ Repairing
  \/ CallerCommits \/ CallerAborts
  \/ \E n \in Node, k \in Key, row \in Image : Change(n, k, row)
  \/ \E n \in Node : Nextval(n)

Spec == Init /\ [][Next]_vars

------------------------------------------------------------------------------
(* Properties *)

\* _repair_statements: whatever the authority, the direction and the replicated
\* actions, each statement writes the authority's own image of its key: its
\* presence, and its content unless only keys are compared.  The exception is a
\* third node whose divergence of that key the run has not confirmed, for lack of
\* room in its report or because the recheck cleared it or left it indeterminate:
\* the coordinator's row is then taken for the authority's.
WritesAuthority ==
  \A k \in DOMAIN batch :
    LET authority == seen[call.authoritative][k]
    IN  <<call.authoritative, k>> \notin Unconfirmed =>
          /\ batch[k] = Absent <=> authority = Absent
          /\ validated_property # "keys_only" => batch[k] = authority

\* The row transaction: what is committed on the target is what the statements
\* ask for, key by key, although rows can be deleted before the locks and
\* inserted behind them; only a write after the verification can change it.
CommittedAsVerified ==
  committed =>
    \A k \in DOMAIN batch :
      <<call.target, k>> \notin touched => rows[call.target][k] = batch[k]

\* Neither side of a key, or of the sequence, was written since the target was.
Untouched(n, object) == {Local, n} \X {object} \cap touched = {}

Agrees(k) == ~ Reported(validated_property, Visible(Local, k), Visible(Revalidated, k))

\* "revalidated" is about both databases as they are after the repair: a table
\* so marked agrees, on keys never written since the verification, between the
\* coordinator and the compared peer, repaired keys and others alike.  The
\* exception are keys the revalidation saw differ and had no room to record under
\* the run's own max_reported_divergences; it has none if what it found fits.  A
\* sequence so marked is within its window unless used since the setval, though
\* the setval writes the value of an earlier run.
RevalidatedAgrees ==
  repair_run = "revalidated" =>
    /\ DOMAIN batch # {} =>
         \A k \in Key : Untouched(Revalidated, k) => k \in omitted \/ Agrees(k)
    /\ Cardinality(found) <= options.max_reported => omitted = {}
    /\ setval /\ Untouched(call.target, Sequence) =>
         Within(last[Local], last[call.target])

\* The record the caller keeps never claims more than what happened: a finished
\* repair has committed its rows and listed every statement, and a failed one
\* in the caller's own transaction has changed no row.
RecordsTell ==
  /\ saved \in {"applied", "revalidated"} =>
       /\ DOMAIN batch # {} => committed
       /\ DOMAIN batch \subseteq repair_result
       /\ setval => Sequence \in repair_result
  /\ saved = "failed" /\ InTransaction => ~ committed

------------------------------------------------------------------------------
(* The inductive invariant. *)

Rechecking == {"recheck_local", "recheck_peer"}
TableRead == {"read_provider", "read_subscriber", "finish"}
Rereading == {"read_local", "read_peer"} \cup Rechecking \cup TableRead
Writing == {"lock", "write", "verify", "commit"}

\* The batch is that of the call, made from confirmed divergences.
Planned ==
  /\ confirmed \subseteq Divergent(options, seen)
  /\ IF pc = "idle" THEN batch = NoRows ELSE call.authoritative # call.target
  /\ batch = NoRows \/ batch = RowBatch(call.authoritative, call.target)

\* The open transaction: its rows are locked, and it outlives the commit step
\* only as the caller's own.
Transaction ==
  /\ DOMAIN pending \subseteq held
  /\ pc \in {"idle", "lock"} => held = {}
  /\ ~ open => pending = NoRows
  /\ open => ~ committed /\ pc \in {"verify", "commit", "setval", "results", "return"} \cup Rereading
  /\ pc \in {"verify", "commit"} => open
  /\ open /\ pc # "verify" => (InTransaction <=> pc # "commit")
  /\ committed => pc \notin Writing \cup {"idle"}
  /\ committed /\ InTransaction => pc = "done"

\* From the verification on, the target holds or is about to hold the batch.
Verified ==
  committed \/ (open /\ pc # "verify") =>
    \A k \in DOMAIN batch : <<call.target, k>> \notin touched => Target(k) = batch[k]

\* How far the call has come, and what its record says.
Recorded ==
  /\ pc \in {"setval", "results"} \cup Rereading /\ DOMAIN batch # {} => open \/ committed
  /\ pc \in Rereading => repair_result = DOMAIN batch \cup IF setval THEN {Sequence} ELSE {}
  /\ repair_run \in {"applied", "revalidated"} =>
       /\ pc \in {"return", "done"}
       /\ DOMAIN batch # {} => open \/ committed
       /\ DOMAIN batch \subseteq repair_result
       /\ setval => Sequence \in repair_result
  /\ repair_run = "failed" => pc \in {"return", "done"} /\ ~ open
  /\ repair_run = "failed" /\ InTransaction => ~ committed
  /\ saved # "none" => pc = "done" /\ saved = repair_run
  /\ repair_run # "none" \/ pc \in {"idle", "done"}

\* What the revalidation has read of the table is still so of untouched keys:
\* they agree, or the reading has them as candidates or has left them out.
Reread ==
  /\ pc \in {"read_peer", "recheck_peer"} =>
       \A k \in Key : <<Local, k>> \notin touched => sample[k] = Visible(Local, k)
  /\ pc \in Rechecking =>
       \A k \in Key : Untouched(Revalidated, k) => k \in omitted \cup candidates \/ Agrees(k)
  /\ pc \in TableRead /\ "table" \notin still_differs /\ DOMAIN batch # {} =>
       \A k \in Key : Untouched(Revalidated, k) => k \in omitted \/ Agrees(k)
  /\ Cardinality(found) <= options.max_reported => omitted = {}

\* ... and so is what it has read of the sequence.
SequenceReread ==
  /\ pc = "read_subscriber" /\ <<Local, Sequence>> \notin touched => provider = last[Local]
  /\ pc = "finish" /\ "sequence" \notin still_differs /\ setval
     /\ Untouched(call.target, Sequence) =>
       Within(last[Local], last[call.target])

\* apply_repair and _repair_statements: at every point of the call its batch,
\* its transaction, its record and its reading agree with one another.
IInv ==
  /\ TypeOK
  /\ Planned
  /\ Transaction
  /\ Verified
  /\ Recorded
  /\ Reread
  /\ SequenceReread
  /\ RevalidatedAgrees

==============================================================================
