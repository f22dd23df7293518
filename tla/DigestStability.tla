--------------------------- MODULE DigestStability ---------------------------
(***************************************************************************)
(* One exact comparison of one table (compare_table, contract "full"):     *)
(* fence every edge, compare whole-table checksums, localize, and confirm  *)
(* or clear each candidate key by digest stability across fenced epochs,   *)
(* while the replicated database keeps working.                            *)
(*                                                                         *)
(* The replicated database is the environment: each key is written at its  *)
(* owner, the change is appended to the owner's WAL, and every other node  *)
(* applies that WAL in order.  A row may also change outside replication   *)
(* (a conflict kept local, a hand-made fix): that is the divergence the    *)
(* comparison is there to find.                                            *)
(***************************************************************************)
EXTENDS Integers, Sequences, FiniteSets

CONSTANTS
  Node,           \* database nodes of the replication topology
  Local,          \* the coordinator's node
  Peer,           \* the peers being compared with Local
  Reverse,        \* the peers registered with reverse_subscription_name
  Key,            \* comparison keys, numbered in key_text order
  Digest,         \* row digests; the digest of "no row" is one of them
  Start,          \* the digest of each key when the comparison begins
  Owner,          \* the node each key is written at
  Keyed,          \* FALSE for a table with no comparison key
  FreshDigests,   \* TRUE if no key ever returns to a digest it had before
  RecheckPasses,  \* options.recheck_passes
  MaxReported,    \* options.max_reported_divergences
  MaxWal,         \* bound: changes per WAL
  MaxDrift        \* bound: rows that may change outside replication

ASSUME ConstantsAssumption ==
  /\ Local \in Node
  /\ Peer \subseteq Node \ {Local}
  /\ Peer # {}
  /\ Reverse \subseteq Peer
  /\ Key \subseteq Nat
  /\ Start \in [Key -> Digest]
  /\ Owner \in [Key -> Node]
  /\ Keyed \in BOOLEAN
  /\ FreshDigests \in BOOLEAN
  /\ RecheckPasses \in Nat \ {0}
  /\ MaxReported \in Nat \ {0}
  /\ MaxWal \in Nat
  /\ MaxDrift \in Nat

VARIABLES
  db,         \* db[n][k]: the row of key k at node n
  wal,        \* wal[o]: the changes committed at o, in commit order
  applied,    \* applied[o][t]: origin progress of o's stream at t
  used,       \* history: every row key k ever had, at any node
  drifted,    \* history: the <<node, key>> rows changed outside replication
  phase,      \* where compare_table is
  unfenced,   \* edges of the current epoch not yet converged
  barrier,    \* barrier[e]: barrier end LSN of edge e in this epoch
  unread,     \* nodes the current reading loop has not read
  sums,       \* table_node_result: whole-table content per node
  cur,        \* localized sample being filled ("A", "R1", "R2", ...)
  prev,       \* previous_sample
  div,        \* div[p][k]: divergence.status of key k at peer p
  pass,       \* recheck_pass
  verdict     \* table_result.verdict

envVars == <<db, wal, applied, used, drifted>>
fenceVars == <<unfenced, barrier>>
readVars == <<unread, sums, cur, prev>>
vars == <<envVars, phase, fenceVars, readVars, div, pass, verdict>>

Compared == {Local} \cup Peer

\* The edges compare_table fences: local -> peer always, peer -> local for
\* a registered reverse subscription.  No other edge is ever fenced.
HubEdges == {<<Local, p>> : p \in Peer} \cup {<<p, Local>> : p \in Reverse}

OutOfBand == -1     \* provenance of a row no replicated change produced
NoLsn == -1         \* barrier[e] before injection

\* A row: its digest, and (unseen by the program) the WAL position that
\* produced it, 0 for the starting row, OutOfBand for drift.
Row == [digest : Digest, ver : Nat \cup {OutOfBand}]
Change == [key : Key, digest : Digest]

StartRows == [k \in Key |-> [digest |-> Start[k], ver |-> 0]]

Phases == {"fencing", "running", "localizing", "deciding", "rechecking",
           "resampling", "done", "failed"}
Statuses == {"none", "candidate", "cleared", "confirmed", "indeterminate"}
Verdicts == {"none", "match", "differ", "indeterminate", "error"}

Digests(rows) == [k \in Key |-> rows[k].digest]

TypeOK ==
  /\ db \in [Node -> [Key -> Row]]
  /\ wal \in [Node -> Seq(Change)]
  /\ applied \in [Node -> [Node -> Nat]]
  /\ used \in [Key -> SUBSET Row]
  /\ drifted \subseteq Node \X Key
  /\ phase \in Phases
  /\ unfenced \subseteq HubEdges
  /\ barrier \in [HubEdges -> Nat \cup {NoLsn}]
  /\ unread \subseteq Compared
  /\ sums \in [Compared -> [Key -> Digest]]
  /\ cur \in [Compared -> [Key -> Row]]
  /\ prev \in [Compared -> [Key -> Row]]
  /\ div \in [Peer -> [Key -> Statuses]]
  /\ pass \in 0..RecheckPasses
  /\ verdict \in Verdicts

Init ==
  /\ db = [n \in Node |-> StartRows]
  /\ wal = [n \in Node |-> <<>>]
  /\ applied = [o \in Node |-> [t \in Node |-> 0]]
  /\ used = [k \in Key |-> {StartRows[k]}]
  /\ drifted = {}
  /\ phase = "fencing"
  /\ unfenced = HubEdges
  /\ barrier = [e \in HubEdges |-> NoLsn]
  /\ unread = Compared
  /\ sums = [n \in Compared |-> Start]
  /\ cur = [n \in Compared |-> StartRows]
  /\ prev = [n \in Compared |-> StartRows]
  /\ div = [p \in Peer |-> [k \in Key |-> "none"]]
  /\ pass = 0
  /\ verdict = "none"

------------------------------------------------------------------------------
(* The replicated database. *)

\* A digest a change may produce: always a different one, and under
\* FreshDigests one the key never had.
Producible(n, k, d) ==
  /\ d # db[n][k].digest
  /\ FreshDigests => \A r \in used[k] : r.digest # d

\* A transaction at the owner inserts, updates or deletes the row of k.
Write(k, d) ==
  LET o == Owner[k]
      row == [digest |-> d, ver |-> Len(wal[o]) + 1]
  IN  /\ Len(wal[o]) < MaxWal
      /\ Producible(o, k, d)
      /\ wal' = [wal EXCEPT ![o] = Append(@, [key |-> k, digest |-> d])]
      /\ db' = [db EXCEPT ![o][k] = row]
      /\ used' = [used EXCEPT ![k] = @ \cup {row}]
      /\ UNCHANGED <<applied, drifted, phase, fenceVars, readVars, div, pass,
                     verdict>>

\* Node t applies the next change of o's stream.  A drifted row may absorb
\* it (conflict resolution keeps the local row) or be overwritten by it.
Apply(o, t) ==
  LET i == applied[o][t] + 1
      k == wal[o][i].key
      row == [digest |-> wal[o][i].digest, ver |-> i]
  IN  /\ o # t
      /\ i <= Len(wal[o])
      /\ applied' = [applied EXCEPT ![o][t] = i]
      /\ \/ db' = [db EXCEPT ![t][k] = row]
         \/ db[t][k].ver = OutOfBand /\ db' = db
      /\ UNCHANGED <<wal, used, drifted, phase, fenceVars, readVars, div, pass,
                     verdict>>

\* The row of k changes at n alone, outside replication.
DriftAt(n, k, d) ==
  LET row == [digest |-> d, ver |-> OutOfBand]
  IN  /\ <<n, k>> \in drifted \/ Cardinality(drifted) < MaxDrift
      /\ Producible(n, k, d)
      /\ db' = [db EXCEPT ![n][k] = row]
      /\ used' = [used EXCEPT ![k] = @ \cup {row}]
      /\ drifted' = drifted \cup {<<n, k>>}
      /\ UNCHANGED <<wal, applied, phase, fenceVars, readVars, div, pass,
                     verdict>>

Environment ==
  \/ \E k \in Key, d \in Digest : Write(k, d)
  \/ \E o, t \in Node : Apply(o, t)
  \/ \E n \in Node, k \in Key, d \in Digest : DriftAt(n, k, d)

------------------------------------------------------------------------------
(* The vector fence: edges are fenced one after the other. *)

Fencing == phase \in {"fencing", "rechecking"}

Pending(e) == e \in unfenced /\ barrier[e] # NoLsn

\* inject_barrier commits a token on the origin and reads its end LSN.
InjectBarrier(e) ==
  /\ Fencing
  /\ e \in unfenced
  /\ \A f \in HubEdges : ~Pending(f)
  /\ barrier' = [barrier EXCEPT ![e] = Len(wal[e[1]])]
  /\ UNCHANGED <<envVars, phase, unfenced, readVars, div, pass, verdict>>

\* Mutant of Converge: any visible token closes the edge, without the origin
\* progress having reached the barrier (the cascade caveat of design 8.1).
ConvergeOnToken(e) ==
  /\ Fencing
  /\ Pending(e)
  /\ unfenced' = unfenced \ {e}
  /\ phase' = IF unfenced' # {} THEN phase
              ELSE IF phase = "fencing" THEN "running" ELSE "resampling"
  /\ UNCHANGED <<envVars, barrier, readVars, div, pass, verdict>>

\* observe_barrier sees the origin progress reach the barrier end LSN; the
\* last edge to converge closes the epoch and the reading loop begins.
Converge(e) ==
  /\ Fencing
  /\ Pending(e)
  /\ applied[e[1]][e[2]] >= barrier[e]
  /\ unfenced' = unfenced \ {e}
  /\ phase' = IF unfenced' # {} THEN phase
              ELSE IF phase = "fencing" THEN "running" ELSE "resampling"
  /\ UNCHANGED <<envVars, barrier, readVars, div, pass, verdict>>

\* Mutant of RunFails: the divergences recorded so far are kept.
FailsWithoutRollback ==
  /\ phase \notin {"done", "failed"}
  /\ phase' = "failed"
  /\ verdict' = "error"
  /\ UNCHANGED <<envVars, fenceVars, readVars, div, pass>>

\* Mutant of RunFails: a recheck fence has no deadline.
FailsOutsideRecheck ==
  /\ phase \notin {"done", "failed", "rechecking"}
  /\ phase' = "failed"
  /\ verdict' = "error"
  /\ div' = [p \in Peer |-> [k \in Key |-> "none"]]
  /\ UNCHANGED <<envVars, fenceVars, readVars, pass>>

\* A fence that does not converge before its deadline, or any remote call
\* that fails, raises: the table gets verdict "error" and the exception
\* takes back the divergences recorded so far.
RunFails ==
  /\ phase \notin {"done", "failed"}
  /\ phase' = "failed"
  /\ verdict' = "error"
  /\ div' = [p \in Peer |-> [k \in Key |-> "none"]]
  /\ UNCHANGED <<envVars, fenceVars, readVars, pass>>

------------------------------------------------------------------------------
(* Reading: Local first, then each peer, each read its own snapshot. *)

CanRead(n) ==
  /\ n \in unread
  /\ n # Local => Local \notin unread

\* Mutant of DifferCount: a peer that agrees overwrites one that differs.
DifferCountOverwritten(s) == IF \E p \in Peer : s[p] = s[Local] THEN 0 ELSE 1

DifferCount(s) == Cardinality({p \in Peer : s[p] # s[Local]})

\* The whole-table checksum of n; LtHash is taken as free of collisions.
Checksum(n) ==
  /\ phase = "running"
  /\ CanRead(n)
  /\ sums' = [sums EXCEPT ![n] = Digests(db[n])]
  /\ unread' = IF unread = {n} THEN Compared ELSE unread \ {n}
  /\ IF unread # {n} THEN UNCHANGED <<phase, verdict>>
     ELSE IF DifferCount(sums') = 0
          THEN phase' = "done" /\ verdict' = "match"
     ELSE IF ~Keyed
          THEN phase' = "done" /\ verdict' = "differ"
     ELSE phase' = "localizing" /\ UNCHANGED verdict
  /\ UNCHANGED <<envVars, fenceVars, cur, prev, div, pass>>

\* Mutant of Reported: off by one at the limit.
ReportedOneLess(S) == {k \in S : Cardinality({j \in S : j <= k}) < MaxReported}

\* The first MaxReported keys of S in key order.
Reported(S) == {k \in S : Cardinality({j \in S : j < k}) < MaxReported}

\* The candidates sample s raises about peer p.
Candidates(s, p) ==
  Reported({k \in Key : s[Local][k].digest # s[p][k].digest})

\* Sample A of n; reading a peer also records its candidates.
Localize(n) ==
  /\ phase = "localizing"
  /\ CanRead(n)
  /\ cur' = [cur EXCEPT ![n] = db[n]]
  /\ unread' = IF unread = {n} THEN Compared ELSE unread \ {n}
  /\ div' = [p \in Peer |->
               IF p # n THEN div[p]
               ELSE [k \in Key |-> IF k \in Candidates(cur', n)
                                   THEN "candidate" ELSE "none"]]
  /\ IF unread # {n} THEN UNCHANGED <<phase, prev>>
     ELSE phase' = "deciding" /\ prev' = cur'
  /\ UNCHANGED <<envVars, fenceVars, sums, pass, verdict>>

Open == \E p \in Peer, k \in Key : div[p][k] = "candidate"

\* Mutant of BeginRecheck: the barriers of the epoch before are reused.
BeginRecheckOldBarriers ==
  /\ phase = "deciding"
  /\ Open
  /\ pass < RecheckPasses
  /\ pass' = pass + 1
  /\ phase' = "rechecking"
  /\ unfenced' = HubEdges
  /\ UNCHANGED <<envVars, barrier, readVars, div, verdict>>

\* A recheck pass opens a new epoch over the same edges.
BeginRecheck ==
  /\ phase = "deciding"
  /\ Open
  /\ pass < RecheckPasses
  /\ pass' = pass + 1
  /\ phase' = "rechecking"
  /\ unfenced' = HubEdges
  /\ barrier' = [e \in HubEdges |-> NoLsn]
  /\ UNCHANGED <<envVars, readVars, div, verdict>>

\* Mutant of Outcome: a difference counts as stable when the local side is.
OutcomeOneSided(pl, pp, cl, cp) ==
  IF cl = cp THEN "cleared"
  ELSE IF pl = cl THEN "still_differs"
  ELSE "still_hot"

\* classify_recheck_outcome.
Outcome(pl, pp, cl, cp) ==
  IF cl = cp THEN "cleared"
  ELSE IF pl = cl /\ pp = cp THEN "still_differs"
  ELSE "still_hot"

\* Mutant of Resolved: the outcome is stored as the status.
ResolvedAsOutcome(r, s, p, k) ==
  Outcome(r[Local][k].digest, r[p][k].digest, s[Local][k].digest, s[p][k].digest)

\* Mutant of Resolved: the last pass leaves a hot key a candidate.
ResolvedLate(r, s, p, k) ==
  LET o == Outcome(r[Local][k].digest, r[p][k].digest,
                   s[Local][k].digest, s[p][k].digest)
  IN  CASE o = "cleared" -> "cleared"
        [] o = "still_differs" -> "confirmed"
        [] o = "still_hot" /\ pass > RecheckPasses -> "indeterminate"
        [] OTHER -> "candidate"

\* The status of candidate (p, k) once sample s follows sample r.
Resolved(r, s, p, k) ==
  LET o == Outcome(r[Local][k].digest, r[p][k].digest,
                   s[Local][k].digest, s[p][k].digest)
  IN  CASE o = "cleared" -> "cleared"
        [] o = "still_differs" -> "confirmed"
        [] o = "still_hot" /\ pass >= RecheckPasses -> "indeterminate"
        [] OTHER -> "candidate"

\* Mutant of Resample: reading one peer resolves the candidates of every
\* peer, those not yet read from the sample before.
ResampleAllPeers(n) ==
  /\ phase = "resampling"
  /\ CanRead(n)
  /\ cur' = [cur EXCEPT ![n] = db[n]]
  /\ unread' = IF unread = {n} THEN Compared ELSE unread \ {n}
  /\ div' = [p \in Peer |-> [k \in Key |->
               IF n # Local /\ div[p][k] = "candidate"
               THEN Resolved(prev, cur', p, k) ELSE div[p][k]]]
  /\ IF unread # {n} THEN UNCHANGED <<phase, prev>>
     ELSE phase' = "deciding" /\ prev' = cur'
  /\ UNCHANGED <<envVars, fenceVars, sums, pass, verdict>>

\* Sample R<pass> of n; reading a peer also resolves its candidates.
Resample(n) ==
  /\ phase = "resampling"
  /\ CanRead(n)
  /\ cur' = [cur EXCEPT ![n] = db[n]]
  /\ unread' = IF unread = {n} THEN Compared ELSE unread \ {n}
  /\ div' = [p \in Peer |->
               IF p # n THEN div[p]
               ELSE [k \in Key |-> IF div[p][k] = "candidate"
                                   THEN Resolved(prev, cur', p, k)
                                   ELSE div[p][k]]]
  /\ IF unread # {n} THEN UNCHANGED <<phase, prev>>
     ELSE phase' = "deciding" /\ prev' = cur'
  /\ UNCHANGED <<envVars, fenceVars, sums, pass, verdict>>

Has(status) == \E p \in Peer, k \in Key : div[p][k] = status

Conclude ==
  /\ phase = "deciding"
  /\ ~(Open /\ pass < RecheckPasses)
  /\ phase' = "done"
  /\ verdict' = IF Has("confirmed") THEN "differ"
                ELSE IF Has("indeterminate") THEN "indeterminate"
                ELSE "match"
  /\ UNCHANGED <<envVars, fenceVars, readVars, div, pass>>

Progress ==
  \/ \E e \in HubEdges : InjectBarrier(e) \/ Converge(e)
  \/ \E n \in Compared : Checksum(n) \/ Localize(n) \/ Resample(n)
  \/ BeginRecheck
  \/ Conclude

Coordinator == Progress \/ RunFails

Next == Environment \/ Coordinator

Spec == Init /\ [][Next]_vars

------------------------------------------------------------------------------
(* Properties. *)

\* A divergence is confirmed only if the local or the peer row of its key
\* was changed outside replication: lag and live load alone never confirm
\* a key (G-SOUND; the recheck loop of compare_table).
ConfirmedIsReal ==
  \A p \in Peer, k \in Key :
    div[p][k] = "confirmed" =>
      \/ <<Local, k>> \in drifted
      \/ <<p, k>> \in drifted

EvidenceStep ==
  \A p \in Peer, k \in Key :
    (div[p][k] # "confirmed" /\ div'[p][k] = "confirmed") =>
      \/ cur'[Local][k].ver = OutOfBand
      \/ cur'[p][k].ver = OutOfBand

\* The step that confirms a key has evidence in hand: one of the two rows
\* it has just sampled was produced outside replication, so the divergence
\* was still there at the fenced epoch and had not been healed since.
ConfirmedOnEvidence == [][EvidenceStep]_vars

\* A divergence that was there when the checksums were taken and whose rows
\* have not changed since is confirmed by the end of the comparison
\* (G-COMPLETE), however many other keys are lagging or hot.  Where digests
\* are fresh, an equal digest means that the row has not changed.
NoMissedDivergence ==
  phase = "done" /\ Keyed =>
    \A p \in Peer, k \in Key :
      ( /\ sums[Local][k] # sums[p][k]
        /\ db[Local][k].digest = sums[Local][k]
        /\ db[p][k].digest = sums[p][k] )
      => div[p][k] = "confirmed"

\* A divergence that persisted through the whole comparison is never covered
\* by the verdict "match" (G-COMPLETE, at the level of the table).
NoFalseMatch ==
  verdict = "match" =>
    \A p \in Peer, k \in Key :
      ~( /\ sums[Local][k] # sums[p][k]
         /\ db[Local][k].digest = sums[Local][k]
         /\ db[p][k].digest = sums[p][k] )

\* A comparison never ends with a candidate left open: every recorded key
\* is cleared, confirmed or indeterminate when the verdict is given.
NoOpenCandidate == phase = "done" => ~Open

\* Every owner's stream to a compared node is one of the fenced edges.  Not
\* an assumption of the module: the comparison does not establish it.
FeedsAreFenced ==
  \A k \in Key, n \in Compared : Owner[k] = n \/ <<Owner[k], n>> \in HubEdges

\* The inductive invariant behind ConfirmedIsReal, one part per fact.

\* How far node n has seen the stream of o.
Seen(o, n) == IF o = n THEN Len(wal[o]) ELSE applied[o][n]

RowsKnown ==
  /\ \A n \in Node, k \in Key : db[n][k] \in used[k]
  /\ \A n \in Compared, k \in Key : cur[n][k] \in used[k] /\ prev[n][k] \in used[k]

UsedFromWal ==
  \A k \in Key : \A r \in used[k] :
    /\ r.ver = 0 => r.digest = Start[k]
    /\ r.ver > 0 => /\ r.ver <= Len(wal[Owner[k]])
                    /\ wal[Owner[k]][r.ver] = [key |-> k, digest |-> r.digest]

WalUsed ==
  \A o \in Node : \A i \in 1..Len(wal[o]) :
    /\ Owner[wal[o][i].key] = o
    /\ [digest |-> wal[o][i].digest, ver |-> i] \in used[wal[o][i].key]

FreshRows ==
  FreshDigests =>
    \A k \in Key : \A r, s \in used[k] : r.digest = s.digest => r.ver = s.ver

DriftKnown ==
  /\ \A n \in Node, k \in Key : db[n][k].ver = OutOfBand => <<n, k>> \in drifted
  /\ \A n \in Compared, k \in Key :
       /\ cur[n][k].ver = OutOfBand => <<n, k>> \in drifted
       /\ prev[n][k].ver = OutOfBand => <<n, k>> \in drifted

\* A row that has not drifted is as new as the last change of its key that
\* its node has seen.
Current ==
  \A n \in Node, k \in Key :
    db[n][k].ver # OutOfBand =>
      \A i \in 1..Seen(Owner[k], n) : wal[Owner[k]][i].key = k => i <= db[n][k].ver

AppliedInWal == \A o, t \in Node : applied[o][t] <= Len(wal[o])

\* The barriers of a recheck epoch lie past everything the previous sample
\* saw, and a converged edge has applied all of that.
EpochCovers ==
  /\ phase = "rechecking" =>
       \A e \in HubEdges : barrier[e] # NoLsn =>
         \A n \in Compared, k \in Key :
           Owner[k] = e[1] => prev[n][k].ver <= barrier[e]
  /\ phase \in {"rechecking", "resampling"} =>
       \A e \in HubEdges \ unfenced :
         \A n \in Compared, k \in Key :
           Owner[k] = e[1] => prev[n][k].ver <= applied[e[1]][e[2]]

ReadOrder ==
  /\ phase \in {"fencing", "deciding", "rechecking"} => unread = Compared
  /\ phase = "resampling" => unfenced = {}

\* Each row of the sample being taken is as new as every row, on either
\* side, of the sample before.
SamplesAdvance ==
  phase = "resampling" =>
    \A n \in Compared \ unread, m \in Compared, k \in Key :
      cur[n][k].ver # OutOfBand => prev[m][k].ver <= cur[n][k].ver

IInv ==
  /\ TypeOK
  /\ RowsKnown
  /\ UsedFromWal
  /\ WalUsed
  /\ FreshRows
  /\ DriftKnown
  /\ Current
  /\ AppliedInWal
  /\ EpochCovers
  /\ ReadOrder
  /\ SamplesAdvance
  /\ ConfirmedIsReal

\* The comparison always ends, with writers, drift and lag going on: a
\* fence that never converges ends it by its deadline.
FairSpec == Spec /\ WF_vars(Progress) /\ WF_vars(Fencing /\ RunFails)

Terminates == <>(phase \in {"done", "failed"})

\* What the comparison promises, with the divergences it has confirmed as
\* the reports.
Promise == INSTANCE ValidationPromise WITH
  drifted <- drifted,
  reported <- {q \in Peer \X Key : div[q[1]][q[2]] = "confirmed"},
  outcome <- verdict

KeepsPromise == Promise!Spec
==============================================================================
