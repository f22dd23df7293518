----------------------- MODULE DigestStability_proofs -----------------------
(***************************************************************************)
(* Proofs about DigestStability: type correctness for every value of the   *)
(* constants, and soundness of confirmation for every topology whose feeds *)
(* are fenced and every load whose digests are fresh.                      *)
(***************************************************************************)
EXTENDS DigestStability, TLAPS

USE DEF OutOfBand, NoLsn

LEMMA InitType == Init => TypeOK
<1> USE ConstantsAssumption DEF Init, TypeOK, StartRows, Row, Compared
<1> SUFFICES ASSUME Init PROVE TypeOK
  OBVIOUS
<1>1. StartRows \in [Key -> Row]
  OBVIOUS
<1>2. wal \in [Node -> Seq(Change)]
  OBVIOUS
<1>3. used \in [Key -> SUBSET Row]
  BY <1>1
<1>4. phase \in Phases /\ verdict \in Verdicts /\ pass \in 0..RecheckPasses
  BY DEF Phases, Verdicts
<1>5. div \in [Peer -> [Key -> Statuses]]
  BY DEF Statuses
<1> QED
  BY <1>1, <1>2, <1>3, <1>4, <1>5

------------------------------------------------------------------------------
(* Type correctness. *)

LEMMA WriteType ==
  ASSUME TypeOK, NEW k \in Key, NEW d \in Digest, Write(k, d)
  PROVE  TypeOK'
<1> DEFINE o == Owner[k]
           chg == [key |-> k, digest |-> d]
           row == [digest |-> d, ver |-> Len(wal[o]) + 1]
<1>1. o \in Node /\ wal[o] \in Seq(Change)
  BY ConstantsAssumption DEF TypeOK
<1>2. row \in Row /\ chg \in Change
  BY <1>1 DEF Row, Change
<1>3. Append(wal[o], chg) \in Seq(Change)
  BY <1>1, <1>2
<1>4. /\ wal' = [wal EXCEPT ![o] = Append(wal[o], chg)]
      /\ db' = [db EXCEPT ![o][k] = row]
      /\ used' = [used EXCEPT ![k] = used[k] \cup {row}]
      /\ UNCHANGED <<applied, drifted, phase, unfenced, barrier, unread, sums,
                     cur, prev, div, pass, verdict>>
  BY DEF Write, fenceVars, readVars
<1> HIDE DEF o, chg, row
<1>5. wal' \in [Node -> Seq(Change)]
  BY <1>3, <1>4 DEF TypeOK
<1>6. db' \in [Node -> [Key -> Row]]
  BY <1>1, <1>2, <1>4 DEF TypeOK
<1>7. used' \in [Key -> SUBSET Row]
  BY <1>2, <1>4 DEF TypeOK
<1> QED
  BY <1>4, <1>5, <1>6, <1>7 DEF TypeOK

\* Node t's row of key k takes the change at position i of o's stream, or
\* keeps what it drifted to.
Takes(o, t, i, k, d) ==
  /\ o # t
  /\ i = applied[o][t] + 1
  /\ wal[o][i] = [key |-> k, digest |-> d]
  /\ applied' = [applied EXCEPT ![o][t] = i]
  /\ \/ db' = [db EXCEPT ![t][k] = [digest |-> d, ver |-> i]]
     \/ db[t][k].ver = OutOfBand /\ db' = db
  /\ UNCHANGED <<wal, used, drifted, phase, unfenced, barrier, unread, sums,
                 cur, prev, div, pass, verdict>>

\* What Apply does, with the change it applies named.
LEMMA ApplyEffect ==
  ASSUME TypeOK, NEW o \in Node, NEW t \in Node, Apply(o, t)
  PROVE  \E i \in 1..Len(wal[o]), k \in Key, d \in Digest : Takes(o, t, i, k, d)
<1> DEFINE i == applied[o][t] + 1
<1>1. applied[o][t] \in Nat /\ wal[o] \in Seq(Change)
  BY DEF TypeOK
<1>2. o # t /\ i <= Len(wal[o])
  BY DEF Apply
<1>3. i \in 1..Len(wal[o])
  BY <1>1, <1>2
<1>4. wal[o][i] \in Change
  BY <1>1, <1>3
<1>5. PICK k \in Key, d \in Digest : wal[o][i] = [key |-> k, digest |-> d]
  BY <1>4 DEF Change
<1>6. wal[o][i].key = k /\ wal[o][i].digest = d
  BY <1>5
<1>7. /\ applied' = [applied EXCEPT ![o][t] = i]
      /\ \/ db' = [db EXCEPT ![t][k] = [digest |-> d, ver |-> i]]
         \/ db[t][k].ver = OutOfBand /\ db' = db
      /\ UNCHANGED <<wal, used, drifted, phase, unfenced, barrier, unread,
                     sums, cur, prev, div, pass, verdict>>
  BY <1>6 DEF Apply, fenceVars, readVars
<1> QED
  BY <1>2, <1>3, <1>5, <1>7 DEF Takes

LEMMA ApplyType ==
  ASSUME TypeOK, NEW o \in Node, NEW t \in Node, Apply(o, t)
  PROVE  TypeOK'
<1>1. PICK i \in 1..Len(wal[o]), k \in Key, d \in Digest : Takes(o, t, i, k, d)
  BY ApplyEffect
<1> DEFINE row == [digest |-> d, ver |-> i]
<1>2. i \in Nat /\ row \in Row
  BY DEF Row, TypeOK
<1>3. db' \in [Node -> [Key -> Row]]
  <2>1. db' = [db EXCEPT ![t][k] = row] \/ db' = db
    BY <1>1 DEF Takes
  <2> HIDE DEF row
  <2>2. db \in [Node -> [Key -> Row]]
    BY DEF TypeOK
  <2>3. [db EXCEPT ![t][k] = row] \in [Node -> [Key -> Row]]
    BY <1>2, <2>2
  <2> QED
    BY <2>1, <2>2, <2>3
<1>4. applied' \in [Node -> [Node -> Nat]]
  BY <1>1, <1>2 DEF Takes, TypeOK
<1> QED
  BY <1>1, <1>3, <1>4 DEF Takes, TypeOK

LEMMA DriftType ==
  ASSUME TypeOK, NEW n \in Node, NEW k \in Key, NEW d \in Digest, DriftAt(n, k, d)
  PROVE  TypeOK'
<1> DEFINE row == [digest |-> d, ver |-> OutOfBand]
<1>1. row \in Row
  BY DEF Row
<1>2. /\ db' = [db EXCEPT ![n][k] = row]
      /\ used' = [used EXCEPT ![k] = used[k] \cup {row}]
      /\ drifted' = drifted \cup {<<n, k>>}
      /\ UNCHANGED <<wal, applied, phase, unfenced, barrier, unread, sums,
                     cur, prev, div, pass, verdict>>
  BY DEF DriftAt, fenceVars, readVars
<1> HIDE DEF row
<1>3. db' \in [Node -> [Key -> Row]]
  BY <1>1, <1>2 DEF TypeOK
<1>4. used' \in [Key -> SUBSET Row]
  BY <1>1, <1>2 DEF TypeOK
<1> QED
  BY <1>2, <1>3, <1>4 DEF TypeOK

LEMMA FenceType ==
  ASSUME TypeOK, NEW e \in HubEdges, InjectBarrier(e) \/ Converge(e)
  PROVE  TypeOK'
<1> USE ConstantsAssumption DEF TypeOK, envVars, readVars
<1>1. e[1] \in Node /\ e[2] \in Node
  BY DEF HubEdges
<1>2. CASE InjectBarrier(e)
  <2>1. Len(wal[e[1]]) \in Nat
    BY <1>1
  <2> QED
    BY <1>2, <2>1 DEF InjectBarrier
<1>3. CASE Converge(e)
  BY <1>3 DEF Converge, Phases
<1> QED
  BY <1>2, <1>3

LEMMA ReadType ==
  ASSUME TypeOK, NEW n \in Compared, Checksum(n) \/ Localize(n) \/ Resample(n)
  PROVE  TypeOK'
<1> USE ConstantsAssumption DEF TypeOK, envVars, fenceVars, CanRead
<1>1. n \in Node /\ db[n] \in [Key -> Row]
  BY DEF Compared
<1>2. CASE Checksum(n)
  <2>1. Digests(db[n]) \in [Key -> Digest]
    BY <1>1 DEF Digests, Row
  <2> QED
    BY <1>2, <2>1 DEF Checksum, Phases, Verdicts
<1>3. CASE Localize(n)
  <2>1. cur' \in [Compared -> [Key -> Row]] /\ prev' \in [Compared -> [Key -> Row]]
    BY <1>1, <1>3 DEF Localize
  <2>2. div' \in [Peer -> [Key -> Statuses]]
    BY <1>3 DEF Localize, Statuses
  <2> QED
    BY <1>3, <2>1, <2>2 DEF Localize, Phases
<1>4. CASE Resample(n)
  <2>1. cur' \in [Compared -> [Key -> Row]] /\ prev' \in [Compared -> [Key -> Row]]
    BY <1>1, <1>4 DEF Resample
  <2>2. \A p \in Peer, k \in Key : Resolved(prev, cur', p, k) \in Statuses
    BY DEF Resolved, Outcome, Statuses
  <2>3. div' \in [Peer -> [Key -> Statuses]]
    BY <1>4, <2>2 DEF Resample
  <2> QED
    BY <1>4, <2>1, <2>3 DEF Resample, Phases
<1> QED
  BY <1>2, <1>3, <1>4

LEMMA ControlType ==
  ASSUME TypeOK, BeginRecheck \/ Conclude \/ RunFails
  PROVE  TypeOK'
<1> USE ConstantsAssumption DEF TypeOK, envVars, fenceVars, readVars
<1>1. CASE BeginRecheck
  BY <1>1 DEF BeginRecheck, Phases
<1>2. CASE Conclude
  BY <1>2 DEF Conclude, Phases, Verdicts
<1>3. CASE RunFails
  BY <1>3 DEF RunFails, Phases, Verdicts, Statuses
<1> QED
  BY <1>1, <1>2, <1>3

LEMMA NextType == TypeOK /\ [Next]_vars => TypeOK'
<1> SUFFICES ASSUME TypeOK, [Next]_vars PROVE TypeOK'
  OBVIOUS
<1>1. CASE Environment
  BY <1>1, WriteType, ApplyType, DriftType DEF Environment
<1>2. CASE Coordinator
  BY <1>2, FenceType, ReadType, ControlType DEF Coordinator, Progress
<1>3. CASE UNCHANGED vars
  BY <1>3 DEF vars, envVars, fenceVars, readVars, TypeOK
<1> QED
  BY <1>1, <1>2, <1>3 DEF Next

\* Every variable keeps its type, for every topology, table and bound.
THEOREM TypeCorrect == Spec => []TypeOK
<1> QED
  BY InitType, NextType, PTL DEF Spec
------------------------------------------------------------------------------
(* The environment preserves the invariant: used and drifted only grow, and *)
(* the samples and the epoch stay as they are.                              *)

LEMMA InitInv == Init => IInv
<1> SUFFICES ASSUME Init PROVE IInv
  OBVIOUS
<1>1. TypeOK
  BY InitType
<1>2. RowsKnown
  BY ConstantsAssumption DEF RowsKnown, Init, Compared
<1>3. UsedFromWal /\ FreshRows /\ DriftKnown
  BY ConstantsAssumption DEF Init, UsedFromWal, FreshRows, DriftKnown, StartRows, Compared
<1>4. WalUsed /\ AppliedInWal
  BY DEF Init, WalUsed, AppliedInWal
<1>5. Current
  BY ConstantsAssumption DEF Init, Current, Seen
<1>6. EpochCovers /\ ReadOrder /\ SamplesAdvance
  BY DEF Init, EpochCovers, ReadOrder, SamplesAdvance
<1>7. ConfirmedIsReal
  BY DEF Init, ConfirmedIsReal
<1> QED
  BY <1>1, <1>2, <1>3, <1>4, <1>5, <1>6, <1>7 DEF IInv

\* The samples' part of the invariant survives any step that leaves the
\* comparison alone and lets the histories and the streams only grow.
LEMMA ComparisonStays ==
  ASSUME IInv, TypeOK',
         UNCHANGED <<phase, unfenced, barrier, unread, sums, cur, prev, div, pass,
                     verdict>>,
         \A k \in Key : used[k] \subseteq used'[k],
         drifted \subseteq drifted',
         \A o, t \in Node : applied[o][t] <= applied'[o][t]
  PROVE  /\ \A n \in Compared, k \in Key :
              /\ cur'[n][k] \in used'[k] /\ prev'[n][k] \in used'[k]
              /\ cur'[n][k].ver = OutOfBand => <<n, k>> \in drifted'
              /\ prev'[n][k].ver = OutOfBand => <<n, k>> \in drifted'
         /\ EpochCovers'
         /\ ReadOrder'
         /\ SamplesAdvance'
         /\ ConfirmedIsReal'
<1>1. \A n \in Compared, k \in Key :
        /\ cur'[n][k] \in used'[k] /\ prev'[n][k] \in used'[k]
        /\ cur'[n][k].ver = OutOfBand => <<n, k>> \in drifted'
        /\ prev'[n][k].ver = OutOfBand => <<n, k>> \in drifted'
  BY DEF IInv, RowsKnown, DriftKnown
<1>2. ReadOrder' /\ SamplesAdvance'
  BY DEF IInv, ReadOrder, SamplesAdvance
<1>3. ConfirmedIsReal'
  BY DEF IInv, ConfirmedIsReal
<1>4. EpochCovers'
  <2>1. \A e \in HubEdges : e[1] \in Node /\ e[2] \in Node
    BY ConstantsAssumption DEF HubEdges
  <2>2. \A n \in Compared, k \in Key : prev[n][k].ver \in Int
    BY DEF IInv, TypeOK, Row
  <2>3. \A o, t \in Node : applied[o][t] \in Int /\ applied'[o][t] \in Int
    BY DEF IInv, TypeOK
  <2>4. ASSUME phase \in {"rechecking", "resampling"},
               NEW e \in HubEdges \ unfenced, NEW n \in Compared, NEW k \in Key,
               Owner[k] = e[1]
        PROVE  prev[n][k].ver <= applied'[e[1]][e[2]]
    <3>1. prev[n][k].ver <= applied[e[1]][e[2]]
      BY <2>4 DEF IInv, EpochCovers
    <3>2. applied[e[1]][e[2]] <= applied'[e[1]][e[2]]
      BY <2>1
    <3> HIDE DEF IInv
    <3> QED
      BY <2>1, <2>2, <2>3, <3>1, <3>2
  <2>5. ASSUME phase = "rechecking", NEW e \in HubEdges, barrier[e] # NoLsn,
               NEW n \in Compared, NEW k \in Key, Owner[k] = e[1]
        PROVE  prev[n][k].ver <= barrier[e]
    BY <2>5 DEF IInv, EpochCovers
  <2> QED
    BY <2>4, <2>5 DEF EpochCovers
<1> QED
  BY <1>1, <1>2, <1>3, <1>4

LEMMA DriftInv ==
  ASSUME IInv, NEW n \in Node, NEW k \in Key, NEW d \in Digest, DriftAt(n, k, d)
  PROVE  IInv'
<1> DEFINE row == [digest |-> d, ver |-> OutOfBand]
<1>1. TypeOK /\ TypeOK'
  BY DriftType DEF IInv
<1>2. /\ db' = [db EXCEPT ![n][k] = row]
      /\ used' = [used EXCEPT ![k] = used[k] \cup {row}]
      /\ drifted' = drifted \cup {<<n, k>>}
      /\ UNCHANGED <<wal, applied, phase, unfenced, barrier, unread, sums,
                     cur, prev, div, pass, verdict>>
      /\ FreshDigests => \A r \in used[k] : r.digest # d
  BY DEF DriftAt, Producible, fenceVars, readVars
<1>3. row.ver = OutOfBand /\ row.digest = d
  OBVIOUS
<1> HIDE DEF row
<1>4. /\ \A m \in Node, j \in Key :
           db'[m][j] = IF m = n /\ j = k THEN row ELSE db[m][j]
      /\ \A j \in Key : used'[j] = IF j = k THEN used[k] \cup {row} ELSE used[j]
  BY <1>1, <1>2 DEF TypeOK
<1>5. /\ \A j \in Key : used[j] \subseteq used'[j]
      /\ drifted \subseteq drifted'
      /\ \A o, t \in Node : applied[o][t] <= applied'[o][t]
  BY <1>1, <1>2, <1>4 DEF TypeOK
<1>6. /\ \A m \in Compared, j \in Key :
           /\ cur'[m][j] \in used'[j] /\ prev'[m][j] \in used'[j]
           /\ cur'[m][j].ver = OutOfBand => <<m, j>> \in drifted'
           /\ prev'[m][j].ver = OutOfBand => <<m, j>> \in drifted'
      /\ EpochCovers' /\ ReadOrder' /\ SamplesAdvance' /\ ConfirmedIsReal'
  BY <1>1, <1>2, <1>5, ComparisonStays
<1>7. RowsKnown' /\ DriftKnown'
  BY <1>2, <1>4, <1>6 DEF RowsKnown, DriftKnown, IInv
<1>8. UsedFromWal'
  <2> SUFFICES ASSUME NEW j \in Key, NEW r \in used'[j]
               PROVE  /\ r.ver = 0 => r.digest = Start[j]
                      /\ r.ver > 0 =>
                           /\ r.ver <= Len(wal'[Owner[j]])
                           /\ wal'[Owner[j]][r.ver] = [key |-> j, digest |-> r.digest]
    BY DEF UsedFromWal
  <2>1. CASE r \in used[j]
    BY <1>2, <2>1 DEF UsedFromWal, IInv
  <2>2. CASE r = row
    BY <1>3, <2>2
  <2> QED
    BY <1>4, <2>1, <2>2
<1>9. FreshRows'
  BY <1>2, <1>3, <1>4 DEF FreshRows, IInv
<1>10. WalUsed'
  <2> SUFFICES ASSUME NEW o \in Node, NEW i \in 1..Len(wal[o])
               PROVE  /\ Owner[wal[o][i].key] = o
                      /\ [digest |-> wal[o][i].digest, ver |-> i]
                           \in used'[wal[o][i].key]
    BY <1>2 DEF WalUsed
  <2>1. wal[o][i] \in Change
    BY <1>1 DEF TypeOK
  <2>2. wal[o][i].key \in Key
    BY <2>1 DEF Change
  <2> QED
    BY <1>5, <2>2 DEF WalUsed, IInv
<1>11. Current'
  BY <1>2, <1>3, <1>4 DEF Current, Seen, IInv
<1>12. AppliedInWal'
  BY <1>2 DEF AppliedInWal, IInv
<1> QED
  BY <1>1, <1>6, <1>7, <1>8, <1>9, <1>10, <1>11, <1>12 DEF IInv

LEMMA ApplyInv ==
  ASSUME IInv, NEW o \in Node, NEW t \in Node, Apply(o, t)
  PROVE  IInv'
<1>1. TypeOK /\ TypeOK'
  BY ApplyType DEF IInv
<1>2. PICK i \in 1..Len(wal[o]), k \in Key, d \in Digest : Takes(o, t, i, k, d)
  BY <1>1, ApplyEffect
<1> DEFINE row == [digest |-> d, ver |-> i]
<1>3. row.ver = i /\ row.digest = d /\ row.ver # OutOfBand /\ i \in Nat
  BY <1>1 DEF TypeOK
<1>4. Owner[k] = o /\ row \in used[k]
  BY <1>2 DEF Takes, WalUsed, IInv
<1>5. /\ o # t
      /\ i = applied[o][t] + 1
      /\ db' = [db EXCEPT ![t][k] = row] \/ (db[t][k].ver = OutOfBand /\ db' = db)
      /\ applied' = [applied EXCEPT ![o][t] = i]
      /\ wal[o][i].key = k
      /\ UNCHANGED <<wal, used, drifted, phase, unfenced, barrier, unread, sums,
                     cur, prev, div, pass, verdict>>
  BY <1>2 DEF Takes
<1> HIDE DEF row
<1>6. \A u, v \in Node :
        applied'[u][v] = IF u = o /\ v = t THEN i ELSE applied[u][v]
  <2>1. applied \in [Node -> [Node -> Nat]]
    BY <1>1 DEF TypeOK
  <2>2. applied' = [applied EXCEPT ![o][t] = i]
    BY <1>5
  <2> QED
    BY <2>1, <2>2
<1>7. \A u, v \in Node : applied[u][v] \in Nat /\ applied[u][v] <= applied'[u][v]
  <2>1. \A u, v \in Node : applied[u][v] \in Nat
    BY <1>1 DEF TypeOK
  <2>2. i = applied[o][t] + 1
    BY <1>5
  <2> QED
    BY <1>6, <2>1, <2>2
<1>8. \A m \in Node, j \in Key :
        \/ db'[m][j] = db[m][j] /\ (m = t /\ j = k => db[m][j].ver = OutOfBand)
        \/ m = t /\ j = k /\ db'[m][j] = row
  BY <1>1, <1>5 DEF TypeOK
<1>9. /\ \A m \in Compared, j \in Key :
           /\ cur'[m][j] \in used'[j] /\ prev'[m][j] \in used'[j]
           /\ cur'[m][j].ver = OutOfBand => <<m, j>> \in drifted'
           /\ prev'[m][j].ver = OutOfBand => <<m, j>> \in drifted'
      /\ EpochCovers' /\ ReadOrder' /\ SamplesAdvance' /\ ConfirmedIsReal'
  BY <1>1, <1>5, <1>7, ComparisonStays
<1>10. RowsKnown' /\ DriftKnown'
  BY <1>3, <1>4, <1>5, <1>8, <1>9 DEF RowsKnown, DriftKnown, IInv
<1>11. UsedFromWal' /\ FreshRows' /\ WalUsed'
  BY <1>5 DEF UsedFromWal, FreshRows, WalUsed, IInv
<1>12. AppliedInWal'
  BY <1>1, <1>5, <1>6 DEF AppliedInWal, IInv, TypeOK
<1>13. Current'
  <2> SUFFICES ASSUME NEW m \in Node, NEW j \in Key, db'[m][j].ver # OutOfBand,
                      NEW x \in 1..Seen(Owner[j], m)', wal[Owner[j]][x].key = j
               PROVE  x <= db'[m][j].ver
    BY <1>5 DEF Current
  <2>0. Owner[j] \in Node /\ Len(wal[Owner[j]]) \in Nat
    BY <1>1, ConstantsAssumption DEF TypeOK
  <2>1. CASE m = t /\ j = k
    <3>1. db'[m][j] = row
      BY <1>8, <2>1
    <3>2. Seen(Owner[j], m)' = i
      BY <1>4, <1>5, <1>6, <2>1 DEF Seen
    <3> QED
      BY <1>3, <3>1, <3>2
  <2>2. CASE ~(m = t /\ j = k)
    <3>1. db'[m][j] = db[m][j]
      BY <1>8, <2>2
    <3>2. CASE x \in 1..Seen(Owner[j], m)
      BY <3>1, <3>2 DEF Current, IInv
    <3>3. CASE x \notin 1..Seen(Owner[j], m)
      <4>1. Owner[j] # m
        BY <1>5, <3>3 DEF Seen
      <4>2. Owner[j] = o /\ m = t
        BY <1>6, <2>0, <3>3, <4>1 DEF Seen
      <4>3. x = i
        BY <1>1, <1>3, <1>5, <1>6, <3>3, <4>1, <4>2 DEF Seen, TypeOK
      <4> QED
        BY <1>5, <2>2, <4>2, <4>3
    <3> QED
      BY <3>2, <3>3
  <2> QED
    BY <2>1, <2>2
<1> QED
  BY <1>1, <1>9, <1>10, <1>11, <1>12, <1>13 DEF IInv

LEMMA WriteInv ==
  ASSUME IInv, NEW k \in Key, NEW d \in Digest, Write(k, d)
  PROVE  IInv'
<1> DEFINE o == Owner[k]
           chg == [key |-> k, digest |-> d]
           L == Len(wal[o])
           row == [digest |-> d, ver |-> L + 1]
<1>1. TypeOK /\ TypeOK'
  BY WriteType DEF IInv
<1>2. o \in Node /\ wal[o] \in Seq(Change)
  BY <1>1, ConstantsAssumption DEF TypeOK
<1>3. L \in Nat /\ chg \in Change
  BY <1>2 DEF Change
<1>4. /\ wal' = [wal EXCEPT ![o] = Append(wal[o], chg)]
      /\ db' = [db EXCEPT ![o][k] = row]
      /\ used' = [used EXCEPT ![k] = used[k] \cup {row}]
      /\ UNCHANGED <<applied, drifted, phase, unfenced, barrier, unread, sums,
                     cur, prev, div, pass, verdict>>
      /\ FreshDigests => \A r \in used[k] : r.digest # d
  BY DEF Write, Producible, fenceVars, readVars
<1>5. /\ row.ver = L + 1 /\ row.digest = d /\ row.ver # OutOfBand
      /\ chg.key = k /\ chg.digest = d /\ chg = [key |-> k, digest |-> row.digest]
      /\ row = [digest |-> chg.digest, ver |-> L + 1]
  BY <1>2, <1>3
<1>6. /\ Len(wal'[o]) = L + 1 /\ wal'[o][L + 1] = chg
      /\ \A u \in Node \ {o} : wal'[u] = wal[u]
      /\ \A i \in 1..L : wal'[o][i] = wal[o][i]
  BY <1>1, <1>2, <1>3, <1>4 DEF TypeOK
<1> HIDE DEF row, chg, L, o
<1>7. /\ \A m \in Node, j \in Key :
           db'[m][j] = IF m = o /\ j = k THEN row ELSE db[m][j]
      /\ \A j \in Key : used'[j] = IF j = k THEN used[k] \cup {row} ELSE used[j]
  BY <1>1, <1>2, <1>3, <1>4 DEF TypeOK
<1>8. /\ \A j \in Key : used[j] \subseteq used'[j]
      /\ drifted \subseteq drifted'
      /\ \A u, v \in Node : applied[u][v] <= applied'[u][v]
  BY <1>1, <1>4, <1>7 DEF TypeOK
<1>9. /\ \A m \in Compared, j \in Key :
           /\ cur'[m][j] \in used'[j] /\ prev'[m][j] \in used'[j]
           /\ cur'[m][j].ver = OutOfBand => <<m, j>> \in drifted'
           /\ prev'[m][j].ver = OutOfBand => <<m, j>> \in drifted'
      /\ EpochCovers' /\ ReadOrder' /\ SamplesAdvance' /\ ConfirmedIsReal'
  BY <1>1, <1>4, <1>8, ComparisonStays
<1>10. RowsKnown' /\ DriftKnown'
  BY <1>4, <1>5, <1>7, <1>9 DEF RowsKnown, DriftKnown, IInv
<1>11. FreshRows'
  BY <1>4, <1>5, <1>7 DEF FreshRows, IInv
<1>12. AppliedInWal'
  BY <1>1, <1>2, <1>3, <1>4, <1>6 DEF AppliedInWal, IInv, TypeOK, L
<1>13. \A u \in Node : /\ Len(wal[u]) \in Nat /\ Len(wal'[u]) \in Nat
                       /\ Len(wal[u]) <= Len(wal'[u])
                       /\ \A i \in 1..Len(wal[u]) : wal'[u][i] = wal[u][i]
  <2> SUFFICES ASSUME NEW u \in Node
               PROVE  /\ Len(wal[u]) \in Nat /\ Len(wal'[u]) \in Nat
                      /\ Len(wal[u]) <= Len(wal'[u])
                      /\ \A i \in 1..Len(wal[u]) : wal'[u][i] = wal[u][i]
    OBVIOUS
  <2>1. wal[u] \in Seq(Change)
    BY <1>1 DEF TypeOK
  <2>2. CASE u = o
    BY <1>3, <1>6, <2>2 DEF L
  <2>3. CASE u # o
    BY <1>6, <2>1, <2>3
  <2> QED
    BY <2>2, <2>3
<1>14. UsedFromWal'
  <2> SUFFICES ASSUME NEW j \in Key, NEW r \in used'[j]
               PROVE  /\ r.ver = 0 => r.digest = Start[j]
                      /\ r.ver > 0 =>
                           /\ r.ver <= Len(wal'[Owner[j]])
                           /\ wal'[Owner[j]][r.ver] = [key |-> j, digest |-> r.digest]
    BY DEF UsedFromWal
  <2>1. Owner[j] \in Node
    BY ConstantsAssumption
  <2>4. r \in used[j] => r \in Row
    BY <1>1 DEF TypeOK
  <2>5. r \in used[j] => r.ver \in Int
    BY <2>4 DEF Row
  <2>2. CASE r \in used[j]
    <3>1. r.ver > 0 => /\ r.ver \in 1..Len(wal[Owner[j]])
                       /\ wal[Owner[j]][r.ver] = [key |-> j, digest |-> r.digest]
      BY <1>13, <2>1, <2>2, <2>5 DEF UsedFromWal, IInv
    <3>2. r.ver = 0 => r.digest = Start[j]
      BY <2>2 DEF UsedFromWal, IInv
    <3> QED
      BY <1>13, <2>1, <3>1, <3>2
  <2>3. CASE j = k /\ r = row
    BY <1>2, <1>3, <1>5, <1>6, <2>3 DEF o
  <2> QED
    BY <1>7, <2>2, <2>3
<1>15. WalUsed'
  <2> SUFFICES ASSUME NEW u \in Node, NEW i \in 1..Len(wal'[u])
               PROVE  /\ Owner[wal'[u][i].key] = u
                      /\ [digest |-> wal'[u][i].digest, ver |-> i]
                           \in used'[wal'[u][i].key]
    BY DEF WalUsed
  <2>1. CASE i \in 1..Len(wal[u])
    <3>1. wal'[u][i] = wal[u][i] /\ wal[u][i] \in Change
      BY <1>1, <1>13, <2>1 DEF TypeOK
    <3>2. wal[u][i].key \in Key
      BY <3>1 DEF Change
    <3>3. /\ Owner[wal[u][i].key] = u
          /\ [digest |-> wal[u][i].digest, ver |-> i] \in used[wal[u][i].key]
      BY <2>1 DEF WalUsed, IInv
    <3> QED
      BY <1>8, <3>1, <3>2, <3>3
  <2>2. CASE i \notin 1..Len(wal[u])
    <3>1. u = o /\ i = L + 1
      BY <1>2, <1>3, <1>6, <1>13, <2>2 DEF L
    <3>2. wal'[u][i] = chg
      BY <1>6, <3>1
    <3> QED
      BY <1>5, <1>7, <3>1, <3>2 DEF o
  <2> QED
    BY <2>1, <2>2
<1>16. Current'
  <2> SUFFICES ASSUME NEW m \in Node, NEW j \in Key, db'[m][j].ver # OutOfBand,
                      NEW x \in 1..Seen(Owner[j], m)', wal'[Owner[j]][x].key = j
               PROVE  x <= db'[m][j].ver
    BY DEF Current
  <2>0. Owner[j] \in Node /\ applied'[Owner[j]][m] = applied[Owner[j]][m]
    BY <1>4, ConstantsAssumption
  <2>1. CASE m = o /\ j = k
    <3>1. db'[m][j] = row
      BY <1>7, <2>1
    <3>2. Seen(Owner[j], m)' = L + 1
      BY <1>6, <2>1 DEF Seen, o
    <3> QED
      BY <1>2, <1>3, <1>5, <3>1, <3>2
  <2>2. CASE ~(m = o /\ j = k)
    <3>1. db'[m][j] = db[m][j]
      BY <1>7, <2>2
    <3>2. CASE x \in 1..Seen(Owner[j], m)
      <4>1. Seen(Owner[j], m) <= Len(wal[Owner[j]]) /\ Seen(Owner[j], m) \in Nat
        BY <1>1, <1>13, <2>0 DEF Seen, AppliedInWal, IInv, TypeOK
      <4>2. x \in 1..Len(wal[Owner[j]])
        BY <1>13, <2>0, <3>2, <4>1
      <4>3. wal'[Owner[j]][x] = wal[Owner[j]][x]
        BY <1>13, <2>0, <4>2
      <4> QED
        BY <3>1, <3>2, <4>3 DEF Current, IInv
    <3>3. CASE x \notin 1..Seen(Owner[j], m)
      <4>1. Owner[j] = m
        BY <2>0, <3>3 DEF Seen
      <4>2. m = o /\ x = L + 1
        BY <1>2, <1>3, <1>6, <1>13, <3>3, <4>1 DEF Seen, L
      <4>3. wal'[Owner[j]][x].key = k
        BY <1>5, <1>6, <4>1, <4>2
      <4> QED
        BY <2>2, <4>2, <4>3
    <3> QED
      BY <3>2, <3>3
  <2> QED
    BY <2>1, <2>2
<1> QED
  BY <1>1, <1>9, <1>10, <1>11, <1>12, <1>14, <1>15, <1>16 DEF IInv

------------------------------------------------------------------------------
(* The comparison's own steps. *)

\* Rows have integer positions; a compared node's row is never newer than
\* what its owner committed.
LEMMA Positions ==
  ASSUME TypeOK
  PROVE  /\ \A n \in Node, k \in Key : db[n][k] \in Row /\ db[n][k].ver \in Int
         /\ \A n \in Compared, k \in Key :
              /\ prev[n][k] \in Row /\ prev[n][k].ver \in Int
              /\ cur[n][k] \in Row /\ cur[n][k].ver \in Int
         /\ \A o \in Node : Len(wal[o]) \in Nat
         /\ \A o, t \in Node : applied[o][t] \in Nat
<1>1. /\ \A n \in Node, k \in Key : db[n][k] \in Row
      /\ \A n \in Compared, k \in Key : prev[n][k] \in Row /\ cur[n][k] \in Row
  BY DEF TypeOK
<1>2. \A r \in Row : r.ver \in Int
  BY DEF Row
<1>3. \A o \in Node : Len(wal[o]) \in Nat
  BY DEF TypeOK
<1>4. \A o, t \in Node : applied[o][t] \in Nat
  BY DEF TypeOK
<1> QED
  BY <1>1, <1>2, <1>3, <1>4

\* The database's part of the invariant survives any step of the comparison.
LEMMA DatabaseStays ==
  ASSUME IInv, UNCHANGED envVars
  PROVE  UsedFromWal' /\ WalUsed' /\ FreshRows' /\ Current' /\ AppliedInWal'
<1>1. UNCHANGED <<db, wal, applied, used, drifted>>
  BY DEF envVars
<1> QED
  BY <1>1 DEF IInv, UsedFromWal, WalUsed, FreshRows, Current, Seen, AppliedInWal

LEMMA InjectInv ==
  ASSUME IInv, NEW e \in HubEdges, InjectBarrier(e)
  PROVE  IInv'
<1>1. TypeOK /\ TypeOK'
  BY FenceType DEF IInv
<1>2. /\ barrier' = [barrier EXCEPT ![e] = Len(wal[e[1]])]
      /\ UNCHANGED <<db, wal, applied, used, drifted, phase, unfenced, unread,
                     sums, cur, prev, div, pass, verdict>>
      /\ UNCHANGED envVars
  BY DEF InjectBarrier, envVars, readVars
<1>3. RowsKnown' /\ DriftKnown' /\ ReadOrder' /\ SamplesAdvance' /\ ConfirmedIsReal'
  BY <1>2 DEF RowsKnown, DriftKnown, ReadOrder, SamplesAdvance, ConfirmedIsReal, IInv
<1>4. EpochCovers'
  <2>1. ASSUME phase = "rechecking", NEW f \in HubEdges, barrier'[f] # NoLsn,
               NEW n \in Compared, NEW k \in Key, Owner[k] = f[1]
        PROVE  prev[n][k].ver <= barrier'[f]
    <3>1. CASE f = e
      <4>1. barrier'[f] = Len(wal[Owner[k]])
        BY <1>1, <1>2, <2>1, <3>1 DEF TypeOK
      <4>2. /\ Owner[k] \in Node /\ Len(wal[Owner[k]]) \in Nat
            /\ prev[n][k].ver \in Int
        BY <1>1, ConstantsAssumption, Positions
      <4>3. prev[n][k].ver > 0 => prev[n][k].ver <= Len(wal[Owner[k]])
        BY DEF IInv, RowsKnown, UsedFromWal
      <4> QED
        BY <4>1, <4>2, <4>3
    <3>2. CASE f # e
      <4>1. barrier'[f] = barrier[f]
        BY <1>1, <1>2, <3>2 DEF TypeOK
      <4> QED
        BY <2>1, <4>1 DEF EpochCovers, IInv
    <3> QED
      BY <3>1, <3>2
  <2>2. ASSUME phase \in {"rechecking", "resampling"},
               NEW f \in HubEdges \ unfenced, NEW n \in Compared, NEW k \in Key,
               Owner[k] = f[1]
        PROVE  prev[n][k].ver <= applied[f[1]][f[2]]
    BY <2>2 DEF EpochCovers, IInv
  <2> QED
    BY <1>2, <2>1, <2>2 DEF EpochCovers
<1> QED
  BY <1>1, <1>2, <1>3, <1>4, DatabaseStays DEF IInv

LEMMA ConvergeInv ==
  ASSUME IInv, NEW e \in HubEdges, Converge(e)
  PROVE  IInv'
<1>1. TypeOK /\ TypeOK'
  BY FenceType DEF IInv
<1>2. /\ phase \in {"fencing", "rechecking"}
      /\ barrier[e] # NoLsn
      /\ applied[e[1]][e[2]] >= barrier[e]
      /\ unfenced' = unfenced \ {e}
      /\ phase' = IF unfenced' # {} THEN phase
                  ELSE IF phase = "fencing" THEN "running" ELSE "resampling"
      /\ UNCHANGED <<db, wal, applied, used, drifted, barrier, unread, sums, cur,
                     prev, div, pass, verdict>>
      /\ UNCHANGED envVars
  BY DEF Converge, Fencing, Pending, envVars, readVars
<1>3. RowsKnown' /\ DriftKnown' /\ ConfirmedIsReal'
  BY <1>2 DEF RowsKnown, DriftKnown, ConfirmedIsReal, IInv
<1>4. unread' = Compared
  BY <1>2 DEF ReadOrder, IInv
<1>5. ReadOrder' /\ SamplesAdvance'
  BY <1>2, <1>4 DEF ReadOrder, SamplesAdvance
<1>6. EpochCovers'
  <2>1. phase' \in {"rechecking", "resampling"} => phase = "rechecking"
    BY <1>2
  <2>2. ASSUME phase = "rechecking", NEW f \in HubEdges \ unfenced',
               NEW n \in Compared, NEW k \in Key, Owner[k] = f[1]
        PROVE  prev[n][k].ver <= applied[f[1]][f[2]]
    <3>1. CASE f = e
      <4>1. prev[n][k].ver <= barrier[e]
        BY <1>2, <2>2, <3>1 DEF EpochCovers, IInv
      <4>2. e[1] \in Node /\ e[2] \in Node
        BY ConstantsAssumption DEF HubEdges
      <4>3. prev[n][k].ver \in Int /\ applied[e[1]][e[2]] \in Nat
        BY <1>1, <4>2, Positions
      <4>4. barrier[e] \in Int
        BY <1>1 DEF TypeOK
      <4> QED
        BY <1>2, <3>1, <4>1, <4>3, <4>4
    <3>2. CASE f # e
      BY <1>2, <2>2, <3>2 DEF EpochCovers, IInv
    <3> QED
      BY <3>1, <3>2
  <2>3. ASSUME phase = "rechecking", NEW f \in HubEdges, barrier[f] # NoLsn,
               NEW n \in Compared, NEW k \in Key, Owner[k] = f[1]
        PROVE  prev[n][k].ver <= barrier[f]
    BY <2>3 DEF EpochCovers, IInv
  <2> QED
    BY <1>2, <2>1, <2>2, <2>3 DEF EpochCovers
<1> QED
  BY <1>1, <1>2, <1>3, <1>5, <1>6, DatabaseStays DEF IInv

LEMMA ControlInv ==
  ASSUME IInv, BeginRecheck \/ Conclude \/ RunFails
  PROVE  IInv'
<1>1. TypeOK'
  BY ControlType DEF IInv
<1>2. /\ UNCHANGED <<db, wal, applied, used, drifted, unread, sums, cur, prev>>
      /\ UNCHANGED envVars
  BY DEF BeginRecheck, Conclude, RunFails, envVars, readVars
<1>3. RowsKnown' /\ DriftKnown'
  BY <1>2 DEF RowsKnown, DriftKnown, IInv
<1>4. ConfirmedIsReal'
  <2>1. \A p \in Peer, k \in Key : div'[p][k] = "confirmed" => div[p][k] = "confirmed"
    BY DEF BeginRecheck, Conclude, RunFails
  <2> QED
    BY <1>2, <2>1 DEF ConfirmedIsReal, IInv
<1>5. CASE BeginRecheck
  <2>1. /\ phase = "deciding" /\ phase' = "rechecking"
        /\ unfenced' = HubEdges
        /\ \A e \in HubEdges : barrier'[e] = NoLsn
    BY <1>5 DEF BeginRecheck
  <2>2. EpochCovers' /\ SamplesAdvance'
    BY <2>1 DEF EpochCovers, SamplesAdvance
  <2>3. ReadOrder'
    BY <1>2, <2>1 DEF ReadOrder, IInv
  <2> QED
    BY <1>1, <1>2, <1>3, <1>4, <2>2, <2>3, DatabaseStays DEF IInv
<1>6. CASE Conclude \/ RunFails
  <2>1. phase' \in {"done", "failed"}
    BY <1>6 DEF Conclude, RunFails
  <2>2. EpochCovers' /\ SamplesAdvance' /\ ReadOrder'
    BY <2>1 DEF EpochCovers, SamplesAdvance, ReadOrder
  <2> QED
    BY <1>1, <1>2, <1>3, <1>4, <2>2, DatabaseStays DEF IInv
<1> QED
  BY <1>5, <1>6

\* A sample holds rows its nodes really had.
LEMMA SampleKnown ==
  ASSUME IInv, NEW n \in Compared, UNCHANGED envVars,
         cur' = [cur EXCEPT ![n] = db[n]], prev' \in {prev, cur'}
  PROVE  RowsKnown' /\ DriftKnown'
<1>1. UNCHANGED <<db, used, drifted>> /\ n \in Node
  BY ConstantsAssumption DEF envVars, Compared
<1>2. \A m \in Compared : cur'[m] = IF m = n THEN db[n] ELSE cur[m]
  BY DEF IInv, TypeOK
<1>3. \A m \in Compared, k \in Key :
        /\ cur'[m][k] \in used[k]
        /\ cur'[m][k].ver = OutOfBand => <<m, k>> \in drifted
  BY <1>1, <1>2 DEF IInv, RowsKnown, DriftKnown
<1>4. \A m \in Compared, k \in Key :
        /\ prev'[m][k] \in used[k]
        /\ prev'[m][k].ver = OutOfBand => <<m, k>> \in drifted
  BY <1>3 DEF IInv, RowsKnown, DriftKnown
<1> QED
  BY <1>1, <1>3, <1>4 DEF IInv, RowsKnown, DriftKnown

LEMMA ChecksumInv ==
  ASSUME IInv, NEW n \in Compared, Checksum(n)
  PROVE  IInv'
<1>1. TypeOK'
  BY ReadType DEF IInv
<1>2. /\ phase' \in {"running", "localizing", "done"}
      /\ UNCHANGED <<db, used, drifted, cur, prev, div>>
      /\ UNCHANGED envVars
  BY DEF Checksum, envVars
<1>3. EpochCovers' /\ ReadOrder' /\ SamplesAdvance'
  BY <1>2 DEF EpochCovers, ReadOrder, SamplesAdvance
<1>4. RowsKnown' /\ DriftKnown' /\ ConfirmedIsReal'
  BY <1>2 DEF RowsKnown, DriftKnown, ConfirmedIsReal, IInv
<1> QED
  BY <1>1, <1>2, <1>3, <1>4, DatabaseStays DEF IInv

LEMMA LocalizeInv ==
  ASSUME IInv, NEW n \in Compared, Localize(n)
  PROVE  IInv'
<1>1. TypeOK'
  BY ReadType DEF IInv
<1>2. /\ cur' = [cur EXCEPT ![n] = db[n]]
      /\ prev' \in {prev, cur'}
      /\ phase' \in {"localizing", "deciding"}
      /\ phase' = "deciding" => unread' = Compared
      /\ UNCHANGED drifted
      /\ UNCHANGED envVars
  BY DEF Localize, envVars
<1>3. RowsKnown' /\ DriftKnown'
  BY <1>2, SampleKnown
<1>4. EpochCovers' /\ ReadOrder' /\ SamplesAdvance'
  BY <1>2 DEF EpochCovers, ReadOrder, SamplesAdvance
<1>5. \A p \in Peer, k \in Key : div'[p][k] = "confirmed" => div[p][k] = "confirmed"
  BY DEF Localize
<1>6. ConfirmedIsReal'
  BY <1>2, <1>5 DEF ConfirmedIsReal, IInv
<1> QED
  BY <1>1, <1>2, <1>3, <1>4, <1>6, DatabaseStays DEF IInv

\* In a closed recheck epoch over fenced feeds, a node's row that has not
\* drifted is as new as every row of the previous sample, on either side.
LEMMA EpochIsNewer ==
  ASSUME IInv, FeedsAreFenced, phase = "resampling",
         NEW n \in Compared, NEW m \in Compared, NEW k \in Key,
         db[n][k].ver # OutOfBand
  PROVE  prev[m][k].ver <= db[n][k].ver
<1> DEFINE v == prev[m][k].ver
           o == Owner[k]
<1>1. TypeOK /\ n \in Node /\ o \in Node
  BY ConstantsAssumption DEF IInv, Compared
<1>2. /\ v \in Int /\ db[n][k].ver \in Int /\ db[n][k] \in Row
      /\ Len(wal[o]) \in Nat /\ applied[o][n] \in Nat
  BY <1>1, Positions
<1>3. v <= 0 => v <= db[n][k].ver
  BY <1>2 DEF Row
<1>4. ASSUME v > 0 PROVE v <= db[n][k].ver
  <2>1. v <= Len(wal[o]) /\ wal[o][v].key = k
    <3>1. prev[m][k] \in used[k]
      BY DEF IInv, RowsKnown
    <3>2. \A r \in used[k] : r.ver > 0 =>
            /\ r.ver <= Len(wal[o])
            /\ wal[o][r.ver] = [key |-> k, digest |-> r.digest]
      BY DEF IInv, UsedFromWal
    <3>3. wal[o][v] = [key |-> k, digest |-> prev[m][k].digest] /\ v <= Len(wal[o])
      BY <1>4, <3>1, <3>2
    <3> QED
      BY <3>3
  <2>2. v <= Seen(o, n)
    <3>1. CASE o = n
      BY <2>1, <3>1 DEF Seen
    <3>2. CASE o # n
      <4>1. <<o, n>> \in HubEdges
        BY <3>2 DEF FeedsAreFenced
      <4>2. unfenced = {}
        BY DEF IInv, ReadOrder
      <4>3. v <= applied[o][n]
        BY <4>1, <4>2 DEF IInv, EpochCovers
      <4> QED
        BY <3>2, <4>3 DEF Seen
    <3> QED
      BY <3>1, <3>2
  <2>3. Seen(o, n) \in Nat
    BY <1>2 DEF Seen
  <2>4. v \in 1..Seen(o, n)
    BY <1>2, <1>4, <2>2, <2>3
  <2> QED
    BY <1>1, <2>1, <2>4 DEF IInv, Current
<1> QED
  BY <1>2, <1>3, <1>4

\* The confirmation rule is sound: two rows that kept their digests since
\* the previous sample and still differ cannot both be replicated rows.
LEMMA StableDifferenceIsDrift ==
  ASSUME IInv, FreshDigests, NEW k \in Key, NEW m \in Compared, NEW p \in Compared,
         NEW r \in used[k], NEW s \in used[k],
         r.ver # OutOfBand => prev[p][k].ver <= r.ver,
         s.ver # OutOfBand => prev[m][k].ver <= s.ver,
         prev[m][k].digest = r.digest, prev[p][k].digest = s.digest,
         r.digest # s.digest
  PROVE  r.ver = OutOfBand \/ s.ver = OutOfBand
<1> SUFFICES ASSUME r.ver # OutOfBand, s.ver # OutOfBand PROVE FALSE
  OBVIOUS
<1>1. prev[m][k] \in used[k] /\ prev[p][k] \in used[k]
  BY DEF IInv, RowsKnown
<1>2. prev[m][k].ver = r.ver /\ prev[p][k].ver = s.ver
  BY <1>1 DEF IInv, FreshRows
<1>3. r \in Row /\ s \in Row
  BY DEF IInv, TypeOK
<1>4. r.ver \in Int /\ s.ver \in Int /\ r.ver >= 0
  BY <1>3 DEF Row
<1>5. r.ver = s.ver
  BY <1>2, <1>4
<1>6. r.digest = s.digest
  <2>1. CASE r.ver = 0
    BY <1>5, <2>1 DEF IInv, UsedFromWal
  <2>2. CASE r.ver > 0
    <3>1. /\ wal[Owner[k]][r.ver] = [key |-> k, digest |-> r.digest]
          /\ wal[Owner[k]][r.ver] = [key |-> k, digest |-> s.digest]
      BY <1>5, <2>2 DEF IInv, UsedFromWal
    <3> QED
      BY <3>1
  <2> QED
    BY <1>4, <2>1, <2>2
<1> QED
  BY <1>6

\* What Resample does when it confirms a key.
LEMMA ConfirmEffect ==
  ASSUME TypeOK, NEW n \in Compared, Resample(n), NEW p \in Peer, NEW k \in Key,
         div[p][k] # "confirmed", div'[p][k] = "confirmed"
  PROVE  /\ p = n /\ Local \notin unread
         /\ cur'[Local][k].digest # cur'[p][k].digest
         /\ prev[Local][k].digest = cur'[Local][k].digest
         /\ prev[p][k].digest = cur'[p][k].digest
<1>1. p # Local
  BY ConstantsAssumption
<1>2. p = n
  BY DEF Resample
<1>3. Local \notin unread
  BY <1>1, <1>2 DEF Resample, CanRead
<1>4. div'[p][k] = IF div[p][k] = "candidate" THEN Resolved(prev, cur', p, k)
                   ELSE div[p][k]
  BY <1>2 DEF Resample
<1>5. Resolved(prev, cur', p, k) = "confirmed"
  BY <1>4
<1>6. Outcome(prev[Local][k].digest, prev[p][k].digest,
              cur'[Local][k].digest, cur'[p][k].digest) = "still_differs"
  BY <1>5 DEF Resolved, Outcome
<1> QED
  BY <1>2, <1>3, <1>6 DEF Outcome

\* A confirming step has sampled a drifted row.
LEMMA ConfirmEvidence ==
  ASSUME IInv, FeedsAreFenced, FreshDigests,
         NEW n \in Compared, Resample(n), NEW p \in Peer, NEW k \in Key,
         div[p][k] # "confirmed", div'[p][k] = "confirmed"
  PROVE  cur'[Local][k].ver = OutOfBand \/ cur'[p][k].ver = OutOfBand
<1>1. /\ TypeOK /\ TypeOK'
      /\ Local \in Compared /\ p \in Compared /\ Local # p
  BY ReadType, ConstantsAssumption DEF IInv, Compared
<1>2. /\ p = n /\ Local \notin unread
      /\ cur'[Local][k].digest # cur'[p][k].digest
      /\ prev[Local][k].digest = cur'[Local][k].digest
      /\ prev[p][k].digest = cur'[p][k].digest
  BY <1>1, ConfirmEffect
<1>3. phase = "resampling" /\ cur' = [cur EXCEPT ![n] = db[n]]
  BY DEF Resample
<1>4. cur'[Local] = cur[Local] /\ cur'[p] = db[p]
  BY <1>1, <1>2, <1>3 DEF TypeOK
<1>5. p \in Node
  BY ConstantsAssumption
<1>6. cur[Local][k] \in used[k] /\ db[p][k] \in used[k]
  BY <1>1, <1>5 DEF IInv, RowsKnown
<1>7. cur[Local][k].ver # OutOfBand => prev[p][k].ver <= cur[Local][k].ver
  BY <1>1, <1>2, <1>3 DEF IInv, SamplesAdvance
<1>8. db[p][k].ver # OutOfBand => prev[Local][k].ver <= db[p][k].ver
  BY <1>1, <1>3, EpochIsNewer
<1> QED
  BY <1>1, <1>2, <1>4, <1>6, <1>7, <1>8, StableDifferenceIsDrift

LEMMA ResampleInv ==
  ASSUME IInv, FeedsAreFenced, FreshDigests, NEW n \in Compared, Resample(n)
  PROVE  IInv'
<1>1. TypeOK /\ TypeOK'
  BY ReadType DEF IInv
<1>2. /\ phase = "resampling"
      /\ cur' = [cur EXCEPT ![n] = db[n]]
      /\ unread' = IF unread = {n} THEN Compared ELSE unread \ {n}
      /\ IF unread # {n} THEN UNCHANGED <<phase, prev>>
         ELSE phase' = "deciding" /\ prev' = cur'
      /\ UNCHANGED <<db, wal, applied, used, drifted, unfenced, barrier>>
      /\ UNCHANGED envVars
  BY DEF Resample, envVars, fenceVars
<1>3. RowsKnown' /\ DriftKnown'
  BY <1>2, SampleKnown
<1>4. ConfirmedIsReal'
  <2> SUFFICES ASSUME NEW p \in Peer, NEW k \in Key, div'[p][k] = "confirmed"
               PROVE  <<Local, k>> \in drifted' \/ <<p, k>> \in drifted'
    BY DEF ConfirmedIsReal
  <2>1. CASE div[p][k] = "confirmed"
    BY <1>2, <2>1 DEF IInv, ConfirmedIsReal
  <2>2. CASE div[p][k] # "confirmed"
    <3>1. cur'[Local][k].ver = OutOfBand \/ cur'[p][k].ver = OutOfBand
      BY <2>2, ConfirmEvidence
    <3>2. Local \in Compared /\ p \in Compared
      BY DEF Compared
    <3> QED
      BY <1>3, <3>1, <3>2 DEF DriftKnown
  <2> QED
    BY <2>1, <2>2
<1>5. CASE unread = {n}
  <2>1. phase' = "deciding" /\ unread' = Compared
    BY <1>2, <1>5
  <2>2. EpochCovers' /\ ReadOrder' /\ SamplesAdvance'
    BY <2>1 DEF EpochCovers, ReadOrder, SamplesAdvance
  <2> QED
    BY <1>1, <1>2, <1>3, <1>4, <2>2, DatabaseStays DEF IInv
<1>6. CASE unread # {n}
  <2>1. UNCHANGED <<phase, prev>> /\ unread' = unread \ {n}
    BY <1>2, <1>6
  <2>2. EpochCovers' /\ ReadOrder'
    BY <1>2, <2>1 DEF EpochCovers, ReadOrder, IInv
  <2>3. SamplesAdvance'
    <3> SUFFICES ASSUME NEW x \in Compared, x \notin unread', NEW m \in Compared,
                        NEW k \in Key, cur'[x][k].ver # OutOfBand
                 PROVE  prev[m][k].ver <= cur'[x][k].ver
      BY <2>1 DEF SamplesAdvance
    <3>1. CASE x = n
      <4>1. cur'[x] = db[n]
        BY <1>1, <1>2, <3>1 DEF TypeOK
      <4> QED
        BY <1>2, <4>1, EpochIsNewer
    <3>2. CASE x # n
      <4>1. cur'[x] = cur[x] /\ x \notin unread
        BY <1>1, <1>2, <2>1, <3>2 DEF TypeOK
      <4> QED
        BY <1>2, <4>1 DEF IInv, SamplesAdvance
    <3> QED
      BY <3>1, <3>2
  <2> QED
    BY <1>1, <1>2, <1>3, <1>4, <2>2, <2>3, DatabaseStays DEF IInv
<1> QED
  BY <1>5, <1>6

LEMMA NextInv ==
  ASSUME FeedsAreFenced, FreshDigests, IInv, [Next]_vars
  PROVE  IInv'
<1>1. CASE Environment
  BY <1>1, WriteInv, ApplyInv, DriftInv DEF Environment
<1>2. CASE Coordinator
  <2>1. ASSUME NEW e \in HubEdges, InjectBarrier(e) \/ Converge(e) PROVE IInv'
    BY <2>1, InjectInv, ConvergeInv
  <2>2. ASSUME NEW n \in Compared, Checksum(n) \/ Localize(n) \/ Resample(n)
        PROVE  IInv'
    BY <2>2, ChecksumInv, LocalizeInv, ResampleInv
  <2> QED
    BY <1>2, <2>1, <2>2, ControlInv DEF Coordinator, Progress
<1>3. CASE UNCHANGED vars
  <2>1. /\ UNCHANGED <<db, wal, applied, used, drifted, phase, unfenced, barrier,
                       unread, sums, cur, prev, div, pass, verdict>>
        /\ UNCHANGED envVars
    BY <1>3 DEF vars, envVars, fenceVars, readVars
  <2>2. TypeOK'
    BY <1>3, NextType DEF IInv
  <2>3. /\ \A k \in Key : used[k] \subseteq used'[k]
        /\ drifted \subseteq drifted'
        /\ \A o, t \in Node : applied[o][t] <= applied'[o][t]
    BY <2>1, Positions DEF IInv
  <2>4. RowsKnown' /\ DriftKnown'
    BY <2>1 DEF RowsKnown, DriftKnown, IInv
  <2> QED
    BY <2>1, <2>2, <2>3, <2>4, ComparisonStays, DatabaseStays DEF IInv
<1> QED
  BY <1>1, <1>2, <1>3 DEF Next

\* The evidence compare_table has at each point, the fences it has seen and the
\* state of the databases agree, over fenced feeds with digests that do not come
\* back.
THEOREM Invariance ==
  ASSUME FeedsAreFenced, FreshDigests
  PROVE  Spec => []IInv
<1>1. IInv /\ [Next]_vars => IInv'
  BY NextInv
<1> QED
  BY <1>1, InitInv, PTL DEF Spec

\* G-SOUND: over fenced feeds and with digests that do not come back, lag and
\* live load never confirm a divergence (compare_table's recheck loop).
THEOREM Soundness ==
  ASSUME FeedsAreFenced, FreshDigests
  PROVE  Spec => []ConfirmedIsReal
<1>1. IInv => ConfirmedIsReal
  BY DEF IInv
<1> QED
  BY <1>1, Invariance, PTL

\* A confirming step holds a drifted row in its sample, under the same
\* hypotheses (the reading loop of a recheck pass).
THEOREM EvidenceSound ==
  ASSUME FeedsAreFenced, FreshDigests
  PROVE  Spec => ConfirmedOnEvidence
<1>1. IInv /\ [Next]_vars => IInv'
  BY NextInv
<1>2. IInv /\ [Next]_vars => [EvidenceStep]_vars
  <2> SUFFICES ASSUME IInv, Next, NEW p \in Peer, NEW k \in Key,
                      div[p][k] # "confirmed", div'[p][k] = "confirmed"
               PROVE  cur'[Local][k].ver = OutOfBand \/ cur'[p][k].ver = OutOfBand
    BY DEF EvidenceStep
  <2>1. CASE \E n \in Compared : Resample(n)
    BY <2>1, ConfirmEvidence
  <2>2. CASE ~ \E n \in Compared : Resample(n)
    <3>1. div'[p][k] = "confirmed" => div[p][k] = "confirmed"
      BY <2>2 DEF Next, Environment, Write, Apply, DriftAt, Coordinator, Progress,
         InjectBarrier, Converge, Checksum, Localize, BeginRecheck, Conclude, RunFails
    <3> QED
      BY <3>1
  <2> QED
    BY <2>1, <2>2
<1> QED
  BY <1>1, <1>2, InitInv, PTL DEF Spec, ConfirmedOnEvidence

------------------------------------------------------------------------------
(* The order of the comparison, whatever the topology and the load. *)

\* Nothing is confirmed before the first recheck.
NothingYet ==
  /\ phase \in {"fencing", "running"} => \A p \in Peer, k \in Key : div[p][k] = "none"
  /\ phase = "localizing" => \A p \in Peer, k \in Key : div[p][k] # "confirmed"
  /\ phase \in {"fencing", "running", "localizing"} => pass = 0

VerdictLast == phase \notin {"done", "failed"} => verdict = "none"

\* In the last pass a peer that has been read has no candidate left.
ClosedAsRead ==
  /\ phase \in {"deciding", "rechecking"} => unread = Compared
  /\ pass >= RecheckPasses =>
       /\ phase = "resampling" =>
            \A p \in Peer \ unread, k \in Key : div[p][k] # "candidate"
       /\ phase = "deciding" => ~Open

Orderly == TypeOK /\ NothingYet /\ VerdictLast /\ ClosedAsRead /\ NoOpenCandidate

LEMMA InitOrderly == Init => Orderly
BY InitType, ConstantsAssumption
   DEF Init, Orderly, NothingYet, VerdictLast, ClosedAsRead, NoOpenCandidate

LEMMA EnvironmentOrderly ==
  ASSUME Orderly, Environment \/ UNCHANGED vars
  PROVE  Orderly'
<1>1. TypeOK'
  BY NextType DEF Orderly, Next
<1>2. UNCHANGED <<phase, unread, div, pass, verdict>>
  BY DEF Environment, Write, Apply, DriftAt, vars, readVars
<1> QED
  BY <1>1, <1>2
     DEF Orderly, NothingYet, VerdictLast, ClosedAsRead, NoOpenCandidate, Open

LEMMA ReadOrderly ==
  ASSUME Orderly, NEW n \in Compared, Checksum(n) \/ Localize(n)
  PROVE  Orderly'
<1>t. TypeOK'
  BY NextType DEF Orderly, Next, Coordinator, Progress
<1> USE DEF Orderly, NothingYet, VerdictLast, ClosedAsRead, NoOpenCandidate, Open
<1>1. CASE Checksum(n)
  BY <1>t, <1>1, ConstantsAssumption DEF Checksum
<1>2. CASE Localize(n)
  <2>1. \A p \in Peer, k \in Key : div'[p][k] # "confirmed"
    BY <1>2 DEF Localize
  <2>2. pass' = 0 /\ verdict' = "none" /\ ~(0 >= RecheckPasses)
    BY <1>2, ConstantsAssumption DEF Localize
  <2>3. \/ phase' = "localizing"
        \/ phase' = "deciding" /\ unread' = Compared
    BY <1>2 DEF Localize
  <2>4. NothingYet' /\ VerdictLast'
    BY <2>1, <2>2, <2>3
  <2>5. ClosedAsRead' /\ NoOpenCandidate'
    BY <2>2, <2>3
  <2> QED
    BY <1>t, <2>4, <2>5
<1> QED
  BY <1>1, <1>2

LEMMA ResampleOrderly ==
  ASSUME Orderly, NEW n \in Compared, Resample(n)
  PROVE  Orderly'
<1>1. TypeOK'
  BY NextType DEF Orderly, Next, Coordinator, Progress
<1>2. ASSUME pass >= RecheckPasses, NEW p \in Peer, p \notin unread \/ p = n,
             NEW k \in Key
      PROVE  div'[p][k] # "candidate"
  <2>1. CASE p = n
    BY <1>2, <2>1 DEF Resample, Resolved, Outcome
  <2>2. CASE p # n
    BY <1>2, <2>2 DEF Resample, Orderly, ClosedAsRead
  <2> QED
    BY <2>1, <2>2
<1>3. \/ /\ unread = {n}
         /\ phase' = "deciding"
         /\ unread' = Compared
      \/ phase' = "resampling" /\ unread' = unread \ {n}
  BY DEF Resample
<1>4. pass' = pass /\ verdict' = "none"
  BY DEF Resample, Orderly, VerdictLast
<1> QED
  BY <1>1, <1>2, <1>3, <1>4
     DEF Orderly, NothingYet, VerdictLast, ClosedAsRead, NoOpenCandidate, Open

LEMMA ControlOrderly ==
  ASSUME Orderly,
         \/ \E e \in HubEdges : InjectBarrier(e) \/ Converge(e)
         \/ BeginRecheck \/ Conclude \/ RunFails
  PROVE  Orderly'
<1>t. TypeOK'
  BY NextType DEF Orderly, Next, Coordinator, Progress
<1> USE <1>t DEF Orderly, NothingYet, VerdictLast, ClosedAsRead,
                 NoOpenCandidate, Open
<1>1. ASSUME NEW e \in HubEdges, InjectBarrier(e) PROVE Orderly'
  BY <1>1 DEF InjectBarrier, readVars
<1>2. ASSUME NEW e \in HubEdges, Converge(e) PROVE Orderly'
  <2>1. UNCHANGED <<unread, div, pass, verdict>>
    BY <1>2 DEF Converge, readVars
  <2>2. Peer \ Compared = {}
    BY DEF Compared
  <2> QED
    BY <1>2, <2>1, <2>2 DEF Converge, Fencing
<1>3. CASE BeginRecheck
  BY <1>3 DEF BeginRecheck, readVars
<1>4. CASE Conclude
  <2>1. pass \in Nat /\ RecheckPasses \in Nat
    BY ConstantsAssumption DEF TypeOK
  <2>2. ~Open
    BY <1>4, <2>1 DEF Conclude
  <2>3. ~Open' /\ phase' = "done"
    BY <1>4, <2>2 DEF Conclude
  <2> QED
    BY <2>3
<1>5. CASE RunFails
  BY <1>5 DEF RunFails, readVars
<1> QED
  BY <1>1, <1>2, <1>3, <1>4, <1>5

LEMMA NextOrderly == Orderly /\ [Next]_vars => Orderly'
<1> SUFFICES ASSUME Orderly, [Next]_vars PROVE Orderly'
  OBVIOUS
<1>1. CASE Environment \/ UNCHANGED vars
  BY <1>1, EnvironmentOrderly
<1>2. ASSUME NEW n \in Compared, Checksum(n) \/ Localize(n) \/ Resample(n)
      PROVE  Orderly'
  BY <1>2, ReadOrderly, ResampleOrderly
<1> QED
  BY <1>1, <1>2, ControlOrderly DEF Next, Coordinator, Progress

\* compare_table leaves no candidate behind: with any number of peers, keys
\* and passes, the last recheck pass resolves every key it has recorded.
THEOREM CandidatesClosed == Spec => []NoOpenCandidate
<1>1. Orderly => NoOpenCandidate
  BY DEF Orderly
<1> QED
  BY <1>1, InitOrderly, NextOrderly, PTL DEF Spec

------------------------------------------------------------------------------
(* The comparison implements ValidationPromise. *)

LEMMA PromiseInit == Init => Promise!Init
BY DEF Init, Promise!Init

\* A step that leaves the confirmed pairs, the drift and the verdict alone is
\* invisible to the promise.
LEMMA InvisibleStep ==
  ASSUME UNCHANGED <<drifted, verdict>>,
         \A p \in Peer, k \in Key :
           div'[p][k] = "confirmed" <=> div[p][k] = "confirmed"
  PROVE  UNCHANGED Promise!promiseVars
<1>1. {q \in Peer \X Key : div[q[1]][q[2]] = "confirmed"}' =
      {q \in Peer \X Key : div[q[1]][q[2]] = "confirmed"}
  OBVIOUS
<1> QED
  BY <1>1 DEF Promise!promiseVars

\* While no divergence is confirmed, none is reported.
LEMMA NothingReported ==
  ASSUME \A p \in Peer, k \in Key : div[p][k] # "confirmed"
  PROVE  {q \in Peer \X Key : div[q[1]][q[2]] = "confirmed"} = {}
<1> SUFFICES ASSUME NEW q \in Peer \X Key PROVE div[q[1]][q[2]] # "confirmed"
  OBVIOUS
<1>1. q[1] \in Peer /\ q[2] \in Key
  OBVIOUS
<1> QED
  BY <1>1

LEMMA ReportedIsConfirmed ==
  ({q \in Peer \X Key : div[q[1]][q[2]] = "confirmed"} # {}) <=> Has("confirmed")
<1>1. ASSUME Has("confirmed")
      PROVE  {q \in Peer \X Key : div[q[1]][q[2]] = "confirmed"} # {}
  <2>1. PICK p \in Peer, k \in Key : div[p][k] = "confirmed"
    BY <1>1 DEF Has
  <2>2. <<p, k>> \in {q \in Peer \X Key : div[q[1]][q[2]] = "confirmed"}
    BY <2>1
  <2> QED
    BY <2>2
<1>2. ASSUME ~Has("confirmed")
      PROVE  {q \in Peer \X Key : div[q[1]][q[2]] = "confirmed"} = {}
  BY <1>2, NothingReported DEF Has
<1> QED
  BY <1>1, <1>2

\* An application transaction or an apply is invisible; drift is Drift.
LEMMA EnvironmentRefines ==
  ASSUME Environment
  PROVE  Promise!Next \/ UNCHANGED Promise!promiseVars
<1>1. ASSUME NEW k \in Key, NEW d \in Digest, Write(k, d)
      PROVE  UNCHANGED Promise!promiseVars
  BY <1>1, InvisibleStep DEF Write
<1>2. ASSUME NEW o \in Node, NEW t \in Node, Apply(o, t)
      PROVE  UNCHANGED Promise!promiseVars
  BY <1>2, InvisibleStep DEF Apply
<1>3. ASSUME NEW n \in Node, NEW k \in Key, NEW d \in Digest, DriftAt(n, k, d)
      PROVE  Promise!Next
  <2>1. drifted' = drifted \cup {<<n, k>>} /\ div' = div /\ verdict' = verdict
    BY <1>3 DEF DriftAt
  <2>2. Promise!Drift(n, k)
    BY <2>1 DEF Promise!Drift
  <2> QED
    BY <2>2 DEF Promise!Next
<1> QED
  BY <1>1, <1>2, <1>3 DEF Environment

\* The fence and the opening of a recheck epoch are invisible.
LEMMA FenceRefines ==
  ASSUME \/ \E e \in HubEdges : InjectBarrier(e) \/ Converge(e)
         \/ BeginRecheck
  PROVE  UNCHANGED Promise!promiseVars
<1>1. UNCHANGED <<drifted, div, verdict>>
  BY DEF InjectBarrier, Converge, BeginRecheck, envVars
<1> QED
  BY <1>1, InvisibleStep

\* A checksum that closes the comparison concludes "match" over no report.
LEMMA ChecksumRefines ==
  ASSUME Keyed, Orderly, NEW n \in Compared, Checksum(n)
  PROVE  Promise!Next \/ UNCHANGED Promise!promiseVars
<1>1. drifted' = drifted /\ div' = div
  BY DEF Checksum, envVars
<1>2. CASE verdict' = verdict
  BY <1>1, <1>2, InvisibleStep
<1>3. CASE verdict' # verdict
  <2>1. verdict = "none" /\ verdict' = "match"
    BY <1>3 DEF Checksum, Orderly, VerdictLast
  <2>2. \A p \in Peer, k \in Key : div[p][k] # "confirmed"
    BY DEF Checksum, Orderly, NothingYet
  <2>3. {q \in Peer \X Key : div[q[1]][q[2]] = "confirmed"} = {}
    BY <2>2, NothingReported
  <2>4. Promise!Conclude("match")
    BY <1>1, <2>1, <2>3 DEF Promise!Conclude
  <2> QED
    BY <2>4 DEF Promise!Next
<1> QED
  BY <1>2, <1>3

LEMMA LocalizeRefines ==
  ASSUME Orderly, NEW n \in Compared, Localize(n)
  PROVE  UNCHANGED Promise!promiseVars
<1>1. UNCHANGED <<drifted, verdict>>
  BY DEF Localize, envVars
<1>2. \A p \in Peer, k \in Key : div[p][k] # "confirmed"
  BY DEF Localize, Orderly, NothingYet
<1>3. \A p \in Peer, k \in Key : div'[p][k] # "confirmed"
  BY <1>2 DEF Localize
<1> QED
  BY <1>1, <1>2, <1>3, InvisibleStep

\* Resolving the candidates of a peer reports genuine divergences only.
LEMMA ResampleRefines ==
  ASSUME FeedsAreFenced, FreshDigests, IInv, Orderly,
         NEW n \in Compared, Resample(n)
  PROVE  Promise!Next
<1> DEFINE reported == {q \in Peer \X Key : div[q[1]][q[2]] = "confirmed"}
<1>1. IInv'
  BY ResampleInv
<1>2. verdict = "none" /\ verdict' = verdict /\ drifted' = drifted
  BY DEF Resample, envVars, Orderly, VerdictLast
<1>3. \A p \in Peer, k \in Key :
        div[p][k] = "confirmed" => div'[p][k] = "confirmed"
  BY DEF Resample
<1>4. reported \subseteq reported'
  <2> SUFFICES ASSUME NEW q \in Peer \X Key, div[q[1]][q[2]] = "confirmed"
               PROVE  div'[q[1]][q[2]] = "confirmed"
    OBVIOUS
  <2>1. q[1] \in Peer /\ q[2] \in Key
    OBVIOUS
  <2> QED
    BY <1>3, <2>1
<1>5. ASSUME NEW q \in reported' \ reported
      PROVE  q \in Peer \X Key /\ Promise!Genuine(q[1], q[2])
  <2>1. /\ q \in Peer \X Key /\ q[1] \in Peer /\ q[2] \in Key
        /\ div'[q[1]][q[2]] = "confirmed"
    OBVIOUS
  <2>2. <<Local, q[2]>> \in drifted \/ <<q[1], q[2]>> \in drifted
    BY <1>1, <1>2, <2>1 DEF IInv, ConfirmedIsReal
  <2> QED
    BY <2>1, <2>2 DEF Promise!Genuine, Promise!RowsOf
<1>6. Promise!Report
  BY <1>2, <1>4, <1>5 DEF Promise!Report
<1> QED
  BY <1>6 DEF Promise!Next

\* The verdict says "differ" exactly when a divergence is reported.
LEMMA ConcludeRefines ==
  ASSUME Orderly, Conclude
  PROVE  Promise!Next
<1>1. /\ verdict = "none" /\ verdict' \in {"match", "differ", "indeterminate"}
      /\ verdict' = "differ" <=> Has("confirmed")
      /\ drifted' = drifted /\ div' = div
  BY DEF Conclude, envVars, Orderly, VerdictLast
<1>2. Promise!Conclude(verdict')
  BY <1>1, ReportedIsConfirmed DEF Promise!Conclude
<1> QED
  BY <1>1, <1>2 DEF Promise!Next

\* A failure withdraws every report.
LEMMA FailureRefines ==
  ASSUME Orderly, RunFails
  PROVE  Promise!Next
<1>1. verdict = "none" /\ verdict' = "error" /\ drifted' = drifted
  BY DEF RunFails, envVars, Orderly, VerdictLast
<1>2. \A p \in Peer, k \in Key : div'[p][k] # "confirmed"
  BY DEF RunFails
<1>3. {q \in Peer \X Key : div[q[1]][q[2]] = "confirmed"}' = {}
  <2> SUFFICES ASSUME NEW q \in Peer \X Key PROVE div'[q[1]][q[2]] # "confirmed"
    OBVIOUS
  <2>1. q[1] \in Peer /\ q[2] \in Key
    OBVIOUS
  <2> QED
    BY <1>2, <2>1
<1>4. Promise!Withdraw
  BY <1>1, <1>3 DEF Promise!Withdraw
<1> QED
  BY <1>4 DEF Promise!Next

\* compare_table keeps G-SOUND: over fenced feeds, with digests that do not
\* come back and a table that has a key, every step reports genuine
\* divergences, concludes from the reports, withdraws them all, or is
\* invisible.
THEOREM Refinement ==
  ASSUME FeedsAreFenced, FreshDigests, Keyed
  PROVE  Spec => KeepsPromise
<1>1. Init => Promise!Init
  BY PromiseInit
<1>2. IInv /\ [Next]_vars => IInv'
  BY NextInv
<1>3. IInv /\ Orderly /\ [Next]_vars => [Promise!Next]_Promise!promiseVars
  <2> SUFFICES ASSUME IInv, Orderly, [Next]_vars
               PROVE  Promise!Next \/ UNCHANGED Promise!promiseVars
    OBVIOUS
  <2>1. CASE Environment
    BY <2>1, EnvironmentRefines
  <2>2. CASE \/ \E e \in HubEdges : InjectBarrier(e) \/ Converge(e)
             \/ BeginRecheck
    BY <2>2, FenceRefines
  <2>3. ASSUME NEW n \in Compared, Checksum(n) \/ Localize(n) \/ Resample(n)
        PROVE  Promise!Next \/ UNCHANGED Promise!promiseVars
    BY <2>3, ChecksumRefines, LocalizeRefines, ResampleRefines
  <2>4. CASE Conclude \/ RunFails
    BY <2>4, ConcludeRefines, FailureRefines
  <2>5. CASE UNCHANGED vars
    BY <2>5, InvisibleStep DEF vars, envVars
  <2> QED
    BY <2>1, <2>2, <2>3, <2>4, <2>5 DEF Next, Coordinator, Progress
<1> QED
  BY <1>1, <1>2, <1>3, InitInv, InitOrderly, NextOrderly, PTL
     DEF Spec, KeepsPromise, Promise!Spec
==============================================================================
