---------------------- MODULE DigestCompleteness_proofs ----------------------
(***************************************************************************)
(* Completeness of a comparison (NoMissedDivergence): with fresh digests   *)
(* and room to report every key, a difference the checksums saw and that   *)
(* has stayed is confirmed when the comparison is done.  The argument is   *)
(* the opposite of soundness: no fence is needed, only that a digest a     *)
(* node has moved away from never comes back to it.                        *)
(***************************************************************************)
EXTENDS DigestStability_proofs, FiniteSetTheorems

USE DEF OutOfBand, NoLsn

\* Every row of a node comes from its history and is no newer than what the
\* node has seen of the owner's stream.
RowsSeen ==
  \A n \in Node, k \in Key :
    db[n][k] \in used[k] /\ db[n][k].ver <= Seen(Owner[k], n)

\* A checksum stands for a row the node has seen by now.
SumsSeen ==
  \A n \in Compared, k \in Key :
    \E r \in used[k] : r.digest = sums[n][k] /\ r.ver <= Seen(Owner[k], n)

Database == TypeOK /\ WalUsed /\ FreshRows /\ RowsSeen /\ SumsSeen

\* Node n's row of k is not the one its checksum was taken from.
Moved(n, k) == db[n][k].digest # sums[n][k]

\* The difference at k the checksums saw is still there.
Persists(p, k) ==
  sums[Local][k] # sums[p][k] /\ ~Moved(Local, k) /\ ~Moved(p, k)

\* A sample of n holds the row of the checksum wherever n still holds it.
Faithful(s, n) == \A k \in Key : s[n][k].digest = sums[n][k] \/ Moved(n, k)

Samples ==
  /\ phase = "localizing" => \A n \in Compared \ unread : Faithful(cur, n)
  /\ phase \in {"deciding", "rechecking", "resampling"} =>
       \A n \in Compared : Faithful(cur, n) /\ Faithful(prev, n)

Course ==
  /\ Local \in unread => unread = Compared
  /\ phase \in {"fencing", "deciding", "rechecking"} => unread = Compared
  /\ phase \in {"fencing", "running", "localizing"} => pass = 0
  /\ phase \in {"rechecking", "resampling"} => pass > 0

\* What is recorded of a key whose difference has stayed.
Recorded(p, k) ==
  /\ phase = "localizing" /\ p \notin unread => div[p][k] = "candidate"
  /\ phase \in {"deciding", "rechecking", "resampling"} =>
       div[p][k] \in {"candidate", "confirmed"}
  /\ \/ phase = "resampling" /\ p \notin unread
     \/ phase = "deciding" /\ pass > 0
     \/ phase = "done" /\ Keyed
     => div[p][k] = "confirmed"

AllRecorded == \A p \in Peer, k \in Key : Persists(p, k) => Recorded(p, k)

Complete == Database /\ Samples /\ Course /\ AllRecorded

LEMMA CompleteInit == Init => Complete
<1> SUFFICES ASSUME Init PROVE Complete
  OBVIOUS
<1> USE ConstantsAssumption
<1>1. TypeOK /\ WalUsed /\ FreshRows
  BY InitInv DEF IInv
<1>2. \A n \in Node, o \in Node : Seen(o, n) = 0
  BY DEF Init, Seen
<1>3. \A n \in Node, k \in Key :
        /\ db[n][k] = StartRows[k] /\ StartRows[k] \in used[k]
        /\ StartRows[k].ver = 0 /\ StartRows[k].digest = Start[k]
  BY DEF Init, StartRows
<1>4. RowsSeen
  BY <1>2, <1>3 DEF RowsSeen
<1>5. SumsSeen
  <2> SUFFICES ASSUME NEW n \in Compared, NEW k \in Key
               PROVE  \E r \in used[k] :
                        r.digest = sums[n][k] /\ r.ver <= Seen(Owner[k], n)
    BY DEF SumsSeen
  <2>1. n \in Node /\ Owner[k] \in Node /\ sums[n][k] = Start[k]
    BY DEF Init, Compared
  <2> QED
    BY <1>2, <1>3, <2>1
<1>6. Samples /\ Course /\ AllRecorded
  BY DEF Init, Samples, Course, AllRecorded, Recorded
<1> QED
  BY <1>1, <1>4, <1>5, <1>6 DEF Complete, Database

------------------------------------------------------------------------------
(* The environment: rows only move away from their checksums. *)

\* What a step of the environment may do to the database: histories and
\* streams grow, and a row stays or becomes one its node had not seen.
Grows ==
  /\ UNCHANGED <<phase, unread, sums, cur, prev, div, pass>>
  /\ \A k \in Key : used[k] \subseteq used'[k]
  /\ \A n \in Node, o \in Node : Seen(o, n) <= Seen(o, n)'
  /\ \A n \in Node, k \in Key :
       \/ db'[n][k] = db[n][k]
       \/ /\ db'[n][k] \in used'[k] /\ db'[n][k].ver <= Seen(Owner[k], n)'
          /\ FreshDigests =>
               \A r \in used[k] : r.ver <= Seen(Owner[k], n) =>
                 r.digest # db'[n][k].digest

LEMMA SeenNat ==
  ASSUME TypeOK
  PROVE  /\ \A n, o \in Node : Seen(o, n) \in Nat
         /\ \A k \in Key : Owner[k] \in Node
         /\ \A k \in Key : \A r \in used[k] : r.ver \in Int
         /\ Compared \subseteq Node
<1>1. \A k \in Key : \A r \in used[k] : r \in Row
  BY DEF TypeOK
<1>2. \A r \in Row : r.ver \in Int
  BY DEF Row
<1> QED
  BY <1>1, <1>2, Positions, ConstantsAssumption DEF Seen, Compared

\* Any such step keeps what the database has to keep.
LEMMA GrowsKeeps ==
  ASSUME Database, TypeOK', Grows
  PROVE  RowsSeen' /\ SumsSeen'
<1>1. /\ \A n, o \in Node : Seen(o, n) \in Nat /\ Seen(o, n)' \in Nat
      /\ \A k \in Key : Owner[k] \in Node
      /\ \A k \in Key : \A r \in used[k] : r.ver \in Int
      /\ Compared \subseteq Node
  <2>1. \A n, o \in Node : Seen(o, n)' \in Nat
    <3>1. /\ \A o \in Node : Len(wal'[o]) \in Nat
          /\ \A o, t \in Node : applied'[o][t] \in Nat
      <4>1. \A o \in Node : wal'[o] \in Seq(Change)
        BY DEF TypeOK
      <4>2. \A o, t \in Node : applied'[o][t] \in Nat
        BY DEF TypeOK
      <4> QED
        BY <4>1, <4>2
    <3> QED
      BY <3>1 DEF Seen
  <2> QED
    BY <2>1, SeenNat DEF Database
<1>2. RowsSeen'
  <2> SUFFICES ASSUME NEW n \in Node, NEW k \in Key
               PROVE  db'[n][k] \in used'[k] /\ db'[n][k].ver <= Seen(Owner[k], n)'
    BY DEF RowsSeen
  <2>1. db[n][k] \in used[k] /\ db[n][k].ver <= Seen(Owner[k], n)
    BY DEF Database, RowsSeen
  <2>2. Seen(Owner[k], n) <= Seen(Owner[k], n)'
    BY <1>1 DEF Grows
  <2>3. CASE db'[n][k] = db[n][k]
    <3>1. db'[n][k] \in used'[k]
      BY <2>1, <2>3 DEF Grows
    <3>2. db[n][k].ver <= Seen(Owner[k], n)'
      BY <1>1, <2>1, <2>2
    <3> QED
      BY <2>3, <3>1, <3>2
  <2>4. CASE db'[n][k] # db[n][k]
    BY <2>4 DEF Grows
  <2> QED
    BY <2>3, <2>4
<1>3. SumsSeen'
  <2> SUFFICES ASSUME NEW n \in Compared, NEW k \in Key
               PROVE  \E r \in used'[k] :
                        r.digest = sums'[n][k] /\ r.ver <= Seen(Owner[k], n)'
    BY DEF SumsSeen
  <2>1. PICK r \in used[k] : r.digest = sums[n][k] /\ r.ver <= Seen(Owner[k], n)
    BY DEF Database, SumsSeen
  <2>2. Seen(Owner[k], n) <= Seen(Owner[k], n)'
    BY <1>1 DEF Grows
  <2>3. r.ver <= Seen(Owner[k], n)'
    BY <1>1, <2>1, <2>2
  <2>4. r \in used'[k] /\ sums' = sums
    BY DEF Grows
  <2> QED
    BY <2>1, <2>3, <2>4
<1> QED
  BY <1>2, <1>3

\* A row that has left its checksum never comes back to it.
LEMMA MovedForGood ==
  ASSUME Database, Grows, FreshDigests, NEW n \in Compared, NEW k \in Key,
         Moved(n, k)
  PROVE  Moved(n, k)'
<1>1. n \in Node
  BY SeenNat DEF Database
<1>2. CASE db'[n][k] = db[n][k]
  BY <1>2 DEF Moved, Grows
<1>3. CASE db'[n][k] # db[n][k]
  <2>1. PICK r \in used[k] : r.digest = sums[n][k] /\ r.ver <= Seen(Owner[k], n)
    BY DEF Database, SumsSeen
  <2>2. r.digest # db'[n][k].digest
    BY <1>1, <1>3, <2>1 DEF Grows
  <2> QED
    BY <2>1, <2>2 DEF Moved, Grows
<1> QED
  BY <1>2, <1>3

\* What was sampled and recorded stays so while the databases move on.
LEMMA GrowsComplete ==
  ASSUME Complete, Grows, FreshDigests
  PROVE  Samples' /\ Course' /\ AllRecorded'
<1>1. /\ UNCHANGED <<phase, unread, sums, cur, prev, div, pass>>
      /\ \A n \in Compared, k \in Key : Moved(n, k) => Moved(n, k)'
  BY MovedForGood DEF Complete, Grows
<1>2. Local \in Compared /\ Peer \subseteq Compared
  BY DEF Compared
<1>3. \A p \in Peer, k \in Key : Persists(p, k)' => Persists(p, k)
  BY <1>1, <1>2 DEF Persists
<1>4. AllRecorded'
  BY <1>1, <1>3 DEF Complete, AllRecorded, Recorded
<1>5. \A n \in Compared :
        /\ Faithful(cur, n) => Faithful(cur, n)'
        /\ Faithful(prev, n) => Faithful(prev, n)'
  BY <1>1 DEF Faithful
<1>6. Samples'
  BY <1>1, <1>5 DEF Complete, Samples
<1>7. Course'
  BY <1>1 DEF Complete, Course
<1> QED
  BY <1>4, <1>6, <1>7

LEMMA DriftGrows ==
  ASSUME Database, NEW n \in Node, NEW k \in Key, NEW d \in Digest, DriftAt(n, k, d)
  PROVE  Grows /\ WalUsed' /\ FreshRows'
<1> DEFINE row == [digest |-> d, ver |-> OutOfBand]
<1>1. TypeOK
  BY DEF Database
<1>2. /\ db' = [db EXCEPT ![n][k] = row]
      /\ used' = [used EXCEPT ![k] = used[k] \cup {row}]
      /\ UNCHANGED <<wal, applied, phase, unread, sums, cur, prev, div, pass>>
      /\ FreshDigests => \A r \in used[k] : r.digest # d
  BY DEF DriftAt, Producible, readVars
<1>3. row.ver = OutOfBand /\ row.digest = d
  OBVIOUS
<1> HIDE DEF row
<1>4. /\ \A m \in Node, j \in Key :
           db'[m][j] = IF m = n /\ j = k THEN row ELSE db[m][j]
      /\ \A j \in Key : used'[j] = IF j = k THEN used[k] \cup {row} ELSE used[j]
  BY <1>1, <1>2 DEF TypeOK
<1>5. \A u, v \in Node : Seen(u, v)' = Seen(u, v) /\ Seen(u, v) \in Nat
  BY <1>1, <1>2, SeenNat DEF Seen
<1>6. Owner[k] \in Node
  BY ConstantsAssumption
<1>7. Grows
  <2>1. row \in used'[k] /\ row.ver <= Seen(Owner[k], n)'
    BY <1>3, <1>4, <1>5, <1>6
  <2>2. FreshDigests => \A r \in used[k] : r.digest # row.digest
    BY <1>2, <1>3
  <2>3. \A u, v \in Node : Seen(u, v) <= Seen(u, v)'
    BY <1>5
  <2> QED
    BY <1>2, <1>4, <2>1, <2>2, <2>3 DEF Grows
<1>8. FreshRows'
  BY <1>2, <1>3, <1>4 DEF FreshRows, Database
<1>9. WalUsed'
  <2> SUFFICES ASSUME NEW o \in Node, NEW i \in 1..Len(wal[o])
               PROVE  /\ Owner[wal[o][i].key] = o
                      /\ [digest |-> wal[o][i].digest, ver |-> i]
                           \in used'[wal[o][i].key]
    BY <1>2 DEF WalUsed
  <2>1. wal[o][i] \in Change
    BY <1>1 DEF TypeOK
  <2>2. wal[o][i].key \in Key
    BY <2>1 DEF Change
  <2> QED
    BY <1>4, <2>2 DEF WalUsed, Database
<1> QED
  BY <1>7, <1>8, <1>9

LEMMA ApplyGrows ==
  ASSUME Database, NEW o \in Node, NEW t \in Node, Apply(o, t)
  PROVE  Grows /\ WalUsed' /\ FreshRows'
<1>1. TypeOK
  BY DEF Database
<1>2. PICK i \in 1..Len(wal[o]), k \in Key, d \in Digest : Takes(o, t, i, k, d)
  BY <1>1, ApplyEffect
<1> DEFINE row == [digest |-> d, ver |-> i]
<1>3. row.ver = i /\ row.digest = d /\ i \in Nat /\ applied[o][t] \in Nat
  BY <1>1, Positions
<1>4. Owner[k] = o /\ row \in used[k]
  BY <1>2 DEF Takes, WalUsed, Database
<1>5. /\ o # t
      /\ i = applied[o][t] + 1
      /\ db' = [db EXCEPT ![t][k] = row] \/ db' = db
      /\ applied' = [applied EXCEPT ![o][t] = i]
      /\ UNCHANGED <<wal, used, phase, unread, sums, cur, prev, div, pass>>
  BY <1>2 DEF Takes
<1> HIDE DEF row
<1>6. /\ \A m \in Node, j \in Key :
           db'[m][j] = db[m][j] \/ (m = t /\ j = k /\ db'[m][j] = row)
      /\ \A u, v \in Node :
           applied'[u][v] = IF u = o /\ v = t THEN i ELSE applied[u][v]
  <2>1. /\ db \in [Node -> [Key -> Row]]
        /\ applied \in [Node -> [Node -> Nat]]
    BY <1>1 DEF TypeOK
  <2>2. \A m \in Node, j \in Key :
          db'[m][j] = db[m][j] \/ (m = t /\ j = k /\ db'[m][j] = row)
    BY <1>5, <2>1
  <2>3. \A u, v \in Node :
          applied'[u][v] = IF u = o /\ v = t THEN i ELSE applied[u][v]
    <3>1. applied' = [applied EXCEPT ![o][t] = i]
      BY <1>5
    <3> QED
      BY <2>1, <3>1
  <2> QED
    BY <2>2, <2>3
<1>7. Seen(o, t) = applied[o][t] /\ Seen(o, t)' = i
  BY <1>5, <1>6 DEF Seen
<1>8. \A u, v \in Node : Seen(u, v) \in Nat /\ (Seen(u, v)' = Seen(u, v) \/ (u = o /\ v = t))
  BY <1>1, <1>5, <1>6, SeenNat DEF Seen
<1>9. \A u, v \in Node : Seen(u, v) <= Seen(u, v)'
  <2>1. Seen(o, t) <= Seen(o, t)'
    <3>1. applied[o][t] \in Nat /\ i \in Nat /\ applied[o][t] < i
      BY <1>3, <1>5
    <3> QED
      BY <1>7, <3>1
  <2> QED
    BY <1>8, <2>1
<1>10. ASSUME FreshDigests, NEW r \in used[k], r.ver <= Seen(o, t)
       PROVE  r.digest # row.digest
  <2>1. r.ver # i
    BY <1>1, <1>3, <1>5, <1>7, <1>10, SeenNat
  <2> QED
    BY <1>3, <1>4, <1>10, <2>1 DEF Database, FreshRows
<1>11. Grows
  <2>1. \A j \in Key : used[j] \subseteq used'[j]
    BY <1>5
  <2>2. row \in used'[k] /\ row.ver <= Seen(o, t)'
    BY <1>3, <1>4, <1>5, <1>7
  <2> QED
    BY <1>4, <1>5, <1>6, <1>9, <1>10, <2>1, <2>2 DEF Grows
<1>12. WalUsed' /\ FreshRows'
  BY <1>5 DEF Database, WalUsed, FreshRows
<1> QED
  BY <1>11, <1>12

LEMMA WriteGrows ==
  ASSUME Database, NEW k \in Key, NEW d \in Digest, Write(k, d)
  PROVE  Grows /\ WalUsed' /\ FreshRows'
<1> DEFINE o == Owner[k]
           chg == [key |-> k, digest |-> d]
           L == Len(wal[o])
           row == [digest |-> d, ver |-> L + 1]
<1>1. TypeOK
  BY DEF Database
<1>2. o \in Node /\ wal[o] \in Seq(Change)
  BY <1>1, ConstantsAssumption DEF TypeOK
<1>3. L \in Nat /\ chg \in Change
  BY <1>2 DEF Change
<1>4. /\ wal' = [wal EXCEPT ![o] = Append(wal[o], chg)]
      /\ db' = [db EXCEPT ![o][k] = row]
      /\ used' = [used EXCEPT ![k] = used[k] \cup {row}]
      /\ UNCHANGED <<applied, phase, unread, sums, cur, prev, div, pass>>
      /\ FreshDigests => \A r \in used[k] : r.digest # d
  BY DEF Write, Producible, readVars
<1>5. /\ row.ver = L + 1 /\ row.digest = d /\ chg.key = k
      /\ row = [digest |-> chg.digest, ver |-> L + 1]
  OBVIOUS
<1>6. /\ Len(wal'[o]) = L + 1 /\ wal'[o][L + 1] = chg
      /\ \A u \in Node \ {o} : wal'[u] = wal[u]
      /\ \A i \in 1..L : wal'[o][i] = wal[o][i]
  BY <1>1, <1>2, <1>3, <1>4 DEF TypeOK
<1>7. L = Len(wal[o]) /\ o = Owner[k]
  OBVIOUS
<1> HIDE DEF row, chg, L, o
<1>8. /\ \A m \in Node, j \in Key :
           db'[m][j] = IF m = o /\ j = k THEN row ELSE db[m][j]
      /\ \A j \in Key : used'[j] = IF j = k THEN used[k] \cup {row} ELSE used[j]
  BY <1>1, <1>2, <1>4 DEF TypeOK
<1>9. /\ Seen(o, o) = L /\ Seen(o, o)' = L + 1
      /\ \A u, v \in Node : ~(u = o /\ v = o) => Seen(u, v)' = Seen(u, v)
  BY <1>4, <1>6, <1>7 DEF Seen
<1>10. Grows
  <2>1. \A n, u \in Node : Seen(u, n) <= Seen(u, n)'
    BY <1>1, <1>3, <1>9, SeenNat
  <2>2. row \in used'[k] /\ row.ver <= Seen(Owner[k], o)'
    BY <1>3, <1>5, <1>7, <1>8, <1>9
  <2>3. FreshDigests => \A r \in used[k] : r.digest # row.digest
    BY <1>4, <1>5
  <2> QED
    BY <1>4, <1>8, <2>1, <2>2, <2>3 DEF Grows
<1>11. FreshRows'
  BY <1>4, <1>5, <1>8 DEF FreshRows, Database
<1>12. WalUsed'
  <2> SUFFICES ASSUME NEW u \in Node, NEW i \in 1..Len(wal'[u])
               PROVE  /\ Owner[wal'[u][i].key] = u
                      /\ [digest |-> wal'[u][i].digest, ver |-> i]
                           \in used'[wal'[u][i].key]
    BY DEF WalUsed
  <2>1. CASE u = o /\ i = L + 1
    BY <1>5, <1>6, <1>7, <1>8, <2>1
  <2>2. CASE ~(u = o /\ i = L + 1)
    <3>1. i \in 1..Len(wal[u]) /\ wal'[u][i] = wal[u][i]
      <4>1. CASE u = o
        BY <1>3, <1>6, <1>7, <2>2, <4>1
      <4>2. CASE u # o
        BY <1>6, <4>2
      <4> QED
        BY <4>1, <4>2
    <3>2. wal[u][i] \in Change
      BY <1>1, <3>1 DEF TypeOK
    <3>3. wal[u][i].key \in Key
      BY <3>2 DEF Change
    <3>4. /\ Owner[wal[u][i].key] = u
          /\ [digest |-> wal[u][i].digest, ver |-> i] \in used[wal[u][i].key]
      BY <3>1 DEF WalUsed, Database
    <3> QED
      BY <1>8, <3>1, <3>3, <3>4
  <2> QED
    BY <2>1, <2>2
<1> QED
  BY <1>10, <1>11, <1>12

LEMMA EnvironmentComplete ==
  ASSUME Complete, FreshDigests, Environment
  PROVE  Complete'
<1>1. Grows /\ WalUsed' /\ FreshRows'
  BY WriteGrows, ApplyGrows, DriftGrows DEF Environment, Complete
<1>2. TypeOK'
  BY NextType DEF Complete, Database, Next
<1>3. RowsSeen' /\ SumsSeen'
  BY <1>1, <1>2, GrowsKeeps DEF Complete
<1>4. Samples' /\ Course' /\ AllRecorded'
  BY <1>1, GrowsComplete
<1> QED
  BY <1>1, <1>2, <1>3, <1>4 DEF Complete, Database

------------------------------------------------------------------------------
(* The comparison's own steps leave the databases alone. *)

LEMMA DatabaseKept ==
  ASSUME Database, TypeOK', UNCHANGED <<envVars, sums>>
  PROVE  Database' /\ \A n \in Compared, k \in Key : Moved(n, k)' <=> Moved(n, k)
<1>1. UNCHANGED <<db, wal, applied, used, sums>>
  BY DEF envVars
<1>2. RowsSeen'
  BY <1>1 DEF Database, RowsSeen, Seen
<1>3. SumsSeen'
  BY <1>1 DEF Database, SumsSeen, Seen
<1>4. WalUsed' /\ FreshRows'
  BY <1>1 DEF Database, WalUsed, FreshRows
<1>5. \A n \in Compared, k \in Key : Moved(n, k)' <=> Moved(n, k)
  BY <1>1 DEF Moved
<1> QED
  BY <1>2, <1>3, <1>4, <1>5 DEF Database

\* A step that reads nothing keeps what the samples say.
LEMMA PersistsKept ==
  ASSUME UNCHANGED sums,
         \A n \in Compared, k \in Key : Moved(n, k)' <=> Moved(n, k)
  PROVE  /\ \A p \in Peer, k \in Key : Persists(p, k)' <=> Persists(p, k)
         /\ UNCHANGED cur => \A n \in Compared : Faithful(cur, n)' <=> Faithful(cur, n)
         /\ UNCHANGED prev => \A n \in Compared : Faithful(prev, n)' <=> Faithful(prev, n)
<1>1. Local \in Compared /\ Peer \subseteq Compared
  BY DEF Compared
<1>2. \A p \in Peer, k \in Key : Persists(p, k)' <=> Persists(p, k)
  BY <1>1 DEF Persists
<1>3. UNCHANGED cur => \A n \in Compared : Faithful(cur, n)' <=> Faithful(cur, n)
  BY DEF Faithful
<1>4. UNCHANGED prev => \A n \in Compared : Faithful(prev, n)' <=> Faithful(prev, n)
  BY DEF Faithful
<1> QED
  BY <1>2, <1>3, <1>4

LEMMA ControlComplete ==
  ASSUME Complete,
         \/ \E e \in HubEdges : InjectBarrier(e) \/ Converge(e)
         \/ BeginRecheck \/ Conclude \/ RunFails
  PROVE  Complete'
<1>1. TypeOK'
  BY NextType DEF Complete, Database, Next, Coordinator, Progress
<1>2. UNCHANGED <<envVars, sums, cur, prev, unread>>
  BY DEF InjectBarrier, Converge, BeginRecheck, Conclude, RunFails, readVars
<1>3. Database' /\ \A n \in Compared, k \in Key : Moved(n, k)' <=> Moved(n, k)
  BY <1>1, <1>2, DatabaseKept DEF Complete
<1>4. /\ \A p \in Peer, k \in Key : Persists(p, k)' <=> Persists(p, k)
      /\ \A n \in Compared : Faithful(cur, n)' <=> Faithful(cur, n)
      /\ \A n \in Compared : Faithful(prev, n)' <=> Faithful(prev, n)
  BY <1>2, <1>3, PersistsKept
<1>5. pass \in Nat /\ pass' \in Nat /\ RecheckPasses \in Nat /\ RecheckPasses > 0
  BY <1>1, ConstantsAssumption DEF Complete, Database, TypeOK
<1>6. ASSUME NEW e \in HubEdges, InjectBarrier(e)
      PROVE  Samples' /\ Course' /\ AllRecorded'
  <2>1. UNCHANGED <<phase, div, pass>>
    BY <1>6 DEF InjectBarrier
  <2> QED
    BY <1>2, <1>4, <2>1 DEF Complete, Samples, Course, AllRecorded, Recorded
<1>7. ASSUME NEW e \in HubEdges, Converge(e)
      PROVE  Samples' /\ Course' /\ AllRecorded'
  <2>1. /\ UNCHANGED <<div, pass>>
        /\ \/ phase' = phase
           \/ phase = "fencing" /\ phase' = "running"
           \/ phase = "rechecking" /\ phase' = "resampling"
    BY <1>7 DEF Converge, Fencing
  <2>2. Samples'
    BY <1>2, <1>4, <2>1 DEF Complete, Samples
  <2>3. Course'
    BY <1>2, <2>1 DEF Complete, Course
  <2>4. Peer \subseteq Compared
    BY DEF Compared
  <2>5. AllRecorded'
    BY <1>2, <1>4, <2>1, <2>4 DEF Complete, Course, AllRecorded, Recorded
  <2> QED
    BY <2>2, <2>3, <2>5
<1>8. CASE BeginRecheck
  <2>1. /\ phase = "deciding" /\ phase' = "rechecking"
        /\ pass' = pass + 1 /\ UNCHANGED div
    BY <1>8 DEF BeginRecheck
  <2>2. Samples'
    BY <1>2, <1>4, <2>1 DEF Complete, Samples
  <2>3. Course'
    BY <1>2, <1>5, <2>1 DEF Complete, Course
  <2>4. AllRecorded'
    BY <1>2, <1>4, <2>1 DEF Complete, AllRecorded, Recorded
  <2> QED
    BY <1>3, <2>2, <2>3, <2>4 DEF Complete
<1>9. CASE Conclude
  <2>1. /\ phase = "deciding" /\ phase' = "done"
        /\ ~(Open /\ pass < RecheckPasses) /\ UNCHANGED <<div, pass>>
    BY <1>9 DEF Conclude
  <2>2. Samples' /\ Course'
    BY <1>2, <2>1 DEF Complete, Samples, Course
  <2>3. ASSUME NEW p \in Peer, NEW k \in Key, Persists(p, k)
        PROVE  div[p][k] = "confirmed"
    <3>1. Recorded(p, k)
      BY <2>3 DEF Complete, AllRecorded
    <3>2. CASE pass > 0
      BY <2>1, <3>1, <3>2 DEF Recorded
    <3>3. CASE pass = 0
      <4>1. ~Open
        BY <1>5, <2>1, <3>3
      <4> QED
        BY <2>1, <3>1, <4>1 DEF Recorded, Open
    <3> QED
      BY <1>5, <3>2, <3>3
  <2>4. AllRecorded'
    BY <1>4, <2>1, <2>3 DEF AllRecorded, Recorded
  <2> QED
    BY <1>3, <2>2, <2>4 DEF Complete
<1>10. CASE RunFails
  <2>1. phase' = "failed"
    BY <1>10 DEF RunFails
  <2>2. Samples' /\ Course' /\ AllRecorded'
    BY <1>2, <2>1 DEF Complete, Samples, Course, AllRecorded, Recorded
  <2> QED
    BY <1>3, <2>2 DEF Complete
<1> QED
  BY <1>3, <1>6, <1>7, <1>8, <1>9, <1>10 DEF Complete

\* The first node read is Local, so no peer is read before it.
LEMMA ReadCourse ==
  ASSUME Course, NEW n \in Compared, CanRead(n),
         unread' = IF unread = {n} THEN Compared ELSE unread \ {n}
  PROVE  Local \in unread' => unread' = Compared
BY DEF Course, CanRead

LEMMA ChecksumComplete ==
  ASSUME Complete, IsFiniteSet(Peer), NEW n \in Compared, Checksum(n)
  PROVE  Complete'
<1>1. TypeOK /\ TypeOK'
  BY NextType DEF Complete, Database, Next, Coordinator, Progress
<1>2. /\ phase = "running" /\ CanRead(n)
      /\ sums' = [sums EXCEPT ![n] = Digests(db[n])]
      /\ unread' = IF unread = {n} THEN Compared ELSE unread \ {n}
      /\ UNCHANGED <<db, wal, applied, used, cur, prev, div, pass>>
  BY DEF Checksum, envVars
<1>3. Database'
  <2>1. WalUsed' /\ FreshRows' /\ RowsSeen'
    BY <1>2 DEF Complete, Database, WalUsed, FreshRows, RowsSeen, Seen
  <2>2. SumsSeen'
    <3> SUFFICES ASSUME NEW m \in Compared, NEW k \in Key
                 PROVE  \E r \in used[k] :
                          r.digest = sums'[m][k] /\ r.ver <= Seen(Owner[k], m)
      BY <1>2 DEF SumsSeen, Seen
    <3>1. CASE m = n
      <4>1. sums'[m][k] = db[m][k].digest
        BY <1>1, <1>2, <3>1 DEF TypeOK, Digests
      <4>2. m \in Node
        BY <1>1, SeenNat
      <4> QED
        BY <4>1, <4>2 DEF Complete, Database, RowsSeen
    <3>2. CASE m # n
      <4>1. sums'[m] = sums[m]
        BY <1>1, <1>2, <3>2 DEF TypeOK
      <4> QED
        BY <4>1 DEF Complete, Database, SumsSeen
    <3> QED
      BY <3>1, <3>2
  <2> QED
    BY <1>1, <2>1, <2>2 DEF Database
<1>4. \/ phase' = "running"
      \/ phase' = "localizing" /\ unread' = Compared
      \/ phase' = "done" /\ (DifferCount(sums') = 0 \/ ~Keyed)
  BY <1>2 DEF Checksum
<1>5. Course'
  BY <1>2, <1>4, ReadCourse DEF Complete, Course
<1>6. Samples'
  BY <1>4 DEF Samples
<1>7. AllRecorded'
  <2>1. ASSUME DifferCount(sums') = 0, NEW p \in Peer
        PROVE  sums'[p] = sums'[Local]
    <3> DEFINE D == {q \in Peer : sums'[q] # sums'[Local]}
    <3>1. IsFiniteSet(D)
      BY FS_Subset
    <3>2. D = {}
      BY <2>1, <3>1, FS_EmptySet DEF DifferCount
    <3> QED
      BY <3>2
  <2>2. Peer \subseteq Compared
    BY DEF Compared
  <2> QED
    BY <1>4, <2>1, <2>2 DEF AllRecorded, Recorded, Persists
<1> QED
  BY <1>3, <1>5, <1>6, <1>7 DEF Complete

\* With room for every key, every key that differs is reported.
LEMMA AllReported ==
  ASSUME IsFiniteSet(Key), Cardinality(Key) <= MaxReported,
         NEW S \in SUBSET Key
  PROVE  Reported(S) = S
<1> SUFFICES ASSUME NEW k \in S PROVE Cardinality({j \in S : j < k}) < MaxReported
  BY DEF Reported
<1> DEFINE B == {j \in S : j < k}
<1>1. k \notin B
  BY ConstantsAssumption
<1>2. B \subseteq Key /\ B # Key
  BY <1>1
<1>3. IsFiniteSet(B) /\ Cardinality(B) <= Cardinality(Key)
      /\ (Cardinality(B) = Cardinality(Key) => B = Key)
  BY <1>2, FS_Subset
<1>4. Cardinality(B) \in Nat /\ Cardinality(Key) \in Nat
  BY <1>3, FS_CardinalityType
<1> QED
  BY <1>2, <1>3, <1>4, ConstantsAssumption

\* Reading a sample of n keeps the sample true to the checksums.
LEMMA SampleFaithful ==
  ASSUME TypeOK, NEW n \in Compared, NEW m \in Compared,
         cur' = [cur EXCEPT ![n] = db[n]], UNCHANGED <<db, sums>>,
         m = n \/ Faithful(cur, m)
  PROVE  Faithful(cur, m)'
<1>1. cur'[m] = IF m = n THEN db[n] ELSE cur[m]
  BY DEF TypeOK
<1> QED
  BY <1>1 DEF Faithful, Moved

LEMMA LocalizeComplete ==
  ASSUME Complete, IsFiniteSet(Key), Cardinality(Key) <= MaxReported,
         NEW n \in Compared, Localize(n)
  PROVE  Complete'
<1>1. TypeOK /\ TypeOK'
  BY NextType DEF Complete, Database, Next, Coordinator, Progress
<1>2. /\ phase = "localizing" /\ CanRead(n)
      /\ cur' = [cur EXCEPT ![n] = db[n]]
      /\ unread' = IF unread = {n} THEN Compared ELSE unread \ {n}
      /\ div' = [p \in Peer |->
                   IF p # n THEN div[p]
                   ELSE [k \in Key |-> IF k \in Candidates(cur', n)
                                       THEN "candidate" ELSE "none"]]
      /\ \/ unread # {n} /\ UNCHANGED <<phase, prev>>
         \/ unread = {n} /\ phase' = "deciding" /\ prev' = cur'
      /\ UNCHANGED <<envVars, sums, pass, db>>
  BY DEF Localize, envVars
<1>3. Database' /\ \A m \in Compared, k \in Key : Moved(m, k)' <=> Moved(m, k)
  BY <1>1, <1>2, DatabaseKept DEF Complete
<1>4. \A p \in Peer, k \in Key : Persists(p, k)' <=> Persists(p, k)
  BY <1>2, <1>3, PersistsKept
<1>5. \A m \in Compared : m \notin unread \/ m = n => Faithful(cur, m)'
  BY <1>1, <1>2, SampleFaithful DEF Complete, Samples
<1>6. Samples'
  <2>1. CASE unread # {n}
    <3>1. \A m \in Compared \ unread' : m \notin unread \/ m = n
      BY <1>2, <2>1
    <3> QED
      BY <1>2, <1>5, <2>1, <3>1 DEF Samples
  <2>2. CASE unread = {n}
    <3>1. \A m \in Compared : Faithful(cur, m)'
      BY <1>5, <2>2
    <3>2. prev' = cur'
      BY <1>2, <2>2
    <3>3. \A m \in Compared : Faithful(prev, m)'
      BY <3>1, <3>2 DEF Faithful
    <3> QED
      BY <1>2, <2>2, <3>1, <3>3 DEF Samples
  <2> QED
    BY <2>1, <2>2
<1>7. Course'
  <2>1. Local \in unread' => unread' = Compared
    BY <1>2, ReadCourse DEF Complete
  <2> QED
    BY <1>2, <2>1 DEF Complete, Course
<1>8. ASSUME NEW p \in Peer, p \notin unread \/ p = n, NEW k \in Key, Persists(p, k)
      PROVE  div'[p][k] = "candidate"
  <2>1. p \in Compared /\ Local \in Compared /\ p # Local
    BY ConstantsAssumption DEF Compared
  <2>2. CASE p # n
    <3>1. div[p][k] = "candidate"
      BY <1>2, <1>8, <2>2 DEF Complete, AllRecorded, Recorded
    <3> QED
      BY <1>2, <2>2, <3>1
  <2>3. CASE p = n
    <3>1. Faithful(cur, Local)' /\ Faithful(cur, p)'
      BY <1>2, <1>5, <2>1, <2>3 DEF CanRead
    <3>2. cur'[Local][k].digest = sums[Local][k] /\ cur'[p][k].digest = sums[p][k]
      BY <1>2, <1>3, <1>8, <2>1, <3>1 DEF Faithful, Persists
    <3>3. k \in {j \in Key : cur'[Local][j].digest # cur'[p][j].digest}
      BY <1>8, <3>2 DEF Persists
    <3>4. k \in Candidates(cur', p)
      BY <3>3, AllReported DEF Candidates
    <3> QED
      BY <1>2, <2>3, <3>4
  <2> QED
    BY <2>2, <2>3
<1>9. AllRecorded'
  <2> SUFFICES ASSUME NEW p \in Peer, NEW k \in Key, Persists(p, k)
               PROVE  Recorded(p, k)'
    BY <1>4 DEF AllRecorded
  <2>1. CASE unread # {n}
    <3>1. p \notin unread' => p \notin unread \/ p = n
      BY <1>2, <2>1
    <3> QED
      BY <1>2, <1>8, <2>1, <3>1 DEF Recorded
  <2>2. CASE unread = {n}
    <3>1. div'[p][k] = "candidate"
      BY <1>8, <2>2
    <3>2. phase' = "deciding" /\ pass' = 0
      BY <1>2, <2>2 DEF Complete, Course
    <3> QED
      BY <3>1, <3>2 DEF Recorded
  <2> QED
    BY <2>1, <2>2
<1> QED
  BY <1>3, <1>6, <1>7, <1>9 DEF Complete

LEMMA ResampleComplete ==
  ASSUME Complete, NEW n \in Compared, Resample(n)
  PROVE  Complete'
<1>1. TypeOK /\ TypeOK'
  BY NextType DEF Complete, Database, Next, Coordinator, Progress
<1>2. /\ phase = "resampling" /\ CanRead(n)
      /\ cur' = [cur EXCEPT ![n] = db[n]]
      /\ unread' = IF unread = {n} THEN Compared ELSE unread \ {n}
      /\ div' = [p \in Peer |->
                   IF p # n THEN div[p]
                   ELSE [k \in Key |-> IF div[p][k] = "candidate"
                                       THEN Resolved(prev, cur', p, k)
                                       ELSE div[p][k]]]
      /\ \/ unread # {n} /\ UNCHANGED <<phase, prev>>
         \/ unread = {n} /\ phase' = "deciding" /\ prev' = cur'
      /\ UNCHANGED <<envVars, sums, pass, db>>
  BY DEF Resample, envVars
<1>3. Database' /\ \A m \in Compared, k \in Key : Moved(m, k)' <=> Moved(m, k)
  BY <1>1, <1>2, DatabaseKept DEF Complete
<1>4. /\ \A p \in Peer, k \in Key : Persists(p, k)' <=> Persists(p, k)
      /\ UNCHANGED prev => \A m \in Compared : Faithful(prev, m)' <=> Faithful(prev, m)
  BY <1>2, <1>3, PersistsKept
<1>5. \A m \in Compared : Faithful(cur, m)' /\ Faithful(prev, m)
  BY <1>1, <1>2, SampleFaithful DEF Complete, Samples
<1>6. Samples'
  <2>1. CASE unread # {n}
    BY <1>2, <1>4, <1>5, <2>1 DEF Samples
  <2>2. CASE unread = {n}
    <3>1. prev' = cur' /\ phase' = "deciding"
      BY <1>2, <2>2
    <3>2. \A m \in Compared : Faithful(prev, m)'
      BY <1>5, <3>1 DEF Faithful
    <3> QED
      BY <1>5, <3>1, <3>2 DEF Samples
  <2> QED
    BY <2>1, <2>2
<1>7. Course'
  <2>1. Local \in unread' => unread' = Compared
    BY <1>2, ReadCourse DEF Complete
  <2> QED
    BY <1>2, <2>1 DEF Complete, Course
<1>8. ASSUME NEW p \in Peer, NEW k \in Key, Persists(p, k)
      PROVE  /\ div'[p][k] \in {"candidate", "confirmed"}
             /\ p \notin unread \/ p = n => div'[p][k] = "confirmed"
  <2>1. p \in Compared /\ Local \in Compared
    BY DEF Compared
  <2>2. Recorded(p, k)
    BY <1>8 DEF Complete, AllRecorded
  <2>3. CASE p # n
    BY <1>2, <2>2, <2>3 DEF Recorded
  <2>4. CASE p = n /\ div[p][k] = "confirmed"
    BY <1>2, <2>4
  <2>5. CASE p = n /\ div[p][k] = "candidate"
    <3>1. /\ cur'[Local][k].digest = sums[Local][k]
          /\ cur'[p][k].digest = sums[p][k]
      BY <1>2, <1>3, <1>5, <1>8, <2>1 DEF Faithful, Persists
    <3>2. /\ prev[Local][k].digest = sums[Local][k]
          /\ prev[p][k].digest = sums[p][k]
      BY <1>5, <1>8, <2>1 DEF Faithful, Persists
    <3>3. sums[Local][k] # sums[p][k]
      BY <1>8 DEF Persists
    <3>4. Outcome(prev[Local][k].digest, prev[p][k].digest,
                  cur'[Local][k].digest, cur'[p][k].digest) = "still_differs"
      BY <3>1, <3>2, <3>3 DEF Outcome
    <3>5. Resolved(prev, cur', p, k) = "confirmed"
      BY <3>4 DEF Resolved
    <3>6. div'[p][k] = "confirmed"
      BY <1>2, <2>5, <3>5
    <3> QED
      BY <3>6
  <2> QED
    BY <1>2, <2>2, <2>3, <2>4, <2>5 DEF Recorded
<1>9. AllRecorded'
  <2> SUFFICES ASSUME NEW p \in Peer, NEW k \in Key, Persists(p, k)
               PROVE  Recorded(p, k)'
    BY <1>4 DEF AllRecorded
  <2>1. CASE unread # {n}
    <3>1. p \notin unread' => p \notin unread \/ p = n
      BY <1>2, <2>1
    <3> QED
      BY <1>2, <1>8, <2>1, <3>1 DEF Recorded
  <2>2. CASE unread = {n}
    <3>1. div'[p][k] = "confirmed" /\ phase' = "deciding"
      BY <1>2, <1>8, <2>2
    <3> QED
      BY <3>1 DEF Recorded
  <2> QED
    BY <2>1, <2>2
<1> QED
  BY <1>3, <1>6, <1>7, <1>9 DEF Complete

------------------------------------------------------------------------------

\* G-COMPLETE: with fresh digests and room to report every key, a difference
\* the whole-table checksums saw and that is still there when compare_table is
\* done has been confirmed, whatever the topology, the fences and the load.
THEOREM Completeness ==
  ASSUME FreshDigests, IsFiniteSet(Peer), IsFiniteSet(Key),
         Cardinality(Key) <= MaxReported
  PROVE  Spec => []NoMissedDivergence
<1>1. Complete /\ [Next]_vars => Complete'
  <2> SUFFICES ASSUME Complete, [Next]_vars PROVE Complete'
    OBVIOUS
  <2>1. CASE Environment
    BY <2>1, EnvironmentComplete
  <2>2. CASE Coordinator
    <3>1. ASSUME NEW n \in Compared, Checksum(n) \/ Localize(n) \/ Resample(n)
          PROVE  Complete'
      BY <3>1, ChecksumComplete, LocalizeComplete, ResampleComplete
    <3> QED
      BY <2>2, <3>1, ControlComplete DEF Coordinator, Progress
  <2>3. CASE UNCHANGED vars
    <3>1. UNCHANGED <<db, wal, applied, used, phase, unread, sums, cur, prev,
                      div, pass>>
      BY <2>3 DEF vars, envVars, readVars
    <3>2. UNCHANGED <<envVars, sums>>
      BY <2>3 DEF vars, readVars
    <3>3. TypeOK'
      BY NextType DEF Complete, Database
    <3>4. Database' /\ \A n \in Compared, k \in Key : Moved(n, k)' <=> Moved(n, k)
      BY <3>2, <3>3, DatabaseKept DEF Complete
    <3>5. /\ \A p \in Peer, k \in Key : Persists(p, k)' <=> Persists(p, k)
          /\ \A n \in Compared : Faithful(cur, n)' <=> Faithful(cur, n)
          /\ \A n \in Compared : Faithful(prev, n)' <=> Faithful(prev, n)
      BY <3>1, <3>4, PersistsKept
    <3> QED
      BY <3>1, <3>4, <3>5
         DEF Complete, Samples, Course, AllRecorded, Recorded
  <2> QED
    BY <2>1, <2>2, <2>3 DEF Next
<1>2. Complete => NoMissedDivergence
  <2> SUFFICES ASSUME Complete, phase = "done", Keyed, NEW p \in Peer, NEW k \in Key,
                      sums[Local][k] # sums[p][k],
                      db[Local][k].digest = sums[Local][k],
                      db[p][k].digest = sums[p][k]
               PROVE  div[p][k] = "confirmed"
    BY DEF NoMissedDivergence
  <2>1. Persists(p, k)
    BY DEF Persists, Moved
  <2> QED
    BY <2>1 DEF Complete, AllRecorded, Recorded
<1> QED
  BY <1>1, <1>2, CompleteInit, PTL DEF Spec

\* The verdict "match" stands only over a finished comparison that has
\* confirmed nothing.
MatchIsLast == verdict = "match" => phase = "done" /\ ~Has("confirmed")

LEMMA NextMatch ==
  ASSUME Orderly, MatchIsLast, [Next]_vars
  PROVE  MatchIsLast'
<1>1. CASE UNCHANGED <<phase, div, verdict>>
  BY <1>1 DEF MatchIsLast, Has
<1>2. CASE \E n \in Compared : Checksum(n)
  BY <1>2 DEF Checksum, MatchIsLast, Has, Orderly, NothingYet, VerdictLast
<1>3. CASE Conclude
  BY <1>3 DEF Conclude, MatchIsLast, Has
<1>4. CASE RunFails
  BY <1>4 DEF RunFails, MatchIsLast
<1>5. CASE \/ \E n \in Compared : Localize(n) \/ Resample(n)
           \/ \E e \in HubEdges : InjectBarrier(e) \/ Converge(e)
           \/ BeginRecheck
  <2>1. UNCHANGED verdict /\ phase \notin {"done", "failed"}
    BY <1>5 DEF Localize, Resample, InjectBarrier, Converge, BeginRecheck, Fencing
  <2> QED
    BY <2>1 DEF MatchIsLast
<1>6. CASE Environment
  BY <1>1, <1>6 DEF Environment, Write, Apply, DriftAt
<1> QED
  BY <1>1, <1>2, <1>3, <1>4, <1>5, <1>6 DEF Next, Coordinator, Progress, vars

\* The report limit is the only way to a false "match" of a table with a key:
\* with room to report every key, compare_table never says "match" over a
\* difference that has stayed.
THEOREM MatchIsTrue ==
  ASSUME Keyed, FreshDigests, IsFiniteSet(Peer), IsFiniteSet(Key),
         Cardinality(Key) <= MaxReported
  PROVE  Spec => []NoFalseMatch
<1>1. Init => MatchIsLast
  BY DEF Init, MatchIsLast
<1>2. NoMissedDivergence /\ MatchIsLast => NoFalseMatch
  BY DEF NoMissedDivergence, MatchIsLast, NoFalseMatch, Has
<1> QED
  BY <1>1, <1>2, InitOrderly, NextOrderly, NextMatch, Completeness, PTL DEF Spec
==============================================================================
