------------------------------ MODULE Repair_proofs ------------------------------
(***************************************************************************)
(* Proofs about Repair, for any participants, tables, contracts and number *)
(* of writes: type correctness, what the statements write, what is         *)
(* committed, what the records say and what the revalidation means.        *)
(***************************************************************************)
EXTENDS Repair, FiniteSetTheorems, TLAPS

(* Functions on some of the keys. *)

LEMMA OnKeysIntro ==
  ASSUME NEW S, NEW K \in SUBSET Key, NEW f \in [K -> S]
  PROVE  f \in OnKeys(S)
BY DEF OnKeys

LEMMA OnKeysElim ==
  ASSUME NEW S, NEW f \in OnKeys(S)
  PROVE  /\ DOMAIN f \subseteq Key
         /\ \A k \in DOMAIN f : f[k] \in S
<1>1. PICK K \in SUBSET Key : f \in [K -> S]
  BY DEF OnKeys
<1> QED
  BY <1>1

LEMMA NoRowsType == NoRows \in OnKeys(Image)
<1>1. NoRows \in [{} -> Image]
  BY DEF NoRows
<1> QED
  BY <1>1, OnKeysIntro

LEMMA NoRowsDomain == DOMAIN NoRows = {}
BY DEF NoRows

LEMMA RowBatchType ==
  ASSUME TypeOK, NEW a \in Node, NEW t \in Node
  PROVE  /\ RowBatch(a, t) \in OnKeys(Image)
         /\ DOMAIN RowBatch(a, t) = Repaired(a, t)
<1>1. Repaired(a, t) \in SUBSET Key
  BY DEF Repaired
<1>2. \A k \in Repaired(a, t) : Source(a, Edge(a, t), k) \in Image
  BY <1>1, RepairAssumption DEF TypeOK, Table, Source
<1>3. RowBatch(a, t) \in [Repaired(a, t) -> Image]
  BY <1>2 DEF RowBatch
<1> QED
  BY <1>1, <1>3, OnKeysIntro

\* A key of the target is an image or absent.
LEMMA TargetType ==
  ASSUME TypeOK, NEW k \in Key
  PROVE  Target(k) \in Image
<1>1. k \in DOMAIN pending => pending[k] \in Image
  BY OnKeysElim DEF TypeOK
<1>2. rows[call.target][k] \in Image
  BY DEF TypeOK, Table
<1> QED
  BY <1>1, <1>2 DEF Target

------------------------------------------------------------------------------
(* Type correctness. *)

LEMMA InitType == Init => TypeOK
<1> SUFFICES ASSUME Init PROVE TypeOK
  OBVIOUS
<1>1. seen \in Table
  BY RepairAssumption DEF Init
<1>2. options.last \in [Node -> Nat]
  BY RepairAssumption DEF Init
<1>3. confirmed \subseteq Peer \X Key
  BY DEF Init, Confirmable, Divergent
<1>4. call \in [authoritative : Node, target : Node, propagation : Propagation]
  BY RepairAssumption DEF Init, NoCall, Propagation
<1>5. sample \in [Key -> Image]
  BY <1>1, RepairAssumption DEF Init, Table
<1>6. writes \in 0..MaxWrites
  BY RepairAssumption DEF Init
<1> QED
  BY <1>1, <1>2, <1>3, <1>4, <1>5, <1>6, NoRowsType DEF Init, TypeOK, Status

LEMMA CallType ==
  ASSUME TypeOK, NEW a \in Node, NEW t \in Node, NEW mode \in Propagation, Call(a, t, mode)
  PROVE  TypeOK'
<1>1. call' \in [authoritative : Node, target : Node, propagation : Propagation]
  BY DEF Call
<1>2. batch' \in OnKeys(Image)
  BY RowBatchType DEF Call, Start, TypeOK
<1>3. setval' \in BOOLEAN
  BY DEF Call, Start, TypeOK, SetvalDue
<1>4. repair_run' \in Status /\ pc' \in {"lock", "setval", "return"}
  BY DEF Call, Start, Goto, Status
<1> QED
  BY <1>1, <1>2, <1>3, <1>4
     DEF Call, TypeOK, run, database, locks, reading, history

LEMMA WriteType ==
  ASSUME TypeOK, Write
  PROVE  TypeOK'
<1>1. DOMAIN batch \subseteq Key /\ \A k \in DOMAIN batch : batch[k] \in Image
  BY OnKeysElim DEF TypeOK
<1>2. Affected \in SUBSET Key
  BY <1>1 DEF Affected
<1>3. pending' \in [Affected -> Image]
  BY <1>1, <1>2 DEF Write, Affected
<1>4. pending' \in OnKeys(Image)
  BY <1>2, <1>3, OnKeysIntro
<1>5. held' \subseteq Key
  BY <1>2 DEF Write, TypeOK
<1> QED
  BY <1>4, <1>5 DEF Write, TypeOK, Goto, run, database, request, audit, reading, history

LEMMA CommitType ==
  ASSUME TypeOK, CommitRows
  PROVE  /\ rows' \in Table
         /\ committed' \in BOOLEAN
         /\ open' \in BOOLEAN
         /\ held' \subseteq Key
         /\ pending' \in OnKeys(Image)
<1>1. [k \in Key |-> Target(k)] \in [Key -> Image]
  BY TargetType
<1>2. rows' \in Table
  BY <1>1 DEF CommitRows, TypeOK, Table
<1> QED
  BY <1>2, NoRowsType DEF CommitRows, Release, TypeOK

\* The revalidation only reads: nothing is written, in no database.
LEMMA OnlyReads ==
  ASSUME Revalidating
  PROVE  /\ UNCHANGED <<run, database, request, locks, saved, history>>
         /\ UNCHANGED repair_result
         /\ pc \in Rereading
         /\ pc' \in (Rereading \ {"read_local"}) \cup {"return"}
         /\ pc # "finish" => UNCHANGED repair_run
<1> USE DEF Rereading, Rechecking, TableRead, AfterTable, Goto, audit
<1>1. CASE ReadLocal \/ RecheckLocal \/ RecheckPeer
  BY <1>1 DEF ReadLocal, RecheckLocal, RecheckPeer
<1>2. CASE ReadPeer
  BY <1>2 DEF ReadPeer, Look
<1>3. CASE TableStillDiffers \/ SequenceStillDiffers
  BY <1>3 DEF TableStillDiffers, SequenceStillDiffers
<1>4. CASE ReadProvider \/ ReadSubscriber \/ FinishRun
  BY <1>4 DEF ReadProvider, ReadSubscriber, FinishRun
<1> QED
  BY <1>1, <1>2, <1>3, <1>4 DEF Revalidating

LEMMA VisibleType ==
  ASSUME TypeOK, NEW n \in Node, NEW k \in Key
  PROVE  Visible(n, k) \in Image
BY TargetType DEF Visible, TypeOK, Table

LEMMA RevalidatingType ==
  ASSUME TypeOK, Revalidating
  PROVE  TypeOK'
<1>1. UNCHANGED <<run, database, request, locks, saved, history, repair_result>>
  BY OnlyReads
<1>2. pc' \in {"read_peer", "recheck_local", "recheck_peer", "read_provider",
               "read_subscriber", "finish", "return"}
  BY OnlyReads DEF Rereading, Rechecking, TableRead
<1>3. UNCHANGED <<seen, options, confirmed, rows, last, writes, call, batch, setval, open, held,
                  pending, saved, committed, touched, repair_result>>
  BY <1>1 DEF run, database, request, locks, history
<1>4. SUFFICES /\ sample' \in [Key -> Image]
               /\ found' \subseteq Key /\ omitted' \subseteq Key /\ candidates' \subseteq Key
               /\ provider' \in Nat
               /\ still_differs' \subseteq {"table", "sequence"}
               /\ repair_run' \in Status
  BY <1>2, <1>3, <1>4 DEF TypeOK
<1> USE DEF TypeOK, audit
<1>5. CASE ReadLocal \/ RecheckLocal
  <2>1. sample' = [k \in Key |-> Visible(Local, k)]
    BY <1>5 DEF ReadLocal, RecheckLocal
  <2>2. sample' \in [Key -> Image]
    BY <2>1, VisibleType, RepairAssumption
  <2> QED
    BY <1>5, <2>2 DEF ReadLocal, RecheckLocal
<1>6. CASE ReadPeer
  <2>1. PICK R \in Recordable(options.max_reported, found') :
          /\ omitted' = found' \ R
          /\ candidates' \subseteq R
    BY <1>6 DEF ReadPeer, Look
  <2>2. found' \subseteq Key /\ R \subseteq found'
    BY <1>6, <2>1 DEF ReadPeer, Look, Differing, Recordable
  <2> QED
    BY <1>6, <2>1, <2>2 DEF ReadPeer, Look
<1>7. CASE RecheckPeer
  BY <1>7 DEF RecheckPeer
<1>8. CASE TableStillDiffers \/ SequenceStillDiffers
  BY <1>8 DEF TableStillDiffers, SequenceStillDiffers, reading
<1>9. CASE ReadProvider
  BY <1>9, RepairAssumption DEF ReadProvider
<1>10. CASE ReadSubscriber \/ FinishRun
  BY <1>10 DEF ReadSubscriber, FinishRun, reading, Status
<1> QED
  BY <1>5, <1>6, <1>7, <1>8, <1>9, <1>10 DEF Revalidating

LEMMA SetTargetType ==
  ASSUME TypeOK, SetTarget
  PROVE  last' \in [Node -> Nat]
BY RepairAssumption DEF TypeOK, SetTarget

LEMMA NextType ==
  ASSUME TypeOK, [Next]_vars
  PROVE  TypeOK'
<1> USE DEF TypeOK, Goto, AfterTable, run, database, request, locks, audit, reading, history
<1>1. ASSUME NEW a \in Node, NEW t \in Node, NEW mode \in Propagation, Call(a, t, mode)
      PROVE  TypeOK'
  BY <1>1, CallType
<1>2. CASE Lock
  <2>1. held' \subseteq Key
    BY <1>2, OnKeysElim DEF Lock
  <2> QED
    BY <1>2, <2>1 DEF Lock
<1>3. CASE Write
  BY <1>3, WriteType
<1>4. CASE Verify
  BY <1>4 DEF Verify
<1>5. CASE CommitBatch
  BY <1>5, CommitType DEF CommitBatch
<1>6. CASE SetSequence
  BY <1>6, SetTargetType DEF SetSequence
<1>7. CASE Results
  <2>1. repair_result' \subseteq Key \cup {Sequence}
    BY <1>7, OnKeysElim DEF Results
  <2> QED
    BY <1>7, <2>1 DEF Results
<1>8. CASE Revalidating
  BY <1>8, RevalidatingType
<1>11. CASE Fail
  BY <1>11, NoRowsType DEF Fail, Release, Status
<1>12. CASE CommitUnanswered
  BY <1>12, CommitType DEF CommitUnanswered, Status
<1>13. CASE SetvalUnanswered
  BY <1>13, NoRowsType, SetTargetType DEF SetvalUnanswered, Release, Status
<1>14. CASE CallerCommits
  BY <1>14, CommitType DEF CallerCommits
<1>15. CASE CallerAborts
  BY <1>15, NoRowsType DEF CallerAborts, Release, Status
<1>16. ASSUME NEW n \in Node, NEW k \in Key, NEW row \in Image, Change(n, k, row)
       PROVE  TypeOK'
  <2>1. rows' \in Table
    BY <1>16 DEF Change, Table
  <2>2. writes' \in 0..MaxWrites
    BY <1>16, RepairAssumption DEF Change
  <2>3. touched' \subseteq Node \X (Key \cup {Sequence})
    BY <1>16 DEF Change
  <2> QED
    BY <1>16, <2>1, <2>2, <2>3 DEF Change
<1>9. ASSUME NEW n \in Node, Nextval(n)
      PROVE  TypeOK'
  <2>1. last' \in [Node -> Nat] /\ touched' \subseteq Node \X (Key \cup {Sequence})
    BY <1>9 DEF Nextval
  <2>2. writes' \in 0..MaxWrites
    BY <1>9, RepairAssumption DEF Nextval
  <2> QED
    BY <1>9, <2>1, <2>2 DEF Nextval
<1>17. CASE UNCHANGED vars
  BY <1>17 DEF vars
<1> QED
  BY <1>1, <1>2, <1>3, <1>4, <1>5, <1>6, <1>7, <1>8, <1>9, <1>11, <1>12,
     <1>13, <1>14, <1>15, <1>16, <1>17 DEF Next, Repairing

\* For any participants, tables and contracts, the call keeps its types.
THEOREM TypeCorrect == Spec => []TypeOK
<1>1. TypeOK /\ [Next]_vars => TypeOK'
  BY NextType
<1> QED
  BY <1>1, InitType, PTL DEF Spec
------------------------------------------------------------------------------
(* The inductive invariant, part by part. *)

LEMMA InitInv == Init => IInv
<1> SUFFICES ASSUME Init PROVE IInv
  OBVIOUS
<1>1. TypeOK
  BY InitType
<1>2. Planned /\ Transaction /\ Verified /\ Recorded
  BY NoRowsDomain
     DEF Init, Planned, Transaction, Verified, Recorded, Writing, Rereading, Rechecking,
         TableRead, InTransaction, NoCall, Confirmable
<1>3. Reread /\ SequenceReread /\ RevalidatedAgrees
  BY DEF Init, Reread, SequenceReread, RevalidatedAgrees, Rechecking, TableRead
<1> QED
  BY <1>1, <1>2, <1>3 DEF IInv

\* What all steps but the call leave alone.
LEMMA SameRequest ==
  ASSUME [Next]_vars
  PROVE  /\ UNCHANGED run
         /\ UNCHANGED request \/ pc = "idle"
         /\ pc # "idle" => pc' # "idle"
<1> USE DEF run, request, Goto
<1>1. ASSUME NEW a \in Node, NEW t \in Node, NEW mode \in Propagation, Call(a, t, mode)
      PROVE  UNCHANGED run /\ pc = "idle"
  BY <1>1 DEF Call
<1>2. CASE Lock \/ Write \/ Verify \/ CommitBatch \/ SetSequence \/ Results
  BY <1>2 DEF Lock, Write, Verify, CommitBatch, SetSequence, Results, AfterTable
<1>3. CASE Revalidating
  BY <1>3, OnlyReads DEF Rereading, Rechecking, TableRead
<1>4. CASE Fail \/ CommitUnanswered \/ SetvalUnanswered \/ CallerCommits \/ CallerAborts
  BY <1>4 DEF Fail, CommitUnanswered, SetvalUnanswered, CallerCommits, CallerAborts
<1>5. ASSUME NEW n \in Node, NEW k \in Key, NEW row \in Image, Change(n, k, row)
      PROVE  UNCHANGED run /\ UNCHANGED request /\ UNCHANGED pc
  BY <1>5 DEF Change
<1>6. ASSUME NEW n \in Node, Nextval(n)
      PROVE  UNCHANGED run /\ UNCHANGED request /\ UNCHANGED pc
  BY <1>6 DEF Nextval
<1>7. CASE UNCHANGED vars
  BY <1>7 DEF vars
<1> QED
  BY <1>1, <1>2, <1>3, <1>4, <1>5, <1>6, <1>7 DEF Next, Repairing

\* The plan of a call, which depends on nothing that changes later.
LEMMA SamePlan ==
  ASSUME UNCHANGED run, NEW a, NEW t
  PROVE  /\ RowBatch(a, t)' = RowBatch(a, t)
         /\ Divergent(options, seen)' = Divergent(options, seen)
BY DEF run, RowBatch, Repaired, Edge, RepairTarget, RepairAction, Source, Divergent

LEMMA PlannedInv ==
  ASSUME IInv, [Next]_vars
  PROVE  Planned'
<1>1. UNCHANGED run /\ confirmed' \subseteq Divergent(options, seen)'
  BY SameRequest, SamePlan DEF IInv, Planned, run
<1>2. CASE pc # "idle"
  BY <1>1, <1>2, SameRequest, SamePlan DEF IInv, Planned, request
<1>3. ASSUME NEW a \in Node, NEW t \in Node, NEW mode \in Propagation, Call(a, t, mode)
      PROVE  Planned'
  <2>1. call'.authoritative = a /\ call'.target = t /\ a # t /\ pc' # "idle"
    BY <1>3 DEF Call, Start, Goto
  <2>2. batch' = NoRows \/ batch' = RowBatch(a, t)
    BY <1>3 DEF Call, Start, IInv, Planned
  <2>3. NoRows' = NoRows
    BY DEF NoRows
  <2> QED
    BY <1>1, <2>1, <2>2, <2>3, SamePlan DEF Planned
<1>4. ASSUME NEW n \in Node, NEW k \in Key, NEW row \in Image, Change(n, k, row), pc = "idle"
      PROVE  Planned'
  BY <1>1, <1>4, SamePlan DEF Change, request, IInv, Planned
<1>5. ASSUME NEW n \in Node, Nextval(n), pc = "idle"
      PROVE  Planned'
  BY <1>1, <1>5, SamePlan DEF Nextval, request, IInv, Planned
<1>6. CASE UNCHANGED vars
  BY <1>1, <1>6, SamePlan DEF vars, request, IInv, Planned
<1>7. ASSUME Next, pc = "idle"
      PROVE  \/ \E a, t \in Node, mode \in Propagation : Call(a, t, mode)
             \/ \E n \in Node, k \in Key, row \in Image : Change(n, k, row)
             \/ \E n \in Node : Nextval(n)
  <2>1. ~ Revalidating
    BY <1>7, OnlyReads DEF Rereading, Rechecking, TableRead
  <2> QED
    BY <1>7, <2>1 DEF Next, Repairing, Lock, Write, Verify, CommitBatch, SetSequence, Results,
       Fail, CommitUnanswered, SetvalUnanswered, CallerCommits, CallerAborts
<1> QED
  BY <1>2, <1>3, <1>4, <1>5, <1>6, <1>7

LEMMA TransactionInv ==
  ASSUME IInv, [Next]_vars
  PROVE  Transaction'
<1> USE NoRowsDomain
    DEF IInv, Transaction, Writing, Rereading, Rechecking, TableRead, AfterTable, Goto,
        InTransaction, request, locks
<1>1. ASSUME NEW a \in Node, NEW t \in Node, NEW mode \in Propagation, Call(a, t, mode)
      PROVE  Transaction'
  BY <1>1 DEF Call, Start, history
<1>2. CASE Lock
  BY <1>2 DEF Lock, history
<1>3. CASE Write
  <2>1. DOMAIN pending' = Affected
    BY <1>3 DEF Write
  <2> QED
    BY <1>3, <2>1 DEF Write, history
<1>4. CASE Verify
  BY <1>4 DEF Verify
<1>5. CASE CommitBatch
  BY <1>5 DEF CommitBatch, CommitRows, Release
<1>6. CASE SetSequence
  BY <1>6 DEF SetSequence, history
<1>7. CASE Results
  BY <1>7 DEF Results, history
<1>8. CASE Revalidating
  BY <1>8, OnlyReads DEF history
<1>9. ASSUME NEW n \in Node, Nextval(n)
      PROVE  Transaction'
  BY <1>9 DEF Nextval
<1>10. CASE Fail
  BY <1>10 DEF Fail, Release, history
<1>11. CASE CommitUnanswered
  BY <1>11 DEF CommitUnanswered, CommitRows, Release
<1>12. CASE SetvalUnanswered
  BY <1>12 DEF SetvalUnanswered, Release, history
<1>13. CASE CallerCommits
  BY <1>13 DEF CallerCommits, CommitRows, Release
<1>14. CASE CallerAborts
  BY <1>14 DEF CallerAborts, Release, history
<1>15. ASSUME NEW n \in Node, NEW k \in Key, NEW row \in Image, Change(n, k, row)
       PROVE  Transaction'
  BY <1>15 DEF Change
<1>16. CASE UNCHANGED vars
  BY <1>16 DEF vars
<1> QED
  BY <1>1, <1>2, <1>3, <1>4, <1>5, <1>6, <1>7, <1>8, <1>9, <1>10, <1>11, <1>12,
     <1>13, <1>14, <1>15, <1>16 DEF Next, Repairing

\* How the target reads before and after a step.
LEMMA SameTarget ==
  ASSUME UNCHANGED <<rows, pending, call>>, NEW k
  PROVE  Target(k)' = Target(k)
BY DEF Target

LEMMA CommitTarget ==
  ASSUME TypeOK, CommitRows, UNCHANGED call, NEW k \in Key
  PROVE  /\ Target(k)' = Target(k)
         /\ \A n \in Node : n # call.target => rows'[n] = rows[n]
<1>1. rows'[call.target][k] = Target(k)
  BY DEF CommitRows, TypeOK, Table
<1>2. pending' = NoRows
  BY DEF CommitRows, Release
<1>3. Target(k)' = rows'[call.target][k]
  BY <1>2, NoRowsDomain DEF Target
<1> QED
  BY <1>1, <1>3 DEF CommitRows, TypeOK, Table

\* Giving up what is open changes nothing that is committed.
LEMMA ReleaseTarget ==
  ASSUME Transaction, ~ open, Release, UNCHANGED <<rows, call>>, NEW k
  PROVE  Target(k)' = Target(k)
<1>1. pending' = pending
  BY DEF Transaction, Release
<1> QED
  BY <1>1 DEF Target

\* A write elsewhere leaves a key as it is.
LEMMA ChangeTarget ==
  ASSUME TypeOK, NEW n \in Node, NEW c \in Key, NEW row \in Image, Change(n, c, row),
         NEW m \in Node, NEW k \in Key, <<m, k>> \notin touched'
  PROVE  /\ rows'[m][k] = rows[m][k]
         /\ <<m, k>> \notin touched
BY DEF Change, TypeOK, Table

LEMMA VerifiedInv ==
  ASSUME IInv, [Next]_vars
  PROVE  Verified'
<1>0. TypeOK /\ Transaction /\ Verified
  BY DEF IInv
<1>k. DOMAIN batch \subseteq Key
  BY <1>0, OnKeysElim DEF TypeOK
<1> USE DEF Verified, Goto, request, locks, history
<1>1. ASSUME NEW a \in Node, NEW t \in Node, NEW mode \in Propagation, Call(a, t, mode)
      PROVE  Verified'
  BY <1>0, <1>1 DEF Call, Transaction, Rereading, Rechecking, TableRead
<1>2. CASE Lock
  BY <1>0, <1>2 DEF Lock, Transaction, Rereading, Rechecking, TableRead, Writing
<1>3. CASE Write
  BY <1>0, <1>3 DEF Write, Transaction, Writing
<1>4. CASE Verify
  <2>1. \A k : Target(k)' = Target(k)
    BY <1>4, SameTarget DEF Verify, database
  <2> QED
    BY <1>4, <2>1 DEF Verify
<1>5. CASE CommitBatch \/ CommitUnanswered
  <2>1. \A k \in DOMAIN batch : Target(k)' = Target(k)
    BY <1>0, <1>k, <1>5, CommitTarget DEF CommitBatch, CommitUnanswered
  <2>2. open /\ pc # "verify"
    BY <1>0, <1>5 DEF CommitBatch, CommitUnanswered, Transaction
  <2> QED
    BY <1>0, <1>5, <2>1, <2>2 DEF CommitBatch, CommitUnanswered
<1>6. CASE CallerCommits
  <2>1. \A k \in DOMAIN batch : Target(k)' = Target(k)
    BY <1>0, <1>k, <1>6, CommitTarget DEF CallerCommits
  <2>2. committed' \/ open' => committed \/ (open /\ pc # "verify")
    BY <1>6 DEF CallerCommits, CommitRows, Release
  <2> QED
    BY <1>0, <1>6, <2>1, <2>2 DEF CallerCommits
<1>7. CASE SetSequence
  <2>1. /\ UNCHANGED <<rows, pending, call, batch, open, committed>> /\ pc # "verify"
        /\ touched' = touched \ (Node \X {Sequence})
    BY <1>7 DEF SetSequence
  <2>2. \A k \in DOMAIN batch : <<call.target, k>> \notin touched' => <<call.target, k>> \notin touched
    BY <1>k, <2>1, RepairAssumption
  <2> QED
    BY <1>0, <2>1, <2>2, SameTarget
<1>8. CASE Results \/ Revalidating
  <2>1. UNCHANGED <<rows, pending, call, batch, touched, open, committed>> /\ pc # "verify"
    BY <1>8, OnlyReads DEF Results, database, Rereading, Rechecking, TableRead
  <2> QED
    BY <1>0, <2>1, SameTarget
<1>9. CASE Fail \/ SetvalUnanswered \/ CallerAborts
  <2>1. Release /\ UNCHANGED <<rows, call, batch, touched, committed>>
    BY <1>9 DEF Fail, SetvalUnanswered, CallerAborts, database
  <2>2. CASE open
    BY <1>0, <2>1, <2>2 DEF Release, Transaction
  <2>3. CASE ~ open
    BY <1>0, <2>1, <2>3, ReleaseTarget DEF Release
  <2> QED
    BY <1>0, <2>2, <2>3 DEF TypeOK
<1>10. ASSUME NEW n \in Node, NEW c \in Key, NEW row \in Image, Change(n, c, row)
       PROVE  Verified'
  <2>1. ASSUME NEW k \in DOMAIN batch, <<call.target, k>> \notin touched'
        PROVE  Target(k)' = Target(k) /\ <<call.target, k>> \notin touched
    <3>1. /\ rows'[call.target][k] = rows[call.target][k]
          /\ <<call.target, k>> \notin touched
      BY <1>0, <1>k, <1>10, <2>1, ChangeTarget DEF TypeOK
    <3> QED
      BY <1>10, <3>1 DEF Change, Target
  <2> QED
    BY <1>0, <1>10, <2>1 DEF Change
<1>11. ASSUME NEW n \in Node, Nextval(n)
       PROVE  Verified'
  <2>1. UNCHANGED <<rows, pending, call, batch, open, committed, pc>> /\ touched \subseteq touched'
    BY <1>11 DEF Nextval
  <2> QED
    BY <1>0, <2>1, SameTarget
<1>12. CASE UNCHANGED vars
  BY <1>0, <1>12, SameTarget DEF vars
<1> QED
  BY <1>1, <1>2, <1>3, <1>4, <1>5, <1>6, <1>7, <1>8, <1>9, <1>10, <1>11, <1>12 DEF Next, Repairing

LEMMA RecordedInv ==
  ASSUME IInv, [Next]_vars
  PROVE  Recorded'
<1>0. TypeOK /\ Transaction /\ Recorded
  BY DEF IInv
<1> USE DEF Recorded, Rereading, Rechecking, TableRead, AfterTable, Goto, request, locks, history,
            InTransaction
<1>1. ASSUME NEW a \in Node, NEW t \in Node, NEW mode \in Propagation, Call(a, t, mode)
      PROVE  Recorded'
  <2>1. ~ open /\ ~ committed /\ saved = "none"
    BY <1>0, <1>1 DEF Call, Transaction, Writing
  <2>2. DOMAIN RowBatch(a, t) = Repaired(a, t)
    BY <1>0, RowBatchType
  <2>3. CASE Raises(a)
    BY <1>1, <2>1, <2>3 DEF Call
  <2>4. CASE ~ Raises(a)
    <3>1. Start(a, t, mode)
      BY <1>1, <2>4 DEF Call
    <3> QED
      BY <1>1, <2>1, <2>2, <3>1 DEF Call, Start
  <2> QED
    BY <2>3, <2>4
<1>2. CASE Lock
  BY <1>0, <1>2 DEF Lock, audit
<1>3. CASE Write
  BY <1>0, <1>3 DEF Write, audit
<1>4. CASE Verify
  BY <1>0, <1>4 DEF Verify, audit, Transaction
<1>5. CASE CommitBatch
  BY <1>0, <1>5 DEF CommitBatch, CommitRows, Release, audit, Transaction
<1>6. CASE SetSequence
  BY <1>0, <1>6 DEF SetSequence, audit
<1>7. CASE Results
  BY <1>0, <1>7 DEF Results
<1>8. ASSUME Revalidating, pc # "finish"
      PROVE  Recorded'
  <2>1. pc' # "return"
    BY <1>8 DEF Revalidating, ReadLocal, ReadPeer, Look, RecheckLocal, RecheckPeer,
         TableStillDiffers, ReadProvider, ReadSubscriber, SequenceStillDiffers, FinishRun
  <2> QED
    BY <1>0, <1>8, <2>1, OnlyReads
<1>9. CASE FinishRun
  BY <1>0, <1>9 DEF FinishRun
<1>10. ASSUME NEW n \in Node, Nextval(n)
       PROVE  Recorded'
  BY <1>0, <1>10 DEF Nextval, audit
<1>11. CASE Fail
  BY <1>0, <1>11 DEF Fail, Release, Transaction
<1>12. CASE CommitUnanswered
  BY <1>0, <1>12 DEF CommitUnanswered, CommitRows, Release, Transaction
<1>13. CASE SetvalUnanswered
  BY <1>0, <1>13 DEF SetvalUnanswered, Release, Transaction
<1>14. CASE CallerCommits
  BY <1>0, <1>14 DEF CallerCommits, CommitRows, Release, audit
<1>15. CASE CallerAborts
  BY <1>0, <1>15 DEF CallerAborts, Release
<1>16. ASSUME NEW n \in Node, NEW k \in Key, NEW row \in Image, Change(n, k, row)
       PROVE  Recorded'
  BY <1>0, <1>16 DEF Change, audit
<1>17. CASE UNCHANGED vars
  BY <1>0, <1>17 DEF vars
<1>18. Revalidating /\ pc = "finish" => FinishRun
  BY DEF Revalidating, ReadLocal, ReadPeer, Look, RecheckLocal, RecheckPeer,
       TableStillDiffers, ReadProvider, ReadSubscriber, SequenceStillDiffers
<1> QED
  BY <1>1, <1>2, <1>3, <1>4, <1>5, <1>6, <1>7, <1>8, <1>9, <1>10, <1>11, <1>12,
     <1>13, <1>14, <1>15, <1>16, <1>17, <1>18 DEF Next, Repairing

\* What the revalidation reads, and reads again.
LEMMA SameVisible ==
  ASSUME UNCHANGED <<rows, pending, call>>, NEW n, NEW k
  PROVE  Visible(n, k)' = Visible(n, k)
BY DEF Visible, InTransaction, Target

LEMMA CallerVisible ==
  ASSUME IInv, CallerCommits, NEW n \in Node, NEW k \in Key
  PROVE  Visible(n, k)' = Visible(n, k)
<1>1. TypeOK /\ Transaction /\ CommitRows /\ pc = "return" /\ UNCHANGED call
  BY DEF IInv, CallerCommits, request
<1>2. Target(k)' = Target(k)
  BY <1>1, CommitTarget
<1>3. n # call.target => rows'[n] = rows[n]
  BY <1>1, CommitTarget
<1>4. rows'[call.target][k] = Target(k)
  BY <1>1 DEF CommitRows, TypeOK, Table
<1>5. ~ InTransaction => Target(k) = rows[call.target][k]
  <2>1. ~ InTransaction => ~ open
    BY <1>1 DEF Transaction
  <2> QED
    BY <1>1, <2>1, NoRowsDomain DEF Transaction, Target
<1>6. InTransaction' <=> InTransaction
  BY <1>1 DEF InTransaction
<1> QED
  BY <1>1, <1>2, <1>3, <1>4, <1>5, <1>6 DEF Visible

\* The peer that is read is never the caller's own target.
LEMMA PeerVisible ==
  ASSUME Planned, pc # "idle", NEW k
  PROVE  Visible(Revalidated, k) = rows[Revalidated][k]
BY DEF Planned, Revalidated, Edge, Visible, InTransaction

\* What has been read is about the same rows after a step as before it.
LEMMA SameReading ==
  ASSUME UNCHANGED <<rows, pending, call, options, touched>>
  PROVE  /\ \A k : Visible(Local, k)' = Visible(Local, k)
         /\ \A k : Agrees(k)' <=> Agrees(k)
         /\ \A k : Untouched(Revalidated, k)' <=> Untouched(Revalidated, k)
<1>1. \A k : /\ Visible(Local, k)' = Visible(Local, k)
             /\ Visible(Revalidated, k)' = Visible(Revalidated, k)
  BY DEF Visible, InTransaction, Target, Revalidated, Edge
<1>2. validated_property' = validated_property
  BY DEF validated_property, Contract
<1> QED
  BY <1>1, <1>2 DEF Agrees, Reported, Differs, Untouched, Revalidated, Edge

\* A write elsewhere leaves the rows that stay untouched as they were.
LEMMA ChangeReading ==
  ASSUME TypeOK, NEW n \in Node, NEW c \in Key, NEW row \in Image, Change(n, c, row), NEW k \in Key
  PROVE  /\ <<Local, k>> \notin touched' =>
              <<Local, k>> \notin touched /\ Visible(Local, k)' = Visible(Local, k)
         /\ Untouched(Revalidated, k)' =>
              Untouched(Revalidated, k) /\ (Agrees(k)' <=> Agrees(k))
<1>n. Local \in Node /\ Revalidated \in Node
  BY RepairAssumption DEF TypeOK, Revalidated, Edge
<1>1. UNCHANGED <<pending, call, options>>
  BY DEF Change, locks, request, run
<1>2. Revalidated' = Revalidated /\ validated_property' = validated_property
  BY <1>1 DEF Revalidated, Edge, validated_property, Contract
<1>3. <<Local, k>> \notin touched' =>
        <<Local, k>> \notin touched /\ Visible(Local, k)' = Visible(Local, k)
  BY <1>n, <1>1, ChangeTarget DEF Visible, InTransaction, Target
<1>4. <<Revalidated, k>> \notin touched' =>
        <<Revalidated, k>> \notin touched /\ Visible(Revalidated, k)' = Visible(Revalidated, k)
  <2>1. <<Revalidated, k>> \notin touched' =>
          <<Revalidated, k>> \notin touched /\ rows'[Revalidated][k] = rows[Revalidated][k]
    BY <1>n, ChangeTarget
  <2> QED
    BY <1>1, <1>2, <2>1 DEF Visible, InTransaction, Target
<1>5. ASSUME Untouched(Revalidated, k)'
      PROVE  Untouched(Revalidated, k) /\ (Agrees(k)' <=> Agrees(k))
  <2>1. <<Local, k>> \notin touched' /\ <<Revalidated, k>> \notin touched'
    BY <1>2, <1>5 DEF Untouched
  <2>2. Untouched(Revalidated, k)
    BY <1>3, <1>4, <2>1 DEF Untouched
  <2>3. Visible(Local, k)' = Visible(Local, k) /\ Visible(Revalidated, k)' = Visible(Revalidated, k)
    BY <1>3, <1>4, <2>1
  <2> QED
    BY <1>2, <2>2, <2>3 DEF Agrees, Reported, Differs
<1> QED
  BY <1>3, <1>5

\* nextval touches no key.
LEMMA NextvalReading ==
  ASSUME NEW n \in Node, Nextval(n), NEW k \in Key
  PROVE  /\ \A m : <<m, k>> \in touched' <=> <<m, k>> \in touched
         /\ Visible(Local, k)' = Visible(Local, k)
         /\ Untouched(Revalidated, k)' <=> Untouched(Revalidated, k)
         /\ Agrees(k)' <=> Agrees(k)
<1>1. UNCHANGED <<rows, pending, call, options>>
  BY DEF Nextval, locks, request, run
<1>2. \A m : <<m, k>> \in touched' <=> <<m, k>> \in touched
  BY RepairAssumption DEF Nextval
<1>3. Revalidated' = Revalidated /\ validated_property' = validated_property
  BY <1>1 DEF Revalidated, Edge, validated_property, Contract
<1>4. /\ Visible(Local, k)' = Visible(Local, k)
      /\ Visible(Revalidated, k)' = Visible(Revalidated, k)
  BY <1>1 DEF Visible, InTransaction, Target, Revalidated, Edge
<1>5. Untouched(Revalidated, k)' <=> Untouched(Revalidated, k)
  BY <1>2, <1>3 DEF Untouched
<1> QED
  BY <1>2, <1>3, <1>4, <1>5 DEF Agrees, Reported, Differs

\* What the first reading of the peer leaves out or keeps as a candidate is all
\* that differs, and it leaves out nothing that there is room for.
LEMMA FirstLook ==
  ASSUME IInv, ReadPeer
  PROVE  /\ \A k \in Key : Untouched(Revalidated, k) =>
                k \in omitted' \cup candidates' \/ Agrees(k)
         /\ Cardinality(found') <= options.max_reported => omitted' = {}
<1>0. /\ Planned /\ Reread /\ pc = "read_peer"
      /\ found' = Differing(validated_property, sample, rows[Revalidated])
  BY DEF IInv, ReadPeer, Look
<1>1. PICK R \in Recordable(options.max_reported, found') :
        /\ omitted' = found' \ R
        /\ candidates' = {k \in R : Reported(validated_property, sample[k], rows[Revalidated][k])}
  BY DEF ReadPeer, Look
<1>2. ASSUME NEW k \in Key, Untouched(Revalidated, k)
      PROVE  k \in omitted' \cup candidates' \/ Agrees(k)
  <2>1. <<Local, k>> \notin touched
    BY <1>2 DEF Untouched
  <2>2. sample[k] = Visible(Local, k)
    BY <1>0, <2>1 DEF Reread
  <2>3. rows[Revalidated][k] = Visible(Revalidated, k)
    BY <1>0, PeerVisible
  <2>4. CASE k \notin found'
    BY <1>0, <2>2, <2>3, <2>4 DEF Differing, Agrees, Reported
  <2>5. CASE k \in found'
    BY <1>1, <2>2, <2>3, <2>5 DEF Agrees
  <2> QED
    BY <2>4, <2>5
<1>3. Cardinality(found') <= options.max_reported => omitted' = {}
  BY <1>1 DEF Recordable
<1> QED
  BY <1>2, <1>3

LEMMA RereadInv ==
  ASSUME IInv, [Next]_vars
  PROVE  Reread'
<1>0. TypeOK /\ Planned /\ Reread
  BY DEF IInv
<1> USE DEF Goto, Rechecking, TableRead
\* Steps of the call outside the revalidation claim nothing of it.
<1>1. ASSUME pc' \notin {"read_peer"} \cup Rechecking \cup TableRead,
             UNCHANGED <<found, omitted, options>>
      PROVE  Reread'
  BY <1>0, <1>1 DEF Reread
<1>2. ASSUME NEW a \in Node, NEW t \in Node, NEW mode \in Propagation, Call(a, t, mode)
      PROVE  Reread'
  BY <1>1, <1>2 DEF Call, Start, reading, run
<1>3. CASE Lock \/ Write \/ Verify \/ CommitBatch \/ SetSequence
  BY <1>1, <1>3 DEF Lock, Write, Verify, CommitBatch, SetSequence, reading, run
<1>4. CASE Results
  BY <1>0, <1>4 DEF Results, AfterTable, Reread, reading, run, request
<1>5. CASE ReadLocal \/ RecheckLocal
  <2>1. UNCHANGED <<rows, pending, call, options, touched, found, omitted, candidates>>
    BY <1>5 DEF ReadLocal, RecheckLocal, database, request, locks, run, history
  <2>2. \A k \in Key : sample'[k] = Visible(Local, k)
    BY <1>5 DEF ReadLocal, RecheckLocal
  <2>3. pc' = "read_peer" \/ (pc' = "recheck_peer" /\ pc = "recheck_local")
    BY <1>5 DEF ReadLocal, RecheckLocal
  <2> QED
    BY <1>0, <2>1, <2>2, <2>3, SameReading DEF Reread
<1>6. CASE ReadPeer
  <2>1. UNCHANGED <<rows, pending, call, options, touched>>
    BY <1>6 DEF ReadPeer, Look, database, request, locks, run, history
  <2>2. pc' = "recheck_local" \/ (candidates' = {} /\ pc' \in TableRead \ {"read_subscriber"})
    BY <1>6 DEF ReadPeer, Look, AfterTable
  <2> QED
    BY <1>6, <2>1, <2>2, FirstLook, SameReading DEF Reread
<1>7. CASE RecheckPeer
  <2>1. /\ UNCHANGED <<rows, pending, call, options, touched, found, omitted>>
        /\ pc = "recheck_peer"
        /\ candidates' = {k \in candidates : sample[k] # rows[Revalidated][k]}
    BY <1>7 DEF RecheckPeer, database, request, locks, run, history
  <2>2. pc' = "recheck_local" \/ (candidates' = {} /\ pc' \in TableRead \ {"read_subscriber"})
    BY <1>7 DEF RecheckPeer, AfterTable
  <2>3. ASSUME NEW k \in Key, Untouched(Revalidated, k)
        PROVE  k \in omitted \cup candidates' \/ Agrees(k)
    <3>1. <<Local, k>> \notin touched
      BY <2>3 DEF Untouched
    <3>2. sample[k] = Visible(Local, k) /\ rows[Revalidated][k] = Visible(Revalidated, k)
      BY <1>0, <2>1, <3>1, PeerVisible DEF Reread
    <3> QED
      BY <1>0, <2>1, <2>3, <3>2 DEF Reread, Agrees, Reported, Differs
  <2> QED
    BY <1>0, <2>1, <2>2, <2>3, SameReading DEF Reread
<1>8. CASE TableStillDiffers
  BY <1>0, <1>8 DEF TableStillDiffers, AfterTable, Reread, reading, run
<1>9. CASE ReadProvider \/ ReadSubscriber \/ SequenceStillDiffers
  <2>1. /\ UNCHANGED <<rows, pending, call, options, touched, batch, found, omitted>>
        /\ pc \in TableRead /\ pc' \in TableRead
        /\ "table" \notin still_differs' => "table" \notin still_differs
    BY <1>9 DEF ReadProvider, ReadSubscriber, SequenceStillDiffers, database, request, locks, run,
         history, audit, reading
  <2> QED
    BY <1>0, <2>1, SameReading DEF Reread
<1>10. CASE FinishRun \/ Fail \/ CommitUnanswered \/ SetvalUnanswered
  BY <1>1, <1>10 DEF FinishRun, Fail, CommitUnanswered, SetvalUnanswered, reading, run
<1>11. CASE CallerCommits \/ CallerAborts
  BY <1>1, <1>11 DEF CallerCommits, CallerAborts, reading, run
<1>12. ASSUME NEW n \in Node, NEW c \in Key, NEW row \in Image, Change(n, c, row)
       PROVE  Reread'
  <2>1. UNCHANGED <<pc, batch, options, sample, found, omitted, candidates, still_differs>>
    BY <1>12 DEF Change, request, run, reading, audit
  <2>2. \A k \in Key :
          /\ <<Local, k>> \notin touched' =>
               <<Local, k>> \notin touched /\ Visible(Local, k)' = Visible(Local, k)
          /\ Untouched(Revalidated, k)' =>
               Untouched(Revalidated, k) /\ (Agrees(k)' <=> Agrees(k))
    BY <1>0, <1>12, ChangeReading
  <2> QED
    BY <1>0, <2>1, <2>2 DEF Reread
<1>13. ASSUME NEW n \in Node, Nextval(n)
       PROVE  Reread'
  <2>1. UNCHANGED <<pc, batch, options, sample, found, omitted, candidates, still_differs>>
    BY <1>13 DEF Nextval, request, run, reading, audit
  <2> QED
    BY <1>0, <1>13, <2>1, NextvalReading DEF Reread
<1>14. CASE UNCHANGED vars
  BY <1>0, <1>14, SameReading DEF Reread, vars
<1> QED
  BY <1>2, <1>3, <1>4, <1>5, <1>6, <1>7, <1>8, <1>9, <1>10, <1>11, <1>12, <1>13, <1>14
     DEF Next, Repairing, Revalidating

\* Values of the sequence that were not used since.
LEMMA NextvalSequence ==
  ASSUME TypeOK, NEW n \in Node, Nextval(n), NEW m \in Node, <<m, Sequence>> \notin touched'
  PROVE  last'[m] = last[m] /\ <<m, Sequence>> \notin touched
BY DEF Nextval, TypeOK

LEMMA SequenceRereadInv ==
  ASSUME IInv, [Next]_vars
  PROVE  SequenceReread'
<1>0. TypeOK /\ SequenceReread
  BY DEF IInv
<1> USE DEF Goto
<1>1. ASSUME pc' \notin {"read_subscriber", "finish"}
      PROVE  SequenceReread'
  BY <1>1 DEF SequenceReread
<1>2. ASSUME NEW a \in Node, NEW t \in Node, NEW mode \in Propagation, Call(a, t, mode)
      PROVE  SequenceReread'
  BY <1>1, <1>2 DEF Call, Start
<1>3. CASE Lock \/ Write \/ Verify \/ CommitBatch \/ SetSequence
  BY <1>1, <1>3 DEF Lock, Write, Verify, CommitBatch, SetSequence
<1>4. CASE Results \/ ReadPeer \/ RecheckPeer \/ TableStillDiffers
  <2>1. pc' \in {"read_local", "recheck_local", "read_provider"} \/ (pc' = "finish" /\ ~ setval /\ ~ setval')
    BY <1>4 DEF Results, ReadPeer, Look, RecheckPeer, TableStillDiffers, AfterTable, request
  <2> QED
    BY <2>1 DEF SequenceReread
<1>5. CASE ReadLocal \/ RecheckLocal
  BY <1>1, <1>5 DEF ReadLocal, RecheckLocal
<1>6. CASE ReadProvider
  <2>1. pc' = "read_subscriber" /\ provider' = last[Local] /\ UNCHANGED last
    BY <1>6 DEF ReadProvider, database
  <2> QED
    BY <2>1 DEF SequenceReread
<1>7. CASE ReadSubscriber
  <2>1. /\ pc = "read_subscriber" /\ Within(provider, last[call.target]) /\ pc' = "finish"
        /\ UNCHANGED <<last, call, touched>>
    BY <1>7 DEF ReadSubscriber, database, request, history
  <2>2. Untouched(call.target, Sequence)' => <<Local, Sequence>> \notin touched
    BY <2>1 DEF Untouched
  <2> QED
    BY <1>0, <2>1, <2>2 DEF SequenceReread, Within
<1>8. CASE SequenceStillDiffers
  BY <1>8 DEF SequenceStillDiffers, SequenceReread
<1>9. CASE FinishRun \/ Fail \/ CommitUnanswered \/ SetvalUnanswered \/ CallerCommits \/ CallerAborts
  BY <1>1, <1>9 DEF FinishRun, Fail, CommitUnanswered, SetvalUnanswered, CallerCommits, CallerAborts
<1>10. ASSUME NEW n \in Node, NEW k \in Key, NEW row \in Image, Change(n, k, row)
       PROVE  SequenceReread'
  <2>1. UNCHANGED <<pc, last, call, setval, provider, still_differs>> /\ touched \subseteq touched'
    BY <1>10 DEF Change, request, reading, audit
  <2> QED
    BY <1>0, <2>1 DEF SequenceReread, Untouched, Within
<1>11. ASSUME NEW n \in Node, Nextval(n)
       PROVE  SequenceReread'
  <2>1. UNCHANGED <<pc, call, setval, provider, still_differs>>
    BY <1>11 DEF Nextval, request, reading, audit
  <2>2. <<Local, Sequence>> \notin touched' =>
          last'[Local] = last[Local] /\ <<Local, Sequence>> \notin touched
    BY <1>0, <1>11, NextvalSequence, RepairAssumption
  <2>3. <<call.target, Sequence>> \notin touched' =>
          last'[call.target] = last[call.target] /\ <<call.target, Sequence>> \notin touched
    BY <1>0, <1>11, NextvalSequence DEF TypeOK
  <2> QED
    BY <1>0, <2>1, <2>2, <2>3 DEF SequenceReread, Untouched, Within
<1>12. CASE UNCHANGED vars
  BY <1>0, <1>12 DEF SequenceReread, Untouched, Within, vars
<1> QED
  BY <1>2, <1>3, <1>4, <1>5, <1>6, <1>7, <1>8, <1>9, <1>10, <1>11, <1>12
     DEF Next, Repairing, Revalidating

\* The caller's commit changes nothing of what the call has seen.
LEMMA CallerReading ==
  ASSUME IInv, CallerCommits, NEW k \in Key
  PROVE  /\ Agrees(k)' <=> Agrees(k)
         /\ Untouched(Revalidated, k)' <=> Untouched(Revalidated, k)
<1>1. UNCHANGED <<call, options, touched>>
  BY DEF CallerCommits, request, run
<1>2. Local \in Node /\ Revalidated \in Node
  BY RepairAssumption DEF IInv, TypeOK, Revalidated, Edge
<1>3. Revalidated' = Revalidated /\ validated_property' = validated_property
  BY <1>1 DEF Revalidated, Edge, validated_property, Contract
<1>4. \A n \in Node : Visible(n, k)' = Visible(n, k)
  BY CallerVisible
<1>5. Visible(Local, k)' = Visible(Local, k) /\ Visible(Revalidated, k)' = Visible(Revalidated, k)
  BY <1>2, <1>3, <1>4 DEF Visible
<1> QED
  BY <1>1, <1>3, <1>5 DEF Agrees, Reported, Differs, Untouched

LEMMA RevalidatedInv ==
  ASSUME IInv, [Next]_vars
  PROVE  RevalidatedAgrees'
<1>0. TypeOK /\ Recorded /\ Reread /\ SequenceReread /\ RevalidatedAgrees
  BY DEF IInv
<1> USE DEF Goto
<1>1. ASSUME repair_run' # "revalidated"
      PROVE  RevalidatedAgrees'
  BY <1>1 DEF RevalidatedAgrees
<1>2. ASSUME NEW a \in Node, NEW t \in Node, NEW mode \in Propagation, Call(a, t, mode)
      PROVE  RevalidatedAgrees'
  BY <1>1, <1>2 DEF Call, Start
<1>3. CASE Lock \/ Write \/ Verify \/ CommitBatch \/ SetSequence \/ Results
  <2>1. repair_run' = repair_run /\ pc \notin {"return", "done"}
    BY <1>3 DEF Lock, Write, Verify, CommitBatch, SetSequence, Results, audit
  <2> QED
    BY <1>0, <1>1, <2>1 DEF Recorded
<1>4. CASE Revalidating
  <2>1. CASE pc # "finish"
    <3>1. repair_run' = repair_run /\ pc \notin {"return", "done"}
      BY <1>4, <2>1, OnlyReads DEF Rereading, Rechecking, TableRead
    <3> QED
      BY <1>0, <1>1, <3>1 DEF Recorded
  <2>2. CASE FinishRun /\ still_differs = {}
    <3>1. /\ UNCHANGED <<rows, last, pending, call, batch, setval, options, touched, found, omitted>>
          /\ pc = "finish"
      BY <2>2 DEF FinishRun, database, request, locks, run, reading, history
    <3>2. DOMAIN batch # {} => \A k \in Key : Untouched(Revalidated, k) => k \in omitted \/ Agrees(k)
      BY <1>0, <2>2, <3>1 DEF Reread, TableRead
    <3>3. setval /\ Untouched(call.target, Sequence) => Within(last[Local], last[call.target])
      BY <1>0, <2>2, <3>1 DEF SequenceReread
    <3>4. Cardinality(found) <= options.max_reported => omitted = {}
      BY <1>0 DEF Reread
    <3> QED
      BY <3>1, <3>2, <3>3, <3>4, SameReading DEF RevalidatedAgrees, Untouched, Within
  <2>3. CASE FinishRun /\ still_differs # {}
    BY <1>1, <2>3 DEF FinishRun
  <2>4. pc = "finish" => FinishRun
    BY <1>4 DEF Revalidating, ReadLocal, ReadPeer, Look, RecheckLocal, RecheckPeer,
         TableStillDiffers, ReadProvider, ReadSubscriber, SequenceStillDiffers
  <2> QED
    BY <2>1, <2>2, <2>3, <2>4
<1>5. CASE Fail \/ CommitUnanswered \/ SetvalUnanswered \/ CallerAborts
  BY <1>1, <1>5 DEF Fail, CommitUnanswered, SetvalUnanswered, CallerAborts
<1>6. CASE CallerCommits
  <2>1. UNCHANGED <<repair_run, last, call, batch, setval, options, touched, found, omitted>>
    BY <1>6 DEF CallerCommits, request, run, reading, audit
  <2> QED
    BY <1>0, <1>6, <2>1, CallerReading DEF RevalidatedAgrees, Untouched, Within
<1>7. ASSUME NEW n \in Node, NEW c \in Key, NEW row \in Image, Change(n, c, row)
      PROVE  RevalidatedAgrees'
  <2>1. /\ UNCHANGED <<repair_run, last, call, batch, setval, options, found, omitted>>
        /\ touched \subseteq touched'
    BY <1>7 DEF Change, request, run, reading, audit
  <2>2. \A k \in Key : Untouched(Revalidated, k)' =>
          Untouched(Revalidated, k) /\ (Agrees(k)' <=> Agrees(k))
    BY <1>0, <1>7, ChangeReading
  <2>3. Untouched(call.target, Sequence)' => Untouched(call.target, Sequence)
    BY <2>1 DEF Untouched
  <2>4. Within(last[Local], last[call.target])' <=> Within(last[Local], last[call.target])
    BY <2>1 DEF Within
  <2> QED
    BY <1>0, <2>1, <2>2, <2>3, <2>4 DEF RevalidatedAgrees
<1>8. ASSUME NEW n \in Node, Nextval(n)
      PROVE  RevalidatedAgrees'
  <2>1. UNCHANGED <<repair_run, call, batch, setval, options, found, omitted>>
    BY <1>8 DEF Nextval, request, run, reading, audit
  <2>2. ASSUME Untouched(call.target, Sequence)'
        PROVE  /\ last'[Local] = last[Local] /\ last'[call.target] = last[call.target]
               /\ Untouched(call.target, Sequence)
    <3>1. <<Local, Sequence>> \notin touched' /\ <<call.target, Sequence>> \notin touched'
      BY <2>1, <2>2 DEF Untouched
    <3>2. last'[Local] = last[Local] /\ <<Local, Sequence>> \notin touched
      BY <1>0, <1>8, <3>1, NextvalSequence, RepairAssumption
    <3>3. last'[call.target] = last[call.target] /\ <<call.target, Sequence>> \notin touched
      BY <1>0, <1>8, <3>1, NextvalSequence DEF TypeOK
    <3> QED
      BY <3>2, <3>3 DEF Untouched
  <2> QED
    BY <1>0, <1>8, <2>1, <2>2, NextvalReading DEF RevalidatedAgrees, Within
<1>9. CASE UNCHANGED vars
  BY <1>0, <1>9, SameReading DEF RevalidatedAgrees, vars, Untouched, Within
<1> QED
  BY <1>2, <1>3, <1>4, <1>5, <1>6, <1>7, <1>8, <1>9 DEF Next, Repairing

------------------------------------------------------------------------------
(* The properties. *)

\* At every point of a call its batch, its transaction, its record and its
\* reading agree (apply_repair).
THEOREM Invariance == Spec => []IInv
<1>1. IInv /\ [Next]_vars => IInv'
  BY NextType, PlannedInv, TransactionInv, VerifiedInv, RecordedInv, RereadInv,
     SequenceRereadInv, RevalidatedInv DEF IInv
<1> QED
  BY <1>1, InitInv, PTL DEF Spec

\* What _repair_statements takes for the authority's image is that image, where
\* the run has confirmed the authority's difference or reports none.
LEMMA SourceIsAuthority ==
  ASSUME TypeOK, Planned, NEW a \in Node, NEW t \in Node, a # t, NEW k \in Repaired(a, t),
         <<a, k>> \notin Unconfirmed
  PROVE  LET authority == seen[a][k]
         IN  /\ Source(a, Edge(a, t), k) = Absent <=> authority = Absent
             /\ validated_property # "keys_only" => Source(a, Edge(a, t), k) = authority
<1> DEFINE p == Edge(a, t)
<1>1. k \in Key /\ <<p, k>> \in confirmed
  BY DEF Repaired
<1>2. <<p, k>> \in Divergent(options, seen)
  BY <1>1 DEF Planned
<1>3. Reported(validated_property, seen[Local][k], seen[p][k])
  BY <1>2 DEF Divergent, validated_property
<1>4. CASE a = p \/ <<a, k>> \in confirmed
  BY <1>4 DEF Source
<1>5. CASE ~ (a = p \/ <<a, k>> \in confirmed)
  <2>1. Source(a, p, k) = seen[Local][k]
    BY <1>5 DEF Source
  <2>2. CASE a = Local
    BY <2>1, <2>2
  <2>3. CASE a # Local
    <3>1. <<a, k>> \in Peer \X Key
      BY <1>1, <2>3 DEF Peer
    <3>2. <<a, k>> \notin Divergent(options, seen)
      BY <1>5 DEF Unconfirmed
    <3>3. ~ Reported(validated_property, seen[Local][k], seen[a][k])
      BY <3>1, <3>2 DEF Divergent, validated_property
    <3> QED
      BY <1>3, <2>1, <3>3 DEF Reported, Differs
  <2> QED
    BY <2>2, <2>3
<1> QED
  BY <1>4, <1>5

\* Every statement writes the authority's own image of its key, for any
\* authority, target and contract, unless the authority is a third node whose
\* divergence of the key the run has not confirmed (_repair_statements).
THEOREM AuthorityIsWritten == Spec => []WritesAuthority
<1>1. IInv => WritesAuthority
  <2> SUFFICES ASSUME IInv, NEW k \in DOMAIN batch, <<call.authoritative, k>> \notin Unconfirmed
               PROVE  LET authority == seen[call.authoritative][k]
                      IN  /\ batch[k] = Absent <=> authority = Absent
                          /\ validated_property # "keys_only" => batch[k] = authority
    BY DEF WritesAuthority
  <2> DEFINE a == call.authoritative
             t == call.target
  <2>1. TypeOK /\ Planned /\ a \in Node /\ t \in Node
    BY DEF IInv, TypeOK
  <2>2. batch = RowBatch(a, t) /\ a # t
    BY <2>1, NoRowsDomain DEF Planned
  <2>3. k \in Repaired(a, t)
    BY <2>1, <2>2, RowBatchType
  <2>4. batch[k] = Source(a, Edge(a, t), k)
    BY <2>2, <2>3 DEF RowBatch
  <2> QED
    BY <2>1, <2>2, <2>3, <2>4, SourceIsAuthority
<1> QED
  BY <1>1, Invariance, PTL

\* What is committed on the target is what the statements ask for, but for
\* writes after the verification (the repair transaction of apply_repair).
THEOREM CommitsWhatItVerified == Spec => []CommittedAsVerified
<1>1. IInv => CommittedAsVerified
  <2> SUFFICES ASSUME IInv, committed, NEW k \in DOMAIN batch, <<call.target, k>> \notin touched
               PROVE  rows[call.target][k] = batch[k]
    BY DEF CommittedAsVerified
  <2>1. Target(k) = batch[k]
    BY DEF IInv, Verified
  <2>2. pending = NoRows
    BY DEF IInv, Transaction
  <2> QED
    BY <2>1, <2>2, NoRowsDomain DEF Target
<1> QED
  BY <1>1, Invariance, PTL

\* A repair marked revalidated leaves the compared databases in agreement on
\* every key, and the sequence within its window, where neither was written
\* since, but for keys its revalidation found no room to record (apply_repair).
THEOREM RevalidationSound == Spec => []RevalidatedAgrees
<1>1. IInv => RevalidatedAgrees
  BY DEF IInv
<1> QED
  BY <1>1, Invariance, PTL

\* With room in the report for every key there is no such exception
\* (max_reported_divergences of the run, which its revalidation takes over).
THEOREM RevalidationComplete ==
  ASSUME IsFiniteSet(Key), \A o \in Options : Cardinality(Key) <= o.max_reported
  PROVE  Spec => [](repair_run = "revalidated" /\ DOMAIN batch # {} =>
                      \A k \in Key : Untouched(Revalidated, k) => Agrees(k))
<1>1. IInv => (repair_run = "revalidated" /\ DOMAIN batch # {} =>
                 \A k \in Key : Untouched(Revalidated, k) => Agrees(k))
  <2> SUFFICES ASSUME IInv, repair_run = "revalidated", DOMAIN batch # {},
                      NEW k \in Key, Untouched(Revalidated, k)
               PROVE  Agrees(k)
    OBVIOUS
  <2>1. TypeOK /\ found \subseteq Key /\ options \in Options
    BY DEF IInv, TypeOK
  <2>2. Cardinality(found) \in Nat /\ Cardinality(found) <= Cardinality(Key)
    BY <2>1, FS_Subset, FS_CardinalityType
  <2>3. Cardinality(Key) \in Nat /\ Cardinality(Key) <= options.max_reported
    BY <2>1, FS_CardinalityType
  <2>4. Cardinality(found) <= options.max_reported
    BY <2>1, <2>2, <2>3, RepairAssumption
  <2> QED
    BY <2>4 DEF IInv, RevalidatedAgrees
<1> QED
  BY <1>1, Invariance, PTL

\* The record a caller keeps claims nothing that did not happen (repair_run and
\* repair_result at the end of apply_repair).
THEOREM RecordsAreTrue == Spec => []RecordsTell
<1>1. IInv => RecordsTell
  <2> SUFFICES ASSUME IInv, saved # "none" PROVE RecordsTell
    BY DEF RecordsTell
  <2>1. pc = "done" /\ saved = repair_run
    BY DEF IInv, Recorded
  <2>2. ~ open
    BY <2>1 DEF IInv, Transaction, Rereading, Rechecking, TableRead
  <2> QED
    BY <2>1, <2>2 DEF IInv, Recorded, RecordsTell
<1> QED
  BY <1>1, Invariance, PTL

==============================================================================
