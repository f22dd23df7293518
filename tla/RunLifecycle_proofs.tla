------------------------- MODULE RunLifecycle_proofs -------------------------
(***************************************************************************)
(* Proofs about RunLifecycle, for any number of workers, tables, calls and *)
(* deaths: type correctness, the inductive invariant, and the properties   *)
(* that follow from it.                                                    *)
(***************************************************************************)
EXTENDS RunLifecycle, TLAPS

LEMMA InitType == Init => TypeOK
BY ConstantsAssumption
   DEF Init, TypeOK, Table, RunStatuses, TaskStatuses, Steps

LEMMA InitInv == Init => IInv
BY InitType, ConstantsAssumption
   DEF Init, IInv, Unseen, Locked, Passed, CompletedIsComplete, RowsAgree,
       Visible, Table, Appendable

------------------------------------------------------------------------------
(* Type correctness. *)

\* What Restartable and a call leave to be typed.
LEMMA UserType ==
  ASSUME TypeOK, User
  PROVE  TypeOK'
<1> USE ConstantsAssumption DEF TypeOK, RunStatuses, TaskStatuses, Steps, Goto,
                                Called, Visible
<1>1. ASSUME NEW w \in Worker, CompareAsync(w) PROVE TypeOK'
  BY <1>1 DEF CompareAsync
<1>2. ASSUME NEW w \in Worker, Resume(w) PROVE TypeOK'
  BY <1>2 DEF Resume
<1>3. CASE CommitCaller
  BY <1>3 DEF CommitCaller
<1>4. CASE AbortCaller
  BY <1>4 DEF AbortCaller
<1>5. CASE Cancel
  BY <1>5 DEF Cancel
<1>6. CASE Pause
  BY <1>6 DEF Pause
<1>7. CASE Unpause
  BY <1>7 DEF Unpause
<1> QED
  BY <1>1, <1>2, <1>3, <1>4, <1>5, <1>6, <1>7 DEF User

LEMMA WorkType ==
  ASSUME TypeOK, Locked, NEW w \in Worker, Work(w) \/ Die(w)
  PROVE  TypeOK'
<1> USE ConstantsAssumption DEF TypeOK, RunStatuses, TaskStatuses, Steps, Goto
<1>1. CASE Claim(w)
  BY <1>1 DEF Claim
<1>2. CASE GiveUp(w)
  BY <1>2 DEF GiveUp
<1>3. CASE CheckLatch(w)
  BY <1>3 DEF CheckLatch
<1>4. CASE BeginTable(w)
  BY <1>4 DEF BeginTable
<1>5. CASE EndTable(w)
  <2>1. next[w] + 1 \in 1..NTables + 1
    BY <1>5 DEF EndTable, Locked
  <2>2. result' \in [Table -> {"none", "done", "error"}]
    BY <1>5 DEF EndTable, Verdicts
  <2>3. next' \in [Worker -> 1..NTables + 1]
    BY <1>5, <2>1 DEF EndTable
  <2> QED
    BY <1>5, <2>2, <2>3 DEF EndTable
<1>6. CASE FailTable(w)
  BY <1>6 DEF FailTable
<1>7. CASE Stumble(w)
  BY <1>7 DEF Stumble
<1>8. CASE Finish(w)
  BY <1>8 DEF Finish
<1>9. CASE BeginRun(w)
  BY <1>9 DEF BeginRun
<1>10. CASE EndRun(w)
  BY <1>10 DEF EndRun
<1>11. CASE AbortRun(w)
  BY <1>11 DEF AbortRun
<1>12. CASE RecordAbort(w)
  BY <1>12 DEF RecordAbort, Fail
<1>13. CASE MarkFailed(w)
  BY <1>13 DEF MarkFailed, Fail
<1>14. CASE Die(w)
  BY <1>14 DEF Die
<1> QED
  BY <1>1, <1>2, <1>3, <1>4, <1>5, <1>6, <1>7, <1>8, <1>9, <1>10, <1>11, <1>12,
     <1>13, <1>14 DEF Work

------------------------------------------------------------------------------
(* The inductive invariant. *)

LEMMA UserInv ==
  ASSUME IInv, User
  PROVE  IInv'
<1> USE DEF IInv, TypeOK, Unseen, Locked, Passed, CompletedIsComplete, RowsAgree
<1>t. TypeOK'
  BY UserType
<1> USE <1>t, ConstantsAssumption
        DEF Goto, Called, Visible, RunFree, Appendable, Restartable
<1>1. ASSUME NEW w \in Worker, CompareAsync(w) PROVE IInv'
  BY <1>1 DEF CompareAsync
<1>2. ASSUME NEW w \in Worker, Resume(w) PROVE IInv'
  BY <1>2 DEF Resume
<1>3. CASE CommitCaller
  BY <1>3 DEF CommitCaller
<1>4. CASE AbortCaller
  BY <1>4 DEF AbortCaller
<1>5. CASE Cancel
  BY <1>5 DEF Cancel
<1>6. CASE Pause
  BY <1>6 DEF Pause
<1>7. CASE Unpause
  BY <1>7 DEF Unpause
<1> QED
  BY <1>1, <1>2, <1>3, <1>4, <1>5, <1>6, <1>7 DEF User

LEMMA WorkInv ==
  ASSUME IInv, NEW w \in Worker, Work(w) \/ Die(w)
  PROVE  IInv'
<1>t. TypeOK'
  BY WorkType DEF IInv
<1> USE <1>t, ConstantsAssumption
        DEF IInv, TypeOK, Unseen, Locked, Passed, CompletedIsComplete,
            RowsAgree, Goto, Visible, RunFree, TaskFree, Appendable
<1>1. CASE Claim(w)
  BY <1>1 DEF Claim
<1>2. CASE GiveUp(w)
  BY <1>2 DEF GiveUp
<1>3. CASE CheckLatch(w)
  BY <1>3 DEF CheckLatch
<1>4. CASE BeginTable(w)
  BY <1>4 DEF BeginTable
<1>5. CASE EndTable(w)
  <2>1. PICK v \in {"done", "error"} : result' = [result EXCEPT ![next[w]] = v]
    BY <1>5 DEF EndTable, Verdicts
  <2>2. Unseen' /\ Locked' /\ RowsAgree' /\ (task = "running" => pid # NoWorker)'
    BY <1>5 DEF EndTable
  <2>3. \A t \in Table : result[t] # "none" => result'[t] # "none"
    BY <2>1
  <2>4. Passed'
    BY <1>5, <2>1, <2>3 DEF EndTable, Table
  <2>5. CompletedIsComplete'
    BY <1>5 DEF EndTable
  <2> QED
    BY <2>2, <2>4, <2>5
<1>6. CASE FailTable(w)
  BY <1>6 DEF FailTable
<1>7. CASE Stumble(w)
  BY <1>7 DEF Stumble
<1>8. CASE Finish(w)
  BY <1>8 DEF Finish, Table
<1>9. CASE BeginRun(w)
  BY <1>9 DEF BeginRun
<1>10. CASE EndRun(w)
  BY <1>10 DEF EndRun
<1>11. CASE AbortRun(w)
  BY <1>11 DEF AbortRun
<1>12. CASE RecordAbort(w)
  BY <1>12 DEF RecordAbort, Fail
<1>13. CASE MarkFailed(w)
  BY <1>13 DEF MarkFailed, Fail
<1>14. CASE Die(w)
  BY <1>14 DEF Die
<1> QED
  BY <1>1, <1>2, <1>3, <1>4, <1>5, <1>6, <1>7, <1>8, <1>9, <1>10, <1>11, <1>12,
     <1>13, <1>14 DEF Work

LEMMA StepInv == IInv /\ [Next]_vars => IInv'
<1> SUFFICES ASSUME IInv, [Next]_vars PROVE IInv'
  OBVIOUS
<1>1. CASE User
  BY <1>1, UserInv
<1>2. ASSUME NEW w \in Worker, Work(w) \/ Die(w) PROVE IInv'
  BY <1>2, WorkInv
<1>3. CASE UNCHANGED vars
  BY <1>3 DEF vars, IInv, TypeOK, Unseen, Locked, Passed, CompletedIsComplete,
              RowsAgree, Visible
<1> QED
  BY <1>1, <1>2, <1>3 DEF Next

\* The rows of the run and its task, the workers' positions and the locks they
\* hold agree at every point (compare, the worker and the reporting calls).
THEOREM Invariance == Spec => []IInv
BY InitInv, StepInv, PTL DEF Spec

------------------------------------------------------------------------------
(* The properties. *)

\* For any number of workers, tables, calls and deaths, the run row, the task
\* row and the verdicts keep their types.
THEOREM TypeCorrect == Spec => []TypeOK
<1>1. IInv => TypeOK
  BY DEF IInv
<1> QED
  BY <1>1, Invariance, PTL

\* finish_explicit_table_task and compare complete a run only when every table
\* of its request has a verdict, whichever of its workers wrote it.
THEOREM CompletionSound == Spec => []CompletedIsComplete
<1>1. IInv => CompletedIsComplete
  BY DEF IInv
<1> QED
  BY <1>1, Invariance, PTL

\* The run row and the task row agree on how a run ended, although several
\* workers and the user's calls write them.
THEOREM Agreement == Spec => []RowsAgree
<1>1. IInv => RowsAgree
  BY DEF IInv
<1> QED
  BY <1>1, Invariance, PTL

\* resume finds the task of every abandoned run that was ever claimed.
THEOREM Resumability == Spec => []ClaimedIsResumable
<1>1. IInv => ClaimedIsResumable
  <2> SUFFICES ASSUME IInv, Abandoned, task # "queued" PROVE Restartable
    BY DEF ClaimedIsResumable
  <2>1. run \in {"paused", "failed", "planning", "running"}
    BY DEF IInv, TypeOK, RunStatuses, Abandoned, Unfinished
  <2>2. task \in {"paused", "failed", "running"}
    BY <2>1 DEF IInv, TypeOK, TaskStatuses, Unseen, RowsAgree, Abandoned,
                Unfinished
  <2>3. task = "running" => pid # NoWorker /\ ~Alive(pid)
    BY DEF IInv, TypeOK, Abandoned
  <2> QED
    BY <2>1, <2>2, <2>3 DEF Restartable
<1> QED
  BY <1>1, Invariance, PTL

\* cancel is final: no worker, pause or resume takes the run row out of it.
THEOREM CancelFinal == Spec => CanceledIsFinal
<1>1. ASSUME IInv, Next, run = "canceled" PROVE run' = "canceled"
  <2> USE <1>1 DEF IInv, Unseen, Locked, Appendable, Visible
  <2>1. CASE User
    BY <2>1 DEF User, CompareAsync, CommitCaller, AbortCaller, Cancel, Pause,
                Resume, Unpause, Restartable, Called
  <2>2. ASSUME NEW w \in Worker, Work(w) \/ Die(w) PROVE run' = "canceled"
    BY <2>2 DEF Work, Claim, GiveUp, CheckLatch, BeginTable, EndTable,
                FailTable, Stumble, Finish, BeginRun, EndRun, AbortRun,
                RecordAbort, MarkFailed, Fail, Die
  <2> QED
    BY <2>1, <2>2 DEF Next
<1>2. IInv /\ [Next]_vars => [run = "canceled" => run' = "canceled"]_vars
  BY <1>1 DEF vars
<1> QED
  BY <1>2, Invariance, PTL DEF Spec, CanceledIsFinal

\* A verdict once committed is never taken back or compared again: compare
\* skips the table, whatever worker comes to it.
THEOREM ResultsLast == Spec => ResultsKept
<1>1. ASSUME IInv, Next, NEW t \in Table, result[t] = "done"
      PROVE  result'[t] = "done"
  <2>1. CASE User
    BY <1>1, <2>1 DEF User, CompareAsync, CommitCaller, AbortCaller, Cancel,
                      Pause, Resume, Unpause, Called
  <2>2. ASSUME NEW w \in Worker, EndTable(w) PROVE result'[t] = "done"
    BY <1>1, <2>2 DEF EndTable, Verdicts, IInv, TypeOK
  <2>3. ASSUME NEW w \in Worker, EndRun(w) PROVE result'[t] = "done"
    BY <1>1, <2>3 DEF EndRun, Verdicts
  <2>4. ASSUME NEW w \in Worker, Work(w) \/ Die(w), ~EndTable(w), ~EndRun(w)
        PROVE  result'[t] = "done"
    BY <1>1, <2>4 DEF Work, Claim, GiveUp, CheckLatch, BeginTable, FailTable,
                      Stumble, Finish, BeginRun, AbortRun, RecordAbort,
                      MarkFailed, Die
  <2> QED
    BY <1>1, <2>1, <2>2, <2>3, <2>4 DEF Next
<1>2. IInv /\ [Next]_vars
        => [\A t \in Table : result[t] = "done" => result'[t] = "done"]_vars
  BY <1>1 DEF vars
<1> QED
  BY <1>2, Invariance, PTL DEF Spec, ResultsKept
==============================================================================
