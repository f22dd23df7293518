----------------------------- MODULE RunLifecycle -----------------------------
(***************************************************************************)
(* One asynchronous validation run: compare_async queues a task and        *)
(* launches a background worker, the worker claims the task and compares   *)
(* the tables, and the user pauses, resumes and cancels the run meanwhile. *)
(* A worker may die at any point; resume launches another one.             *)
(*                                                                         *)
(* A step is what one transaction commits.  A transaction that other       *)
(* sessions can run into is two steps, with the run row locked in between. *)
(* A run over an explicit table list commits after every table; any other  *)
(* run is one transaction.                                                 *)
(***************************************************************************)
EXTENDS Naturals, FiniteSets

CONSTANTS
  Worker,      \* worker processes that may be launched, one launch each
  NoWorker,    \* worker_pid IS NULL
  NTables,     \* tables of the request
  MaxCalls,    \* bound: calls of pause, resume and cancel
  MaxDeaths    \* bound: workers that die

ASSUME ConstantsAssumption ==
  /\ IsFiniteSet(Worker)
  /\ NoWorker \notin Worker
  /\ NTables \in Nat \ {0}
  /\ MaxCalls \in Nat
  /\ MaxDeaths \in Nat

VARIABLES
  caller,      \* the transaction that called compare_async
  explicit,    \* TRUE if the request names its tables
  run,         \* run.status as committed
  task,        \* worker_task.status as committed
  pid,         \* worker_task.worker_pid
  result,      \* table_result.verdict of each table, as committed
  step,        \* where each worker is
  next,        \* the table each worker compares next
  calls,       \* calls of pause, resume and cancel so far
  deaths       \* workers that have died so far

vars == <<caller, explicit, run, task, pid, result, step, next, calls, deaths>>

Table == 1..NTables

RunStatuses == {"none", "planning", "running", "paused", "completed", "failed",
                "canceled"}
TaskStatuses == {"none", "queued", "running", "paused", "completed", "failed"}
Steps == {"unused", "starting", "claimed", "ready", "busy", "aborting",
          "failing", "gone"}

TypeOK ==
  /\ caller \in {"idle", "open", "committed", "aborted"}
  /\ explicit \in BOOLEAN
  /\ run \in RunStatuses
  /\ task \in TaskStatuses
  /\ pid \in Worker \cup {NoWorker}
  /\ result \in [Table -> {"none", "done", "error"}]
  /\ step \in [Worker -> Steps]
  /\ next \in [Worker -> 1..NTables + 1]
  /\ calls \in 0..MaxCalls
  /\ deaths \in 0..MaxDeaths

Init ==
  /\ caller = "idle"
  /\ explicit \in BOOLEAN
  /\ run = "none"
  /\ task = "none"
  /\ pid = NoWorker
  /\ result = [t \in Table |-> "none"]
  /\ step = [w \in Worker |-> "unused"]
  /\ next = [w \in Worker |-> 1]
  /\ calls = 0
  /\ deaths = 0

Visible == caller = "committed"

\* The statuses in which compare appends to a run.
Appendable == {"planning", "running", "paused"}

Alive(w) == step[w] \notin {"unused", "gone"}

\* compare holds the run row from its SELECT ... FOR UPDATE to the end of
\* its transaction, or of the subtransaction that failed.
RunFree == \A w \in Worker : step[w] # "busy"

\* _run_worker_task holds the task row as well; a worker with an explicit
\* table list never locks it.
TaskFree == explicit \/ \A w \in Worker : step[w] \notin {"busy", "aborting"}

Goto(w, s) == step' = [step EXCEPT ![w] = s]

------------------------------------------------------------------------------
(* The user. *)

\* compare_async: run 'planning', task 'queued', and a worker launched at
\* once, before the caller's transaction commits.
CompareAsync(w) ==
  /\ caller = "idle"
  /\ caller' = "open"
  /\ run' = "planning"
  /\ task' = "queued"
  /\ pid' = w
  /\ Goto(w, "starting")
  /\ UNCHANGED <<explicit, result, next, calls, deaths>>

CommitCaller ==
  /\ caller = "open"
  /\ caller' = "committed"
  /\ UNCHANGED <<explicit, run, task, pid, result, step, next, calls, deaths>>

\* The launch is not undone with the transaction.
AbortCaller ==
  /\ caller = "open"
  /\ caller' = "aborted"
  /\ run' = "none"
  /\ task' = "none"
  /\ pid' = NoWorker
  /\ UNCHANGED <<explicit, result, step, next, calls, deaths>>

Called ==
  /\ Visible
  /\ RunFree
  /\ calls < MaxCalls
  /\ calls' = calls + 1
  /\ UNCHANGED <<caller, explicit, result, next, deaths>>

Cancel ==
  /\ Called
  /\ run \in Appendable
  /\ run' = "canceled"
  /\ UNCHANGED <<task, pid, step>>

\* A task that is not claimed yet is parked; a running one is left alone.
Pause ==
  /\ Called
  /\ run \in {"planning", "running"}
  /\ run' = "paused"
  /\ IF task = "queued"
     THEN task' = "paused" /\ pid' = NoWorker
     ELSE UNCHANGED <<task, pid>>
  /\ UNCHANGED step

\* Mutant of Restartable: a run that died while running is not looked for.
RestartableAtRest ==
  /\ task \in {"paused", "failed"}
  /\ run \in {"paused", "failed"}

\* The task resume may restart: parked, failed, or running in a process
\* that is no more.
Restartable ==
  /\ \/ task \in {"paused", "failed"}
     \/ task = "running" /\ pid # NoWorker /\ ~Alive(pid)
  /\ run \in {"paused", "failed", "planning", "running"}

Resume(w) ==
  /\ Called
  /\ TaskFree
  /\ Restartable
  /\ step[w] = "unused"
  /\ run' = "planning"
  /\ task' = "queued"
  /\ pid' = w
  /\ Goto(w, "starting")

\* With no task to restart, resume only unpauses the run.
Unpause ==
  /\ Called
  /\ ~Restartable
  /\ run = "paused"
  /\ run' = "running"
  /\ UNCHANGED <<task, pid, step>>

User ==
  \/ \E w \in Worker : CompareAsync(w) \/ Resume(w)
  \/ CommitCaller
  \/ AbortCaller
  \/ Cancel
  \/ Pause
  \/ Unpause

------------------------------------------------------------------------------
(* The worker. *)

\* Mutant of Claim: the claimed task is left in a status of its own, which
\* _run_worker_task does not take.
ClaimStarts(w) ==
  /\ step[w] = "starting"
  /\ Visible
  /\ TaskFree
  /\ IF task \in {"queued", "running"}
     THEN task' = "starting" /\ pid' = w /\ Goto(w, "claimed")
     ELSE Goto(w, "gone") /\ UNCHANGED <<task, pid>>
  /\ UNCHANGED <<caller, explicit, run, result, next, calls, deaths>>

\* _claim_worker_task.  No statement sets a task 'canceled', so that branch
\* is left out.
Claim(w) ==
  /\ step[w] = "starting"
  /\ Visible
  /\ TaskFree
  /\ IF task \in {"queued", "running"}
     THEN task' = "running" /\ pid' = w /\ Goto(w, "claimed")
     ELSE Goto(w, "gone") /\ UNCHANGED <<task, pid>>
  /\ UNCHANGED <<caller, explicit, run, result, next, calls, deaths>>

\* Mutant of GiveUp: the startup deadline is gone once the caller has ended.
GiveUpInCall(w) ==
  /\ step[w] = "starting"
  /\ caller = "open"
  /\ Goto(w, "gone")
  /\ UNCHANGED <<caller, explicit, run, task, pid, result, next, calls, deaths>>

\* wait_for_task_claim gives up on a task it cannot see.
GiveUp(w) ==
  /\ step[w] = "starting"
  /\ ~Visible
  /\ Goto(w, "gone")
  /\ UNCHANGED <<caller, explicit, run, task, pid, result, next, calls, deaths>>

\* The latch is checked once between the claim and the work.
CheckLatch(w) ==
  /\ step[w] = "claimed"
  /\ \/ Goto(w, "ready") /\ UNCHANGED deaths
     \/ deaths < MaxDeaths /\ deaths' = deaths + 1 /\ Goto(w, "failing")
  /\ UNCHANGED <<caller, explicit, run, task, pid, result, next, calls>>

\* Mutant of BeginTable: the run row is read without FOR UPDATE.
BeginTableUnlocked(w) ==
  /\ explicit
  /\ step[w] = "ready"
  /\ next[w] <= NTables
  /\ Goto(w, IF run \in Appendable THEN "busy" ELSE "failing")
  /\ UNCHANGED <<caller, explicit, run, task, pid, result, next, calls, deaths>>

\* run_one_table: compare locks the run row, or refuses the run.
BeginTable(w) ==
  /\ explicit
  /\ step[w] = "ready"
  /\ next[w] <= NTables
  /\ RunFree
  /\ Goto(w, IF run \in Appendable THEN "busy" ELSE "failing")
  /\ UNCHANGED <<caller, explicit, run, task, pid, result, next, calls, deaths>>

\* Mutant of Verdicts: every resumed table is compared again.
VerdictsAnew(t) == {"done", "error"}

\* A table that has a verdict other than 'error' is not compared again.
Verdicts(t) == IF result[t] = "done" THEN {"done"} ELSE {"done", "error"}

EndTable(w) ==
  /\ explicit
  /\ step[w] = "busy"
  /\ \E v \in Verdicts(next[w]) : result' = [result EXCEPT ![next[w]] = v]
  /\ run' = "running"
  /\ next' = [next EXCEPT ![w] = @ + 1]
  /\ Goto(w, "ready")
  /\ UNCHANGED <<caller, explicit, task, pid, calls, deaths>>

\* An error in a table's transaction (on_precondition_fail = abort_run, or
\* anything outside compare_table), which is rolled back.
FailTable(w) ==
  /\ explicit
  /\ step[w] = "busy"
  /\ Goto(w, "failing")
  /\ UNCHANGED <<caller, explicit, run, task, pid, result, next, calls, deaths>>

\* An error between the tables: reading the request, an injected failure, or
\* the finishing transaction as the victim of a deadlock.
Stumble(w) ==
  /\ step[w] = "ready"
  /\ Goto(w, "failing")
  /\ UNCHANGED <<caller, explicit, run, task, pid, result, next, calls, deaths>>

\* Mutants of Finish: one table early; and the task does not follow the run.
FinishEarly(w) ==
  /\ explicit
  /\ step[w] = "ready"
  /\ next[w] >= NTables
  /\ RunFree
  /\ Goto(w, "gone")
  /\ IF run # "canceled"
     THEN run' = "completed" /\ task' = "completed"
     ELSE UNCHANGED <<run, task>>
  /\ UNCHANGED <<caller, explicit, pid, result, next, calls, deaths>>

FinishTaskAnyway(w) ==
  /\ explicit
  /\ step[w] = "ready"
  /\ next[w] > NTables
  /\ RunFree
  /\ Goto(w, "gone")
  /\ run' = (IF run # "canceled" THEN "completed" ELSE run)
  /\ task' = "completed"
  /\ UNCHANGED <<caller, explicit, pid, result, next, calls, deaths>>

\* finish_explicit_table_task: the task follows the run.
Finish(w) ==
  /\ explicit
  /\ step[w] = "ready"
  /\ next[w] > NTables
  /\ RunFree
  /\ Goto(w, "gone")
  /\ IF run # "canceled"
     THEN run' = "completed" /\ task' = "completed"
     ELSE UNCHANGED <<run, task>>
  /\ UNCHANGED <<caller, explicit, pid, result, next, calls, deaths>>

\* _run_worker_task: the task row is locked, its status checked, and compare
\* locks the run row or refuses the run; a refused run fails the task.
BeginRun(w) ==
  /\ ~explicit
  /\ step[w] = "ready"
  /\ TaskFree
  /\ IF task # "running" THEN Goto(w, "failing")
     ELSE Goto(w, IF run \in Appendable THEN "busy" ELSE "aborting")
  /\ UNCHANGED <<caller, explicit, run, task, pid, result, next, calls, deaths>>

EndRun(w) ==
  /\ ~explicit
  /\ step[w] = "busy"
  /\ result' \in [Table -> {"done", "error"}]
  /\ \A t \in Table : result'[t] \in Verdicts(t)
  /\ run' = "completed"
  /\ task' = "completed"
  /\ Goto(w, "gone")
  /\ UNCHANGED <<caller, explicit, pid, next, calls, deaths>>

\* compare raised: its subtransaction is rolled back and the run row is free
\* before the failure is recorded.
AbortRun(w) ==
  /\ ~explicit
  /\ step[w] = "busy"
  /\ Goto(w, "aborting")
  /\ UNCHANGED <<caller, explicit, run, task, pid, result, next, calls, deaths>>

\* Mutants of Fail: a canceled run is failed too; and the run row is left.
FailCanceledToo == task' = "failed" /\ run' = "failed"

FailTaskOnly == task' = "failed" /\ run' = run

\* The failure of a task, and of its run unless that was canceled.
Fail == task' = "failed" /\ run' = IF run = "canceled" THEN run ELSE "failed"

RecordAbort(w) ==
  /\ step[w] = "aborting"
  /\ RunFree
  /\ Fail
  /\ Goto(w, "gone")
  /\ UNCHANGED <<caller, explicit, pid, result, next, calls, deaths>>

\* mark_task_failed.
MarkFailed(w) ==
  /\ step[w] = "failing"
  /\ RunFree
  /\ TaskFree
  /\ Fail
  /\ Goto(w, "gone")
  /\ UNCHANGED <<caller, explicit, pid, result, next, calls, deaths>>

\* The process is killed, or an error ends it instead of coming back to the
\* worker's loop; what it has not committed is rolled back.
Die(w) ==
  /\ Alive(w)
  /\ deaths < MaxDeaths
  /\ deaths' = deaths + 1
  /\ Goto(w, "gone")
  /\ UNCHANGED <<caller, explicit, run, task, pid, result, next, calls>>

Work(w) ==
  \/ Claim(w) \/ GiveUp(w) \/ CheckLatch(w)
  \/ BeginTable(w) \/ EndTable(w) \/ FailTable(w) \/ Stumble(w) \/ Finish(w)
  \/ BeginRun(w) \/ EndRun(w) \/ AbortRun(w) \/ RecordAbort(w)
  \/ MarkFailed(w)

Next ==
  \/ User
  \/ \E w \in Worker : Work(w) \/ Die(w)

Spec == Init /\ [][Next]_vars

\* Workers are scheduled and transactions end; users need do nothing.
FairSpec ==
  /\ Spec
  /\ WF_vars(CommitCaller \/ AbortCaller)
  /\ \A w \in Worker : WF_vars(Work(w))

------------------------------------------------------------------------------
(* Properties. *)

\* A canceled run stays canceled, whatever its workers and a later resume
\* still do to the row.
CanceledIsFinal == [][run = "canceled" => run' = "canceled"]_vars

\* A table's verdict, once committed, survives deaths, failures and resumes,
\* and no second worker compares the table again.
ResultsKept == [][\A t \in Table : result[t] = "done" => result'[t] = "done"]_vars

\* A run is completed only when every table of the request has a verdict,
\* however its tables were spread over workers that died or were replaced.
CompletedIsComplete == run = "completed" => \A t \in Table : result[t] # "none"

\* The run row and the task row tell the same end: a failed run has a failed
\* task to restart, and a task is completed exactly when its run is.
RowsAgree ==
  /\ run = "failed" => task = "failed"
  /\ task = "completed" <=> run = "completed"

Unfinished == Visible /\ run \notin {"none", "completed", "canceled"}

Abandoned == Unfinished /\ \A w \in Worker : ~Alive(w)

\* Once a worker has claimed the task, a run that no worker drives any more
\* can be resumed: however its workers ended, alone or two at a time, the
\* task row still says paused, failed, or running in a process that is gone.
ClaimedIsResumable == Abandoned /\ task # "queued" => Restartable

\* A run paused between two tables waits for its resume: while its row says
\* paused, no table gets a verdict after those it had.
PausedUntilResumed ==
  [][run = "paused" /\ (\E t \in Table : result[t] # "none")
       => UNCHANGED result]_vars

\* What the run and task rows say before the caller's transaction has
\* committed, and that no worker gets further than its launch until then.
Unseen ==
  /\ caller = "idle" => run = "none"
  /\ caller = "open" => run = "planning" /\ task = "queued"
  /\ caller = "aborted" => run = "none" /\ task = "none"
  /\ Visible => run # "none" /\ task # "none"
  /\ \A w \in Worker :
       step[w] \in {"claimed", "ready", "busy", "aborting", "failing"} => Visible

\* The row lock at work: one comparison at a time, over a run that can still
\* be appended to, of a table of the request.
Locked ==
  /\ \A w, v \in Worker : step[w] = "busy" /\ step[v] = "busy" => w = v
  /\ \A w \in Worker : step[w] = "busy" => run \in Appendable
  /\ \A w \in Worker : step[w] = "busy" /\ explicit => next[w] <= NTables

\* The tables a worker has passed have a verdict, whoever wrote it.
Passed ==
  \A w \in Worker : \A t \in Table : t < next[w] => result[t] # "none"

\* The inductive invariant: the run cannot lose a verdict, be taken away
\* from under a comparison, or disagree with its task.
IInv ==
  /\ TypeOK
  /\ Unseen
  /\ Locked
  /\ Passed
  /\ CompletedIsComplete
  /\ RowsAgree
  /\ task = "running" => pid # NoWorker

\* At most one worker drives the run.
OneDriver ==
  Cardinality({w \in Worker : step[w] \in {"claimed", "ready", "busy"}}) <= 1

\* No worker waits for ever, neither on a lock nor for a task that is not
\* going to appear.
WorkersEnd == <>[](\A w \in Worker : ~Alive(w))

\* Where no worker dies, a claimed run comes to rest: completed, failed,
\* canceled or paused, and never 'running' with nobody at work.
Settles ==
  <>[](deaths = 0 /\ task \notin {"none", "queued"} =>
         run \in {"completed", "failed", "canceled", "paused"})
==============================================================================
