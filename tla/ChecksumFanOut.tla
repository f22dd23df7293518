---------------------------- MODULE ChecksumFanOut ----------------------------
(***************************************************************************)
(* One call of remote_checksum_batch: the coordinator, a single process,   *)
(* keeps at most MaxParallel libpq connections busy, each with one         *)
(* checksum transaction sent as a single query, polls them in turn, and    *)
(* sleeps on their sockets and its latch when a round brought nothing.     *)
(*                                                                         *)
(* A reply travels from the server to the socket (sent), from the socket   *)
(* into libpq's buffer (read), and out of it as a result (taken).          *)
(***************************************************************************)
EXTENDS Integers, Sequences, Functions

CONSTANTS
  NTasks,       \* tasks of the wave, numbered from 1
  MaxParallel,  \* max_parallel_chunks
  Sum,          \* checksums a chunk may have
  NoSum,        \* no checksum received yet
  Oversized     \* tasks whose query may exceed the socket's send buffer

ASSUME ConstantsAssumption ==
  /\ NTasks \in Nat
  /\ MaxParallel \in Nat \ {0}
  /\ NoSum \notin Sum
  /\ Sum # {}
  /\ Oversized \subseteq 1..NTasks

VARIABLES
  pc,           \* where fetch_checksums_batch is
  started,      \* tasks taken from the pending iterator
  active,       \* connections in use, by task, in polling order
  index,        \* the connection polled next
  progress,     \* made_progress
  results,      \* results so far
  checksum,     \* ActiveChecksumTask.checksum
  link,         \* each server's side: "up", "error" (reported), "closed"
  unsent,       \* part of the query is still in libpq's output buffer
  sent, read, taken,
  snapshot,     \* the checksum each server computed in its transaction
  canceled      \* an interrupt of the backend is pending

server == <<link, sent, snapshot>>
vars == <<pc, started, active, index, progress, results, checksum, link, unsent,
          sent, read, taken, snapshot, canceled>>

Task == 1..NTasks

\* What the server answers: BEGIN, the row, COMMIT, ready for query.
Script == <<"command", "tuples", "command", "ready">>

\* A failing statement ends the query: its error is the last reply sent.
Reply(t, i) == IF link[t] = "error" /\ i = sent[t] THEN "error" ELSE Script[i]

RemoteChecksumBatchResult == [task_id : Task, checksum : Sum]

Polled == active[index]

Over == pc \in {"returned", "failed"}

TypeOK ==
  /\ pc \in {"fill", "connected", "poll", "asleep", "returned", "failed"}
  /\ started \in 0..NTasks
  /\ active \in Seq(Task)
  /\ index \in 1..MaxParallel + 1
  /\ progress \in BOOLEAN
  /\ results \in Seq(RemoteChecksumBatchResult)
  /\ checksum \in [Task -> Sum \cup {NoSum}]
  /\ link \in [Task -> {"up", "error", "closed"}]
  /\ unsent \in [Task -> BOOLEAN]
  /\ sent \in [Task -> 0..4]
  /\ read \in [Task -> 0..4]
  /\ taken \in [Task -> 0..4]
  /\ snapshot \in [Task -> Sum \cup {NoSum}]
  /\ canceled \in BOOLEAN

Init ==
  /\ pc = "fill"
  /\ started = 0
  /\ active = <<>>
  /\ index = 1
  /\ progress = FALSE
  /\ results = <<>>
  /\ checksum = [t \in Task |-> NoSum]
  /\ link = [t \in Task |-> "up"]
  /\ unsent = [t \in Task |-> FALSE]
  /\ sent = [t \in Task |-> 0]
  /\ read = [t \in Task |-> 0]
  /\ taken = [t \in Task |-> 0]
  /\ snapshot = [t \in Task |-> NoSum]
  /\ canceled = FALSE

------------------------------------------------------------------------------
(* The servers, the network and the user. *)

Connected == {active[i] : i \in 1..Len(active)}

Hears(t) == t \in Connected /\ link[t] = "up" /\ ~unsent[t] /\ sent[t] < 4

Answer(t) ==
  /\ Hears(t)
  /\ sent' = [sent EXCEPT ![t] = @ + 1]
  /\ IF sent[t] = 1
     THEN \E s \in Sum : snapshot' = [snapshot EXCEPT ![t] = s]
     ELSE UNCHANGED snapshot
  /\ UNCHANGED <<pc, started, active, index, progress, results, checksum, link,
                 unsent, read, taken, canceled>>

\* The statement fails: an error of its own, its timeouts, a failing COMMIT.
StatementFails(t) ==
  /\ Hears(t)
  /\ sent[t] < 3
  /\ link' = [link EXCEPT ![t] = "error"]
  /\ sent' = [sent EXCEPT ![t] = @ + 1]
  /\ UNCHANGED <<pc, started, active, index, progress, results, checksum,
                 unsent, read, taken, snapshot, canceled>>

\* The server or the network goes away, before or after the connection is made.
Closes(t) ==
  /\ link[t] = "up"
  /\ ~Over
  /\ link' = [link EXCEPT ![t] = "closed"]
  /\ UNCHANGED <<pc, started, active, index, progress, results, checksum,
                 unsent, sent, read, taken, snapshot, canceled>>

Interrupt ==
  /\ ~canceled
  /\ ~Over
  /\ canceled' = TRUE
  /\ UNCHANGED <<pc, started, active, index, progress, results, checksum, server,
                 unsent, read, taken>>

------------------------------------------------------------------------------
(* The coordinator. *)

\* An Err drops every connection with the vector that holds it.
Fail ==
  /\ pc' = "failed"
  /\ active' = <<>>
  /\ UNCHANGED <<started, index, progress, results, checksum, server, unsent,
                 read, taken, canceled>>

MayStart == Len(active) < MaxParallel /\ started < NTasks

\* Connection::connect_with_timeout of the next pending task; it blocks.
Connect ==
  /\ pc = "fill"
  /\ MayStart
  /\ IF link[started + 1] = "closed"
     THEN Fail
     ELSE /\ pc' = "connected"
          /\ started' = started + 1
          /\ UNCHANGED <<active, index, progress, results, checksum, server,
                         unsent, read, taken, canceled>>

\* Mutant of SendQuery: the query is filed under the task after it.
SendQueryOfNext ==
  /\ pc = "connected"
  /\ IF link[started] = "closed"
     THEN Fail
     ELSE /\ pc' = "fill"
          /\ active' = Append(active, started + 1)
          /\ UNCHANGED <<started, index, progress, results, checksum, server,
                         unsent, read, taken, canceled>>

\* The timeouts are set, and the query is handed to libpq, which may keep part
\* of a large one.
SendQuery ==
  /\ pc = "connected"
  /\ IF link[started] = "closed"
     THEN Fail
     ELSE /\ pc' = "fill"
          /\ active' = Append(active, started)
          /\ \E kept \in {FALSE} \cup {started \in Oversized} :
               unsent' = [unsent EXCEPT ![started] = kept]
          /\ UNCHANGED <<started, index, progress, results, checksum, server,
                         read, taken, canceled>>

BeginRound ==
  /\ pc = "fill"
  /\ ~MayStart
  /\ active # <<>>
  /\ pc' = "poll"
  /\ index' = 1
  /\ progress' = FALSE
  /\ UNCHANGED <<started, active, results, checksum, server, unsent, read, taken,
                 canceled>>

\* Mutant of ById: results stay in the order the answers came in.
ByArrival(a, b) == TRUE

ById(a, b) == a.task_id <= b.task_id

\* results.sort_by_key, and the end.
Return ==
  /\ pc = "fill"
  /\ ~MayStart
  /\ active = <<>>
  /\ pc' = "returned"
  /\ \E order \in Bijection(1..Len(results), 1..Len(results)) :
       results' = [i \in 1..Len(results) |-> results[order[i]]]
  /\ \A i, j \in 1..Len(results) : i < j => ById(results'[i], results'[j])
  /\ UNCHANGED <<started, active, index, progress, checksum, server, unsent, read,
                 taken, canceled>>

\* PQconsumeInput: flushes what it can of the query and reads some of what has
\* arrived, if anything has.
ConsumeInput(t) ==
  /\ read[t] < sent[t] \/ link[t] # "closed"
  /\ \E n \in read[t]..sent[t] :
       /\ n = read[t] => read[t] = sent[t]
       /\ read' = [read EXCEPT ![t] = n]
  /\ \E kept \in {FALSE, unsent[t]} : unsent' = [unsent EXCEPT ![t] = kept]

\* Mutant of SwapRemove: pop() instead.
PopLast(s, i) == SubSeq(s, 1, Len(s) - 1)

\* Vec::swap_remove
SwapRemove(s, i) ==
  [j \in 1..Len(s) - 1 |-> IF j = i THEN s[Len(s)] ELSE s[j]]

Rejected(t, reply) ==
  \/ reply = "error"
  \/ reply = "tuples" /\ checksum[t] # NoSum
  \/ reply = "ready" /\ checksum[t] = NoSum

\* Mutant of Take: try_finish returns None after each reply.
TakeOne(t, reply) ==
  /\ reply \in {"command", "tuples"}
  /\ checksum' = IF reply = "tuples" THEN [checksum EXCEPT ![t] = snapshot[t]]
                 ELSE checksum
  /\ index' = index + 1
  /\ UNCHANGED <<active, progress, results>>

\* The replies that leave the loop of try_finish going.
Take(t, reply) ==
  /\ reply \in {"command", "tuples"}
  /\ checksum' = IF reply = "tuples" THEN [checksum EXCEPT ![t] = snapshot[t]]
                 ELSE checksum
  /\ UNCHANGED <<active, index, progress, results>>

\* Mutant of Finish: a task is done as soon as its row is there.
FinishOnRow(t, reply) ==
  /\ checksum[t] # NoSum
  /\ results' = Append(results, [task_id |-> t, checksum |-> checksum[t]])
  /\ active' = SwapRemove(active, index)
  /\ progress' = TRUE
  /\ UNCHANGED <<index, checksum>>

\* PQgetResult returns NULL: the query is complete and the connection goes.
Finish(t, reply) ==
  /\ reply = "ready"
  /\ results' = Append(results, [task_id |-> t, checksum |-> checksum[t]])
  /\ active' = SwapRemove(active, index)
  /\ progress' = TRUE
  /\ UNCHANGED <<index, checksum>>

\* PQisBusy: no complete reply in the buffer; try_finish returns None.
Busy(t) ==
  /\ read'[t] = taken[t]
  /\ index' = index + 1
  /\ UNCHANGED <<active, progress, results, checksum, taken, pc>>

\* One turn of the loop in try_finish.
TryFinish ==
  /\ pc = "poll"
  /\ index <= Len(active)
  /\ ConsumeInput(Polled)
  /\ \/ Busy(Polled)
     \/ /\ read'[Polled] > taken[Polled]
        /\ taken' = [taken EXCEPT ![Polled] = @ + 1]
        /\ LET reply == Reply(Polled, taken[Polled] + 1) IN
             IF Rejected(Polled, reply)
             THEN /\ pc' = "failed"
                  /\ active' = <<>>
                  /\ UNCHANGED <<index, progress, results, checksum>>
             ELSE /\ Take(Polled, reply) \/ Finish(Polled, reply)
                  /\ UNCHANGED pc
  /\ UNCHANGED <<started, server, canceled>>

ConnectionLost ==
  /\ pc = "poll"
  /\ index <= Len(active)
  /\ link[Polled] = "closed"
  /\ read[Polled] = sent[Polled]
  /\ Fail

EndRound ==
  /\ pc = "poll"
  /\ index > Len(active)
  /\ pc' = IF progress THEN "fill" ELSE "asleep"
  /\ UNCHANGED <<started, active, index, progress, results, checksum, server,
                 unsent, read, taken, canceled>>

\* Mutant of Readable: only input is waited for, not the end of the connection.
ReadableInput == \E t \in Connected : read[t] < sent[t]

\* The sockets are watched for input and closing, not for room to write.
Readable == \E t \in Connected : read[t] < sent[t] \/ link[t] = "closed"

\* wait_for_remote_input returns, or raises the pending interrupt.
Wake ==
  /\ pc = "asleep"
  /\ IF canceled
     THEN Fail
     ELSE /\ Readable
          /\ pc' = "fill"
          /\ UNCHANGED <<started, active, index, progress, results, checksum,
                         server, unsent, read, taken, canceled>>

Coordinator ==
  \/ Connect
  \/ SendQuery
  \/ BeginRound
  \/ TryFinish
  \/ ConnectionLost
  \/ EndRound
  \/ Wake
  \/ Return

Server(t) == Answer(t) \/ StatementFails(t) \/ Closes(t)

Next == Coordinator \/ Interrupt \/ \E t \in Task : Server(t)

Spec == Init /\ [][Next]_vars

\* The backend is scheduled, and statement_timeout makes a server that has the
\* whole query answer it one way or the other.
FairSpec ==
  /\ Spec
  /\ WF_vars(Coordinator)
  /\ \A t \in Task : WF_vars(Hears(t) /\ Server(t))

------------------------------------------------------------------------------
(* Properties *)

\* fetch_checksums_batch never goes to sleep on an answer it already holds: a
\* reply in libpq's buffer makes no socket readable and would wake nobody.
NeverSleepsOnAnswer ==
  pc = "asleep" => \A t \in Connected : read[t] = taken[t]

\* However connections come and go in the vector, no task is run twice, none is
\* polled after it is finished, and the limit on connections holds.
EachTaskOnce ==
  /\ Len(active) <= MaxParallel
  /\ \A i, j \in 1..Len(active) : active[i] = active[j] => i = j
  /\ \A i, j \in 1..Len(results) :
       results[i].task_id = results[j].task_id => i = j
  /\ \A i \in 1..Len(results) : results[i].task_id \notin Connected

\* A result is the checksum of the task's own transaction, and that transaction
\* has committed: a row received before a failing COMMIT is never used.
ResultsCommitted ==
  \A i \in 1..Len(results) :
    LET t == results[i].task_id IN
      /\ results[i].checksum = snapshot[t]
      /\ taken[t] = 4
      /\ link[t] # "error"

\* What remote_checksum_batch returns has every task, in task order, whatever
\* order the answers came in; the wave joins it to its chunks.
ReturnsAll ==
  pc = "returned" =>
    results = [t \in Task |-> [task_id |-> t, checksum |-> snapshot[t]]]

\* A batch ends, unless part of an oversized query stays in libpq's buffer:
\* nothing wakes the coordinator to write the rest.
EndsUnlessUnsent == <>Over \/ <>[](\E t \in Connected : unsent[t])
==============================================================================
