------------------------ MODULE ChecksumFanOut_proofs ------------------------
(***************************************************************************)
(* Proofs about ChecksumFanOut for any number of tasks and connections:    *)
(* its inductive invariant, and the safety properties it implies.          *)
(***************************************************************************)
EXTENDS ChecksumFanOut, DataLemmas, TLAPS

\* Only started tasks are filed, and the one just connected is filed nowhere.
Filed ==
  /\ \A i \in 1..Len(active) : active[i] <= started
  /\ \A i \in 1..Len(results) : results[i].task_id <= started
  /\ pc = "connected" =>
       /\ started > 0
       /\ Len(active) < MaxParallel
       /\ started \notin Connected
       /\ \A i \in 1..Len(results) : results[i].task_id # started

\* A reply is sent before it is read and read before it is taken; a checksum is
\* the one its server computed; a failed statement has not sent its last reply.
Answers ==
  \A t \in Task :
    /\ taken[t] <= read[t]
    /\ read[t] <= sent[t]
    /\ checksum[t] # NoSum => taken[t] >= 2 /\ checksum[t] = snapshot[t]
    /\ link[t] = "error" => sent[t] <= 3

\* In a round without progress, the connections polled so far are drained.
PolledAreDrained ==
  pc = "poll" /\ ~progress =>
    \A i \in 1..Len(active) :
      i < index => read[active[i]] = taken[active[i]]

IInv ==
  /\ TypeOK
  /\ EachTaskOnce
  /\ Filed
  /\ Answers
  /\ ResultsCommitted
  /\ PolledAreDrained
  /\ NeverSleepsOnAnswer

------------------------------------------------------------------------------
(* Lemmas about Vec::swap_remove and Vec::push. *)

\* No element of s comes twice.
NoRepeat(s) == \A j, k \in 1..Len(s) : s[j] = s[k] => j = k

\* What swap_remove leaves of s: one element less, none of them the one removed,
\* each an old element, at most once.
TakesOne(S, s, i) ==
  /\ SwapRemove(s, i) \in Seq(S)
  /\ Len(SwapRemove(s, i)) = Len(s) - 1
  /\ \A j \in 1..Len(s) - 1 :
       /\ SwapRemove(s, i)[j] # s[i]
       /\ \E k \in 1..Len(s) : SwapRemove(s, i)[j] = s[k]
  /\ \A j, k \in 1..Len(s) - 1 :
       SwapRemove(s, i)[j] = SwapRemove(s, i)[k] => j = k

\* swap_remove takes out one element of a sequence that repeats none.
LEMMA SwapRemoveTakesOne ==
  ASSUME NEW S, NEW s \in Seq(S), NEW i \in 1..Len(s), NoRepeat(s)
  PROVE  TakesOne(S, s, i)
  <1> DEFINE r == SwapRemove(s, i)
  <1>1. Len(s) \in Nat /\ Len(s) >= 1
    OBVIOUS
  <1>2. \A j \in 1..Len(s) : s[j] \in S
    OBVIOUS
  <1>3. r \in [1..Len(s) - 1 -> S]
    BY <1>1, <1>2 DEF SwapRemove
  <1>4. r \in Seq(S) /\ Len(r) = Len(s) - 1
    BY <1>1, <1>3
  <1>5. \A j \in 1..Len(s) - 1 : r[j] = IF j = i THEN s[Len(s)] ELSE s[j]
    BY DEF SwapRemove
  <1>6. QED
    BY <1>1, <1>4, <1>5 DEF NoRepeat, TakesOne

\* push adds its element at the end and leaves the others alone.
LEMMA AppendAddsOne ==
  ASSUME NEW S, NEW s \in Seq(S), NEW e \in S
  PROVE  /\ Append(s, e) \in Seq(S)
         /\ Len(Append(s, e)) = Len(s) + 1
         /\ \A j \in 1..Len(s) : Append(s, e)[j] = s[j]
         /\ Append(s, e)[Len(s) + 1] = e
  OBVIOUS

------------------------------------------------------------------------------
(* The invariant, action by action. *)

LEMMA Initial == Init => IInv
  <1> SUFFICES ASSUME Init PROVE IInv
    OBVIOUS
  <1>1. /\ pc = "fill" /\ active = <<>> /\ results = <<>>
        /\ Len(active) = 0 /\ Len(results) = 0
    BY DEF Init
  <1>2. TypeOK
    <2>1. active \in Seq(Task) /\ results \in Seq(RemoteChecksumBatchResult)
      BY <1>1
    <2>2. started \in 0..NTasks /\ index \in 1..MaxParallel + 1
      BY ConstantsAssumption DEF Init
    <2>3. /\ checksum \in [Task -> Sum \cup {NoSum}]
          /\ snapshot \in [Task -> Sum \cup {NoSum}]
          /\ link \in [Task -> {"up", "error", "closed"}]
          /\ unsent \in [Task -> BOOLEAN]
      BY DEF Init
    <2>4. /\ sent \in [Task -> 0..4]
          /\ read \in [Task -> 0..4]
          /\ taken \in [Task -> 0..4]
      BY DEF Init
    <2>5. pc = "fill" /\ progress = FALSE /\ canceled = FALSE
      BY DEF Init
    <2>6. QED
      BY <2>1, <2>2, <2>3, <2>4, <2>5 DEF TypeOK
  <1>3. EachTaskOnce /\ Filed /\ ResultsCommitted
    BY <1>1, ConstantsAssumption DEF EachTaskOnce, Filed, ResultsCommitted
  <1>4. Answers
    BY DEF Init, Answers
  <1>5. PolledAreDrained /\ NeverSleepsOnAnswer
    BY <1>1 DEF PolledAreDrained, NeverSleepsOnAnswer
  <1>6. QED
    BY <1>2, <1>3, <1>4, <1>5 DEF IInv

\* Every way out with an error drops the connections and leaves the rest.
LEMMA FailKeepsInvariant == IInv /\ Fail => IInv'
  <1> SUFFICES ASSUME IInv, Fail PROVE IInv'
    OBVIOUS
  <1>1. active' = <<>> /\ Len(active') = 0 /\ pc' = "failed"
    BY DEF Fail
  <1>2. UNCHANGED <<started, index, progress, results, checksum, server, unsent,
                    read, taken, canceled>>
    BY DEF Fail
  <1>3. TypeOK'
    BY <1>1, <1>2 DEF IInv, TypeOK, server
  <1>4. EachTaskOnce' /\ Filed'
    BY <1>1, <1>2, ConstantsAssumption
    DEF IInv, EachTaskOnce, Filed, Connected
  <1>5. Answers' /\ ResultsCommitted'
    BY <1>2 DEF IInv, Answers, ResultsCommitted, server
  <1>6. PolledAreDrained' /\ NeverSleepsOnAnswer'
    BY <1>1 DEF PolledAreDrained, NeverSleepsOnAnswer
  <1>7. QED
    BY <1>3, <1>4, <1>5, <1>6 DEF IInv

\* A filed result is of a task whose server has sent all four replies.
LEMMA ResultIsComplete ==
  ASSUME IInv, NEW i \in 1..Len(results)
  PROVE  /\ results[i].task_id \in Task
         /\ results[i].checksum \in Sum
         /\ sent[results[i].task_id] = 4
  <1>1. results[i] \in RemoteChecksumBatchResult
    BY DEF IInv, TypeOK
  <1> DEFINE u == results[i].task_id
  <1>2. u \in Task /\ results[i].checksum \in Sum
    BY <1>1 DEF RemoteChecksumBatchResult
  <1>3. taken[u] \in 0..4 /\ read[u] \in 0..4 /\ sent[u] \in 0..4
    BY <1>2 DEF IInv, TypeOK
  <1>4. taken[u] = 4 /\ taken[u] <= read[u] /\ read[u] <= sent[u]
    BY <1>2 DEF IInv, Answers, ResultsCommitted
  <1>5. QED
    BY <1>2, <1>3, <1>4

LEMMA AnswerKeepsInvariant ==
  ASSUME NEW t \in Task, IInv, Answer(t) PROVE IInv'
  <1>1. /\ t \in Connected /\ link[t] = "up" /\ sent[t] \in 0..3
        /\ sent' = [sent EXCEPT ![t] = @ + 1]
        /\ UNCHANGED <<pc, started, active, index, progress, results, checksum,
                       link, unsent, read, taken, canceled>>
    BY DEF Answer, Hears, IInv, TypeOK
  <1>2. \/ sent[t] = 1 /\ \E s \in Sum : snapshot' = [snapshot EXCEPT ![t] = s]
        \/ UNCHANGED snapshot
    BY DEF Answer
  <1>3. TypeOK'
    <2>1. sent' \in [Task -> 0..4]
      <3>1. sent \in [Task -> 0..4] /\ sent[t] + 1 \in 0..4
        BY <1>1 DEF IInv, TypeOK
      <3> QED
        BY <1>1, <3>1
    <2>2. snapshot' \in [Task -> Sum \cup {NoSum}]
      <3>1. snapshot \in [Task -> Sum \cup {NoSum}]
        BY DEF IInv, TypeOK
      <3> QED
        BY <1>2, <3>1
    <2> QED
      BY <1>1, <2>1, <2>2 DEF IInv, TypeOK
  <1>4. EachTaskOnce' /\ Filed' /\ PolledAreDrained' /\ NeverSleepsOnAnswer'
    BY <1>1
    DEF IInv, EachTaskOnce, Filed, PolledAreDrained, NeverSleepsOnAnswer, Connected
  <1>5. \A u \in Task : sent'[u] >= sent[u] /\ (u # t => sent'[u] = sent[u])
    BY <1>1 DEF IInv, TypeOK
  <1>6. \A u \in Task : snapshot'[u] = snapshot[u] \/ sent[u] = 1
    BY <1>2 DEF IInv, TypeOK
  <1>7. Answers'
    BY <1>1, <1>5, <1>6 DEF IInv, TypeOK, Answers
  <1>8. ResultsCommitted'
    <2> SUFFICES ASSUME NEW i \in 1..Len(results)
                 PROVE  LET u == results[i].task_id IN
                          /\ results[i].checksum = snapshot'[u]
                          /\ taken[u] = 4 /\ link[u] # "error"
      BY <1>1 DEF ResultsCommitted
    <2>1. results[i].task_id \in Task
      BY ResultIsComplete
    <2>2. sent[results[i].task_id] = 4
      BY ResultIsComplete
    <2>3. QED
      BY <1>6, <2>1, <2>2 DEF IInv, ResultsCommitted
  <1>9. QED
    BY <1>3, <1>4, <1>7, <1>8 DEF IInv

LEMMA StatementFailsKeepsInvariant ==
  ASSUME NEW t \in Task, IInv, StatementFails(t) PROVE IInv'
  <1>1. /\ link[t] = "up" /\ sent[t] \in 0..2
        /\ link' = [link EXCEPT ![t] = "error"]
        /\ sent' = [sent EXCEPT ![t] = @ + 1]
        /\ UNCHANGED <<pc, started, active, index, progress, results, checksum,
                       unsent, read, taken, snapshot, canceled>>
    BY DEF StatementFails, Hears, IInv, TypeOK
  <1>2. TypeOK'
    BY <1>1 DEF IInv, TypeOK
  <1>3. EachTaskOnce' /\ Filed' /\ PolledAreDrained' /\ NeverSleepsOnAnswer'
    BY <1>1
    DEF IInv, EachTaskOnce, Filed, PolledAreDrained, NeverSleepsOnAnswer, Connected
  <1>4. Answers'
    BY <1>1 DEF IInv, TypeOK, Answers
  <1>5. ResultsCommitted'
    <2> SUFFICES ASSUME NEW i \in 1..Len(results)
                 PROVE  LET u == results[i].task_id IN
                          /\ results[i].checksum = snapshot[u]
                          /\ taken[u] = 4 /\ link'[u] # "error"
      BY <1>1 DEF ResultsCommitted
    <2>1. results[i].task_id \in Task
      BY ResultIsComplete
    <2>2. sent[results[i].task_id] = 4
      BY ResultIsComplete
    <2>3. results[i].task_id # t
      BY <1>1, <2>2
    <2>4. QED
      BY <1>1, <2>1, <2>3 DEF IInv, TypeOK, ResultsCommitted
  <1>6. QED
    BY <1>2, <1>3, <1>4, <1>5 DEF IInv

LEMMA ClosesKeepsInvariant ==
  ASSUME NEW t \in Task, IInv, Closes(t) PROVE IInv'
  <1>1. /\ link' = [link EXCEPT ![t] = "closed"]
        /\ UNCHANGED <<pc, started, active, index, progress, results, checksum,
                       unsent, sent, read, taken, snapshot, canceled>>
    BY DEF Closes
  <1>2. \A u \in Task : link'[u] = "error" => link[u] = "error"
    BY <1>1 DEF IInv, TypeOK
  <1>3. TypeOK'
    BY <1>1 DEF IInv, TypeOK
  <1>4. EachTaskOnce' /\ Filed' /\ PolledAreDrained' /\ NeverSleepsOnAnswer'
    BY <1>1
    DEF IInv, EachTaskOnce, Filed, PolledAreDrained, NeverSleepsOnAnswer, Connected
  <1>5. Answers'
    BY <1>1, <1>2 DEF IInv, Answers
  <1>6. ResultsCommitted'
    BY <1>1, <1>2 DEF IInv, TypeOK, ResultsCommitted, RemoteChecksumBatchResult
  <1>7. QED
    BY <1>3, <1>4, <1>5, <1>6 DEF IInv

\* Steps that only move the loop on: no connection, result or answer changes.
LEMMA MovesKeepInvariant ==
  ASSUME IInv,
         Interrupt \/ BeginRound \/ EndRound \/ (Wake /\ ~canceled)
  PROVE  IInv'
  <1>1. UNCHANGED <<started, active, results, checksum, server, unsent, read,
                    taken>>
    BY DEF Interrupt, BeginRound, EndRound, Wake
  <1>2. \/ UNCHANGED <<pc, index, progress>> /\ canceled' = TRUE
        \/ pc' = "poll" /\ index' = 1 /\ progress' = FALSE /\ UNCHANGED canceled
        \/ /\ pc = "poll" /\ index > Len(active)
           /\ pc' = IF progress THEN "fill" ELSE "asleep"
           /\ UNCHANGED <<index, progress, canceled>>
        \/ pc' = "fill" /\ UNCHANGED <<index, progress, canceled>>
    BY DEF Interrupt, BeginRound, EndRound, Wake
  <1>3. TypeOK'
    <2>1. index' \in 1..MaxParallel + 1
      BY <1>2, ConstantsAssumption DEF IInv, TypeOK
    <2>2. QED
      BY <1>1, <1>2, <2>1 DEF IInv, TypeOK, server
  <1>4. EachTaskOnce' /\ Answers' /\ ResultsCommitted'
    BY <1>1 DEF IInv, EachTaskOnce, Answers, ResultsCommitted, Connected, server
  <1>5. Filed'
    BY <1>1, <1>2 DEF IInv, Filed, Connected
  <1>6. PolledAreDrained'
    BY <1>1, <1>2 DEF IInv, TypeOK, PolledAreDrained
  <1>7. NeverSleepsOnAnswer'
    <2>1. CASE pc' # "asleep"
      BY <2>1 DEF NeverSleepsOnAnswer
    <2>2. CASE pc' = "asleep" /\ pc = "asleep"
      BY <1>1, <2>2 DEF IInv, NeverSleepsOnAnswer, Connected
    <2>3. CASE pc' = "asleep" /\ pc # "asleep"
      <3>1. pc = "poll" /\ index > Len(active) /\ ~progress
        BY <1>2, <2>3
      <3>2. Len(active) \in Nat /\ index \in Int
        BY DEF IInv, TypeOK
      <3>3. \A i \in 1..Len(active) : read[active[i]] = taken[active[i]]
        BY <3>1, <3>2 DEF IInv, PolledAreDrained
      <3>4. QED
        BY <1>1, <3>3 DEF NeverSleepsOnAnswer, Connected
    <2>4. QED
      BY <2>1, <2>2, <2>3
  <1>8. QED
    BY <1>3, <1>4, <1>5, <1>6, <1>7 DEF IInv

\* connect_with_timeout takes the next task, which is filed nowhere yet.
LEMMA ConnectKeepsInvariant == IInv /\ Connect => IInv'
  <1> SUFFICES ASSUME IInv, Connect PROVE IInv'
    OBVIOUS
  <1>1. CASE link[started + 1] = "closed"
    BY <1>1, FailKeepsInvariant DEF Connect
  <1>2. CASE link[started + 1] # "closed"
    <2>1. /\ pc' = "connected" /\ started' = started + 1
          /\ UNCHANGED <<active, index, progress, results, checksum, server,
                         unsent, read, taken, canceled>>
      BY <1>2 DEF Connect
    <2>2. /\ Len(active) < MaxParallel /\ started < NTasks
          /\ started \in Nat /\ NTasks \in Nat
      BY ConstantsAssumption DEF Connect, MayStart, IInv, TypeOK
    <2>3. TypeOK'
      BY <2>1, <2>2 DEF IInv, TypeOK, server
    <2>4. \A i \in 1..Len(active) : active[i] \in Nat /\ active[i] <= started
      BY ConstantsAssumption DEF IInv, TypeOK, Filed, Task
    <2>5. \A i \in 1..Len(results) :
            results[i].task_id \in Nat /\ results[i].task_id <= started
      BY ResultIsComplete, ConstantsAssumption DEF IInv, Filed, Task
    <2>6. Filed'
      BY <2>1, <2>2, <2>4, <2>5 DEF Filed, Connected
    <2>7. EachTaskOnce' /\ Answers' /\ ResultsCommitted'
      BY <2>1
      DEF IInv, EachTaskOnce, Answers, ResultsCommitted, Connected, server
    <2>8. PolledAreDrained' /\ NeverSleepsOnAnswer'
      BY <2>1 DEF PolledAreDrained, NeverSleepsOnAnswer
    <2>9. QED
      BY <2>3, <2>6, <2>7, <2>8 DEF IInv
  <1>3. QED
    BY <1>1, <1>2

\* send_query files the connection made last.
LEMMA SendQueryKeepsInvariant == IInv /\ SendQuery => IInv'
  <1> SUFFICES ASSUME IInv, SendQuery PROVE IInv'
    OBVIOUS
  <1>1. CASE link[started] = "closed"
    BY <1>1, FailKeepsInvariant DEF SendQuery
  <1>2. CASE link[started] # "closed"
    <2>1. /\ pc = "connected" /\ pc' = "fill"
          /\ active' = Append(active, started)
          /\ UNCHANGED <<started, index, progress, results, checksum, server,
                         read, taken, canceled>>
      BY <1>2 DEF SendQuery
    <2>2. PICK kept \in {FALSE} \cup {started \in Oversized} :
            unsent' = [unsent EXCEPT ![started] = kept]
      BY <1>2 DEF SendQuery
    <2>3. /\ started \in Task /\ Len(active) < MaxParallel
          /\ \A i \in 1..Len(active) : active[i] # started
          /\ \A i \in 1..Len(results) : results[i].task_id # started
      BY <2>1, ConstantsAssumption DEF IInv, TypeOK, Filed, Connected, Task
    <2>4. active \in Seq(Task) /\ Len(active) \in Nat
      BY DEF IInv, TypeOK
    <2>5. /\ active' \in Seq(Task)
          /\ Len(active') = Len(active) + 1
          /\ \A j \in 1..Len(active) : active'[j] = active[j]
          /\ active'[Len(active) + 1] = started
      BY <2>1, <2>3, <2>4, AppendAddsOne
    <2>6. \A j \in 1..Len(active') : j \in 1..Len(active) \/ j = Len(active) + 1
      BY <2>4, <2>5
    <2>7. TypeOK'
      <3>1. unsent' \in [Task -> BOOLEAN]
        BY <2>2, <2>3 DEF IInv, TypeOK
      <3>2. QED
        BY <2>1, <2>5, <3>1 DEF IInv, TypeOK, server
    <2>8. EachTaskOnce'
      <3>1. Len(active') <= MaxParallel
        BY <2>3, <2>4, <2>5, ConstantsAssumption
      <3>2. \A i, j \in 1..Len(active') : active'[i] = active'[j] => i = j
        BY <2>3, <2>5, <2>6 DEF IInv, EachTaskOnce
      <3>3. \A i \in 1..Len(results) : results[i].task_id \notin Connected'
        BY <2>3, <2>5, <2>6 DEF IInv, EachTaskOnce, Connected
      <3>4. QED
        BY <2>1, <3>1, <3>2, <3>3 DEF IInv, EachTaskOnce
    <2>9. Filed'
      <3>1. \A i \in 1..Len(active') : active'[i] <= started
        BY <2>3, <2>5, <2>6 DEF IInv, Filed, Task
      <3>2. QED
        BY <2>1, <3>1 DEF IInv, Filed
    <2>10. Answers' /\ ResultsCommitted'
      BY <2>1 DEF IInv, Answers, ResultsCommitted, server
    <2>11. PolledAreDrained' /\ NeverSleepsOnAnswer'
      BY <2>1 DEF PolledAreDrained, NeverSleepsOnAnswer
    <2>12. QED
      BY <2>7, <2>8, <2>9, <2>10, <2>11 DEF IInv
  <1>3. QED
    BY <1>1, <1>2

\* No two results are of the same task, so sorted by task they are rising.
LEMMA SortedIsRising ==
  ASSUME IInv, Return
  PROVE  \A i, j \in 1..Len(results) :
           i < j => results'[i].task_id < results'[j].task_id
  <1>1. PICK order \in Bijection(1..Len(results), 1..Len(results)) :
          results' = [i \in 1..Len(results) |-> results[order[i]]]
    BY DEF Return
  <1>2. \A i, j \in 1..Len(results) :
          i < j => results'[i].task_id <= results'[j].task_id
    BY DEF Return, ById
  <1>3. Len(results) \in Nat
    BY DEF IInv, TypeOK
  <1>4. \A i \in 1..Len(results) :
          order[i] \in 1..Len(results) /\ results'[i] = results[order[i]]
    BY <1>1 DEF Bijection, Injection
  <1>5. \A i, j \in 1..Len(results) :
          i < j => results[order[i]].task_id # results[order[j]].task_id
    <2>1. \A i, j \in 1..Len(results) : i < j => order[i] # order[j]
      BY <1>1, <1>3 DEF Bijection, Injection, IsInjective
    <2> QED
      BY <1>4, <2>1 DEF IInv, EachTaskOnce
  <1>6. \A i \in 1..Len(results) : results'[i].task_id \in Int
    BY <1>4, ResultIsComplete DEF Task
  <1> QED
    BY <1>2, <1>3, <1>4, <1>5, <1>6

\* The results returned are those filed, in an order in which no task is twice.
LEMMA ReturnKeepsInvariant == IInv /\ Return => IInv'
  <1> SUFFICES ASSUME IInv, Return PROVE IInv'
    OBVIOUS
  <1>1. /\ pc' = "returned" /\ active = <<>>
        /\ UNCHANGED <<started, active, index, progress, checksum, server, unsent,
                       read, taken, canceled>>
    BY DEF Return
  <1>2. PICK order \in Bijection(1..Len(results), 1..Len(results)) :
          results' = [i \in 1..Len(results) |-> results[order[i]]]
    BY DEF Return
  <1>3. \A i, j \in 1..Len(results) :
          i < j => results'[i].task_id < results'[j].task_id
    BY SortedIsRising
  <1>4. Len(results) \in Nat
    BY DEF IInv, TypeOK
  <1>5. \A i \in 1..Len(results) :
          order[i] \in 1..Len(results) /\ results'[i] = results[order[i]]
    BY <1>2 DEF Bijection, Injection
  <1>6. results \in Seq(RemoteChecksumBatchResult)
    BY DEF IInv, TypeOK
  <1>7. results' \in Seq(RemoteChecksumBatchResult) /\ Len(results') = Len(results)
    <2>1. \A i \in 1..Len(results) : results'[i] \in RemoteChecksumBatchResult
      BY <1>5, <1>6
    <2>2. results' \in [1..Len(results) -> RemoteChecksumBatchResult]
      BY <1>2, <2>1
    <2>3. QED
      BY <1>4, <2>2
  <1>8. TypeOK'
    BY <1>1, <1>7 DEF IInv, TypeOK, server
  <1>9. EachTaskOnce'
    <2>1. \A i \in 1..Len(results) : results'[i].task_id \in Int
      BY <1>5, ResultIsComplete DEF Task
    <2>2. \A i, j \in 1..Len(results) :
            results'[i].task_id = results'[j].task_id => i = j
      BY <1>3, <1>4, <2>1
    <2>3. \A i \in 1..Len(results) : results'[i].task_id \notin Connected'
      BY <1>1, <1>5 DEF IInv, EachTaskOnce, Connected
    <2>4. QED
      BY <1>1, <1>7, <2>2, <2>3 DEF IInv, EachTaskOnce
  <1>10. Filed' /\ ResultsCommitted'
    BY <1>1, <1>5, <1>7 DEF IInv, Filed, ResultsCommitted, server
  <1>11. Answers'
    BY <1>1 DEF IInv, Answers, server
  <1>12. PolledAreDrained' /\ NeverSleepsOnAnswer'
    BY <1>1 DEF PolledAreDrained, NeverSleepsOnAnswer
  <1>13. QED
    BY <1>8, <1>9, <1>10, <1>11, <1>12 DEF IInv

\* What a turn of try_finish starts from, whichever way it ends.
LEMMA TurnFacts ==
  ASSUME IInv, TryFinish
  PROVE  /\ pc = "poll" /\ Polled \in Task /\ index \in 1..Len(active)
         /\ Len(active) \in 0..MaxParallel /\ MaxParallel \in Nat
         /\ read' \in [Task -> 0..4]
         /\ read[Polled] <= read'[Polled] /\ read'[Polled] <= sent[Polled]
         /\ \A u \in Task : u # Polled => read'[u] = read[u]
         /\ unsent' \in [Task -> BOOLEAN]
         /\ UNCHANGED <<started, server, canceled>>
         /\ \A i \in 1..Len(results) : results[i].task_id # Polled
  <1>1. pc = "poll" /\ index <= Len(active) /\ UNCHANGED <<started, server, canceled>>
    BY DEF TryFinish
  <1>2. /\ index \in 1..Len(active) /\ Len(active) \in 0..MaxParallel
        /\ MaxParallel \in Nat /\ active \in Seq(Task)
    BY <1>1, ConstantsAssumption DEF IInv, TypeOK, EachTaskOnce
  <1>3. Polled \in Task /\ Polled \in Connected
    BY <1>2 DEF Polled, Connected
  <1>4. read[Polled] \in 0..4 /\ sent[Polled] \in 0..4
    BY <1>3 DEF IInv, TypeOK
  <1>5. PICK n \in read[Polled]..sent[Polled] : read' = [read EXCEPT ![Polled] = n]
    BY DEF TryFinish, ConsumeInput
  <1>6. n \in 0..4 /\ read[Polled] <= n /\ n <= sent[Polled]
    BY <1>4
  <1>7. /\ read' \in [Task -> 0..4] /\ read'[Polled] = n
        /\ \A u \in Task : u # Polled => read'[u] = read[u]
    BY <1>3, <1>5, <1>6 DEF IInv, TypeOK
  <1>8. unsent' \in [Task -> BOOLEAN]
    <2>1. PICK kept \in {FALSE, unsent[Polled]} :
            unsent' = [unsent EXCEPT ![Polled] = kept]
      BY DEF TryFinish, ConsumeInput
    <2>2. QED
      BY <1>3, <2>1 DEF IInv, TypeOK
  <1>9. \A i \in 1..Len(results) : results[i].task_id # Polled
    BY <1>3 DEF IInv, EachTaskOnce
  <1>10. QED
    BY <1>1, <1>2, <1>3, <1>6, <1>7, <1>8, <1>9

\* Busy(t): nothing is left to take from this connection, and the next is polled.
LEMMA BusyKeepsInvariant ==
  ASSUME IInv, TryFinish, Busy(Polled) PROVE IInv'
  <1>1. /\ read'[Polled] = taken[Polled] /\ index' = index + 1
        /\ UNCHANGED <<active, progress, results, checksum, taken, pc>>
    BY DEF Busy
  <1>2. TypeOK'
    <2>1. index' \in 1..MaxParallel + 1
      BY <1>1, TurnFacts
    <2>2. QED
      BY <1>1, <2>1, TurnFacts DEF IInv, TypeOK, server
  <1>3. EachTaskOnce' /\ Filed' /\ ResultsCommitted'
    BY <1>1, TurnFacts
    DEF IInv, EachTaskOnce, Filed, ResultsCommitted, Connected, server
  <1>4. Answers'
    <2>1. \A u \in Task : taken[u] <= read'[u] /\ read'[u] <= sent[u]
      <3> SUFFICES ASSUME NEW u \in Task
                   PROVE  taken[u] <= read'[u] /\ read'[u] <= sent[u]
        OBVIOUS
      <3>1. CASE u = Polled
        BY <1>1, <3>1, TurnFacts DEF IInv, TypeOK
      <3>2. CASE u # Polled
        BY <3>2, TurnFacts DEF IInv, Answers
      <3>3. QED
        BY <3>1, <3>2
    <2>2. QED
      BY <1>1, <2>1, TurnFacts DEF IInv, Answers, server
  <1>5. PolledAreDrained'
    <2> SUFFICES ASSUME ~progress, NEW i \in 1..Len(active), i < index + 1
                 PROVE  read'[active[i]] = taken[active[i]]
      BY <1>1, TurnFacts DEF PolledAreDrained
    <2>1. CASE i = index
      BY <1>1, <2>1 DEF Polled
    <2>2. CASE i < index
      <3>1. active[i] \in Task /\ active[i] # Polled
        BY <2>2, TurnFacts DEF IInv, TypeOK, EachTaskOnce, Polled
      <3>2. read[active[i]] = taken[active[i]]
        BY <2>2, TurnFacts DEF IInv, PolledAreDrained
      <3>3. QED
        BY <3>1, <3>2, TurnFacts
    <2>3. QED
      BY <2>1, <2>2, TurnFacts
  <1>6. NeverSleepsOnAnswer'
    BY <1>1, TurnFacts DEF NeverSleepsOnAnswer
  <1>7. QED
    BY <1>2, <1>3, <1>4, <1>5, <1>6 DEF IInv

\* A reply is taken out of the buffer: what that alone does, before the reply is
\* looked at.
LEMMA TakenFacts ==
  ASSUME IInv, TryFinish, ~Busy(Polled)
  PROVE  /\ taken' = [taken EXCEPT ![Polled] = @ + 1]
         /\ taken' \in [Task -> 0..4]
         /\ taken'[Polled] = taken[Polled] + 1 /\ taken[Polled] \in 0..3
         /\ \A u \in Task : u # Polled => taken'[u] = taken[u]
         /\ \A u \in Task : taken'[u] <= read'[u] /\ read'[u] <= sent[u]
         /\ link[Polled] = "error" => taken'[Polled] <= 3
  <1>1. taken' = [taken EXCEPT ![Polled] = @ + 1] /\ read'[Polled] > taken[Polled]
    BY DEF TryFinish
  <1>2. Polled \in Task /\ read' \in [Task -> 0..4]
    BY TurnFacts
  <1>3. taken[Polled] \in 0..4 /\ read'[Polled] \in 0..4 /\ sent[Polled] \in 0..4
    BY <1>2 DEF IInv, TypeOK
  <1>4. taken[Polled] \in 0..3 /\ taken[Polled] + 1 \in 0..4
    BY <1>1, <1>3
  <1>5. /\ taken' \in [Task -> 0..4] /\ taken'[Polled] = taken[Polled] + 1
        /\ \A u \in Task : u # Polled => taken'[u] = taken[u]
    BY <1>1, <1>2, <1>4 DEF IInv, TypeOK
  <1>6. taken'[Polled] <= read'[Polled] /\ read'[Polled] <= sent[Polled]
    BY <1>1, <1>3, <1>5, TurnFacts
  <1>7. \A u \in Task : taken'[u] <= read'[u] /\ read'[u] <= sent[u]
    BY <1>5, <1>6, TurnFacts DEF IInv, Answers
  <1>8. link[Polled] = "error" => taken'[Polled] <= 3
    BY <1>2, <1>3, <1>4, <1>5, <1>6 DEF IInv, Answers
  <1>9. QED
    BY <1>1, <1>4, <1>5, <1>7, <1>8

\* An error, a second row or a missing one ends the call.
LEMMA RejectedKeepsInvariant ==
  ASSUME IInv, TryFinish, ~Busy(Polled),
         Rejected(Polled, Reply(Polled, taken[Polled] + 1))
  PROVE  IInv'
  <1>1. /\ pc' = "failed" /\ active' = <<>> /\ Len(active') = 0
        /\ UNCHANGED <<index, progress, results, checksum>>
    BY DEF TryFinish
  <1>2. TypeOK'
    BY <1>1, TurnFacts, TakenFacts DEF IInv, TypeOK, server
  <1>3. EachTaskOnce' /\ Filed'
    BY <1>1, TurnFacts, ConstantsAssumption
    DEF IInv, EachTaskOnce, Filed, Connected
  <1>4. Answers'
    <2>1. \A u \in Task : checksum[u] # NoSum => taken'[u] >= 2
      BY TurnFacts, TakenFacts DEF IInv, TypeOK, Answers
    <2>2. QED
      BY <1>1, <2>1, TurnFacts, TakenFacts DEF IInv, Answers, server
  <1>5. ResultsCommitted'
    BY <1>1, TurnFacts, TakenFacts, ResultIsComplete
    DEF IInv, ResultsCommitted, server
  <1>6. PolledAreDrained' /\ NeverSleepsOnAnswer'
    BY <1>1 DEF PolledAreDrained, NeverSleepsOnAnswer
  <1>7. QED
    BY <1>2, <1>3, <1>4, <1>5, <1>6 DEF IInv

\* BEGIN's and COMMIT's completions, and the row: the loop goes on.
LEMMA TakeKeepsInvariant ==
  ASSUME IInv, TryFinish, ~Busy(Polled), UNCHANGED pc,
         Take(Polled, Reply(Polled, taken[Polled] + 1))
  PROVE  IInv'
  <1> DEFINE reply == Reply(Polled, taken[Polled] + 1)
  <1>1. /\ UNCHANGED <<pc, active, index, progress, results>>
        /\ checksum' = IF reply = "tuples"
                       THEN [checksum EXCEPT ![Polled] = snapshot[Polled]]
                       ELSE checksum
    BY DEF Take
  <1>2. Polled \in Task /\ taken[Polled] \in 0..3
    BY TurnFacts, TakenFacts
  <1>3. reply = "tuples" => taken'[Polled] = 2
    <2>1. Script[1] = "command" /\ Script[2] = "tuples" /\ Script[3] = "command"
          /\ Script[4] = "ready"
      BY DEF Script
    <2>2. reply = "tuples" => taken[Polled] + 1 = 2
      BY <1>2, <2>1 DEF Reply
    <2>3. QED
      BY <2>2, TakenFacts
  <1>4. checksum' \in [Task -> Sum \cup {NoSum}]
    BY <1>1, <1>2 DEF IInv, TypeOK
  <1>5. TypeOK'
    BY <1>1, <1>4, TurnFacts, TakenFacts DEF IInv, TypeOK, server
  <1>6. EachTaskOnce' /\ Filed'
    BY <1>1, TurnFacts DEF IInv, EachTaskOnce, Filed, Connected
  <1>7. Answers'
    <2>1. \A u \in Task :
            checksum'[u] # NoSum => taken'[u] >= 2 /\ checksum'[u] = snapshot[u]
      <3> SUFFICES ASSUME NEW u \in Task, checksum'[u] # NoSum
                   PROVE  taken'[u] >= 2 /\ checksum'[u] = snapshot[u]
        OBVIOUS
      <3>1. CASE u = Polled /\ reply = "tuples"
        BY <1>1, <1>3, <3>1 DEF IInv, TypeOK
      <3>2. CASE ~(u = Polled /\ reply = "tuples")
        <4>1. checksum'[u] = checksum[u]
          BY <1>1, <3>2 DEF IInv, TypeOK
        <4>2. taken[u] >= 2 /\ checksum[u] = snapshot[u] /\ taken[u] \in 0..4
          BY <4>1 DEF IInv, TypeOK, Answers
        <4>3. QED
          BY <4>1, <4>2, TakenFacts
      <3>3. QED
        BY <3>1, <3>2
    <2>2. QED
      BY <2>1, TurnFacts, TakenFacts DEF IInv, Answers, server
  <1>8. ResultsCommitted'
    BY <1>1, TurnFacts, TakenFacts, ResultIsComplete
    DEF IInv, ResultsCommitted, server
  <1>9. PolledAreDrained'
    <2> SUFFICES ASSUME ~progress, NEW i \in 1..Len(active), i < index
                 PROVE  read'[active[i]] = taken'[active[i]]
      BY <1>1, TurnFacts DEF PolledAreDrained
    <2>1. active[i] \in Task /\ active[i] # Polled
      BY TurnFacts DEF IInv, TypeOK, EachTaskOnce, Polled
    <2>2. read[active[i]] = taken[active[i]]
      BY TurnFacts DEF IInv, PolledAreDrained
    <2>3. QED
      BY <2>1, <2>2, TurnFacts, TakenFacts
  <1>10. NeverSleepsOnAnswer'
    BY <1>1, TurnFacts DEF NeverSleepsOnAnswer
  <1>11. QED
    BY <1>5, <1>6, <1>7, <1>8, <1>9, <1>10 DEF IInv

\* The end of the replies: the result is filed and the connection leaves.
LEMMA FinishKeepsInvariant ==
  ASSUME IInv, TryFinish, ~Busy(Polled), UNCHANGED pc,
         ~Rejected(Polled, Reply(Polled, taken[Polled] + 1)),
         Finish(Polled, Reply(Polled, taken[Polled] + 1))
  PROVE  IInv'
  <1> DEFINE reply == Reply(Polled, taken[Polled] + 1)
             result == [task_id |-> Polled, checksum |-> checksum[Polled]]
  <1>1. /\ reply = "ready" /\ checksum[Polled] # NoSum
        /\ results' = Append(results, result)
        /\ active' = SwapRemove(active, index)
        /\ progress' = TRUE
        /\ UNCHANGED <<pc, index, checksum>>
    BY DEF Finish, Rejected
  <1>2. /\ Polled \in Task /\ taken[Polled] \in 0..3
        /\ active \in Seq(Task) /\ index \in 1..Len(active)
    BY TurnFacts, TakenFacts DEF IInv, TypeOK
  <1>3. taken'[Polled] = 4
    <2>1. Script[1] = "command" /\ Script[2] = "tuples" /\ Script[3] = "command"
          /\ Script[4] = "ready"
      BY DEF Script
    <2>2. taken[Polled] + 1 = 4
      BY <1>1, <1>2, <2>1 DEF Reply
    <2>3. QED
      BY <2>2, TakenFacts
  <1>4. checksum[Polled] \in Sum /\ checksum[Polled] = snapshot[Polled]
    BY <1>1, <1>2 DEF IInv, TypeOK, Answers
  <1>5. link[Polled] # "error"
    BY <1>3, TakenFacts
  <1>6. result \in RemoteChecksumBatchResult
    BY <1>2, <1>4 DEF RemoteChecksumBatchResult
  <1>7. /\ results \in Seq(RemoteChecksumBatchResult) /\ Len(results) \in Nat
        /\ results' \in Seq(RemoteChecksumBatchResult)
        /\ Len(results') = Len(results) + 1
        /\ \A j \in 1..Len(results) : results'[j] = results[j]
        /\ results'[Len(results) + 1] = result
    <2>1. results \in Seq(RemoteChecksumBatchResult)
      BY DEF IInv, TypeOK
    <2>2. QED
      BY <1>1, <1>6, <2>1, AppendAddsOne
  <1>8. \A j \in 1..Len(results') :
          \/ j \in 1..Len(results) /\ results'[j] = results[j]
          \/ j = Len(results) + 1 /\ results'[j] = result
    BY <1>7
  <1>9. \A i, j \in 1..Len(active) : active[i] = active[j] => i = j
    BY DEF IInv, EachTaskOnce
  <1>10. /\ active' \in Seq(Task) /\ Len(active') = Len(active) - 1
         /\ \A j \in 1..Len(active') : \E k \in 1..Len(active) : active'[j] = active[k]
         /\ \A j \in 1..Len(active') : active'[j] # Polled
         /\ \A j, k \in 1..Len(active') : active'[j] = active'[k] => j = k
    <2>1. active[index] = Polled
      BY DEF Polled
    <2>2. active' = SwapRemove(active, index)
      BY <1>1
    <2>3. active \in Seq(Task) /\ index \in 1..Len(active)
      BY <1>2
    <2>4. NoRepeat(active)
      BY <1>9 DEF NoRepeat
    <2>5. TakesOne(Task, active, index)
      BY <2>3, <2>4, SwapRemoveTakesOne
    <2>6. QED
      BY <2>1, <2>2, <2>5 DEF TakesOne
  <1>11. TypeOK'
    BY <1>1, <1>7, <1>10, TurnFacts, TakenFacts DEF IInv, TypeOK, server
  <1>12. EachTaskOnce'
    <2>1. Len(active') <= MaxParallel
      BY <1>10, TurnFacts
    <2>2. \A i, j \in 1..Len(results') :
            results'[i].task_id = results'[j].task_id => i = j
      BY <1>7, <1>8, TurnFacts DEF IInv, EachTaskOnce
    <2>3. \A i \in 1..Len(results') : results'[i].task_id \notin Connected'
      <3> SUFFICES ASSUME NEW i \in 1..Len(results'), NEW j \in 1..Len(active')
                   PROVE  results'[i].task_id # active'[j]
        BY DEF Connected
      <3>1. CASE i \in 1..Len(results) /\ results'[i] = results[i]
        <4>1. results[i].task_id \notin Connected
          BY <3>1 DEF IInv, EachTaskOnce
        <4>2. active'[j] \in Connected
          BY <1>10 DEF Connected
        <4>3. QED
          BY <3>1, <4>1, <4>2
      <3>2. CASE results'[i] = result
        BY <1>10, <3>2
      <3>3. QED
        BY <1>8, <3>1, <3>2
    <2>4. QED
      BY <1>10, <2>1, <2>2, <2>3 DEF EachTaskOnce
  <1>13. Filed'
    <2>1. \A i \in 1..Len(active) : active[i] <= started
      BY DEF IInv, Filed
    <2>2. Polled <= started
      BY <1>2, <2>1 DEF Polled
    <2>3. \A i \in 1..Len(active') : active'[i] <= started
      BY <1>10, <2>1
    <2>4. \A i \in 1..Len(results') : results'[i].task_id <= started
      BY <1>8, <2>2 DEF IInv, Filed
    <2>5. QED
      BY <1>1, <2>3, <2>4, TurnFacts DEF Filed
  <1>14. Answers'
    <2>1. \A u \in Task : checksum[u] # NoSum => taken'[u] >= 2
      <3> SUFFICES ASSUME NEW u \in Task, checksum[u] # NoSum PROVE taken'[u] >= 2
        OBVIOUS
      <3>1. CASE u = Polled
        BY <1>3, <3>1
      <3>2. CASE u # Polled
        BY <3>2, TakenFacts DEF IInv, Answers
      <3>3. QED
        BY <3>1, <3>2
    <2>2. QED
      BY <1>1, <2>1, TurnFacts, TakenFacts DEF IInv, Answers, server
  <1>15. ResultsCommitted'
    <2> SUFFICES ASSUME NEW i \in 1..Len(results')
                 PROVE  LET u == results'[i].task_id IN
                          /\ results'[i].checksum = snapshot[u]
                          /\ taken'[u] = 4 /\ link[u] # "error"
      BY TurnFacts DEF ResultsCommitted, server
    <2>1. CASE i = Len(results) + 1
      BY <1>3, <1>4, <1>5, <1>7, <2>1
    <2>2. CASE i \in 1..Len(results)
      BY <1>7, <2>2, ResultIsComplete, TurnFacts, TakenFacts
      DEF IInv, ResultsCommitted
    <2>3. QED
      BY <1>8, <2>1, <2>2
  <1>16. PolledAreDrained' /\ NeverSleepsOnAnswer'
    BY <1>1, TurnFacts DEF PolledAreDrained, NeverSleepsOnAnswer
  <1>17. QED
    BY <1>11, <1>12, <1>13, <1>14, <1>15, <1>16 DEF IInv

------------------------------------------------------------------------------
(* The theorems. *)

LEMMA CoordinatorKeepsInvariant == IInv /\ Coordinator => IInv'
  <1> SUFFICES ASSUME IInv, Coordinator PROVE IInv'
    OBVIOUS
  <1>1. CASE TryFinish
    <2>1. CASE Busy(Polled)
      BY <1>1, <2>1, BusyKeepsInvariant
    <2>2. CASE ~Busy(Polled)
      <3> DEFINE reply == Reply(Polled, taken[Polled] + 1)
      <3>1. CASE Rejected(Polled, reply)
        BY <1>1, <2>2, <3>1, RejectedKeepsInvariant
      <3>2. CASE ~Rejected(Polled, reply)
        <4>1. (Take(Polled, reply) \/ Finish(Polled, reply)) /\ UNCHANGED pc
          BY <1>1, <2>2, <3>2 DEF TryFinish
        <4>2. QED
          BY <1>1, <2>2, <3>2, <4>1, TakeKeepsInvariant, FinishKeepsInvariant
      <3>3. QED
        BY <3>1, <3>2
    <2>3. QED
      BY <2>1, <2>2
  <1>2. CASE BeginRound \/ EndRound
    BY <1>2, MovesKeepInvariant
  <1>3. CASE Wake
    <2>1. CASE canceled
      BY <1>3, <2>1, FailKeepsInvariant DEF Wake
    <2>2. QED
      BY <1>3, <2>1, MovesKeepInvariant
  <1>4. CASE ConnectionLost
    BY <1>4, FailKeepsInvariant DEF ConnectionLost
  <1>5. QED
    BY <1>1, <1>2, <1>3, <1>4, ConnectKeepsInvariant, SendQueryKeepsInvariant,
       ReturnKeepsInvariant
    DEF Coordinator

LEMMA StepKeepsInvariant == IInv /\ [Next]_vars => IInv'
  <1> SUFFICES ASSUME IInv, [Next]_vars PROVE IInv'
    OBVIOUS
  <1>1. CASE Coordinator
    BY <1>1, CoordinatorKeepsInvariant
  <1>2. CASE Interrupt
    BY <1>2, MovesKeepInvariant
  <1>3. CASE \E t \in Task : Server(t)
    BY <1>3, AnswerKeepsInvariant, StatementFailsKeepsInvariant,
       ClosesKeepsInvariant
    DEF Server
  <1>4. CASE UNCHANGED vars
    BY <1>4
    DEF vars, server, IInv, TypeOK, EachTaskOnce, Filed, Answers,
        ResultsCommitted, PolledAreDrained, NeverSleepsOnAnswer, Connected
  <1>5. QED
    BY <1>1, <1>2, <1>3, <1>4 DEF Next

LEMMA Invariance == Spec => []IInv
  BY Initial, StepKeepsInvariant, PTL DEF Spec

\* Every reachable state of fetch_checksums_batch has its type, for any number of
\* tasks and connections.
THEOREM TypeCorrect == Spec => []TypeOK
  BY Invariance, PTL DEF IInv

\* wait_for_remote_input is never called while libpq's buffer of some connection
\* still holds a reply that no readable socket would announce.
THEOREM NeverSleeps == Spec => []NeverSleepsOnAnswer
  BY Invariance, PTL DEF IInv

\* swap_remove, push and the pending iterator together run each task at most
\* once, on at most max_parallel connections.
THEOREM TasksOnce == Spec => []EachTaskOnce
  BY Invariance, PTL DEF IInv

\* A checksum is handed on only after the COMMIT of its own transaction.
THEOREM Committed == Spec => []ResultsCommitted
  BY Invariance, PTL DEF IInv
------------------------------------------------------------------------------
(* What the batch returns. *)

Underway == IF pc = "connected" THEN 1 ELSE 0

\* Until it fails, every task the batch has started is connecting, in the vector
\* or among the results; and what it has returned is all there is.
Counted ==
  /\ pc # "failed" => started = Len(active) + Len(results) + Underway
  /\ pc = "returned" => active = <<>>

\* The end of a batch: all tasks have a result, and sorting them by task
\* identifier leaves one place for each.
LEMMA ReturnIsAll ==
  ASSUME IInv, Counted, Return
  PROVE  ReturnsAll'
  <1> DEFINE n == Len(results)
  <1>1. /\ n = NTasks /\ n \in Nat /\ Task = 1..n
        /\ snapshot' = snapshot
    <2>1. /\ pc = "fill" /\ active = <<>> /\ Len(active) = 0 /\ started >= NTasks
      BY ConstantsAssumption DEF Return, MayStart, IInv, TypeOK
    <2>2. n \in Nat /\ started \in 0..NTasks /\ NTasks \in Nat
      BY ConstantsAssumption DEF IInv, TypeOK
    <2>3. started = n
      BY <2>1, <2>2 DEF Counted, Underway
    <2> QED
      BY <2>1, <2>2, <2>3 DEF Return, server, Task
  <1>2. PICK order \in Bijection(1..n, 1..n) :
          results' = [i \in 1..n |-> results[order[i]]]
    BY DEF Return
  <1>3. \A i, j \in 1..n : i < j => results'[i].task_id < results'[j].task_id
    BY SortedIsRising
  <1>4. \A i \in 1..n : order[i] \in 1..n /\ results'[i] = results[order[i]]
    BY <1>2 DEF Bijection, Injection
  <1>5. \A i \in 1..n : /\ results'[i] \in RemoteChecksumBatchResult
                        /\ results'[i].task_id \in 1..n
                        /\ results'[i].checksum = snapshot[results'[i].task_id]
    <2>1. \A j \in 1..n : /\ results[j] \in RemoteChecksumBatchResult
                          /\ results[j].checksum = snapshot[results[j].task_id]
      BY DEF IInv, TypeOK, ResultsCommitted
    <2>2. \A j \in 1..n : results[j].task_id \in 1..n
      BY <1>1, <2>1 DEF RemoteChecksumBatchResult
    <2> QED
      BY <1>4, <2>1, <2>2
  <1> DEFINE ids == [i \in 1..n |-> results'[i].task_id]
  <1>6. ids \in [1..n -> 1..n] /\ \A i, j \in 1..n : i < j => ids[i] < ids[j]
    BY <1>3, <1>5
  <1> HIDE DEF ids, n
  <1>7. \A i \in 1..n : ids[i] = i
    BY <1>1, <1>6, RisingIsIdentity
  <1>8. \A i \in 1..n : results'[i] = [task_id |-> i, checksum |-> snapshot[i]]
    BY <1>5, <1>7 DEF ids, RemoteChecksumBatchResult
  <1>9. results' = [t \in Task |-> [task_id |-> t, checksum |-> snapshot'[t]]]
    BY <1>1, <1>2, <1>8
  <1> QED
    BY <1>9 DEF ReturnsAll

LEMMA ReturnKeepsCount ==
  ASSUME IInv, Counted, Return
  PROVE  Counted'
  <1>1. /\ pc = "fill" /\ pc' = "returned" /\ active = <<>>
        /\ UNCHANGED <<started, active>>
    BY DEF Return
  <1>2. \E order : results' = [i \in 1..Len(results) |-> results[order[i]]]
    BY DEF Return
  <1>3. Len(results) \in Nat
    BY DEF IInv, TypeOK
  <1>4. Len(results') = Len(results)
    BY <1>2, <1>3
  <1> QED
    BY <1>1, <1>4 DEF Counted, Underway

\* The one step that moves a connection from the vector to the results.
LEMMA FinishKeepsCount ==
  ASSUME IInv, Counted, TryFinish, UNCHANGED pc,
         Finish(Polled, Reply(Polled, taken[Polled] + 1)),
         ~Rejected(Polled, Reply(Polled, taken[Polled] + 1))
  PROVE  Counted'
  <1>1. /\ pc = "poll" /\ UNCHANGED started
        /\ Polled \in Task /\ index \in 1..Len(active) /\ Len(active) \in Nat
    BY TurnFacts
  <1>2. /\ results' = Append(results, [task_id |-> Polled, checksum |-> checksum[Polled]])
        /\ active' = SwapRemove(active, index)
        /\ checksum[Polled] # NoSum
    BY DEF Finish, Rejected
  <1>3. Len(active') = Len(active) - 1
    BY <1>1, <1>2 DEF SwapRemove
  <1>4. results \in Seq(RemoteChecksumBatchResult)
        /\ [task_id |-> Polled, checksum |-> checksum[Polled]] \in RemoteChecksumBatchResult
    BY <1>1, <1>2 DEF IInv, TypeOK, RemoteChecksumBatchResult
  <1>5. Len(results') = Len(results) + 1 /\ Len(results) \in Nat
    BY <1>2, <1>4, AppendAddsOne
  <1> QED
    BY <1>1, <1>3, <1>5 DEF Counted, Underway

LEMMA TurnKeepsCount ==
  ASSUME IInv, Counted, TryFinish
  PROVE  Counted'
  <1> DEFINE reply == Reply(Polled, taken[Polled] + 1)
  <1>1. pc = "poll" /\ UNCHANGED started
    BY DEF TryFinish
  <1>2. CASE UNCHANGED <<pc, active, results>>
    BY <1>1, <1>2 DEF Counted, Underway
  <1>3. CASE pc' = "failed"
    BY <1>3 DEF Counted
  <1>4. CASE ~Busy(Polled)
    <2>1. CASE Rejected(Polled, reply)
      BY <1>3, <1>4, <2>1 DEF TryFinish
    <2>2. CASE ~Rejected(Polled, reply)
      <3>1. (Take(Polled, reply) \/ Finish(Polled, reply)) /\ UNCHANGED pc
        BY <1>4, <2>2 DEF TryFinish
      <3>2. CASE Take(Polled, reply)
        BY <1>2, <3>1, <3>2 DEF Take
      <3>3. CASE Finish(Polled, reply)
        BY <2>2, <3>1, <3>3, FinishKeepsCount
      <3> QED
        BY <3>1, <3>2, <3>3
    <2> QED
      BY <2>1, <2>2
  <1> QED
    BY <1>2, <1>4 DEF Busy

\* Every other step moves at most one task, from pending through connecting into
\* the vector.
LEMMA StartKeepsCount ==
  ASSUME IInv, Counted, Connect \/ SendQuery
  PROVE  Counted'
  <1>1. CASE pc' = "failed"
    BY <1>1 DEF Counted
  <1>2. CASE Connect /\ pc' # "failed"
    BY <1>2 DEF Connect, Fail, Counted, Underway, IInv, TypeOK
  <1>3. CASE SendQuery /\ pc' # "failed"
    <2>1. /\ pc = "connected" /\ pc' = "fill" /\ UNCHANGED <<started, results>>
          /\ active' = Append(active, started)
      BY <1>3 DEF SendQuery, Fail
    <2>2. active \in Seq(Task) /\ started \in Task /\ Len(results) \in Nat
      BY <2>1, ConstantsAssumption DEF IInv, TypeOK, Filed, Task
    <2>3. Len(active') = Len(active) + 1 /\ Len(active) \in Nat
      BY <2>1, <2>2
    <2> QED
      BY <2>1, <2>2, <2>3 DEF Counted, Underway
  <1> QED
    BY <1>1, <1>2, <1>3

LEMMA StepKeepsCount ==
  ASSUME IInv, Counted, ReturnsAll, [Next]_vars
  PROVE  Counted' /\ ReturnsAll'
  <1>1. CASE Return
    BY <1>1, ReturnIsAll, ReturnKeepsCount
  <1>2. CASE TryFinish
    <2>1. pc' # "returned"
      BY <1>2 DEF TryFinish, Busy
    <2> QED
      BY <1>2, <2>1, TurnKeepsCount DEF ReturnsAll
  <1>3. CASE Connect \/ SendQuery
    <2>1. pc' # "returned"
      BY <1>3 DEF Connect, SendQuery, Fail
    <2> QED
      BY <1>3, <2>1, StartKeepsCount DEF ReturnsAll
  <1>4. CASE BeginRound \/ EndRound \/ ConnectionLost \/ Wake
    <2>1. /\ pc # "connected"
          /\ pc' \in {"fill", "poll", "asleep", "failed"}
          /\ pc' # "failed" => pc # "failed" /\ UNCHANGED <<started, active, results>>
      BY <1>4 DEF BeginRound, EndRound, ConnectionLost, Wake, Fail
    <2> QED
      BY <2>1 DEF Counted, Underway, ReturnsAll
  <1>5. CASE Interrupt \/ (\E t \in Task : Server(t)) \/ UNCHANGED vars
    <2>1. UNCHANGED <<pc, started, active, results>>
      BY <1>5 DEF Interrupt, Server, Answer, StatementFails, Closes, vars
    <2>2. active = <<>> => UNCHANGED snapshot
      BY <1>5
      DEF Interrupt, Server, Answer, StatementFails, Closes, Hears, Connected,
          server, vars
    <2> QED
      BY <2>1, <2>2 DEF Counted, Underway, ReturnsAll
  <1> QED
    BY <1>1, <1>2, <1>3, <1>4, <1>5 DEF Next, Coordinator

\* Whatever order the answers come in, remote_checksum_batch returns one for every
\* task, in task order, for any number of tasks and connections.
THEOREM ReturnsEverything == Spec => []ReturnsAll
  <1>1. Init => Counted /\ ReturnsAll
    BY DEF Init, Counted, Underway, ReturnsAll
  <1>2. IInv /\ (Counted /\ ReturnsAll) /\ [Next]_vars => (Counted /\ ReturnsAll)'
    BY StepKeepsCount
  <1> QED
    BY <1>1, <1>2, Invariance, PTL DEF Spec
==============================================================================
