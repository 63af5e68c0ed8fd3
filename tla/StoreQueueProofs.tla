--------------------------- MODULE StoreQueueProofs -------------------------
(***************************************************************************)
(* Theorems about StoreQueue, for any number of threads, any drain limit   *)
(* and any number of calls and crashes.                                    *)
(***************************************************************************)
EXTENDS StoreQueue, SequenceTheorems, TLAPS

-----------------------------------------------------------------------------
(* Sequences without repetition *)

\* The members of a sequence that lost its head.
LEMMA TailMembers ==
  ASSUME NEW S, NEW q \in Seq(S), q # <<>>
  PROVE  /\ Head(q) \in S /\ Tail(q) \in Seq(S)
         /\ Head(q) \in Range(q) /\ Range(Tail(q)) \subseteq Range(q)
         /\ IsInjective(q) => IsInjective(Tail(q)) /\ Head(q) \notin Range(Tail(q))
<1>1. Head(q) \in S /\ Tail(q) \in Seq(S)
  BY HeadTailProperties
<1>2. Len(q) \in Nat /\ Len(q) >= 1 /\ DOMAIN q = 1..Len(q) /\ Head(q) = q[1]
  BY HeadTailProperties, EmptySeq, LenProperties
<1>3. DOMAIN Tail(q) = 1..(Len(q) - 1) /\ \A i \in 1..(Len(q) - 1) : Tail(q)[i] = q[i + 1]
  BY <1>1, <1>2, HeadTailProperties, LenProperties
<1>4. Head(q) \in Range(q) /\ Range(Tail(q)) \subseteq Range(q)
  BY <1>2, <1>3 DEF Range
<1>5. IsInjective(q) => IsInjective(Tail(q)) /\ Head(q) \notin Range(Tail(q))
  BY <1>2, <1>3 DEF Range, IsInjective
<1> QED BY <1>1, <1>4, <1>5

\* The members of a sequence with one more at its end.
LEMMA AppendMembers ==
  ASSUME NEW S, NEW q \in Seq(S), NEW x \in S
  PROVE  /\ Append(q, x) \in Seq(S) /\ Range(Append(q, x)) = Range(q) \cup {x}
         /\ IsInjective(q) /\ x \notin Range(q) => IsInjective(Append(q, x))
<1>1. Append(q, x) \in Seq(S)
  BY AppendProperties
<1>2. Len(q) \in Nat /\ DOMAIN q = 1..Len(q)
  BY LenProperties
<1>3. /\ DOMAIN Append(q, x) = 1..(Len(q) + 1) /\ Append(q, x)[Len(q) + 1] = x
      /\ \A i \in 1..Len(q) : Append(q, x)[i] = q[i]
  BY <1>1, <1>2, AppendProperties, LenProperties
<1>4. Range(Append(q, x)) = Range(q) \cup {x}
  BY <1>2, <1>3 DEF Range
<1>5. IsInjective(q) /\ x \notin Range(q) => IsInjective(Append(q, x))
  BY <1>2, <1>3 DEF Range, IsInjective
<1> QED BY <1>1, <1>4, <1>5

\* The members of a sequence with one more at its front.
LEMMA PrependMembers ==
  ASSUME NEW S, NEW q \in Seq(S), NEW x \in S
  PROVE  /\ <<x>> \o q \in Seq(S) /\ Range(<<x>> \o q) = Range(q) \cup {x}
         /\ IsInjective(q) /\ x \notin Range(q) => IsInjective(<<x>> \o q)
<1>1. <<x>> \in Seq(S) /\ Len(<<x>>) = 1 /\ <<x>>[1] = x
  OBVIOUS
<1>2. /\ <<x>> \o q \in Seq(S) /\ Len(<<x>> \o q) = Len(q) + 1
      /\ Len(q) \in Nat /\ DOMAIN q = 1..Len(q)
  BY <1>1, ConcatProperties, LenProperties
<1>3. /\ DOMAIN (<<x>> \o q) = 1..(Len(q) + 1) /\ (<<x>> \o q)[1] = x
      /\ \A i \in 2..(Len(q) + 1) : (<<x>> \o q)[i] = q[i - 1]
  BY <1>1, <1>2, ConcatProperties, LenProperties
<1>4. Range(<<x>> \o q) = Range(q) \cup {x}
  <2>1. Range(<<x>>) = {x}
    BY DEF Range
  <2>2. Range(<<x>> \o q) = Range(<<x>>) \cup Range(q)
    BY <1>1, RangeConcatenation
  <2> QED BY <2>1, <2>2
<1>5. IsInjective(q) /\ x \notin Range(q) => IsInjective(<<x>> \o q)
  BY <1>2, <1>3 DEF Range, IsInjective
<1> QED BY <1>2, <1>4, <1>5

\* A sequence of nothing.
LEMMA NoMembers == ASSUME NEW S PROVE <<>> \in Seq(S) /\ Range(<<>>) = {} /\ IsInjective(<<>>)
  BY EmptySeq DEF Range, IsInjective

-----------------------------------------------------------------------------
(* The inductive invariant behind exclusive access. *)

Draining == {"drain", "running", "answer"}

\* A caller that only a holder can wake.
Sleeping(t) == pc[t] = "waiting" /\ ~job[t].handed

\* The queue holds sleeping callers, each once.
QueueSleeps ==
  /\ IsInjective(queue)
  /\ \A u \in Range(queue) : Sleeping(u)

\* So does the batch of a draining holder, and no caller is in both.
BatchSleeps ==
  \A t \in Threads : pc[t] \in Draining =>
    /\ IsInjective(frame[t].batched)
    /\ \A u \in Range(frame[t].batched) : Sleeping(u) /\ u \notin Range(queue)

\* The job a holder popped and runs is in neither.
RunningSleeps ==
  \A t \in Threads : pc[t] = "running" =>
    /\ frame[t].batching
    /\ frame[t].running \in Threads /\ Sleeping(frame[t].running)
    /\ frame[t].running \notin Range(queue)
    /\ frame[t].running \notin Range(frame[t].batched)

\* A holder comes to the hand-over, and a caller to its body, with no batch.
NothingBatched ==
  \A t \in Threads :
    \/ pc[t] \in {"taken", "waiting", "woken", "body", "holding", "write"}
    \/ pc[t] = "drain" /\ ~frame[t].batching
    => frame[t].batched = <<>>

HoldInv ==
  /\ TypeOK /\ ExclusiveHold
  /\ QueueSleeps /\ BatchSleeps /\ RunningSleeps /\ NothingBatched

-----------------------------------------------------------------------------
(* Types *)

\* The records a thread starts with.
LEMMA NewRecords ==
  /\ NoFrame \in Frames /\ NoJob \in Jobs
  /\ \A k \in Kinds, n \in Nat : NewJob(k, n) \in Jobs
<1>1. NoFrame \in Frames
  BY NoMembers DEF NoFrame, Frames
<1>2. \A k \in Kinds, n \in Nat : NewJob(k, n) \in Jobs
  BY DEF NewJob, Jobs
<1>3. NoJob \in Jobs
  BY <1>2 DEF NoJob, Kinds
<1> QED BY <1>1, <1>2, <1>3

\* The Host starts with its variables typed.
LEMMA TypeInit == Init => TypeOK
<1> SUFFICES ASSUME Init PROVE TypeOK
  OBVIOUS
<1>1. job \in [Threads -> Jobs] /\ frame \in [Threads -> Frames] /\ queue \in Seq(Threads)
  BY NewRecords, NoMembers DEF Init
<1> QED BY <1>1 DEF Init, TypeOK

\* A job with another answer, a frame with other fields, is still one.
LEMMA JobFields ==
  ASSUME NEW r \in Jobs
  PROVE  /\ \A a \in {"ok", "error"} : [r EXCEPT !.answer = a] \in Jobs
         /\ \A b \in BOOLEAN : [r EXCEPT !.lost = b] \in Jobs
         /\ [r EXCEPT !.handed = TRUE] \in Jobs
  BY DEF Jobs

\* A frame with other fields is still one.
LEMMA FrameFields ==
  ASSUME NEW r \in Frames
  PROVE  /\ [r EXCEPT !.open = TRUE, !.batching = TRUE] \in Frames
         /\ \A x \in Threads : [r EXCEPT !.batching = TRUE, !.running = x] \in Frames
         /\ \A q \in Seq(Threads) : [r EXCEPT !.batched = q] \in Frames
         /\ \A q \in Seq(Threads) : [r EXCEPT !.ran = @ + 1, !.batched = q, !.running = NoThread] \in Frames
<1>1. [r EXCEPT !.open = TRUE, !.batching = TRUE] \in Frames
  BY DEF Frames
<1>2. ASSUME NEW x \in Threads PROVE [r EXCEPT !.batching = TRUE, !.running = x] \in Frames
  BY DEF Frames
<1>3. ASSUME NEW q \in Seq(Threads) PROVE [r EXCEPT !.batched = q] \in Frames
  BY DEF Frames
<1>4. ASSUME NEW q \in Seq(Threads)
      PROVE  [r EXCEPT !.ran = @ + 1, !.batched = q, !.running = NoThread] \in Frames
  <2>1. r.ran + 1 \in Nat
    BY DEF Frames
  <2> QED BY <2>1 DEF Frames
<1> QED BY <1>1, <1>2, <1>3, <1>4


\* A write body only sets its job's answer.
LEMMA BodyAnswers ==
  ASSUME TypeOK, NEW j \in Threads, WriteBody(j)
  PROVE  /\ \E a \in {"ok", "error"} : job' = [job EXCEPT ![j].answer = a]
         /\ job' \in [Threads -> Jobs]
         /\ batch' \in {"none", "ready", "open", "lost"} /\ fenced' \in BOOLEAN
<1>1. PICK a \in {"ok", "error"} : job' = [job EXCEPT ![j] = [job[j] EXCEPT !.answer = a]]
  BY DEF WriteBody
<1>2. job' \in [Threads -> Jobs]
  BY <1>1, JobFields DEF TypeOK
<1>3. batch' \in {"none", "ready", "open", "lost"} /\ fenced' \in BOOLEAN
  BY DEF WriteBody, RolledBack, TypeOK, storeVars
<1> QED BY <1>1, <1>2, <1>3

\* Every step keeps the types, as long as what a holder runs is a thread.
LEMMA TypeStep ==
  ASSUME TypeOK, RunningSleeps, Next
  PROVE  TypeOK'
<1> USE DEF TypeOK, queueVars, storeVars, history
<1>1. ASSUME NEW t \in Threads, NEW k \in Kinds, Take(t, k) PROVE TypeOK'
  <2>1. calls' \in Nat /\ calls + 1 \in Nat
    BY <1>1 DEF Take
  <2>2. job' \in [Threads -> Jobs] /\ frame' \in [Threads -> Frames]
    BY <1>1, <2>1, NewRecords DEF Take
  <2>3. queue' \in Seq(Threads)
    BY <1>1, AppendMembers DEF Take
  <2>4. held' \in BOOLEAN /\ pc' = [pc EXCEPT ![t] = IF held THEN "waiting" ELSE "taken"]
    BY <1>1 DEF Take
  <2> QED BY <1>1, <2>1, <2>2, <2>3, <2>4 DEF Take
<1>2. ASSUME NEW t \in Threads, Own(t) PROVE TypeOK'
  BY <1>2 DEF Own
<1>3. ASSUME NEW t \in Threads, HearAnswer(t) PROVE TypeOK'
  BY <1>3 DEF HearAnswer
<1>4. ASSUME NEW t \in Threads, ReadBody(t) PROVE TypeOK'
  <2>1. PICK a \in {"ok", "error"} : job' = [job EXCEPT ![t] = [job[t] EXCEPT !.answer = a]]
    BY <1>4 DEF ReadBody
  <2>2. job' \in [Threads -> Jobs]
    BY <2>1, JobFields
  <2> QED BY <1>4, <2>2 DEF ReadBody
<1>5. ASSUME NEW t \in Threads, Release(t) PROVE TypeOK'
  BY <1>5 DEF Release
<1>6. ASSUME NEW t \in Threads, StartOwnBatch(t) PROVE TypeOK'
  BY <1>6 DEF StartOwnBatch
<1>7. ASSUME NEW t \in Threads, RunOwnWrite(t) PROVE TypeOK'
  <2>1. frame' = [frame EXCEPT ![t] = [frame[t] EXCEPT !.open = TRUE, !.batching = TRUE]]
    BY <1>7 DEF RunOwnWrite
  <2>2. frame' \in [Threads -> Frames]
    BY <2>1, FrameFields
  <2> QED BY <1>7, <2>2, BodyAnswers DEF RunOwnWrite
<1>8. ASSUME NEW t \in Threads, PopWrite(t) PROVE TypeOK'
  <2>1. Head(queue) \in Threads /\ Tail(queue) \in Seq(Threads)
    BY <1>8, TailMembers DEF PopWrite, MayRun
  <2>2. frame' = [frame EXCEPT ![t] = [frame[t] EXCEPT !.batching = TRUE, !.running = Head(queue)]]
    BY <1>8 DEF PopWrite
  <2>3. frame' \in [Threads -> Frames]
    BY <2>1, <2>2, FrameFields
  <2> QED BY <1>8, <2>1, <2>3 DEF PopWrite
<1>9. ASSUME NEW t \in Threads, RunQueuedWrite(t) PROVE TypeOK'
  <2>1. frame[t].running \in Threads
    BY <1>9 DEF RunQueuedWrite, RunningSleeps
  <2>2. <<frame[t].running>> \o frame[t].batched \in Seq(Threads)
    BY <2>1, PrependMembers DEF Frames
  <2>3. frame' = [frame EXCEPT ![t] = [frame[t] EXCEPT !.ran = @ + 1,
                    !.batched = <<frame[t].running>> \o frame[t].batched, !.running = NoThread]]
    BY <1>9 DEF RunQueuedWrite
  <2>4. frame' \in [Threads -> Frames]
    BY <2>2, <2>3, FrameFields
  <2> QED BY <1>9, <2>1, <2>4, BodyAnswers DEF RunQueuedWrite
<1>10. ASSUME NEW t \in Threads, CloseBatch(t) PROVE TypeOK'
  <2>1. PICK ok \in BOOLEAN :
          /\ FinishBatch(ok)
          /\ frame' = [frame EXCEPT ![t] = [frame[t] EXCEPT
               !.committed = IF frame[t].first /\ frame[t].open THEN ok ELSE @,
               !.first = FALSE, !.batching = FALSE, !.ok = ok]]
    BY <1>10 DEF CloseBatch
  <2>2. batch' \in {"none", "ready", "open", "lost"} /\ fenced' \in BOOLEAN
    BY <2>1 DEF FinishBatch
  <2>3. frame' \in [Threads -> Frames]
    BY <2>1 DEF Frames
  <2> QED BY <1>10, <2>2, <2>3 DEF CloseBatch
<1>11. ASSUME NEW t \in Threads, AnswerOne(t) PROVE TypeOK'
  <2> DEFINE j == Head(frame[t].batched)
  <2>1. frame[t].batched \in Seq(Threads) /\ frame[t].batched # <<>>
    BY <1>11 DEF AnswerOne, Frames
  <2>2. j \in Threads /\ Tail(frame[t].batched) \in Seq(Threads)
    BY <2>1, TailMembers
  <2>3. /\ job' = [job EXCEPT ![j] = [job[j] EXCEPT !.lost = ~frame[t].ok]]
        /\ frame' = [frame EXCEPT ![t] = [frame[t] EXCEPT !.batched = Tail(frame[t].batched)]]
    BY <1>11 DEF AnswerOne
  <2>4. job' \in [Threads -> Jobs] /\ frame' \in [Threads -> Frames]
    <3>1. (~frame[t].ok) \in BOOLEAN
      OBVIOUS
    <3> QED BY <2>2, <2>3, <3>1, JobFields, FrameFields
  <2> QED BY <1>11, <2>2, <2>4 DEF AnswerOne
<1>12. ASSUME NEW t \in Threads, BatchAnswered(t) PROVE TypeOK'
  BY <1>12 DEF BatchAnswered
<1>13. ASSUME NEW t \in Threads, LetGo(t) PROVE TypeOK'
  BY <1>13 DEF LetGo
<1>14. ASSUME NEW t \in Threads, HandOver(t) PROVE TypeOK'
  <2>1. Head(queue) \in Threads /\ Tail(queue) \in Seq(Threads)
    BY <1>14, TailMembers DEF HandOver
  <2>2. job' = [job EXCEPT ![Head(queue)] = [job[Head(queue)] EXCEPT !.handed = TRUE]]
    BY <1>14 DEF HandOver
  <2>3. job' \in [Threads -> Jobs]
    BY <2>1, <2>2, JobFields
  <2> QED BY <1>14, <2>1, <2>3 DEF HandOver
<1>15. ASSUME Crash PROVE TypeOK'
  <2>1. job' \in [Threads -> Jobs] /\ frame' \in [Threads -> Frames] /\ queue' \in Seq(Threads)
    BY <1>15, NewRecords, NoMembers DEF Crash
  <2>2. crashes' \in Nat /\ pc' = [t \in Threads |-> "idle"]
    BY <1>15 DEF Crash
  <2> QED BY <1>15, <2>1, <2>2 DEF Crash
<1> QED BY <1>1, <1>2, <1>3, <1>4, <1>5, <1>6, <1>7, <1>8, <1>9, <1>10, <1>11, <1>12,
           <1>13, <1>14, <1>15 DEF Next, Hold, Drain


-----------------------------------------------------------------------------
(* Exclusive access *)

\* Nobody holds the Store at the start.
LEMMA HoldInit == Init => HoldInv
<1> SUFFICES ASSUME Init PROVE HoldInv
  OBVIOUS
<1>1. TypeOK
  BY TypeInit
<1>2. ExclusiveHold
  BY DEF Init, ExclusiveHold, Holds
<1>3. QueueSleeps /\ BatchSleeps /\ RunningSleeps /\ NothingBatched
  BY NoMembers DEF Init, QueueSleeps, BatchSleeps, RunningSleeps, NothingBatched, Draining
<1> QED BY <1>1, <1>2, <1>3 DEF HoldInv

\* A step of the holder that moves neither a job nor the Store.
LEMMA HolderMoves ==
  ASSUME HoldInv, TypeOK', NEW t \in Threads, Holds(t),
         NEW p \in {"body", "holding", "write", "drain", "answer"},
         pc' = [pc EXCEPT ![t] = p], owner' = t, held' = held, queue' = queue,
         \A u \in Threads : job'[u].handed = job[u].handed,
         \A u \in Threads : u # t => frame'[u] = frame[u],
         frame'[t].batched = frame[t].batched,
         pc[t] \in {"drain", "running"} => p = "answer",
         pc[t] = "answer" => p = "drain" /\ frame[t].batched = <<>>
  PROVE  HoldInv'
<1> USE DEF HoldInv
<1>1. \A u \in Threads : Holds(u)' <=> Holds(u)
  BY DEF Holds, TypeOK
<1>2. ExclusiveHold'
  BY <1>1 DEF ExclusiveHold, TypeOK, Holds
<1>3. ~Sleeping(t) /\ \A u \in Threads : Sleeping(u) => Sleeping(u)'
  BY DEF Sleeping, Holds, TypeOK
<1>4. Range(queue) \subseteq Threads
  BY RangeOfSeq DEF TypeOK
<1>5. QueueSleeps'
  BY <1>3, <1>4 DEF QueueSleeps
<1>6. \A u \in Threads : u # t => pc[u] \notin Draining
  BY DEF ExclusiveHold, Holds, Draining
<1>7. frame[t].batched \in Seq(Threads) /\ Range(frame[t].batched) \subseteq Threads
  BY RangeOfSeq DEF TypeOK, Frames
<1>8. pc[t] \notin Draining => frame[t].batched = <<>>
  BY DEF NothingBatched, Draining, Holds, TypeOK
<1>9. BatchSleeps'
  BY <1>3, <1>6, <1>7, <1>8, NoMembers DEF BatchSleeps, Draining, TypeOK
<1>10. RunningSleeps'
  BY <1>6 DEF RunningSleeps, Draining, TypeOK
<1>11. NothingBatched'
  BY <1>8 DEF NothingBatched, Draining, TypeOK
<1> QED BY <1>2, <1>5, <1>9, <1>10, <1>11


\* An idle thread is in nobody's queue, batch or hands.
LEMMA IdleIsNowhere ==
  ASSUME HoldInv, NEW t \in Threads, pc[t] = "idle"
  PROVE  /\ ~Holds(t) /\ t \notin Range(queue)
         /\ \A u \in Threads : pc[u] \in Draining => t \notin Range(frame[u].batched)
         /\ \A u \in Threads : pc[u] = "running" => frame[u].running # t
  BY DEF HoldInv, Holds, QueueSleeps, BatchSleeps, RunningSleeps, Sleeping

\* Who waits where are threads.
LEMMA MembersAreThreads ==
  ASSUME TypeOK
  PROVE  /\ Range(queue) \subseteq Threads
         /\ \A u \in Threads : /\ frame[u].batched \in Seq(Threads)
                               /\ Range(frame[u].batched) \subseteq Threads
<1>1. Range(queue) \subseteq Threads
  BY RangeOfSeq DEF TypeOK
<1>2. ASSUME NEW u \in Threads
      PROVE  frame[u].batched \in Seq(Threads) /\ Range(frame[u].batched) \subseteq Threads
  BY RangeOfSeq DEF TypeOK, Frames
<1> QED BY <1>1, <1>2

\* Queue.take: an idle thread holds the free Store or joins the queue.
LEMMA TakeHolds ==
  ASSUME HoldInv, TypeOK', NEW t \in Threads, NEW k \in Kinds, Take(t, k)
  PROVE  HoldInv'
<1> USE DEF HoldInv
<1>1. /\ pc[t] = "idle" /\ owner' = owner
      /\ job' = [job EXCEPT ![t] = NewJob(k, calls + 1)] /\ frame' = [frame EXCEPT ![t] = NoFrame]
  BY DEF Take
<1>2. job'[t].handed = FALSE /\ frame'[t].batched = <<>> /\ ~frame'[t].batching
  BY <1>1 DEF NewJob, NoFrame, TypeOK
<1>3. \A u \in Threads : u # t => job'[u] = job[u] /\ frame'[u] = frame[u]
  BY <1>1 DEF TypeOK
<1>4. CASE ~held
  <2>1. held' = TRUE /\ pc' = [pc EXCEPT ![t] = "taken"] /\ queue' = queue
    BY <1>4 DEF Take
  <2>2. \A u \in Threads : ~Holds(u)
    BY <1>4 DEF ExclusiveHold
  <2>3. \A u \in Threads : Holds(u)' <=> u = t
    BY <1>1, <1>3, <2>1, <2>2 DEF Holds, TypeOK
  <2>4. ExclusiveHold'
    BY <2>1, <2>3 DEF ExclusiveHold, TypeOK
  <2>5. \A u \in Threads : Sleeping(u) => Sleeping(u)'
    BY <1>1, <1>3, <2>1 DEF Sleeping, TypeOK
  <2>6. QueueSleeps'
    BY <2>1, <2>5, MembersAreThreads DEF QueueSleeps
  <2>7. BatchSleeps' /\ RunningSleeps'
    BY <2>1, <2>2 DEF BatchSleeps, RunningSleeps, Draining, Holds, TypeOK
  <2>8. NothingBatched'
    BY <1>2, <1>3, <2>1 DEF NothingBatched, TypeOK
  <2> QED BY <2>4, <2>6, <2>7, <2>8
<1>5. CASE held
  <2>1. held' = held /\ pc' = [pc EXCEPT ![t] = "waiting"] /\ queue' = Append(queue, t)
    BY <1>5 DEF Take
  <2>2. \A u \in Threads : Holds(u)' <=> Holds(u)
    BY <1>1, <1>2, <1>3, <2>1 DEF Holds, TypeOK
  <2>3. ExclusiveHold'
    BY <1>1, <2>1, <2>2 DEF ExclusiveHold, TypeOK, Holds
  <2>4. Sleeping(t)' /\ \A u \in Threads : Sleeping(u) => Sleeping(u)'
    BY <1>1, <1>2, <1>3, <2>1 DEF Sleeping, TypeOK
  <2>5. /\ t \notin Range(queue) /\ IsInjective(queue')
        /\ Range(queue') = Range(queue) \cup {t}
    BY <1>1, <2>1, IdleIsNowhere, AppendMembers DEF QueueSleeps, TypeOK
  <2>6. QueueSleeps'
    BY <2>4, <2>5, MembersAreThreads DEF QueueSleeps
  <2>7. BatchSleeps'
    BY <1>1, <1>3, <2>1, <2>4, <2>5, IdleIsNowhere, MembersAreThreads DEF BatchSleeps, Draining, TypeOK
  <2>8. RunningSleeps'
    BY <1>1, <1>3, <2>1, <2>4, <2>5, IdleIsNowhere DEF RunningSleeps, Draining, TypeOK
  <2>9. NothingBatched'
    BY <1>2, <1>3, <2>1 DEF NothingBatched, TypeOK
  <2> QED BY <2>3, <2>6, <2>7, <2>8, <2>9
<1> QED BY <1>4, <1>5 DEF TypeOK

\* drain pops the next write.
LEMMA PopHolds ==
  ASSUME HoldInv, TypeOK', NEW t \in Threads, PopWrite(t)
  PROVE  HoldInv'
<1> USE DEF HoldInv
<1>0. PICK j \in Threads : j = Head(queue)
  BY TailMembers DEF PopWrite, MayRun, TypeOK
<1>1. /\ pc[t] = "drain" /\ queue # <<>> /\ queue' = Tail(queue)
      /\ pc' = [pc EXCEPT ![t] = "running"] /\ held' = held /\ owner' = owner /\ job' = job
      /\ frame' = [frame EXCEPT ![t].batching = TRUE, ![t].running = j]
  BY <1>0 DEF PopWrite, MayRun
<1>2. /\ frame'[t].batching /\ frame'[t].running = j /\ frame'[t].batched = frame[t].batched
      /\ \A u \in Threads : u # t => frame'[u] = frame[u]
  BY <1>1 DEF TypeOK, Frames
<1>3. /\ j \in Range(queue) /\ j \in Threads /\ j \notin Range(queue')
      /\ IsInjective(queue') /\ Range(queue') \subseteq Range(queue)
  BY <1>0, <1>1, TailMembers DEF QueueSleeps, TypeOK
<1>4. \A u \in Threads : Holds(u)' <=> Holds(u)
  BY <1>1 DEF Holds, TypeOK
<1>5. ExclusiveHold'
  BY <1>1, <1>4 DEF ExclusiveHold, Holds, TypeOK
<1>6. \A u \in Threads : Sleeping(u) => Sleeping(u)'
  BY <1>1 DEF Sleeping, TypeOK
<1>7. Sleeping(j)
  BY <1>3 DEF QueueSleeps
<1>8. QueueSleeps'
  BY <1>3, <1>6, MembersAreThreads DEF QueueSleeps
<1>9. \A u \in Threads : u # t => pc[u] \notin Draining
  BY <1>1 DEF ExclusiveHold, Holds, Draining
<1>10. BatchSleeps'
  <2>1. \A u \in Threads : pc'[u] \in Draining => u = t
    BY <1>1, <1>9 DEF TypeOK
  <2>2. IsInjective(frame[t].batched) /\ \A u \in Range(frame[t].batched) : Sleeping(u) /\ u \notin Range(queue)
    BY <1>1 DEF BatchSleeps, Draining
  <2> QED BY <1>2, <1>3, <1>6, <2>1, <2>2, MembersAreThreads DEF BatchSleeps
<1>11. j \notin Range(frame[t].batched)
  BY <1>1, <1>3 DEF BatchSleeps, Draining
<1>12. RunningSleeps'
  <2>1. \A u \in Threads : pc'[u] = "running" => u = t
    BY <1>1, <1>9 DEF Draining, TypeOK
  <2>2. Sleeping(j)'
    BY <1>3, <1>6, <1>7
  <2>3. j \notin Range(frame'[t].batched)
    BY <1>2, <1>11
  <2> QED BY <1>2, <1>3, <2>1, <2>2, <2>3 DEF RunningSleeps
<1>13. NothingBatched'
  BY <1>1, <1>2 DEF NothingBatched, TypeOK
<1> QED BY <1>5, <1>8, <1>10, <1>12, <1>13


\* drain runs the write it popped and adds it to the batch.
LEMMA RunQueuedHolds ==
  ASSUME HoldInv, TypeOK', NEW t \in Threads, RunQueuedWrite(t)
  PROVE  HoldInv'
<1> USE DEF HoldInv
<1> DEFINE j == frame[t].running
<1>1. /\ pc[t] = "running" /\ pc' = [pc EXCEPT ![t] = "drain"]
      /\ held' = held /\ owner' = owner /\ queue' = queue /\ WriteBody(j)
      /\ frame' = [frame EXCEPT ![t].ran = @ + 1, ![t].batched = <<j>> \o @, ![t].running = NoThread]
  BY DEF RunQueuedWrite, queueVars
<1>2. /\ j \in Threads /\ Sleeping(j) /\ j \notin Range(queue) /\ j \notin Range(frame[t].batched)
      /\ frame[t].batching
  BY <1>1 DEF RunningSleeps
<1>3. /\ frame'[t].batching /\ frame'[t].batched = <<j>> \o frame[t].batched
      /\ \A u \in Threads : u # t => frame'[u] = frame[u]
  BY <1>1, <1>2 DEF TypeOK, Frames
<1>4. \A u \in Threads : job'[u].handed = job[u].handed
  <2>1. PICK a \in {"ok", "error"} : job' = [job EXCEPT ![j].answer = a]
    BY <1>1, <1>2, BodyAnswers
  <2> QED BY <2>1 DEF TypeOK, Jobs
<1>5. IsInjective(frame[t].batched) /\ \A u \in Range(frame[t].batched) : Sleeping(u) /\ u \notin Range(queue)
  BY <1>1 DEF BatchSleeps, Draining
<1>6. /\ Range(frame'[t].batched) = Range(frame[t].batched) \cup {j}
      /\ IsInjective(frame'[t].batched)
  BY <1>2, <1>3, <1>5, PrependMembers, MembersAreThreads
<1>7. \A u \in Threads : Holds(u)' <=> Holds(u)
  BY <1>1, <1>4 DEF Holds, TypeOK
<1>8. ExclusiveHold'
  BY <1>1, <1>7 DEF ExclusiveHold, Holds, TypeOK
<1>9. \A u \in Threads : Sleeping(u) => Sleeping(u)'
  BY <1>1, <1>4 DEF Sleeping, TypeOK
<1>10. QueueSleeps'
  BY <1>1, <1>9, MembersAreThreads DEF QueueSleeps
<1>11. \A u \in Threads : pc'[u] \in Draining => u = t
  BY <1>1 DEF ExclusiveHold, Holds, Draining, TypeOK
<1>12. BatchSleeps'
  BY <1>1, <1>2, <1>5, <1>6, <1>9, <1>11, MembersAreThreads DEF BatchSleeps
<1>13. RunningSleeps'
  BY <1>1, <1>11 DEF RunningSleeps, Draining, TypeOK
<1>14. NothingBatched'
  BY <1>1, <1>3 DEF NothingBatched, TypeOK
<1> QED BY <1>8, <1>10, <1>12, <1>13, <1>14

\* answerBatch wakes one writer.
LEMMA AnswerHolds ==
  ASSUME HoldInv, TypeOK', NEW t \in Threads, AnswerOne(t)
  PROVE  HoldInv'
<1> USE DEF HoldInv
<1> DEFINE j == Head(frame[t].batched)
<1>1. /\ pc[t] = "answer" /\ frame[t].batched # <<>>
      /\ pc' = [pc EXCEPT ![j] = "woken"] /\ held' = held /\ owner' = owner /\ queue' = queue
      /\ job' = [job EXCEPT ![j].lost = ~frame[t].ok]
      /\ frame' = [frame EXCEPT ![t].batched = Tail(@)]
  BY DEF AnswerOne, queueVars
<1>2. IsInjective(frame[t].batched) /\ \A u \in Range(frame[t].batched) : Sleeping(u) /\ u \notin Range(queue)
  BY <1>1 DEF BatchSleeps, Draining
<1>3. /\ frame'[t].batched = Tail(frame[t].batched)
      /\ \A u \in Threads : u # t => frame'[u] = frame[u]
  BY <1>1 DEF TypeOK, Frames
<1>4. /\ j \in Range(frame[t].batched) /\ j \in Threads /\ j \notin Range(frame'[t].batched)
      /\ IsInjective(frame'[t].batched) /\ Range(frame'[t].batched) \subseteq Range(frame[t].batched)
  BY <1>1, <1>2, <1>3, TailMembers, MembersAreThreads
<1>5. \A u \in Threads : job'[u].handed = job[u].handed
  BY <1>1, <1>4 DEF TypeOK, Jobs
<1>6. Sleeping(j) /\ j # t
  BY <1>1, <1>2, <1>4 DEF Sleeping
<1>7. \A u \in Threads : Holds(u)' <=> Holds(u)
  BY <1>1, <1>4, <1>5, <1>6 DEF Holds, Sleeping, TypeOK
<1>8. ExclusiveHold'
  BY <1>1, <1>4, <1>7 DEF ExclusiveHold, Holds, TypeOK
<1>9. \A u \in Threads : Sleeping(u) /\ u # j => Sleeping(u)'
  BY <1>1, <1>4, <1>5 DEF Sleeping, TypeOK
<1>10. QueueSleeps'
  BY <1>1, <1>2, <1>4, <1>9, MembersAreThreads DEF QueueSleeps
<1>11. \A u \in Threads : pc'[u] \in Draining => u = t
  BY <1>1, <1>4 DEF ExclusiveHold, Holds, Draining, TypeOK
<1>12. BatchSleeps'
  BY <1>1, <1>2, <1>4, <1>9, <1>11, MembersAreThreads DEF BatchSleeps
<1>13. RunningSleeps'
  BY <1>1, <1>4, <1>6, <1>11 DEF RunningSleeps, Draining, TypeOK
<1>14. NothingBatched'
  BY <1>1, <1>3, <1>4, <1>6 DEF NothingBatched, Sleeping, TypeOK
<1> QED BY <1>8, <1>10, <1>12, <1>13, <1>14

\* drain leaves the Store free.
LEMMA LetGoHolds ==
  ASSUME HoldInv, TypeOK', NEW t \in Threads, LetGo(t)
  PROVE  HoldInv'
<1> USE DEF HoldInv
<1>1. /\ pc[t] = "drain" /\ pc' = [pc EXCEPT ![t] = "idle"] /\ held' = FALSE
      /\ queue' = queue /\ job' = job /\ frame' = frame
  BY DEF LetGo
<1>2. \A u \in Threads : ~Holds(u)'
  BY <1>1 DEF ExclusiveHold, Holds, TypeOK
<1>3. \A u \in Threads : Sleeping(u) => Sleeping(u)'
  BY <1>1 DEF Sleeping, TypeOK
<1>4. ExclusiveHold'
  BY <1>1, <1>2 DEF ExclusiveHold
<1>5. QueueSleeps'
  BY <1>1, <1>3, MembersAreThreads DEF QueueSleeps
<1>6. BatchSleeps' /\ RunningSleeps'
  BY <1>2 DEF BatchSleeps, RunningSleeps, Draining, Holds
<1>7. NothingBatched'
  BY <1>1 DEF NothingBatched, TypeOK
<1> QED BY <1>4, <1>5, <1>6, <1>7

\* drain hands the Store to the next caller.
LEMMA HandOverHolds ==
  ASSUME HoldInv, TypeOK', NEW t \in Threads, HandOver(t)
  PROVE  HoldInv'
<1> USE DEF HoldInv
<1> DEFINE j == Head(queue)
<1>1. /\ pc[t] = "drain" /\ queue # <<>> /\ queue' = Tail(queue) /\ held' = held
      /\ pc' = [pc EXCEPT ![j] = "woken", ![t] = "idle"]
      /\ job' = [job EXCEPT ![j].handed = TRUE] /\ frame' = frame
  BY DEF HandOver
<1>2. /\ j \in Range(queue) /\ j \in Threads /\ j \notin Range(queue')
      /\ IsInjective(queue') /\ Range(queue') \subseteq Range(queue)
  BY <1>1, TailMembers DEF QueueSleeps, TypeOK
<1>3. Sleeping(j) /\ j # t
  BY <1>1, <1>2 DEF QueueSleeps, Sleeping
<1>4. /\ pc'[j] = "woken" /\ pc'[t] = "idle"
      /\ \A u \in Threads : u \notin {j, t} => pc'[u] = pc[u]
  BY <1>1, <1>2, <1>3 DEF TypeOK
<1>5. job'[j].handed /\ \A u \in Threads : u # j => job'[u] = job[u]
  BY <1>1, <1>2 DEF TypeOK, Jobs
<1>6. \A u \in Threads : Holds(u) => u = t
  BY <1>1 DEF ExclusiveHold, Holds
<1>7. \A u \in Threads : Holds(u)' <=> u = j
  BY <1>4, <1>5, <1>6 DEF Holds
<1>8. ExclusiveHold'
  <2>1. held'
    BY <1>1 DEF ExclusiveHold, Holds
  <2> QED BY <1>2, <1>4, <1>7, <2>1 DEF ExclusiveHold
<1>9. \A u \in Threads : Sleeping(u) /\ u # j => Sleeping(u)'
  BY <1>1, <1>4, <1>5 DEF Sleeping
<1>10. QueueSleeps'
  BY <1>2, <1>9, MembersAreThreads DEF QueueSleeps
<1>11. BatchSleeps' /\ RunningSleeps'
  BY <1>4, <1>7 DEF BatchSleeps, RunningSleeps, Draining, Holds
<1>12. NothingBatched'
  BY <1>1, <1>3, <1>4 DEF NothingBatched, Sleeping
<1> QED BY <1>8, <1>10, <1>11, <1>12


\* Every step keeps the invariant behind exclusive access.
LEMMA HoldStep == HoldInv /\ [Next]_vars => HoldInv'
<1> SUFFICES ASSUME HoldInv, [Next]_vars PROVE HoldInv'
  OBVIOUS
<1>1. CASE UNCHANGED vars
  BY <1>1 DEF vars, HoldInv, TypeOK, ExclusiveHold, Holds, QueueSleeps, BatchSleeps,
              RunningSleeps, NothingBatched, Sleeping
<1>2. CASE Next
  <2> USE DEF queueVars, storeVars, history
  <2>1. TypeOK /\ TypeOK'
    BY <1>2, TypeStep DEF HoldInv
  <2>2. \A t \in Threads : Holds(t) /\ pc[t] \notin {"taken", "woken"} => owner = t
    BY DEF HoldInv, ExclusiveHold
  <2>3. ASSUME NEW t \in Threads, NEW k \in Kinds, Take(t, k) PROVE HoldInv'
    BY <2>1, <2>3, TakeHolds
  <2>4. ASSUME NEW t \in Threads, Own(t) PROVE HoldInv'
    BY <2>1, <2>4, HolderMoves DEF Own, Holds
  <2>5. ASSUME NEW t \in Threads, HearAnswer(t) PROVE HoldInv'
    <3>1. /\ pc[t] = "woken" /\ ~job[t].handed /\ pc' = [pc EXCEPT ![t] = "idle"]
          /\ job' = job /\ frame' = frame /\ held' = held /\ owner' = owner /\ queue' = queue
      BY <2>5 DEF HearAnswer
    <3>2. \A u \in Threads : Holds(u)' <=> Holds(u)
      BY <2>1, <3>1 DEF Holds, TypeOK
    <3>3. ExclusiveHold'
      BY <2>1, <3>1, <3>2 DEF HoldInv, ExclusiveHold, Holds, TypeOK
    <3>4. \A u \in Threads : Sleeping(u) => Sleeping(u)'
      BY <2>1, <3>1 DEF Sleeping, TypeOK
    <3>5. QueueSleeps'
      BY <2>1, <3>1, <3>4, MembersAreThreads DEF HoldInv, QueueSleeps
    <3>6. \A u \in Threads : pc'[u] = pc[u] \/ pc'[u] = "idle"
      BY <2>1, <3>1 DEF TypeOK
    <3>7. BatchSleeps'
      BY <2>1, <3>1, <3>4, <3>6, MembersAreThreads DEF HoldInv, BatchSleeps, Draining
    <3>8. RunningSleeps'
      BY <3>1, <3>4, <3>6 DEF HoldInv, RunningSleeps
    <3>9. NothingBatched'
      BY <3>1, <3>6 DEF HoldInv, NothingBatched
    <3> QED BY <2>1, <3>3, <3>5, <3>7, <3>8, <3>9 DEF HoldInv
  <2>6. ASSUME NEW t \in Threads, ReadBody(t) PROVE HoldInv'
    <3>1. Holds(t) /\ owner' = t
      BY <2>2, <2>6 DEF ReadBody, Holds
    <3>2. \A u \in Threads : job'[u].handed = job[u].handed
      BY <2>1, <2>6 DEF ReadBody, TypeOK, Jobs
    <3>3. \E p \in {"holding", "drain"} : pc' = [pc EXCEPT ![t] = p]
      BY <2>6 DEF ReadBody
    <3> QED BY <2>1, <2>6, <3>1, <3>2, <3>3, HolderMoves DEF ReadBody
  <2>7. ASSUME NEW t \in Threads, Release(t) PROVE HoldInv'
    <3>1. Holds(t) /\ owner' = t
      BY <2>2, <2>7 DEF Release, Holds
    <3> QED BY <2>1, <2>7, <3>1, HolderMoves DEF Release
  <2>8. ASSUME NEW t \in Threads, StartOwnBatch(t) PROVE HoldInv'
    <3>1. Holds(t) /\ owner' = t
      BY <2>2, <2>8 DEF StartOwnBatch, Holds
    <3> QED BY <2>1, <2>8, <3>1, HolderMoves DEF StartOwnBatch
  <2>9. ASSUME NEW t \in Threads, RunOwnWrite(t) PROVE HoldInv'
    <3>1. Holds(t) /\ owner' = t
      BY <2>2, <2>9 DEF RunOwnWrite, Holds
    <3>2. PICK a \in {"ok", "error"} : job' = [job EXCEPT ![t].answer = a]
      BY <2>1, <2>9, BodyAnswers DEF RunOwnWrite
    <3>3. \A u \in Threads : job'[u].handed = job[u].handed
      BY <2>1, <3>2 DEF TypeOK, Jobs
    <3>4. /\ frame'[t].batched = frame[t].batched
          /\ \A u \in Threads : u # t => frame'[u] = frame[u]
      BY <2>1, <2>9 DEF RunOwnWrite, TypeOK, Frames
    <3> QED BY <2>1, <2>9, <3>1, <3>3, <3>4, HolderMoves DEF RunOwnWrite
  <2>10. ASSUME NEW t \in Threads, PopWrite(t) PROVE HoldInv'
    BY <2>1, <2>10, PopHolds
  <2>11. ASSUME NEW t \in Threads, RunQueuedWrite(t) PROVE HoldInv'
    BY <2>1, <2>11, RunQueuedHolds
  <2>12. ASSUME NEW t \in Threads, CloseBatch(t) PROVE HoldInv'
    <3>1. Holds(t) /\ owner' = t
      BY <2>2, <2>12 DEF CloseBatch, Holds
    <3>2. /\ frame'[t].batched = frame[t].batched
          /\ \A u \in Threads : u # t => frame'[u] = frame[u]
      BY <2>1, <2>12 DEF CloseBatch, TypeOK, Frames
    <3> QED BY <2>1, <2>12, <3>1, <3>2, HolderMoves DEF CloseBatch
  <2>13. ASSUME NEW t \in Threads, AnswerOne(t) PROVE HoldInv'
    BY <2>1, <2>13, AnswerHolds
  <2>14. ASSUME NEW t \in Threads, BatchAnswered(t) PROVE HoldInv'
    <3>1. Holds(t) /\ owner' = t
      BY <2>2, <2>14 DEF BatchAnswered, Holds
    <3> QED BY <2>1, <2>14, <3>1, HolderMoves DEF BatchAnswered
  <2>15. ASSUME NEW t \in Threads, LetGo(t) PROVE HoldInv'
    BY <2>1, <2>15, LetGoHolds
  <2>16. ASSUME NEW t \in Threads, HandOver(t) PROVE HoldInv'
    BY <2>1, <2>16, HandOverHolds
  <2>17. ASSUME Crash PROVE HoldInv'
    <3>1. /\ held' = FALSE /\ queue' = <<>> /\ pc' = [t \in Threads |-> "idle"]
      BY <2>17 DEF Crash
    <3>2. ExclusiveHold'
      BY <3>1 DEF ExclusiveHold, Holds
    <3>3. QueueSleeps' /\ BatchSleeps' /\ RunningSleeps' /\ NothingBatched'
      BY <3>1, NoMembers DEF QueueSleeps, BatchSleeps, RunningSleeps, NothingBatched, Draining
    <3> QED BY <2>1, <3>2, <3>3 DEF HoldInv
  <2> QED BY <1>2, <2>3, <2>4, <2>5, <2>6, <2>7, <2>8, <2>9, <2>10, <2>11, <2>12, <2>13,
             <2>14, <2>15, <2>16, <2>17 DEF Next, Hold, Drain
<1> QED BY <1>1, <1>2

\* So it holds throughout.
LEMMA HoldInvariant == Spec => []HoldInv
  BY HoldInit, HoldStep, PTL DEF Spec

\* queue.zig's and Store.zig's variables keep their types, whoever runs a write.
THEOREM StoreQueueTypes == Spec => []TypeOK
<1>1. HoldInv => TypeOK
  BY DEF HoldInv
<1> QED BY <1>1, HoldInvariant, PTL

\* queue.zig, "Bodies run one at a time": take, drain and the hand-over give the
\* Store to one thread at a time and never lose it.
THEOREM OneHolder == Spec => []ExclusiveHold
<1>1. HoldInv => ExclusiveHold
  BY DEF HoldInv
<1> QED BY <1>1, HoldInvariant, PTL


-----------------------------------------------------------------------------
(* No success before the COMMIT: the inductive invariant follows a write's  *)
(* row from its body through the batch to the answer.                       *)

HasRow(rows, call) == \E row \in rows : row.call = call

\* A body that succeeded left its row in the transaction, unless that is lost.
InBatch(u) ==
  job[u].answer = "ok" => batch = "lost" \/ (batch = "open" /\ HasRow(txn, job[u].call))

Kept(u) == job[u].answer = "ok" => HasRow(durable, job[u].call)

\* The writes of the batch a holder has open.
BatchRows ==
  \A t \in Threads : pc[t] \in {"drain", "running"} /\ frame[t].batching =>
    \A u \in BatchOf(t) : InBatch(u)

\* The writes of a batch that is finished, while its writers are answered.
AnswerRows ==
  \A t \in Threads : pc[t] = "answer" =>
    \A u \in Range(frame[t].batched) :
      IF frame[t].ok THEN Kept(u) ELSE job[u].call \in doubt

\* The holder's own write, after the first batch.
OwnRow ==
  \A t \in Threads : pc[t] \in Draining =>
    /\ frame[t].open /\ ~frame[t].first /\ frame[t].committed => Kept(t)
    /\ ~frame[t].committed => job[t].call \in doubt

\* A writer that was answered and has not returned yet.
WokenRow ==
  \A t \in Threads : pc[t] = "woken" /\ ~job[t].handed =>
    IF job[t].lost THEN job[t].call \in doubt ELSE Kept(t)

\* A holder that drains after its own write says so, until its first batch ends.
OwnFrame ==
  \A t \in Threads :
    /\ pc[t] \in Draining /\ job[t].kind = "write" => frame[t].open
    /\ pc[t] = "holding" => job[t].kind = "held"
    /\ pc[t] = "drain" /\ ~frame[t].batching /\ frame[t].open => ~frame[t].first
    /\ pc[t] = "answer" => ~frame[t].first /\ ~frame[t].batching

\* Nobody drains before its body ran.
FreshFrame ==
  \A t \in Threads :
    pc[t] \in {"taken", "waiting", "woken", "body", "holding", "write"} => frame[t] = NoFrame

DurableInv ==
  /\ BatchRows /\ AnswerRows /\ OwnRow /\ WokenRow /\ OwnFrame /\ FreshFrame
  /\ AnsweredIsDurable /\ LostOnlyWithItsBatch


\* At the start there is nothing to answer.
LEMMA DurableInit == Init => DurableInv
  BY DEF Init, DurableInv, BatchRows, AnswerRows, OwnRow, WokenRow, OwnFrame, FreshFrame,
         AnsweredIsDurable, LostOnlyWithItsBatch, Draining

\* One holder: whoever drains is the thread that holds the Store.
LEMMA OnlyHolderDrains ==
  ASSUME HoldInv, NEW t \in Threads, Holds(t)
  PROVE  \A u \in Threads : u # t => pc[u] \notin Draining
  BY DEF HoldInv, ExclusiveHold, Holds, Draining

\* A holder's step before it drains, which writes nothing.
LEMMA BeforeDrain ==
  ASSUME HoldInv, DurableInv, NEW t \in Threads, Holds(t),
         pc[t] \in {"taken", "woken", "body", "holding"},
         NEW p \in {"body", "holding", "write", "drain"}, pc' = [pc EXCEPT ![t] = p],
         frame' = frame, durable' = durable, doubt' = doubt, answers' = answers,
         \A u \in Threads : u # t => job'[u] = job[u], job'[t].kind = job[t].kind,
         p = "drain" => job[t].kind # "write", p = "holding" => job[t].kind = "held"
  PROVE  DurableInv'
<1> USE DEF DurableInv
<1>1. /\ pc'[t] = p /\ \A u \in Threads : u # t => pc'[u] = pc[u]
      /\ \A u \in Threads : u # t => pc'[u] \notin Draining
  BY OnlyHolderDrains DEF HoldInv, TypeOK
<1>2. frame[t] = NoFrame
  BY DEF FreshFrame
<1>3. ~frame'[t].batching /\ ~frame'[t].open /\ frame'[t].committed
  BY <1>2 DEF NoFrame
<1>4. BatchRows' /\ AnswerRows' /\ OwnRow'
  BY <1>1, <1>3 DEF BatchRows, AnswerRows, OwnRow, Draining
<1>5. WokenRow'
  BY <1>1 DEF WokenRow, Kept
<1>6. OwnFrame'
  BY <1>1, <1>3 DEF OwnFrame, Draining
<1>7. FreshFrame'
  BY <1>1, <1>2 DEF FreshFrame
<1>8. AnsweredIsDurable' /\ LostOnlyWithItsBatch'
  BY DEF AnsweredIsDurable, LostOnlyWithItsBatch
<1> QED BY <1>4, <1>5, <1>6, <1>7, <1>8

\* What a write body does to the rows of the batch it joins.
LEMMA BodyKeepsRows ==
  ASSUME TypeOK, NEW j \in Threads, WriteBody(j)
  PROVE  /\ InBatch(j)' /\ \A u \in Threads : u # j /\ InBatch(u) => InBatch(u)'
         /\ durable' = durable
         /\ \A u \in Threads : job'[u].call = job[u].call /\ job'[u].kind = job[u].kind
         /\ \A u \in Threads : job'[u].handed = job[u].handed /\ job'[u].lost = job[u].lost
         /\ \A u \in Threads : u # j => job'[u] = job[u]
<1>1. PICK a \in {"ok", "error"} :
        /\ job' = [job EXCEPT ![j].answer = a]
        /\ \/ a = "error" /\ UNCHANGED storeVars
           \/ /\ batch \in {"ready", "open"} /\ batch' = "open" /\ a = "ok"
              /\ txn' = txn \cup {[id |-> nextId, call |-> job[j].call]} /\ durable' = durable
           \/ a = "error" /\ UNCHANGED <<batch, txn, durable>>
           \/ a = "error" /\ batch' = "lost" /\ durable' = durable
  BY DEF WriteBody, RolledBack
<1>2. /\ \A u \in Threads : job'[u].call = job[u].call /\ job'[u].kind = job[u].kind
      /\ \A u \in Threads : job'[u].handed = job[u].handed /\ job'[u].lost = job[u].lost
      /\ \A u \in Threads : u # j => job'[u] = job[u]
      /\ job'[j].answer = a
  BY <1>1 DEF TypeOK, Jobs
<1>3. durable' = durable
  BY <1>1 DEF storeVars
<1>4. CASE a = "error" /\ UNCHANGED <<batch, txn>>
  BY <1>2, <1>3, <1>4 DEF InBatch, HasRow
<1>5. CASE a = "error" /\ batch' = "lost"
  BY <1>2, <1>3, <1>5 DEF InBatch
<1>6. CASE /\ batch \in {"ready", "open"} /\ batch' = "open"
           /\ txn' = txn \cup {[id |-> nextId, call |-> job[j].call]}
  <2>1. HasRow(txn', job'[j].call)
    <3>1. [id |-> nextId, call |-> job[j].call] \in txn'
      BY <1>6
    <3>2. [id |-> nextId, call |-> job[j].call].call = job'[j].call
      BY <1>2
    <3> QED BY <3>1, <3>2 DEF HasRow
  <2>2. \A c : HasRow(txn, c) => HasRow(txn', c)
    BY <1>6 DEF HasRow
  <2>3. batch # "lost"
    BY <1>6
  <2> QED BY <1>2, <1>3, <1>6, <2>1, <2>2, <2>3 DEF InBatch
<1> QED BY <1>1, <1>2, <1>3, <1>4, <1>5, <1>6 DEF storeVars


\* A new call is in no batch.
LEMMA TakeRows ==
  ASSUME HoldInv, DurableInv, NEW t \in Threads, NEW k \in Kinds, Take(t, k)
  PROVE  DurableInv'
<1> USE DEF DurableInv
<1>1. /\ pc[t] = "idle" /\ job' = [job EXCEPT ![t] = NewJob(k, calls + 1)]
      /\ frame' = [frame EXCEPT ![t] = NoFrame]
      /\ batch' = batch /\ txn' = txn /\ durable' = durable /\ doubt' = doubt /\ answers' = answers
      /\ \E p \in {"taken", "waiting"} : pc' = [pc EXCEPT ![t] = p]
  BY DEF Take, storeVars
<1>2. /\ pc'[t] \in {"taken", "waiting"} /\ frame'[t] = NoFrame
      /\ \A u \in Threads : u # t => pc'[u] = pc[u] /\ job'[u] = job[u] /\ frame'[u] = frame[u]
  BY <1>1 DEF HoldInv, TypeOK
<1>3. \A u \in Threads : pc[u] \in Draining => t # u /\ t \notin Range(frame[u].batched)
  BY <1>1, IdleIsNowhere DEF Draining
<1>4. \A u \in Threads : Range(frame[u].batched) \subseteq Threads
  BY MembersAreThreads DEF HoldInv
<1>5. BatchRows'
  BY <1>1, <1>2, <1>3, <1>4 DEF BatchRows, BatchOf, InBatch, Draining
<1>6. AnswerRows'
  BY <1>1, <1>2, <1>3, <1>4 DEF AnswerRows, Kept, Draining
<1>7. OwnRow' /\ WokenRow'
  BY <1>1, <1>2 DEF OwnRow, WokenRow, Kept, Draining
<1>8. OwnFrame' /\ FreshFrame'
  BY <1>2 DEF OwnFrame, FreshFrame, Draining
<1>9. AnsweredIsDurable' /\ LostOnlyWithItsBatch'
  BY <1>1 DEF AnsweredIsDurable, LostOnlyWithItsBatch
<1> QED BY <1>5, <1>6, <1>7, <1>8, <1>9

\* The holder's own write is the first of its batch.
LEMMA OwnWriteRows ==
  ASSUME HoldInv, DurableInv, NEW t \in Threads, RunOwnWrite(t)
  PROVE  DurableInv'
<1> USE DEF DurableInv
<1>1. /\ pc[t] = "write" /\ WriteBody(t) /\ pc' = [pc EXCEPT ![t] = "drain"]
      /\ frame' = [frame EXCEPT ![t].open = TRUE, ![t].batching = TRUE]
      /\ doubt' = doubt /\ answers' = answers
  BY DEF RunOwnWrite, history
<1>2. /\ pc'[t] = "drain" /\ \A u \in Threads : u # t => pc'[u] = pc[u]
      /\ \A u \in Threads : u # t => frame'[u] = frame[u]
  BY <1>1 DEF HoldInv, TypeOK
<1>3. /\ frame'[t].open /\ frame'[t].batching /\ frame'[t].first /\ frame'[t].committed
      /\ frame'[t].batched = <<>>
  <2>1. frame[t] = NoFrame
    BY <1>1 DEF FreshFrame
  <2>2. frame[t].first /\ frame[t].committed /\ frame[t].batched = <<>>
    BY <2>1 DEF NoFrame
  <2> QED BY <1>1, <2>2 DEF HoldInv, TypeOK, Frames
<1>4. \A u \in Threads : u # t => pc'[u] \notin Draining
  BY <1>1, <1>2, OnlyHolderDrains DEF Holds
<1>5. /\ InBatch(t)' /\ durable' = durable
      /\ \A u \in Threads : u # t => job'[u] = job[u]
  BY <1>1, BodyKeepsRows DEF HoldInv
<1>6. BatchRows'
  BY <1>2, <1>3, <1>4, <1>5, NoMembers DEF BatchRows, BatchOf, Draining
<1>7. AnswerRows' /\ OwnRow'
  BY <1>2, <1>3, <1>4 DEF AnswerRows, OwnRow, Draining
<1>8. WokenRow'
  BY <1>1, <1>2, <1>5 DEF WokenRow, Kept
<1>9. OwnFrame' /\ FreshFrame'
  BY <1>2, <1>3, <1>4, <1>5 DEF OwnFrame, FreshFrame, Draining
<1>10. AnsweredIsDurable' /\ LostOnlyWithItsBatch'
  BY <1>1, <1>5 DEF AnsweredIsDurable, LostOnlyWithItsBatch
<1> QED BY <1>6, <1>7, <1>8, <1>9, <1>10

\* A batch starts empty, or goes on.
LEMMA PopRows ==
  ASSUME HoldInv, DurableInv, NEW t \in Threads, PopWrite(t)
  PROVE  DurableInv'
<1> USE DEF DurableInv
<1>1. /\ pc[t] = "drain" /\ pc' = [pc EXCEPT ![t] = "running"]
      /\ batch' = IF frame[t].batching THEN batch ELSE "ready"
      /\ frame' = [frame EXCEPT ![t].batching = TRUE, ![t].running = Head(queue)]
      /\ job' = job /\ txn' = txn /\ durable' = durable /\ doubt' = doubt /\ answers' = answers
  BY DEF PopWrite, history
<1>2. /\ pc'[t] = "running" /\ \A u \in Threads : u # t => pc'[u] = pc[u]
      /\ \A u \in Threads : u # t => frame'[u] = frame[u]
  BY <1>1 DEF HoldInv, TypeOK
<1>3. /\ frame'[t].open = frame[t].open /\ frame'[t].first = frame[t].first
      /\ frame'[t].committed = frame[t].committed /\ frame'[t].batched = frame[t].batched
  BY <1>1 DEF HoldInv, TypeOK, Frames
<1>4. \A u \in Threads : u # t => pc'[u] \notin Draining
  BY <1>1, <1>2, OnlyHolderDrains DEF Holds
<1>5. BatchOf(t)' = BatchOf(t)
  BY <1>3 DEF BatchOf
<1>6. BatchRows'
  <2>1. CASE frame[t].batching
    BY <1>1, <1>2, <1>4, <1>5, <2>1 DEF BatchRows, InBatch, Draining
  <2>2. CASE ~frame[t].batching
    <3>1. BatchOf(t) = {}
      BY <1>1, <2>2, NoMembers DEF BatchOf, HoldInv, NothingBatched, OwnFrame
    <3> QED BY <1>2, <1>4, <1>5, <3>1 DEF BatchRows, Draining
  <2> QED BY <2>1, <2>2
<1>7. AnswerRows' /\ OwnRow'
  BY <1>1, <1>2, <1>3, <1>4 DEF AnswerRows, OwnRow, Kept, Draining
<1>8. WokenRow'
  BY <1>1, <1>2 DEF WokenRow, Kept
<1>9. OwnFrame' /\ FreshFrame'
  BY <1>1, <1>2, <1>3, <1>4 DEF OwnFrame, FreshFrame, Draining
<1>10. AnsweredIsDurable' /\ LostOnlyWithItsBatch'
  BY <1>1 DEF AnsweredIsDurable, LostOnlyWithItsBatch
<1> QED BY <1>6, <1>7, <1>8, <1>9, <1>10

\* A queued write's row joins the batch.
LEMMA RunQueuedRows ==
  ASSUME HoldInv, DurableInv, NEW t \in Threads, RunQueuedWrite(t)
  PROVE  DurableInv'
<1> USE DEF DurableInv
<1>1. PICK j \in Threads : j = frame[t].running /\ Sleeping(j) /\ frame[t].batching
  BY DEF HoldInv, RunningSleeps, RunQueuedWrite
<1>2. /\ pc[t] = "running" /\ pc' = [pc EXCEPT ![t] = "drain"] /\ WriteBody(j)
      /\ frame' = [frame EXCEPT ![t].ran = @ + 1, ![t].batched = <<j>> \o @, ![t].running = NoThread]
      /\ doubt' = doubt /\ answers' = answers
  BY <1>1 DEF RunQueuedWrite, history
<1>3. /\ pc'[t] = "drain" /\ \A u \in Threads : u # t => pc'[u] = pc[u]
      /\ \A u \in Threads : u # t => frame'[u] = frame[u]
  BY <1>2 DEF HoldInv, TypeOK
<1>4. /\ frame'[t].open = frame[t].open /\ frame'[t].first = frame[t].first
      /\ frame'[t].committed = frame[t].committed /\ frame'[t].batched = <<j>> \o frame[t].batched
      /\ frame'[t].batching
  BY <1>1, <1>2 DEF HoldInv, TypeOK, Frames
<1>5. \A u \in Threads : u # t => pc'[u] \notin Draining
  BY <1>2, <1>3, OnlyHolderDrains DEF Holds
<1>6. /\ InBatch(j)' /\ \A u \in Threads : u # j /\ InBatch(u) => InBatch(u)'
      /\ durable' = durable /\ \A u \in Threads : u # j => job'[u] = job[u]
      /\ \A u \in Threads : job'[u].kind = job[u].kind
  BY <1>2, BodyKeepsRows DEF HoldInv
<1>7. j # t /\ pc[j] = "waiting"
  BY <1>1, <1>2 DEF Sleeping
<1>8. BatchRows'
  <2>1. BatchOf(t) \subseteq Threads /\ \A u \in BatchOf(t) : InBatch(u)
    BY <1>1, <1>2, MembersAreThreads DEF BatchRows, BatchOf, HoldInv
  <2>2. Range(frame'[t].batched) = Range(frame[t].batched) \cup {j}
    BY <1>4, PrependMembers, MembersAreThreads DEF HoldInv
  <2>3. BatchOf(t)' = BatchOf(t) \cup {j}
    BY <1>4, <2>2 DEF BatchOf
  <2> QED BY <1>3, <1>5, <1>6, <2>1, <2>3 DEF BatchRows, Draining
<1>9. AnswerRows' /\ OwnRow'
  <2>1. job'[t] = job[t] /\ pc[t] \in Draining
    BY <1>2, <1>6, <1>7 DEF Draining
  <2>2. Kept(t) => Kept(t)'
    BY <1>6, <2>1 DEF Kept
  <2> QED BY <1>2, <1>3, <1>4, <1>5, <2>1, <2>2 DEF AnswerRows, OwnRow, Draining
<1>10. WokenRow'
  BY <1>2, <1>3, <1>6, <1>7 DEF WokenRow, Kept
<1>11. OwnFrame' /\ FreshFrame'
  <2>1. frame[t].open \/ job'[t].kind # "write"
    BY <1>2, <1>6 DEF OwnFrame, Draining
  <2>2. OwnFrame'
    BY <1>3, <1>4, <1>5, <1>6, <2>1 DEF OwnFrame, Draining
  <2>3. FreshFrame'
    BY <1>3 DEF FreshFrame
  <2> QED BY <2>2, <2>3
<1>12. AnsweredIsDurable' /\ LostOnlyWithItsBatch'
  BY <1>2, <1>6 DEF AnsweredIsDurable, LostOnlyWithItsBatch
<1> QED BY <1>8, <1>9, <1>10, <1>11, <1>12


\* The batch commits, or its writes are in doubt.
LEMMA CloseRows ==
  ASSUME HoldInv, DurableInv, NEW t \in Threads, CloseBatch(t)
  PROVE  DurableInv'
<1> USE DEF DurableInv
<1>1. PICK ok \in BOOLEAN :
        /\ FinishBatch(ok)
        /\ frame' = [frame EXCEPT ![t].committed = IF frame[t].first /\ frame[t].open THEN ok ELSE @,
                                  ![t].first = FALSE, ![t].batching = FALSE, ![t].ok = ok]
        /\ doubt' = doubt \cup {job[u].call : u \in {v \in BatchOf(t) : ~ok}}
  BY DEF CloseBatch
<1>2. /\ pc[t] = "drain" /\ frame[t].batching /\ pc' = [pc EXCEPT ![t] = "answer"]
      /\ job' = job /\ answers' = answers
  BY DEF CloseBatch
<1>3. /\ pc'[t] = "answer" /\ \A u \in Threads : u # t => pc'[u] = pc[u]
      /\ \A u \in Threads : u # t => frame'[u] = frame[u]
  BY <1>1, <1>2 DEF HoldInv, TypeOK
<1>4. /\ frame'[t].open = frame[t].open /\ ~frame'[t].first /\ ~frame'[t].batching
      /\ frame'[t].batched = frame[t].batched /\ frame'[t].ok = ok
      /\ frame'[t].committed = IF frame[t].first /\ frame[t].open THEN ok ELSE frame[t].committed
  BY <1>1 DEF HoldInv, TypeOK, Frames
<1>5. \A u \in Threads : u # t => pc'[u] \notin Draining
  BY <1>2, <1>3, OnlyHolderDrains DEF Holds
<1>6. \A u \in BatchOf(t) : InBatch(u)
  BY <1>2 DEF BatchRows
<1>7. durable \subseteq durable' /\ (ok => batch = "ready" \/ (batch = "open" /\ durable' = durable \cup txn))
  BY <1>1 DEF FinishBatch
<1>8. \A c : HasRow(durable, c) => HasRow(durable', c)
  BY <1>7 DEF HasRow
<1>9. \A u \in Threads : Kept(u) => Kept(u)'
  BY <1>2, <1>8 DEF Kept
<1>10. \A u \in BatchOf(t) : IF ok THEN Kept(u)' ELSE job'[u].call \in doubt'
  <2>1. CASE ok
    BY <1>2, <1>6, <1>7, <2>1 DEF InBatch, Kept, HasRow
  <2>2. CASE ~ok
    BY <1>1, <1>2, <2>2
  <2> QED BY <2>1, <2>2
<1>11. /\ Range(frame[t].batched) \subseteq BatchOf(t)
       /\ frame[t].first /\ frame[t].open => t \in BatchOf(t)
  BY DEF BatchOf
<1>12. BatchRows' /\ AnswerRows'
  BY <1>3, <1>4, <1>5, <1>10, <1>11 DEF BatchRows, AnswerRows, Draining
<1>13. OwnRow'
  <2>1. pc[t] \in Draining /\ doubt \subseteq doubt'
    BY <1>1, <1>2 DEF Draining
  <2>2. CASE frame[t].first /\ frame[t].open
    BY <1>3, <1>4, <1>5, <1>10, <1>11, <2>2 DEF OwnRow
  <2>3. CASE ~(frame[t].first /\ frame[t].open)
    BY <1>2, <1>3, <1>4, <1>5, <1>9, <2>1, <2>3 DEF OwnRow
  <2> QED BY <2>2, <2>3
<1>14. WokenRow'
  BY <1>1, <1>2, <1>3, <1>9 DEF WokenRow
<1>15. OwnFrame' /\ FreshFrame'
  BY <1>2, <1>3, <1>4, <1>5 DEF OwnFrame, FreshFrame, Draining
<1>16. AnsweredIsDurable' /\ LostOnlyWithItsBatch'
  BY <1>1, <1>2, <1>7 DEF AnsweredIsDurable, LostOnlyWithItsBatch
<1> QED BY <1>12, <1>13, <1>14, <1>15, <1>16

\* A writer is told what became of its batch.
LEMMA AnswerOneRows ==
  ASSUME HoldInv, DurableInv, NEW t \in Threads, AnswerOne(t)
  PROVE  DurableInv'
<1> USE DEF DurableInv
<1>0. frame[t].batched \in Seq(Threads) /\ frame[t].batched # <<>> /\ pc[t] = "answer"
  BY MembersAreThreads DEF AnswerOne, HoldInv
<1>1. PICK j \in Threads : j = Head(frame[t].batched)
  BY <1>0, TailMembers
<1>2. /\ pc' = [pc EXCEPT ![j] = "woken"] /\ job' = [job EXCEPT ![j].lost = ~frame[t].ok]
      /\ frame' = [frame EXCEPT ![t].batched = Tail(@)]
      /\ durable' = durable /\ doubt' = doubt /\ answers' = answers
  BY <1>1 DEF AnswerOne, storeVars, history
<1>3. j \in Range(frame[t].batched) /\ Range(Tail(frame[t].batched)) \subseteq Range(frame[t].batched)
  BY <1>0, <1>1, TailMembers
<1>4. Sleeping(j) /\ j # t
  BY <1>0, <1>3 DEF HoldInv, BatchSleeps, Sleeping, Draining
<1>5. pc'[j] = "woken" /\ \A u \in Threads : u # j => pc'[u] = pc[u]
  BY <1>2 DEF HoldInv, TypeOK
<1>6. /\ frame'[t].open = frame[t].open /\ frame'[t].first = frame[t].first
      /\ frame'[t].committed = frame[t].committed /\ frame'[t].batching = frame[t].batching
      /\ frame'[t].ok = frame[t].ok /\ frame'[t].batched = Tail(frame[t].batched)
      /\ \A u \in Threads : u # t => frame'[u] = frame[u]
  BY <1>2 DEF HoldInv, TypeOK, Frames
<1>7. \A u \in Threads : u # t => pc'[u] \notin Draining
  BY <1>0, <1>5, OnlyHolderDrains DEF Holds, Draining
<1>8. /\ \A u \in Threads : job'[u].call = job[u].call /\ job'[u].answer = job[u].answer
      /\ \A u \in Threads : job'[u].kind = job[u].kind
      /\ (job'[j].lost <=> ~frame[t].ok) /\ \A u \in Threads : u # j => job'[u] = job[u]
  BY <1>2 DEF HoldInv, TypeOK, Jobs
<1>9. \A u \in Threads : Kept(u)' <=> Kept(u)
  BY <1>2, <1>8 DEF Kept
<1>10. pc'[t] = "answer"
  BY <1>0, <1>4, <1>5
<1>11. BatchRows' /\ AnswerRows'
  <2>1. \A u \in Range(frame[t].batched) : u \in Threads /\ (IF frame[t].ok THEN Kept(u) ELSE job[u].call \in doubt)
    BY <1>0, MembersAreThreads DEF AnswerRows, HoldInv
  <2>2. \A u \in Range(frame'[t].batched) : IF frame'[t].ok THEN Kept(u)' ELSE job'[u].call \in doubt'
    BY <1>2, <1>3, <1>6, <1>8, <1>9, <2>1
  <2>3. BatchRows'
    BY <1>7, <1>10 DEF BatchRows, Draining
  <2>4. AnswerRows'
    BY <1>7, <2>2 DEF AnswerRows, Draining
  <2> QED BY <2>3, <2>4
<1>12. OwnRow'
  BY <1>0, <1>2, <1>6, <1>7, <1>8, <1>9, <1>10 DEF OwnRow, Draining
<1>13. WokenRow'
  <2>1. IF frame[t].ok THEN Kept(j) ELSE job[j].call \in doubt
    BY <1>0, <1>3 DEF AnswerRows
  <2>2. IF job'[j].lost THEN job'[j].call \in doubt' ELSE Kept(j)'
    BY <1>2, <1>8, <1>9, <2>1
  <2>3. ASSUME NEW u \in Threads, u # j, pc'[u] = "woken", ~job'[u].handed
        PROVE  IF job'[u].lost THEN job'[u].call \in doubt' ELSE Kept(u)'
    BY <1>2, <1>5, <1>8, <1>9, <2>3 DEF WokenRow
  <2> QED BY <2>2, <2>3 DEF WokenRow
<1>14. OwnFrame' /\ FreshFrame'
  BY <1>0, <1>4, <1>5, <1>6, <1>7, <1>8, <1>10 DEF OwnFrame, FreshFrame, Draining, Sleeping
<1>15. AnsweredIsDurable' /\ LostOnlyWithItsBatch'
  BY <1>2 DEF AnsweredIsDurable, LostOnlyWithItsBatch
<1> QED BY <1>11, <1>12, <1>13, <1>14, <1>15


\* The holder returns: the answer it hears was saved, or its batch is in doubt.
LEMMA LeaveRows ==
  ASSUME HoldInv, DurableInv, NEW t \in Threads, pc[t] = "drain", ~frame[t].batching,
         Heard(t, ~frame[t].committed), durable' = durable, doubt' = doubt
  PROVE  AnsweredIsDurable' /\ LostOnlyWithItsBatch'
<1> USE DEF DurableInv
<1> DEFINE heard == IF ~frame[t].committed /\ job[t].answer = "ok" THEN "lost" ELSE job[t].answer
<1>1. answers' = answers \cup
        {[call |-> job[t].call, kind |-> IF job[t].kind = "write" THEN "write" ELSE "read",
          answer |-> heard]}
  BY DEF Heard
<1>2. job[t].answer \in {"none", "ok", "error"}
  BY DEF HoldInv, TypeOK, Jobs
<1>3. job[t].kind = "write" /\ heard = "ok" => HasRow(durable, job[t].call)
  <2>1. frame[t].open /\ frame[t].committed /\ job[t].answer = "ok" => Kept(t)
    BY DEF OwnRow, OwnFrame, Draining
  <2> QED BY <1>2, <2>1 DEF Kept, OwnFrame, Draining
<1>4. heard = "lost" => job[t].call \in doubt
  BY <1>2 DEF OwnRow, Draining
<1>5. AnsweredIsDurable'
  BY <1>1, <1>3 DEF AnsweredIsDurable, HasRow
<1>6. LostOnlyWithItsBatch'
  BY <1>1, <1>4 DEF LostOnlyWithItsBatch
<1> QED BY <1>5, <1>6

\* The holder returns and leaves the Store free.
LEMMA LetGoRows ==
  ASSUME HoldInv, DurableInv, NEW t \in Threads, LetGo(t)
  PROVE  DurableInv'
<1> USE DEF DurableInv
<1>1. /\ pc[t] = "drain" /\ ~frame[t].batching /\ pc' = [pc EXCEPT ![t] = "idle"]
      /\ job' = job /\ frame' = frame /\ durable' = durable /\ doubt' = doubt
      /\ Heard(t, ~frame[t].committed)
  BY DEF LetGo, storeVars
<1>2. /\ pc'[t] = "idle" /\ \A u \in Threads : u # t => pc'[u] = pc[u]
      /\ \A u \in Threads : pc'[u] \notin Draining
  BY <1>1, OnlyHolderDrains DEF HoldInv, TypeOK, Holds, Draining
<1>3. BatchRows' /\ AnswerRows' /\ OwnRow'
  BY <1>2 DEF BatchRows, AnswerRows, OwnRow, Draining
<1>4. WokenRow' /\ OwnFrame' /\ FreshFrame'
  BY <1>1, <1>2 DEF WokenRow, Kept, OwnFrame, FreshFrame, Draining
<1> QED BY <1>1, <1>3, <1>4, LeaveRows

\* The holder returns and the next caller holds the Store.
LEMMA HandOverRows ==
  ASSUME HoldInv, DurableInv, NEW t \in Threads, HandOver(t)
  PROVE  DurableInv'
<1> USE DEF DurableInv
<1>0. PICK j \in Threads : j = Head(queue) /\ Sleeping(j)
  BY TailMembers DEF HandOver, HoldInv, TypeOK, QueueSleeps
<1>1. /\ pc[t] = "drain" /\ ~frame[t].batching /\ pc' = [pc EXCEPT ![j] = "woken", ![t] = "idle"]
      /\ job' = [job EXCEPT ![j].handed = TRUE]
      /\ frame' = frame /\ durable' = durable /\ doubt' = doubt
      /\ Heard(t, ~frame[t].committed)
  BY <1>0 DEF HandOver, storeVars
<1>2. j # t /\ pc[j] = "waiting"
  BY <1>0, <1>1 DEF Sleeping
<1>3. /\ pc'[j] = "woken" /\ pc'[t] = "idle" /\ \A u \in Threads : u \notin {j, t} => pc'[u] = pc[u]
      /\ job'[j].handed /\ \A u \in Threads : u # j => job'[u] = job[u]
  BY <1>1, <1>2 DEF HoldInv, TypeOK, Jobs
<1>4. \A u \in Threads : pc'[u] \notin Draining
  BY <1>1, <1>3, OnlyHolderDrains DEF Holds, Draining
<1>5. BatchRows' /\ AnswerRows' /\ OwnRow'
  BY <1>4 DEF BatchRows, AnswerRows, OwnRow, Draining
<1>6. WokenRow'
  BY <1>1, <1>3 DEF WokenRow, Kept
<1>7. OwnFrame' /\ FreshFrame'
  BY <1>1, <1>2, <1>3, <1>4 DEF OwnFrame, FreshFrame, Draining
<1> QED BY <1>1, <1>5, <1>6, <1>7, LeaveRows

\* A woken writer returns what it was told.
LEMMA HearRows ==
  ASSUME HoldInv, DurableInv, NEW t \in Threads, HearAnswer(t)
  PROVE  DurableInv'
<1> USE DEF DurableInv
<1>1. /\ pc[t] = "woken" /\ ~job[t].handed /\ pc' = [pc EXCEPT ![t] = "idle"] /\ Heard(t, job[t].lost)
      /\ job' = job /\ frame' = frame /\ batch' = batch /\ txn' = txn
      /\ durable' = durable /\ doubt' = doubt
  BY DEF HearAnswer, storeVars
<1>2. pc'[t] = "idle" /\ \A u \in Threads : u # t => pc'[u] = pc[u]
  BY <1>1 DEF HoldInv, TypeOK
<1>3. BatchRows'
  BY <1>1, <1>2 DEF BatchRows, BatchOf, InBatch
<1>4. AnswerRows' /\ OwnRow'
  BY <1>1, <1>2 DEF AnswerRows, OwnRow, Kept, Draining
<1>5. WokenRow' /\ OwnFrame' /\ FreshFrame'
  BY <1>1, <1>2 DEF WokenRow, OwnFrame, FreshFrame, Kept, Draining
<1> DEFINE heard == IF job[t].lost /\ job[t].answer = "ok" THEN "lost" ELSE job[t].answer
<1>6. answers' = answers \cup
        {[call |-> job[t].call, kind |-> IF job[t].kind = "write" THEN "write" ELSE "read",
          answer |-> heard]}
  BY <1>1 DEF Heard
<1>7. job[t].answer \in {"none", "ok", "error"}
  BY DEF HoldInv, TypeOK, Jobs
<1>8. (heard = "ok" => HasRow(durable, job[t].call)) /\ (heard = "lost" => job[t].call \in doubt)
  BY <1>1, <1>7 DEF WokenRow, Kept
<1>9. AnsweredIsDurable'
  BY <1>1, <1>6, <1>8 DEF AnsweredIsDurable, HasRow
<1>10. LostOnlyWithItsBatch'
  BY <1>1, <1>6, <1>8 DEF LostOnlyWithItsBatch
<1> QED BY <1>3, <1>4, <1>5, <1>9, <1>10


\* Every step keeps the rows' invariant.
LEMMA DurableStep == HoldInv /\ DurableInv /\ [Next]_vars => DurableInv'
<1> SUFFICES ASSUME HoldInv, DurableInv, [Next]_vars PROVE DurableInv'
  OBVIOUS
<1>1. CASE UNCHANGED vars
  BY <1>1 DEF vars, DurableInv, BatchRows, AnswerRows, OwnRow, WokenRow, OwnFrame, FreshFrame,
              AnsweredIsDurable, LostOnlyWithItsBatch, BatchOf, InBatch, Kept
<1>2. CASE Next
  <2> USE DEF queueVars, storeVars, history
  <2>1. ASSUME NEW t \in Threads, NEW k \in Kinds, Take(t, k) PROVE DurableInv'
    BY <2>1, TakeRows
  <2>2. ASSUME NEW t \in Threads, Own(t) PROVE DurableInv'
    BY <2>2, BeforeDrain DEF Own, Holds
  <2>3. ASSUME NEW t \in Threads, HearAnswer(t) PROVE DurableInv'
    BY <2>3, HearRows
  <2>4. ASSUME NEW t \in Threads, ReadBody(t) PROVE DurableInv'
    <3>1. /\ job'[t].kind = job[t].kind /\ \A u \in Threads : u # t => job'[u] = job[u]
      BY <2>4 DEF ReadBody, HoldInv, TypeOK, Jobs
    <3>2. \/ pc' = [pc EXCEPT ![t] = "holding"] /\ job[t].kind = "held"
          \/ pc' = [pc EXCEPT ![t] = "drain"] /\ job[t].kind # "write"
      BY <2>4 DEF ReadBody
    <3>3. Holds(t) /\ pc[t] = "body" /\ frame' = frame /\ durable' = durable
          /\ doubt' = doubt /\ answers' = answers
      BY <2>4 DEF ReadBody, Holds
    <3> QED BY <3>1, <3>2, <3>3, BeforeDrain
  <2>5. ASSUME NEW t \in Threads, Release(t) PROVE DurableInv'
    <3>1. job[t].kind = "held"
      BY <2>5 DEF Release, DurableInv, OwnFrame
    <3> QED BY <2>5, <3>1, BeforeDrain DEF Release, Holds
  <2>6. ASSUME NEW t \in Threads, StartOwnBatch(t) PROVE DurableInv'
    BY <2>6, BeforeDrain DEF StartOwnBatch, Holds
  <2>7. ASSUME NEW t \in Threads, RunOwnWrite(t) PROVE DurableInv'
    BY <2>7, OwnWriteRows
  <2>8. ASSUME NEW t \in Threads, PopWrite(t) PROVE DurableInv'
    BY <2>8, PopRows
  <2>9. ASSUME NEW t \in Threads, RunQueuedWrite(t) PROVE DurableInv'
    BY <2>9, RunQueuedRows
  <2>10. ASSUME NEW t \in Threads, CloseBatch(t) PROVE DurableInv'
    BY <2>10, CloseRows
  <2>11. ASSUME NEW t \in Threads, AnswerOne(t) PROVE DurableInv'
    BY <2>11, AnswerOneRows
  <2>12. ASSUME NEW t \in Threads, BatchAnswered(t) PROVE DurableInv'
    <3>1. /\ pc[t] = "answer" /\ pc' = [pc EXCEPT ![t] = "drain"] /\ job' = job /\ frame' = frame
          /\ durable' = durable /\ doubt' = doubt /\ answers' = answers
      BY <2>12 DEF BatchAnswered
    <3>2. /\ pc'[t] = "drain" /\ \A u \in Threads : u # t => pc'[u] = pc[u]
          /\ \A u \in Threads : u # t => pc'[u] \notin Draining
      BY <3>1, OnlyHolderDrains DEF HoldInv, TypeOK, Holds
    <3>3. ~frame'[t].batching /\ ~frame'[t].first
      BY <3>1 DEF DurableInv, OwnFrame
    <3>4. BatchRows' /\ AnswerRows'
      BY <3>2, <3>3 DEF BatchRows, AnswerRows, Draining
    <3>5. OwnRow' /\ WokenRow'
      BY <3>1, <3>2 DEF DurableInv, OwnRow, WokenRow, Kept, Draining
    <3>6. OwnFrame' /\ FreshFrame'
      BY <3>1, <3>2, <3>3 DEF DurableInv, OwnFrame, FreshFrame, Draining
    <3>7. AnsweredIsDurable' /\ LostOnlyWithItsBatch'
      BY <3>1 DEF DurableInv, AnsweredIsDurable, LostOnlyWithItsBatch
    <3> QED BY <3>4, <3>5, <3>6, <3>7 DEF DurableInv
  <2>13. ASSUME NEW t \in Threads, LetGo(t) PROVE DurableInv'
    BY <2>13, LetGoRows
  <2>14. ASSUME NEW t \in Threads, HandOver(t) PROVE DurableInv'
    BY <2>14, HandOverRows
  <2>15. ASSUME Crash PROVE DurableInv'
    <3>1. /\ pc' = [t \in Threads |-> "idle"] /\ durable' = durable /\ doubt' = doubt /\ answers' = answers
      BY <2>15 DEF Crash
    <3> QED BY <3>1 DEF DurableInv, BatchRows, AnswerRows, OwnRow, WokenRow, OwnFrame, FreshFrame,
                        AnsweredIsDurable, LostOnlyWithItsBatch, Draining
  <2> QED BY <1>2, <2>1, <2>2, <2>3, <2>4, <2>5, <2>6, <2>7, <2>8, <2>9, <2>10, <2>11, <2>12, <2>13,
             <2>14, <2>15 DEF Next, Hold, Drain
<1> QED BY <1>1, <1>2

\* So it holds throughout.
LEMMA DurableInvariant == Spec => []DurableInv
<1>1. Init => DurableInv
  BY DurableInit
<1>2. HoldInv /\ DurableInv /\ [Next]_vars => DurableInv'
  BY DurableStep
<1> QED BY <1>1, <1>2, HoldInvariant, PTL DEF Spec

\* queue.zig, drain and lostAnswer: whatever fails, and wherever the Host dies, a
\* write that was answered with success is durable.
THEOREM NoEarlySuccess == Spec => []AnsweredIsDurable
<1>1. DurableInv => AnsweredIsDurable
  BY DEF DurableInv
<1> QED BY <1>1, DurableInvariant, PTL

\* queue.zig, drain's `first`: a write hears that it was lost only when the batch
\* it was in failed to commit.
THEOREM LostOnlyWithOwnBatch == Spec => []LostOnlyWithItsBatch
<1>1. DurableInv => LostOnlyWithItsBatch
  BY DEF DurableInv
<1> QED BY <1>1, DurableInvariant, PTL
=============================================================================
