--------------------------- MODULE StoreOrderProofs -------------------------
(***************************************************************************)
(* More theorems about StoreQueue, for any number of threads, calls and    *)
(* crashes: nobody is left asleep, reads see committed rows, identities    *)
(* follow arrival, and the queue implements StoreContract.                 *)
(***************************************************************************)
EXTENDS StoreQueueProofs

-----------------------------------------------------------------------------
(* Where sleeping callers are *)

\* A frame holds callers only while its thread drains.
QuietFrames ==
  \A u \in Threads : /\ pc[u] \notin Draining => frame[u].batched = <<>>
                     /\ pc[u] # "running" => frame[u].running = NoThread

InSomeBatch(t) == \E u \in Threads : pc[u] \in Draining /\ t \in Range(frame[u].batched)

InSomeRun(t) == \E u \in Threads : pc[u] = "running" /\ frame[u].running = t

\* A sleeping caller is somewhere.
Placed ==
  \A t \in Threads : pc[t] = "waiting" =>
    t \in Range(queue) \/ InSomeBatch(t) \/ InSomeRun(t)

WaitInv == QuietFrames /\ Placed /\ (queue # <<>> => held)

\* A member of a sequence is its head or in the rest.
LEMMA HeadOrTail ==
  ASSUME NEW S, NEW q \in Seq(S), q # <<>>
  PROVE  \A x \in Range(q) : x = Head(q) \/ x \in Range(Tail(q))
<1>1. Len(q) \in Nat /\ Len(q) >= 1 /\ DOMAIN q = 1..Len(q) /\ Head(q) = q[1]
  BY HeadTailProperties, EmptySeq, LenProperties
<1>2. DOMAIN Tail(q) = 1..(Len(q) - 1) /\ \A i \in 1..(Len(q) - 1) : Tail(q)[i] = q[i + 1]
  BY <1>1, HeadTailProperties, LenProperties
<1>3. ASSUME NEW i \in DOMAIN q, i # 1 PROVE q[i] \in Range(Tail(q))
  <2>1. i - 1 \in DOMAIN Tail(q) /\ Tail(q)[i - 1] = q[i]
    BY <1>1, <1>2, <1>3
  <2> QED BY <2>1 DEF Range
<1> QED BY <1>1, <1>3 DEF Range

\* At the start nobody sleeps.
LEMMA WaitInit == Init => WaitInv
  BY DEF Init, WaitInv, QuietFrames, Placed, NoFrame, Draining

\* A step that moves no caller between the queue and the frames.
LEMMA NobodyMoves ==
  ASSUME HoldInv, WaitInv, TypeOK', queue' = queue, held' = held,
         \A u \in Threads : pc'[u] = "waiting" <=> pc[u] = "waiting",
         \A u \in Threads : pc'[u] = "running" <=> pc[u] = "running",
         \A u \in Threads : pc[u] \in Draining /\ pc'[u] \notin Draining => frame[u].batched = <<>>,
         \A u \in Threads : frame'[u].batched = frame[u].batched /\ frame'[u].running = frame[u].running
  PROVE  WaitInv'
<1> USE DEF WaitInv
<1>1. QuietFrames'
  BY DEF QuietFrames
<1>2. \A u \in Threads : InSomeBatch(u) => InSomeBatch(u)'
  BY NoMembers DEF InSomeBatch
<1>3. \A u \in Threads : InSomeRun(u) => InSomeRun(u)'
  BY DEF InSomeRun
<1>4. Placed'
  BY <1>2, <1>3 DEF Placed
<1> QED BY <1>1, <1>4

\* Queue.take: a caller that sleeps is in the queue.
LEMMA TakeWaits ==
  ASSUME HoldInv, WaitInv, NEW t \in Threads, NEW k \in Kinds, Take(t, k)
  PROVE  WaitInv'
<1> USE DEF WaitInv
<1>1. /\ pc[t] = "idle" /\ frame' = [frame EXCEPT ![t] = NoFrame]
      /\ \/ ~held /\ held' = TRUE /\ pc' = [pc EXCEPT ![t] = "taken"] /\ queue' = queue
         \/ held /\ queue' = Append(queue, t) /\ pc' = [pc EXCEPT ![t] = "waiting"] /\ held' = held
  BY DEF Take
<1>2. /\ pc'[t] \in {"taken", "waiting"} /\ frame'[t].batched = <<>> /\ frame'[t].running = NoThread
      /\ \A u \in Threads : u # t => pc'[u] = pc[u] /\ frame'[u] = frame[u]
  BY <1>1 DEF HoldInv, TypeOK, NoFrame
<1>3. QuietFrames'
  BY <1>2 DEF QuietFrames, Draining
<1>4. /\ Range(queue) \subseteq Range(queue') /\ (pc'[t] = "waiting" => t \in Range(queue'))
  <2>1. CASE queue' = queue
    BY <1>1, <2>1 DEF HoldInv, TypeOK
  <2>2. CASE queue' = Append(queue, t)
    BY <2>2, AppendMembers DEF HoldInv, TypeOK
  <2> QED BY <1>1, <2>1, <2>2
<1>5. \A u \in Threads : u # t /\ InSomeBatch(u) => InSomeBatch(u)'
  BY <1>1, <1>2 DEF InSomeBatch, Draining
<1>6. \A u \in Threads : u # t /\ InSomeRun(u) => InSomeRun(u)'
  BY <1>1, <1>2 DEF InSomeRun
<1>7. Placed'
  BY <1>2, <1>4, <1>5, <1>6 DEF Placed
<1>8. held'
  BY <1>1
<1> QED BY <1>3, <1>7, <1>8

\* drain's pop takes a caller from the queue into the holder's hands.
LEMMA PopWaits ==
  ASSUME HoldInv, WaitInv, NEW t \in Threads, PopWrite(t)
  PROVE  WaitInv'
<1> USE DEF WaitInv
<1>0. PICK j \in Threads : j = Head(queue)
  BY TailMembers DEF PopWrite, MayRun, HoldInv, TypeOK
<1>1. /\ pc[t] = "drain" /\ queue # <<>> /\ queue' = Tail(queue) /\ held' = held
      /\ pc' = [pc EXCEPT ![t] = "running"]
      /\ frame' = [frame EXCEPT ![t].batching = TRUE, ![t].running = j]
  BY <1>0 DEF PopWrite, MayRun
<1>2. /\ pc'[t] = "running" /\ \A u \in Threads : u # t => pc'[u] = pc[u] /\ frame'[u] = frame[u]
      /\ frame'[t].running = j /\ frame'[t].batched = frame[t].batched
  BY <1>1 DEF HoldInv, TypeOK, Frames
<1>3. \A u \in Range(queue) : u = j \/ u \in Range(queue')
  BY <1>0, <1>1, HeadOrTail DEF HoldInv, TypeOK
<1>4. QuietFrames'
  BY <1>1, <1>2 DEF QuietFrames, Draining
<1>5. \A u \in Threads : InSomeBatch(u) => InSomeBatch(u)'
  BY <1>1, <1>2 DEF InSomeBatch, Draining
<1>6. \A u \in Threads : InSomeRun(u) => InSomeRun(u)'
  BY <1>1, <1>2 DEF InSomeRun
<1>7. InSomeRun(j)'
  BY <1>2 DEF InSomeRun
<1>8. Placed'
  BY <1>1, <1>2, <1>3, <1>5, <1>6, <1>7 DEF Placed
<1> QED BY <1>1, <1>4, <1>8

\* A caller whose body a holder ran goes into that holder's batch.
LEMMA RunQueuedWaits ==
  ASSUME HoldInv, WaitInv, NEW t \in Threads, RunQueuedWrite(t)
  PROVE  WaitInv'
<1> USE DEF WaitInv
<1> DEFINE j == frame[t].running
<1>1. /\ pc[t] = "running" /\ pc' = [pc EXCEPT ![t] = "drain"] /\ held' = held /\ queue' = queue
      /\ frame' = [frame EXCEPT ![t].ran = @ + 1, ![t].batched = <<j>> \o @, ![t].running = NoThread]
  BY DEF RunQueuedWrite, queueVars
<1>2. j \in Threads
  BY <1>1 DEF HoldInv, RunningSleeps
<1>3. /\ pc'[t] = "drain" /\ \A u \in Threads : u # t => pc'[u] = pc[u] /\ frame'[u] = frame[u]
      /\ frame'[t].running = NoThread /\ frame'[t].batched = <<j>> \o frame[t].batched
  BY <1>1 DEF HoldInv, TypeOK, Frames
<1>4. Range(frame'[t].batched) = Range(frame[t].batched) \cup {j}
  BY <1>2, <1>3, PrependMembers, MembersAreThreads DEF HoldInv
<1>5. QuietFrames'
  BY <1>1, <1>3 DEF QuietFrames, Draining
<1>6. \A u \in Threads : InSomeBatch(u) => InSomeBatch(u)'
  BY <1>1, <1>3, <1>4 DEF InSomeBatch, Draining
<1>7. \A u \in Threads : InSomeRun(u) => InSomeRun(u)' \/ InSomeBatch(u)'
  BY <1>1, <1>3, <1>4 DEF InSomeRun, InSomeBatch, Draining
<1>8. Placed'
  BY <1>1, <1>3, <1>6, <1>7 DEF Placed
<1> QED BY <1>1, <1>5, <1>8

\* answerBatch wakes the caller it takes out of the batch.
LEMMA AnswerWaits ==
  ASSUME HoldInv, WaitInv, NEW t \in Threads, AnswerOne(t)
  PROVE  WaitInv'
<1> USE DEF WaitInv
<1> DEFINE j == Head(frame[t].batched)
<1>1. /\ pc[t] = "answer" /\ frame[t].batched # <<>> /\ pc' = [pc EXCEPT ![j] = "woken"]
      /\ held' = held /\ queue' = queue /\ frame' = [frame EXCEPT ![t].batched = Tail(@)]
  BY DEF AnswerOne, queueVars
<1>2. frame[t].batched \in Seq(Threads)
  BY MembersAreThreads DEF HoldInv
<1>3. /\ j \in Threads /\ j \in Range(frame[t].batched)
      /\ \A u \in Range(frame[t].batched) : u = j \/ u \in Range(Tail(frame[t].batched))
  BY <1>1, <1>2, TailMembers, HeadOrTail
<1>4. Sleeping(j) /\ j # t
  BY <1>1, <1>3 DEF HoldInv, BatchSleeps, Sleeping, Draining
<1>5. /\ pc'[j] = "woken" /\ \A u \in Threads : u # j => pc'[u] = pc[u]
      /\ \A u \in Threads : frame'[u].running = frame[u].running
      /\ \A u \in Threads : u # t => frame'[u] = frame[u]
      /\ frame'[t].batched = Tail(frame[t].batched)
  BY <1>1, <1>3 DEF HoldInv, TypeOK, Frames
<1>6. QuietFrames'
  BY <1>1, <1>4, <1>5 DEF QuietFrames, Draining, Sleeping
<1>7. \A u \in Threads : u # j /\ InSomeBatch(u) => InSomeBatch(u)'
  <2> SUFFICES ASSUME NEW u \in Threads, u # j, NEW v \in Threads, pc[v] \in Draining,
                      u \in Range(frame[v].batched)
               PROVE  pc'[v] \in Draining /\ u \in Range(frame'[v].batched)
    BY DEF InSomeBatch
  <2>1. v # j
    BY <1>4 DEF Sleeping, Draining
  <2> QED BY <1>3, <1>5, <2>1
<1>8. \A u \in Threads : u # j /\ InSomeRun(u) => InSomeRun(u)'
  BY <1>4, <1>5 DEF InSomeRun, Sleeping
<1>9. Placed'
  BY <1>1, <1>5, <1>7, <1>8 DEF Placed
<1> QED BY <1>1, <1>6, <1>9

\* The hand-over wakes the caller it takes out of the queue.
LEMMA HandOverWaits ==
  ASSUME HoldInv, WaitInv, NEW t \in Threads, HandOver(t)
  PROVE  WaitInv'
<1> USE DEF WaitInv
<1> DEFINE j == Head(queue)
<1>1. /\ pc[t] = "drain" /\ ~frame[t].batching /\ queue # <<>> /\ queue' = Tail(queue) /\ held' = held
      /\ pc' = [pc EXCEPT ![j] = "woken", ![t] = "idle"] /\ frame' = frame
  BY DEF HandOver
<1>2. /\ j \in Range(queue) /\ j \in Threads
      /\ \A u \in Range(queue) : u = j \/ u \in Range(queue')
  BY <1>1, TailMembers, HeadOrTail DEF HoldInv, TypeOK
<1>3. Sleeping(j) /\ j # t
  BY <1>1, <1>2 DEF HoldInv, QueueSleeps, Sleeping
<1>4. /\ pc'[j] = "woken" /\ pc'[t] = "idle" /\ \A u \in Threads : u \notin {j, t} => pc'[u] = pc[u]
  BY <1>1, <1>2, <1>3 DEF HoldInv, TypeOK
<1>5. frame[t].batched = <<>>
  BY <1>1 DEF HoldInv, NothingBatched
<1>6. QuietFrames'
  BY <1>1, <1>3, <1>4, <1>5 DEF QuietFrames, Draining, Sleeping
<1>7. \A u \in Threads : InSomeBatch(u) => InSomeBatch(u)'
  <2> SUFFICES ASSUME NEW u \in Threads, NEW v \in Threads, pc[v] \in Draining,
                      u \in Range(frame[v].batched)
               PROVE  pc'[v] \in Draining /\ u \in Range(frame'[v].batched)
    BY DEF InSomeBatch
  <2>1. v # j /\ v # t
    BY <1>3, <1>5, NoMembers DEF Sleeping, Draining
  <2> QED BY <1>1, <1>4, <2>1
<1>8. \A u \in Threads : InSomeRun(u) => InSomeRun(u)'
  BY <1>1, <1>3, <1>4 DEF InSomeRun, Sleeping
<1>9. Placed'
  BY <1>2, <1>4, <1>7, <1>8 DEF Placed
<1> QED BY <1>1, <1>6, <1>9

\* Every step keeps sleeping callers placed.
LEMMA WaitStep == HoldInv /\ HoldInv' /\ WaitInv /\ [Next]_vars => WaitInv'
<1> SUFFICES ASSUME HoldInv, HoldInv', WaitInv, [Next]_vars PROVE WaitInv'
  OBVIOUS
<1> USE DEF queueVars, storeVars, history
<1>0. TypeOK /\ TypeOK'
  BY DEF HoldInv
<1>1. CASE UNCHANGED vars
  BY <1>0, <1>1, NobodyMoves DEF vars
<1>2. ASSUME NEW t \in Threads, NEW k \in Kinds, Take(t, k) PROVE WaitInv'
  BY <1>2, TakeWaits
<1>3. ASSUME NEW t \in Threads, Own(t) PROVE WaitInv'
  BY <1>0, <1>3, NobodyMoves DEF Own, TypeOK, Draining
<1>4. ASSUME NEW t \in Threads, HearAnswer(t) PROVE WaitInv'
  BY <1>0, <1>4, NobodyMoves DEF HearAnswer, TypeOK, Draining
<1>5. ASSUME NEW t \in Threads, ReadBody(t) PROVE WaitInv'
  BY <1>0, <1>5, NobodyMoves DEF ReadBody, TypeOK, Draining
<1>6. ASSUME NEW t \in Threads, Release(t) PROVE WaitInv'
  BY <1>0, <1>6, NobodyMoves DEF Release, TypeOK, Draining
<1>7. ASSUME NEW t \in Threads, StartOwnBatch(t) PROVE WaitInv'
  BY <1>0, <1>7, NobodyMoves DEF StartOwnBatch, TypeOK, Draining
<1>8. ASSUME NEW t \in Threads, RunOwnWrite(t) PROVE WaitInv'
  <2>1. \A u \in Threads : frame'[u].batched = frame[u].batched /\ frame'[u].running = frame[u].running
    BY <1>0, <1>8 DEF RunOwnWrite, TypeOK, Frames
  <2> QED BY <1>0, <1>8, <2>1, NobodyMoves DEF RunOwnWrite, TypeOK, Draining
<1>9. ASSUME NEW t \in Threads, PopWrite(t) PROVE WaitInv'
  BY <1>9, PopWaits
<1>10. ASSUME NEW t \in Threads, RunQueuedWrite(t) PROVE WaitInv'
  BY <1>10, RunQueuedWaits
<1>11. ASSUME NEW t \in Threads, CloseBatch(t) PROVE WaitInv'
  <2>1. \A u \in Threads : frame'[u].batched = frame[u].batched /\ frame'[u].running = frame[u].running
    BY <1>0, <1>11 DEF CloseBatch, TypeOK, Frames
  <2> QED BY <1>0, <1>11, <2>1, NobodyMoves DEF CloseBatch, TypeOK, Draining
<1>12. ASSUME NEW t \in Threads, AnswerOne(t) PROVE WaitInv'
  BY <1>12, AnswerWaits
<1>13. ASSUME NEW t \in Threads, BatchAnswered(t) PROVE WaitInv'
  BY <1>0, <1>13, NobodyMoves DEF BatchAnswered, TypeOK, Draining
<1>14. ASSUME NEW t \in Threads, LetGo(t) PROVE WaitInv'
  <2>1. /\ pc[t] = "drain" /\ pc'[t] = "idle" /\ \A u \in Threads : u # t => pc'[u] = pc[u]
        /\ frame' = frame /\ frame[t].batched = <<>> /\ queue' = queue /\ queue = <<>>
    BY <1>0, <1>14 DEF LetGo, TypeOK, HoldInv, NothingBatched
  <2>2. QuietFrames'
    BY <2>1 DEF WaitInv, QuietFrames, Draining
  <2>3. \A u \in Threads : InSomeBatch(u) => InSomeBatch(u)'
    BY <2>1, NoMembers DEF InSomeBatch
  <2>4. \A u \in Threads : InSomeRun(u) => InSomeRun(u)'
    BY <2>1 DEF InSomeRun
  <2>5. Placed'
    BY <2>1, <2>3, <2>4 DEF WaitInv, Placed
  <2> QED BY <2>1, <2>2, <2>5 DEF WaitInv
<1>15. ASSUME NEW t \in Threads, HandOver(t) PROVE WaitInv'
  BY <1>15, HandOverWaits
<1>16. ASSUME Crash PROVE WaitInv'
  BY <1>16 DEF Crash, WaitInv, QuietFrames, Placed, NoFrame
<1> QED BY <1>1, <1>2, <1>3, <1>4, <1>5, <1>6, <1>7, <1>8, <1>9, <1>10, <1>11, <1>12,
           <1>13, <1>14, <1>15, <1>16 DEF Next, Hold, Drain

\* So it holds throughout.
LEMMA WaitInvariant == Spec => []WaitInv
<1>1. Init => WaitInv
  BY WaitInit
<1>2. HoldInv /\ HoldInv' /\ WaitInv /\ [Next]_vars => WaitInv'
  BY WaitStep
<1> QED BY <1>1, <1>2, HoldInvariant, PTL DEF Spec

\* A member of a sequence without repetitions is at one place in it.
LEMMA OnePlace ==
  ASSUME NEW S, NEW q \in Seq(S), IsInjective(q), NEW x \in Range(q)
  PROVE  \E i \in DOMAIN q : {n \in DOMAIN q : q[n] = x} = {i}
  BY DEF Range, IsInjective

\* queue.zig, take and drain: whoever sleeps in the queue, in a batch or in a
\* holder's hands is there once, and the Store it waits for is held.
THEOREM NobodyIsStranded == Spec => []NoStrandedWaiter
<1>1. ASSUME HoldInv, WaitInv, NEW t \in Threads, pc[t] = "waiting"
      PROVE  held /\ \E p \in Places(t) : Places(t) = {p}
  <2> DEFINE inQueue == {n \in DOMAIN queue : queue[n] = t}
             inBatch(u) == {n \in DOMAIN frame[u].batched : frame[u].batched[n] = t}
             inRun == {v \in Threads : frame[v].running = t}
             atQueue == {<<"queue", NoThread, i>> : i \in inQueue}
             atBatch == UNION {{<<"batch", u, i>> : i \in inBatch(u)} : u \in Threads}
             atRun == {<<"run", u, 0>> : u \in inRun}
  <2>0. /\ queue \in Seq(Threads) /\ IsInjective(queue)
        /\ \A u \in Threads : frame[u].batched \in Seq(Threads)
    BY <1>1, MembersAreThreads DEF HoldInv, TypeOK, QueueSleeps
  <2>1. Places(t) = atQueue \cup atBatch \cup atRun
    BY DEF Places
  <2>2. t \notin Range(queue) => inQueue = {}
    BY DEF Range
  <2>3. \A u \in Threads : t \notin Range(frame[u].batched) => inBatch(u) = {}
    BY DEF Range
  <2>4. \A u \in Threads : pc[u] \notin Draining => inBatch(u) = {}
    BY <1>1, <2>3, NoMembers DEF WaitInv, QuietFrames
  <2>5. \A u \in Threads : u \in inRun <=> pc[u] = "running" /\ frame[u].running = t
    BY <1>1, ThreadsAssumption DEF WaitInv, QuietFrames
  <2>6. \A u, v \in Threads : pc[u] \in Draining /\ pc[v] \in Draining => u = v
    BY <1>1, OnlyHolderDrains DEF Holds, Draining
  <2>7. \A u \in Threads : pc[u] \in Draining => held
    BY <1>1 DEF HoldInv, ExclusiveHold, Holds, Draining
  <2>8. CASE t \in Range(queue)
    <3>1. held
      BY <1>1, <2>8, NoMembers DEF WaitInv
    <3>2. \A u \in Threads : inBatch(u) = {}
      BY <1>1, <2>3, <2>4, <2>8 DEF HoldInv, BatchSleeps
    <3>3. inRun = {}
      BY <1>1, <2>5, <2>8 DEF HoldInv, RunningSleeps
    <3>4. PICK i \in DOMAIN queue : inQueue = {i}
      BY <2>0, <2>8, OnePlace
    <3>5. Places(t) = {<<"queue", NoThread, i>>}
      BY <2>1, <3>2, <3>3, <3>4
    <3> QED BY <3>1, <3>5
  <2>9. CASE InSomeBatch(t)
    <3>1. PICK u \in Threads : pc[u] \in Draining /\ t \in Range(frame[u].batched)
      BY <2>9 DEF InSomeBatch
    <3>2. IsInjective(frame[u].batched) /\ t \notin Range(queue)
      BY <1>1, <3>1 DEF HoldInv, BatchSleeps
    <3>3. inQueue = {} /\ \A v \in Threads : v # u => inBatch(v) = {}
      BY <2>2, <2>4, <2>6, <3>1, <3>2
    <3>4. inRun = {}
      BY <1>1, <2>5, <2>6, <3>1 DEF HoldInv, RunningSleeps, Draining
    <3>5. PICK i \in DOMAIN frame[u].batched : inBatch(u) = {i}
      BY <2>0, <3>1, <3>2, OnePlace
    <3>6. UNION {{<<"batch", v, n>> : n \in inBatch(v)} : v \in Threads} = {<<"batch", u, i>>}
      BY <3>3, <3>5
    <3>7. Places(t) = {<<"batch", u, i>>}
      BY <2>1, <3>3, <3>4, <3>6
    <3> QED BY <2>7, <3>1, <3>7
  <2>10. CASE InSomeRun(t)
    <3>1. PICK u \in Threads : pc[u] = "running" /\ frame[u].running = t
      BY <2>10 DEF InSomeRun
    <3>2. t \notin Range(queue) /\ t \notin Range(frame[u].batched)
      BY <1>1, <3>1 DEF HoldInv, RunningSleeps
    <3>3. inQueue = {} /\ \A v \in Threads : inBatch(v) = {}
      BY <2>2, <2>3, <2>4, <2>6, <3>1, <3>2 DEF Draining
    <3>4. inRun = {u}
      BY <2>5, <2>6, <3>1 DEF Draining
    <3>5. atRun = {<<"run", u, 0>>}
      BY <3>4
    <3>6. atQueue = {} /\ atBatch = {}
      BY <3>3
    <3>7. Places(t) = {<<"run", u, 0>>}
      <4> HIDE DEF atQueue, atBatch, atRun
      <4> QED BY <2>1, <3>5, <3>6
    <3> QED BY <2>7, <3>1, <3>7 DEF Draining
  <2> QED BY <1>1, <2>8, <2>9, <2>10 DEF WaitInv, Placed
<1>2. HoldInv /\ WaitInv => NoStrandedWaiter
  BY <1>1 DEF NoStrandedWaiter
<1> QED BY <1>2, HoldInvariant, WaitInvariant, PTL


-----------------------------------------------------------------------------
(* What the batch is while its holder moves *)

\* What the batch is at each point of the holder's way through drain.
BatchAt(t) ==
  /\ pc[t] \in {"taken", "woken", "body", "holding", "answer"} => batch = "none"
  /\ pc[t] = "write" => batch = "ready"
  /\ pc[t] = "drain" => (frame[t].batching <=> batch # "none")
  /\ pc[t] = "running" => batch # "none"

\* A lost batch fences the Store, and only a fenced Store keeps rows outside an
\* open batch.
BatchRowsOnly ==
  /\ batch = "lost" => fenced
  /\ ~fenced /\ batch \in {"none", "ready"} => txn = {}

BatchInv ==
  /\ BatchRowsOnly
  /\ ~held => batch = "none"
  /\ \A t \in Threads : Holds(t) => BatchAt(t)

\* The holder's step decides what the batch is.
LEMMA HolderBatch ==
  ASSUME HoldInv', NEW t \in Threads, Holds(t)', BatchAt(t)', BatchRowsOnly'
  PROVE  BatchInv'
<1>1. held' /\ \A u \in Threads : Holds(u)' => u = t
  BY DEF HoldInv, ExclusiveHold
<1> QED BY <1>1 DEF BatchInv

\* What a write body makes of the batch it runs in.
LEMMA BodyBatch ==
  ASSUME BatchRowsOnly, batch # "none", NEW j, WriteBody(j)
  PROVE  BatchRowsOnly' /\ batch' # "none"
  BY DEF WriteBody, RolledBack, BatchRowsOnly, storeVars

\* Every step keeps it.
LEMMA BatchStep == HoldInv /\ HoldInv' /\ DurableInv /\ BatchInv /\ [Next]_vars => BatchInv'
<1> SUFFICES ASSUME HoldInv, HoldInv', DurableInv, BatchInv, [Next]_vars PROVE BatchInv'
  OBVIOUS
<1> USE DEF queueVars, storeVars, history
<1>0. TypeOK /\ TypeOK'
  BY DEF HoldInv
<1>1. CASE UNCHANGED vars
  BY <1>1 DEF vars, BatchInv, BatchAt, BatchRowsOnly, Holds
<1>2. ASSUME NEW t \in Threads, NEW k \in Kinds, Take(t, k) PROVE BatchInv'
  <2>1. CASE ~held
    <3>1. pc'[t] = "taken" /\ batch' = "none" /\ BatchRowsOnly'
      BY <1>0, <1>2, <2>1 DEF Take, TypeOK, BatchInv, BatchRowsOnly
    <3> QED BY <3>1, HolderBatch DEF BatchAt, Holds
  <2>2. CASE held
    <3>1. PICK u \in Threads : Holds(u)
      BY <2>2 DEF HoldInv, ExclusiveHold
    <3>2. u # t
      BY <1>2, <3>1 DEF Take, Holds
    <3>3. pc'[u] = pc[u] /\ job'[u] = job[u] /\ frame'[u] = frame[u] /\ batch' = batch
      BY <1>0, <1>2, <3>2 DEF Take, TypeOK
    <3>4. Holds(u)' /\ BatchAt(u)' /\ BatchRowsOnly'
      BY <1>2, <3>1, <3>3 DEF Take, Holds, BatchInv, BatchAt, BatchRowsOnly
    <3> QED BY <3>4, HolderBatch
  <2> QED BY <2>1, <2>2
<1>3. ASSUME NEW t \in Threads, Own(t) PROVE BatchInv'
  <2>1. pc'[t] = "body" /\ batch' = "none" /\ BatchRowsOnly'
    BY <1>0, <1>3 DEF Own, TypeOK, BatchInv, BatchAt, BatchRowsOnly, Holds
  <2> QED BY <2>1, HolderBatch DEF BatchAt, Holds
<1>4. ASSUME NEW t \in Threads, HearAnswer(t) PROVE BatchInv'
  <2>1. \A u \in Threads : Holds(u)' => Holds(u) /\ pc'[u] = pc[u]
    BY <1>0, <1>4 DEF HearAnswer, Holds, TypeOK
  <2> QED BY <1>4, <2>1 DEF HearAnswer, BatchInv, BatchAt, BatchRowsOnly
<1>5. ASSUME NEW t \in Threads, ReadBody(t) PROVE BatchInv'
  <2>1. /\ pc'[t] \in {"holding", "drain"} /\ batch' = "none" /\ BatchRowsOnly' /\ frame' = frame
    BY <1>0, <1>5 DEF ReadBody, TypeOK, BatchInv, BatchAt, BatchRowsOnly, Holds
  <2>2. ~frame[t].batching
    BY <1>5 DEF ReadBody, DurableInv, FreshFrame, NoFrame
  <2> QED BY <2>1, <2>2, HolderBatch DEF BatchAt, Holds
<1>6. ASSUME NEW t \in Threads, Release(t) PROVE BatchInv'
  <2>1. /\ pc'[t] = "drain" /\ batch' = "none" /\ BatchRowsOnly' /\ frame' = frame
    BY <1>0, <1>6 DEF Release, TypeOK, BatchInv, BatchAt, BatchRowsOnly, Holds
  <2>2. ~frame[t].batching
    BY <1>6 DEF Release, DurableInv, FreshFrame, NoFrame
  <2> QED BY <2>1, <2>2, HolderBatch DEF BatchAt, Holds
<1>7. ASSUME NEW t \in Threads, StartOwnBatch(t) PROVE BatchInv'
  <2>1. pc'[t] = "write" /\ batch = "none" /\ batch' = "ready" /\ BatchRowsOnly'
    BY <1>0, <1>7 DEF StartOwnBatch, TypeOK, BatchInv, BatchAt, BatchRowsOnly, Holds
  <2> QED BY <2>1, HolderBatch DEF BatchAt, Holds
<1>8. ASSUME NEW t \in Threads, RunOwnWrite(t) PROVE BatchInv'
  <2>1. pc'[t] = "drain" /\ frame'[t].batching
    BY <1>0, <1>8 DEF RunOwnWrite, TypeOK, Frames
  <2>2. batch # "none" /\ BatchRowsOnly /\ WriteBody(t)
    BY <1>8 DEF RunOwnWrite, BatchInv, BatchAt, Holds
  <2>3. BatchRowsOnly' /\ batch' # "none"
    BY <2>2, BodyBatch
  <2> QED BY <2>1, <2>3, HolderBatch DEF BatchAt, Holds
<1>9. ASSUME NEW t \in Threads, PopWrite(t) PROVE BatchInv'
  <2>1. /\ pc[t] = "drain" /\ pc'[t] = "running" /\ txn' = txn /\ fenced' = fenced
        /\ batch' = IF frame[t].batching THEN batch ELSE "ready"
    BY <1>0, <1>9 DEF PopWrite, TypeOK
  <2>2. BatchAt(t) /\ BatchRowsOnly
    BY <2>1 DEF BatchInv, Holds
  <2>3. batch' # "none" /\ BatchRowsOnly'
    BY <2>1, <2>2 DEF BatchAt, BatchRowsOnly
  <2> QED BY <2>1, <2>3, HolderBatch DEF BatchAt, Holds
<1>10. ASSUME NEW t \in Threads, RunQueuedWrite(t) PROVE BatchInv'
  <2>1. pc'[t] = "drain" /\ frame'[t].batching
    BY <1>0, <1>10 DEF RunQueuedWrite, TypeOK, Frames, HoldInv, RunningSleeps
  <2>2. batch # "none" /\ BatchRowsOnly /\ WriteBody(frame[t].running)
    BY <1>10 DEF RunQueuedWrite, BatchInv, BatchAt, Holds
  <2>3. BatchRowsOnly' /\ batch' # "none"
    BY <2>2, BodyBatch
  <2> QED BY <2>1, <2>3, HolderBatch DEF BatchAt, Holds
<1>11. ASSUME NEW t \in Threads, CloseBatch(t) PROVE BatchInv'
  <2>1. PICK ok \in BOOLEAN : FinishBatch(ok)
    BY <1>11 DEF CloseBatch
  <2>2. pc'[t] = "answer" /\ batch' = "none" /\ BatchRowsOnly'
    BY <1>0, <1>11, <2>1 DEF CloseBatch, FinishBatch, BatchInv, BatchRowsOnly, TypeOK
  <2> QED BY <2>2, HolderBatch DEF BatchAt, Holds
<1>12. ASSUME NEW t \in Threads, AnswerOne(t) PROVE BatchInv'
  <2>1. pc[t] = "answer" /\ batch' = batch /\ txn' = txn /\ fenced' = fenced
    BY <1>12 DEF AnswerOne
  <2>2. batch' = "none" /\ BatchRowsOnly'
    BY <2>1 DEF BatchInv, BatchAt, Holds, BatchRowsOnly
  <2>3. pc'[t] = "answer"
    <3>1. /\ frame[t].batched \in Seq(Threads) /\ frame[t].batched # <<>>
      BY <1>0, <1>12, MembersAreThreads DEF AnswerOne
    <3>2. Head(frame[t].batched) \in Threads /\ Head(frame[t].batched) \in Range(frame[t].batched)
      BY <3>1, TailMembers
    <3>3. Head(frame[t].batched) # t
      BY <2>1, <3>2 DEF HoldInv, BatchSleeps, Sleeping, Draining
    <3> QED BY <1>0, <1>12, <2>1, <3>3 DEF AnswerOne, TypeOK
  <2> QED BY <2>2, <2>3, HolderBatch DEF BatchAt, Holds
<1>13. ASSUME NEW t \in Threads, BatchAnswered(t) PROVE BatchInv'
  <2>1. pc[t] = "answer" /\ pc'[t] = "drain" /\ frame' = frame /\ batch' = "none" /\ BatchRowsOnly'
    BY <1>0, <1>13 DEF BatchAnswered, TypeOK, BatchInv, BatchAt, BatchRowsOnly, Holds
  <2>2. ~frame[t].batching
    BY <2>1 DEF DurableInv, OwnFrame
  <2> QED BY <2>1, <2>2, HolderBatch DEF BatchAt, Holds
<1>14. ASSUME NEW t \in Threads, LetGo(t) PROVE BatchInv'
  <2>1. held' = FALSE /\ batch' = batch /\ BatchRowsOnly' /\ batch = "none"
    BY <1>14 DEF LetGo, BatchInv, BatchAt, Holds, BatchRowsOnly
  <2>2. \A u \in Threads : ~Holds(u)'
    BY <2>1 DEF HoldInv, ExclusiveHold
  <2> QED BY <2>1, <2>2 DEF BatchInv
<1>15. ASSUME NEW t \in Threads, HandOver(t) PROVE BatchInv'
  <2>1. batch' = "none" /\ BatchRowsOnly'
    BY <1>15 DEF HandOver, BatchInv, BatchAt, Holds, BatchRowsOnly
  <2>2. PICK j \in Threads : j = Head(queue) /\ Sleeping(j)
    BY <1>0, <1>15, TailMembers DEF HandOver, TypeOK, HoldInv, QueueSleeps
  <2>3. /\ pc[t] = "drain" /\ pc' = [pc EXCEPT ![j] = "woken", ![t] = "idle"]
        /\ job' = [job EXCEPT ![j].handed = TRUE]
    BY <1>15, <2>2 DEF HandOver
  <2>4. pc'[j] = "woken" /\ job'[j].handed
    BY <1>0, <2>2, <2>3 DEF Sleeping, TypeOK, Jobs
  <2> QED BY <2>1, <2>4, HolderBatch DEF BatchAt, Holds
<1>16. ASSUME Crash PROVE BatchInv'
  BY <1>16 DEF Crash, BatchInv, BatchRowsOnly, Holds
<1> QED BY <1>1, <1>2, <1>3, <1>4, <1>5, <1>6, <1>7, <1>8, <1>9, <1>10, <1>11, <1>12,
           <1>13, <1>14, <1>15, <1>16 DEF Next, Hold, Drain

\* So it holds throughout.
LEMMA BatchInvariant == Spec => []BatchInv
<1>1. Init => BatchInv
  BY DEF Init, BatchInv, BatchRowsOnly, Holds
<1>2. HoldInv /\ HoldInv' /\ DurableInv /\ BatchInv /\ [Next]_vars => BatchInv'
  BY BatchStep
<1> QED BY <1>1, <1>2, HoldInvariant, DurableInvariant, PTL DEF Spec

\* Store.zig, startBatch's and finishBatch's asserts: a batch starts when none is
\* open, ends only after it started, and a lost one fences the Store.
THEOREM BatchesAlternate == Spec => []BatchProtocol
<1>1. BatchInv => BatchProtocol
  BY DEF BatchInv, BatchAt, BatchRowsOnly, BatchProtocol, Holds
<1> QED BY <1>1, BatchInvariant, PTL

\* queue.zig, drain: a body that reads runs while no batch is open and the
\* transaction holds no row, unless the Store is fenced and refuses it.
THEOREM ReadersSeeCommitted == Spec => []ReadsOnlyCommitted
<1>1. BatchInv => ReadsOnlyCommitted
  BY DEF BatchInv, BatchAt, BatchRowsOnly, ReadsOnlyCommitted, Holds
<1> QED BY <1>1, BatchInvariant, PTL

-----------------------------------------------------------------------------
(* Calls *)

Active(u) == pc[u] # "idle"

\* Every caller in the Store made a call of its own, and has not heard of it.
OwnCall ==
  /\ calls <= MaxCalls
  /\ \A u \in Threads : Active(u) => job[u].call \in 1..calls
  /\ \A u, v \in Threads : Active(u) /\ Active(v) /\ job[u].call = job[v].call => u = v
  /\ \A a \in answers : a.call \in 1..calls
  /\ \A a \in answers, u \in Threads : Active(u) => job[u].call # a.call

\* The body of a caller outside the queue and the frames has run, or not, as its
\* place in the code says; an own batch is a write's.
RanAwake(u) ==
  /\ pc[u] \in {"taken", "body", "write"} => job[u].answer = "none"
  /\ pc[u] = "write" => job[u].kind = "write"
  /\ pc[u] = "woken" => IF job[u].handed THEN job[u].answer = "none"
                        ELSE job[u].answer # "none" /\ job[u].kind = "write"
  /\ pc[u] \in {"holding", "drain", "running", "answer"} => job[u].answer # "none"
  /\ pc[u] \in Draining /\ frame[u].open => job[u].kind = "write"
  /\ ~frame[u].committed => frame[u].open

\* That of a queued caller has not run, and a holder runs writes only.
RanPlaced(u) ==
  /\ u \in Range(queue) => job[u].answer = "none"
  /\ InSomeRun(u) => job[u].answer = "none" /\ job[u].kind = "write"
  /\ InSomeBatch(u) => job[u].answer # "none" /\ job[u].kind = "write"

BodyRan == \A u \in Threads : RanAwake(u) /\ RanPlaced(u)

\* A caller whose body runs before those of the queue.
Front(t) == (Holds(t) /\ pc[t] \notin Draining) \/ InSomeRun(t)

\* The queue is in arrival order, behind the caller in front.
InOrder ==
  /\ \A i, j \in DOMAIN queue : i < j => job[queue[i]].call < job[queue[j]].call
  /\ \A t \in Threads, u \in Range(queue) : Front(t) => job[t].call < job[u].call

CallInv == OwnCall /\ BodyRan /\ InOrder

\* Only a sleeping caller is in the queue, in a batch or in a holder's hands.
LEMMA AwakeIsNowhere ==
  HoldInv => \A u \in Threads : ~Sleeping(u) =>
    u \notin Range(queue) /\ ~InSomeRun(u) /\ ~InSomeBatch(u)
  BY DEF HoldInv, QueueSleeps, RunningSleeps, BatchSleeps, InSomeRun, InSomeBatch

\* The same of the state after a step.
LEMMA AwakeIsNowhereNext ==
  HoldInv' => \A u \in Threads : ~Sleeping(u)' =>
    u \notin Range(queue') /\ ~InSomeRun(u)' /\ ~InSomeBatch(u)'
  BY DEF HoldInv, QueueSleeps, RunningSleeps, BatchSleeps, InSomeRun, InSomeBatch

\* What each step does to a job: only take gives it another call, and only the
\* body's own step another answer.
LEMMA JobSteps ==
  ASSUME HoldInv, Next, ~Crash
  PROVE  \A u \in Threads : \/ /\ job'[u].call = job[u].call /\ job'[u].kind = job[u].kind
                               /\ job'[u].answer = "none" => job[u].answer = "none"
                               /\ pc'[u] # "idle" => pc[u] # "idle"
                            \/ /\ pc[u] = "idle" /\ pc'[u] \in {"taken", "waiting"}
                               /\ calls' = calls + 1 /\ job'[u].call = calls + 1
                               /\ job'[u].answer = "none"
<1> DEFINE Same(u) == /\ job'[u].call = job[u].call /\ job'[u].kind = job[u].kind
                      /\ job'[u].answer = "none" => job[u].answer = "none"
                      /\ pc'[u] # "idle" => pc[u] # "idle"
           New(u) == /\ pc[u] = "idle" /\ pc'[u] \in {"taken", "waiting"}
                     /\ calls' = calls + 1 /\ job'[u].call = calls + 1
                     /\ job'[u].answer = "none"
<1> SUFFICES \A u \in Threads : Same(u) \/ New(u)
  OBVIOUS
<1> USE DEF HoldInv, TypeOK
<1>1. ASSUME NEW t \in Threads, NEW k \in Kinds, Take(t, k) PROVE \A u \in Threads : Same(u) \/ New(u)
  <2>1. /\ pc[t] = "idle" /\ calls' = calls + 1 /\ job' = [job EXCEPT ![t] = NewJob(k, calls + 1)]
        /\ \E p \in {"taken", "waiting"} : pc' = [pc EXCEPT ![t] = p]
    BY <1>1 DEF Take
  <2>2. New(t)
    BY <2>1 DEF NewJob
  <2>3. \A u \in Threads : u # t => Same(u)
    BY <2>1
  <2> QED BY <2>2, <2>3
<1>2. ASSUME NEW t \in Threads, Own(t) PROVE \A u \in Threads : Same(u)
  BY <1>2 DEF Own
<1>3. ASSUME NEW t \in Threads, HearAnswer(t) PROVE \A u \in Threads : Same(u)
  BY <1>3 DEF HearAnswer
<1>4. ASSUME NEW t \in Threads, ReadBody(t) PROVE \A u \in Threads : Same(u)
  <2>1. PICK a \in {"ok", "error"} : job' = [job EXCEPT ![t].answer = a]
    BY <1>4 DEF ReadBody
  <2>2. \A u \in Threads : pc'[u] # "idle" => pc[u] # "idle"
    BY <1>4 DEF ReadBody
  <2> QED BY <2>1, <2>2 DEF Jobs
<1>5. ASSUME NEW t \in Threads, Release(t) PROVE \A u \in Threads : Same(u)
  BY <1>5 DEF Release
<1>6. ASSUME NEW t \in Threads, StartOwnBatch(t) PROVE \A u \in Threads : Same(u)
  BY <1>6 DEF StartOwnBatch
<1>7. ASSUME NEW t \in Threads, RunOwnWrite(t) PROVE \A u \in Threads : Same(u)
  <2>1. PICK a \in {"ok", "error"} : job' = [job EXCEPT ![t].answer = a]
    BY <1>7, BodyAnswers DEF RunOwnWrite
  <2>2. \A u \in Threads : pc'[u] # "idle" => pc[u] # "idle"
    BY <1>7 DEF RunOwnWrite
  <2> QED BY <2>1, <2>2 DEF Jobs
<1>8. ASSUME NEW t \in Threads, PopWrite(t) PROVE \A u \in Threads : Same(u)
  BY <1>8 DEF PopWrite
<1>9. ASSUME NEW t \in Threads, RunQueuedWrite(t) PROVE \A u \in Threads : Same(u)
  <2>0. PICK j \in Threads : j = frame[t].running
    BY <1>9 DEF RunQueuedWrite, RunningSleeps
  <2>1. PICK a \in {"ok", "error"} : job' = [job EXCEPT ![j].answer = a]
    BY <1>9, <2>0, BodyAnswers DEF RunQueuedWrite
  <2>2. \A u \in Threads : pc'[u] # "idle" => pc[u] # "idle"
    BY <1>9 DEF RunQueuedWrite
  <2> QED BY <2>1, <2>2 DEF Jobs
<1>10. ASSUME NEW t \in Threads, CloseBatch(t) PROVE \A u \in Threads : Same(u)
  BY <1>10 DEF CloseBatch
<1>11. ASSUME NEW t \in Threads, AnswerOne(t) PROVE \A u \in Threads : Same(u)
  <2>0. PICK j \in Threads : j = Head(frame[t].batched) /\ pc[j] # "idle"
    BY <1>11, TailMembers, MembersAreThreads DEF AnswerOne, BatchSleeps, Sleeping, Draining
  <2>1. job' = [job EXCEPT ![j].lost = ~frame[t].ok] /\ pc' = [pc EXCEPT ![j] = "woken"]
    BY <1>11, <2>0 DEF AnswerOne
  <2> QED BY <2>0, <2>1 DEF Jobs
<1>12. ASSUME NEW t \in Threads, BatchAnswered(t) PROVE \A u \in Threads : Same(u)
  BY <1>12 DEF BatchAnswered
<1>13. ASSUME NEW t \in Threads, LetGo(t) PROVE \A u \in Threads : Same(u)
  BY <1>13 DEF LetGo
<1>14. ASSUME NEW t \in Threads, HandOver(t) PROVE \A u \in Threads : Same(u)
  <2>0. PICK j \in Threads : j = Head(queue) /\ pc[j] # "idle"
    BY <1>14, TailMembers DEF HandOver, QueueSleeps, Sleeping
  <2>1. job' = [job EXCEPT ![j].handed = TRUE] /\ pc' = [pc EXCEPT ![j] = "woken", ![t] = "idle"]
    BY <1>14, <2>0 DEF HandOver
  <2> QED BY <2>0, <2>1 DEF Jobs
<1> QED BY <1>1, <1>2, <1>3, <1>4, <1>5, <1>6, <1>7, <1>8, <1>9, <1>10, <1>11, <1>12,
           <1>13, <1>14 DEF Next, Hold, Drain

\* What callers hear: a step adds at most the answer of a caller that returns.
LEMMA AnswerSteps ==
  ASSUME HoldInv, Next
  PROVE  \/ answers' = answers /\ calls' \in {calls, calls + 1}
         \/ /\ calls' = calls
            /\ \E t \in Threads : \E k, a :
                 /\ pc[t] # "idle" /\ pc'[t] = "idle"
                 /\ answers' = answers \cup {[call |-> job[t].call, kind |-> k, answer |-> a]}
<1> USE DEF HoldInv, TypeOK, queueVars, storeVars, history
<1>1. ASSUME NEW t \in Threads, NEW b, Heard(t, b)
      PROVE  \E k, a : answers' = answers \cup {[call |-> job[t].call, kind |-> k, answer |-> a]}
  BY <1>1 DEF Heard
<1>2. ASSUME NEW t \in Threads, HearAnswer(t)
      PROVE  Heard(t, job[t].lost) /\ calls' = calls /\ pc[t] # "idle" /\ pc'[t] = "idle"
  BY <1>2 DEF HearAnswer
<1>3. ASSUME NEW t \in Threads, LetGo(t)
      PROVE  Heard(t, ~frame[t].committed) /\ calls' = calls /\ pc[t] # "idle" /\ pc'[t] = "idle"
  BY <1>3 DEF LetGo
<1>4. ASSUME NEW t \in Threads, HandOver(t)
      PROVE  Heard(t, ~frame[t].committed) /\ calls' = calls /\ pc[t] # "idle" /\ pc'[t] = "idle"
  BY <1>4 DEF HandOver
<1>5. ASSUME NEW t \in Threads, HearAnswer(t) \/ LetGo(t) \/ HandOver(t)
      PROVE  /\ calls' = calls /\ pc[t] # "idle" /\ pc'[t] = "idle"
             /\ \E k, a : answers' = answers \cup {[call |-> job[t].call, kind |-> k, answer |-> a]}
  BY <1>1, <1>2, <1>3, <1>4, <1>5
<1>6. ASSUME NEW t \in Threads, NEW k \in Kinds, Take(t, k) PROVE answers' = answers /\ calls' = calls + 1
  BY <1>6 DEF Take
<1>7. ASSUME NEW t \in Threads, Hold(t), ~HearAnswer(t) PROVE answers' = answers /\ calls' = calls
  BY <1>7 DEF Hold, Own, ReadBody, Release, StartOwnBatch, RunOwnWrite
<1>8. ASSUME NEW t \in Threads, Drain(t), ~LetGo(t), ~HandOver(t) PROVE answers' = answers /\ calls' = calls
  BY <1>8 DEF Drain, PopWrite, RunQueuedWrite, CloseBatch, AnswerOne, BatchAnswered
<1>9. Crash => answers' = answers /\ calls' = calls
  BY DEF Crash
<1> QED BY <1>5, <1>6, <1>7, <1>8, <1>9 DEF Next

\* Every step keeps calls apart, and from the answers.
LEMMA OwnCallStep == HoldInv /\ OwnCall /\ [Next]_vars => OwnCall'
<1> SUFFICES ASSUME HoldInv, OwnCall, [Next]_vars PROVE OwnCall'
  OBVIOUS
<1> USE DEF OwnCall, Active
<1>0. calls \in Nat /\ MaxCalls \in Nat
  BY BoundsAssumption DEF HoldInv, TypeOK
<1>1. CASE UNCHANGED vars
  BY <1>1 DEF vars
<1>2. CASE Next
  <2>0. (\E t \in Threads, k \in Kinds : Take(t, k)) \/ calls' = calls
    BY <1>2 DEF Next, Hold, Drain, Own, HearAnswer, ReadBody, Release, StartOwnBatch, RunOwnWrite, PopWrite,
         RunQueuedWrite, CloseBatch, AnswerOne, BatchAnswered, LetGo, HandOver, Crash, history
  <2>1. calls' <= MaxCalls /\ calls' \in Nat /\ calls' >= calls
    <3>1. ASSUME NEW t \in Threads, NEW k \in Kinds, Take(t, k) PROVE calls' = calls + 1 /\ calls < MaxCalls
      BY <3>1 DEF Take
    <3> QED BY <1>0, <2>0, <3>1
  <2>2. CASE Crash
    <3>1. answers' = answers /\ calls' = calls /\ \A u \in Threads : pc'[u] = "idle"
      BY <2>2 DEF Crash
    <3> QED BY <3>1
  <2>3. CASE ~Crash
    <3>1. \A u \in Threads : Active(u)' =>
            \/ Active(u) /\ job'[u].call = job[u].call
            \/ ~Active(u) /\ calls' = calls + 1 /\ job'[u].call = calls + 1
      BY <1>2, <2>3, JobSteps
    <3>2. \A u \in Threads : Active(u)' => job'[u].call \in 1..calls'
      BY <1>0, <2>1, <3>1
    <3>3. \A u, v \in Threads : Active(u)' /\ Active(v)' /\ job'[u].call = job'[v].call => u = v
      <4> SUFFICES ASSUME NEW u \in Threads, NEW v \in Threads, Active(u)', Active(v)',
                          job'[u].call = job'[v].call
                   PROVE  u = v
        OBVIOUS
      <4>1. \A w \in Threads : Active(w) => job[w].call # calls + 1
        BY <1>0
      <4>2. ASSUME NEW w \in Threads, NEW x \in Threads, ~Active(w), Active(w)', ~Active(x), Active(x)' PROVE w = x
        <5>1. PICK t \in Threads, k \in Kinds : Take(t, k)
          <6>1. calls' = calls + 1
            BY <3>1, <4>2
          <6> QED BY <1>0, <2>0, <6>1
        <5>2. \A s \in Threads : s # t => pc'[s] = pc[s]
          BY <5>1 DEF Take, HoldInv, TypeOK
        <5> QED BY <4>2, <5>2
      <4> QED BY <3>1, <4>1, <4>2
    <3>4. \/ answers' = answers
          \/ \E t \in Threads : \E k, a :
                 /\ Active(t) /\ ~Active(t)'
                 /\ answers' = answers \cup {[call |-> job[t].call, kind |-> k, answer |-> a]}
      BY <1>2, AnswerSteps
    <3>5. \A a \in answers' : a \in answers \/ \E t \in Threads : Active(t) /\ ~Active(t)' /\ a.call = job[t].call
      BY <3>4
    <3>6. \A a \in answers' : a.call \in 1..calls
      BY <3>5
    <3>7. \A a \in answers' : a.call \in 1..calls'
      BY <1>0, <2>1, <3>6
    <3>8. \A a \in answers', u \in Threads : Active(u)' => job'[u].call # a.call
      <4> SUFFICES ASSUME NEW a \in answers', NEW u \in Threads, Active(u)' PROVE job'[u].call # a.call
        OBVIOUS
      <4>1. CASE ~Active(u)
        BY <1>0, <3>1, <3>6, <4>1
      <4>2. CASE Active(u)
        BY <3>1, <3>5, <4>2
      <4> QED BY <4>1, <4>2
    <3> QED BY <2>1, <3>2, <3>3, <3>7, <3>8
  <2> QED BY <2>2, <2>3
<1> QED BY <1>1, <1>2


-----------------------------------------------------------------------------
(* Bodies that have run, and the queue's order *)

\* A step of a waking thread that moves no caller into the queue or a frame.
LEMMA OneRan ==
  ASSUME HoldInv', WaitInv, BodyRan, NEW t \in Threads, ~Sleeping(t)', RanAwake(t)', queue' = queue,
         \A u \in Threads : u # t => job'[u] = job[u] /\ pc'[u] = pc[u] /\ frame'[u] = frame[u],
         frame'[t].batched = frame[t].batched, frame'[t].running = frame[t].running,
         pc'[t] = "running" => pc[t] = "running"
  PROVE  BodyRan'
<1>1. t \notin Range(queue') /\ ~InSomeRun(t)' /\ ~InSomeBatch(t)'
  BY AwakeIsNowhereNext
<1>2. RanPlaced(t)'
  BY <1>1 DEF RanPlaced
<1>3. ASSUME NEW u \in Threads, u # t PROVE RanAwake(u)' /\ RanPlaced(u)'
  <2>1. InSomeBatch(u)' => InSomeBatch(u)
    BY NoMembers DEF InSomeBatch, WaitInv, QuietFrames
  <2>2. InSomeRun(u)' => InSomeRun(u)
    BY DEF InSomeRun
  <2> QED BY <1>3, <2>1, <2>2 DEF BodyRan, RanAwake, RanPlaced
<1> QED BY <1>2, <1>3 DEF BodyRan

\* A new caller's body has not run.
LEMMA TakeRan ==
  ASSUME HoldInv, BodyRan, NEW t \in Threads, NEW k \in Kinds, Take(t, k)
  PROVE  BodyRan'
<1>1. /\ pc[t] = "idle" /\ job' = [job EXCEPT ![t] = NewJob(k, calls + 1)]
      /\ frame' = [frame EXCEPT ![t] = NoFrame]
      /\ \/ pc' = [pc EXCEPT ![t] = "taken"] /\ queue' = queue
         \/ pc' = [pc EXCEPT ![t] = "waiting"] /\ queue' = Append(queue, t)
  BY DEF Take
<1>2. /\ pc'[t] \in {"taken", "waiting"} /\ job'[t].answer = "none" /\ frame'[t] = NoFrame
      /\ \A u \in Threads : u # t => pc'[u] = pc[u] /\ job'[u] = job[u] /\ frame'[u] = frame[u]
  BY <1>1 DEF HoldInv, TypeOK, NewJob
<1>3. \A u \in Threads : u # t /\ u \in Range(queue') => u \in Range(queue)
  <2>1. CASE queue' = Append(queue, t)
    BY <2>1, AppendMembers DEF HoldInv, TypeOK
  <2> QED BY <1>1, <2>1
<1>4. \A u, v \in Threads :
         /\ pc'[v] \in Draining /\ u \in Range(frame'[v].batched) => u # t /\ InSomeBatch(u)
         /\ pc'[v] = "running" /\ frame'[v].running = u => u # t /\ InSomeRun(u)
  BY <1>1, <1>2, IdleIsNowhere DEF InSomeBatch, InSomeRun, Draining
<1>5. RanAwake(t)' /\ RanPlaced(t)'
  BY <1>2, <1>4 DEF RanAwake, RanPlaced, InSomeBatch, InSomeRun, Draining, NoFrame
<1>6. ASSUME NEW u \in Threads, u # t PROVE RanAwake(u)' /\ RanPlaced(u)'
  <2>1. (InSomeBatch(u)' => InSomeBatch(u)) /\ (InSomeRun(u)' => InSomeRun(u))
    BY <1>4 DEF InSomeBatch, InSomeRun
  <2> QED BY <1>2, <1>3, <1>6, <2>1 DEF BodyRan, RanAwake, RanPlaced
<1> QED BY <1>5, <1>6 DEF BodyRan

\* The job a holder pops is a write whose body has not run.
LEMMA PopRan ==
  ASSUME HoldInv, BodyRan, NEW t \in Threads, PopWrite(t)
  PROVE  BodyRan'
<1>0. PICK j \in Threads : j = Head(queue) /\ j \in Range(queue) /\ Range(Tail(queue)) \subseteq Range(queue)
  BY TailMembers DEF PopWrite, MayRun, HoldInv, TypeOK
<1>1. /\ pc[t] = "drain" /\ queue' = Tail(queue) /\ pc' = [pc EXCEPT ![t] = "running"] /\ job' = job
      /\ frame' = [frame EXCEPT ![t].batching = TRUE, ![t].running = j] /\ job[j].kind = "write"
  BY <1>0 DEF PopWrite, MayRun
<1>2. /\ pc'[t] = "running" /\ \A u \in Threads : u # t => pc'[u] = pc[u] /\ frame'[u] = frame[u]
      /\ frame'[t].running = j /\ frame'[t].batched = frame[t].batched
      /\ frame'[t].open = frame[t].open /\ frame'[t].committed = frame[t].committed
  BY <1>1 DEF HoldInv, TypeOK, Frames
<1>3. job[j].answer = "none"
  BY <1>0 DEF BodyRan, RanPlaced
<1>4. ASSUME NEW u \in Threads PROVE RanAwake(u)' /\ RanPlaced(u)'
  <2>1. InSomeBatch(u)' => InSomeBatch(u)
    BY <1>1, <1>2 DEF InSomeBatch, Draining
  <2>2. InSomeRun(u)' => InSomeRun(u) \/ u = j
    BY <1>1, <1>2 DEF InSomeRun
  <2>3. RanAwake(u)'
    BY <1>1, <1>2 DEF BodyRan, RanAwake, Draining
  <2>4. RanPlaced(u)'
    BY <1>0, <1>1, <1>3, <2>1, <2>2 DEF BodyRan, RanPlaced
  <2> QED BY <2>3, <2>4
<1> QED BY <1>4 DEF BodyRan

\* The write a holder ran has an answer.
LEMMA RunQueuedRan ==
  ASSUME HoldInv, BodyRan, NEW t \in Threads, RunQueuedWrite(t)
  PROVE  BodyRan'
<1>0. PICK j \in Threads : j = frame[t].running /\ j \notin Range(queue) /\ Sleeping(j)
  BY DEF RunQueuedWrite, HoldInv, RunningSleeps
<1>1. /\ pc[t] = "running" /\ pc' = [pc EXCEPT ![t] = "drain"] /\ queue' = queue /\ WriteBody(j)
      /\ frame' = [frame EXCEPT ![t].ran = @ + 1, ![t].batched = <<j>> \o @, ![t].running = NoThread]
  BY <1>0 DEF RunQueuedWrite, queueVars
<1>2. /\ pc'[t] = "drain" /\ \A u \in Threads : u # t => pc'[u] = pc[u] /\ frame'[u] = frame[u]
      /\ frame'[t].batched = <<j>> \o frame[t].batched
      /\ frame'[t].open = frame[t].open /\ frame'[t].committed = frame[t].committed
  BY <1>1 DEF HoldInv, TypeOK, Frames
<1>3. Range(frame'[t].batched) = Range(frame[t].batched) \cup {j}
  BY <1>2, PrependMembers, MembersAreThreads DEF HoldInv
<1>4. PICK a \in {"ok", "error"} : job' = [job EXCEPT ![j].answer = a]
  BY <1>1, BodyAnswers DEF HoldInv
<1>5. job'[j].answer # "none" /\ job'[j].kind = job[j].kind /\ \A u \in Threads : u # j => job'[u] = job[u]
  BY <1>4 DEF HoldInv, TypeOK, Jobs
<1>6. job[j].kind = "write"
  BY <1>0, <1>1 DEF BodyRan, RanPlaced, InSomeRun
<1>7. pc[j] = "waiting" /\ j # t
  BY <1>0, <1>1 DEF Sleeping
<1>8. ASSUME NEW u \in Threads PROVE RanAwake(u)' /\ RanPlaced(u)'
  <2>1. InSomeBatch(u)' => InSomeBatch(u) \/ u = j
    BY <1>1, <1>2, <1>3 DEF InSomeBatch, Draining
  <2>2. InSomeRun(u)' => InSomeRun(u) /\ u # j
    <3>1. ASSUME NEW v \in Threads, pc'[v] = "running", frame'[v].running = u PROVE FALSE
      <4>1. v # t /\ pc[v] = "running"
        BY <1>2, <3>1
      <4> QED BY <1>1, <4>1, OnlyHolderDrains DEF Holds, Draining
    <3> QED BY <3>1 DEF InSomeRun
  <2>3. CASE u = j
    <3>1. pc'[j] = "waiting" /\ frame'[j] = frame[j]
      BY <1>2, <1>7
    <3>2. RanAwake(j)'
      BY <3>1 DEF BodyRan, RanAwake, Draining
    <3>3. RanPlaced(j)'
      BY <1>0, <1>1, <1>5, <1>6, <2>2, <2>3 DEF RanPlaced
    <3> QED BY <2>3, <3>2, <3>3
  <2>4. CASE u # j
    <3>0. RanAwake(u) /\ job'[u] = job[u]
      BY <1>5, <2>4 DEF BodyRan
    <3>1. RanAwake(u)'
      <4>1. CASE u = t
        BY <1>1, <1>2, <3>0, <4>1 DEF RanAwake, Draining
      <4>2. CASE u # t
        BY <1>2, <3>0, <4>2 DEF RanAwake
      <4> QED BY <4>1, <4>2
    <3>2. RanPlaced(u)'
      BY <1>1, <1>5, <2>1, <2>2, <2>4 DEF BodyRan, RanPlaced
    <3> QED BY <3>1, <3>2
  <2> QED BY <2>3, <2>4
<1> QED BY <1>8 DEF BodyRan

\* The writer that answerBatch wakes has its answer.
LEMMA AnswerRan ==
  ASSUME HoldInv, HoldInv', BodyRan, NEW t \in Threads, AnswerOne(t)
  PROVE  BodyRan'
<1>0. PICK j \in Threads : /\ j = Head(frame[t].batched) /\ j \in Range(frame[t].batched)
                           /\ Range(Tail(frame[t].batched)) \subseteq Range(frame[t].batched)
  BY TailMembers, MembersAreThreads DEF AnswerOne, HoldInv
<1>1. /\ pc[t] = "answer" /\ pc' = [pc EXCEPT ![j] = "woken"] /\ queue' = queue
      /\ job' = [job EXCEPT ![j].lost = ~frame[t].ok] /\ frame' = [frame EXCEPT ![t].batched = Tail(@)]
  BY <1>0 DEF AnswerOne, queueVars
<1>2. Sleeping(j) /\ j # t
  BY <1>0, <1>1 DEF HoldInv, BatchSleeps, Sleeping, Draining
<1>3. /\ pc'[j] = "woken" /\ \A u \in Threads : u # j => pc'[u] = pc[u]
      /\ \A u \in Threads : u # t => frame'[u] = frame[u]
      /\ frame'[t].batched = Tail(frame[t].batched) /\ frame'[t].running = frame[t].running
      /\ frame'[t].open = frame[t].open /\ frame'[t].committed = frame[t].committed
  BY <1>1 DEF HoldInv, TypeOK, Frames
<1>4. /\ \A u \in Threads : job'[u].answer = job[u].answer /\ job'[u].kind = job[u].kind
      /\ \A u \in Threads : job'[u].handed = job[u].handed
  BY <1>1 DEF HoldInv, TypeOK, Jobs
<1>5. job[j].answer # "none" /\ job[j].kind = "write"
  BY <1>0, <1>1 DEF BodyRan, RanPlaced, InSomeBatch, Draining
<1>6. ASSUME NEW u \in Threads PROVE RanAwake(u)' /\ RanPlaced(u)'
  <2>1. InSomeBatch(u)' => InSomeBatch(u)
    BY <1>0, <1>1, <1>2, <1>3 DEF InSomeBatch, Draining
  <2>2. InSomeRun(u)' => InSomeRun(u)
    BY <1>1, <1>3 DEF InSomeRun
  <2>3. RanPlaced(u)'
    BY <1>1, <1>4, <2>1, <2>2 DEF BodyRan, RanPlaced
  <2>4. CASE u = j
    <3>1. ~job'[j].handed /\ frame'[j] = frame[j]
      BY <1>2, <1>3, <1>4 DEF Sleeping
    <3> QED BY <1>3, <1>4, <1>5, <2>3, <2>4, <3>1 DEF BodyRan, RanAwake, Draining
  <2>5. CASE u # j
    BY <1>3, <1>4, <2>3, <2>5 DEF BodyRan, RanAwake
  <2> QED BY <2>4, <2>5
<1> QED BY <1>6 DEF BodyRan

\* The caller the Store is handed to runs its own body later.
LEMMA HandOverRan ==
  ASSUME HoldInv, HoldInv', WaitInv, BodyRan, NEW t \in Threads, HandOver(t)
  PROVE  BodyRan'
<1>0. PICK j \in Threads : j = Head(queue) /\ j \in Range(queue) /\ Range(Tail(queue)) \subseteq Range(queue)
  BY TailMembers DEF HandOver, HoldInv, TypeOK
<1>1. /\ pc[t] = "drain" /\ queue' = Tail(queue) /\ pc' = [pc EXCEPT ![j] = "woken", ![t] = "idle"]
      /\ job' = [job EXCEPT ![j].handed = TRUE] /\ frame' = frame
  BY <1>0 DEF HandOver
<1>2. j # t
  BY <1>0, <1>1 DEF HoldInv, QueueSleeps, Sleeping
<1>3. /\ pc'[j] = "woken" /\ pc'[t] = "idle" /\ \A u \in Threads : u \notin {j, t} => pc'[u] = pc[u]
      /\ job'[j].handed /\ \A u \in Threads : u # j => job'[u] = job[u]
      /\ \A u \in Threads : job'[u].answer = job[u].answer /\ job'[u].kind = job[u].kind
  BY <1>1, <1>2 DEF HoldInv, TypeOK, Jobs
<1>4. job[j].answer = "none"
  BY <1>0 DEF BodyRan, RanPlaced
<1>5. ASSUME NEW u \in Threads PROVE RanAwake(u)' /\ RanPlaced(u)'
  <2>1. InSomeBatch(u)' => InSomeBatch(u)
    BY <1>1, <1>3 DEF InSomeBatch, Draining
  <2>2. InSomeRun(u)' => InSomeRun(u)
    BY <1>1, <1>3 DEF InSomeRun
  <2>3. RanPlaced(u)'
    BY <1>0, <1>1, <1>3, <2>1, <2>2 DEF BodyRan, RanPlaced
  <2>4. RanAwake(u)
    BY DEF BodyRan
  <2>5. CASE u = j
    BY <1>1, <1>3, <1>4, <2>3, <2>4, <2>5 DEF RanAwake, Draining
  <2>6. CASE u = t
    BY <1>1, <1>3, <2>3, <2>4, <2>6 DEF RanAwake, Draining
  <2>7. CASE u \notin {j, t}
    BY <1>1, <1>3, <2>3, <2>4, <2>7 DEF RanAwake
  <2> QED BY <2>5, <2>6, <2>7
<1> QED BY <1>5 DEF BodyRan

\* Every step keeps what is said of bodies.
LEMMA RanStep ==
  HoldInv /\ HoldInv' /\ DurableInv /\ WaitInv /\ BodyRan /\ [Next]_vars => BodyRan'
<1> SUFFICES ASSUME HoldInv, HoldInv', DurableInv, WaitInv, BodyRan, [Next]_vars PROVE BodyRan'
  OBVIOUS
<1> USE DEF queueVars, storeVars, history
<1>0. TypeOK /\ TypeOK' /\ \A t \in Threads : RanAwake(t)
  BY DEF HoldInv, BodyRan
<1>1. CASE UNCHANGED vars
  BY <1>1 DEF vars, BodyRan, RanAwake, RanPlaced, InSomeRun, InSomeBatch
<1>2. ASSUME NEW t \in Threads, NEW k \in Kinds, Take(t, k) PROVE BodyRan'
  BY <1>2, TakeRan
<1>3. ASSUME NEW t \in Threads, Own(t) PROVE BodyRan'
  <2>1. ~Sleeping(t)' /\ RanAwake(t)'
    BY <1>0, <1>3 DEF Own, TypeOK, Sleeping, RanAwake, Draining
  <2> QED BY <1>0, <1>3, <2>1, OneRan DEF Own, TypeOK
<1>4. ASSUME NEW t \in Threads, HearAnswer(t) PROVE BodyRan'
  <2>1. ~Sleeping(t)' /\ RanAwake(t)'
    BY <1>0, <1>4 DEF HearAnswer, TypeOK, Sleeping, RanAwake, Draining
  <2> QED BY <1>0, <1>4, <2>1, OneRan DEF HearAnswer, TypeOK
<1>5. ASSUME NEW t \in Threads, ReadBody(t) PROVE BodyRan'
  <2>1. /\ job'[t].answer # "none" /\ pc'[t] \in {"holding", "drain"} /\ frame' = frame
        /\ \A u \in Threads : u # t => job'[u] = job[u] /\ pc'[u] = pc[u]
    BY <1>0, <1>5 DEF ReadBody, TypeOK, Jobs
  <2>2. frame[t] = NoFrame
    BY <1>5 DEF ReadBody, DurableInv, FreshFrame
  <2>3. ~Sleeping(t)' /\ RanAwake(t)'
    BY <2>1, <2>2 DEF Sleeping, RanAwake, NoFrame
  <2> QED BY <1>5, <2>1, <2>3, OneRan DEF ReadBody
<1>6. ASSUME NEW t \in Threads, Release(t) PROVE BodyRan'
  <2>1. frame[t] = NoFrame /\ frame' = frame
    BY <1>6 DEF Release, DurableInv, FreshFrame
  <2>2. ~Sleeping(t)' /\ RanAwake(t)'
    BY <1>0, <1>6, <2>1 DEF Release, TypeOK, Sleeping, RanAwake, Draining, NoFrame
  <2> QED BY <1>0, <1>6, <2>2, OneRan DEF Release, TypeOK
<1>7. ASSUME NEW t \in Threads, StartOwnBatch(t) PROVE BodyRan'
  <2>1. ~Sleeping(t)' /\ RanAwake(t)'
    BY <1>0, <1>7 DEF StartOwnBatch, TypeOK, Sleeping, RanAwake, Draining
  <2> QED BY <1>0, <1>7, <2>1, OneRan DEF StartOwnBatch, TypeOK
<1>8. ASSUME NEW t \in Threads, RunOwnWrite(t) PROVE BodyRan'
  <2>1. PICK a \in {"ok", "error"} : job' = [job EXCEPT ![t].answer = a]
    BY <1>0, <1>8, BodyAnswers DEF RunOwnWrite
  <2>2. /\ job'[t].answer # "none" /\ job'[t].kind = job[t].kind /\ pc[t] = "write" /\ pc'[t] = "drain"
        /\ \A u \in Threads : u # t => job'[u] = job[u] /\ pc'[u] = pc[u] /\ frame'[u] = frame[u]
        /\ frame'[t].batched = frame[t].batched /\ frame'[t].running = frame[t].running
        /\ frame'[t].open /\ queue' = queue
    BY <1>0, <1>8, <2>1 DEF RunOwnWrite, TypeOK, Jobs, Frames
  <2>3. ~Sleeping(t)' /\ RanAwake(t)'
    BY <1>0, <2>2 DEF Sleeping, RanAwake
  <2> QED BY <2>2, <2>3, OneRan
<1>9. ASSUME NEW t \in Threads, PopWrite(t) PROVE BodyRan'
  BY <1>9, PopRan
<1>10. ASSUME NEW t \in Threads, RunQueuedWrite(t) PROVE BodyRan'
  BY <1>10, RunQueuedRan
<1>11. ASSUME NEW t \in Threads, CloseBatch(t) PROVE BodyRan'
  <2>1. PICK ok \in BOOLEAN :
          frame' = [frame EXCEPT ![t].committed = IF frame[t].first /\ frame[t].open THEN ok ELSE @,
                                 ![t].first = FALSE, ![t].batching = FALSE, ![t].ok = ok]
    BY <1>11 DEF CloseBatch
  <2>2. /\ job' = job /\ pc[t] = "drain" /\ pc'[t] = "answer" /\ queue' = queue
        /\ \A u \in Threads : u # t => pc'[u] = pc[u] /\ frame'[u] = frame[u]
        /\ frame'[t].batched = frame[t].batched /\ frame'[t].running = frame[t].running
        /\ frame'[t].open = frame[t].open
        /\ frame'[t].committed = IF frame[t].first /\ frame[t].open THEN ok ELSE frame[t].committed
    BY <1>0, <1>11, <2>1 DEF CloseBatch, TypeOK, Frames
  <2>3. ~Sleeping(t)' /\ RanAwake(t)'
    BY <1>0, <2>2 DEF Sleeping, RanAwake, Draining
  <2> QED BY <2>2, <2>3, OneRan
<1>12. ASSUME NEW t \in Threads, AnswerOne(t) PROVE BodyRan'
  BY <1>12, AnswerRan
<1>13. ASSUME NEW t \in Threads, BatchAnswered(t) PROVE BodyRan'
  <2>1. ~Sleeping(t)' /\ RanAwake(t)'
    BY <1>0, <1>13 DEF BatchAnswered, TypeOK, Sleeping, RanAwake, Draining
  <2> QED BY <1>0, <1>13, <2>1, OneRan DEF BatchAnswered, TypeOK
<1>14. ASSUME NEW t \in Threads, LetGo(t) PROVE BodyRan'
  <2>1. ~Sleeping(t)' /\ RanAwake(t)'
    BY <1>0, <1>14 DEF LetGo, TypeOK, Sleeping, RanAwake, Draining
  <2> QED BY <1>0, <1>14, <2>1, OneRan DEF LetGo, TypeOK
<1>15. ASSUME NEW t \in Threads, HandOver(t) PROVE BodyRan'
  BY <1>15, HandOverRan
<1>16. ASSUME Crash PROVE BodyRan'
  BY <1>16, NoMembers DEF Crash, BodyRan, RanAwake, RanPlaced, InSomeRun, InSomeBatch, Draining, NoFrame
<1> QED BY <1>1, <1>2, <1>3, <1>4, <1>5, <1>6, <1>7, <1>8, <1>9, <1>10, <1>11, <1>12,
           <1>13, <1>14, <1>15, <1>16 DEF Next, Hold, Drain

\* A step after which nobody new is in front of the same queue.
LEMMA OrderStays ==
  ASSUME HoldInv, InOrder, queue' = queue,
         \A u \in Threads : job'[u].call = job[u].call,
         \A u \in Threads : Holds(u)' /\ pc'[u] \notin Draining => Holds(u) /\ pc[u] \notin Draining,
         \A u \in Threads : pc'[u] = "running" => pc[u] = "running" /\ frame'[u].running = frame[u].running
  PROVE  InOrder'
<1>1. \A u \in Threads : Front(u)' => Front(u)
  BY DEF Front, InSomeRun
<1>2. Range(queue) \subseteq Threads /\ \A i \in DOMAIN queue : queue[i] \in Range(queue)
  BY MembersAreThreads DEF HoldInv, Range
<1>3. \A i \in DOMAIN queue : queue[i] \in Threads
  BY <1>2
<1> QED BY <1>1, <1>2, <1>3 DEF InOrder

\* A step that takes the head of the queue to the front.
LEMMA HeadToFront ==
  ASSUME HoldInv, InOrder, queue # <<>>, queue' = Tail(queue),
         \A u \in Threads : job'[u].call = job[u].call,
         NEW j \in Threads, j = Head(queue),
         \A u \in Threads : Front(u)' => Front(u) \/ u = j
  PROVE  InOrder'
<1>0. queue \in Seq(Threads)
  BY DEF HoldInv, TypeOK
<1>1. Len(queue) \in Nat /\ Len(queue) >= 1 /\ DOMAIN queue = 1..Len(queue) /\ j = queue[1]
  BY <1>0, HeadTailProperties, EmptySeq, LenProperties
<1>2. DOMAIN queue' = 1..(Len(queue) - 1) /\ \A i \in DOMAIN queue' : queue'[i] = queue[i + 1]
  BY <1>0, <1>1, HeadTailProperties, LenProperties
<1>3. \A i \in DOMAIN queue' : i + 1 \in DOMAIN queue /\ queue'[i] \in Threads /\ 1 < i + 1
  BY <1>0, <1>1, <1>2, ElementOfSeq
<1>4. \A i, k \in DOMAIN queue' : i < k => job'[queue'[i]].call < job'[queue'[k]].call
  <2> SUFFICES ASSUME NEW i \in DOMAIN queue', NEW k \in DOMAIN queue', i < k
               PROVE  job'[queue'[i]].call < job'[queue'[k]].call
    OBVIOUS
  <2>1. i + 1 < k + 1
    BY <1>1, <1>2
  <2> QED BY <1>2, <1>3, <2>1 DEF InOrder
<1>5. ASSUME NEW u \in Range(queue') PROVE u \in Threads /\ u \in Range(queue) /\ job[j].call < job[u].call
  <2>1. PICK i \in DOMAIN queue' : u = queue'[i]
    BY <1>5 DEF Range
  <2>2. u = queue[i + 1] /\ i + 1 \in DOMAIN queue /\ 1 < i + 1 /\ u \in Threads
    BY <1>2, <1>3, <2>1
  <2>3. 1 \in DOMAIN queue
    BY <1>1
  <2>4. u \in Range(queue)
    BY <2>2 DEF Range
  <2>5. job[queue[1]].call < job[queue[i + 1]].call
    BY <2>2, <2>3 DEF InOrder
  <2> QED BY <1>1, <2>2, <2>4, <2>5
<1>6. \A t \in Threads, u \in Range(queue') : Front(t)' => job'[t].call < job'[u].call
  BY <1>5 DEF InOrder
<1> QED BY <1>4, <1>6 DEF InOrder

\* Queue.take: a new caller is last.
LEMMA TakeOrder ==
  ASSUME HoldInv, WaitInv, OwnCall, InOrder, NEW t \in Threads, NEW k \in Kinds, Take(t, k), HoldInv'
  PROVE  InOrder'
<1>0. queue \in Seq(Threads) /\ calls \in Nat
  BY DEF HoldInv, TypeOK
<1>1. CASE ~held
  <2>1. queue' = <<>>
    BY <1>1 DEF Take, WaitInv
  <2> QED BY <2>1, NoMembers DEF InOrder
<1>2. CASE held
  <2>1. /\ pc[t] = "idle" /\ queue' = Append(queue, t) /\ pc' = [pc EXCEPT ![t] = "waiting"]
        /\ job' = [job EXCEPT ![t] = NewJob(k, calls + 1)] /\ frame' = [frame EXCEPT ![t] = NoFrame]
    BY <1>2 DEF Take
  <2>2. /\ job'[t].call = calls + 1 /\ pc'[t] = "waiting" /\ ~job'[t].handed
        /\ \A u \in Threads : u # t => job'[u] = job[u] /\ pc'[u] = pc[u] /\ frame'[u] = frame[u]
    BY <2>1 DEF HoldInv, TypeOK, NewJob
  <2>3. \A u \in Threads : Front(u)' => u # t /\ Front(u)
    <3>1. ~Holds(t)' /\ t \in Range(queue')
      BY <1>0, <2>1, <2>2, AppendMembers DEF Holds
    <3>2. ~InSomeRun(t)'
      BY <3>1 DEF HoldInv, RunningSleeps, InSomeRun
    <3>3. \A u \in Threads : u # t /\ InSomeRun(u)' => InSomeRun(u)
      BY <2>1, <2>2 DEF InSomeRun
    <3>4. \A u \in Threads : u # t /\ Holds(u)' => Holds(u)
      BY <2>2 DEF Holds
    <3> QED BY <2>2, <3>1, <3>2, <3>3, <3>4 DEF Front
  <2>4. \A u \in Threads : Front(u) => Active(u)
    <3>1. \A u \in Threads : InSomeRun(u) => pc[u] = "waiting"
      BY DEF HoldInv, RunningSleeps, InSomeRun, Sleeping
    <3> QED BY <3>1 DEF Front, Holds, Active
  <2>5. \A u \in Range(queue) : u \in Threads /\ u # t /\ Active(u)
    BY <2>1, MembersAreThreads DEF HoldInv, QueueSleeps, Sleeping, Active
  <2>6. \A u \in Threads : Active(u) => job[u].call < calls + 1
    BY <1>0 DEF OwnCall
  <2>7. Range(queue') = Range(queue) \cup {t}
    BY <1>0, <2>1, AppendMembers
  <2>8. /\ Len(queue) \in Nat /\ DOMAIN queue = 1..Len(queue) /\ DOMAIN queue' = 1..(Len(queue) + 1)
        /\ queue'[Len(queue) + 1] = t /\ \A i \in 1..Len(queue) : queue'[i] = queue[i]
    BY <1>0, <2>1, AppendProperties, LenProperties
  <2>9. \A i \in DOMAIN queue : queue[i] \in Range(queue)
    BY DEF Range
  <2>10. ASSUME NEW i \in DOMAIN queue', NEW n \in DOMAIN queue', i < n
         PROVE  job'[queue'[i]].call < job'[queue'[n]].call
    <3>1. i \in DOMAIN queue /\ queue'[i] = queue[i]
      BY <2>8, <2>10
    <3>2. queue[i] \in Threads /\ queue[i] # t /\ Active(queue[i])
      BY <2>5, <2>9, <3>1
    <3>3. CASE n = Len(queue) + 1
      BY <2>2, <2>6, <2>8, <3>1, <3>2, <3>3
    <3>4. CASE n # Len(queue) + 1
      <4>1. n \in DOMAIN queue /\ queue'[n] = queue[n]
        BY <2>8, <3>4
      <4>2. queue[n] \in Threads /\ queue[n] # t
        BY <2>5, <2>9, <4>1
      <4> QED BY <2>2, <2>10, <3>1, <3>2, <4>1, <4>2 DEF InOrder
    <3> QED BY <3>3, <3>4
  <2>11. \A v \in Threads, u \in Range(queue') : Front(v)' => job'[v].call < job'[u].call
    BY <2>2, <2>3, <2>4, <2>5, <2>6, <2>7 DEF InOrder
  <2> QED BY <2>10, <2>11 DEF InOrder
<1> QED BY <1>1, <1>2

\* Every step keeps the order.
LEMMA OrderStep ==
  HoldInv /\ HoldInv' /\ WaitInv /\ OwnCall /\ InOrder /\ [Next]_vars => InOrder'
<1> SUFFICES ASSUME HoldInv, HoldInv', WaitInv, OwnCall, InOrder, [Next]_vars PROVE InOrder'
  OBVIOUS
<1> USE DEF queueVars, storeVars, history
<1>0. TypeOK /\ TypeOK'
  BY DEF HoldInv
<1>1. CASE UNCHANGED vars
  BY <1>1 DEF vars, InOrder, Front, Holds, InSomeRun
<1>2. ASSUME NEW t \in Threads, NEW k \in Kinds, Take(t, k) PROVE InOrder'
  BY <1>2, TakeOrder
<1>3. ASSUME Next, ~Crash, \A t \in Threads, k \in Kinds : ~Take(t, k)
      PROVE  \A u \in Threads : job'[u].call = job[u].call
  <2>1. calls' = calls
    BY <1>3 DEF Next, Hold, Drain, Own, HearAnswer, ReadBody, Release, StartOwnBatch, RunOwnWrite, PopWrite,
         RunQueuedWrite, CloseBatch, AnswerOne, BatchAnswered, LetGo, HandOver
  <2>2. calls' # calls + 1
    BY <1>0, <2>1 DEF TypeOK
  <2> QED BY <1>3, <2>2, JobSteps
<1>4. ASSUME NEW t \in Threads, Hold(t), \A u \in Threads : job'[u].call = job[u].call PROVE InOrder'
  <2>1. \A u \in Threads : u # t => pc'[u] = pc[u] /\ job'[u] = job[u]
    <3>1. CASE RunOwnWrite(t)
      <4>1. PICK a \in {"ok", "error"} : job' = [job EXCEPT ![t].answer = a]
        BY <1>0, <3>1, BodyAnswers DEF RunOwnWrite
      <4> QED BY <1>0, <3>1, <4>1 DEF RunOwnWrite, TypeOK
    <3> QED BY <1>0, <1>4, <3>1 DEF Hold, Own, HearAnswer, ReadBody, Release, StartOwnBatch, TypeOK
  <2>2. pc'[t] \in {"body", "idle", "holding", "drain", "write"}
    BY <1>0, <1>4 DEF Hold, Own, HearAnswer, ReadBody, Release, StartOwnBatch, RunOwnWrite, TypeOK
  <2>3. pc'[t] # "idle" => Holds(t) /\ pc[t] \notin Draining
    BY <1>0, <1>4 DEF Hold, Own, HearAnswer, ReadBody, Release, StartOwnBatch, RunOwnWrite, Holds, Draining, TypeOK
  <2>4. queue' = queue /\ \A u \in Threads : frame'[u].running = frame[u].running
    BY <1>0, <1>4 DEF Hold, Own, HearAnswer, ReadBody, Release, StartOwnBatch, RunOwnWrite, TypeOK, Frames
  <2>5. \A u \in Threads : Holds(u)' /\ pc'[u] \notin Draining => Holds(u) /\ pc[u] \notin Draining
    BY <2>1, <2>2, <2>3 DEF Holds
  <2>6. \A u \in Threads : pc'[u] = "running" => pc[u] = "running" /\ frame'[u].running = frame[u].running
    BY <2>1, <2>2, <2>4
  <2> QED BY <1>4, <2>4, <2>5, <2>6, OrderStays
<1>5. ASSUME NEW t \in Threads, PopWrite(t), \A u \in Threads : job'[u].call = job[u].call PROVE InOrder'
  <2>0. PICK j \in Threads : j = Head(queue)
    BY <1>0, <1>5, TailMembers DEF PopWrite, MayRun, TypeOK
  <2>1. /\ pc[t] = "drain" /\ queue # <<>> /\ queue' = Tail(queue) /\ job' = job /\ pc'[t] = "running"
        /\ frame'[t].running = j /\ \A u \in Threads : u # t => pc'[u] = pc[u] /\ frame'[u] = frame[u]
    BY <1>0, <1>5, <2>0 DEF PopWrite, MayRun, TypeOK, Frames
  <2>2. \A u \in Threads : Front(u)' => Front(u) \/ u = j
    BY <2>1 DEF Front, InSomeRun, Holds, Draining
  <2> QED BY <1>5, <2>0, <2>1, <2>2, HeadToFront
<1>6. ASSUME NEW t \in Threads, RunQueuedWrite(t), \A u \in Threads : job'[u].call = job[u].call PROVE InOrder'
  <2>0. PICK j \in Threads : j = frame[t].running
    BY <1>6 DEF RunQueuedWrite, HoldInv, RunningSleeps
  <2>1. /\ pc[t] = "running" /\ pc'[t] = "drain" /\ queue' = queue
        /\ \A u \in Threads : u # t => pc'[u] = pc[u] /\ frame'[u] = frame[u]
    BY <1>0, <1>6 DEF RunQueuedWrite, TypeOK
  <2>2. \A u \in Threads : job'[u].handed = job[u].handed
    BY <1>0, <1>6, <2>0, BodyKeepsRows DEF RunQueuedWrite
  <2>3. \A u \in Threads : Holds(u)' /\ pc'[u] \notin Draining => Holds(u) /\ pc[u] \notin Draining
    BY <2>1, <2>2 DEF Holds, Draining
  <2> QED BY <1>6, <2>1, <2>3, OrderStays
<1>7. ASSUME NEW t \in Threads, CloseBatch(t), \A u \in Threads : job'[u].call = job[u].call PROVE InOrder'
  <2>1. /\ pc[t] = "drain" /\ pc'[t] = "answer" /\ queue' = queue /\ job' = job
        /\ \A u \in Threads : u # t => pc'[u] = pc[u] /\ frame'[u] = frame[u]
    BY <1>0, <1>7 DEF CloseBatch, TypeOK
  <2>2. \A u \in Threads : Holds(u)' /\ pc'[u] \notin Draining => Holds(u) /\ pc[u] \notin Draining
    BY <2>1 DEF Holds, Draining
  <2> QED BY <1>7, <2>1, <2>2, OrderStays
<1>8. ASSUME NEW t \in Threads, AnswerOne(t), \A u \in Threads : job'[u].call = job[u].call PROVE InOrder'
  <2>0. PICK j \in Threads : j = Head(frame[t].batched) /\ Sleeping(j)
    BY <1>0, <1>8, TailMembers, MembersAreThreads DEF AnswerOne, HoldInv, BatchSleeps, Draining
  <2>1. /\ pc'[j] = "woken" /\ queue' = queue /\ job' = [job EXCEPT ![j].lost = ~frame[t].ok]
        /\ \A u \in Threads : u # j => pc'[u] = pc[u]
        /\ \A u \in Threads : frame'[u].running = frame[u].running
    BY <1>0, <1>8, <2>0 DEF AnswerOne, TypeOK, Frames
  <2>2. \A u \in Threads : job'[u].handed = job[u].handed
    BY <1>0, <2>1 DEF TypeOK, Jobs
  <2>3. \A u \in Threads : Holds(u)' /\ pc'[u] \notin Draining => Holds(u) /\ pc[u] \notin Draining
    BY <2>0, <2>1, <2>2 DEF Holds, Sleeping
  <2>4. \A u \in Threads : pc'[u] = "running" => pc[u] = "running" /\ frame'[u].running = frame[u].running
    BY <2>1
  <2> QED BY <1>8, <2>1, <2>3, <2>4, OrderStays
<1>9. ASSUME NEW t \in Threads, BatchAnswered(t), \A u \in Threads : job'[u].call = job[u].call PROVE InOrder'
  <2>1. /\ pc[t] = "answer" /\ pc'[t] = "drain" /\ queue' = queue /\ job' = job /\ frame' = frame
        /\ \A u \in Threads : u # t => pc'[u] = pc[u]
    BY <1>0, <1>9 DEF BatchAnswered, TypeOK
  <2>2. \A u \in Threads : Holds(u)' /\ pc'[u] \notin Draining => Holds(u) /\ pc[u] \notin Draining
    BY <2>1 DEF Holds, Draining
  <2> QED BY <1>9, <2>1, <2>2, OrderStays
<1>10. ASSUME NEW t \in Threads, LetGo(t) PROVE InOrder'
  BY <1>10, NoMembers DEF LetGo, InOrder
<1>11. ASSUME NEW t \in Threads, HandOver(t), \A u \in Threads : job'[u].call = job[u].call PROVE InOrder'
  <2>0. PICK j \in Threads : j = Head(queue) /\ Sleeping(j)
    BY <1>0, <1>11, TailMembers DEF HandOver, TypeOK, HoldInv, QueueSleeps
  <2>1. /\ pc[t] = "drain" /\ queue # <<>> /\ queue' = Tail(queue) /\ frame' = frame
        /\ pc' = [pc EXCEPT ![j] = "woken", ![t] = "idle"] /\ job' = [job EXCEPT ![j].handed = TRUE]
    BY <1>11, <2>0 DEF HandOver
  <2>2. /\ pc'[j] # "running" /\ pc'[t] = "idle" /\ \A u \in Threads : u \notin {j, t} => pc'[u] = pc[u]
        /\ \A u \in Threads : u # j => job'[u] = job[u]
    BY <1>0, <2>0, <2>1 DEF TypeOK, Sleeping
  <2>3. \A u \in Threads : Front(u)' => Front(u) \/ u = j
    BY <2>1, <2>2 DEF Front, InSomeRun, Holds
  <2> QED BY <1>11, <2>0, <2>1, <2>3, HeadToFront
<1>12. ASSUME Crash PROVE InOrder'
  BY <1>12, NoMembers DEF Crash, InOrder
<1> QED BY <1>1, <1>2, <1>3, <1>4, <1>5, <1>6, <1>7, <1>8, <1>9, <1>10, <1>11, <1>12 DEF Next, Drain

\* So all three hold throughout.
LEMMA CallInvariant == Spec => []CallInv
<1>1. Init => CallInv
  <2> SUFFICES ASSUME Init PROVE CallInv
    OBVIOUS
  <2>1. OwnCall
    BY BoundsAssumption DEF Init, OwnCall, Active
  <2>2. BodyRan
    BY NoMembers DEF Init, BodyRan, RanAwake, RanPlaced, InSomeRun, InSomeBatch, Draining, NoFrame
  <2>3. InOrder
    BY NoMembers DEF Init, InOrder
  <2> QED BY <2>1, <2>2, <2>3 DEF CallInv
<1>2. HoldInv /\ HoldInv' /\ DurableInv /\ WaitInv /\ CallInv /\ [Next]_vars => CallInv'
  BY OwnCallStep, RanStep, OrderStep DEF CallInv
<1> QED BY <1>1, <1>2, HoldInvariant, DurableInvariant, WaitInvariant, PTL DEF Spec

-----------------------------------------------------------------------------
(* Rows *)

AllRows == durable \cup txn

\* n is the identity after the rows'.
Upto(rows, n) ==
  /\ n \in Nat
  /\ \A r \in rows : r.id < n
  /\ n = 1 \/ \E r \in rows : n = r.id + 1

\* Rows are those of calls made, in identity order, an open batch's last.
RowOrder ==
  /\ \A r \in AllRows : /\ r \in Rows /\ 1 <= r.id /\ r.id <= r.call /\ r.call <= calls
  /\ \A a, b \in AllRows : a.call < b.call <=> a.id < b.id
  /\ \A a \in durable, b \in txn : a.call < b.call

\* A call whose body has not run is after every row.
RowsBefore ==
  \A u \in Threads, r \in AllRows :
    Active(u) /\ job[u].answer = "none" => r.call < job[u].call

\* The identity the next row takes, and the one a restart would read back.
NextRow ==
  /\ ~fenced \/ batch = "open" => Upto(AllRows, nextId)
  /\ \E n \in Nat : Upto(durable, n)

\* The rows of an open batch are its callers' successful writes.
BatchMembers ==
  batch = "open" => \A r \in txn : \E t, u \in Threads :
    /\ pc[t] \in {"drain", "running"} /\ frame[t].batching /\ u \in BatchOf(t)
    /\ job[u].call = r.call /\ job[u].answer = "ok"

\* A read, or a write whose body failed or has not run, has no durable row.
NoRow ==
  \A u \in Threads, r \in durable :
    Active(u) /\ (job[u].answer # "ok" \/ job[u].kind # "write") => r.call # job[u].call

RowInv == RowOrder /\ RowsBefore /\ NextRow /\ BatchMembers /\ NoRow

\* IdentityCeiling reads back the identity after the rows'.
LEMMA UptoIsNext ==
  ASSUME NEW rows, \A r \in rows : r.id \in Nat, NEW n \in Nat, Upto(rows, n)
  PROVE  NextIdentity(rows) = n
<1> DEFINE ids == {row.id : row \in rows} \cup {0}
<1>1. n >= 1
  BY DEF Upto
<1>2. n - 1 \in ids /\ \A i \in ids : i \in Nat /\ n - 1 >= i
  BY <1>1 DEF Upto
<1>3. Max(ids) \in ids /\ \A i \in ids : Max(ids) >= i
  BY <1>2 DEF Max
<1>4. Max(ids) = n - 1
  <2> HIDE DEF ids
  <2> QED BY <1>1, <1>2, <1>3
<1> QED BY <1>1, <1>4 DEF NextIdentity

\* A body runs once: a caller's answer does not change after it.
LEMMA AnswerOnce ==
  ASSUME HoldInv, CallInv, Next, ~Crash, NEW u \in Threads, Active(u)
  PROVE  job'[u].answer = job[u].answer \/ job[u].answer = "none"
<1> USE DEF HoldInv, TypeOK
<1>0. \A t \in Threads : RanAwake(t) /\ RanPlaced(t)
  BY DEF CallInv, BodyRan
<1>1. ASSUME NEW t \in Threads, NEW k \in Kinds, Take(t, k) PROVE job'[u] = job[u]
  BY <1>1 DEF Take, Active
<1>2. ASSUME NEW t \in Threads, ReadBody(t) PROVE job'[u].answer = job[u].answer \/ job[u].answer = "none"
  <2>1. job[t].answer = "none" /\ (u # t => job'[u] = job[u])
    BY <1>0, <1>2 DEF ReadBody, RanAwake
  <2> QED BY <2>1
<1>3. ASSUME NEW t \in Threads, RunOwnWrite(t) PROVE job'[u].answer = job[u].answer \/ job[u].answer = "none"
  <2>1. job[t].answer = "none" /\ WriteBody(t)
    BY <1>0, <1>3 DEF RunOwnWrite, RanAwake
  <2>2. u # t => job'[u] = job[u]
    BY <2>1, BodyKeepsRows
  <2> QED BY <2>1, <2>2
<1>4. ASSUME NEW t \in Threads, RunQueuedWrite(t) PROVE job'[u].answer = job[u].answer \/ job[u].answer = "none"
  <2>0. PICK j \in Threads : j = frame[t].running
    BY <1>4 DEF RunQueuedWrite, RunningSleeps
  <2>1. job[j].answer = "none" /\ WriteBody(j)
    BY <1>0, <1>4, <2>0 DEF RunQueuedWrite, RanPlaced, InSomeRun
  <2>2. u # j => job'[u] = job[u]
    BY <2>1, BodyKeepsRows
  <2> QED BY <2>1, <2>2
<1>5. ASSUME NEW t \in Threads, AnswerOne(t) PROVE job'[u].answer = job[u].answer
  BY <1>5 DEF AnswerOne, Jobs
<1>6. ASSUME NEW t \in Threads, HandOver(t) PROVE job'[u].answer = job[u].answer
  BY <1>6 DEF HandOver, Jobs
<1>7. ASSUME NEW t \in Threads, Hold(t), ~ReadBody(t), ~RunOwnWrite(t) PROVE job'[u] = job[u]
  BY <1>7 DEF Hold, Own, HearAnswer, Release, StartOwnBatch
<1>8. ASSUME NEW t \in Threads, Drain(t), ~RunQueuedWrite(t), ~AnswerOne(t), ~HandOver(t) PROVE job'[u] = job[u]
  BY <1>8 DEF Drain, PopWrite, CloseBatch, BatchAnswered, LetGo
<1> QED BY <1>1, <1>2, <1>3, <1>4, <1>5, <1>6, <1>7, <1>8 DEF Next

\* A step that leaves the rows alone.
LEMMA RowsStay ==
  ASSUME HoldInv, CallInv, RowInv, Next, ~Crash, txn' = txn, durable' = durable, nextId' = nextId,
         fenced' = fenced, batch' = "open" => batch = "open", BatchMembers'
  PROVE  RowInv'
<1> USE DEF RowInv, AllRows
<1>0. calls \in Nat /\ calls' \in Nat /\ calls <= calls'
  <2>1. calls \in Nat /\ (calls' = calls \/ calls' = calls + 1)
    BY AnswerSteps DEF HoldInv, TypeOK
  <2> QED BY <2>1
<1>1. \A r \in AllRows : r.id \in Nat /\ r.call \in Nat /\ r.call <= calls
  BY DEF RowOrder, Rows
<1>2. RowOrder'
  BY <1>0, <1>1 DEF RowOrder
<1>3. \A u \in Threads : Active(u)' =>
        \/ /\ Active(u) /\ job'[u].call = job[u].call /\ job'[u].kind = job[u].kind
           /\ job'[u].answer = "none" => job[u].answer = "none"
        \/ job'[u].call = calls + 1
  BY JobSteps DEF Active
<1>4. RowsBefore'
  BY <1>0, <1>1, <1>3 DEF RowsBefore
<1>5. NextRow'
  BY DEF NextRow, Upto
<1>6. NoRow'
  <2> SUFFICES ASSUME NEW u \in Threads, NEW r \in durable, Active(u)',
                      job'[u].answer # "ok" \/ job'[u].kind # "write"
               PROVE  r.call # job'[u].call
    BY DEF NoRow
  <2>1. CASE job'[u].call = calls + 1
    BY <1>0, <1>1, <2>1
  <2>2. CASE Active(u) /\ job'[u].call = job[u].call /\ job'[u].kind = job[u].kind
    <3>1. job[u].answer # "ok" \/ job[u].kind # "write"
      BY <2>2, AnswerOnce
    <3> QED BY <2>2, <3>1 DEF NoRow
  <2> QED BY <1>3, <2>1, <2>2
<1> QED BY <1>2, <1>4, <1>5, <1>6

\* A write body's row is after all others, and one that fails leaves none.
LEMMA BodyRows ==
  ASSUME HoldInv, OwnCall, RowInv, NEW j \in Threads, WriteBody(j), calls' = calls,
         Active(j), job[j].answer = "none", job[j].kind = "write",
         \A u \in Threads : Active(u)' => Active(u),
         \A u \in Threads : Active(u) /\ job[u].answer = "none" /\ u # j => job[j].call < job[u].call
  PROVE  /\ RowOrder' /\ RowsBefore' /\ NextRow' /\ NoRow'
         /\ \/ txn' \subseteq txn /\ (batch' = "open" => batch = "open")
            \/ /\ job'[j].answer = "ok" /\ batch \in {"ready", "open"} /\ ~fenced
               /\ txn' = txn \cup {[id |-> nextId, call |-> job[j].call]}
<1> USE DEF RowInv, AllRows
<1>0. /\ calls \in Nat /\ job[j].call \in Nat /\ 1 <= job[j].call /\ job[j].call <= calls
      /\ \A u \in Threads : job[u].call \in Nat
  BY DEF HoldInv, TypeOK, Jobs, OwnCall
<1>1. /\ durable' = durable
      /\ \A u \in Threads : job'[u].call = job[u].call /\ job'[u].kind = job[u].kind
      /\ \A u \in Threads : u # j => job'[u] = job[u]
  BY BodyKeepsRows DEF HoldInv
<1>2. \A r \in AllRows : /\ r \in Rows /\ r.id \in Nat /\ r.call \in Nat
                         /\ 1 <= r.id /\ r.id <= r.call /\ r.call <= calls
  BY DEF RowOrder, Rows
<1>3. PICK a \in {"ok", "error"} :
        /\ job' = [job EXCEPT ![j].answer = a]
        /\ \/ a = "error" /\ UNCHANGED storeVars
           \/ /\ ~fenced /\ batch \in {"ready", "open"} /\ batch' = "open" /\ a = "ok"
              /\ txn' = txn \cup {[id |-> nextId, call |-> job[j].call]} /\ nextId' = nextId + 1
           \/ ~fenced /\ a = "error" /\ UNCHANGED <<batch, txn>> /\ nextId' = NextIdentity(AllRows)
           \/ /\ a = "error" /\ batch' = "lost" /\ fenced' = TRUE /\ txn' \in {txn, {}}
  BY DEF WriteBody, RolledBack
<1>4. job'[j].answer = a
  BY <1>3 DEF HoldInv, TypeOK, Jobs
<1>5. \E n \in Nat : Upto(durable', n)
  BY <1>1 DEF NextRow
<1>6. CASE a = "error" /\ txn' \subseteq txn
  <2>1. AllRows' \subseteq AllRows
    BY <1>1, <1>6
  <2>2. RowOrder'
    BY <1>1, <1>6, <2>1 DEF RowOrder
  <2>3. RowsBefore'
    BY <1>1, <2>1 DEF RowsBefore
  <2>4. NoRow'
    BY <1>1 DEF NoRow
  <2>5. NextRow' /\ (batch' = "open" => batch = "open")
    <3>1. CASE UNCHANGED storeVars
      BY <1>5, <3>1 DEF NextRow, storeVars, Upto
    <3>2. CASE ~fenced /\ UNCHANGED <<batch, txn>> /\ nextId' = NextIdentity(AllRows)
      <4>1. Upto(AllRows, nextId) /\ nextId \in Nat
        BY <3>2 DEF NextRow, Upto
      <4>2. nextId' = nextId
        BY <1>2, <3>2, <4>1, UptoIsNext
      <4>3. Upto(AllRows', nextId')
        BY <1>1, <3>2, <4>1, <4>2
      <4> QED BY <1>5, <3>2, <4>3 DEF NextRow
    <3>3. CASE batch' = "lost" /\ fenced' = TRUE
      BY <1>5, <3>3 DEF NextRow
    <3> QED BY <1>3, <1>6, <3>1, <3>2, <3>3
  <2> QED BY <1>6, <2>2, <2>3, <2>4, <2>5
<1>7. CASE /\ ~fenced /\ batch \in {"ready", "open"} /\ batch' = "open" /\ a = "ok"
           /\ txn' = txn \cup {[id |-> nextId, call |-> job[j].call]} /\ nextId' = nextId + 1
  <2> DEFINE new == [id |-> nextId, call |-> job[j].call]
  <2>1. Upto(AllRows, nextId)
    BY <1>7 DEF NextRow
  <2>2. nextId \in Nat /\ 1 <= nextId /\ \A r \in AllRows : r.id < nextId
    BY <1>2, <2>1 DEF Upto
  <2>3. \A r \in AllRows : r.call < job[j].call
    BY DEF RowsBefore
  <2>4. nextId <= job[j].call
    <3>1. CASE nextId = 1
      BY <1>0, <3>1
    <3>2. CASE nextId # 1
      <4>1. PICK r \in AllRows : nextId = r.id + 1
        BY <2>1, <3>2 DEF Upto
      <4>2. r.id <= r.call /\ r.call < job[j].call /\ r.id \in Nat /\ r.call \in Nat
        BY <1>2, <2>3
      <4> QED BY <1>0, <4>1, <4>2
    <3> QED BY <3>1, <3>2
  <2>5. /\ new \in Rows /\ new.id = nextId /\ new.call = job[j].call
    BY <1>0, <2>2 DEF Rows
  <2>6. AllRows' = AllRows \cup {new}
    BY <1>1, <1>7
  <2>7. RowOrder'
    <3>1. \A r \in AllRows' : r \in Rows /\ 1 <= r.id /\ r.id <= r.call /\ r.call <= calls'
      BY <1>0, <1>2, <2>2, <2>4, <2>5, <2>6
    <3>2. \A x, y \in AllRows' : x.call < y.call <=> x.id < y.id
      <4> SUFFICES ASSUME NEW x \in AllRows', NEW y \in AllRows' PROVE x.call < y.call <=> x.id < y.id
        OBVIOUS
      <4>1. CASE x \in AllRows /\ y \in AllRows
        BY <4>1 DEF RowOrder
      <4>2. CASE x \in AllRows /\ y = new
        BY <2>2, <2>3, <2>5, <4>2
      <4>3. CASE x = new /\ y \in AllRows
        BY <1>0, <1>2, <2>2, <2>3, <2>5, <4>3
      <4>4. CASE x = new /\ y = new
        BY <1>0, <2>2, <2>5, <4>4
      <4> QED BY <2>6, <4>1, <4>2, <4>3, <4>4
    <3>3. \A x \in durable', y \in txn' : x.call < y.call
      <4>1. \A x \in durable : x.call < new.call
        BY <2>3, <2>5
      <4> QED BY <1>1, <1>7, <4>1 DEF RowOrder
    <3> QED BY <3>1, <3>2, <3>3 DEF RowOrder
  <2>8. RowsBefore'
    <3> SUFFICES ASSUME NEW u \in Threads, NEW r \in AllRows', Active(u)', job'[u].answer = "none"
                 PROVE  r.call < job'[u].call
      BY DEF RowsBefore
    <3>1. u # j /\ Active(u) /\ job[u].answer = "none" /\ job'[u].call = job[u].call
      BY <1>1, <1>4, <1>7
    <3>2. job[j].call < job[u].call
      BY <3>1
    <3> QED BY <2>5, <2>6, <3>1, <3>2 DEF RowsBefore
  <2>9. NoRow'
    <3> SUFFICES ASSUME NEW u \in Threads, NEW r \in durable, Active(u)',
                        job'[u].answer # "ok" \/ job'[u].kind # "write"
                 PROVE  r.call # job'[u].call
      BY <1>1 DEF NoRow
    <3>1. u # j
      BY <1>1, <1>4, <1>7
    <3> QED BY <1>1, <3>1 DEF NoRow
  <2>10. NextRow'
    <3>1. nextId' \in Nat /\ \A r \in AllRows' : r.id < nextId'
      BY <1>2, <1>7, <2>2, <2>5, <2>6
    <3>2. \E r \in AllRows' : nextId' = r.id + 1
      BY <1>7, <2>5, <2>6
    <3>3. Upto(AllRows', nextId')
      BY <3>1, <3>2 DEF Upto
    <3> QED BY <1>5, <3>3 DEF NextRow
  <2> QED BY <1>4, <1>7, <2>7, <2>8, <2>9, <2>10
<1> QED BY <1>3, <1>6, <1>7 DEF storeVars

\* Whoever has not run yet is behind the caller in front.
LEMMA PendingBehind ==
  ASSUME HoldInv, WaitInv, CallInv, NEW j \in Threads, Front(j),
         NEW u \in Threads, Active(u), job[u].answer = "none", u # j
  PROVE  job[j].call < job[u].call
<1>0. RanAwake(u) /\ RanPlaced(u) /\ \A v \in Threads : RanAwake(v)
  BY DEF CallInv, BodyRan
<1>1. \A v, w \in Threads : Holds(v) /\ Holds(w) => v = w
  BY DEF HoldInv, ExclusiveHold
<1>2. PICK h \in Threads : /\ Holds(h)
                           /\ \/ h = j /\ pc[h] \notin Draining
                              \/ pc[h] = "running" /\ frame[h].running = j
  BY DEF Front, InSomeRun, Holds
<1>3. pc[u] = "waiting" \/ (Holds(u) /\ pc[u] \notin Draining)
  BY <1>0 DEF HoldInv, TypeOK, Holds, RanAwake, Active, Draining
<1>4. CASE Holds(u) /\ pc[u] \notin Draining
  BY <1>1, <1>2, <1>4 DEF Draining
<1>5. CASE pc[u] = "waiting"
  <2>1. ~InSomeBatch(u)
    BY <1>0 DEF RanPlaced
  <2>2. ~InSomeRun(u)
    <3> SUFFICES ASSUME NEW v \in Threads, pc[v] = "running", frame[v].running = u PROVE FALSE
      BY DEF InSomeRun
    <3>1. v = h
      BY <1>1, <1>2 DEF Holds
    <3> QED BY <1>2, <3>1 DEF Draining
  <2>3. u \in Range(queue)
    BY <1>5, <2>1, <2>2 DEF WaitInv, Placed
  <2> QED BY <2>3 DEF CallInv, InOrder
<1> QED BY <1>3, <1>4, <1>5

\* A batch is open only while its holder drains.
LEMMA OpenIsDraining ==
  ASSUME HoldInv, BatchInv, batch = "open", NEW t \in Threads, Holds(t)
  PROVE  pc[t] \in {"drain", "running"} /\ frame[t].batching
<1>1. BatchAt(t) /\ pc[t] \in {"drain", "running"}
  BY DEF BatchInv, BatchAt, HoldInv, TypeOK, Holds
<1>2. frame[t].batching
  BY <1>1 DEF BatchAt, HoldInv, RunningSleeps
<1> QED BY <1>1, <1>2

\* The callers of a batch are its sleeping members and its holder.
LEMMA BatchCallers ==
  ASSUME HoldInv, CallInv, NEW t \in Threads, pc[t] \in {"drain", "running"}, NEW u \in BatchOf(t)
  PROVE  u \in Threads /\ Active(u) /\ job[u].kind = "write" /\ (u = t \/ Sleeping(u))
<1>1. CASE u \in Range(frame[t].batched)
  <2>1. u \in Threads /\ Sleeping(u)
    BY <1>1, MembersAreThreads DEF HoldInv, BatchSleeps, Draining
  <2>2. InSomeBatch(u)
    BY <1>1 DEF InSomeBatch, Draining
  <2> QED BY <2>1, <2>2 DEF CallInv, BodyRan, RanPlaced, Active, Sleeping
<1>2. CASE u = t /\ frame[t].open
  BY <1>2 DEF CallInv, BodyRan, RanAwake, Active, Draining
<1> QED BY <1>1, <1>2 DEF BatchOf

\* A step of another thread leaves an open batch's callers alone.
LEMMA MembersStay ==
  ASSUME HoldInv, CallInv, BatchMembers, txn' = txn, batch' = batch, NEW t \in Threads,
         pc[t] \in {"idle", "woken"},
         \A u \in Threads : u # t => pc'[u] = pc[u] /\ job'[u] = job[u] /\ frame'[u] = frame[u]
  PROVE  BatchMembers'
<1> SUFFICES ASSUME batch = "open", NEW r \in txn
             PROVE  \E h, u \in Threads :
                      /\ pc'[h] \in {"drain", "running"} /\ frame'[h].batching /\ u \in BatchOf(h)'
                      /\ job'[u].call = r.call /\ job'[u].answer = "ok"
  BY DEF BatchMembers
<1>1. PICK h \in Threads, u \in Threads :
        /\ pc[h] \in {"drain", "running"} /\ frame[h].batching /\ u \in BatchOf(h)
        /\ job[u].call = r.call /\ job[u].answer = "ok"
  BY DEF BatchMembers
<1>2. h # t /\ u # t
  BY <1>1, BatchCallers DEF Sleeping
<1>3. BatchOf(h)' = BatchOf(h)
  BY <1>2 DEF BatchOf
<1> QED BY <1>1, <1>2, <1>3

\* The holder's own write.
LEMMA OwnWriteInBatch ==
  ASSUME HoldInv, HoldInv', WaitInv, DurableInv, BatchInv, CallInv, RowInv, NEW t \in Threads, RunOwnWrite(t)
  PROVE  RowInv'
<1>1. /\ pc[t] = "write" /\ pc'[t] = "drain" /\ WriteBody(t) /\ calls' = calls
      /\ \A u \in Threads : u # t => pc'[u] = pc[u]
      /\ frame'[t].batching /\ frame'[t].open /\ frame'[t].first = frame[t].first
  BY DEF RunOwnWrite, HoldInv, TypeOK, Frames, history
<1>2. Active(t) /\ job[t].answer = "none" /\ job[t].kind = "write"
  BY <1>1 DEF CallInv, BodyRan, RanAwake, Active
<1>3. Front(t)
  BY <1>1 DEF Front, Holds, Draining
<1>4. \A u \in Threads : Active(u) /\ job[u].answer = "none" /\ u # t => job[t].call < job[u].call
  BY <1>3, PendingBehind
<1>5. OwnCall /\ \A u \in Threads : Active(u)' => Active(u)
  BY <1>1 DEF CallInv, Active
<1>6. /\ RowOrder' /\ RowsBefore' /\ NextRow' /\ NoRow'
      /\ \/ txn' \subseteq txn /\ (batch' = "open" => batch = "open")
         \/ /\ job'[t].answer = "ok" /\ batch \in {"ready", "open"} /\ ~fenced
            /\ txn' = txn \cup {[id |-> nextId, call |-> job[t].call]}
  BY <1>1, <1>2, <1>4, <1>5, BodyRows
<1>7. batch = "ready"
  BY <1>1 DEF BatchInv, BatchAt, Holds
<1>8. BatchMembers'
  <2>1. CASE batch' = "open" => batch = "open"
    BY <1>7, <2>1 DEF BatchMembers
  <2>2. CASE /\ job'[t].answer = "ok" /\ ~fenced
             /\ txn' = txn \cup {[id |-> nextId, call |-> job[t].call]}
    <3>1. txn = {}
      BY <1>7, <2>2 DEF BatchInv, BatchRowsOnly
    <3>2. \A r \in txn' : r.call = job[t].call
      BY <2>2, <3>1
    <3>3. job'[t].call = job[t].call
      BY <1>1, BodyKeepsRows DEF HoldInv
    <3>4. frame[t] = NoFrame
      BY <1>1 DEF DurableInv, FreshFrame
    <3>5. frame[t].first
      BY <3>4 DEF NoFrame
    <3>6. t \in BatchOf(t)'
      BY <1>1, <3>5 DEF BatchOf
    <3> QED BY <1>1, <2>2, <3>2, <3>3, <3>6 DEF BatchMembers
  <2> QED BY <1>6, <2>1, <2>2
<1> QED BY <1>6, <1>8 DEF RowInv

\* A queued write.
LEMMA QueuedWriteInBatch ==
  ASSUME HoldInv, HoldInv', WaitInv, BatchInv, CallInv, RowInv, NEW t \in Threads, RunQueuedWrite(t)
  PROVE  RowInv'
<1>0. PICK j \in Threads : j = frame[t].running /\ Sleeping(j) /\ frame[t].batching
  BY DEF RunQueuedWrite, HoldInv, RunningSleeps
<1>1. /\ pc[t] = "running" /\ pc'[t] = "drain" /\ WriteBody(j) /\ calls' = calls
      /\ \A u \in Threads : u # t => pc'[u] = pc[u]
      /\ frame'[t].batching /\ frame'[t].open = frame[t].open /\ frame'[t].first = frame[t].first
      /\ frame'[t].batched = <<j>> \o frame[t].batched
  BY <1>0 DEF RunQueuedWrite, HoldInv, TypeOK, Frames, history
<1>2. InSomeRun(j)
  BY <1>0, <1>1 DEF InSomeRun
<1>3. Active(j) /\ job[j].answer = "none" /\ job[j].kind = "write"
  BY <1>0, <1>2 DEF CallInv, BodyRan, RanPlaced, Active, Sleeping
<1>4. \A u \in Threads : Active(u) /\ job[u].answer = "none" /\ u # j => job[j].call < job[u].call
  BY <1>2, PendingBehind DEF Front
<1>5. OwnCall /\ \A u \in Threads : Active(u)' => Active(u)
  BY <1>1 DEF CallInv, Active
<1>6. /\ RowOrder' /\ RowsBefore' /\ NextRow' /\ NoRow'
      /\ \/ txn' \subseteq txn /\ (batch' = "open" => batch = "open")
         \/ /\ job'[j].answer = "ok" /\ batch \in {"ready", "open"} /\ ~fenced
            /\ txn' = txn \cup {[id |-> nextId, call |-> job[j].call]}
  BY <1>1, <1>3, <1>4, <1>5, BodyRows DEF RowInv
<1>7. /\ \A u \in Threads : job'[u].call = job[u].call
      /\ \A u \in Threads : u # j => job'[u] = job[u]
  BY <1>1, BodyKeepsRows DEF HoldInv
<1>8. BatchOf(t) \subseteq BatchOf(t)' /\ j \in BatchOf(t)'
  <2>1. Range(frame'[t].batched) = Range(frame[t].batched) \cup {j}
    BY <1>1, PrependMembers, MembersAreThreads DEF HoldInv
  <2>2. (frame[t].first /\ frame[t].open) => (frame'[t].first /\ frame'[t].open)
    BY <1>1
  <2> QED BY <2>1, <2>2 DEF BatchOf
<1>9. ASSUME batch = "open", NEW r \in txn
      PROVE  \E h, u \in Threads :
               /\ pc'[h] \in {"drain", "running"} /\ frame'[h].batching /\ u \in BatchOf(h)'
               /\ job'[u].call = r.call /\ job'[u].answer = "ok"
  <2>1. PICK h \in Threads, u \in Threads :
          /\ pc[h] \in {"drain", "running"} /\ frame[h].batching /\ u \in BatchOf(h)
          /\ job[u].call = r.call /\ job[u].answer = "ok"
    BY <1>9 DEF RowInv, BatchMembers
  <2>2. h = t /\ u # j
    BY <1>1, <1>3, <2>1, OnlyHolderDrains DEF Holds, Draining
  <2> QED BY <1>1, <1>7, <1>8, <2>1, <2>2
<1>10. BatchMembers'
  <2>1. CASE txn' \subseteq txn /\ (batch' = "open" => batch = "open")
    BY <1>9, <2>1 DEF BatchMembers
  <2>2. CASE /\ job'[j].answer = "ok" /\ batch \in {"ready", "open"} /\ ~fenced
             /\ txn' = txn \cup {[id |-> nextId, call |-> job[j].call]}
    <3>1. batch = "ready" => txn = {}
      BY <2>2 DEF BatchInv, BatchRowsOnly
    <3>2. ASSUME NEW r \in txn', r \notin txn PROVE r.call = job'[j].call
      BY <1>7, <2>2, <3>2
    <3> QED BY <1>1, <1>8, <1>9, <2>2, <3>1, <3>2 DEF BatchMembers
  <2> QED BY <1>6, <2>1, <2>2
<1> QED BY <1>6, <1>10 DEF RowInv

\* The COMMIT makes the rows of the batch's callers durable.
LEMMA CommitRows ==
  ASSUME HoldInv, BatchInv, CallInv, RowInv, NEW t \in Threads, CloseBatch(t)
  PROVE  RowInv'
<1> USE DEF RowInv, AllRows
<1>1. PICK ok \in BOOLEAN : FinishBatch(ok)
  BY DEF CloseBatch
<1>2. /\ job' = job /\ calls' = calls /\ batch' = "none" /\ nextId' = nextId
      /\ \A u \in Threads : Active(u)' => Active(u)
  BY <1>1 DEF CloseBatch, FinishBatch, HoldInv, TypeOK, Active
<1>3. \/ durable' = durable /\ txn' = txn
      \/ batch = "open" /\ durable' = AllRows /\ txn' = {}
  BY <1>1 DEF FinishBatch
<1>4. AllRows' = AllRows
  BY <1>3
<1>5. RowOrder'
  BY <1>2, <1>3, <1>4 DEF RowOrder
<1>6. RowsBefore'
  BY <1>2, <1>4 DEF RowsBefore
<1>7. BatchMembers'
  BY <1>2 DEF BatchMembers
<1>8. NextRow'
  <2>1. \E n \in Nat : Upto(durable', n)
    BY <1>3 DEF NextRow, Upto
  <2>2. ~fenced' => ~fenced
    BY <1>1 DEF FinishBatch
  <2> QED BY <1>2, <1>4, <2>1, <2>2 DEF NextRow
<1>9. NoRow'
  <2> SUFFICES ASSUME NEW u \in Threads, NEW r \in durable', Active(u),
                      job[u].answer # "ok" \/ job[u].kind # "write", r.call = job[u].call
               PROVE  FALSE
    BY <1>2 DEF NoRow
  <2>1. r \notin durable
    BY DEF NoRow
  <2>2. r \in txn /\ batch = "open"
    BY <1>3, <2>1
  <2>3. PICK h \in Threads, v \in Threads :
          /\ pc[h] \in {"drain", "running"} /\ v \in BatchOf(h)
          /\ job[v].call = r.call /\ job[v].answer = "ok"
    BY <2>2 DEF BatchMembers
  <2>4. Active(v) /\ job[v].kind = "write"
    BY <2>3, BatchCallers
  <2>5. u = v
    BY <2>3, <2>4 DEF CallInv, OwnCall
  <2> QED BY <2>3, <2>4, <2>5
<1> QED BY <1>5, <1>6, <1>7, <1>8, <1>9

\* Every step keeps the rows' order.
LEMMA RowStep ==
  /\ HoldInv /\ HoldInv' /\ WaitInv /\ DurableInv /\ BatchInv /\ BatchInv' /\ CallInv /\ RowInv
  /\ [Next]_vars
  => RowInv'
<1> SUFFICES ASSUME HoldInv, HoldInv', WaitInv, DurableInv, BatchInv, BatchInv', CallInv, RowInv, [Next]_vars
             PROVE  RowInv'
  OBVIOUS
<1> USE DEF queueVars, storeVars, history
<1>0. TypeOK /\ TypeOK' /\ BatchMembers
  BY DEF HoldInv, RowInv
<1>1. CASE UNCHANGED vars
  BY <1>1 DEF vars, RowInv, RowOrder, RowsBefore, NextRow, BatchMembers, NoRow, AllRows, Upto, Active, BatchOf
<1>2. CASE Crash
  <2>1. /\ durable' = durable /\ txn' = {} /\ calls' = calls /\ nextId' = NextIdentity(durable)
        /\ batch' = "none" /\ \A u \in Threads : ~Active(u)'
    BY <1>2 DEF Crash, Active
  <2>2. AllRows' = durable /\ durable \subseteq AllRows
    BY <2>1 DEF AllRows
  <2>3. RowOrder'
    BY <2>1, <2>2 DEF RowInv, RowOrder
  <2>4. PICK n \in Nat : Upto(durable, n)
    BY DEF RowInv, NextRow
  <2>5. NextIdentity(durable) = n
    BY <2>2, <2>4, UptoIsNext DEF RowInv, RowOrder, Rows
  <2>6. NextRow'
    BY <2>1, <2>2, <2>4, <2>5 DEF NextRow
  <2>7. RowsBefore' /\ BatchMembers' /\ NoRow'
    BY <2>1 DEF RowsBefore, BatchMembers, NoRow
  <2> QED BY <2>3, <2>6, <2>7 DEF RowInv
<1> DEFINE Still == txn' = txn /\ durable' = durable /\ nextId' = nextId /\ fenced' = fenced
<1>3. ASSUME Next, ~Crash, Still, batch' = "open" => batch = "open", BatchMembers' PROVE RowInv'
  BY <1>3, RowsStay
<1>4. ASSUME NEW t \in Threads, NEW k \in Kinds, Take(t, k)
      PROVE  Still /\ (batch' = "open" => batch = "open") /\ BatchMembers'
  <2>1. Still /\ batch' = batch
    BY <1>4 DEF Take
  <2>2. /\ pc[t] = "idle"
        /\ \A u \in Threads : u # t => pc'[u] = pc[u] /\ job'[u] = job[u] /\ frame'[u] = frame[u]
    BY <1>0, <1>4 DEF Take, TypeOK
  <2> QED BY <1>0, <2>1, <2>2, MembersStay
<1>5. ASSUME NEW t \in Threads, HearAnswer(t)
      PROVE  Still /\ (batch' = "open" => batch = "open") /\ BatchMembers'
  <2>1. Still /\ batch' = batch
    BY <1>5 DEF HearAnswer
  <2>2. /\ pc[t] = "woken"
        /\ \A u \in Threads : u # t => pc'[u] = pc[u] /\ job'[u] = job[u] /\ frame'[u] = frame[u]
    BY <1>0, <1>5 DEF HearAnswer, TypeOK
  <2> QED BY <1>0, <2>1, <2>2, MembersStay
<1>6. ASSUME NEW t \in Threads, PopWrite(t)
      PROVE  Still /\ (batch' = "open" => batch = "open") /\ BatchMembers'
  <2>1. /\ Still /\ (batch' = "open" => batch = "open") /\ job' = job /\ pc[t] = "drain" /\ pc'[t] = "running"
        /\ frame'[t].batching /\ frame'[t].batched = frame[t].batched
        /\ frame'[t].first = frame[t].first /\ frame'[t].open = frame[t].open
    BY <1>0, <1>6 DEF PopWrite, TypeOK, Frames
  <2>2. \A h \in Threads : pc[h] \in {"drain", "running"} => h = t
    BY <2>1, OnlyHolderDrains DEF Holds, Draining
  <2>3. BatchOf(t)' = BatchOf(t)
    BY <2>1 DEF BatchOf
  <2> QED BY <1>0, <2>1, <2>2, <2>3 DEF BatchMembers
<1>7. ASSUME NEW t \in Threads, Hold(t), ~HearAnswer(t), ~RunOwnWrite(t)
      PROVE  Still /\ (batch' = "open" => batch = "open") /\ BatchMembers'
  <2>1. Still /\ (batch' = batch \/ batch' = "ready")
    BY <1>7 DEF Hold, Own, ReadBody, Release, StartOwnBatch
  <2>2. Holds(t) /\ pc[t] \notin {"drain", "running"}
    BY <1>7 DEF Hold, Own, ReadBody, Release, StartOwnBatch, Holds
  <2>3. batch # "open"
    BY <2>2, OpenIsDraining
  <2> QED BY <2>1, <2>3 DEF BatchMembers
<1>8. ASSUME NEW t \in Threads, AnswerOne(t) \/ BatchAnswered(t) \/ LetGo(t) \/ HandOver(t)
      PROVE  Still /\ (batch' = "open" => batch = "open") /\ BatchMembers'
  <2>1. Still /\ batch' = batch
    BY <1>8 DEF AnswerOne, BatchAnswered, LetGo, HandOver
  <2>2. pc[t] = "answer" \/ (pc[t] = "drain" /\ ~frame[t].batching)
    BY <1>8 DEF AnswerOne, BatchAnswered, LetGo, HandOver
  <2>3. batch # "open"
    BY <2>2, OpenIsDraining DEF Holds
  <2> QED BY <2>1, <2>3 DEF BatchMembers
<1>9. ASSUME NEW t \in Threads, RunOwnWrite(t) PROVE RowInv'
  BY <1>9, OwnWriteInBatch
<1>10. ASSUME NEW t \in Threads, RunQueuedWrite(t) PROVE RowInv'
  BY <1>10, QueuedWriteInBatch
<1>11. ASSUME NEW t \in Threads, CloseBatch(t) PROVE RowInv'
  BY <1>11, CommitRows
<1> HIDE DEF Still
<1> QED BY <1>1, <1>2, <1>3, <1>4, <1>5, <1>6, <1>7, <1>8, <1>9, <1>10, <1>11 DEF Next, Drain

\* So it holds throughout.
LEMMA RowInvariant == Spec => []RowInv
<1>1. Init => RowInv
  <2> SUFFICES ASSUME Init PROVE RowInv
    OBVIOUS
  <2>1. durable = {} /\ AllRows = {} /\ nextId = 1 /\ batch = "none" /\ \A u \in Threads : ~Active(u)
    BY DEF Init, AllRows, Active
  <2>2. Upto({}, 1)
    BY DEF Upto
  <2> QED BY <2>1, <2>2 DEF RowInv, RowOrder, RowsBefore, NextRow, BatchMembers, NoRow, AllRows
<1>2. /\ HoldInv /\ HoldInv' /\ WaitInv /\ DurableInv /\ BatchInv /\ BatchInv' /\ CallInv /\ RowInv
      /\ [Next]_vars
      => RowInv'
  BY RowStep
<1> QED BY <1>1, <1>2, HoldInvariant, WaitInvariant, DurableInvariant, BatchInvariant, CallInvariant, PTL
        DEF Spec

\* Store.zig, takeIdentity, rollbackAfterError and loadIdentities: whatever is
\* rolled back, lost or read back after a restart, no two durable rows share an
\* identity and identities are in the order in which the calls arrived.
THEOREM IdentitiesFollowArrival == Spec => []IdentityFollowsArrival
<1>1. RowInv => IdentityFollowsArrival
  BY DEF RowInv, RowOrder, AllRows, IdentityFollowsArrival
<1> QED BY <1>1, RowInvariant, PTL

-----------------------------------------------------------------------------
(* The contract *)

\* A return to a caller is the contract's Reply.
LEMMA ReplyMaps ==
  ASSUME HoldInv, DurableInv', CallInv, RowInv, NEW t \in Threads, Active(t), NEW lost \in BOOLEAN,
         Heard(t, lost), durable' = durable, job[t].answer # "none", lost => job[t].kind = "write"
  PROVE  Contract!Reply
<1> DEFINE c == job[t].call
           k == IF job[t].kind = "write" THEN "write" ELSE "read"
           a == IF lost /\ job[t].answer = "ok" THEN "lost" ELSE job[t].answer
<1>1. answers' = answers \cup {[call |-> c, kind |-> k, answer |-> a]}
  BY DEF Heard
<1>2. c \in 1..MaxCalls
  BY BoundsAssumption DEF CallInv, OwnCall, HoldInv, TypeOK
<1>3. k \in {"read", "write"} /\ a \in {"ok", "error", "lost"}
  BY DEF HoldInv, TypeOK, Jobs
<1>4. ~\E r \in answers : r.call = c
  BY DEF CallInv, OwnCall
<1>5. k = "write" /\ a = "ok" => \E row \in durable : row.call = c
  <2> DEFINE heard == [call |-> c, kind |-> k, answer |-> a]
  <2>1. heard \in answers' /\ heard.call = c /\ heard.kind = k /\ heard.answer = a
    BY <1>1
  <2>2. heard.kind = "write" /\ heard.answer = "ok" => \E row \in durable : row.call = heard.call
    BY <2>1 DEF DurableInv, AnsweredIsDurable
  <2> HIDE DEF heard
  <2> QED BY <2>1, <2>2
<1>6. a = "error" \/ k = "read" => ~\E row \in durable : row.call = c
  BY DEF RowInv, NoRow
<1>7. a = "lost" => k = "write"
  BY DEF HoldInv, TypeOK, Jobs
<1> HIDE DEF c, k, a
<1> QED BY <1>1, <1>2, <1>3, <1>4, <1>5, <1>6, <1>7 DEF Contract!Reply, Contract!Replied, Contract!Durable

\* A COMMIT that took effect is the contract's, whether or not it reported so.
LEMMA CommitMaps ==
  ASSUME HoldInv, CallInv, RowInv, NEW t \in Threads, CloseBatch(t), durable' # durable
  PROVE  Contract!Commit
<1> DEFINE new == durable' \ durable
<1>1. PICK ok \in BOOLEAN : FinishBatch(ok)
  BY DEF CloseBatch
<1>2. batch = "open" /\ durable' = durable \cup txn /\ answers' = answers
  BY <1>1 DEF CloseBatch, FinishBatch
<1>3. new \subseteq txn /\ durable' = AllRows
  BY <1>2 DEF AllRows
<1>4. /\ calls \in Nat /\ MaxCalls \in Nat /\ calls <= MaxCalls
      /\ \A r \in AllRows : r \in Rows /\ r.id \in Nat /\ r.call \in Nat
                            /\ 1 <= r.id /\ r.id <= r.call /\ r.call <= calls
  BY BoundsAssumption DEF HoldInv, TypeOK, CallInv, OwnCall, RowInv, RowOrder, Rows
<1>5. durable' \subseteq Contract!Rows
  BY <1>3, <1>4 DEF Rows, Contract!Rows
<1>6. \A r \in new, old \in durable : old.id < r.id /\ old.call < r.call
  BY <1>3 DEF RowInv, RowOrder, AllRows
<1>7. \A r \in new : ~Contract!Durable(r.call)
  BY <1>3, <1>4, <1>6 DEF Contract!Durable, AllRows
<1>8. \A r \in new : ~Contract!Replied(r.call)
  <2> SUFFICES ASSUME NEW r \in new, NEW a \in answers, a.call = r.call PROVE FALSE
    BY DEF Contract!Replied
  <2>1. PICK h \in Threads, v \in Threads :
          pc[h] \in {"drain", "running"} /\ v \in BatchOf(h) /\ job[v].call = r.call
    BY <1>2, <1>3 DEF RowInv, BatchMembers
  <2>2. Active(v)
    BY <2>1, BatchCallers
  <2> QED BY <2>1, <2>2 DEF CallInv, OwnCall
<1>9. \A x, y \in new : x.call < y.call <=> x.id < y.id
  BY <1>3 DEF RowInv, RowOrder, AllRows
<1> QED BY <1>2, <1>5, <1>6, <1>7, <1>8, <1>9 DEF Contract!Commit

\* Every step of the queue is a step of the contract, or none.
LEMMA ContractStep ==
  HoldInv /\ HoldInv' /\ DurableInv /\ DurableInv' /\ CallInv /\ RowInv /\ [Next]_vars
  => [Contract!Next]_(Contract!vars)
<1> SUFFICES ASSUME HoldInv, HoldInv', DurableInv, DurableInv', CallInv, RowInv, [Next]_vars
             PROVE  Contract!Next \/ (durable' = durable /\ answers' = answers)
  BY DEF Contract!vars
<1> USE DEF queueVars, storeVars, history
<1>0. \A t \in Threads : RanAwake(t)
  BY DEF CallInv, BodyRan
<1>1. CASE UNCHANGED vars
  BY <1>1 DEF vars
<1>2. ASSUME NEW t \in Threads, HearAnswer(t) PROVE Contract!Next
  <2>1. /\ Active(t) /\ Heard(t, job[t].lost) /\ durable' = durable /\ job[t].lost \in BOOLEAN
        /\ job[t].answer # "none" /\ job[t].kind = "write"
    BY <1>0, <1>2 DEF HearAnswer, RanAwake, Active, HoldInv, TypeOK, Jobs
  <2> QED BY <2>1, ReplyMaps DEF Contract!Next
<1>3. ASSUME NEW t \in Threads, LetGo(t) \/ HandOver(t) PROVE Contract!Next
  <2>1. /\ Active(t) /\ Heard(t, ~frame[t].committed) /\ durable' = durable /\ pc[t] = "drain"
    BY <1>3 DEF LetGo, HandOver, Active
  <2>2. job[t].answer # "none" /\ (~frame[t].committed => job[t].kind = "write")
    BY <1>0, <2>1 DEF RanAwake, Draining
  <2>3. (~frame[t].committed) \in BOOLEAN
    OBVIOUS
  <2> QED BY <2>1, <2>2, <2>3, ReplyMaps DEF Contract!Next
<1>4. ASSUME NEW t \in Threads, CloseBatch(t) PROVE Contract!Next \/ (durable' = durable /\ answers' = answers)
  BY <1>4, CommitMaps DEF CloseBatch, Contract!Next
<1>5. ASSUME NEW t \in Threads, NEW k \in Kinds, Take(t, k) PROVE durable' = durable /\ answers' = answers
  BY <1>5 DEF Take
<1>6. ASSUME NEW t \in Threads, Own(t) \/ ReadBody(t) \/ Release(t) \/ StartOwnBatch(t)
      PROVE  durable' = durable /\ answers' = answers
  BY <1>6 DEF Own, ReadBody, Release, StartOwnBatch
<1>7. ASSUME NEW t \in Threads, RunOwnWrite(t) PROVE durable' = durable /\ answers' = answers
  BY <1>7, BodyKeepsRows DEF RunOwnWrite, HoldInv
<1>8. ASSUME NEW t \in Threads, RunQueuedWrite(t) PROVE durable' = durable /\ answers' = answers
  <2>1. frame[t].running \in Threads
    BY <1>8 DEF RunQueuedWrite, HoldInv, RunningSleeps
  <2> QED BY <1>8, <2>1, BodyKeepsRows DEF RunQueuedWrite, HoldInv
<1>9. ASSUME NEW t \in Threads, PopWrite(t) \/ AnswerOne(t) \/ BatchAnswered(t)
      PROVE  durable' = durable /\ answers' = answers
  BY <1>9 DEF PopWrite, AnswerOne, BatchAnswered
<1>10. ASSUME Crash PROVE durable' = durable /\ answers' = answers
  BY <1>10 DEF Crash
<1> QED BY <1>1, <1>2, <1>3, <1>4, <1>5, <1>6, <1>7, <1>8, <1>9, <1>10 DEF Next, Hold, Drain

\* The queue, its batches and its restarts implement what StoreContract promises
\* the callers: rows become durable in groups and in arrival order, and a call is
\* answered once, with success only after its COMMIT.
THEOREM QueueKeepsContract == Spec => ImplementsContract
<1>1. Init => Contract!Init
  BY DEF Init, Contract!Init
<1>2. HoldInv /\ HoldInv' /\ DurableInv /\ DurableInv' /\ CallInv /\ RowInv /\ [Next]_vars
      => [Contract!Next]_(Contract!vars)
  BY ContractStep
<1> QED BY <1>1, <1>2, HoldInvariant, DurableInvariant, CallInvariant, RowInvariant, PTL
        DEF Spec, ImplementsContract, Contract!Spec
=============================================================================
