----------------------------- MODULE StoreQueue -----------------------------
(***************************************************************************)
(* Who holds the Store (store/queue.zig) and what a batch of writes makes  *)
(* durable (the batch half of store/Store.zig).  A thread that finds the   *)
(* Store free holds it; one that finds it busy queues a job and sleeps.    *)
(* The holder runs queued writes itself, each in a savepoint of one        *)
(* transaction, commits them together and only then answers them; any      *)
(* other job gets the Store handed over.  A write's data is one row that   *)
(* takes the next identity; a read is a body that writes nothing.          *)
(***************************************************************************)
EXTENDS Naturals, Sequences, FiniteSets, FiniteSetsExt

CONSTANTS Threads,     \* threads that call Store entry points
          NoThread,    \* the owner word when nobody holds the Store
          DrainLimit,  \* queue.zig drain_limit (64)
          MaxCalls,    \* bound: calls made in one behaviour
          MaxCrashes   \* bound: times the Host process dies

ASSUME ThreadsAssumption == NoThread \notin Threads
ASSUME BoundsAssumption ==
  DrainLimit \in Nat /\ MaxCalls \in Nat /\ MaxCrashes \in Nat

VARIABLES
  held,     \* Queue.held
  owner,    \* Queue.owner
  queue,    \* Queue.head .. tail, the jobs in arrival order
  pc,       \* where each thread is
  job,      \* the thread's Job: [kind, call, handed, lost, answer]
  frame,    \* the thread's locals in drain
  batch,    \* Store.batch
  txn,      \* rows of the open transaction
  fenced,   \* Store.fenced
  nextId,   \* Store.identities().next
  durable,  \* rows of committed transactions
  calls,    \* calls made so far
  crashes,  \* crashes so far
  doubt,    \* history: calls whose batch failed to commit
  answers   \* history: what callers heard

queueVars == <<held, owner, queue>>
storeVars == <<batch, txn, fenced, nextId, durable>>
history   == <<calls, crashes, doubt, answers>>
vars == <<held, owner, queue, pc, job, frame, batch, txn, fenced, nextId,
          durable, calls, crashes, doubt, answers>>

Kinds == {"read", "held", "write"}  \* Queue.run, Queue.callHeld, Queue.write
Rows  == [id : Nat, call : Nat]

Jobs == [kind : Kinds, call : Nat, handed : BOOLEAN, lost : BOOLEAN,
         answer : {"none", "ok", "error"}]
Frames == [open : BOOLEAN, batching : BOOLEAN, first : BOOLEAN, committed : BOOLEAN, ran : Nat,
           batched : Seq(Threads), running : Threads \cup {NoThread}, ok : BOOLEAN]

NewJob(k, n) == [kind |-> k, call |-> n, handed |-> FALSE, lost |-> FALSE, answer |-> "none"]
NoJob   == NewJob("read", 0)
NoFrame == [open |-> FALSE, batching |-> FALSE, first |-> TRUE, committed |-> TRUE,
            ran |-> 0, batched |-> <<>>, running |-> NoThread, ok |-> TRUE]

\* IdentityCeiling + 1: the identity after every row the reader can see.
NextIdentity(rows) == 1 + Max({row.id : row \in rows} \cup {0})

Init ==
  /\ held = FALSE /\ owner = NoThread /\ queue = <<>>
  /\ pc = [t \in Threads |-> "idle"]
  /\ job = [t \in Threads |-> NoJob]
  /\ frame = [t \in Threads |-> NoFrame]
  /\ batch = "none" /\ txn = {} /\ fenced = FALSE /\ nextId = 1 /\ durable = {}
  /\ calls = 0 /\ crashes = 0 /\ doubt = {} /\ answers = {}

-----------------------------------------------------------------------------
(* The Store side: one write body, run by whichever thread holds the Store. *)

\* Mutant of RolledBack: the identities are read back without the open batch's rows.
RolledBackToCommitted ==
  /\ nextId' = NextIdentity(durable)
  /\ UNCHANGED <<batch, txn, durable>>

\* finishTransaction's error path: rollbackAfterError undoes the write alone
\* and reads the identities back from the rows that are left.
RolledBack ==
  /\ nextId' = NextIdentity(durable \cup txn)
  /\ UNCHANGED <<batch, txn, durable>>

\* Mutant of WriteBody: a failed write's row is not undone.
WriteBodyKeepsRow(j) ==
  /\ ~fenced /\ batch \in {"ready", "open"}
  /\ txn' = txn \cup {[id |-> nextId, call |-> job[j].call]}
  /\ nextId' = nextId + 1 /\ batch' = "open"
  /\ \E a \in {"ok", "error"} : job' = [job EXCEPT ![j].answer = a]
  /\ UNCHANGED <<fenced, durable>>

\* The body of write job j, and the answer it leaves for j's caller.
WriteBody(j) ==
  LET heard(a) == job' = [job EXCEPT ![j].answer = a]
  IN  \/ fenced /\ heard("error") /\ UNCHANGED storeVars
      \/ /\ ~fenced /\ batch \in {"ready", "open"}
         /\ \/ \* begin, one row, commit: .first becomes .open, or the savepoint is released
               /\ txn' = txn \cup {[id |-> nextId, call |-> job[j].call]}
               /\ nextId' = nextId + 1
               /\ batch' = "open"
               /\ heard("ok")
               /\ UNCHANGED <<fenced, durable>>
            \/ \* an ordinary error: the write alone is undone
               RolledBack /\ heard("error") /\ UNCHANGED fenced
            \/ \* any other error fences the Store as well
               RolledBack /\ heard("error") /\ fenced' = TRUE
            \/ \* the rollback failed, or the engine dropped the transaction whole
               /\ batch' = "lost" /\ fenced' = TRUE /\ heard("error")
               /\ txn' \in {txn, {}}
               /\ UNCHANGED <<nextId, durable>>

\* Mutant of FinishBatch: a lost batch is reported but not ended.
FinishKeepsLost(ok) ==
  \/ /\ batch = "lost" /\ ~ok /\ fenced' = TRUE /\ UNCHANGED <<batch, txn, durable, nextId>>
  \/ /\ batch # "lost" /\ ok /\ batch' = "none" /\ durable' = durable \cup txn /\ txn' = {}
     /\ UNCHANGED <<fenced, nextId>>

\* finishBatch: ok says whether the batch's writes are durable.  A COMMIT that
\* reported failure may have taken effect.
FinishBatch(ok) ==
  /\ batch' = "none"
  /\ UNCHANGED nextId
  /\ \/ batch = "ready" /\ ok /\ UNCHANGED <<txn, fenced, durable>>
     \/ batch = "open" /\ ok /\ durable' = durable \cup txn /\ txn' = {} /\ UNCHANGED fenced
     \/ /\ batch = "open" /\ ~ok /\ fenced' = TRUE
        /\ \/ durable' = durable \cup txn /\ txn' = {}
           \/ UNCHANGED <<durable, txn>>
     \/ batch = "lost" /\ ~ok /\ fenced' = TRUE /\ UNCHANGED <<txn, durable>>

-----------------------------------------------------------------------------
(* The queue side. *)

\* Mutant of Heard: the body's answer whatever became of the batch.
HeardBody(t, lost) ==
  answers' = answers \cup
    {[call |-> job[t].call, kind |-> IF job[t].kind = "write" THEN "write" ELSE "read",
      answer |-> job[t].answer]}

\* What the caller returns: Queue.write's lostAnswer keeps a failed body's error.
Heard(t, lost) ==
  answers' = answers \cup
    {[call   |-> job[t].call,
      kind   |-> IF job[t].kind = "write" THEN "write" ELSE "read",
      answer |-> IF lost /\ job[t].answer = "ok" THEN "lost" ELSE job[t].answer]}

\* Queue.take on an idle thread: hold the free Store, or queue behind the rest.
Take(t, k) ==
  /\ pc[t] = "idle" /\ calls < MaxCalls
  /\ calls' = calls + 1
  /\ job' = [job EXCEPT ![t] = NewJob(k, calls + 1)]
  /\ frame' = [frame EXCEPT ![t] = NoFrame]
  /\ \/ ~held /\ held' = TRUE /\ pc' = [pc EXCEPT ![t] = "taken"] /\ UNCHANGED queue
     \/ held /\ queue' = Append(queue, t) /\ pc' = [pc EXCEPT ![t] = "waiting"] /\ UNCHANGED held
  /\ UNCHANGED <<owner, crashes, doubt, answers>> /\ UNCHANGED storeVars

\* The owner word follows: after the mutex is dropped, or after a hand-over.
Own(t) ==
  /\ pc[t] = "taken" \/ (pc[t] = "woken" /\ job[t].handed)
  /\ owner' = t
  /\ pc' = [pc EXCEPT ![t] = "body"]
  /\ UNCHANGED <<held, queue, job, frame>> /\ UNCHANGED storeVars /\ UNCHANGED history

\* Queue.write resuming after a holder ran its body.
HearAnswer(t) ==
  /\ pc[t] = "woken" /\ ~job[t].handed
  /\ Heard(t, job[t].lost)
  /\ pc' = [pc EXCEPT ![t] = "idle"]
  /\ UNCHANGED <<job, frame, calls, crashes, doubt>>
  /\ UNCHANGED queueVars /\ UNCHANGED storeVars

\* Queue.run and Queue.callHeld: the body of a job on its own thread.  enter
\* refuses a fenced Store; callHeld keeps the Store after a success.
ReadBody(t) ==
  /\ pc[t] = "body" /\ job[t].kind \in {"read", "held"}
  /\ job' = [job EXCEPT ![t].answer = IF fenced THEN "error" ELSE "ok"]
  /\ pc' = [pc EXCEPT ![t] = IF job[t].kind = "held" /\ ~fenced THEN "holding" ELSE "drain"]
  /\ UNCHANGED frame /\ UNCHANGED queueVars /\ UNCHANGED storeVars /\ UNCHANGED history

\* The callHeld caller's own Queue.release.
Release(t) ==
  /\ pc[t] = "holding"
  /\ pc' = [pc EXCEPT ![t] = "drain"]
  /\ UNCHANGED <<job, frame>> /\ UNCHANGED queueVars /\ UNCHANGED storeVars /\ UNCHANGED history

\* Queue.write holding the Store: batch.start, then its own body, then drain(true).
StartOwnBatch(t) ==
  /\ pc[t] = "body" /\ job[t].kind = "write"
  /\ batch' = "ready"
  /\ pc' = [pc EXCEPT ![t] = "write"]
  /\ UNCHANGED <<job, frame, txn, fenced, nextId, durable>>
  /\ UNCHANGED queueVars /\ UNCHANGED history

RunOwnWrite(t) ==
  /\ pc[t] = "write"
  /\ WriteBody(t)
  /\ frame' = [frame EXCEPT ![t].open = TRUE, ![t].batching = TRUE]
  /\ pc' = [pc EXCEPT ![t] = "drain"]
  /\ UNCHANGED queueVars /\ UNCHANGED history

\* Queue.drain's first test: the next job is a write this holder may still run.
MayRun(t) ==
  /\ queue # <<>>
  /\ job[Head(queue)].kind = "write"
  /\ frame[t].ran < DrainLimit

PopWrite(t) ==
  /\ pc[t] = "drain" /\ MayRun(t)
  /\ queue' = Tail(queue)
  /\ batch' = IF frame[t].batching THEN batch ELSE "ready"
  /\ frame' = [frame EXCEPT ![t].batching = TRUE, ![t].running = Head(queue)]
  /\ pc' = [pc EXCEPT ![t] = "running"]
  /\ UNCHANGED <<held, owner, job, txn, fenced, nextId, durable>> /\ UNCHANGED history

RunQueuedWrite(t) ==
  /\ pc[t] = "running"
  /\ WriteBody(frame[t].running)
  /\ frame' = [frame EXCEPT ![t].ran = @ + 1,
                            ![t].batched = <<frame[t].running>> \o @,
                            ![t].running = NoThread]
  /\ pc' = [pc EXCEPT ![t] = "drain"]
  /\ UNCHANGED queueVars /\ UNCHANGED history

\* The jobs whose writes are in the holder's open batch.
BatchOf(t) == Range(frame[t].batched) \cup {u \in {t} : frame[t].first /\ frame[t].open}

\* Mutant of CloseBatch: the holder answers its own write with its last batch.
CloseBatchLast(t) ==
  /\ pc[t] = "drain" /\ ~MayRun(t) /\ frame[t].batching
  /\ \E ok \in BOOLEAN :
       /\ FinishBatch(ok)
       /\ frame' = [frame EXCEPT ![t].committed = ok, ![t].first = FALSE,
                                 ![t].batching = FALSE, ![t].ok = ok]
       /\ doubt' = doubt \cup {job[u].call : u \in {v \in BatchOf(t) : ~ok}}
  /\ pc' = [pc EXCEPT ![t] = "answer"]
  /\ UNCHANGED <<job, calls, crashes, answers>> /\ UNCHANGED queueVars

\* Nothing more may join: commit the batch.  Only the first batch decides what
\* the holder's own write answers.
CloseBatch(t) ==
  /\ pc[t] = "drain" /\ ~MayRun(t) /\ frame[t].batching
  /\ \E ok \in BOOLEAN :
       /\ FinishBatch(ok)
       /\ frame' = [frame EXCEPT ![t].committed = IF frame[t].first /\ frame[t].open THEN ok ELSE @,
                                 ![t].first = FALSE, ![t].batching = FALSE, ![t].ok = ok]
       /\ doubt' = doubt \cup {job[u].call : u \in {v \in BatchOf(t) : ~ok}}
  /\ pc' = [pc EXCEPT ![t] = "answer"]
  /\ UNCHANGED <<job, calls, crashes, answers>> /\ UNCHANGED queueVars

\* Queue.answerBatch, one writer per step: each may return before the next is set.
AnswerOne(t) ==
  /\ pc[t] = "answer" /\ frame[t].batched # <<>>
  /\ LET j == Head(frame[t].batched)
     IN  /\ job' = [job EXCEPT ![j].lost = ~frame[t].ok]
         /\ pc' = [pc EXCEPT ![j] = "woken"]
  /\ frame' = [frame EXCEPT ![t].batched = Tail(@)]
  /\ UNCHANGED queueVars /\ UNCHANGED storeVars /\ UNCHANGED history

BatchAnswered(t) ==
  /\ pc[t] = "answer" /\ frame[t].batched = <<>>
  /\ pc' = [pc EXCEPT ![t] = "drain"]
  /\ UNCHANGED <<job, frame>> /\ UNCHANGED queueVars /\ UNCHANGED storeVars /\ UNCHANGED history

\* Mutant of LetGo: the queue is not looked at again.
LetGoEarly(t) ==
  /\ pc[t] = "drain" /\ ~frame[t].batching /\ ~MayRun(t)
  /\ held' = FALSE /\ owner' = NoThread
  /\ Heard(t, ~frame[t].committed)
  /\ pc' = [pc EXCEPT ![t] = "idle"]
  /\ UNCHANGED <<queue, job, frame, calls, crashes, doubt>> /\ UNCHANGED storeVars

\* Mutant of HandOver: the Store is also marked free.
HandOverReleases(t) ==
  /\ pc[t] = "drain" /\ ~frame[t].batching /\ queue # <<>> /\ ~MayRun(t)
  /\ queue' = Tail(queue) /\ owner' = NoThread /\ held' = FALSE
  /\ job' = [job EXCEPT ![Head(queue)].handed = TRUE]
  /\ Heard(t, ~frame[t].committed)
  /\ pc' = [pc EXCEPT ![Head(queue)] = "woken", ![t] = "idle"]
  /\ UNCHANGED <<frame, calls, crashes, doubt>> /\ UNCHANGED storeVars

\* Mutant of HandOver: the Store goes to the next thread with the batch open.
HandOverUncommitted(t) ==
  /\ pc[t] = "drain" /\ queue # <<>> /\ ~MayRun(t)
  /\ queue' = Tail(queue) /\ owner' = NoThread
  /\ job' = [job EXCEPT ![Head(queue)].handed = TRUE]
  /\ Heard(t, ~frame[t].committed)
  /\ pc' = [pc EXCEPT ![Head(queue)] = "woken", ![t] = "idle"]
  /\ UNCHANGED <<held, frame, calls, crashes, doubt>> /\ UNCHANGED storeVars

\* drain's two exits, each of which also returns the holder's own answer.
LetGo(t) ==
  /\ pc[t] = "drain" /\ ~frame[t].batching /\ queue = <<>>
  /\ held' = FALSE /\ owner' = NoThread
  /\ Heard(t, ~frame[t].committed)
  /\ pc' = [pc EXCEPT ![t] = "idle"]
  /\ UNCHANGED <<queue, job, frame, calls, crashes, doubt>> /\ UNCHANGED storeVars

HandOver(t) ==
  /\ pc[t] = "drain" /\ ~frame[t].batching /\ queue # <<>> /\ ~MayRun(t)
  /\ queue' = Tail(queue) /\ owner' = NoThread
  /\ job' = [job EXCEPT ![Head(queue)].handed = TRUE]
  /\ Heard(t, ~frame[t].committed)
  /\ pc' = [pc EXCEPT ![Head(queue)] = "woken", ![t] = "idle"]
  /\ UNCHANGED <<held, frame, calls, crashes, doubt>> /\ UNCHANGED storeVars

-----------------------------------------------------------------------------
\* The Host dies: callers in flight never hear; the next open reads the rows
\* that committed and loads the identities from them.
Crash ==
  /\ crashes < MaxCrashes
  /\ crashes' = crashes + 1
  /\ held' = FALSE /\ owner' = NoThread /\ queue' = <<>>
  /\ pc' = [t \in Threads |-> "idle"]
  /\ job' = [t \in Threads |-> NoJob]
  /\ frame' = [t \in Threads |-> NoFrame]
  /\ batch' = "none" /\ txn' = {} /\ fenced' = FALSE
  /\ nextId' = NextIdentity(durable)
  /\ UNCHANGED <<durable, calls, doubt, answers>>

Hold(t) ==
  \/ Own(t) \/ HearAnswer(t) \/ ReadBody(t) \/ Release(t)
  \/ StartOwnBatch(t) \/ RunOwnWrite(t)

Drain(t) ==
  \/ PopWrite(t) \/ RunQueuedWrite(t) \/ CloseBatch(t)
  \/ AnswerOne(t) \/ BatchAnswered(t) \/ LetGo(t) \/ HandOver(t)

Next ==
  \/ \E t \in Threads : (\E k \in Kinds : Take(t, k)) \/ Hold(t) \/ Drain(t)
  \/ Crash

Spec == Init /\ [][Next]_vars

\* A thread inside an entry point keeps running; nothing makes one call again.
FairSpec == Spec /\ \A t \in Threads : WF_vars(Hold(t) \/ Drain(t))

-----------------------------------------------------------------------------
(* Properties *)

\* The thread holds the Store: take returned true and drain has not returned.
\* A woken thread the Store was handed to holds it before it runs again.
Holds(t) ==
  \/ pc[t] \in {"taken", "body", "holding", "write", "drain", "running", "answer"}
  \/ pc[t] = "woken" /\ job[t].handed

\* Types of the Queue's and the Store's fields: a Job keeps the answer of its own
\* body, and answerBatch adds only whether the batch was lost.
TypeOK ==
  /\ held \in BOOLEAN /\ owner \in Threads \cup {NoThread}
  /\ queue \in Seq(Threads)
  /\ pc \in [Threads -> {"idle", "taken", "waiting", "woken", "body", "holding",
                         "write", "drain", "running", "answer"}]
  /\ job \in [Threads -> Jobs] /\ frame \in [Threads -> Frames]
  /\ batch \in {"none", "ready", "open", "lost"}
  /\ fenced \in BOOLEAN /\ calls \in Nat /\ crashes \in Nat

\* Exclusive access (queue.zig header: "Bodies run one at a time"): the Store is
\* marked held exactly while one thread holds it, through every hand-over, and
\* the owner word Entry and drain assert on names that thread while it works.
ExclusiveHold ==
  /\ \A t, u \in Threads : Holds(t) /\ Holds(u) => t = u
  /\ held <=> \E t \in Threads : Holds(t)
  /\ \A t \in Threads : Holds(t) /\ pc[t] \notin {"taken", "woken"} => owner = t

\* Where caller t waits to be woken: at a place in the queue, at a place in the
\* batch of a holder, or in the hands of the holder that runs its body.
Places(t) ==
  LET inQueue    == {n \in DOMAIN queue : queue[n] = t}
      inBatch(u) == {n \in DOMAIN frame[u].batched : frame[u].batched[n] = t}
      inRun      == {u \in Threads : frame[u].running = t}
  IN  {<<"queue", NoThread, i>> : i \in inQueue}
      \cup (UNION {{<<"batch", u, i>> : i \in inBatch(u)} : u \in Threads})
      \cup {<<"run", u, 0>> : u \in inRun}

\* Queue.take and Queue.drain: a sleeping caller always has someone who will wake
\* it. It is in the queue of a held Store, or in the frame of the holder that
\* popped it, and in only one of those places.
NoStrandedWaiter ==
  \A t \in Threads : pc[t] = "waiting" =>
    held /\ \E p \in Places(t) : Places(t) = {p}

\* Queue.drain commits the batch before it hands the Store over, so the body of a
\* read never sees rows whose COMMIT could still fail (enter refuses a fenced Store).
ReadsOnlyCommitted ==
  \A t \in Threads :
    pc[t] \in {"body", "holding"} /\ ~fenced => txn = {} /\ batch = "none"

\* No writer hears success before its COMMIT (queue.zig header): a success heard
\* by a caller names a row that is durable, whatever fails or crashes later.
AnsweredIsDurable ==
  \A a \in answers : a.kind = "write" /\ a.answer = "ok" =>
    \E row \in durable : row.call = a.call

\* Queue.write's lostAnswer: a write whose body succeeded hears the failure only
\* when the batch it joined failed, never because a later batch of the same
\* holder did.
LostOnlyWithItsBatch ==
  \A a \in answers : a.answer = "lost" => a.call \in doubt

\* Store.takeIdentity and loadIdentities: across rollbacks, failed commits and
\* restarts no identity names two durable rows, and identities follow arrival order.
IdentityFollowsArrival ==
  \A a, b \in durable : a.call < b.call <=> a.id < b.id

\* Queue.drain and finishBatch's asserts: a batch is started only when none is
\* open, and committed only in the states commitBatch handles.
BatchProtocol ==
  \A t \in Threads :
    /\ pc[t] = "body" => batch = "none"
    /\ pc[t] = "drain" /\ ~frame[t].batching => batch = "none"
    /\ pc[t] = "drain" /\ frame[t].batching => batch # "none"
    /\ batch = "lost" => fenced

\* The queue implements the contract its callers rely on.
Contract == INSTANCE StoreContract WITH committed <- durable, replies <- answers

ImplementsContract == Contract!Spec

\* Every caller that queued hears an answer or gets the Store, and every holder
\* lets go: queue.zig's hand-over loses no wake-up.
EveryCallReturns ==
  \A t \in Threads : pc[t] # "idle" ~> pc[t] = "idle"
=============================================================================
