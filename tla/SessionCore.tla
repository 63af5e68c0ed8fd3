----------------------------- MODULE SessionCore ----------------------------
(***************************************************************************)
(* The Host: client commands and the execution owner (execution_turn.zig,  *)
(* server_execution.zig) working on one Store.  Each action is one Store   *)
(* entry point with what its caller does around it; the Store's queue runs *)
(* entry points one at a time (StoreQueue), so each is atomic, and other   *)
(* threads' commands fall between any two.  db survives a crash, the rest  *)
(* is the Host's memory.                                                   *)
(***************************************************************************)
EXTENDS ActionOperation

CONSTANTS Existing,       \* Sessions at the start
          Parents,        \* their parents
          Proposals,      \* the tool calls a model answer may make
          ClientKinds,    \* bound: the kinds of command clients send
          Capacity,       \* execution slots
          MaxOperations,  \* bound: model Operations
          MaxActions,     \* bound: Actions
          MaxFailures     \* bound: crashes, fences and stops of the Host

ASSUME BoundsAssumption ==
  {Capacity, MaxOperations, MaxActions, MaxFailures} \subseteq Nat

\* session.parent_ref references a Session that exists.
ASSUME ParentsAssumption ==
  /\ Existing \subseteq Sessions
  /\ Parents \in [Sessions -> Sessions \cup {NoSession}]
  /\ \A s \in Existing : Parents[s] \in Existing \cup {NoSession}

\* A call is permitted, needs a decision, or is rejected.
ASSUME ProposalsAssumption ==
  Proposals \subseteq Seq([tool : Tools, verdict : {"allow", "ask", "rejected"}])

VARIABLES db,        \* the Store's committed rows
          phase,     \* Host.phase: open, fenced, stopping
          slots,     \* the occupied ExecutionSlots
          scanned,   \* uncertain_action_scan_exhausted
          work,      \* the core work nextCoreWork returned, while it runs
          launched,  \* history: Actions whose Bash process was started
          failures   \* crashes, fences and stops of the Host so far

host == <<phase, slots, scanned, work>>
vars == <<db, phase, slots, scanned, work, launched, failures>>

NoWork == [kind |-> "none"]

Init ==
  /\ db = EmptyStore(Existing, Parents)
  /\ phase = "open" /\ slots = {} /\ scanned = FALSE /\ work = NoWork
  /\ launched = {} /\ failures = 0

-----------------------------------------------------------------------------
(* Clients.  A key sent again is a retry; its command may differ. *)

Client(kind, after) ==
  /\ kind \in ClientKinds
  /\ db' = after /\ UNCHANGED <<host, launched, failures>>

Submit(k, s) == Client("message", SubmitMessage(db, k, s))

Create(k, s) == s \notin db.sessions /\ Client("creating_message", SubmitCreating(db, k, s))

Stop(k, s) == Client("session_stop", StopSession(db, k, s, "session_stop"))

Archive(k, s) == Client("session_archive", StopSession(db, k, s, "session_archive"))

Restore(k, s) == Client("session_restore", RestoreSession(db, k, s))

Interrupt(k, o) == Client("model_interruption", InterruptModel(db, k, o))

Decide(k, s, a, decision) == Client("permission_decision", DecidePermission(db, k, s, a, decision))

-----------------------------------------------------------------------------
(* The execution owner: one thread, so none of these runs while core work is *)
(* being run.                                                                *)

Idle == work = NoWork

Model(o, stage) == [kind |-> "model", id |-> o, ordinal |-> db.operations[o].ordinal, stage |-> stage]
Bash(a, stage)  == [kind |-> "bash", id |-> a, ordinal |-> 1, stage |-> stage]

\* Mutant of ActiveOperations: a slot counts once its request is launched.
RunningOperations == {slot.id : slot \in {x \in slots : x.kind = "model" /\ x.stage = "running"}}

\* activeOperationContains, activeActionContains.
ActiveOperations == {slot.id : slot \in {x \in slots : x.kind = "model"}}
ActiveActions    == {slot.id : slot \in {x \in slots : x.kind = "bash"}}

\* bashPreparationOpen, modelPreparationOpen, freeSlots and dispatchFenced.
MayAdmit(kind) ==
  /\ Idle /\ phase = "open" /\ Cardinality(slots) < Capacity
  /\ \A slot \in slots : slot.kind = kind => slot.stage # "preparing"

Occupy(slot) == slots' = slots \cup {slot} /\ UNCHANGED <<phase, scanned, work, launched, failures>>

Move(slot, stage) == slots' = (slots \ {slot}) \cup {[slot EXCEPT !.stage = stage]}

Free(slot) == slots' = slots \ {slot}

\* What a slot's owner leaves alone.
Rest == <<scanned, work, failures>>

\* nextCoreWork, then the command it names.  Other threads' commands may come
\* in between.
ReadCoreWork ==
  /\ Idle /\ phase = "open"
  /\ work' \in CoreWork(db)
  /\ UNCHANGED <<db, phase, slots, scanned, launched, failures>>

RunCore(after) ==
  /\ db' = after /\ work' = NoWork
  /\ UNCHANGED <<phase, slots, scanned, launched, failures>>

RunOwedStop ==
  /\ work.kind = "stop"
  /\ RunCore(StopOwedSession(db, work.child, work.position))

RunOwedEnding ==
  /\ work.kind = "ending"
  /\ RunCore(DeliverChildEnding(db, work.turn))

RunForward ==
  /\ work.kind = "forward"
  /\ RunCore(DeliverForward(db, work.forward))

\* Mutant of RunCall: only a stop of the Turn itself is looked at.
RunUnlessSelected(tool, after) ==
  /\ work.kind = "action"
  /\ db.actions[work.action].tool = tool
  /\ RunCore(IF CoreWaiting(db, work.action) /\ ~StopSelected(db, TurnOfAction(db, work.action))
             THEN after ELSE db)

\* A core call a stop resolved or a Session that owes one is left alone.
RunCall(tool, after) ==
  /\ work.kind = "action"
  /\ db.actions[work.action].tool = tool
  /\ RunCore(IF CoreWaiting(db, work.action) /\ ~CoreStopped(db, work.action) THEN after ELSE db)

RunMessageAgent(target) ==
  /\ RunCall("message_agent", DeliverAgentMessage(db, work.action, target))

RunStartAgent(child, attached) ==
  /\ RunCall("start_agent", StartAgent(db, work.action, child, attached))

RunReadTranscript ==
  \E code \in {"succeeded", "failed"} :
    RunCall("read_transcript", ResolveCore(db, work.action, code))

-----------------------------------------------------------------------------
(* Model Attempts *)

\* admitNewModel and admitToolContinuation.
AdmitNew ==
  /\ MayAdmit("model") /\ Len(db.operations) < MaxOperations
  /\ \E s \in MessageSelection(db) \cup ContinuationSelection(db) :
       \E purpose \in Purposes(db, s) :
         /\ db' = AdmitModel(db, s, purpose)
         /\ Occupy([kind |-> "model", id |-> Len(db.operations) + 1, ordinal |-> 1, stage |-> "preparing"])

AdmitRetryAttempt ==
  /\ MayAdmit("model")
  /\ \E o \in RetrySelection(db, ActiveOperations) :
       /\ db' = AdmitRetry(db, o)
       /\ Occupy([Model(o, "preparing") EXCEPT !.ordinal = @ + 1])

RecoverExhaustedRetry ==
  /\ Idle /\ phase = "open"
  /\ \E o \in ExhaustedSelection(db, ActiveOperations) : db' = RecoverExhausted(db, o)
  /\ UNCHANGED <<host, launched, failures>>

\* launchPreparedRequest: validated with the Store held, launched under
\* launch_mutex, so both facts hold at the launch.
LaunchRequest(slot) ==
  /\ Idle /\ slot \in slots /\ slot.kind = "model" /\ slot.stage = "preparing"
  /\ IF phase = "open" /\ AttemptStanding(db, slot.id, slot.ordinal) = "current"
     THEN Move(slot, "running") ELSE Free(slot)
  /\ UNCHANGED <<db, phase, launched>> /\ UNCHANGED Rest

\* Every way a model slot reports a result; one a control superseded saves nothing.
Report(slot, after) ==
  /\ db' = IF AttemptStanding(db, slot.id, slot.ordinal) = "current" THEN after ELSE db
  /\ Free(slot)
  /\ UNCHANGED <<phase, launched>> /\ UNCHANGED Rest

\* completeSuccessfulTransfer.
CompleteTransfer(slot) ==
  /\ Idle /\ slot \in slots /\ slot.kind = "model" /\ slot.stage = "running"
  /\ \E calls \in Proposals :
       /\ Len(db.actions) + Len(calls) <= MaxActions
       /\ calls = <<>> \/ db.operations[slot.id].purpose = "assistant"
       /\ Report(slot, SettleSuccess(db, slot.id, calls))

\* completeTransfer's failures, and those of preparation and authentication.
FailAttempt(slot) ==
  /\ Idle /\ slot \in slots /\ slot.kind = "model" /\ slot.stage \in {"preparing", "running"}
  /\ \E failure \in Failures \ {"refreshed"} :
       /\ slot.stage = "preparing" => failure = "ordinary"
       /\ Report(slot, SettleFailure(db, slot.id, failure))

\* beginForcedRefresh: a rejected credential claims the Operation's one refresh.
BeginForcedRefresh(slot) ==
  /\ Idle /\ slot \in slots /\ slot.kind = "model" /\ slot.stage = "running"
  /\ \/ /\ AttemptStanding(db, slot.id, slot.ordinal) = "current" /\ MayClaimRefresh(db, slot.id)
        /\ db' = ClaimAuthRefresh(db, slot.id) /\ Move(slot, "refreshing")
     \/ /\ AttemptStanding(db, slot.id, slot.ordinal) = "superseded"
        /\ UNCHANGED db /\ Free(slot)
  /\ UNCHANGED <<phase, launched>> /\ UNCHANGED Rest

\* advanceRefresh: a committed refresh grants the replacement at once.
AdvanceRefresh(slot) ==
  /\ Idle /\ slot \in slots /\ slot.kind = "model" /\ slot.stage = "refreshing"
  /\ \E failure \in {"refreshed", "ordinary"} : Report(slot, SettleFailure(db, slot.id, failure))

\* cancelSupersededTransfers.
CancelSuperseded(slot) ==
  /\ Idle /\ slot \in slots /\ slot.kind = "model"
  /\ AttemptStanding(db, slot.id, slot.ordinal) = "superseded"
  /\ Free(slot)
  /\ UNCHANGED <<db, phase, launched>> /\ UNCHANGED Rest

-----------------------------------------------------------------------------
(* Bash Attempts *)

\* recoverUncertainAction: until a scan finds none.
RecoverUncertainAction ==
  /\ Idle /\ phase = "open" /\ ~scanned
  /\ LET uncertain == UncertainSelection(db, ActiveActions)
     IN  \/ uncertain = {} /\ scanned' = TRUE /\ UNCHANGED db
         \/ \E a \in uncertain : db' = RecoverUncertain(db, a) /\ UNCHANGED scanned
  /\ UNCHANGED <<phase, slots, work, launched, failures>>

AdmitBash ==
  /\ MayAdmit("bash")
  /\ \E a \in BashSelection(db) :
       /\ db' = AdmitAction(db, a)
       /\ Occupy(Bash(a, "preparing"))

\* Mutant of LaunchBash: a launch a stop forestalled leaves its Attempt unsettled.
LaunchBashDrops(slot) ==
  /\ Idle /\ slot \in slots /\ slot.kind = "bash" /\ slot.stage = "preparing"
  /\ \/ /\ phase = "open" /\ ActionStanding(db, slot.id) = "current"
        /\ Move(slot, "running") /\ launched' = launched \cup {slot.id}
     \/ /\ phase # "open" \/ ActionStanding(db, slot.id) = "superseded"
        /\ Free(slot) /\ UNCHANGED launched
  /\ UNCHANGED <<db, phase>> /\ UNCHANGED Rest

\* launchPreparedBash: as for a request, but a launch a stop forestalled, a
\* refused spawn and a failed preparation each settle the Attempt; a
\* suppressed one is discarded unsettled.
LaunchBash(slot) ==
  /\ Idle /\ slot \in slots /\ slot.kind = "bash" /\ slot.stage = "preparing"
  /\ \/ /\ phase = "open" /\ ActionStanding(db, slot.id) = "current"
        /\ Move(slot, "running") /\ launched' = launched \cup {slot.id} /\ UNCHANGED db
     \/ /\ phase = "open" /\ ActionStanding(db, slot.id) = "superseded"
        /\ db' = SettleAction(db, slot.id, "cancelled") /\ Free(slot) /\ UNCHANGED launched
     \/ /\ phase = "open"
        /\ db' = SettleAction(db, slot.id, "spawn_failed") /\ Free(slot) /\ UNCHANGED launched
     \/ /\ phase # "open" /\ Free(slot) /\ UNCHANGED <<db, launched>>
  /\ UNCHANGED phase /\ UNCHANGED Rest

\* stopSupersededBash: a preparation is cancelled; a running process is
\* signalled and its exit is what settles it (CompleteBash).
StopPreparingBash(slot) ==
  /\ Idle /\ slot \in slots /\ slot.kind = "bash" /\ slot.stage = "preparing"
  /\ StopSelected(db, TurnOfAction(db, slot.id))
  /\ db' = SettleAction(db, slot.id, "cancelled")
  /\ Free(slot)
  /\ UNCHANGED <<phase, launched>> /\ UNCHANGED Rest

\* completeBash: settle, then close the delivery; the slot is kept until reclaimed.
CompleteBash(slot) ==
  /\ Idle /\ slot \in slots /\ slot.kind = "bash" /\ slot.stage = "running"
  /\ \E code \in {"succeeded", "failed"} : db' = SettleAction(db, slot.id, code)
  /\ Move(slot, "closed")
  /\ UNCHANGED <<phase, launched>> /\ UNCHANGED Rest

\* reclaimBash; a failure to reclaim fences the Host and is tried again.
ReclaimBash(slot) ==
  /\ Idle /\ slot \in slots /\ slot.kind = "bash" /\ slot.stage = "closed"
  /\ Free(slot)
  /\ UNCHANGED <<db, phase, launched>> /\ UNCHANGED Rest

-----------------------------------------------------------------------------
(* The Host fails, stops and starts *)

\* retainDispatchFence: nothing new is admitted or launched, what runs goes on.
RetainFence ==
  /\ failures < MaxFailures /\ phase = "open" /\ Idle
  /\ phase' = "fenced" /\ failures' = failures + 1
  /\ UNCHANGED <<db, slots, scanned, work, launched>>

\* fenceDispatch by a failed Store call of a slot's owner (failBash,
\* settleFailure, completeSuccessfulTransfer), whose slot is dropped with its
\* Attempt unsettled; or by core work that failed.
FenceDispatch ==
  /\ failures < MaxFailures /\ phase # "stopping"
  /\ phase' = "stopping" /\ failures' = failures + 1 /\ work' = NoWork
  /\ \/ Idle /\ \E slot \in slots : slots' = slots \ {slot}
     \/ UNCHANGED slots
  /\ UNCHANGED <<db, scanned, launched>>

\* shutdownExecution: unlaunched work and transfers are dropped and nothing is
\* saved for them; a running Bash is shut down, and its exit settles it.
ShutdownSlot(slot) ==
  /\ phase = "stopping" /\ slot \in slots
  /\ slot.kind = "model" \/ slot.stage \in {"preparing", "closed"}
  /\ Free(slot)
  /\ UNCHANGED <<db, phase, launched>> /\ UNCHANGED Rest

\* host_stop: what core work is running finishes, and nothing more is admitted.
HostStop ==
  /\ failures < MaxFailures /\ phase = "open"
  /\ phase' = "stopping" /\ failures' = failures + 1
  /\ UNCHANGED <<db, slots, scanned, work, launched>>

\* A Host that fenced itself is drained and stopped.
ShutDown ==
  /\ phase = "fenced" /\ phase' = "stopping"
  /\ UNCHANGED <<db, slots, scanned, work, launched, failures>>

Restart ==
  /\ phase' = "open" /\ slots' = {} /\ scanned' = FALSE /\ work' = NoWork
  /\ UNCHANGED <<db, launched>>

\* The next Host opens the Store the last one left when it had shut down.
StartHost == Idle /\ phase = "stopping" /\ slots = {} /\ Restart /\ UNCHANGED failures

Crash == failures < MaxFailures /\ failures' = failures + 1 /\ Restart

-----------------------------------------------------------------------------

ClientStep ==
  \E k \in Keys :
    \/ \E s \in Sessions : Submit(k, s) \/ Create(k, s) \/ Stop(k, s) \/ Archive(k, s) \/ Restore(k, s)
    \/ \E o \in Operations(db) : Interrupt(k, o)
    \/ \E s \in db.sessions, a \in Actions(db), decision \in {"allow_once", "deny"} : Decide(k, s, a, decision)

RunCoreWork ==
  \/ RunOwedStop \/ RunOwedEnding \/ RunForward \/ RunReadTranscript
  \/ \E s \in Sessions : RunMessageAgent(s) \/ \E attached \in BOOLEAN : RunStartAgent(s, attached)

ModelStep(slot) ==
  \/ LaunchRequest(slot) \/ CompleteTransfer(slot) \/ FailAttempt(slot)
  \/ BeginForcedRefresh(slot) \/ AdvanceRefresh(slot) \/ CancelSuperseded(slot)

BashStep(slot) ==
  LaunchBash(slot) \/ StopPreparingBash(slot) \/ CompleteBash(slot) \/ ReclaimBash(slot)

Next ==
  \/ ClientStep
  \/ ReadCoreWork \/ RunCoreWork
  \/ AdmitNew \/ AdmitRetryAttempt \/ RecoverExhaustedRetry
  \/ RecoverUncertainAction \/ AdmitBash
  \/ \E slot \in slots : ModelStep(slot) \/ BashStep(slot) \/ ShutdownSlot(slot)
  \/ RetainFence \/ FenceDispatch \/ HostStop \/ ShutDown \/ StartHost \/ Crash

Spec == Init /\ [][Next]_vars

\* The execution loop visits every slot and every kind of admission in each pass
\* (execution_turn.run), a provider call ends by its inactivity limit, a Bash
\* process by its deadline or the stop, and a Host that went down is started
\* again.  Clients may never send anything.
FairSpec ==
  /\ Spec
  /\ WF_vars(ReadCoreWork) /\ WF_vars(RunCoreWork)
  /\ WF_vars(AdmitNew) /\ WF_vars(AdmitRetryAttempt) /\ WF_vars(AdmitBash)
  /\ WF_vars(RecoverExhaustedRetry) /\ WF_vars(RecoverUncertainAction)
  /\ \A o \in 1..MaxOperations :
       WF_vars(\E slot \in slots : slot.id = o /\ (ModelStep(slot) \/ ShutdownSlot(slot)))
  /\ \A a \in 1..MaxActions :
       WF_vars(\E slot \in slots : slot.id = a /\ (BashStep(slot) \/ ShutdownSlot(slot)))
  /\ WF_vars(ShutDown) /\ WF_vars(StartHost)

-----------------------------------------------------------------------------
(* Properties *)

\* Types and references of the rows: each one names a row that exists, an
\* Operation's Attempts stay within the allowance (schema.zig checks the same),
\* and the slots within the capacity.
TypeOK ==
  /\ db.sessions \subseteq Sessions
  /\ db.messages \in Seq([session : db.sessions, key : db.commands, turn : 0..Len(db.turns)])
  /\ db.turns \in Seq([session : db.sessions, operation : Operations(db),
                       outcome : {"open", "completed", "cancelled", "failed", "resource_exceeded", "retry_exhausted"},
                       continuation : 0..Len(db.operations), first : Messages(db)])
  /\ db.operations \in Seq([turn : Turns(db), purpose : {"assistant", "compaction"},
                            ordinal : 1..MaxAttempts, waiting : BOOLEAN, claimed : BOOLEAN,
                            resolution : {"none", "answer", "tool_proposals", "compacted", "interrupted",
                                          "context_overflow", "failed", "retry_exhausted"}])
  /\ db.actions \in Seq([operation : Operations(db), tool : Tools, authorized : BOOLEAN, attempted : BOOLEAN,
                         resolution : {"none", "cancelled", "denied", "succeeded", "failed",
                                       "spawn_failed", "indeterminate"}])
  /\ phase \in {"open", "fenced", "stopping"} /\ Cardinality(slots) <= Capacity
  /\ scanned \in BOOLEAN /\ launched \subseteq Actions(db)

\* turn.zig and the settlements' turn_open guards: a Session has one open Turn,
\* and nothing is left running or waiting behind a Turn that closed or moved on
\* to another Operation, whichever of a stop, an interruption, a settlement or a
\* recovery ended it.
NothingLeftBehind ==
  /\ \A s \in Sessions : Cardinality(OpenTurns(db, s)) <= 1
  /\ \A o \in Operations(db) : Unresolved(db.operations[o]) =>
       IsOpen(db, TurnOfOperation(db, o)) /\ db.turns[TurnOfOperation(db, o)].operation = o
  /\ \A a \in Actions(db) : Unresolved(db.actions[a]) =>
       /\ IsOpen(db, TurnOfAction(db, a))
       /\ db.turns[TurnOfAction(db, a)].operation = db.actions[a].operation

\* disagreeing_continuation: the stored column selection trusts agrees with the
\* predicate it stands for after every writer, or the Store is corrupt.
StoredContinuationAgrees ==
  \A t \in Turns(db) : IsOpen(db, t) =>
    (db.turns[t].continuation = db.turns[t].operation
       <=> ContinuesWithoutInput(db, db.turns[t].operation))

\* Every open Turn has something that moves it on: a running Operation, an Action
\* in flight or still to be decided or run, a stored continuation, or input it can
\* take. A stopped one waits only for an Action in flight.
NoStuckTurn ==
  \A t \in Turns(db) : IsOpen(db, t) =>
    LET o       == db.turns[t].operation
        waiting == {a \in ActionsOf(db, o) : Unresolved(db.actions[a])}
        flying  == {a \in waiting : db.actions[a].attempted}
    IN  IF StopSelected(db, t) THEN flying # {}
        ELSE \/ Unresolved(db.operations[o]) \/ waiting # {}
             \/ db.turns[t].continuation = o
             \/ ContinuesWithInput(db, o) /\ QueuedIn(db, SessionOfTurn(db, t)) # {}

\* attemptStanding and validateActionDispatch answer a stale binding by fencing
\* the Host: no slot ever holds one. A binding is current or superseded by a
\* control, and no Attempt has two slots or waits for its retry in one.
NoStaleSlot ==
  /\ \A slot \in slots : slot.kind = "model" =>
       LET standing == AttemptStanding(db, slot.id, slot.ordinal)
       IN  standing # "stale" /\ (standing = "current" => ~db.operations[slot.id].waiting)
  /\ \A slot \in slots : slot.kind = "bash" /\ slot.stage # "closed" =>
       ActionStanding(db, slot.id) # "stale"
  /\ \A x, y \in slots : x.kind = y.kind /\ x.id = y.id => x = y

\* moveSlot's assertion and uncertain_action_scan_exhausted: once an open Host's
\* scan found nothing, every unresolved Attempt of an Action is in a slot, so
\* stopping the scan strands none.
UncertainOnlyFromEarlierHost ==
  phase = "open" /\ scanned =>
    \A a \in Actions(db) : db.actions[a].attempted /\ Unresolved(db.actions[a]) =>
      \E slot \in slots : slot.kind = "bash" /\ slot.id = a /\ slot.stage # "closed"

\* launchPreparedBash and recoverOneUncertainAction: across crashes, fences and
\* recoveries a command's process is started at most once, and never for a Turn
\* that a stop had selected or that had closed.
BashRunsOnce ==
  [][\A slot \in slots' \ slots : slot.kind = "bash" /\ slot.stage = "running" =>
       /\ slot.id \notin launched
       /\ IsOpen(db, TurnOfAction(db, slot.id)) /\ ~StopSelected(db, TurnOfAction(db, slot.id))]_vars

\* What is settled stays so: no late result, retry, recovery or crash changes a
\* Resolution, reopens a Turn, moves a Message to another Turn or unsettles a
\* delivered ending.
SettledIsFinal ==
  [][/\ \A o \in Operations(db) : ~Unresolved(db.operations[o]) =>
          db'.operations[o].resolution = db.operations[o].resolution
     /\ \A a \in Actions(db) : ~Unresolved(db.actions[a]) =>
          db'.actions[a].resolution = db.actions[a].resolution
     /\ \A t \in Turns(db) : ~IsOpen(db, t) => db'.turns[t] = db.turns[t]
     /\ \A m \in Messages(db) : db.messages[m].turn # 0 => db'.messages[m] = db.messages[m]
     /\ \A e \in db.endings : e.delivered => e \in db'.endings]_vars

\* stopRounds: a stop is not undone. No later Turn takes a Message the stop
\* excluded, and the Turn it selected starts no Operation and takes nothing.
StopIsFinal ==
  [][/\ \A m \in Messages(db) : db.messages[m].turn = 0 /\ ~Queued(db, m) =>
          db'.messages[m].turn = 0
     /\ \A t \in Turns(db) : StopSelected(db, t) =>
          /\ db'.turns[t].operation = db.turns[t].operation
          /\ \A m \in Messages(db) : db'.messages[m].turn = t => db.messages[m].turn = t]_vars

\* Retried commands, repeated deliveries and a stop that overtakes the core: one
\* key admits one Message, and an agent's call delivered its Message exactly when
\* its result says so.
DeliveredOnce ==
  /\ \A m, n \in Messages(db) : db.messages[m].key = db.messages[n].key => m = n
  /\ \A a \in Actions(db) : db.actions[a].tool \in {"message_agent", "start_agent"} =>
       (db.actions[a].resolution = "succeeded"
          <=> \E m \in Messages(db) : db.messages[m].key = CallKey(a))

\* deliverChildEnding: a parent hears of no ending its own stop caused.
ParentNotToldOfItsStop ==
  \A m \in Messages(db), t \in Turns(db) : db.messages[m].key = EndingKey(t) =>
    \A stop \in db.stops : stop.turn = t => ~stop.parentCaused

\* owe_ending and archiveSession: an ending that closed before or after its parent
\* was archived is not told while the parent is archived, and not once a Message
\* or a restore brings the parent back.
ArchivedParentHearsNothing ==
  \A e \in db.endings :
    /\ Archived(db, db.parent[SessionOfTurn(db, e.turn)]) /\ ~e.delivered => e.suppressed
    /\ e.suppressed => \A m \in Messages(db) : db.messages[m].key # EndingKey(e.turn)

\* archive_state_sql: until the Turn an archive stopped has closed, its Session
\* takes no Message and cannot be restored; afterwards a Message restores it.
ArchivingAdmitsNothing ==
  [][\A s \in db.sessions :
       LET grew == \E m \in Messages(db') \ Messages(db) : db'.messages[m].session = s
       IN  /\ Archiving(db, s) => ~grew /\ db'.archive[s] # NoKey
           /\ grew => ~Archived(db', s)]_vars

\* nextCoreWork and core_facts: between reading a core call and running it a stop
\* may be accepted; a call of a stopped Turn, or of a child that owes a stop, is
\* only ever cancelled.
OwedStopBlocksCore ==
  [][\A a \in Actions(db) :
       IsCore(db.actions[a].tool) /\ Unresolved(db.actions[a]) /\ CoreStopped(db, a) =>
         db'.actions[a].resolution \in {"none", "cancelled"}]_vars

\* forward.deliver and its callers: a fact that climbs the tree is never dropped
\* between two hops. What asks for a decision, what was delivered as an ending and
\* what reached one ancestor has its row for the next one, exactly one.
NoHopIsLost ==
  LET rows(s, kind, source) == {f \in DOMAIN db.forwards : /\ db.forwards[f].target = s
                                  /\ db.forwards[f].kind = kind /\ db.forwards[f].source = source}
      owedTo(s, kind, source) == db.parent[s] = NoSession \/ Cardinality(rows(db.parent[s], kind, source)) = 1
  IN  /\ \A a \in Actions(db) : ~db.actions[a].authorized => owedTo(SessionOfAction(db, a), "approval", a)
      /\ \A e \in db.endings : e.delivered => owedTo(SessionOfTurn(db, e.turn), "ending", e.turn)
      /\ \A f \in Range(db.forwards) : f.delivered => owedTo(f.target, f.kind, f.source)

InProgress(t) == t \in Turns(db) /\ IsOpen(db, t)

\* stopRounds and queueStopCompletion: a Turn a stop selected closes, whatever
\* its Actions and the Host do.
StopCompletes ==
  \A t \in 1..MaxOperations : InProgress(t) /\ StopSelected(db, t) ~> ~InProgress(t)

\* nextCoreWork and stopOwedSession: an open Turn of a child that owes a stop
\* closes.
OwedStopEndsTurn ==
  \A t \in 1..MaxOperations : InProgress(t) /\ OwesStop(db, SessionOfTurn(db, t)) ~> ~InProgress(t)

\* admitNextModelAttempt: a queued Message is taken by a Turn or excluded by a
\* stop, unless its Turn waits for a permission decision (or the bound on
\* Operations is reached).
MessageIsTaken ==
  LET waits(m) == m \in Messages(db) /\ Queued(db, m)
  IN  \A m \in 1..Cardinality(Keys) :
        waits(m) ~> \/ ~waits(m) \/ Len(db.operations) = MaxOperations
                    \/ \E a \in Actions(db) : Unresolved(db.actions[a]) /\ ~db.actions[a].authorized

\* deliverChildEnding: every owed ending is settled, told or not.
EndingIsSettled ==
  \A t \in 1..MaxOperations :
    (\E e \in db.endings : e.turn = t /\ ~e.delivered)
      ~> (\A e \in db.endings : e.turn = t => e.delivered)

\* The Sessions above s, by the parents the Store has.
Ancestors(s) ==
  {t \in Sessions \ {s} : \A S \in SUBSET Sessions :
     s \in S /\ (\A u \in S : db.parent[u] \in S \cup {NoSession}) => t \in S}

\* forward.deliver: a child's request for a decision reaches the feed of every
\* ancestor, hop by hop, even when the Host restarts between two hops.
EveryAncestorIsAsked ==
  \A a \in 1..MaxActions, s \in Sessions :
    (a \in Actions(db) /\ ~db.actions[a].authorized /\ s \in Ancestors(SessionOfAction(db, a)))
      ~> (\E f \in Range(db.forwards) : /\ f.target = s /\ f.kind = "approval" /\ f.source = a
                                        /\ f.delivered)

\* ARCHITECTURE.md: "Every attached child Turn ending owes its parent an ordinary
\* Message from the child".
EveryChildEndingIsOwed ==
  \A t \in Turns(db) : ~IsOpen(db, t) /\ db.parent[SessionOfTurn(db, t)] # NoSession =>
    \E e \in db.endings : e.turn = t
=============================================================================
