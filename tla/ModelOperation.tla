--------------------------- MODULE ModelOperation ---------------------------
(***************************************************************************)
(* Admission and settlement of model Attempts                              *)
(* (store/domain/model_admission.zig, model_settlement.zig and the policy  *)
(* they apply, turn_policy.zig and retry_policy.zig).                      *)
(***************************************************************************)
EXTENDS Command

CONSTANTS AutoCompaction   \* whether the Sessions have a compaction trigger

ASSUME CompactionAssumption == AutoCompaction \in BOOLEAN

-----------------------------------------------------------------------------
(* Admission *)

\* Mutant of Runnable: an open Turn takes no input.
RunnableIfIdle(d, m) == Queued(d, m) /\ OpenTurns(d, d.messages[m].session) = {}

\* runnable_eligibility_sql: queued, and the Session's open Turn, if any, takes it.
Runnable(d, m) ==
  /\ Queued(d, m)
  /\ \A t \in OpenTurns(d, d.messages[m].session) : ContinuesWithInput(d, d.turns[t].operation)

\* runnable_selection: the Session of the oldest Message that can run.
MessageSelection(d) ==
  LET runnable == {m \in Messages(d) : Runnable(d, m)}
  IN  IF runnable = {} THEN {} ELSE {d.messages[Min(runnable)].session}

\* tool_continuation_selection: trusts the stored column, and leaves a Session
\* with queued input to the Message selection.
ContinuationSelection(d) ==
  LET ready == {t \in Turns(d) : /\ IsOpen(d, t)
                                 /\ d.turns[t].continuation = d.turns[t].operation
                                 /\ QueuedIn(d, SessionOfTurn(d, t)) = {}}
  IN  {SessionOfTurn(d, t) : t \in {u \in ready : \A v \in ready :
                                      d.turns[u].operation <= d.turns[v].operation}}

\* The first admission of the Session's next model call.
FirstAdmission(d, s) ==
  IF QueuedIn(d, s) # {} THEN Min(QueuedIn(d, s))
  ELSE d.turns[Min(OpenTurns(d, s))].first

\* forcedPurpose, nextPurpose: what the call may be for.  Where the estimated
\* context pressure decides, it may go either way.
Purposes(d, s) ==
  LET turns    == {t \in Turns(d) : SessionOfTurn(d, t) = s}
      previous == d.turns[Max(turns)]
      last     == d.operations[previous.operation]
      active   == previous.outcome = "open"
  IN  CASE turns = {} -> {"assistant"}
        [] turns # {} /\ active /\ last.resolution = "context_overflow" -> {"compaction"}
        [] /\ turns # {} /\ ~(active /\ last.resolution = "context_overflow")
           /\ last.purpose = "compaction"
           /\ active \/ previous.first = FirstAdmission(d, s) -> {"assistant"}
        [] OTHER -> IF AutoCompaction THEN {"assistant", "compaction"} ELSE {"assistant"}

\* Mutant of AdmitModel: the stops' cutoffs are not applied to what it takes.
AdmitEveryMessage(d, s, purpose) ==
  LET o     == Len(d.operations) + 1
      open  == OpenTurns(d, s)
      t     == IF open = {} THEN Len(d.turns) + 1 ELSE Min(open)
      turns == IF open = {}
               THEN Append(d.turns, [session |-> s, operation |-> o, outcome |-> "open",
                                     continuation |-> 0, first |-> FirstAdmission(d, s)])
               ELSE [d.turns EXCEPT ![t].operation = o]
  IN  [d EXCEPT !.turns = turns,
                !.messages = [m \in Messages(d) |-> IF @[m].session = s /\ @[m].turn = 0
                                                    THEN [@[m] EXCEPT !.turn = t] ELSE @[m]],
                !.operations = Append(@, [turn |-> t, purpose |-> purpose, ordinal |-> 1,
                                          waiting |-> FALSE, claimed |-> FALSE, resolution |-> "none"])]

\* admitNextModelAttempt: starts a Turn or continues the open one.  A
\* compaction takes no Message.
AdmitModel(d, s, purpose) ==
  LET o     == Len(d.operations) + 1
      open  == OpenTurns(d, s)
      t     == IF open = {} THEN Len(d.turns) + 1 ELSE Min(open)
      taken == IF purpose = "compaction" THEN {} ELSE QueuedIn(d, s)
      turns == IF open = {}
               THEN Append(d.turns, [session |-> s, operation |-> o, outcome |-> "open",
                                     continuation |-> 0, first |-> FirstAdmission(d, s)])
               ELSE [d.turns EXCEPT ![t].operation = o]
  IN  [d EXCEPT !.turns = turns,
                !.messages = [m \in Messages(d) |-> IF m \in taken THEN [@[m] EXCEPT !.turn = t] ELSE @[m]],
                !.operations = Append(@, [turn |-> t, purpose |-> purpose, ordinal |-> 1,
                                          waiting |-> FALSE, claimed |-> FALSE, resolution |-> "none"])]

\* Mutant of RetrySelection: the allowance is not looked at.
RetryForever(d, active) == {o \in Operations(d) \ active : Unresolved(d.operations[o])}

\* due_retries without the ones execution slots hold: a waiting retry may or
\* may not be due; an Attempt an earlier Host lost is due at once.
RetrySelection(d, active) ==
  LET candidates == {o \in Operations(d) \ active :
                       Unresolved(d.operations[o]) /\ d.operations[o].ordinal < MaxAttempts}
  IN  {o \in candidates : \A p \in candidates : p < o => d.operations[p].waiting}

\* tryAdmitNextModelRetry.
AdmitRetry(d, o) ==
  [d EXCEPT !.operations[o].ordinal = @ + 1, !.operations[o].waiting = FALSE]

-----------------------------------------------------------------------------
(* Settlement *)

\* Mutant of AttemptStanding: a Resolution does not end the binding.
StandingByOrdinal(d, o, ordinal) == IF d.operations[o].ordinal = ordinal THEN "current" ELSE "stale"

\* attemptStanding: what a binding still names.
AttemptStanding(d, o, ordinal) ==
  CASE d.operations[o].ordinal # ordinal -> "stale"
    [] d.operations[o].ordinal = ordinal /\ Unresolved(d.operations[o]) -> "current"
    [] d.operations[o].ordinal = ordinal /\ d.operations[o].resolution = "interrupted" -> "superseded"
    [] OTHER -> "stale"

\* claimModelAuthRefresh: an Operation's one forced credential refresh.
MayClaimRefresh(d, o) ==
  ~d.operations[o].waiting /\ ~d.operations[o].claimed /\ d.operations[o].ordinal < MaxAttempts

ClaimAuthRefresh(d, o) == [d EXCEPT !.operations[o].claimed = TRUE]

\* importCall: a rejected call makes no Action; a core tool needs no decision;
\* a request for one is forwarded to the parent.
ImportCall(d, o, call) ==
  LET authorized == IsCore(call.tool) \/ call.verdict = "allow"
      imported   == [d EXCEPT !.actions = Append(@, [operation |-> o, tool |-> call.tool,
                       authorized |-> authorized, attempted |-> FALSE, resolution |-> "none"])]
  IN  CASE call.verdict = "rejected" -> d
        [] call.verdict # "rejected" /\ authorized -> imported
        [] OTHER -> QueueForward(imported, SessionOfTurn(d, TurnOfOperation(d, o)), "approval", Len(imported.actions))

\* writeCalls: the calls of one answer, in order.
ImportCalls(d, o, calls) ==
  LET after[n \in 0..Len(calls)] == IF n = 0 THEN d ELSE ImportCall(after[n - 1], o, calls[n])
  IN  after[Len(calls)]

\* settleModelSuccess: outputFact, completesTurn.
SettleSuccess(d, o, calls) ==
  LET t      == TurnOfOperation(d, o)
      output == CASE d.operations[o].purpose = "compaction" -> "compacted"
                  [] d.operations[o].purpose = "assistant" /\ calls # <<>> -> "tool_proposals"
                  [] OTHER -> "answer"
      settled == ResolveOperation(ImportCalls(d, o, calls), o, output)
  IN  IF output = "answer" /\ QueuedIn(d, SessionOfTurn(d, t)) = {}
      THEN CloseTurn(settled, t, "completed")
      ELSE RecordContinuation(settled, t)

\* The Turn of a failed Operation closes; one whose context is full also owes
\* its children a stop.
FailTurn(d, o, resolution, outcome, full) ==
  LET t      == TurnOfOperation(d, o)
      closed == CloseTurn(ResolveOperation(d, o, resolution), t, outcome)
  IN  IF full THEN OweChildStops(closed, SessionOfTurn(d, t)) ELSE closed

WaitForRetry(d, o) == [d EXCEPT !.operations[o].waiting = TRUE]

Failures == {"ordinary", "overflow", "overflow_recovers", "refreshed", "retryable"}

\* settleModelAttemptFailure: by the class of the failure; overflow_recovers is
\* an overflow that a compaction, or a deeper history floor, can still mend.
SettleFailure(d, o, failure) ==
  CASE failure = "ordinary" -> FailTurn(d, o, "failed", "failed", FALSE)
    [] failure = "overflow" -> FailTurn(d, o, "context_overflow", "resource_exceeded", TRUE)
    [] failure = "overflow_recovers" ->
         RecordContinuation(ResolveOperation(d, o, "context_overflow"), TurnOfOperation(d, o))
    [] failure = "refreshed" -> WaitForRetry(d, o)
    [] failure = "retryable" /\ d.operations[o].ordinal < MaxAttempts -> WaitForRetry(d, o)
    [] failure = "retryable" /\ d.operations[o].ordinal >= MaxAttempts ->
         FailTurn(d, o, "retry_exhausted", "retry_exhausted", FALSE)

\* recoverOneExhaustedModelAttempt: a last Attempt no slot holds.
ExhaustedSelection(d, active) ==
  LET lost == {o \in Operations(d) \ active :
                 /\ Unresolved(d.operations[o]) /\ ~d.operations[o].waiting
                 /\ d.operations[o].ordinal = MaxAttempts}
  IN  {o \in lost : \A p \in lost : o <= p}

RecoverExhausted(d, o) == FailTurn(d, o, "retry_exhausted", "retry_exhausted", FALSE)
=============================================================================
