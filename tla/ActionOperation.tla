--------------------------- MODULE ActionOperation --------------------------
(***************************************************************************)
(* Attempts of tool calls that run outside the Store, and what the core    *)
(* runs itself (store/domain/action.zig).  Bash stands for them.           *)
(***************************************************************************)
EXTENDS ModelOperation

\* Mutant of ReadyActions: an Attempt of unknown outcome is tried again.
ReadyOrAttempted(d) ==
  {a \in Actions(d) : /\ d.actions[a].authorized /\ Unresolved(d.actions[a])
                      /\ IsOpen(d, TurnOfAction(d, a)) /\ ~StopSelected(d, TurnOfAction(d, a))}

\* next_action_attempt and next_core_action: authorized, never attempted, of an
\* open Turn no stop selected; the oldest first.
ReadyActions(d) ==
  {a \in Actions(d) : /\ d.actions[a].authorized /\ Unresolved(d.actions[a])
                      /\ ~d.actions[a].attempted
                      /\ IsOpen(d, TurnOfAction(d, a)) /\ ~StopSelected(d, TurnOfAction(d, a))}

Oldest(S) == {a \in S : \A b \in S : a <= b}

BashSelection(d) == Oldest({a \in ReadyActions(d) : ~IsCore(d.actions[a].tool)})
CoreSelection(d) == Oldest({a \in ReadyActions(d) : IsCore(d.actions[a].tool)})

\* admitNextActionAttempt.
AdmitAction(d, a) == [d EXCEPT !.actions[a].attempted = TRUE]

\* validateActionDispatch: the Attempt still stands, and no stop selected its Turn.
ActionStanding(d, a) ==
  CASE ~d.actions[a].attempted \/ ~Unresolved(d.actions[a]) -> "stale"
    [] d.actions[a].attempted /\ Unresolved(d.actions[a])
         /\ StopSelected(d, TurnOfAction(d, a)) -> "superseded"
    [] OTHER -> "current"

\* Mutant of SettleAction: the stop is not completed.
SettleWithoutCompletion(d, a, code) ==
  LET t == TurnOfAction(d, a)
  IN  RecordContinuation(ResolveAction(d, a, IF StopSelected(d, t) THEN "cancelled" ELSE code), t)

\* settleActionAttempt: a stop that selected the Turn cancels whatever the
\* Action did, and its last Action closes it.
SettleAction(d, a, code) ==
  LET t       == TurnOfAction(d, a)
      stopped == StopSelected(d, t)
      settled == ResolveAction(d, a, IF stopped THEN "cancelled" ELSE code)
  IN  RecordContinuation(CompleteStop(settled, t, a), t)

\* recoverOneUncertainAction: an Attempt an earlier Host left, never run again.
UncertainSelection(d, active) ==
  Oldest({a \in Actions(d) \ active : Unresolved(d.actions[a]) /\ d.actions[a].attempted})

\* Mutant of RecoverUncertain: the stop is not completed.
RecoverWithoutCompletion(d, a) ==
  RecordContinuation(ResolveAction(d, a, "indeterminate"), TurnOfAction(d, a))

RecoverUncertain(d, a) ==
  LET t == TurnOfAction(d, a)
  IN  RecordContinuation(CompleteStop(ResolveAction(d, a, "indeterminate"), t, a), t)

-----------------------------------------------------------------------------
\* nextCoreWork: a stop a child owes, then an ending a parent is owed, then one
\* hop of a feed row, then the oldest core call.
CoreWork(d) ==
  IF d.owed # {} THEN {[kind |-> "stop", child |-> row.child, position |-> row.position] : row \in d.owed}
  ELSE LET open == {e.turn : e \in {e \in d.endings : ~e.delivered}}
           hops == {f \in DOMAIN d.forwards : ~d.forwards[f].delivered}
       IN  IF open # {} THEN {[kind |-> "ending", turn |-> Min(open)]}
           ELSE IF hops # {} THEN {[kind |-> "forward", forward |-> Min(hops)]}
           ELSE {[kind |-> "action", action |-> a] : a \in CoreSelection(d)}
=============================================================================
