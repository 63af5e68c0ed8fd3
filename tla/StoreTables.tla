---------------------------- MODULE StoreTables ----------------------------
(***************************************************************************)
(* The Store's rows that decide what an agent does next, and the rules     *)
(* every writer of them shares (store/domain/turn.zig, the continuation    *)
(* predicates of model_admission.zig and turn_policy.zig).                 *)
(*                                                                         *)
(* A database d is a record of tables.  An entry point runs alone, in one  *)
(* transaction, so it is an operator from the database it reads to the     *)
(* database it commits; an identity is the index of a row.  Content,       *)
(* positions, revisions and times are left out.                            *)
(***************************************************************************)
EXTENDS Naturals, Sequences, FiniteSets, SequencesExt

CONSTANTS Sessions,     \* Session references that can exist
          NoSession,    \* no parent
          Keys,         \* idempotency keys clients send
          MaxAttempts   \* retry_policy.maximum_attempts (4)

ASSUME SessionsAssumption == NoSession \notin Sessions
ASSUME AttemptsAssumption == MaxAttempts \in Nat \ {0}

\* Command keys: a client's, or one under the reserved prefix rui.core/.
ClientKey(k)     == <<"client", k>>
EndingKey(t)     == <<"ending", t>>       \* rui.core/ending/<turn>
CallKey(a)       == <<"call", a>>         \* rui.core/message_agent/, start_agent/<action>
OwedStopKey(s, n) == <<"stop", s, n>>     \* rui.core/stop/<child>/<cause>/<position>
NoKey            == <<"none">>

Tools == {"bash", "message_agent", "start_agent", "read_transcript"}
IsCore(tool) == tool # "bash"

\* The rows at the start: some Sessions exist, idle, with their parents.
EmptyStore(existing, parents) ==
  [sessions   |-> existing,
   parent     |-> parents,
   messages   |-> <<>>,   \* message_admission: session, key, turn (0: not taken)
   turns      |-> <<>>,   \* turn: session, operation, outcome, continuation, first
   operations |-> <<>>,   \* model_operation: turn, purpose, ordinal, waiting, claimed, resolution
   actions    |-> <<>>,   \* action_operation: operation, tool, authorized, attempted, resolution
   commands   |-> {},     \* core_command: the keys that have a saved answer
   stops      |-> {},     \* session_stop: key, session, turn, cutoff, parentCaused
   archive    |-> [s \in Sessions |-> NoKey],   \* session_archive.command_key
   owed       |-> {},     \* session_stop_owed not settled: child, position
   causes     |-> 0,      \* positions that have owed a stop
   endings    |-> {},     \* session_ending_owed: turn, suppressed, delivered
   forwards   |-> <<>>]   \* session_forward: target, kind, source, delivered

-----------------------------------------------------------------------------
(* Reading the tables *)

Turns(d)      == DOMAIN d.turns
Operations(d) == DOMAIN d.operations
Actions(d)    == DOMAIN d.actions
Messages(d)   == DOMAIN d.messages

IsOpen(d, t) == d.turns[t].outcome = "open"
OpenTurns(d, s) == {t \in Turns(d) : d.turns[t].session = s /\ IsOpen(d, t)}

SessionOfTurn(d, t)   == d.turns[t].session
TurnOfOperation(d, o) == d.operations[o].turn
TurnOfAction(d, a)    == TurnOfOperation(d, d.actions[a].operation)
SessionOfAction(d, a) == SessionOfTurn(d, TurnOfAction(d, a))

Unresolved(row) == row.resolution = "none"
ActionsOf(d, o) == {a \in Actions(d) : d.actions[a].operation = o}

\* A Session stop selected the Turn.
StopSelected(d, t) == \E stop \in d.stops : stop.turn = t

OwesStop(d, s) == \E row \in d.owed : row.child = s

\* queued_input_sql: no Turn has taken the Message and no stop excludes it.
\* applicable_pending and pending_messages ask the same of the latest cutoff.
Queued(d, m) ==
  /\ d.messages[m].turn = 0
  /\ \A stop \in d.stops : stop.session = d.messages[m].session => m > stop.cutoff

QueuedIn(d, s) == {m \in Messages(d) : d.messages[m].session = s /\ Queued(d, m)}

\* complete_tool_results_sql: every proposed call was rejected, so made no
\* Action, or its Action is resolved.
CompleteToolResults(d, o) ==
  /\ d.operations[o].resolution = "tool_proposals"
  /\ \A a \in ActionsOf(d, o) : ~Unresolved(d.actions[a])

\* turn_policy.continues_with_input and continues_without_input.
ContinuesWithInput(d, o) ==
  \/ d.operations[o].resolution \in {"answer", "compacted", "interrupted", "context_overflow"}
  \/ CompleteToolResults(d, o)

ContinuesWithoutInput(d, o) ==
  \/ d.operations[o].resolution \in {"answer", "compacted", "context_overflow"}
  \/ CompleteToolResults(d, o)

\* archive_state_sql.
Archiving(d, s) ==
  \E stop \in d.stops : /\ stop.key = d.archive[s] /\ stop.turn # 0
                        /\ IsOpen(d, stop.turn)
Archived(d, s) == d.archive[s] # NoKey

-----------------------------------------------------------------------------
(* Writes several entry points share *)

SaveCommand(d, key) == [d EXCEPT !.commands = @ \cup {key}]

AdmitMessage(d, s, key) ==
  [d EXCEPT !.messages = Append(@, [session |-> s, key |-> key, turn |-> 0])]

\* record_continuation: every writer that can let an open Turn go on without
\* input stores that it can.
RecordContinuation(d, t) ==
  IF IsOpen(d, t) /\ ContinuesWithoutInput(d, d.turns[t].operation)
  THEN [d EXCEPT !.turns[t].continuation = d.turns[t].operation]
  ELSE d

\* forward.queue: the parent of Session s, if it has one, is owed a row of its
\* Activity feed for the fact, once.
QueueForward(d, s, kind, source) ==
  IF /\ d.parent[s] # NoSession
     /\ ~\E f \in Range(d.forwards) : f.target = d.parent[s] /\ f.kind = kind /\ f.source = source
  THEN [d EXCEPT !.forwards = Append(@, [target |-> d.parent[s], kind |-> kind, source |-> source,
                                         delivered |-> FALSE])]
  ELSE d

\* Mutant of OweEnding: the parent's archive is not looked at.
OweEndingUnsuppressed(d, t) ==
  LET s == SessionOfTurn(d, t)
  IN  IF d.parent[s] # NoSession /\ ~OwesStop(d, s)
      THEN [d EXCEPT !.endings = @ \cup {[turn |-> t, suppressed |-> FALSE, delivered |-> FALSE]}]
      ELSE d

\* owe_ending: a child's ending is owed to its parent, unless the child owes a
\* stop; an archived parent hears nothing of it.
OweEnding(d, t) ==
  LET s == SessionOfTurn(d, t)
  IN  IF d.parent[s] # NoSession /\ ~OwesStop(d, s)
      THEN [d EXCEPT !.endings = @ \cup
             {[turn |-> t, suppressed |-> Archived(d, d.parent[s]), delivered |-> FALSE]}]
      ELSE d

\* queueClose.
CloseTurn(d, t, outcome) == OweEnding([d EXCEPT !.turns[t].outcome = outcome], t)

\* queueOwedStops: each attached child that does not owe a stop owes one now.
OweChildStops(d, s) ==
  LET children == {c \in d.sessions : d.parent[c] = s /\ ~OwesStop(d, c)}
  IN  [d EXCEPT !.owed = @ \cup {[child |-> c, position |-> d.causes + 1] : c \in children},
                !.causes = IF children = {} THEN @ ELSE @ + 1]

\* stopped_turn and queueStopCompletion: resolving Action a was all the stopped
\* Turn t waited for.
CompleteStop(d, t, a) ==
  IF /\ IsOpen(d, t) /\ StopSelected(d, t)
     /\ \A b \in ActionsOf(d, d.turns[t].operation) \ {a} : ~Unresolved(d.actions[b])
  THEN CloseTurn(d, t, "cancelled")
  ELSE d

ResolveOperation(d, o, resolution) ==
  [d EXCEPT !.operations[o].resolution = resolution, !.operations[o].waiting = FALSE]

ResolveAction(d, a, resolution) == [d EXCEPT !.actions[a].resolution = resolution]
=============================================================================
