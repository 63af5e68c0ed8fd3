------------------------------ MODULE Command ------------------------------
(***************************************************************************)
(* The commands a client sends and the ones the core runs for agents       *)
(* (store/domain/command.zig).  Each operator is one entry point: the      *)
(* database it commits, which is d itself when it answers from a saved     *)
(* command, a conflict or a stale binding and writes nothing.              *)
(***************************************************************************)
EXTENDS StoreTables

\* classify: a key that was saved before replays its answer or conflicts, and
\* in both cases nothing is written.
Fresh(d, key) == key \notin d.commands

ClearArchive(d, s) == [d EXCEPT !.archive[s] = NoKey]

\* Mutants of SubmitMessage: a retry is admitted again; a Session that is still
\* archiving takes the Message.
SubmitAgain(d, k, s) ==
  IF s \notin d.sessions \/ Archiving(d, s) THEN SaveCommand(d, ClientKey(k))
  ELSE AdmitMessage(SaveCommand(ClearArchive(d, s), ClientKey(k)), s, ClientKey(k))

SubmitWhileArchiving(d, k, s) ==
  IF ~Fresh(d, ClientKey(k)) THEN d
  ELSE IF s \notin d.sessions THEN SaveCommand(d, ClientKey(k))
  ELSE AdmitMessage(SaveCommand(ClearArchive(d, s), ClientKey(k)), s, ClientKey(k))

\* submitTo: a Message to an existing Session; one to an archived Session
\* restores it.
SubmitMessage(d, k, s) ==
  LET key == ClientKey(k)
  IN  IF ~Fresh(d, key) THEN d
      ELSE IF s \notin d.sessions \/ Archiving(d, s)
           THEN SaveCommand(d, key)
           ELSE AdmitMessage(SaveCommand(ClearArchive(d, s), key), s, key)

\* submitCreating: a Message that creates its Session.
SubmitCreating(d, k, s) ==
  LET key == ClientKey(k)
  IN  IF ~Fresh(d, key) THEN d
      ELSE AdmitMessage(SaveCommand([d EXCEPT !.sessions = @ \cup {s}, !.parent[s] = NoSession], key), s, key)

-----------------------------------------------------------------------------
(* Stops *)

\* cancelActions: the open Turn's Actions never attempted.
CancelActions(d, o) ==
  [d EXCEPT !.actions = [a \in Actions(d) |->
     IF @[a].operation = o /\ Unresolved(@[a]) /\ ~@[a].attempted
     THEN [@[a] EXCEPT !.resolution = "cancelled"] ELSE @[a]]]

\* Mutant of StopTurn: the Turn closes over an Attempt in flight.
StopTurnAtOnce(d, t) ==
  LET o == d.turns[t].operation
      interrupted == IF Unresolved(d.operations[o]) THEN ResolveOperation(d, o, "interrupted") ELSE d
  IN  CloseTurn(CancelActions(interrupted, o), t, "cancelled")

\* The open Turn a stop selects: its running Operation is interrupted, its
\* waiting Actions cancelled, and it closes unless an Attempt is in flight.
StopTurn(d, t) ==
  LET o == d.turns[t].operation
      interrupted == IF Unresolved(d.operations[o]) THEN ResolveOperation(d, o, "interrupted") ELSE d
      cancelled   == CancelActions(interrupted, o)
      inFlight    == \E a \in ActionsOf(d, o) : Unresolved(d.actions[a]) /\ d.actions[a].attempted
  IN  IF inFlight THEN cancelled ELSE CloseTurn(cancelled, t, "cancelled")

\* archiveSession: the stop's key archives the Session, and what its children
\* still owe it will not be told.
ArchiveUnder(d, s, key) ==
  [d EXCEPT !.archive[s] = key,
            !.endings = {IF d.parent[SessionOfTurn(d, e.turn)] = s /\ ~e.delivered
                         THEN [e EXCEPT !.suppressed = TRUE] ELSE e : e \in @}]

\* stopRounds, accepted.
StopRounds(d, s, key, kind) ==
  LET open     == OpenTurns(d, s)
      selected == Max(open \cup {0})
      mine     == {m \in Messages(d) : d.messages[m].session = s}
      cutoff   == Max(mine \cup {0})
      stop     == [key |-> key, session |-> s, turn |-> selected, cutoff |-> cutoff,
                   parentCaused |-> OwesStop(d, s)]
      saved    == [SaveCommand(d, key) EXCEPT !.stops = @ \cup {stop}]
      archived == IF kind = "session_archive" THEN ArchiveUnder(saved, s, key) ELSE saved
      settled  == [archived EXCEPT !.owed = {row \in @ : row.child # s}]
      owing    == OweChildStops(settled, s)
  IN  IF selected = 0 THEN owing ELSE StopTurn(owing, selected)

\* stopSession and archiveSession (kind "session_archive").
StopSession(d, k, s, kind) ==
  LET key == ClientKey(k)
  IN  IF ~Fresh(d, key) THEN d
      ELSE IF s \notin d.sessions THEN SaveCommand(d, key)
      ELSE StopRounds(d, s, key, kind)

\* stopOwedSession: runs only while the obligation it was read for stands.
StopOwedSession(d, s, position) ==
  IF [child |-> s, position |-> position] \in d.owed /\ Fresh(d, OwedStopKey(s, position))
  THEN StopRounds(d, s, OwedStopKey(s, position), "session_stop")
  ELSE d

\* restoreSession.
RestoreSession(d, k, s) ==
  LET key      == ClientKey(k)
      accepted == s \in d.sessions /\ ~Archiving(d, s)
      saved    == SaveCommand(d, key)
  IN  IF ~Fresh(d, key) THEN d
      ELSE IF accepted THEN ClearArchive(saved, s) ELSE saved

-----------------------------------------------------------------------------
(* Interruptions and permission decisions *)

\* interruptModel: without input to take, the interrupted Turn ends.
InterruptModel(d, k, o) ==
  LET key      == ClientKey(k)
      t        == TurnOfOperation(d, o)
      accepted == /\ o \in Operations(d) /\ Unresolved(d.operations[o])
                  /\ IsOpen(d, t) /\ d.turns[t].operation = o
      saved    == SaveCommand(d, key)
      stopped  == ResolveOperation(saved, o, "interrupted")
  IN  IF ~Fresh(d, key) THEN d
      ELSE IF ~accepted THEN saved
      ELSE IF QueuedIn(d, SessionOfTurn(d, t)) # {} THEN stopped
      ELSE CloseTurn(stopped, t, "cancelled")

\* decision_action: Session s may decide the Action, its own or one whose
\* request reached its feed.
Forwarded(d, s, a) ==
  \/ s = SessionOfAction(d, a)
  \/ \E f \in Range(d.forwards) : /\ f.target = s /\ f.kind = "approval" /\ f.source = a
                                  /\ f.delivered

\* Mutant of DecidePermission: a denial does not store the continuation.
DecideWithoutContinuation(d, k, s, a, decision) ==
  LET accepted == /\ Forwarded(d, s, a) /\ ~d.actions[a].authorized /\ Unresolved(d.actions[a])
                  /\ IsOpen(d, TurnOfAction(d, a))
      saved == SaveCommand(d, ClientKey(k))
  IN  IF ~Fresh(d, ClientKey(k)) THEN d
      ELSE IF ~accepted THEN saved
      ELSE IF decision = "allow_once" THEN [saved EXCEPT !.actions[a].authorized = TRUE]
      ELSE ResolveAction(saved, a, "denied")

\* decidePermission.
DecidePermission(d, k, s, a, decision) ==
  LET key      == ClientKey(k)
      accepted == /\ Forwarded(d, s, a) /\ ~d.actions[a].authorized /\ Unresolved(d.actions[a])
                  /\ IsOpen(d, TurnOfAction(d, a))
      saved    == SaveCommand(d, key)
  IN  IF ~Fresh(d, key) THEN d
      ELSE IF ~accepted THEN saved
      ELSE IF decision = "allow_once" THEN [saved EXCEPT !.actions[a].authorized = TRUE]
      ELSE RecordContinuation(ResolveAction(saved, a, "denied"), TurnOfAction(d, a))

-----------------------------------------------------------------------------
(* What the core runs for agents *)

\* Mutant of Quiet: the cause of the stop is not looked at.
QuietIfSuppressed(d, e) == e.suppressed

\* ending_stop_sql: an ending the parent already knows of, or will not be told.
Quiet(d, e) ==
  e.suppressed \/ \E stop \in d.stops : stop.turn = e.turn /\ stop.parentCaused

\* Mutant of DeliverChildEnding: a quiet ending's row is left as it is.
DeliverLeavesQuiet(d, t) ==
  LET owed == {e \in d.endings : e.turn = t /\ ~e.delivered}
      to   == d.parent[SessionOfTurn(d, t)]
  IN  IF owed = {} \/ (\E e \in owed : Quiet(d, e)) \/ Archived(d, to) THEN d
      ELSE AdmitMessage(SaveCommand(
             [d EXCEPT !.endings = (@ \ owed) \cup {[e EXCEPT !.delivered = TRUE] : e \in owed}],
             EndingKey(t)), to, EndingKey(t))

\* Mutant of DeliverChildEnding: a quiet ending starts no feed row.
DeliverQuietUnseen(d, t) ==
  LET owed   == {e \in d.endings : e.turn = t /\ ~e.delivered}
      to     == d.parent[SessionOfTurn(d, t)]
      marked == [d EXCEPT !.endings = (@ \ owed) \cup {[e EXCEPT !.delivered = TRUE] : e \in owed}]
  IN  CASE owed = {} -> d
        [] \E e \in owed : Quiet(d, e) -> marked
        [] OTHER -> LET told == QueueForward(marked, SessionOfTurn(d, t), "ending", t)
                    IN  IF Archived(d, to) THEN told
                        ELSE AdmitMessage(SaveCommand(told, EndingKey(t)), to, EndingKey(t))

\* deliverChildEnding: settles the owed row, starts its feed row and, unless quiet or the parent is
\* archived, admits the Message; a row already delivered writes nothing.
DeliverChildEnding(d, t) ==
  LET owed == {e \in d.endings : e.turn = t /\ ~e.delivered}
  IN  IF owed = {} THEN d
      ELSE LET e       == CHOOSE e \in owed : TRUE
               to      == d.parent[SessionOfTurn(d, t)]
               marked  == [d EXCEPT !.endings = (@ \ {e}) \cup {[e EXCEPT !.delivered = TRUE]}]
               settled == QueueForward(marked, SessionOfTurn(d, t), "ending", t)
           IN  IF Quiet(d, e) \/ Archived(d, to) THEN settled
               ELSE AdmitMessage(SaveCommand(settled, EndingKey(t)), to, EndingKey(t))

\* Mutant of DeliverForward: the next hop is not queued.
DeliverOneHop(d, f) == [d EXCEPT !.forwards[f].delivered = TRUE]

\* forward.deliver: the row joins the target's feed and the target's parent is
\* owed the next one; a row already delivered writes nothing.
DeliverForward(d, f) ==
  LET row == d.forwards[f]
  IN  IF row.delivered THEN d
      ELSE QueueForward([d EXCEPT !.forwards[f].delivered = TRUE], row.target, row.kind, row.source)

\* core_facts: the call still waits to run.
CoreWaiting(d, a) ==
  /\ IsCore(d.actions[a].tool) /\ d.actions[a].authorized
  /\ ~d.actions[a].attempted /\ Unresolved(d.actions[a])

\* core_facts.stopped: a stop selected its Turn, or its Session owes one.
CoreStopped(d, a) ==
  StopSelected(d, TurnOfAction(d, a)) \/ OwesStop(d, SessionOfAction(d, a))

\* Mutant of ResolveCore: the continuation is not stored.
ResolveCoreOnly(d, a, resolution) == ResolveAction(d, a, resolution)

\* queueCoreResolution.
ResolveCore(d, a, resolution) ==
  RecordContinuation(ResolveAction(d, a, resolution), TurnOfAction(d, a))

\* deliverAgentMessage: the Message and the call's result in one transaction.
DeliverAgentMessage(d, a, target) ==
  LET delivers == target \in d.sessions /\ ~Archiving(d, target) /\ Fresh(d, CallKey(a))
  IN  IF delivers
      THEN ResolveCore(AdmitMessage(SaveCommand(ClearArchive(d, target), CallKey(a)),
                                    target, CallKey(a)), a, "succeeded")
      ELSE ResolveCore(d, a, "failed")

\* startAgent: the Session, its first Message and the call's result together; a
\* refused spec creates nothing.
StartAgent(d, a, child, attached) ==
  IF child \in Sessions \ d.sessions /\ Fresh(d, CallKey(a))
  THEN LET created == [d EXCEPT !.sessions = @ \cup {child},
                                !.parent[child] = IF attached THEN SessionOfAction(d, a) ELSE NoSession]
       IN  ResolveCore(AdmitMessage(SaveCommand(created, CallKey(a)),
                                    child, CallKey(a)), a, "succeeded")
  ELSE ResolveCore(d, a, "failed")
=============================================================================
