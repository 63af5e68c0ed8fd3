-------------------------- MODULE StoreEntryProofs --------------------------
(***************************************************************************)
(* What each entry point of the Store keeps: it commits well-formed        *)
(* tables in which the rules of Turns hold, and leaves what was settled    *)
(* before as it was.  The writes of StoreTablesProofs are composed here,   *)
(* transaction by transaction.                                             *)
(***************************************************************************)
EXTENDS StoreTablesProofs

-----------------------------------------------------------------------------
(* admitNextModelAttempt *)

\* The tables after admitNextModelAttempt.
LEMMA AdmitModelTables ==
  ASSUME NEW d, Tables(d), TurnRules(d), NEW s, MayGoOn(d, s),
         NEW purpose \in {"assistant", "compaction"}
  PROVE  Tables(AdmitModel(d, s, purpose)) /\ Grown(d, AdmitModel(d, s, purpose))
<1> DEFINE r == AdmitModel(d, s, purpose)
           t == NextTurn(d, s)
           o == Len(d.operations) + 1
<1>0. ModelRows(d, r, s, purpose)
  BY AdmitModelRows
<1> HIDE DEF r
<1>1. /\ Only(d, r, {"turns", "messages", "operations"})
      /\ IsSeq(r.turns) /\ Turns(r) = Turns(d) \cup {t} /\ t \in 1..Len(r.turns)
      /\ Len(d.turns) <= Len(r.turns)
      /\ \A u \in Turns(d) \ {t} : r.turns[u] = d.turns[u]
      /\ r.turns[t] \in [session : {s}, operation : {o}, outcome : {"open"},
                         continuation : 0..Len(d.operations), first : 1..Len(d.messages)]
      /\ IsSeq(r.messages) /\ Messages(r) = Messages(d) /\ Len(r.messages) = Len(d.messages)
      /\ \A m \in Messages(d) : \/ r.messages[m] = d.messages[m]
                                \/ r.messages[m] = [d.messages[m] EXCEPT !.turn = t]
      /\ IsSeq(r.operations) /\ Len(r.operations) = o /\ Operations(r) = Operations(d) \cup {o}
      /\ \A p \in Operations(d) : r.operations[p] = d.operations[p]
      /\ r.operations[o] = [turn |-> t, purpose |-> purpose, ordinal |-> 1, waiting |-> FALSE,
                            claimed |-> FALSE, resolution |-> "none"]
  BY <1>0 DEF ModelRows
<1> HIDE DEF r, t
<1>2. r.sessions = d.sessions /\ r.commands = d.commands
  BY <1>1, OnlyFields DEF Tables
<1>3. /\ Len(d.turns) \in Nat /\ Len(d.operations) \in Nat /\ Len(d.messages) \in Nat
      /\ Turns(d) = 1..Len(d.turns) /\ Operations(d) = 1..Len(d.operations)
      /\ Messages(d) = 1..Len(d.messages)
  BY References
<1>4. Grown(d, r)
  BY <1>1, <1>2, <1>3 DEF Grown, IsSeq
<1>5. /\ MessageRow(d) \subseteq MessageRow(r) /\ TurnRow(d) \subseteq TurnRow(r)
      /\ OperationRow(d) \subseteq OperationRow(r)
  BY <1>4, RowsGrow
<1>6. TurnRows(r)
  <2>1. r.turns[t] \in TurnRow(r)
    <3>1. o \in 1..Len(r.operations) /\ 0..Len(d.operations) \subseteq 0..Len(r.operations)
      BY <1>1, <1>3
    <3>2. s \in r.sessions /\ "open" \in Outcomes /\ Len(r.messages) = Len(d.messages)
      BY <1>1, <1>2 DEF MayGoOn, Outcomes
    <3> HIDE DEF o
    <3> QED BY <1>1, <3>1, <3>2 DEF TurnRow
  <2>2. \A u \in Turns(d) : d.turns[u] \in TurnRow(d)
    BY Columns
  <2> QED BY <1>1, <1>5, <2>1, <2>2 DEF TurnRows, Turns
<1>7. MessageRows(r)
  <2>1. \A m \in Messages(d) : d.messages[m] \in MessageRow(d)
    BY Columns
  <2>2. \A m \in Messages(d) : d.messages[m] \in MessageRow(r)
    BY <1>5, <2>1
  <2>3. t \in 0..Len(r.turns)
    BY <1>1
  <2>4. \A m \in Messages(d) : r.messages[m] = d.messages[m] \/ r.messages[m] = [d.messages[m] EXCEPT !.turn = t]
    BY <1>1
  <2>5. \A m \in Messages(d) : [d.messages[m] EXCEPT !.turn = t] \in MessageRow(r)
    BY <2>2, <2>3 DEF MessageRow
  <2>6. \A m \in Messages(d) : r.messages[m] \in MessageRow(r)
    BY <2>2, <2>4, <2>5
  <2> QED BY <1>1, <2>6 DEF MessageRows, Messages
<1>8. OperationRows(r)
  <2>1. r.operations[o] \in OperationRow(r)
    <3>1. 1 \in 1..MaxAttempts
      BY AttemptsAssumption
    <3> HIDE DEF o
    <3> QED BY <1>1, <3>1 DEF OperationRow, OperationResolutions
  <2>2. \A p \in Operations(d) : d.operations[p] \in OperationRow(d)
    BY Columns
  <2> QED BY <1>1, <1>5, <2>1, <2>2 DEF OperationRows, Operations
<1>9. EndingRows(r)
  <2>1. \A e \in d.endings : e \in EndingRow(d) /\ e.turn \in Turns(d)
    BY <1>3 DEF Tables, EndingRows, EndingRow
  <2>2. r.endings = d.endings /\ r.parent = d.parent
    BY <1>1, OnlyFields DEF Tables
  <2>3. t \in Turns(d) => d.turns[t].session = s
    BY <1>0 DEF ModelRows, t
  <2>4. \A u \in Turns(d) : r.turns[u].session = d.turns[u].session
    BY <1>1, <2>3
  <2>5. \A e \in d.endings : e \in EndingRow(r)
    BY <2>1, <1>4, RowsGrow
  <2> QED BY <2>1, <2>2, <2>4, <2>5 DEF Tables, EndingRows
<1>10. Tables(r)
  BY <1>1, <1>4, <1>6, <1>7, <1>8, <1>9, TablesKept
<1> QED BY <1>4, <1>10 DEF r

\* admitNextModelAttempt starts a Turn of a Session that has none, or gives the
\* open one its next Operation; the rules hold for it and for the others.
LEMMA AdmitModelTurns ==
  ASSUME NEW d, Tables(d), TurnRules(d), NEW s, MayGoOn(d, s),
         NEW purpose \in {"assistant", "compaction"}
  PROVE  TurnRules(AdmitModel(d, s, purpose))
<1> DEFINE r == AdmitModel(d, s, purpose)
           t == NextTurn(d, s)
           o == Len(d.operations) + 1
<1>0. ModelRows(d, r, s, purpose)
  BY AdmitModelRows
<1> HIDE DEF r
<1>1. /\ Only(d, r, {"turns", "messages", "operations"})
      /\ t \in Turns(d) => IsOpen(d, t) /\ d.turns[t].session = s
      /\ t \notin Turns(d) => t = Len(d.turns) + 1 /\ OpenTurns(d, s) = {}
      /\ Turns(r) = Turns(d) \cup {t}
      /\ \A u \in Turns(d) \ {t} : r.turns[u] = d.turns[u]
      /\ r.turns[t] \in [session : {s}, operation : {o}, outcome : {"open"},
                         continuation : 0..Len(d.operations), first : 1..Len(d.messages)]
      /\ Messages(r) = Messages(d)
      /\ \A m \in Messages(d) : \/ r.messages[m] = d.messages[m]
                                \/ m \in QueuedIn(d, s)
      /\ Operations(r) = Operations(d) \cup {o}
      /\ \A p \in Operations(d) : r.operations[p] = d.operations[p]
      /\ r.operations[o] = [turn |-> t, purpose |-> purpose, ordinal |-> 1, waiting |-> FALSE,
                            claimed |-> FALSE, resolution |-> "none"]
  BY <1>0 DEF ModelRows
<1> HIDE DEF r, t
<1>2. r.actions = d.actions /\ r.stops = d.stops
  BY <1>1, OnlyFields DEF Tables
<1>3. /\ Len(d.operations) \in Nat /\ Operations(d) = 1..Len(d.operations)
      /\ Len(d.turns) \in Nat /\ Turns(d) = 1..Len(d.turns)
      /\ \A u \in Turns(d) : d.turns[u].operation \in Operations(d)
      /\ \A p \in Operations(d) : d.operations[p].turn \in Turns(d)
      /\ \A a \in Actions(d) : d.actions[a].operation \in Operations(d) /\ TurnOfAction(d, a) \in Turns(d)
  BY References
<1>4. o \notin Operations(d)
  BY <1>3
<1>5. /\ r.turns[t].operation = o /\ r.turns[t].outcome = "open" /\ r.turns[t].session = s
      /\ r.turns[t].continuation # o
      /\ r.operations[o].turn = t /\ r.operations[o].resolution = "none"
  <2>1. r.turns[t].continuation \in 0..Len(d.operations)
    BY <1>1
  <2> QED BY <1>1, <1>3, <2>1
<1> HIDE DEF o
<1>6. /\ OperationIsOwn(d) /\ OneOpenTurn(d) /\ OperationIsCurrent(d) /\ ActionIsCurrent(d)
      /\ ActionWasProposed(d) /\ ToolRules(d)
  BY DEF TurnRules, Behind
<1>7. \A u \in Turns(d) : IsOpen(d, u) /\ d.turns[u].session = s => u = t
  BY <1>1, <1>6 DEF OneOpenTurn, OpenTurns
<1>8. t \in Turns(d) => /\ ~Unresolved(d.operations[d.turns[t].operation])
                        /\ \A a \in ActionsOf(d, d.turns[t].operation) : ~Unresolved(d.actions[a])
                        /\ ~StopSelected(d, t)
  BY <1>1 DEF MayGoOn, OpenTurns
<1>9. OperationIsOwn(r)
  <2>1. r.operations[r.turns[t].operation].turn = t
    BY <1>5
  <2>2. ASSUME NEW u \in Turns(d) \ {t} PROVE r.operations[r.turns[u].operation].turn = u
    <3>1. r.turns[u] = d.turns[u] /\ d.turns[u].operation \in Operations(d)
      BY <1>1, <1>3
    <3>2. r.operations[d.turns[u].operation] = d.operations[d.turns[u].operation]
      BY <3>1, <1>1
    <3> QED BY <3>1, <3>2, <1>6 DEF OperationIsOwn
  <2> QED BY <1>1, <2>1, <2>2 DEF OperationIsOwn
<1>10. OneOpenTurn(r)
  BY <1>1, <1>5, <1>6, <1>7 DEF OneOpenTurn, IsOpen
<1>11. OperationIsCurrent(r)
  <2> SUFFICES ASSUME NEW p \in Operations(r), Unresolved(r.operations[p])
               PROVE  IsOpen(r, r.operations[p].turn) /\ r.turns[r.operations[p].turn].operation = p
    BY DEF OperationIsCurrent
  <2>1. CASE p = o
    BY <2>1, <1>5 DEF IsOpen
  <2>2. CASE p # o
    <3>1. p \in Operations(d) /\ r.operations[p] = d.operations[p]
      BY <2>2, <1>1
    <3>2. IsOpen(d, d.operations[p].turn) /\ d.turns[d.operations[p].turn].operation = p
      BY <3>1, <1>6 DEF OperationIsCurrent
    <3>3. d.operations[p].turn \in Turns(d) \ {t}
      BY <3>1, <3>2, <1>3, <1>8
    <3> QED BY <3>1, <3>2, <3>3, <1>1 DEF IsOpen
  <2> QED BY <2>1, <2>2
<1>12. \A a \in Actions(d) : a \in Actions(r) /\ TurnOfAction(r, a) = TurnOfAction(d, a)
  BY <1>1, <1>2, <1>3 DEF Actions, TurnOfAction, TurnOfOperation
<1>13. Actions(r) = Actions(d)
  BY <1>2 DEF Actions
<1>14. ActionIsCurrent(r)
  <2> SUFFICES ASSUME NEW a \in Actions(d), Unresolved(d.actions[a])
               PROVE  /\ IsOpen(r, TurnOfAction(d, a))
                      /\ r.turns[TurnOfAction(d, a)].operation = d.actions[a].operation
    BY <1>2, <1>12, <1>13 DEF ActionIsCurrent
  <2>1. /\ IsOpen(d, TurnOfAction(d, a))
        /\ d.turns[TurnOfAction(d, a)].operation = d.actions[a].operation
    BY <1>6 DEF ActionIsCurrent
  <2>2. TurnOfAction(d, a) \in Turns(d) \ {t}
    BY <2>1, <1>3, <1>8 DEF ActionsOf
  <2> QED BY <2>1, <2>2, <1>1 DEF IsOpen
<1>15. ActionWasProposed(r) /\ ToolRules(r)
  BY <1>1, <1>2, <1>3, <1>6, <1>13 DEF ActionWasProposed, ToolRules
<1>16. \A p : ActionsOf(r, p) = ActionsOf(d, p)
  BY <1>2 DEF ActionsOf, Actions
<1>17. \A u : StopSelected(r, u) <=> StopSelected(d, u)
  BY <1>2 DEF StopSelected
<1>18. ~StopSelected(r, t)
  <2>1. CASE t \in Turns(d)
    BY <2>1, <1>8, <1>17
  <2>2. CASE t \notin Turns(d)
    <3>1. t = Len(d.turns) + 1
      BY <2>2, <1>1
    <3>2. \A stop \in d.stops : stop.turn \in 0..Len(d.turns)
      BY DEF Tables, StopRows, StopRow
    <3>3. ~StopSelected(d, t)
      BY <3>1, <3>2, <1>3 DEF StopSelected
    <3> QED BY <3>3, <1>17
  <2> QED BY <2>1, <2>2
<1>19. TurnRule(r, t)
  <2>1. ~ContinuesWithoutInput(r, o)
    BY <1>5 DEF ContinuesWithoutInput, CompleteToolResults
  <2>2. Agrees(r, t)
    BY <2>1, <1>5 DEF Agrees
  <2>3. StoppedWaits(r, t)
    BY <1>18 DEF StoppedWaits
  <2>4. GoesOn(r, t)
    BY <1>5 DEF GoesOn
  <2> QED BY <2>2, <2>3, <2>4 DEF TurnRule
<1>20. \A u \in Turns(d) \ {t} : TurnRule(r, u)
  <2> SUFFICES ASSUME NEW u \in Turns(d) \ {t} PROVE TurnRule(r, u)
    OBVIOUS
  <2>1. r.turns[u] = d.turns[u]
    BY <1>1
  <2>2. CASE ~IsOpen(d, u)
    BY <2>1, <2>2 DEF IsOpen, TurnRule, Agrees, StoppedWaits, GoesOn
  <2>3. CASE IsOpen(d, u)
    <3>1. d.turns[u].session # s
      BY <2>3, <1>7
    <3>2. \A m \in Messages(d) : d.messages[m].session = d.turns[u].session => r.messages[m] = d.messages[m]
      BY <3>1, <1>1 DEF QueuedIn
    <3>3. QueuedIn(d, d.turns[u].session) \subseteq QueuedIn(r, d.turns[u].session)
      BY <3>2, <1>1, <1>2 DEF QueuedIn, Queued
    <3>4. TurnRule(d, u) /\ d.turns[u].operation \in Operations(d)
      BY <1>3 DEF TurnRules
    <3>5. r.operations[d.turns[u].operation].resolution = d.operations[d.turns[u].operation].resolution
      BY <3>4, <1>1
    <3>6. QueuedIn(d, d.turns[u].session) # {} => QueuedIn(r, d.turns[u].session) # {}
      BY <3>3
    <3>7. u \in Turns(r) /\ (StopSelected(r, u) <=> StopSelected(d, u))
      BY <1>1, <1>17
    <3> QED BY <2>1, <3>4, <3>5, <3>6, <3>7, <1>2, <1>16, RuleKept
  <2> QED BY <2>2, <2>3
<1>21. TurnRules(r)
  BY <1>1, <1>9, <1>10, <1>11, <1>14, <1>15, <1>19, <1>20 DEF TurnRules, Behind
<1> QED BY <1>21 DEF r

-----------------------------------------------------------------------------
(* What a transaction leaves as it was *)

SessionsKept(d, r) ==
  d.sessions \subseteq r.sessions /\ \A s \in d.sessions : r.parent[s] = d.parent[s]

\* A Turn stays its Session's, and a closed one as it is.
TurnsKept(d, r) ==
  /\ Turns(d) \subseteq Turns(r)
  /\ \A t \in Turns(d) : /\ r.turns[t].session = d.turns[t].session
                         /\ ~IsOpen(d, t) => r.turns[t] = d.turns[t]

\* A Resolution stays; an Operation that is not one of O may only be interrupted.
OperationsKept(d, r, O) ==
  /\ Operations(d) \subseteq Operations(r)
  /\ \A o \in Operations(d) :
       /\ r.operations[o].turn = d.operations[o].turn
       /\ r.operations[o].purpose = d.operations[o].purpose
       /\ ~Unresolved(d.operations[o]) => r.operations[o].resolution = d.operations[o].resolution
  /\ \A o \in Operations(d) \ O :
       \/ r.operations[o] = d.operations[o]
       \/ /\ Unresolved(d.operations[o]) /\ r.operations[o].resolution = "interrupted"
          /\ r.operations[o].ordinal = d.operations[o].ordinal

\* The same of an Action; one that is not of A may only be cancelled before its
\* Attempt, and a new one was not attempted.
ActionsKept(d, r, A) ==
  /\ Actions(d) \subseteq Actions(r)
  /\ \A a \in Actions(d) :
       /\ r.actions[a].operation = d.actions[a].operation /\ r.actions[a].tool = d.actions[a].tool
       /\ d.actions[a].authorized => r.actions[a].authorized
       /\ d.actions[a].attempted => r.actions[a].attempted
       /\ ~Unresolved(d.actions[a]) => r.actions[a].resolution = d.actions[a].resolution
  /\ \A a \in Actions(d) \ A :
       \/ r.actions[a] = d.actions[a]
       \/ /\ Unresolved(d.actions[a]) /\ r.actions[a].resolution = "cancelled"
          /\ ~d.actions[a].attempted /\ ~r.actions[a].attempted
          /\ r.actions[a].authorized = d.actions[a].authorized
  /\ \A a \in Actions(r) \ Actions(d) :
       ~r.actions[a].attempted /\ r.actions[a].resolution \in {"none", "cancelled"}

\* A Message that a Turn has taken stays where it is.
MessagesKept(d, r) ==
  /\ Messages(d) \subseteq Messages(r)
  /\ \A m \in Messages(d) : /\ r.messages[m].session = d.messages[m].session
                            /\ r.messages[m].key = d.messages[m].key
                            /\ d.messages[m].turn # 0 => r.messages[m] = d.messages[m]

EndingsKept(d, r) == \A e \in d.endings : e.delivered => e \in r.endings

ForwardsKept(d, r) ==
  /\ DOMAIN d.forwards \subseteq DOMAIN r.forwards
  /\ \A f \in DOMAIN d.forwards : /\ r.forwards[f].target = d.forwards[f].target
                                  /\ r.forwards[f].kind = d.forwards[f].kind
                                  /\ r.forwards[f].source = d.forwards[f].source
                                  /\ d.forwards[f].delivered => r.forwards[f].delivered

\* r is a later database than d, reached by work on the Operations O and Actions A.
Advances(d, r, O, A) ==
  /\ SessionsKept(d, r) /\ TurnsKept(d, r) /\ OperationsKept(d, r, O) /\ ActionsKept(d, r, A)
  /\ MessagesKept(d, r) /\ EndingsKept(d, r) /\ ForwardsKept(d, r) /\ d.stops \subseteq r.stops

\* No Turn went on to another Operation or took a Message.
Seated(d, r) ==
  /\ \A t \in Turns(d) : r.turns[t].operation = d.turns[t].operation
  /\ \A m \in Messages(d) : r.messages[m] = d.messages[m]

\* A database is as late as itself.
LEMMA AdvancesSelf ==
  ASSUME NEW d, NEW O, NEW A
  PROVE  Advances(d, d, O, A) /\ Seated(d, d)
BY DEF Advances, Seated, SessionsKept, TurnsKept, OperationsKept, ActionsKept, MessagesKept,
   EndingsKept, ForwardsKept

\* Two writes of one transaction.
LEMMA AdvancesThen ==
  ASSUME NEW d, NEW q, NEW r, NEW O, NEW A, A \subseteq Actions(d),
         Advances(d, q, O, A), Seated(d, q), Advances(q, r, O, A), Seated(q, r)
  PROVE  Advances(d, r, O, A) /\ Seated(d, r)
<1>1. SessionsKept(d, r)
  BY DEF Advances, SessionsKept
<1>2. TurnsKept(d, r)
  <2> SUFFICES ASSUME NEW t \in Turns(d)
               PROVE  /\ t \in Turns(r) /\ r.turns[t].session = d.turns[t].session
                      /\ ~IsOpen(d, t) => r.turns[t] = d.turns[t]
    BY DEF TurnsKept
  <2>1. /\ t \in Turns(q) /\ q.turns[t].session = d.turns[t].session
        /\ ~IsOpen(d, t) => q.turns[t] = d.turns[t]
    BY DEF Advances, TurnsKept
  <2>2. /\ t \in Turns(r) /\ r.turns[t].session = q.turns[t].session
        /\ ~IsOpen(q, t) => r.turns[t] = q.turns[t]
    BY <2>1 DEF Advances, TurnsKept
  <2> QED BY <2>1, <2>2 DEF IsOpen
<1>3. OperationsKept(d, r, O)
  <2>1. ASSUME NEW o \in Operations(d)
        PROVE  /\ o \in Operations(r) /\ r.operations[o].turn = d.operations[o].turn
               /\ r.operations[o].purpose = d.operations[o].purpose
               /\ ~Unresolved(d.operations[o]) => r.operations[o].resolution = d.operations[o].resolution
    <3>1. /\ o \in Operations(q) /\ q.operations[o].turn = d.operations[o].turn
          /\ q.operations[o].purpose = d.operations[o].purpose
          /\ ~Unresolved(d.operations[o]) => q.operations[o].resolution = d.operations[o].resolution
      BY DEF Advances, OperationsKept
    <3>2. /\ o \in Operations(r) /\ r.operations[o].turn = q.operations[o].turn
          /\ r.operations[o].purpose = q.operations[o].purpose
          /\ ~Unresolved(q.operations[o]) => r.operations[o].resolution = q.operations[o].resolution
      BY <3>1 DEF Advances, OperationsKept
    <3> QED BY <3>1, <3>2 DEF Unresolved
  <2>2. ASSUME NEW o \in Operations(d) \ O
        PROVE  \/ r.operations[o] = d.operations[o]
               \/ /\ Unresolved(d.operations[o]) /\ r.operations[o].resolution = "interrupted"
                  /\ r.operations[o].ordinal = d.operations[o].ordinal
    <3>1. \/ q.operations[o] = d.operations[o]
          \/ /\ Unresolved(d.operations[o]) /\ q.operations[o].resolution = "interrupted"
             /\ q.operations[o].ordinal = d.operations[o].ordinal
      BY DEF Advances, OperationsKept
    <3>2. \/ r.operations[o] = q.operations[o]
          \/ /\ Unresolved(q.operations[o]) /\ r.operations[o].resolution = "interrupted"
             /\ r.operations[o].ordinal = q.operations[o].ordinal
      BY DEF Advances, OperationsKept
    <3> QED BY <3>1, <3>2
  <2> QED BY <2>1, <2>2 DEF OperationsKept
<1>4. ActionsKept(d, r, A)
  <2>1. ASSUME NEW a \in Actions(d)
        PROVE  /\ a \in Actions(r) /\ r.actions[a].operation = d.actions[a].operation
               /\ r.actions[a].tool = d.actions[a].tool
               /\ d.actions[a].authorized => r.actions[a].authorized
               /\ d.actions[a].attempted => r.actions[a].attempted
               /\ ~Unresolved(d.actions[a]) => r.actions[a].resolution = d.actions[a].resolution
    <3>1. /\ a \in Actions(q) /\ q.actions[a].operation = d.actions[a].operation
          /\ q.actions[a].tool = d.actions[a].tool
          /\ d.actions[a].authorized => q.actions[a].authorized
          /\ d.actions[a].attempted => q.actions[a].attempted
          /\ ~Unresolved(d.actions[a]) => q.actions[a].resolution = d.actions[a].resolution
      BY DEF Advances, ActionsKept
    <3>2. /\ a \in Actions(r) /\ r.actions[a].operation = q.actions[a].operation
          /\ r.actions[a].tool = q.actions[a].tool
          /\ q.actions[a].authorized => r.actions[a].authorized
          /\ q.actions[a].attempted => r.actions[a].attempted
          /\ ~Unresolved(q.actions[a]) => r.actions[a].resolution = q.actions[a].resolution
      BY <3>1 DEF Advances, ActionsKept
    <3> QED BY <3>1, <3>2 DEF Unresolved
  <2>2. ASSUME NEW a \in Actions(d) \ A
        PROVE  \/ r.actions[a] = d.actions[a]
               \/ /\ Unresolved(d.actions[a]) /\ r.actions[a].resolution = "cancelled"
                  /\ ~d.actions[a].attempted /\ ~r.actions[a].attempted
                  /\ r.actions[a].authorized = d.actions[a].authorized
    <3>1. /\ a \in Actions(q)
          /\ \/ q.actions[a] = d.actions[a]
             \/ /\ Unresolved(d.actions[a]) /\ q.actions[a].resolution = "cancelled"
                /\ ~d.actions[a].attempted /\ ~q.actions[a].attempted
                /\ q.actions[a].authorized = d.actions[a].authorized
      BY DEF Advances, ActionsKept
    <3>2. \/ r.actions[a] = q.actions[a]
          \/ /\ Unresolved(q.actions[a]) /\ r.actions[a].resolution = "cancelled"
             /\ ~q.actions[a].attempted /\ ~r.actions[a].attempted
             /\ r.actions[a].authorized = q.actions[a].authorized
      BY <3>1 DEF Advances, ActionsKept
    <3>3. CASE q.actions[a] = d.actions[a]
      BY <3>2, <3>3
    <3>4. CASE q.actions[a] # d.actions[a]
      <4>1. /\ Unresolved(d.actions[a]) /\ q.actions[a].resolution = "cancelled"
            /\ ~d.actions[a].attempted /\ ~q.actions[a].attempted
            /\ q.actions[a].authorized = d.actions[a].authorized
        BY <3>1, <3>4
      <4>2. ~Unresolved(q.actions[a])
        BY <4>1 DEF Unresolved
      <4>3. r.actions[a] = q.actions[a]
        BY <3>2, <4>2
      <4> QED BY <4>1, <4>3
    <3> QED BY <3>3, <3>4
  <2>3. ASSUME NEW a \in Actions(r) \ Actions(d)
        PROVE  ~r.actions[a].attempted /\ r.actions[a].resolution \in {"none", "cancelled"}
    <3>1. CASE a \in Actions(q)
      <4>1. ~q.actions[a].attempted /\ q.actions[a].resolution \in {"none", "cancelled"}
        BY <3>1 DEF Advances, ActionsKept
      <4>2. a \in Actions(q) \ A
        BY <3>1
      <4>3. \/ r.actions[a] = q.actions[a]
            \/ ~r.actions[a].attempted /\ r.actions[a].resolution = "cancelled"
        BY <4>2 DEF Advances, ActionsKept
      <4> QED BY <4>1, <4>3
    <3>2. CASE a \notin Actions(q)
      BY <3>2 DEF Advances, ActionsKept
    <3> QED BY <3>1, <3>2
  <2> QED BY <2>1, <2>2, <2>3 DEF ActionsKept
<1>5. MessagesKept(d, r)
  BY DEF Advances, MessagesKept, Seated
<1>6. EndingsKept(d, r)
  BY DEF Advances, EndingsKept
<1>7. ForwardsKept(d, r)
  BY DEF Advances, ForwardsKept
<1>8. d.stops \subseteq r.stops
  BY DEF Advances
<1>9. Seated(d, r)
  BY DEF Seated, Advances, TurnsKept, MessagesKept
<1> QED BY <1>1, <1>2, <1>3, <1>4, <1>5, <1>6, <1>7, <1>8, <1>9 DEF Advances


\* A table that is not written is kept.
LEMMA AdvancesTables ==
  ASSUME NEW d, NEW r, NEW S, NEW O, NEW A, Tables(d), Only(d, r, S),
         "sessions" \in S \/ "parent" \in S => SessionsKept(d, r),
         "turns" \in S => /\ TurnsKept(d, r)
                          /\ \A t \in Turns(d) : r.turns[t].operation = d.turns[t].operation,
         "operations" \in S => OperationsKept(d, r, O),
         "actions" \in S => ActionsKept(d, r, A),
         "messages" \in S => /\ MessagesKept(d, r)
                             /\ \A m \in Messages(d) : r.messages[m] = d.messages[m],
         "endings" \in S => EndingsKept(d, r),
         "forwards" \in S => ForwardsKept(d, r),
         "stops" \in S => d.stops \subseteq r.stops
  PROVE  Advances(d, r, O, A) /\ Seated(d, r)
<1>0. IsStore(d)
  BY DEF Tables
<1>1. SessionsKept(d, r)
  <2>1. CASE ~("sessions" \in S \/ "parent" \in S)
    <3>1. r.sessions = d.sessions /\ r.parent = d.parent
      BY <1>0, <2>1, OnlyFields
    <3> QED BY <3>1 DEF SessionsKept
  <2> QED BY <2>1
<1>2. TurnsKept(d, r) /\ \A t \in Turns(d) : r.turns[t].operation = d.turns[t].operation
  <2>1. CASE "turns" \notin S
    <3>1. r.turns = d.turns
      BY <1>0, <2>1, OnlyFields
    <3> QED BY <3>1 DEF TurnsKept, Turns
  <2> QED BY <2>1
<1>3. OperationsKept(d, r, O)
  <2>1. CASE "operations" \notin S
    <3>1. r.operations = d.operations
      BY <1>0, <2>1, OnlyFields
    <3> QED BY <3>1 DEF OperationsKept, Operations
  <2> QED BY <2>1
<1>4. ActionsKept(d, r, A)
  <2>1. CASE "actions" \notin S
    <3>1. r.actions = d.actions
      BY <1>0, <2>1, OnlyFields
    <3> QED BY <3>1 DEF ActionsKept, Actions
  <2> QED BY <2>1
<1>5. MessagesKept(d, r) /\ \A m \in Messages(d) : r.messages[m] = d.messages[m]
  <2>1. CASE "messages" \notin S
    <3>1. r.messages = d.messages
      BY <1>0, <2>1, OnlyFields
    <3> QED BY <3>1 DEF MessagesKept, Messages
  <2> QED BY <2>1
<1>6. EndingsKept(d, r)
  <2>1. CASE "endings" \notin S
    <3>1. r.endings = d.endings
      BY <1>0, <2>1, OnlyFields
    <3> QED BY <3>1 DEF EndingsKept
  <2> QED BY <2>1
<1>7. ForwardsKept(d, r)
  <2>1. CASE "forwards" \notin S
    <3>1. r.forwards = d.forwards
      BY <1>0, <2>1, OnlyFields
    <3> QED BY <3>1 DEF ForwardsKept
  <2> QED BY <2>1
<1>8. d.stops \subseteq r.stops
  <2>1. CASE "stops" \notin S
    BY <1>0, <2>1, OnlyFields
  <2> QED BY <2>1
<1> QED BY <1>1, <1>2, <1>3, <1>4, <1>5, <1>6, <1>7, <1>8 DEF Advances, Seated

\* Commands, archives and owed stops are not part of what is settled.
LEMMA AsideAdvances ==
  ASSUME NEW d, NEW r, NEW O, NEW A, Tables(d), Only(d, r, {"commands", "archive", "owed", "causes"})
  PROVE  Advances(d, r, O, A) /\ Seated(d, r)
BY AdvancesTables

\* A new Message leaves the others.
LEMMA AdmitMessageAdvances ==
  ASSUME NEW d, Tables(d), NEW s, NEW key, NEW O, NEW A
  PROVE  Advances(d, AdmitMessage(d, s, key), O, A) /\ Seated(d, AdmitMessage(d, s, key))
<1> DEFINE r == AdmitMessage(d, s, key)
<1>1. /\ Only(d, r, {"messages"})
      /\ r.messages = Append(d.messages, [session |-> s, key |-> key, turn |-> 0])
  BY AdmitMessageFields DEF Tables
<1> HIDE DEF r
<1>2. \A m \in Messages(d) : m \in Messages(r) /\ r.messages[m] = d.messages[m]
  BY <1>1, AppendIsSeq, SeqDomain DEF Messages, Tables, MessageRows
<1>3. MessagesKept(d, r)
  BY <1>2 DEF MessagesKept
<1>4. Advances(d, r, O, A) /\ Seated(d, r)
  BY <1>1, <1>2, <1>3, AdvancesTables
<1> QED BY <1>4 DEF r

\* A new Session leaves the others.
LEMMA AddSessionAdvances ==
  ASSUME NEW d, Tables(d), NEW s, s \notin d.sessions, NEW p, NEW O, NEW A
  PROVE  Advances(d, AddSession(d, s, p), O, A) /\ Seated(d, AddSession(d, s, p))
<1> DEFINE r == AddSession(d, s, p)
<1>1. /\ Only(d, r, {"sessions", "parent"})
      /\ r.sessions = d.sessions \cup {s}
      /\ r.parent = [d.parent EXCEPT ![s] = p]
  BY AddSessionFields DEF Tables
<1> HIDE DEF r
<1>2. d.parent \in [Sessions -> Sessions \cup {NoSession}] /\ d.sessions \subseteq Sessions
  BY DEF Tables, SessionRows
<1>3. SessionsKept(d, r)
  BY <1>1, <1>2 DEF SessionsKept
<1>4. Advances(d, r, O, A) /\ Seated(d, r)
  BY <1>1, <1>3, AdvancesTables
<1> QED BY <1>4 DEF r

\* A stop's row leaves the others.
LEMMA AddStopAdvances ==
  ASSUME NEW d, Tables(d), NEW stop, NEW O, NEW A
  PROVE  Advances(d, AddStop(d, stop), O, A) /\ Seated(d, AddStop(d, stop))
<1>1. Only(d, AddStop(d, stop), {"stops"}) /\ AddStop(d, stop).stops = d.stops \cup {stop}
  BY AddStopFields DEF Tables
<1> QED BY <1>1, AdvancesTables

\* A delivered feed row is the same row.
LEMMA MarkForwardAdvances ==
  ASSUME NEW d, Tables(d), NEW f \in DOMAIN d.forwards, NEW O, NEW A
  PROVE  Advances(d, MarkForward(d, f), O, A) /\ Seated(d, MarkForward(d, f))
<1> DEFINE r == MarkForward(d, f)
<1>1. /\ Only(d, r, {"forwards"})
      /\ r.forwards = [d.forwards EXCEPT ![f].delivered = TRUE]
  BY MarkForwardFields DEF Tables
<1> HIDE DEF r
<1>2. DOMAIN r.forwards = DOMAIN d.forwards /\ d.forwards[f] \in ForwardRow(d)
  BY <1>1 DEF Tables, ForwardRows
<1>3. ForwardsKept(d, r)
  <2>1. \A g \in DOMAIN d.forwards \ {f} : r.forwards[g] = d.forwards[g]
    BY <1>1
  <2>2. r.forwards[f] = [d.forwards[f] EXCEPT !.delivered = TRUE]
    BY <1>1
  <2>3. /\ r.forwards[f].target = d.forwards[f].target /\ r.forwards[f].kind = d.forwards[f].kind
        /\ r.forwards[f].source = d.forwards[f].source /\ r.forwards[f].delivered
    BY <1>2, <2>2 DEF ForwardRow
  <2> QED BY <1>2, <2>1, <2>3 DEF ForwardsKept
<1>4. Advances(d, r, O, A) /\ Seated(d, r)
  BY <1>1, <1>3, AdvancesTables
<1> QED BY <1>4 DEF r

\* forward.queue leaves the rows there are.
LEMMA QueueForwardAdvances ==
  ASSUME NEW d, Tables(d), NEW s \in d.sessions, NEW kind \in {"approval", "ending"},
         NEW source \in Nat, NEW O, NEW A
  PROVE  LET r == QueueForward(d, s, kind, source)
         IN  Advances(d, r, O, A) /\ Seated(d, r)
<1> DEFINE r == QueueForward(d, s, kind, source)
           row == [target |-> d.parent[s], kind |-> kind, source |-> source, delivered |-> FALSE]
<1>1. Only(d, r, {"forwards"}) /\ (r = d \/ r.forwards = Append(d.forwards, row))
  BY QueueForwardTables
<1> HIDE DEF r, row
<1>2. CASE r = d
  <2>1. Advances(d, r, O, A) /\ Seated(d, r)
    BY <1>2, AdvancesSelf
  <2> QED BY <2>1 DEF r
<1>3. CASE r.forwards = Append(d.forwards, row)
  <2>1. \A f \in DOMAIN d.forwards : f \in DOMAIN r.forwards /\ r.forwards[f] = d.forwards[f]
    BY <1>3, AppendIsSeq, SeqDomain DEF Tables, ForwardRows
  <2>2. ForwardsKept(d, r)
    BY <2>1 DEF ForwardsKept
  <2>3. Advances(d, r, O, A) /\ Seated(d, r)
    BY <1>1, <2>2, AdvancesTables
  <2> QED BY <2>3 DEF r
<1> QED BY <1>1, <1>2, <1>3

\* An ending is settled once.
LEMMA MarkEndingAdvances ==
  ASSUME NEW d, Tables(d), NEW e, ~e.delivered, NEW O, NEW A
  PROVE  Advances(d, MarkEnding(d, e), O, A) /\ Seated(d, MarkEnding(d, e))
<1> DEFINE r == MarkEnding(d, e)
<1>1. /\ Only(d, r, {"endings"})
      /\ r.endings = (d.endings \ {e}) \cup {[e EXCEPT !.delivered = TRUE]}
  BY MarkEndingFields DEF Tables
<1> HIDE DEF r
<1>2. EndingsKept(d, r)
  BY <1>1 DEF EndingsKept
<1>3. Advances(d, r, O, A) /\ Seated(d, r)
  BY <1>1, <1>2, AdvancesTables
<1> QED BY <1>3 DEF r

\* An archive suppresses only what was not delivered.
LEMMA ArchiveUnderAdvances ==
  ASSUME NEW d, Tables(d), NEW s, NEW key, NEW O, NEW A
  PROVE  Advances(d, ArchiveUnder(d, s, key), O, A) /\ Seated(d, ArchiveUnder(d, s, key))
<1> DEFINE r == ArchiveUnder(d, s, key)
           after(e) == IF d.parent[SessionOfTurn(d, e.turn)] = s /\ ~e.delivered
                       THEN [e EXCEPT !.suppressed = TRUE] ELSE e
<1>1. Only(d, r, {"archive", "endings"}) /\ r.endings = {after(e) : e \in d.endings}
  BY DEF ArchiveUnder, Only, IsStore, Fields, Tables
<1>2. \A e \in d.endings : e.delivered => after(e) = e
  OBVIOUS
<1> HIDE DEF r, after
<1>3. EndingsKept(d, r)
  BY <1>1, <1>2 DEF EndingsKept
<1>4. Advances(d, r, O, A) /\ Seated(d, r)
  BY <1>1, <1>3, AdvancesTables
<1> QED BY <1>4 DEF r

\* queueClose closes an open Turn.
LEMMA CloseTurnAdvances ==
  ASSUME NEW d, Tables(d), NEW t \in Turns(d), IsOpen(d, t), NEW x \in Outcomes, NEW O, NEW A
  PROVE  Advances(d, CloseTurn(d, t, x), O, A) /\ Seated(d, CloseTurn(d, t, x))
<1> DEFINE r == CloseTurn(d, t, x)
<1>1. /\ Only(d, r, {"turns", "endings"})
      /\ r.turns = [d.turns EXCEPT ![t].outcome = x] /\ Turns(r) = Turns(d)
      /\ d.endings \subseteq r.endings
  BY CloseTurnFields
<1> HIDE DEF r
<1>2. d.turns[t] \in TurnRow(d)
  BY Columns
<1>3. \A u \in Turns(d) : /\ r.turns[u].session = d.turns[u].session
                          /\ r.turns[u].operation = d.turns[u].operation
                          /\ u # t => r.turns[u] = d.turns[u]
  <2>1. \A u \in Turns(d) \ {t} : r.turns[u] = d.turns[u]
    BY <1>1 DEF Turns
  <2>2. r.turns[t] = [d.turns[t] EXCEPT !.outcome = x]
    BY <1>1 DEF Turns
  <2>3. r.turns[t].session = d.turns[t].session /\ r.turns[t].operation = d.turns[t].operation
    BY <1>2, <2>2 DEF TurnRow
  <2> QED BY <2>1, <2>3
<1>4. TurnsKept(d, r) /\ EndingsKept(d, r)
  BY <1>1, <1>3 DEF TurnsKept, EndingsKept
<1>5. Advances(d, r, O, A) /\ Seated(d, r)
  BY <1>1, <1>3, <1>4, AdvancesTables
<1> QED BY <1>5 DEF r

\* A stored continuation is no more than that.
LEMMA RecordAdvances ==
  ASSUME NEW d, Tables(d), NEW t \in Turns(d), NEW O, NEW A
  PROVE  Advances(d, RecordContinuation(d, t), O, A) /\ Seated(d, RecordContinuation(d, t))
<1> DEFINE r == RecordContinuation(d, t)
<1>1. /\ Only(d, r, {"turns"}) /\ Turns(r) = Turns(d)
      /\ \A u \in Turns(d) : /\ r.turns[u].session = d.turns[u].session
                             /\ r.turns[u].operation = d.turns[u].operation
                             /\ r.turns[u].outcome = d.turns[u].outcome
      /\ \A u \in Turns(d) : ~IsOpen(d, u) => r.turns[u] = d.turns[u]
  BY RecordFields
<1> HIDE DEF r
<1>2. TurnsKept(d, r)
  BY <1>1 DEF TurnsKept
<1>3. Advances(d, r, O, A) /\ Seated(d, r)
  BY <1>1, <1>2, AdvancesTables
<1> QED BY <1>3 DEF r


\* A Resolution is the first; only an interruption reaches an Operation another
\* holds.
LEMMA ResolveOperationAdvances ==
  ASSUME NEW d, Tables(d), NEW o \in Operations(d), Unresolved(d.operations[o]), NEW x,
         NEW O, NEW A, o \in O \/ x = "interrupted"
  PROVE  Advances(d, ResolveOperation(d, o, x), O, A) /\ Seated(d, ResolveOperation(d, o, x))
<1> DEFINE r == ResolveOperation(d, o, x)
<1>1. /\ Only(d, r, {"operations"}) /\ Operations(r) = Operations(d)
      /\ r.operations[o].resolution = x /\ r.operations[o].turn = d.operations[o].turn
      /\ r.operations[o].purpose = d.operations[o].purpose
      /\ r.operations[o].ordinal = d.operations[o].ordinal
      /\ \A p \in Operations(d) \ {o} : r.operations[p] = d.operations[p]
  BY ResolveOperationRows
<1> HIDE DEF r
<1>2. OperationsKept(d, r, O)
  <2>1. ASSUME NEW p \in Operations(d)
        PROVE  /\ r.operations[p].turn = d.operations[p].turn
               /\ r.operations[p].purpose = d.operations[p].purpose
               /\ ~Unresolved(d.operations[p]) => r.operations[p].resolution = d.operations[p].resolution
    <3>1. CASE p = o
      BY <1>1, <3>1
    <3>2. CASE p # o
      BY <1>1, <3>2
    <3> QED BY <3>1, <3>2
  <2>2. ASSUME NEW p \in Operations(d) \ O
        PROVE  \/ r.operations[p] = d.operations[p]
               \/ /\ Unresolved(d.operations[p]) /\ r.operations[p].resolution = "interrupted"
                  /\ r.operations[p].ordinal = d.operations[p].ordinal
    <3>1. CASE p = o
      BY <1>1, <3>1
    <3>2. CASE p # o
      BY <1>1, <3>2
    <3> QED BY <3>1, <3>2
  <2> QED BY <1>1, <2>1, <2>2 DEF OperationsKept
<1>3. Advances(d, r, O, A) /\ Seated(d, r)
  BY <1>1, <1>2, AdvancesTables
<1> QED BY <1>3 DEF r

\* A write to an Operation's row that is no Resolution.
LEMMA AttemptAdvances ==
  ASSUME NEW d, NEW r, Tables(d), NEW o \in Operations(d), NEW O, NEW A, o \in O,
         Only(d, r, {"operations"}), Operations(r) = Operations(d),
         r.operations[o].turn = d.operations[o].turn,
         r.operations[o].purpose = d.operations[o].purpose,
         r.operations[o].resolution = d.operations[o].resolution,
         \A p \in Operations(d) \ {o} : r.operations[p] = d.operations[p]
  PROVE  Advances(d, r, O, A) /\ Seated(d, r)
<1>1. OperationsKept(d, r, O)
  <2>1. ASSUME NEW p \in Operations(d)
        PROVE  /\ r.operations[p].turn = d.operations[p].turn
               /\ r.operations[p].purpose = d.operations[p].purpose
               /\ ~Unresolved(d.operations[p]) => r.operations[p].resolution = d.operations[p].resolution
    <3>1. CASE p = o
      BY <3>1
    <3>2. CASE p # o
      BY <3>2
    <3> QED BY <3>1, <3>2
  <2> QED BY <2>1 DEF OperationsKept
<1> QED BY <1>1, AdvancesTables

\* The next Attempt, a claimed refresh and a wait.
LEMMA AttemptsAdvance ==
  ASSUME NEW d, Tables(d), NEW o \in Operations(d), NEW O, NEW A, o \in O
  PROVE  /\ Advances(d, AdmitRetry(d, o), O, A) /\ Seated(d, AdmitRetry(d, o))
         /\ AdmitRetry(d, o).operations[o].ordinal = d.operations[o].ordinal + 1
         /\ AdmitRetry(d, o).operations[o].resolution = d.operations[o].resolution
         /\ ~AdmitRetry(d, o).operations[o].waiting
         /\ Advances(d, ClaimAuthRefresh(d, o), O, A) /\ Seated(d, ClaimAuthRefresh(d, o))
         /\ ClaimAuthRefresh(d, o).operations[o].ordinal = d.operations[o].ordinal
         /\ ClaimAuthRefresh(d, o).operations[o].resolution = d.operations[o].resolution
         /\ ClaimAuthRefresh(d, o).operations[o].waiting = d.operations[o].waiting
         /\ Advances(d, WaitForRetry(d, o), O, A) /\ Seated(d, WaitForRetry(d, o))
<1>1. d.operations[o] \in OperationRow(d) /\ o \in DOMAIN d.operations
  BY Columns DEF Operations
<1> DEFINE q == AdmitRetry(d, o)
<1>3. /\ Only(d, q, {"operations"})
      /\ q.operations = [d.operations EXCEPT ![o] = [d.operations[o] EXCEPT !.ordinal = d.operations[o].ordinal + 1, !.waiting = FALSE]]
  BY AdmitRetryFields DEF Tables
<1> HIDE DEF q
<1>4. /\ Operations(q) = Operations(d) /\ q.operations[o].turn = d.operations[o].turn
      /\ q.operations[o].purpose = d.operations[o].purpose
      /\ q.operations[o].resolution = d.operations[o].resolution
      /\ q.operations[o].ordinal = d.operations[o].ordinal + 1 /\ ~q.operations[o].waiting
      /\ \A p \in Operations(d) \ {o} : q.operations[p] = d.operations[p]
  BY <1>1, <1>3 DEF OperationRow, Operations
<1>5. Advances(d, q, O, A) /\ Seated(d, q)
  BY <1>3, <1>4, AttemptAdvances
<1> DEFINE c == ClaimAuthRefresh(d, o)
<1>7. Only(d, c, {"operations"}) /\ c.operations = [d.operations EXCEPT ![o].claimed = TRUE]
  BY ClaimAuthRefreshFields DEF Tables
<1> HIDE DEF c
<1>8. /\ Operations(c) = Operations(d) /\ c.operations[o].turn = d.operations[o].turn
      /\ c.operations[o].purpose = d.operations[o].purpose
      /\ c.operations[o].resolution = d.operations[o].resolution
      /\ c.operations[o].ordinal = d.operations[o].ordinal
      /\ c.operations[o].waiting = d.operations[o].waiting
      /\ \A p \in Operations(d) \ {o} : c.operations[p] = d.operations[p]
  BY <1>1, <1>7 DEF OperationRow, Operations
<1>9. Advances(d, c, O, A) /\ Seated(d, c)
  BY <1>7, <1>8, AttemptAdvances
<1> DEFINE w == WaitForRetry(d, o)
<1>11. Only(d, w, {"operations"}) /\ w.operations = [d.operations EXCEPT ![o].waiting = TRUE]
  BY WaitForRetryFields DEF Tables
<1> HIDE DEF w
<1>12. /\ Operations(w) = Operations(d) /\ w.operations[o].turn = d.operations[o].turn
       /\ w.operations[o].purpose = d.operations[o].purpose
       /\ w.operations[o].resolution = d.operations[o].resolution
       /\ \A p \in Operations(d) \ {o} : w.operations[p] = d.operations[p]
  BY <1>1, <1>11 DEF OperationRow, Operations
<1>13. Advances(d, w, O, A) /\ Seated(d, w)
  BY <1>11, <1>12, AttemptAdvances
<1>14. /\ Advances(d, AdmitRetry(d, o), O, A) /\ Seated(d, AdmitRetry(d, o))
       /\ AdmitRetry(d, o).operations[o].ordinal = d.operations[o].ordinal + 1
       /\ AdmitRetry(d, o).operations[o].resolution = d.operations[o].resolution
       /\ ~AdmitRetry(d, o).operations[o].waiting
  BY <1>4, <1>5 DEF q
<1>15. /\ Advances(d, ClaimAuthRefresh(d, o), O, A) /\ Seated(d, ClaimAuthRefresh(d, o))
       /\ ClaimAuthRefresh(d, o).operations[o].ordinal = d.operations[o].ordinal
       /\ ClaimAuthRefresh(d, o).operations[o].resolution = d.operations[o].resolution
       /\ ClaimAuthRefresh(d, o).operations[o].waiting = d.operations[o].waiting
  BY <1>8, <1>9 DEF c
<1>16. Advances(d, WaitForRetry(d, o), O, A) /\ Seated(d, WaitForRetry(d, o))
  BY <1>13 DEF w
<1> QED BY <1>14, <1>15, <1>16

\* A write to the row of one Action of A that undoes nothing.
LEMMA OneActionAdvances ==
  ASSUME NEW d, NEW r, Tables(d), NEW a \in Actions(d), NEW O, NEW A, a \in A,
         Only(d, r, {"actions"}), Actions(r) = Actions(d),
         r.actions[a].operation = d.actions[a].operation, r.actions[a].tool = d.actions[a].tool,
         d.actions[a].authorized => r.actions[a].authorized,
         d.actions[a].attempted => r.actions[a].attempted,
         ~Unresolved(d.actions[a]) => r.actions[a].resolution = d.actions[a].resolution,
         \A b \in Actions(d) \ {a} : r.actions[b] = d.actions[b]
  PROVE  Advances(d, r, O, A) /\ Seated(d, r)
<1>1. ActionsKept(d, r, A)
  <2>1. ASSUME NEW b \in Actions(d)
        PROVE  /\ r.actions[b].operation = d.actions[b].operation /\ r.actions[b].tool = d.actions[b].tool
               /\ d.actions[b].authorized => r.actions[b].authorized
               /\ d.actions[b].attempted => r.actions[b].attempted
               /\ ~Unresolved(d.actions[b]) => r.actions[b].resolution = d.actions[b].resolution
    <3>1. CASE b = a
      BY <3>1
    <3>2. CASE b # a
      BY <3>2
    <3> QED BY <3>1, <3>2
  <2> QED BY <2>1 DEF ActionsKept
<1> QED BY <1>1, AdvancesTables

\* A permission, an Attempt and a Resolution of an Action.
LEMMA ActionAdvances ==
  ASSUME NEW d, Tables(d), NEW a \in Actions(d), NEW x, NEW O, NEW A, a \in A
  PROVE  /\ Advances(d, Authorize(d, a), O, A) /\ Seated(d, Authorize(d, a))
         /\ Authorize(d, a).actions[a].resolution = d.actions[a].resolution
         /\ Authorize(d, a).actions[a].attempted = d.actions[a].attempted
         /\ Advances(d, AdmitAction(d, a), O, A) /\ Seated(d, AdmitAction(d, a))
         /\ AdmitAction(d, a).actions[a].resolution = d.actions[a].resolution
         /\ AdmitAction(d, a).actions[a].attempted
         /\ Unresolved(d.actions[a]) =>
              Advances(d, ResolveAction(d, a, x), O, A) /\ Seated(d, ResolveAction(d, a, x))
<1>1. d.actions[a] \in ActionRow(d) /\ a \in DOMAIN d.actions
  BY Columns DEF Actions
<1> DEFINE q == Authorize(d, a)
<1>3. Only(d, q, {"actions"}) /\ q.actions = [d.actions EXCEPT ![a].authorized = TRUE]
  BY AuthorizeFields DEF Tables
<1> HIDE DEF q
<1>4. /\ Actions(q) = Actions(d) /\ q.actions[a].operation = d.actions[a].operation
      /\ q.actions[a].tool = d.actions[a].tool /\ q.actions[a].authorized
      /\ q.actions[a].attempted = d.actions[a].attempted
      /\ q.actions[a].resolution = d.actions[a].resolution
      /\ \A b \in Actions(d) \ {a} : q.actions[b] = d.actions[b]
  BY <1>1, <1>3 DEF ActionRow, Actions
<1>5. Advances(d, q, O, A) /\ Seated(d, q)
  BY <1>3, <1>4, OneActionAdvances
<1> DEFINE c == AdmitAction(d, a)
<1>7. Only(d, c, {"actions"}) /\ c.actions = [d.actions EXCEPT ![a].attempted = TRUE]
  BY AdmitActionFields DEF Tables
<1> HIDE DEF c
<1>8. /\ Actions(c) = Actions(d) /\ c.actions[a].operation = d.actions[a].operation
      /\ c.actions[a].tool = d.actions[a].tool /\ c.actions[a].attempted
      /\ c.actions[a].authorized = d.actions[a].authorized
      /\ c.actions[a].resolution = d.actions[a].resolution
      /\ \A b \in Actions(d) \ {a} : c.actions[b] = d.actions[b]
  BY <1>1, <1>7 DEF ActionRow, Actions
<1>9. Advances(d, c, O, A) /\ Seated(d, c)
  BY <1>7, <1>8, OneActionAdvances
<1> DEFINE w == ResolveAction(d, a, x)
<1>11. /\ Only(d, w, {"actions"}) /\ Actions(w) = Actions(d)
       /\ w.actions[a].resolution = x /\ w.actions[a].operation = d.actions[a].operation
       /\ w.actions[a].tool = d.actions[a].tool
       /\ w.actions[a].authorized = d.actions[a].authorized
       /\ w.actions[a].attempted = d.actions[a].attempted
       /\ \A b \in Actions(d) \ {a} : w.actions[b] = d.actions[b]
  BY ResolveActionRows
<1> HIDE DEF w
<1>12. Unresolved(d.actions[a]) => Advances(d, w, O, A) /\ Seated(d, w)
  BY <1>11, OneActionAdvances
<1>13. /\ Advances(d, Authorize(d, a), O, A) /\ Seated(d, Authorize(d, a))
       /\ Authorize(d, a).actions[a].resolution = d.actions[a].resolution
       /\ Authorize(d, a).actions[a].attempted = d.actions[a].attempted
  BY <1>4, <1>5 DEF q
<1>14. /\ Advances(d, AdmitAction(d, a), O, A) /\ Seated(d, AdmitAction(d, a))
       /\ AdmitAction(d, a).actions[a].resolution = d.actions[a].resolution
       /\ AdmitAction(d, a).actions[a].attempted
  BY <1>8, <1>9 DEF c
<1>15. Unresolved(d.actions[a]) =>
         Advances(d, ResolveAction(d, a, x), O, A) /\ Seated(d, ResolveAction(d, a, x))
  BY <1>12 DEF w
<1> QED BY <1>13, <1>14, <1>15

\* A stop cancels what was not attempted.
LEMMA CancelActionsAdvances ==
  ASSUME NEW d, Tables(d), NEW o, NEW O, NEW A
  PROVE  Advances(d, CancelActions(d, o), O, A) /\ Seated(d, CancelActions(d, o))
<1> DEFINE r == CancelActions(d, o)
<1>1. /\ Only(d, r, {"actions"})
      /\ r.actions = [a \in Actions(d) |->
            IF d.actions[a].operation = o /\ Unresolved(d.actions[a]) /\ ~d.actions[a].attempted
            THEN [d.actions[a] EXCEPT !.resolution = "cancelled"] ELSE d.actions[a]]
  BY CancelActionsFields DEF Tables
<1> HIDE DEF r
<1>2. Actions(r) = Actions(d)
  BY <1>1 DEF Actions
<1>3. ASSUME NEW a \in Actions(d)
      PROVE  \/ r.actions[a] = d.actions[a]
             \/ /\ Unresolved(d.actions[a]) /\ r.actions[a].resolution = "cancelled"
                /\ ~d.actions[a].attempted /\ ~r.actions[a].attempted
                /\ r.actions[a].operation = d.actions[a].operation /\ r.actions[a].tool = d.actions[a].tool
                /\ r.actions[a].authorized = d.actions[a].authorized
  <2>1. d.actions[a] \in ActionRow(d)
    BY Columns
  <2>2. CASE d.actions[a].operation = o /\ Unresolved(d.actions[a]) /\ ~d.actions[a].attempted
    <3>1. r.actions[a] = [d.actions[a] EXCEPT !.resolution = "cancelled"]
      BY <1>1, <2>2
    <3>2. /\ r.actions[a].resolution = "cancelled" /\ r.actions[a].attempted = d.actions[a].attempted
          /\ r.actions[a].operation = d.actions[a].operation /\ r.actions[a].tool = d.actions[a].tool
          /\ r.actions[a].authorized = d.actions[a].authorized
      BY <2>1, <3>1 DEF ActionRow
    <3> QED BY <2>2, <3>2
  <2>3. CASE ~(d.actions[a].operation = o /\ Unresolved(d.actions[a]) /\ ~d.actions[a].attempted)
    BY <1>1, <2>3
  <2> QED BY <2>2, <2>3
<1>4. ActionsKept(d, r, A)
  <2>1. ASSUME NEW a \in Actions(d)
        PROVE  /\ r.actions[a].operation = d.actions[a].operation /\ r.actions[a].tool = d.actions[a].tool
               /\ d.actions[a].authorized => r.actions[a].authorized
               /\ d.actions[a].attempted => r.actions[a].attempted
               /\ ~Unresolved(d.actions[a]) => r.actions[a].resolution = d.actions[a].resolution
    <3>1. CASE r.actions[a] = d.actions[a]
      BY <3>1
    <3>2. CASE r.actions[a] # d.actions[a]
      BY <1>3, <3>2
    <3> QED BY <3>1, <3>2
  <2> QED BY <1>2, <1>3, <2>1 DEF ActionsKept
<1>5. Advances(d, r, O, A) /\ Seated(d, r)
  BY <1>1, <1>4, AdvancesTables
<1> QED BY <1>5 DEF r

-----------------------------------------------------------------------------
(* writeCalls: the calls of one answer *)

Calls == [tool : Tools, verdict : {"allow", "ask", "rejected"}]

\* An Operation that is not resolved runs in its open Turn, has proposed nothing
\* and was not stopped.
LEMMA RunningOperation ==
  ASSUME NEW d, Tables(d), TurnRules(d), NEW o \in Operations(d), Unresolved(d.operations[o])
  PROVE  LET t == d.operations[o].turn
         IN  /\ t \in Turns(d) /\ IsOpen(d, t) /\ d.turns[t].operation = o
             /\ ActionsOf(d, o) = {} /\ ~StopSelected(d, t) /\ d.turns[t].continuation # o
             /\ d.turns[t].session \in d.sessions
             /\ \A p \in Operations(d) \ {o} : d.operations[p].turn = t => ~Unresolved(d.operations[p])
             /\ \A a \in Actions(d) : TurnOfAction(d, a) = t => ~Unresolved(d.actions[a])
<1> DEFINE t == d.operations[o].turn
<1>1. t \in Turns(d) /\ d.turns[t].session \in d.sessions
  BY References
<1>2. IsOpen(d, t) /\ d.turns[t].operation = o
  BY DEF TurnRules, Behind, OperationIsCurrent
<1>3. ActionsOf(d, o) = {}
  BY DEF TurnRules, ActionWasProposed, ActionsOf, Unresolved
<1>4. ~StopSelected(d, t)
  BY <1>1, <1>2, <1>3 DEF TurnRules, TurnRule, StoppedWaits, Waiting
<1>5. ~ContinuesWithoutInput(d, o)
  BY DEF ContinuesWithoutInput, CompleteToolResults, Unresolved
<1>6. d.turns[t].continuation # o
  BY <1>1, <1>2, <1>5 DEF TurnRules, TurnRule, Agrees
<1>7. \A p \in Operations(d) \ {o} : d.operations[p].turn = t => ~Unresolved(d.operations[p])
  BY <1>2 DEF TurnRules, Behind, OperationIsCurrent
<1>8. \A a \in Actions(d) : TurnOfAction(d, a) = t => ~Unresolved(d.actions[a])
  BY <1>2, <1>3 DEF TurnRules, Behind, ActionIsCurrent, ActionsOf
<1> QED BY <1>1, <1>2, <1>3, <1>4, <1>6, <1>7, <1>8

\* r has what d has, and some calls that Operation o proposed.
Imported(d, r, o) ==
  /\ Tables(r) /\ Only(d, r, {"actions", "forwards"})
  /\ Advances(d, r, {}, {}) /\ Seated(d, r) /\ ToolRules(r)
  /\ \A a \in Actions(d) : r.actions[a] = d.actions[a]
  /\ \A a \in Actions(r) \ Actions(d) : r.actions[a].operation = o /\ Unresolved(r.actions[a])

\* r has the rows of d and one Action more.
ActionAdded(d, r, o, tool, x) ==
  LET n == Len(d.actions) + 1
  IN  /\ Only(d, r, {"actions"}) /\ Tables(r) /\ Actions(r) = Actions(d) \cup {n}
      /\ Len(r.actions) = n /\ n \in Nat /\ n \notin Actions(d)
      /\ \A a \in Actions(d) : r.actions[a] = d.actions[a]
      /\ r.actions[n] = [operation |-> o, tool |-> tool, authorized |-> x,
                         attempted |-> FALSE, resolution |-> "none"]

\* A new Action leaves the others.
LEMMA AddActionRows ==
  ASSUME NEW d, Tables(d), NEW o \in Operations(d), NEW tool \in Tools, NEW x \in BOOLEAN,
         NEW O, NEW A
  PROVE  LET r == AddAction(d, o, tool, x)
         IN  ActionAdded(d, r, o, tool, x) /\ Advances(d, r, O, A) /\ Seated(d, r)
<1> DEFINE r == AddAction(d, o, tool, x)
           n == Len(d.actions) + 1
           row == [operation |-> o, tool |-> tool, authorized |-> x,
                   attempted |-> FALSE, resolution |-> "none"]
<1>1. Only(d, r, {"actions"}) /\ r.actions = Append(d.actions, row)
  BY AddActionFields DEF Tables
<1>2. Tables(r)
  BY AddActionTables
<1>3. ~row.attempted /\ row.resolution \in {"none", "cancelled"}
  OBVIOUS
<1> HIDE DEF r, row
<1>4. /\ Len(r.actions) = n /\ DOMAIN r.actions = 1..n /\ r.actions[n] = row
      /\ \A i \in 1..Len(d.actions) : r.actions[i] = d.actions[i]
  BY <1>1, AppendIsSeq DEF Tables, ActionRows
<1>5. Actions(d) = 1..Len(d.actions) /\ Len(d.actions) \in Nat
  BY References
<1>6. n \in Nat /\ n \notin Actions(d) /\ 1..n = Actions(d) \cup {n}
  BY <1>5
<1>7. Actions(r) = Actions(d) \cup {n} /\ \A a \in Actions(d) : r.actions[a] = d.actions[a]
  BY <1>4, <1>5, <1>6 DEF Actions
<1> HIDE DEF n
<1>8. ActionsKept(d, r, A)
  BY <1>3, <1>4, <1>7 DEF ActionsKept
<1>9. Advances(d, r, O, A) /\ Seated(d, r)
  BY <1>1, <1>8, AdvancesTables
<1>10. ActionAdded(d, r, o, tool, x)
  BY <1>1, <1>2, <1>4, <1>6, <1>7 DEF ActionAdded, n, row
<1> QED BY <1>9, <1>10 DEF r

\* importCall adds a call of the Operation, or none, and owes the parent its row.
LEMMA ImportCallKeeps ==
  ASSUME NEW d, Tables(d), NEW q, NEW o \in Operations(d), Imported(d, q, o), NEW call \in Calls
  PROVE  Imported(d, ImportCall(q, o, call), o)
<1> DEFINE x == IsCore(call.tool) \/ call.verdict = "allow"
           i == AddAction(q, o, call.tool, x)
           s == SessionOfTurn(q, TurnOfOperation(q, o))
           r == ImportCall(q, o, call)
           n == Len(q.actions) + 1
<1>1. call.tool \in Tools /\ x \in BOOLEAN
  BY DEF Calls
<1>2. Tables(q) /\ o \in Operations(q)
  BY DEF Imported, Advances, OperationsKept
<1>3. r = IF call.verdict = "rejected" THEN q
          ELSE IF x THEN i ELSE QueueForward(i, s, "approval", Len(i.actions))
  BY DEF ImportCall, AddAction
<1>4. IsCore(call.tool) => x
  OBVIOUS
<1> HIDE DEF x
<1>5. /\ Only(q, i, {"actions"}) /\ Tables(i) /\ Actions(i) = Actions(q) \cup {n}
      /\ Len(i.actions) = n /\ n \in Nat /\ n \notin Actions(q)
      /\ \A a \in Actions(q) : i.actions[a] = q.actions[a]
      /\ i.actions[n] = [operation |-> o, tool |-> call.tool, authorized |-> x,
                         attempted |-> FALSE, resolution |-> "none"]
      /\ Advances(q, i, {}, {}) /\ Seated(q, i)
  <2>1. ActionAdded(q, i, o, call.tool, x) /\ Advances(q, i, {}, {}) /\ Seated(q, i)
    BY <1>1, <1>2, AddActionRows
  <2> HIDE DEF i
  <2> QED BY <2>1 DEF ActionAdded
<1> HIDE DEF i, r, n
<1>6. s \in q.sessions
  BY <1>2, References DEF SessionOfTurn, TurnOfOperation
<1> HIDE DEF s
<1>7. /\ Advances(d, q, {}, {}) /\ Seated(d, q) /\ ToolRules(q) /\ Only(d, q, {"actions", "forwards"})
      /\ \A a \in Actions(d) : a \in Actions(q) /\ q.actions[a] = d.actions[a]
      /\ \A a \in Actions(q) \ Actions(d) : q.actions[a].operation = o /\ Unresolved(q.actions[a])
  BY DEF Imported, Advances, ActionsKept
<1>8. Advances(d, i, {}, {}) /\ Seated(d, i)
  BY <1>5, <1>7, AdvancesThen
<1>9. ToolRules(i)
  <2> SUFFICES ASSUME NEW a \in Actions(i)
               PROVE  /\ IsCore(i.actions[a].tool) => i.actions[a].authorized /\ ~i.actions[a].attempted
                      /\ i.actions[a].attempted => i.actions[a].authorized
    BY DEF ToolRules
  <2>1. CASE a = n
    BY <1>5, <1>4, <2>1
  <2>2. CASE a # n
    <3>1. a \in Actions(q) /\ i.actions[a] = q.actions[a]
      BY <1>5, <2>2
    <3> QED BY <1>7, <3>1 DEF ToolRules
  <2> QED BY <2>1, <2>2
<1>10. /\ \A a \in Actions(d) : i.actions[a] = d.actions[a]
       /\ \A a \in Actions(i) \ Actions(d) : i.actions[a].operation = o /\ Unresolved(i.actions[a])
  <2>1. \A a \in Actions(d) : i.actions[a] = d.actions[a]
    BY <1>5, <1>7
  <2>2. i.actions[n].operation = o /\ Unresolved(i.actions[n])
    BY <1>5 DEF Unresolved
  <2> QED BY <1>5, <1>7, <2>1, <2>2
<1>11. Only(d, i, {"actions", "forwards"})
  BY <1>5, <1>7 DEF Only
<1>12. Imported(d, i, o)
  BY <1>5, <1>8, <1>9, <1>10, <1>11 DEF Imported
<1>13. ASSUME NEW g, g = QueueForward(i, s, "approval", Len(i.actions)) PROVE Imported(d, g, o)
  <2>1. s \in i.sessions /\ Len(i.actions) \in Nat
    BY <1>5, <1>6, OnlyFields, <1>2 DEF Tables
  <2>2. Only(i, g, {"forwards"}) /\ Tables(g)
    BY <1>5, <1>13, <2>1, QueueForwardTables
  <2>3. Advances(i, g, {}, {}) /\ Seated(i, g)
    BY <1>5, <1>13, <2>1, QueueForwardAdvances
  <2>4. Advances(d, g, {}, {}) /\ Seated(d, g)
    BY <1>8, <2>3, AdvancesThen
  <2>5. g.actions = i.actions
    BY <1>5, <2>2, OnlyFields DEF Tables
  <2>6. ToolRules(g) /\ Actions(g) = Actions(i)
    BY <1>9, <2>5 DEF ToolRules, Actions
  <2>7. Only(d, g, {"actions", "forwards"})
    BY <1>11, <2>2 DEF Only
  <2> QED BY <1>10, <2>2, <2>4, <2>5, <2>6, <2>7 DEF Imported
<1>14. Imported(d, r, o)
  BY <1>3, <1>12, <1>13
<1> QED BY <1>14 DEF r

\* The databases before and after each call of writeCalls.
ImportRun(d, o, calls, after) ==
  /\ after = [n \in 0..Len(calls) |-> IF n = 0 THEN d ELSE ImportCall(after[n - 1], o, calls[n])]
  /\ ImportCalls(d, o, calls) = after[Len(calls)]

\* The writes of ImportCalls, call by call: the recursive function is there.
LEMMA ImportCallsFunction ==
  ASSUME NEW d, NEW o, NEW calls, Len(calls) \in Nat
  PROVE  \E after : ImportRun(d, o, calls, after)
<1> DEFINE P(f, k) == f = [n \in 0..k |-> IF n = 0 THEN d ELSE ImportCall(f[n - 1], o, calls[n])]
           B == {k \in Nat : ~\E f : P(f, k)}
<1>1. B = {}
  <2> SUFFICES ASSUME B # {} PROVE FALSE
    OBVIOUS
  <2> DEFINE k == Min(B)
  <2>1. k \in B /\ \A y \in B : k <= y
    BY MinIsLeast
  <2> HIDE DEF k
  <2>2. k # 0
    <3> DEFINE f == [n \in 0..0 |-> d]
    <3>1. f = [n \in 0..0 |-> IF n = 0 THEN d ELSE ImportCall(f[n - 1], o, calls[n])]
      OBVIOUS
    <3>2. P(f, 0)
      BY <3>1
    <3>3. 0 \notin B
      BY <3>2
    <3> QED BY <3>3, <2>1
  <2>3. k - 1 \in Nat /\ k - 1 \notin B /\ k \in Nat
    BY <2>1, <2>2
  <2>4. PICK f : P(f, k - 1)
    BY <2>3
  <2> DEFINE g == [n \in 0..k |-> IF n = k THEN ImportCall(f[k - 1], o, calls[k]) ELSE f[n]]
  <2>5. \A n \in 0..(k - 1) : f[n] = IF n = 0 THEN d ELSE ImportCall(f[n - 1], o, calls[n])
    BY <2>4
  <2>6. \A n \in 0..k : g[n] = IF n = 0 THEN d ELSE ImportCall(g[n - 1], o, calls[n])
    <3> SUFFICES ASSUME NEW n \in 0..k PROVE g[n] = IF n = 0 THEN d ELSE ImportCall(g[n - 1], o, calls[n])
      OBVIOUS
    <3>1. CASE n = k
      <4>1. n - 1 \in 0..k /\ n - 1 # k /\ n # 0
        BY <2>2, <2>3, <3>1
      <4>2. g[n - 1] = f[k - 1]
        BY <3>1, <4>1
      <4>3. g[n] = ImportCall(f[k - 1], o, calls[k])
        BY <3>1
      <4> QED BY <3>1, <4>1, <4>2, <4>3
    <3>2. CASE n # k
      <4>1. n \in 0..(k - 1) /\ g[n] = f[n]
        BY <2>3, <3>2
      <4>2. CASE n = 0
        BY <4>1, <4>2, <2>5
      <4>3. CASE n # 0
        <5>1. n - 1 \in 0..k /\ n - 1 # k
          BY <2>3, <4>1, <4>3
        <5>2. g[n - 1] = f[n - 1]
          BY <5>1
        <5> QED BY <4>1, <4>3, <5>2, <2>5
      <4> QED BY <4>2, <4>3
    <3> QED BY <3>1, <3>2
  <2>7. g = [n \in 0..k |-> g[n]]
    OBVIOUS
  <2> HIDE DEF g
  <2>8. P(g, k)
    BY <2>6, <2>7
  <2> QED BY <2>1, <2>8
<1>2. \E f : P(f, Len(calls))
  BY <1>1
<1> DEFINE after == CHOOSE f : P(f, Len(calls))
<1>3. P(after, Len(calls))
  BY <1>2
<1>4. ImportCalls(d, o, calls) = after[Len(calls)]
  BY DEF ImportCalls
<1> HIDE DEF after
<1> QED BY <1>3, <1>4 DEF ImportRun

\* writeCalls imports them all.
LEMMA ImportCallsKeeps ==
  ASSUME NEW d, Tables(d), ToolRules(d), NEW o \in Operations(d), NEW calls \in Seq(Calls)
  PROVE  Imported(d, ImportCalls(d, o, calls), o)
<1> DEFINE N == Len(calls)
<1>1. N \in Nat /\ \A n \in 1..N : calls[n] \in Calls
  OBVIOUS
<1>2. PICK after : ImportRun(d, o, calls, after)
  BY <1>1, ImportCallsFunction
<1>3. \A n \in 0..N : after[n] = IF n = 0 THEN d ELSE ImportCall(after[n - 1], o, calls[n])
  BY <1>2 DEF ImportRun
<1> HIDE DEF N
<1> DEFINE B == {n \in 0..N : ~Imported(d, after[n], o)}
<1>4. B = {}
  <2> SUFFICES ASSUME B # {} PROVE FALSE
    OBVIOUS
  <2> DEFINE k == Min(B)
  <2>1. k \in B /\ \A y \in B : k <= y
    <3>1. B \subseteq Nat
      BY <1>1
    <3> HIDE DEF B
    <3> QED BY <3>1, MinIsLeast
  <2> HIDE DEF k
  <2>2. k # 0
    <3>1. Imported(d, d, o)
      BY AdvancesSelf DEF Imported, Only, Tables
    <3>2. after[0] = d
      BY <1>1, <1>3
    <3> QED BY <2>1, <3>1, <3>2
  <2>3. k - 1 \in 0..N /\ k \in 1..N /\ k \in 0..N /\ k - 1 \notin B
    BY <1>1, <2>1, <2>2
  <2>4. Imported(d, after[k - 1], o)
    BY <2>3
  <2>5. after[k] = ImportCall(after[k - 1], o, calls[k]) /\ calls[k] \in Calls
    BY <1>1, <1>3, <2>2, <2>3
  <2>6. Imported(d, after[k], o)
    BY <2>4, <2>5, ImportCallKeeps
  <2> QED BY <2>1, <2>6
<1>5. N \in 0..N
  BY <1>1
<1>6. Imported(d, after[N], o)
  BY <1>4, <1>5
<1> QED BY <1>2, <1>6 DEF N, ImportRun

-----------------------------------------------------------------------------
(* Settlement of model Attempts *)

\* The database when Operation o of Turn t has just been resolved: all rules hold
\* but the Turn's own, and it has nothing left to resolve.
Ended(d, r, o, x) ==
  LET t == d.operations[o].turn
  IN  /\ Tables(r) /\ TurnsBut(r, t) /\ ActionWasProposed(r) /\ ToolRules(r)
      /\ Only(d, r, {"operations"}) /\ Operations(r) = Operations(d)
      /\ r.turns = d.turns /\ r.actions = d.actions /\ r.messages = d.messages /\ r.stops = d.stops
      /\ t \in Turns(r) /\ IsOpen(r, t) /\ r.turns[t].operation = o /\ r.operations[o].resolution = x
      /\ r.operations[o].turn = t
      /\ \A p \in Operations(d) \ {o} : r.operations[p] = d.operations[p]
      /\ \A p \in Operations(r) : r.operations[p].turn = t => ~Unresolved(r.operations[p])
      /\ \A a \in Actions(r) : TurnOfAction(r, a) = t => ~Unresolved(r.actions[a])

\* ResolveOperation of an Operation that runs.
LEMMA ResolveEnds ==
  ASSUME NEW d, Tables(d), TurnRules(d), NEW o \in Operations(d), Unresolved(d.operations[o]),
         NEW x \in OperationResolutions \ {"none"}
  PROVE  Ended(d, ResolveOperation(d, o, x), o, x)
<1> DEFINE r == ResolveOperation(d, o, x)
           t == d.operations[o].turn
<1>1. Tables(r)
  BY ResolveOperationTables
<1>2. TurnsBut(r, t) /\ ToolRules(r)
  <2>1. TurnsBut(d, t) /\ ToolRules(d)
    BY RulesAreBut DEF TurnRules
  <2> QED BY <2>1, ResolveOperationTurns
<1>3. ActionWasProposed(r)
  BY ResolveOperationProposed DEF TurnRules, Unresolved
<1>4. /\ Only(d, r, {"operations"}) /\ Operations(r) = Operations(d)
      /\ r.operations[o].resolution = x /\ r.operations[o].turn = t
      /\ \A p \in Operations(d) \ {o} : r.operations[p] = d.operations[p]
  BY ResolveOperationRows
<1> HIDE DEF r
<1>5. /\ t \in Turns(d) /\ IsOpen(d, t) /\ d.turns[t].operation = o
      /\ \A p \in Operations(d) \ {o} : d.operations[p].turn = t => ~Unresolved(d.operations[p])
      /\ \A a \in Actions(d) : TurnOfAction(d, a) = t => ~Unresolved(d.actions[a])
  BY RunningOperation
<1>6. r.turns = d.turns /\ r.actions = d.actions /\ r.messages = d.messages /\ r.stops = d.stops
  BY <1>4, OnlyFields DEF Tables
<1>7. t \in Turns(r) /\ IsOpen(r, t) /\ r.turns[t].operation = o
  BY <1>5, <1>6 DEF Turns, IsOpen
<1> HIDE DEF t
<1>8. \A p \in Operations(r) : r.operations[p].turn = t => ~Unresolved(r.operations[p])
  <2> SUFFICES ASSUME NEW p \in Operations(d), r.operations[p].turn = t PROVE ~Unresolved(r.operations[p])
    BY <1>4
  <2>1. CASE p = o
    BY <1>4, <2>1 DEF Unresolved
  <2>2. CASE p # o
    BY <1>4, <1>5, <2>2
  <2> QED BY <2>1, <2>2
<1>9. \A p \in Operations(d) : r.operations[p].turn = d.operations[p].turn
  <2> SUFFICES ASSUME NEW p \in Operations(d) PROVE r.operations[p].turn = d.operations[p].turn
    OBVIOUS
  <2>1. CASE p = o
    BY <1>4, <2>1 DEF t
  <2>2. CASE p # o
    BY <1>4, <2>2
  <2> QED BY <2>1, <2>2
<1>10. \A a \in Actions(r) : TurnOfAction(r, a) = t => ~Unresolved(r.actions[a])
  <2> SUFFICES ASSUME NEW a \in Actions(d), TurnOfAction(r, a) = t PROVE ~Unresolved(d.actions[a])
    BY <1>6 DEF Actions
  <2>1. d.actions[a].operation \in Operations(d)
    BY References
  <2>2. TurnOfAction(d, a) = TurnOfAction(r, a)
    BY <1>6, <1>9, <2>1 DEF TurnOfAction, TurnOfOperation
  <2> QED BY <1>5, <2>2
<1>11. Ended(d, r, o, x)
  BY <1>1, <1>2, <1>3, <1>4, <1>6, <1>7, <1>8, <1>10 DEF Ended, t
<1> QED BY <1>11 DEF r

\* What a settlement of Operation o keeps.
Settles(d, r, O, A) == Tables(r) /\ TurnRules(r) /\ Advances(d, r, O, A) /\ Seated(d, r)

\* A resolved Operation's Turn closes.
LEMMA EndedCloses ==
  ASSUME NEW d, Tables(d), TurnRules(d), NEW o \in Operations(d), Unresolved(d.operations[o]),
         NEW x \in OperationResolutions \ {"none"}, NEW y \in Outcomes \ {"open"},
         NEW O, o \in O \/ x = "interrupted"
  PROVE  Settles(d, CloseTurn(ResolveOperation(d, o, x), d.operations[o].turn, y), O, {})
<1> DEFINE q == ResolveOperation(d, o, x)
           t == d.operations[o].turn
           r == CloseTurn(q, t, y)
<1>1. Ended(d, q, o, x)
  BY ResolveEnds
<1>2. Advances(d, q, O, {}) /\ Seated(d, q)
  BY ResolveOperationAdvances
<1> HIDE DEF q
<1>3. /\ Tables(q) /\ TurnsBut(q, t) /\ ActionWasProposed(q) /\ ToolRules(q) /\ t \in Turns(q)
      /\ IsOpen(q, t)
      /\ \A p \in Operations(q) : q.operations[p].turn = t => ~Unresolved(q.operations[p])
      /\ \A a \in Actions(q) : TurnOfAction(q, a) = t => ~Unresolved(q.actions[a])
  BY <1>1 DEF Ended
<1> HIDE DEF t
<1>4. TurnRules(r)
  BY <1>3, CloseTurnTurns
<1>5. Tables(r)
  BY <1>3, CloseTurnFields
<1>6. Advances(q, r, O, {}) /\ Seated(q, r)
  BY <1>3, CloseTurnAdvances
<1>7. Advances(d, r, O, {}) /\ Seated(d, r)
  BY <1>2, <1>6, AdvancesThen
<1>8. Settles(d, r, O, {})
  BY <1>4, <1>5, <1>7 DEF Settles
<1> QED BY <1>8 DEF q, r, t

\* A write that is aside of what Turns and settlements are made of.
LEMMA AsideKeeps ==
  ASSUME NEW d, Tables(d), NEW q, NEW r, NEW O, NEW A, A \subseteq Actions(d),
         Settles(d, q, O, A), Tables(r), Only(q, r, {"commands", "archive", "owed", "causes"})
  PROVE  Settles(d, r, O, A)
<1>1. Tables(q) /\ TurnRules(q) /\ Advances(d, q, O, A) /\ Seated(d, q)
  BY DEF Settles
<1>2. Advances(q, r, O, A) /\ Seated(q, r)
  BY <1>1, AsideAdvances
<1>3. Advances(d, r, O, A) /\ Seated(d, r)
  BY <1>1, <1>2, AdvancesThen
<1>4. /\ r.turns = q.turns /\ r.operations = q.operations /\ r.actions = q.actions
      /\ r.stops = q.stops /\ r.messages = q.messages
  BY <1>1, OnlyFields DEF Tables
<1>5. TurnRules(r)
  BY <1>1, <1>4, TurnTablesSame
<1> QED BY <1>3, <1>5 DEF Settles

\* A database settles itself.
LEMMA SettlesSelf ==
  ASSUME NEW d, Tables(d), TurnRules(d), NEW O, NEW A
  PROVE  Settles(d, d, O, A)
BY AdvancesSelf DEF Settles

\* FailTurn resolves the Operation, closes its Turn, and owes the children of a
\* full context a stop.
LEMMA FailTurnKeeps ==
  ASSUME NEW d, Tables(d), TurnRules(d), NEW o \in Operations(d), Unresolved(d.operations[o]),
         NEW x \in OperationResolutions \ {"none"}, NEW y \in Outcomes \ {"open"}, NEW full \in BOOLEAN
  PROVE  Settles(d, FailTurn(d, o, x, y, full), {o}, {})
<1> DEFINE t == TurnOfOperation(d, o)
           q == CloseTurn(ResolveOperation(d, o, x), t, y)
           r == OweChildStops(q, SessionOfTurn(d, t))
<1>1. Settles(d, q, {o}, {})
  BY EndedCloses DEF TurnOfOperation
<1>2. FailTurn(d, o, x, y, full) = IF full THEN r ELSE q
  BY DEF FailTurn
<1> HIDE DEF q
<1>3. Only(q, r, {"owed", "causes"}) /\ Tables(r)
  BY <1>1, OweChildStopsTables DEF Settles
<1>4. Only(q, r, {"commands", "archive", "owed", "causes"})
  BY <1>3 DEF Only
<1> HIDE DEF r
<1>5. Settles(d, r, {o}, {})
  BY <1>1, <1>3, <1>4, AsideKeeps
<1> QED BY <1>1, <1>2, <1>5

\* A resolved Operation's Turn goes on, and says so when it needs no input.
LEMMA EndedGoesOn ==
  ASSUME NEW d, Tables(d), TurnRules(d), NEW o \in Operations(d), Unresolved(d.operations[o]),
         NEW x \in {"answer", "compacted", "context_overflow"}
  PROVE  Settles(d, RecordContinuation(ResolveOperation(d, o, x), d.operations[o].turn), {o}, {})
<1> DEFINE q == ResolveOperation(d, o, x)
           t == d.operations[o].turn
           r == RecordContinuation(q, t)
<1>1. x \in OperationResolutions \ {"none"}
  BY DEF OperationResolutions
<1>2. Ended(d, q, o, x)
  BY <1>1, ResolveEnds
<1>3. Advances(d, q, {o}, {}) /\ Seated(d, q)
  BY ResolveOperationAdvances
<1> HIDE DEF q
<1>4. ~StopSelected(d, t) /\ d.turns[t].continuation # o
  BY RunningOperation
<1>5. /\ Tables(q) /\ TurnsBut(q, t) /\ ActionWasProposed(q) /\ ToolRules(q) /\ t \in Turns(q)
      /\ q.turns = d.turns /\ q.stops = d.stops /\ q.turns[t].operation = o
      /\ q.operations[o].resolution = x
  BY <1>2 DEF Ended
<1> HIDE DEF t
<1>6. StoppedWaits(q, t) /\ GoesOn(q, t)
  BY <1>4, <1>5 DEF StoppedWaits, GoesOn, StopSelected
<1>7. IsOpen(q, t) /\ q.turns[t].continuation = q.turns[t].operation =>
        ContinuesWithoutInput(q, q.turns[t].operation)
  BY <1>4, <1>5
<1>8. TurnRules(r) /\ Tables(r)
  BY <1>5, <1>6, <1>7, RecordTurns
<1>9. Advances(q, r, {o}, {}) /\ Seated(q, r)
  BY <1>5, RecordAdvances
<1>10. Advances(d, r, {o}, {}) /\ Seated(d, r)
  BY <1>3, <1>9, AdvancesThen
<1>11. Settles(d, r, {o}, {})
  BY <1>8, <1>10 DEF Settles
<1> QED BY <1>11 DEF r, q, t

\* settleModelAttemptFailure, and recoverOneExhaustedModelAttempt.
LEMMA SettleFailureKeeps ==
  ASSUME NEW d, Tables(d), TurnRules(d), NEW o \in Operations(d), Unresolved(d.operations[o])
  PROVE  /\ \A failure \in Failures : Settles(d, SettleFailure(d, o, failure), {o}, {})
         /\ Settles(d, RecoverExhausted(d, o), {o}, {})
<1>1. /\ {"failed", "context_overflow", "retry_exhausted"} \subseteq OperationResolutions \ {"none"}
      /\ {"failed", "resource_exceeded", "retry_exhausted"} \subseteq Outcomes \ {"open"}
  BY DEF OperationResolutions, Outcomes
<1>2. Settles(d, FailTurn(d, o, "failed", "failed", FALSE), {o}, {})
  BY <1>1, FailTurnKeeps
<1>3. Settles(d, FailTurn(d, o, "context_overflow", "resource_exceeded", TRUE), {o}, {})
  BY <1>1, FailTurnKeeps
<1>4. Settles(d, FailTurn(d, o, "retry_exhausted", "retry_exhausted", FALSE), {o}, {})
  BY <1>1, FailTurnKeeps
<1>5. Settles(d, RecordContinuation(ResolveOperation(d, o, "context_overflow"), TurnOfOperation(d, o)), {o}, {})
  BY EndedGoesOn DEF TurnOfOperation
<1>6. Settles(d, WaitForRetry(d, o), {o}, {})
  <2>1. TurnRules(WaitForRetry(d, o))
    BY AttemptTurns
  <2>2. Tables(WaitForRetry(d, o))
    BY WaitForRetryTables
  <2>3. Advances(d, WaitForRetry(d, o), {o}, {}) /\ Seated(d, WaitForRetry(d, o))
    BY AttemptsAdvance
  <2> QED BY <2>1, <2>2, <2>3 DEF Settles
<1>7. d.operations[o].ordinal \in Nat /\ MaxAttempts \in Nat
  BY Columns, AttemptsAssumption DEF OperationRow
<1>8. ASSUME NEW failure \in Failures PROVE Settles(d, SettleFailure(d, o, failure), {o}, {})
  <2>1. CASE failure = "ordinary"
    BY <2>1, <1>2 DEF SettleFailure
  <2>2. CASE failure = "overflow"
    BY <2>2, <1>3 DEF SettleFailure
  <2>3. CASE failure = "overflow_recovers"
    BY <2>3, <1>5 DEF SettleFailure
  <2>4. CASE failure = "refreshed"
    BY <2>4, <1>6 DEF SettleFailure
  <2>5. CASE failure = "retryable" /\ d.operations[o].ordinal < MaxAttempts
    <3>1. ~(d.operations[o].ordinal >= MaxAttempts)
      BY <2>5, <1>7
    <3>2. SettleFailure(d, o, failure) = WaitForRetry(d, o)
      BY <2>5, <3>1 DEF SettleFailure
    <3> QED BY <3>2, <1>6
  <2>6. CASE failure = "retryable" /\ ~(d.operations[o].ordinal < MaxAttempts)
    <3>1. d.operations[o].ordinal >= MaxAttempts
      BY <2>6, <1>7
    <3> QED BY <2>6, <3>1, <1>4 DEF SettleFailure
  <2> QED BY <2>1, <2>2, <2>3, <2>4, <2>5, <2>6 DEF Failures
<1>9. Settles(d, RecoverExhausted(d, o), {o}, {})
  BY <1>4 DEF RecoverExhausted
<1> QED BY <1>8, <1>9


\* An answer that proposes calls: the Operation's Resolution makes them its own.
LEMMA ProposalsKeep ==
  ASSUME NEW d, Tables(d), TurnRules(d), NEW o \in Operations(d), Unresolved(d.operations[o]),
         NEW q, Imported(d, q, o)
  PROVE  Settles(d, RecordContinuation(ResolveOperation(q, o, "tool_proposals"), d.operations[o].turn), {o}, {})
<1> DEFINE t == d.operations[o].turn
           s == ResolveOperation(q, o, "tool_proposals")
           r == RecordContinuation(s, t)
<1>1. /\ t \in Turns(d) /\ IsOpen(d, t) /\ d.turns[t].operation = o
      /\ ActionsOf(d, o) = {} /\ ~StopSelected(d, t) /\ d.turns[t].continuation # o
  BY RunningOperation
<1>2. /\ Tables(q) /\ Advances(d, q, {}, {}) /\ Seated(d, q) /\ ToolRules(q)
      /\ \A a \in Actions(d) : a \in Actions(q) /\ q.actions[a] = d.actions[a]
      /\ \A a \in Actions(q) \ Actions(d) : q.actions[a].operation = o /\ Unresolved(q.actions[a])
  BY DEF Imported, Advances, ActionsKept
<1>3. q.turns = d.turns /\ q.operations = d.operations /\ q.messages = d.messages /\ q.stops = d.stops
  BY OnlyFields DEF Imported, Tables
<1>4. /\ Turns(q) = Turns(d) /\ Operations(q) = Operations(d) /\ Messages(q) = Messages(d)
      /\ \A u : (IsOpen(q, u) <=> IsOpen(d, u)) /\ (StopSelected(q, u) <=> StopSelected(d, u))
      /\ \A u : QueuedIn(q, u) = QueuedIn(d, u)
  BY <1>3 DEF Turns, Operations, Messages, IsOpen, StopSelected, QueuedIn, Queued
<1>5. /\ OperationIsOwn(d) /\ OneOpenTurn(d) /\ OperationIsCurrent(d) /\ ActionIsCurrent(d)
      /\ ActionWasProposed(d) /\ \A u \in Turns(d) : TurnRule(d, u)
  BY DEF TurnRules, Behind
<1>6. Behind(q)
  <2>1. OperationIsOwn(q) /\ OneOpenTurn(q) /\ OperationIsCurrent(q)
    BY <1>3, <1>4, <1>5 DEF OperationIsOwn, OneOpenTurn, OperationIsCurrent
  <2>2. ASSUME NEW a \in Actions(q), Unresolved(q.actions[a])
        PROVE  /\ IsOpen(q, TurnOfAction(q, a))
               /\ q.turns[TurnOfAction(q, a)].operation = q.actions[a].operation
    <3>1. CASE a \in Actions(d)
      <4>1. q.actions[a] = d.actions[a]
        BY <1>2, <3>1
      <4>2. TurnOfAction(q, a) = TurnOfAction(d, a)
        BY <1>3, <4>1 DEF TurnOfAction, TurnOfOperation
      <4> QED BY <1>3, <1>4, <1>5, <2>2, <3>1, <4>1, <4>2 DEF ActionIsCurrent
    <3>2. CASE a \notin Actions(d)
      <4>1. q.actions[a].operation = o
        BY <1>2, <3>2
      <4>2. TurnOfAction(q, a) = t
        BY <1>3, <4>1 DEF TurnOfAction, TurnOfOperation
      <4> QED BY <1>1, <1>3, <1>4, <4>1, <4>2
    <3> QED BY <3>1, <3>2
  <2> QED BY <2>1, <2>2 DEF Behind, ActionIsCurrent
<1>7. \A u \in Turns(q) \ {t} : TurnRule(q, u)
  <2> SUFFICES ASSUME NEW u \in Turns(d) \ {t} PROVE TurnRule(q, u)
    BY <1>4
  <2> DEFINE p == d.turns[u].operation
  <2>1. p # o
    BY <1>5 DEF OperationIsOwn
  <2> HIDE DEF p
  <2>2. ActionsOf(q, p) = ActionsOf(d, p)
    BY <1>2, <2>1 DEF ActionsOf
  <2>3. \A a \in ActionsOf(d, p) : q.actions[a] = d.actions[a]
    BY <1>2 DEF ActionsOf
  <2>4. TurnRule(d, u) /\ u \in Turns(q)
    BY <1>4, <1>5
  <2>5. p = d.turns[u].operation
    BY DEF p
  <2> QED BY <1>3, <1>4, <2>2, <2>3, <2>4, <2>5, RuleKept
<1>8. TurnsBut(q, t)
  BY <1>6, <1>7 DEF TurnsBut
<1>9. "tool_proposals" \in OperationResolutions \ {"none"}
  BY DEF OperationResolutions
<1>10. o \in Operations(q) /\ Unresolved(q.operations[o]) /\ q.operations[o].turn = t
  BY <1>3, <1>4
<1>11. Tables(s)
  BY <1>2, <1>9, <1>10, ResolveOperationTables
<1>12. TurnsBut(s, t) /\ ToolRules(s)
  BY <1>2, <1>8, <1>9, <1>10, ResolveOperationTurns
<1>13. Advances(q, s, {o}, {}) /\ Seated(q, s)
  BY <1>2, <1>10, ResolveOperationAdvances
<1>14. /\ Only(q, s, {"operations"}) /\ Operations(s) = Operations(q)
       /\ s.operations[o].resolution = "tool_proposals"
       /\ \A p \in Operations(q) \ {o} : s.operations[p] = q.operations[p]
  BY <1>2, <1>10, ResolveOperationRows
<1> HIDE DEF s
<1>15. s.turns = d.turns /\ s.actions = q.actions /\ s.stops = d.stops
  BY <1>2, <1>3, <1>14, OnlyFields DEF Tables
<1>16. ActionWasProposed(s)
  <2> SUFFICES ASSUME NEW a \in Actions(q)
               PROVE  s.operations[q.actions[a].operation].resolution = "tool_proposals"
    BY <1>15 DEF ActionWasProposed, Actions
  <2>1. CASE a \in Actions(d)
    <3>1. q.actions[a] = d.actions[a] /\ d.operations[d.actions[a].operation].resolution = "tool_proposals"
      BY <1>2, <1>5, <2>1 DEF ActionWasProposed
    <3>2. d.actions[a].operation \in Operations(d)
      BY <2>1, References
    <3>3. CASE d.actions[a].operation = o
      BY <1>14, <3>1, <3>3
    <3>4. CASE d.actions[a].operation # o
      BY <1>3, <1>4, <1>14, <3>1, <3>2, <3>4
    <3> QED BY <3>3, <3>4
  <2>2. CASE a \notin Actions(d)
    BY <1>2, <1>14, <2>2
  <2> QED BY <2>1, <2>2
<1> HIDE DEF t
<1>17. StoppedWaits(s, t) /\ GoesOn(s, t)
  <2>1. ~StopSelected(s, t)
    BY <1>1, <1>15 DEF StopSelected
  <2>2. s.operations[s.turns[t].operation].resolution = "tool_proposals"
    BY <1>1, <1>14, <1>15
  <2> QED BY <2>1, <2>2 DEF StoppedWaits, GoesOn
<1>18. t \in Turns(s) /\ s.turns[t].operation = o /\ s.turns[t].continuation # o
  BY <1>1, <1>15 DEF Turns
<1>19. TurnRules(r) /\ Tables(r)
  BY <1>11, <1>12, <1>16, <1>17, <1>18, RecordTurns
<1>20. Advances(s, r, {o}, {}) /\ Seated(s, r)
  BY <1>11, <1>18, RecordAdvances
<1>21. Advances(d, q, {o}, {})
  BY <1>2 DEF Advances, OperationsKept
<1>22. Advances(q, r, {o}, {}) /\ Seated(q, r)
  BY <1>13, <1>20, AdvancesThen
<1>23. Advances(d, r, {o}, {}) /\ Seated(d, r)
  BY <1>2, <1>21, <1>22, AdvancesThen
<1>24. Settles(d, r, {o}, {})
  BY <1>19, <1>23 DEF Settles
<1> QED BY <1>24 DEF r, s, t

\* settleModelSuccess: a compaction proposes no calls.
LEMMA SettleSuccessKeeps ==
  ASSUME NEW d, Tables(d), TurnRules(d), NEW o \in Operations(d), Unresolved(d.operations[o]),
         NEW calls \in Seq(Calls), calls = <<>> \/ d.operations[o].purpose = "assistant"
  PROVE  Settles(d, SettleSuccess(d, o, calls), {o}, {})
<1> DEFINE t == TurnOfOperation(d, o)
           q == ImportCalls(d, o, calls)
           input == QueuedIn(d, SessionOfTurn(d, t)) # {}
<1>1. Imported(d, q, o)
  BY ImportCallsKeeps DEF TurnRules
<1>2. calls = <<>> => q = d
  <2> SUFFICES ASSUME calls = <<>> PROVE q = d
    OBVIOUS
  <2>1. Len(calls) = 0 /\ Len(calls) \in Nat
    OBVIOUS
  <2>2. PICK after : ImportRun(d, o, calls, after)
    BY <2>1, ImportCallsFunction
  <2>3. after = [n \in 0..0 |-> IF n = 0 THEN d ELSE ImportCall(after[n - 1], o, calls[n])] /\ q = after[0]
    BY <2>1, <2>2 DEF ImportRun
  <2>4. 0 \in 0..0
    OBVIOUS
  <2> QED BY <2>3, <2>4
<1> HIDE DEF q
<1>3. d.operations[o].purpose \in {"assistant", "compaction"}
  BY Columns DEF OperationRow
<1>4. CASE d.operations[o].purpose = "assistant" /\ calls # <<>>
  <2>1. SettleSuccess(d, o, calls) = RecordContinuation(ResolveOperation(q, o, "tool_proposals"), t)
    BY <1>4 DEF SettleSuccess, q
  <2>2. t = d.operations[o].turn
    BY DEF TurnOfOperation
  <2> QED BY <1>1, <2>1, <2>2, ProposalsKeep
<1>5. CASE d.operations[o].purpose = "compaction"
  <2>1. q = d
    BY <1>2, <1>5
  <2>2. SettleSuccess(d, o, calls) = RecordContinuation(ResolveOperation(q, o, "compacted"), t)
    BY <1>5 DEF SettleSuccess, q
  <2>3. SettleSuccess(d, o, calls) = RecordContinuation(ResolveOperation(d, o, "compacted"), d.operations[o].turn)
    BY <2>1, <2>2 DEF TurnOfOperation
  <2> QED BY <2>3, EndedGoesOn
<1>6. CASE d.operations[o].purpose = "assistant" /\ calls = <<>> /\ input
  <2>1. q = d
    BY <1>2, <1>6
  <2>2. SettleSuccess(d, o, calls) = RecordContinuation(ResolveOperation(q, o, "answer"), t)
    BY <1>6 DEF SettleSuccess, q
  <2>3. SettleSuccess(d, o, calls) = RecordContinuation(ResolveOperation(d, o, "answer"), d.operations[o].turn)
    BY <2>1, <2>2 DEF TurnOfOperation
  <2> QED BY <2>3, EndedGoesOn
<1>7. CASE d.operations[o].purpose = "assistant" /\ calls = <<>> /\ ~input
  <2>1. q = d
    BY <1>2, <1>7
  <2>2. SettleSuccess(d, o, calls) = CloseTurn(ResolveOperation(q, o, "answer"), t, "completed")
    BY <1>7 DEF SettleSuccess, q
  <2>3. SettleSuccess(d, o, calls) = CloseTurn(ResolveOperation(d, o, "answer"), d.operations[o].turn, "completed")
    BY <2>1, <2>2 DEF TurnOfOperation
  <2>4. "answer" \in OperationResolutions \ {"none"} /\ "completed" \in Outcomes \ {"open"}
    BY DEF OperationResolutions, Outcomes
  <2> QED BY <2>3, <2>4, EndedCloses
<1> QED BY <1>3, <1>4, <1>5, <1>6, <1>7
-----------------------------------------------------------------------------
(* Settlement of Actions *)

\* The Turn of an Action that is not resolved is open and at the Action's
\* Operation, and does not continue yet.
LEMMA RunningAction ==
  ASSUME NEW d, Tables(d), TurnRules(d), NEW a \in Actions(d), Unresolved(d.actions[a])
  PROVE  LET t == TurnOfAction(d, a)
             o == d.actions[a].operation
         IN  /\ t \in Turns(d) /\ IsOpen(d, t) /\ d.turns[t].operation = o /\ o \in Operations(d)
             /\ d.operations[o].turn = t /\ d.operations[o].resolution = "tool_proposals"
             /\ d.turns[t].continuation # o /\ d.turns[t].session \in d.sessions
             /\ \A p \in Operations(d) : d.operations[p].turn = t => ~Unresolved(d.operations[p])
<1> DEFINE t == TurnOfAction(d, a)
           o == d.actions[a].operation
<1>1. t \in Turns(d) /\ o \in Operations(d) /\ d.turns[t].session \in d.sessions
  BY References
<1>2. d.operations[o].turn = t
  BY DEF TurnOfAction, TurnOfOperation
<1>3. IsOpen(d, t) /\ d.turns[t].operation = o
  BY DEF TurnRules, Behind, ActionIsCurrent
<1>4. d.operations[o].resolution = "tool_proposals"
  BY DEF TurnRules, ActionWasProposed
<1>5. ~ContinuesWithoutInput(d, o)
  <2>1. a \in ActionsOf(d, o)
    BY DEF ActionsOf
  <2> QED BY <1>4, <2>1 DEF ContinuesWithoutInput, CompleteToolResults
<1>6. d.turns[t].continuation # o
  BY <1>1, <1>3, <1>5 DEF TurnRules, TurnRule, Agrees
<1>7. \A p \in Operations(d) : d.operations[p].turn = t => ~Unresolved(d.operations[p])
  BY <1>3, <1>4 DEF TurnRules, Behind, OperationIsCurrent, Unresolved
<1> QED BY <1>1, <1>2, <1>3, <1>4, <1>6, <1>7

\* A resolved Action whose Turn no stop selected lets the Turn go on when it was
\* the last.
LEMMA ActionGoesOn ==
  ASSUME NEW d, Tables(d), TurnRules(d), NEW a \in Actions(d), Unresolved(d.actions[a]),
         NEW x \in ActionResolutions \ {"none"}, ~StopSelected(d, TurnOfAction(d, a))
  PROVE  Settles(d, RecordContinuation(ResolveAction(d, a, x), TurnOfAction(d, a)), {}, {a})
<1> DEFINE t == TurnOfAction(d, a)
           o == d.actions[a].operation
           q == ResolveAction(d, a, x)
           r == RecordContinuation(q, t)
<1>1. /\ t \in Turns(d) /\ IsOpen(d, t) /\ d.turns[t].operation = o
      /\ d.operations[o].resolution = "tool_proposals" /\ d.turns[t].continuation # o
  BY RunningAction
<1>2. Tables(q)
  BY ResolveActionTables
<1>3. TurnsBut(q, t) /\ ToolRules(q) /\ ActionWasProposed(q)
  <2>1. TurnsBut(d, t) /\ ToolRules(d) /\ ActionWasProposed(d)
    BY RulesAreBut DEF TurnRules
  <2> QED BY <2>1, ResolveActionTurns
<1>4. Advances(d, q, {}, {a}) /\ Seated(d, q)
  BY ActionAdvances
<1>5. Only(d, q, {"actions"})
  BY ResolveActionRows
<1> HIDE DEF q
<1>6. q.turns = d.turns /\ q.operations = d.operations /\ q.stops = d.stops
  BY <1>5, OnlyFields DEF Tables
<1> HIDE DEF o
<1>7. /\ t \in Turns(q) /\ q.turns[t].operation = o /\ q.turns[t].continuation # o
      /\ q.operations[o].resolution = "tool_proposals" /\ ~StopSelected(q, t)
  BY <1>1, <1>6 DEF Turns, StopSelected
<1> HIDE DEF t
<1>8. StoppedWaits(q, t) /\ GoesOn(q, t)
  BY <1>7 DEF StoppedWaits, GoesOn
<1>9. TurnRules(r) /\ Tables(r)
  BY <1>2, <1>3, <1>7, <1>8, RecordTurns
<1>10. Advances(q, r, {}, {a}) /\ Seated(q, r)
  BY <1>2, <1>7, RecordAdvances
<1>11. Advances(d, r, {}, {a}) /\ Seated(d, r)
  BY <1>4, <1>10, AdvancesThen
<1>12. Settles(d, r, {}, {a})
  BY <1>9, <1>11 DEF Settles
<1> QED BY <1>12 DEF r, q, t


\* An Action of a stopped Turn: the last one closes it, and otherwise it waits for
\* the other Attempts.
LEMMA ActionStops ==
  ASSUME NEW d, Tables(d), TurnRules(d), NEW a \in Actions(d), Unresolved(d.actions[a]),
         NEW x \in ActionResolutions \ {"none"}, StopSelected(d, TurnOfAction(d, a))
  PROVE  LET t == TurnOfAction(d, a)
         IN  Settles(d, RecordContinuation(CompleteStop(ResolveAction(d, a, x), t, a), t), {}, {a})
<1> DEFINE t == TurnOfAction(d, a)
           o == d.actions[a].operation
           q == ResolveAction(d, a, x)
           last == \A b \in ActionsOf(q, q.turns[t].operation) \ {a} : ~Unresolved(q.actions[b])
           c == CloseTurn(q, t, "cancelled")
<1>1. /\ t \in Turns(d) /\ IsOpen(d, t) /\ d.turns[t].operation = o
      /\ d.operations[o].resolution = "tool_proposals" /\ d.turns[t].continuation # o
      /\ \A p \in Operations(d) : d.operations[p].turn = t => ~Unresolved(d.operations[p])
  BY RunningAction
<1>2. Tables(q)
  BY ResolveActionTables
<1>3. TurnsBut(q, t) /\ ToolRules(q) /\ ActionWasProposed(q)
  <2>1. TurnsBut(d, t) /\ ToolRules(d) /\ ActionWasProposed(d)
    BY RulesAreBut DEF TurnRules
  <2> QED BY <2>1, ResolveActionTurns
<1>4. Advances(d, q, {}, {a}) /\ Seated(d, q)
  BY ActionAdvances
<1>5. /\ Only(d, q, {"actions"}) /\ Actions(q) = Actions(d)
      /\ q.actions[a].resolution = x /\ q.actions[a].operation = o
      /\ \A b \in Actions(d) \ {a} : q.actions[b] = d.actions[b]
  BY ResolveActionRows
<1> HIDE DEF q
<1>6. q.turns = d.turns /\ q.operations = d.operations /\ q.stops = d.stops
  BY <1>5, OnlyFields DEF Tables
<1>7. /\ t \in Turns(q) /\ q.turns[t].operation = o /\ q.turns[t].continuation # o
      /\ q.operations[o].resolution = "tool_proposals" /\ StopSelected(q, t) /\ IsOpen(q, t)
      /\ ~Unresolved(q.actions[a])
  BY <1>1, <1>5, <1>6 DEF Turns, StopSelected, IsOpen, Unresolved
<1>8. StoppedWaits(d, t)
  BY <1>1 DEF TurnRules, TurnRule
<1> HIDE DEF o
<1>9. CompleteStop(q, t, a) = IF last THEN c ELSE q
  BY <1>7 DEF CompleteStop
<1>10. CASE last
  <2>1. \A p \in Operations(q) : q.operations[p].turn = t => ~Unresolved(q.operations[p])
    BY <1>1, <1>6 DEF Operations
  <2>2. \A b \in Actions(q) : TurnOfAction(q, b) = t => ~Unresolved(q.actions[b])
    BY <1>3, <1>7, <1>10 DEF TurnsBut, Behind, ActionIsCurrent, ActionsOf
  <2>3. "cancelled" \in Outcomes \ {"open"}
    BY DEF Outcomes
  <2>4. TurnRules(c)
    BY <1>2, <1>3, <1>7, <2>1, <2>2, <2>3, CloseTurnTurns
  <2>5. Tables(c) /\ c.turns = [q.turns EXCEPT ![t].outcome = "cancelled"]
    BY <1>2, <1>7, <2>3, CloseTurnFields
  <2>6. Advances(q, c, {}, {a}) /\ Seated(q, c)
    BY <1>2, <1>7, <2>3, CloseTurnAdvances
  <2>7. q.turns[t] \in TurnRow(q)
    BY <1>2, <1>7, Columns
  <2> HIDE DEF c
  <2>8. c.turns[t].outcome = "cancelled"
    BY <1>7, <2>5, <2>7 DEF TurnRow, Turns
  <2>9. RecordContinuation(c, t) = c
    BY <2>8 DEF RecordContinuation, IsOpen
  <2>10. Advances(d, c, {}, {a}) /\ Seated(d, c)
    BY <1>4, <2>6, AdvancesThen
  <2>11. Settles(d, c, {}, {a})
    BY <2>4, <2>5, <2>10 DEF Settles
  <2> QED BY <1>9, <1>10, <2>9, <2>11 DEF q
<1>11. CASE ~last
  <2> DEFINE r == RecordContinuation(q, t)
  <2>1. StoppedWaits(q, t)
    <3>1. PICK b \in ActionsOf(q, o) : b # a /\ Unresolved(q.actions[b])
      BY <1>7, <1>11
    <3>2. Waiting(q, t) # {}
      BY <1>7, <3>1 DEF Waiting
    <3>3. ASSUME NEW e \in Waiting(q, t) PROVE q.actions[e].attempted
      <4>1. e # a /\ e \in Actions(q) /\ q.actions[e].operation = o /\ Unresolved(q.actions[e])
        BY <1>7 DEF Waiting, ActionsOf
      <4>2. e \in Actions(d) /\ q.actions[e] = d.actions[e]
        BY <1>5, <4>1
      <4>3. e \in Waiting(d, t)
        BY <1>1, <4>1, <4>2 DEF Waiting, ActionsOf
      <4> QED BY <1>1, <1>8, <4>2, <4>3 DEF StoppedWaits
    <3> QED BY <3>2, <3>3 DEF StoppedWaits
  <2>2. GoesOn(q, t)
    BY <1>7 DEF GoesOn
  <2>3. TurnRules(r) /\ Tables(r)
    BY <1>2, <1>3, <1>7, <2>1, <2>2, RecordTurns
  <2>4. Advances(q, r, {}, {a}) /\ Seated(q, r)
    BY <1>2, <1>7, RecordAdvances
  <2>5. Advances(d, r, {}, {a}) /\ Seated(d, r)
    BY <1>4, <2>4, AdvancesThen
  <2>6. Settles(d, r, {}, {a})
    BY <2>3, <2>5 DEF Settles
  <2> QED BY <1>9, <1>11, <2>6 DEF r, q
<1> QED BY <1>10, <1>11

\* settleActionAttempt and recoverOneUncertainAction, of an Action not resolved.
LEMMA SettleActionKeeps ==
  ASSUME NEW d, Tables(d), TurnRules(d), NEW a \in Actions(d), Unresolved(d.actions[a])
  PROVE  /\ \A code \in ActionResolutions \ {"none"} : Settles(d, SettleAction(d, a, code), {}, {a})
         /\ Settles(d, RecoverUncertain(d, a), {}, {a})
<1> DEFINE t == TurnOfAction(d, a)
<1>1. "cancelled" \in ActionResolutions \ {"none"} /\ "indeterminate" \in ActionResolutions \ {"none"}
  BY DEF ActionResolutions
<1>2. ASSUME NEW x \in ActionResolutions \ {"none"}
      PROVE  Settles(d, RecordContinuation(CompleteStop(ResolveAction(d, a, x), t, a), t), {}, {a})
  <2>1. CASE StopSelected(d, t)
    BY <2>1, ActionStops
  <2>2. CASE ~StopSelected(d, t)
    <3> DEFINE q == ResolveAction(d, a, x)
    <3>1. Only(d, q, {"actions"})
      BY ResolveActionFields DEF Tables
    <3>2. q.stops = d.stops
      BY <3>1, OnlyFields DEF Tables
    <3>3. ~StopSelected(q, t)
      BY <2>2, <3>2 DEF StopSelected
    <3>4. CompleteStop(q, t, a) = q
      BY <3>3 DEF CompleteStop
    <3>5. Settles(d, RecordContinuation(q, t), {}, {a})
      BY <2>2, ActionGoesOn
    <3> QED BY <3>4, <3>5
  <2> QED BY <2>1, <2>2
<1>3. ASSUME NEW code \in ActionResolutions \ {"none"} PROVE Settles(d, SettleAction(d, a, code), {}, {a})
  <2>1. CASE StopSelected(d, t)
    <3>1. SettleAction(d, a, code) = RecordContinuation(CompleteStop(ResolveAction(d, a, "cancelled"), t, a), t)
      BY <2>1 DEF SettleAction
    <3> QED BY <1>1, <1>2, <3>1
  <2>2. CASE ~StopSelected(d, t)
    <3>1. SettleAction(d, a, code) = RecordContinuation(CompleteStop(ResolveAction(d, a, code), t, a), t)
      BY <2>2 DEF SettleAction
    <3> QED BY <1>2, <3>1
  <2> QED BY <2>1, <2>2
<1>4. Settles(d, RecoverUncertain(d, a), {}, {a})
  BY <1>1, <1>2 DEF RecoverUncertain
<1> QED BY <1>3, <1>4

\* queueCoreResolution, of a call that no stop selected.
LEMMA ResolveCoreKeeps ==
  ASSUME NEW d, Tables(d), TurnRules(d), NEW a \in Actions(d), Unresolved(d.actions[a]),
         ~StopSelected(d, TurnOfAction(d, a)), NEW x \in ActionResolutions \ {"none"}
  PROVE  Settles(d, ResolveCore(d, a, x), {}, {a})
BY ActionGoesOn DEF ResolveCore
-----------------------------------------------------------------------------
(* Composing a transaction *)

\* A transaction's later writes see what its first ones left.
LEMMA SettlesThen ==
  ASSUME NEW d, NEW q, NEW r, NEW O, NEW A, A \subseteq Actions(d), Settles(d, q, O, A), Settles(q, r, O, A)
  PROVE  Settles(d, r, O, A)
<1>1. Tables(r) /\ TurnRules(r) /\ Advances(d, q, O, A) /\ Seated(d, q) /\ Advances(q, r, O, A) /\ Seated(q, r)
  BY DEF Settles
<1>2. Advances(d, r, O, A) /\ Seated(d, r)
  BY <1>1, AdvancesThen
<1> QED BY <1>1, <1>2 DEF Settles

\* Work on fewer Operations and Actions is work on more.
LEMMA SettlesMore ==
  ASSUME NEW d, NEW r, NEW O, NEW A, NEW P, NEW B, O \subseteq P, A \subseteq B, Settles(d, r, O, A)
  PROVE  Settles(d, r, P, B)
<1>1. OperationsKept(d, r, P)
  BY DEF Settles, Advances, OperationsKept
<1>2. ActionsKept(d, r, B)
  BY DEF Settles, Advances, ActionsKept
<1> QED BY <1>1, <1>2 DEF Settles, Advances

\* No key is the absent one.
LEMMA KeysAreKeys ==
  /\ \A k : ClientKey(k) # NoKey
  /\ \A t : EndingKey(t) # NoKey
  /\ \A a : CallKey(a) # NoKey
  /\ \A s, n : OwedStopKey(s, n) # NoKey
BY DEF ClientKey, EndingKey, CallKey, OwedStopKey, NoKey

\* A saved answer.
LEMMA SaveKeeps ==
  ASSUME NEW d, Tables(d), TurnRules(d), NEW key, key # NoKey, NEW O, NEW A, A \subseteq Actions(d)
  PROVE  Settles(d, SaveCommand(d, key), O, A)
<1>1. Tables(SaveCommand(d, key))
  BY SaveCommandTables
<1>2. Only(d, SaveCommand(d, key), {"commands"})
  BY SaveCommandFields DEF Tables
<1>3. Only(d, SaveCommand(d, key), {"commands", "archive", "owed", "causes"})
  BY <1>2 DEF Only
<1> QED BY <1>1, <1>3, SettlesSelf, AsideKeeps

\* A restored Session.
LEMMA ClearKeeps ==
  ASSUME NEW d, Tables(d), TurnRules(d), NEW s, NEW O, NEW A, A \subseteq Actions(d)
  PROVE  Settles(d, ClearArchive(d, s), O, A)
<1>1. Tables(ClearArchive(d, s))
  BY ClearArchiveTables
<1>2. Only(d, ClearArchive(d, s), {"archive"})
  BY ClearArchiveFields DEF Tables
<1>3. Only(d, ClearArchive(d, s), {"commands", "archive", "owed", "causes"})
  BY <1>2 DEF Only
<1> QED BY <1>1, <1>3, SettlesSelf, AsideKeeps

\* An admitted Message.
LEMMA AdmitMessageKeeps ==
  ASSUME NEW d, Tables(d), TurnRules(d), NEW s \in d.sessions, NEW key \in d.commands, NEW O, NEW A
  PROVE  Settles(d, AdmitMessage(d, s, key), O, A)
<1>1. Tables(AdmitMessage(d, s, key))
  BY AdmitMessageTables
<1>2. TurnRules(AdmitMessage(d, s, key))
  BY AdmitMessageTurns
<1>3. Advances(d, AdmitMessage(d, s, key), O, A) /\ Seated(d, AdmitMessage(d, s, key))
  BY AdmitMessageAdvances
<1> QED BY <1>1, <1>2, <1>3 DEF Settles

\* A new Session.
LEMMA AddSessionKeeps ==
  ASSUME NEW d, Tables(d), TurnRules(d), NEW s \in Sessions \ d.sessions,
         NEW p \in d.sessions \cup {NoSession}, NEW O, NEW A
  PROVE  Settles(d, AddSession(d, s, p), O, A)
<1> DEFINE r == AddSession(d, s, p)
<1>1. Tables(r)
  BY AddSessionTables
<1>2. Only(d, r, {"sessions", "parent"})
  BY AddSessionFields DEF Tables
<1>3. Advances(d, r, O, A) /\ Seated(d, r)
  BY AddSessionAdvances
<1> HIDE DEF r
<1>4. /\ r.turns = d.turns /\ r.operations = d.operations /\ r.actions = d.actions
      /\ r.stops = d.stops /\ r.messages = d.messages
  BY <1>2, OnlyFields DEF Tables
<1>5. TurnRules(r)
  BY <1>4, TurnTablesSame
<1>6. Settles(d, r, O, A)
  BY <1>1, <1>3, <1>5 DEF Settles
<1> QED BY <1>6 DEF r

-----------------------------------------------------------------------------
(* Stops *)

\* The open Turn of the Session, and its last Message.
SelectedTurn(d, s) == Max(OpenTurns(d, s) \cup {0})
Cutoff(d, s)       == Max({m \in Messages(d) : d.messages[m].session = s} \cup {0})

StopRecord(d, s, key) ==
  [key |-> key, session |-> s, turn |-> SelectedTurn(d, s), cutoff |-> Cutoff(d, s),
   parentCaused |-> OwesStop(d, s)]

\* stopRounds before it comes to the Turn.
StopSaved(d, s, key) == AddStop(SaveCommand(d, key), StopRecord(d, s, key))

StopArchived(d, s, key, kind) ==
  IF kind = "session_archive" THEN ArchiveUnder(StopSaved(d, s, key), s, key) ELSE StopSaved(d, s, key)

StopOwing(d, s, key, kind) == OweChildStops(SettleOwed(StopArchived(d, s, key, kind), s), s)

\* stopRounds, write by write.
LEMMA StopRoundsIs ==
  ASSUME NEW d, NEW s, NEW key, NEW kind
  PROVE  StopRounds(d, s, key, kind) =
           IF SelectedTurn(d, s) = 0 THEN StopOwing(d, s, key, kind)
           ELSE StopTurn(StopOwing(d, s, key, kind), SelectedTurn(d, s))
BY DEF StopRounds, SelectedTurn, Cutoff, StopRecord, StopSaved, StopArchived, StopOwing, AddStop, SettleOwed

\* A stop selects the open Turn, if there is one.
LEMMA SelectedIsOpen ==
  ASSUME NEW d, Tables(d), OneOpenTurn(d), NEW s
  PROVE  /\ SelectedTurn(d, s) \in 0..Len(d.turns)
         /\ SelectedTurn(d, s) # 0 => SelectedTurn(d, s) \in OpenTurns(d, s)
         /\ \A u \in OpenTurns(d, s) : u = SelectedTurn(d, s)
         /\ Cutoff(d, s) \in 0..Len(d.messages)
         /\ \A m \in Messages(d) : d.messages[m].session = s => m <= Cutoff(d, s)
<1> DEFINE T == OpenTurns(d, s) \cup {0}
           M == {m \in Messages(d) : d.messages[m].session = s} \cup {0}
<1>1. /\ Turns(d) = 1..Len(d.turns) /\ Len(d.turns) \in Nat
      /\ Messages(d) = 1..Len(d.messages) /\ Len(d.messages) \in Nat
  BY References
<1>2. T \subseteq Nat /\ T # {} /\ \A y \in T : y <= Len(d.turns)
  BY <1>1 DEF OpenTurns
<1>3. Max(T) \in T /\ \A y \in T : Max(T) >= y
  <2> HIDE DEF T
  <2> QED BY <1>1, <1>2, MaxIsGreatest
<1>4. M \subseteq Nat /\ M # {} /\ \A y \in M : y <= Len(d.messages)
  BY <1>1
<1>5. Max(M) \in M /\ \A y \in M : Max(M) >= y
  <2> HIDE DEF M
  <2> QED BY <1>1, <1>4, MaxIsGreatest
<1>6. SelectedTurn(d, s) = Max(T) /\ Cutoff(d, s) = Max(M)
  BY DEF SelectedTurn, Cutoff
<1>7. SelectedTurn(d, s) \in 0..Len(d.turns)
  BY <1>1, <1>2, <1>3, <1>6
<1>8. SelectedTurn(d, s) # 0 => SelectedTurn(d, s) \in OpenTurns(d, s)
  BY <1>3, <1>6
<1>9. ASSUME NEW u \in OpenTurns(d, s) PROVE u = SelectedTurn(d, s)
  <2>1. u \in 1..Len(d.turns) /\ Max(T) >= u
    BY <1>1, <1>3 DEF OpenTurns
  <2>2. SelectedTurn(d, s) # 0
    BY <1>1, <1>6, <2>1
  <2>3. SelectedTurn(d, s) \in OpenTurns(d, s)
    BY <1>8, <2>2
  <2> QED BY <2>3 DEF OneOpenTurn, OpenTurns
<1>10. Cutoff(d, s) \in 0..Len(d.messages)
  BY <1>1, <1>4, <1>5, <1>6
<1>11. \A m \in Messages(d) : d.messages[m].session = s => m <= Cutoff(d, s)
  <2> SUFFICES ASSUME NEW m \in Messages(d), d.messages[m].session = s PROVE m <= Cutoff(d, s)
    OBVIOUS
  <2>1. Max(M) >= m /\ Max(M) \in Nat /\ m \in Nat
    BY <1>1, <1>4, <1>5
  <2> QED BY <1>6, <2>1
<1> QED BY <1>7, <1>8, <1>9, <1>10, <1>11

\* The Turn a stop selects: an interruption, cancellations and a closed Turn.
LEMMA StopTurnAdvances ==
  ASSUME NEW d, Tables(d), OperationIsOwn(d), NEW t \in Turns(d), IsOpen(d, t), NEW O, NEW A, A \subseteq Actions(d)
  PROVE  Advances(d, StopTurn(d, t), O, A) /\ Seated(d, StopTurn(d, t))
<1> DEFINE o == d.turns[t].operation
           q == IF Unresolved(d.operations[o]) THEN ResolveOperation(d, o, "interrupted") ELSE d
           c == CancelActions(q, o)
           r == CloseTurn(c, t, "cancelled")
<1>1. o \in Operations(d) /\ "cancelled" \in Outcomes /\ "interrupted" \in OperationResolutions
  BY References DEF Outcomes, OperationResolutions
<1>2. Tables(q) /\ Advances(d, q, O, A) /\ Seated(d, q) /\ q.turns = d.turns
  <2>1. CASE Unresolved(d.operations[o])
    <3> DEFINE i == ResolveOperation(d, o, "interrupted")
    <3>1. Tables(i)
      BY <1>1, ResolveOperationTables
    <3>2. Advances(d, i, O, A) /\ Seated(d, i)
      BY <1>1, <2>1, ResolveOperationAdvances
    <3>3. Only(d, i, {"operations"})
      BY ResolveOperationFields DEF Tables
    <3>4. i.turns = d.turns
      BY <3>3, OnlyFields DEF Tables
    <3>5. q = i
      BY <2>1
    <3> HIDE DEF i, q
    <3> QED BY <3>1, <3>2, <3>4, <3>5
  <2>2. CASE ~Unresolved(d.operations[o])
    <3>1. q = d
      BY <2>2
    <3> HIDE DEF q
    <3> QED BY <3>1, AdvancesSelf
  <2> QED BY <2>1, <2>2
<1>3. StopTurn(d, t) = c \/ StopTurn(d, t) = r
  BY DEF StopTurn
<1> HIDE DEF q
<1>4. Tables(c)
  BY <1>2, CancelActionsTables
<1>5. Advances(q, c, O, A) /\ Seated(q, c)
  BY <1>2, CancelActionsAdvances
<1>6. Advances(d, c, O, A) /\ Seated(d, c)
  BY <1>2, <1>5, AdvancesThen
<1>7. Only(q, c, {"actions"})
  BY <1>2, CancelActionsFields DEF Tables
<1> HIDE DEF c
<1>8. t \in Turns(c) /\ IsOpen(c, t)
  BY <1>2, <1>7, OnlyFields DEF Tables, Turns, IsOpen
<1>9. Advances(c, r, O, A) /\ Seated(c, r)
  BY <1>1, <1>4, <1>8, CloseTurnAdvances
<1>10. Advances(d, r, O, A) /\ Seated(d, r)
  BY <1>6, <1>9, AdvancesThen
<1> QED BY <1>3, <1>6, <1>10

\* stopRounds up to the Turn: the tables are well-formed, the rules hold but for
\* the selected Turn, and the stop is there.
Stopping(d, r, s) ==
  LET t == SelectedTurn(d, s)
  IN  /\ Tables(r) /\ TurnsBut(r, t) /\ ActionWasProposed(r) /\ ToolRules(r)
      /\ r.turns = d.turns /\ r.operations = d.operations /\ r.actions = d.actions
      /\ r.messages = d.messages
      /\ t \in Turns(d) => Agrees(r, t) /\ StopSelected(r, t)

\* A write to none of the tables Turns are read from.
LEMMA StoppingThen ==
  ASSUME NEW d, NEW q, NEW r, NEW s, Stopping(d, q, s), Tables(r),
         Only(q, r, {"commands", "archive", "owed", "causes", "endings"})
  PROVE  Stopping(d, r, s)
<1> DEFINE t == SelectedTurn(d, s)
<1>1. /\ r.turns = q.turns /\ r.operations = q.operations /\ r.actions = q.actions
      /\ r.stops = q.stops /\ r.messages = q.messages
  BY OnlyFields DEF Stopping, Tables
<1>2. TurnsBut(r, t) /\ ActionWasProposed(r) /\ ToolRules(r)
  BY <1>1, TurnTablesSame DEF Stopping
<1>3. (Agrees(r, t) <=> Agrees(q, t)) /\ (StopSelected(r, t) <=> StopSelected(q, t))
  BY <1>1 DEF Agrees, StopSelected, IsOpen, ContinuesWithoutInput, CompleteToolResults, ActionsOf, Actions
<1> HIDE DEF t
<1> QED BY <1>1, <1>2, <1>3 DEF Stopping, t

\* The stop's row is well-formed, and its cutoff takes only its Session's input.
LEMMA StopSavedKeeps ==
  ASSUME NEW d, Tables(d), TurnRules(d), NEW s \in d.sessions, NEW key, key # NoKey, NEW O, NEW A,
         A \subseteq Actions(d)
  PROVE  LET r == StopSaved(d, s, key)
         IN  Stopping(d, r, s) /\ Advances(d, r, O, A) /\ Seated(d, r) /\ key \in r.commands
<1> DEFINE c == SaveCommand(d, key)
           stop == StopRecord(d, s, key)
           r == AddStop(c, stop)
           t == SelectedTurn(d, s)
<1>1. /\ t \in 0..Len(d.turns)
      /\ t # 0 => t \in OpenTurns(d, s)
      /\ \A u \in OpenTurns(d, s) : u = t
      /\ Cutoff(d, s) \in 0..Len(d.messages)
  BY SelectedIsOpen DEF TurnRules, Behind
<1>2. Tables(c) /\ TurnRules(c) /\ Advances(d, c, O, A) /\ Seated(d, c)
  BY SaveKeeps DEF Settles
<1>3. Only(d, c, {"commands"}) /\ c.commands = d.commands \cup {key}
  BY SaveCommandFields DEF Tables
<1> HIDE DEF c
<1>4. /\ c.turns = d.turns /\ c.operations = d.operations /\ c.actions = d.actions
      /\ c.messages = d.messages /\ c.sessions = d.sessions
  BY <1>3, OnlyFields DEF Tables
<1>5. /\ stop.key = key /\ stop.session = s /\ stop.turn = t /\ stop.cutoff = Cutoff(d, s)
      /\ stop = [key |-> key, session |-> s, turn |-> t, cutoff |-> Cutoff(d, s), parentCaused |-> OwesStop(d, s)]
  BY DEF StopRecord
<1>6. OwesStop(d, s) \in BOOLEAN
  BY DEF OwesStop
<1>7. stop \in StopRow(c)
  <2> HIDE DEF t, stop
  <2> QED BY <1>1, <1>3, <1>4, <1>5, <1>6 DEF StopRow
<1> HIDE DEF t, stop
<1>8. Tables(r)
  BY <1>2, <1>7, AddStopTables
<1>9. \A u \in Turns(c) : IsOpen(c, u) /\ c.turns[u].session = stop.session => u = stop.turn
  BY <1>1, <1>4, <1>5 DEF OpenTurns, IsOpen, Turns
<1>10. /\ TurnsBut(r, stop.turn) /\ ActionWasProposed(r) /\ ToolRules(r)
       /\ stop.turn \in Turns(c) => Agrees(r, stop.turn) /\ StopSelected(r, stop.turn)
  BY <1>2, <1>9, AddStopTurns
<1>11. Advances(c, r, O, A) /\ Seated(c, r)
  BY <1>2, AddStopAdvances
<1>12. Advances(d, r, O, A) /\ Seated(d, r)
  BY <1>2, <1>11, AdvancesThen
<1>13. Only(c, r, {"stops"})
  BY <1>2, AddStopFields DEF Tables
<1> HIDE DEF r
<1>14. /\ r.turns = d.turns /\ r.operations = d.operations /\ r.actions = d.actions
       /\ r.messages = d.messages /\ key \in r.commands
  BY <1>2, <1>3, <1>4, <1>13, OnlyFields DEF Tables
<1>15. Turns(c) = Turns(d)
  BY <1>4 DEF Turns
<1>16. Stopping(d, r, s)
  BY <1>5, <1>8, <1>10, <1>14, <1>15 DEF Stopping, t
<1> QED BY <1>12, <1>14, <1>16 DEF r, c, stop, StopSaved

\* An archive, and what is owed.
LEMMA StopOwingKeeps ==
  ASSUME NEW d, Tables(d), TurnRules(d), NEW s \in d.sessions, NEW key, key # NoKey, NEW kind,
         NEW O, NEW A, A \subseteq Actions(d)
  PROVE  LET r == StopOwing(d, s, key, kind)
         IN  Stopping(d, r, s) /\ Advances(d, r, O, A) /\ Seated(d, r)
<1> DEFINE c == StopSaved(d, s, key)
           e == ArchiveUnder(c, s, key)
           h == StopArchived(d, s, key, kind)
           g == SettleOwed(h, s)
           r == OweChildStops(g, s)
<1>1. Stopping(d, c, s) /\ Advances(d, c, O, A) /\ Seated(d, c) /\ key \in c.commands
  BY StopSavedKeeps
<1>2. h = IF kind = "session_archive" THEN e ELSE c
  BY DEF StopArchived
<1> HIDE DEF c, h
<1>3. Tables(c)
  BY <1>1 DEF Stopping
<1>4. Tables(e) /\ Only(c, e, {"archive", "endings"})
  BY <1>1, <1>3, ArchiveUnderTables, ArchiveUnderFields DEF Tables
<1>5. Advances(c, e, O, A) /\ Seated(c, e)
  BY <1>3, ArchiveUnderAdvances
<1> HIDE DEF e
<1>6. Advances(d, e, O, A) /\ Seated(d, e)
  BY <1>1, <1>5, AdvancesThen
<1>7. Only(c, e, {"commands", "archive", "owed", "causes", "endings"})
  BY <1>4 DEF Only
<1>8. Stopping(d, e, s)
  BY <1>1, <1>4, <1>7, StoppingThen
<1>9. Stopping(d, h, s) /\ Advances(d, h, O, A) /\ Seated(d, h) /\ Tables(h)
  BY <1>1, <1>2, <1>3, <1>4, <1>6, <1>8
<1>10. Tables(g) /\ Only(h, g, {"owed"})
  <2>1. Tables(g)
    BY <1>9, SettleOwedTables
  <2>2. Only(h, g, {"owed"})
    BY <1>9, SettleOwedFields DEF Tables
  <2> QED BY <2>1, <2>2
<1> HIDE DEF g
<1>11. Tables(r) /\ Only(g, r, {"owed", "causes"})
  BY <1>10, OweChildStopsTables
<1> HIDE DEF r
<1>12. Only(h, r, {"commands", "archive", "owed", "causes", "endings"})
  BY <1>10, <1>11 DEF Only
<1>13. Only(h, r, {"commands", "archive", "owed", "causes"})
  BY <1>10, <1>11 DEF Only
<1>14. Stopping(d, r, s)
  BY <1>9, <1>11, <1>12, StoppingThen
<1>15. Advances(h, r, O, A) /\ Seated(h, r)
  BY <1>9, <1>13, AsideAdvances
<1>16. Advances(d, r, O, A) /\ Seated(d, r)
  BY <1>9, <1>15, AdvancesThen
<1> QED BY <1>14, <1>16 DEF r, g, h, StopOwing

\* stopRounds.
LEMMA StopRoundsKeeps ==
  ASSUME NEW d, Tables(d), TurnRules(d), NEW s \in d.sessions, NEW key, key # NoKey, NEW kind
  PROVE  Settles(d, StopRounds(d, s, key, kind), {}, {})
<1> DEFINE q == StopOwing(d, s, key, kind)
           t == SelectedTurn(d, s)
<1>1. Stopping(d, q, s) /\ Advances(d, q, {}, {}) /\ Seated(d, q)
  BY StopOwingKeeps
<1>2. StopRounds(d, s, key, kind) = IF t = 0 THEN q ELSE StopTurn(q, t)
  BY StopRoundsIs
<1> HIDE DEF q
<1>3. /\ Tables(q) /\ TurnsBut(q, t) /\ ActionWasProposed(q) /\ ToolRules(q)
      /\ q.turns = d.turns
      /\ t \in Turns(d) => Agrees(q, t) /\ StopSelected(q, t)
  BY <1>1 DEF Stopping
<1>4. t # 0 => t \in OpenTurns(d, s)
  BY SelectedIsOpen DEF TurnRules, Behind
<1>5. CASE t = 0
  <2>1. t \notin Turns(q)
    BY <1>3, <1>5, References
  <2> HIDE DEF t
  <2>2. TurnRules(q)
    BY <1>3, <2>1 DEF TurnRules, TurnsBut
  <2> QED BY <1>1, <1>2, <1>3, <1>5, <2>2 DEF Settles
<1>6. CASE t # 0
  <2>1. t \in Turns(d) /\ IsOpen(d, t)
    BY <1>4, <1>6 DEF OpenTurns
  <2> HIDE DEF t
  <2>2. t \in Turns(q) /\ IsOpen(q, t) /\ Agrees(q, t) /\ StopSelected(q, t)
    BY <1>3, <2>1 DEF Turns, IsOpen
  <2>3. TurnRules(StopTurn(q, t)) /\ Tables(StopTurn(q, t))
    BY <1>3, <2>2, StopTurnTurns
  <2>4. OperationIsOwn(q)
    BY <1>3 DEF TurnsBut, Behind
  <2>5. Advances(q, StopTurn(q, t), {}, {}) /\ Seated(q, StopTurn(q, t))
    BY <1>3, <2>2, <2>4, StopTurnAdvances
  <2>6. Advances(d, StopTurn(q, t), {}, {}) /\ Seated(d, StopTurn(q, t))
    BY <1>1, <2>5, AdvancesThen
  <2> QED BY <1>2, <1>6, <2>3, <2>6 DEF Settles
<1> QED BY <1>5, <1>6

-----------------------------------------------------------------------------
(* Every entry point keeps the rules *)

\* submitTo.
LEMMA SubmitMessageKeeps ==
  ASSUME NEW d, Tables(d), TurnRules(d), NEW k, NEW s
  PROVE  Settles(d, SubmitMessage(d, k, s), {}, {})
<1> DEFINE key == ClientKey(k)
           c == ClearArchive(d, s)
           e == SaveCommand(c, key)
           r == AdmitMessage(e, s, key)
<1>1. key # NoKey
  BY KeysAreKeys
<1> HIDE DEF key
<1>2. Settles(d, d, {}, {})
  BY SettlesSelf
<1>3. Settles(d, SaveCommand(d, key), {}, {})
  BY <1>1, SaveKeeps
<1>4. CASE s \in d.sessions
  <2>1. Settles(d, c, {}, {}) /\ Only(d, c, {"archive"})
    BY ClearKeeps, ClearArchiveFields DEF Tables
  <2> HIDE DEF c
  <2>2. Settles(c, e, {}, {}) /\ Only(c, e, {"commands"}) /\ key \in e.commands
    <3>1. Tables(c) /\ TurnRules(c)
      BY <2>1 DEF Settles
    <3>2. Settles(c, e, {}, {})
      BY <3>1, <1>1, SaveKeeps
    <3>3. Only(c, e, {"commands"}) /\ key \in e.commands
      BY <3>1, SaveCommandFields DEF Tables
    <3> QED BY <3>2, <3>3
  <2> HIDE DEF e
  <2>3. Settles(d, e, {}, {})
    BY <2>1, <2>2, SettlesThen
  <2>4. e.sessions = d.sessions
    BY <2>1, <2>2 DEF Only, Fields
  <2>5. Settles(e, r, {}, {})
    BY <2>2, <2>3, <2>4, <1>4, AdmitMessageKeeps DEF Settles
  <2> HIDE DEF r
  <2>6. Settles(d, r, {}, {})
    BY <2>3, <2>5, SettlesThen
  <2> QED BY <1>2, <1>3, <2>6 DEF SubmitMessage, r, e, c, key
<1>5. CASE s \notin d.sessions
  BY <1>2, <1>3, <1>5 DEF SubmitMessage, key
<1> QED BY <1>4, <1>5

\* A created Session with its first Message.
LEMMA CreateKeeps ==
  ASSUME NEW d, Tables(d), TurnRules(d), NEW s \in Sessions \ d.sessions,
         NEW p \in d.sessions \cup {NoSession}, NEW key, key # NoKey, NEW O, NEW A, A \subseteq Actions(d)
  PROVE  LET r == AdmitMessage(SaveCommand(AddSession(d, s, p), key), s, key)
         IN  Settles(d, r, O, A)
<1> DEFINE c == AddSession(d, s, p)
           e == SaveCommand(c, key)
           r == AdmitMessage(e, s, key)
<1>1. Settles(d, c, O, A) /\ s \in c.sessions
  <2>1. Settles(d, c, O, A)
    BY AddSessionKeeps
  <2>2. c.sessions = d.sessions \cup {s}
    BY AddSessionFields DEF Tables
  <2> QED BY <2>1, <2>2
<1> HIDE DEF c
<1>2. Tables(c) /\ TurnRules(c) /\ A \subseteq Actions(c)
  BY <1>1 DEF Settles, Advances, ActionsKept
<1>3. Settles(c, e, O, A)
  BY <1>1, <1>2, SaveKeeps
<1>4. Only(c, e, {"commands"}) /\ key \in e.commands
  BY <1>2, SaveCommandFields DEF Tables
<1> HIDE DEF e
<1>5. e.sessions = c.sessions
  BY <1>4 DEF Only, Fields
<1>6. Settles(d, e, O, A)
  BY <1>1, <1>3, SettlesThen
<1>7. Settles(e, r, O, A)
  BY <1>1, <1>4, <1>5, <1>6, AdmitMessageKeeps DEF Settles
<1> HIDE DEF r
<1>8. Settles(d, r, O, A)
  BY <1>6, <1>7, SettlesThen
<1> QED BY <1>8 DEF r, e, c

\* submitCreating.
LEMMA SubmitCreatingKeeps ==
  ASSUME NEW d, Tables(d), TurnRules(d), NEW k, NEW s \in Sessions \ d.sessions
  PROVE  Settles(d, SubmitCreating(d, k, s), {}, {})
<1> DEFINE key == ClientKey(k)
<1>1. key # NoKey
  BY KeysAreKeys
<1>2. Settles(d, d, {}, {})
  BY SettlesSelf
<1> HIDE DEF key
<1>3. Settles(d, AdmitMessage(SaveCommand(AddSession(d, s, NoSession), key), s, key), {}, {})
  BY <1>1, CreateKeeps
<1> QED BY <1>2, <1>3 DEF SubmitCreating, AddSession, key

\* stopSession, archiveSession and stopOwedSession.
LEMMA StopsKeep ==
  ASSUME NEW d, Tables(d), TurnRules(d), NEW k, NEW s, NEW kind, NEW position
  PROVE  /\ Settles(d, StopSession(d, k, s, kind), {}, {})
         /\ Settles(d, StopOwedSession(d, s, position), {}, {})
<1>1. ClientKey(k) # NoKey /\ OwedStopKey(s, position) # NoKey
  BY KeysAreKeys
<1>2. Settles(d, d, {}, {})
  BY SettlesSelf
<1>3. Settles(d, SaveCommand(d, ClientKey(k)), {}, {})
  BY <1>1, SaveKeeps
<1>4. s \in d.sessions => /\ Settles(d, StopRounds(d, s, ClientKey(k), kind), {}, {})
                          /\ Settles(d, StopRounds(d, s, OwedStopKey(s, position), "session_stop"), {}, {})
  BY <1>1, StopRoundsKeeps
<1>5. [child |-> s, position |-> position] \in d.owed => s \in d.sessions
  BY DEF Tables, OwedRows
<1> QED BY <1>2, <1>3, <1>4, <1>5 DEF StopSession, StopOwedSession

\* restoreSession.
LEMMA RestoreSessionKeeps ==
  ASSUME NEW d, Tables(d), TurnRules(d), NEW k, NEW s
  PROVE  Settles(d, RestoreSession(d, k, s), {}, {})
<1> DEFINE key == ClientKey(k)
           c == SaveCommand(d, key)
           r == ClearArchive(c, s)
<1>1. key # NoKey
  BY KeysAreKeys
<1>2. Settles(d, d, {}, {})
  BY SettlesSelf
<1> HIDE DEF key
<1>3. Settles(d, c, {}, {})
  BY <1>1, SaveKeeps
<1> HIDE DEF c
<1>4. Settles(c, r, {}, {})
  BY <1>3, ClearKeeps DEF Settles
<1> HIDE DEF r
<1>5. Settles(d, r, {}, {})
  BY <1>3, <1>4, SettlesThen
<1> QED BY <1>2, <1>3, <1>5 DEF RestoreSession, r, c, key

\* An interrupted Turn with input to take stays open.
LEMMA InterruptGoesOn ==
  ASSUME NEW d, Tables(d), TurnRules(d), NEW o \in Operations(d), Unresolved(d.operations[o]),
         QueuedIn(d, SessionOfTurn(d, d.operations[o].turn)) # {}
  PROVE  Settles(d, ResolveOperation(d, o, "interrupted"), {}, {})
<1> DEFINE r == ResolveOperation(d, o, "interrupted")
           t == d.operations[o].turn
<1>1. Ended(d, r, o, "interrupted")
  BY ResolveEnds DEF OperationResolutions
<1>2. Advances(d, r, {}, {}) /\ Seated(d, r)
  BY ResolveOperationAdvances
<1>3. /\ t \in Turns(d) /\ IsOpen(d, t) /\ d.turns[t].operation = o
      /\ ActionsOf(d, o) = {} /\ ~StopSelected(d, t) /\ d.turns[t].continuation # o
  BY RunningOperation
<1> HIDE DEF r
<1>4. /\ Tables(r) /\ TurnsBut(r, t) /\ ActionWasProposed(r) /\ ToolRules(r)
      /\ r.turns = d.turns /\ r.actions = d.actions /\ r.messages = d.messages /\ r.stops = d.stops
      /\ r.operations[o].resolution = "interrupted"
  BY <1>1 DEF Ended
<1>5. QueuedIn(r, r.turns[t].session) # {} /\ ~StopSelected(r, t)
  BY <1>3, <1>4 DEF QueuedIn, Queued, Messages, SessionOfTurn, StopSelected
<1>6. ~ContinuesWithoutInput(r, o)
  BY <1>4 DEF ContinuesWithoutInput, CompleteToolResults
<1>7. TurnRule(r, t)
  BY <1>3, <1>4, <1>5, <1>6 DEF TurnRule, Agrees, StoppedWaits, GoesOn
<1>8. TurnRules(r)
  BY <1>4, <1>7 DEF TurnRules, TurnsBut
<1> QED BY <1>2, <1>4, <1>8 DEF Settles, r

\* interruptModel.
LEMMA InterruptModelKeeps ==
  ASSUME NEW d, Tables(d), TurnRules(d), NEW k, NEW o \in Operations(d)
  PROVE  Settles(d, InterruptModel(d, k, o), {}, {})
<1> DEFINE key == ClientKey(k)
           c == SaveCommand(d, key)
           t == d.operations[o].turn
           e == ResolveOperation(c, o, "interrupted")
           r == CloseTurn(e, t, "cancelled")
<1>1. key # NoKey
  BY KeysAreKeys
<1>2. Settles(d, d, {}, {})
  BY SettlesSelf
<1> HIDE DEF key
<1>3. Settles(d, c, {}, {})
  BY <1>1, SaveKeeps
<1>4. Only(d, c, {"commands"})
  BY SaveCommandFields DEF Tables
<1> HIDE DEF c
<1>5. /\ c.turns = d.turns /\ c.operations = d.operations /\ c.messages = d.messages /\ c.stops = d.stops
      /\ Tables(c) /\ TurnRules(c) /\ o \in Operations(c)
  BY <1>3, <1>4, OnlyFields DEF Settles, Tables, Operations
<1>6. CASE Unresolved(d.operations[o])
  <2>1. Unresolved(c.operations[o]) /\ t = c.operations[o].turn
    BY <1>5, <1>6
  <2>2. QueuedIn(d, SessionOfTurn(d, t)) # {} => Settles(c, e, {}, {})
    <3>1. QueuedIn(d, SessionOfTurn(d, t)) = QueuedIn(c, SessionOfTurn(c, t))
      BY <1>5 DEF QueuedIn, Queued, Messages, SessionOfTurn
    <3> HIDE DEF e
    <3>2. SUFFICES ASSUME QueuedIn(c, SessionOfTurn(c, t)) # {}
                   PROVE  Settles(c, e, {}, {})
      BY <3>1
    <3> QED BY <1>5, <2>1, <3>2, InterruptGoesOn DEF e
  <2>3. Settles(c, r, {}, {})
    <3>1. "interrupted" \in OperationResolutions \ {"none"} /\ "cancelled" \in Outcomes \ {"open"}
      BY DEF OperationResolutions, Outcomes
    <3> QED BY <1>5, <2>1, <3>1, EndedCloses
  <2> HIDE DEF e, r
  <2>4. QueuedIn(d, SessionOfTurn(d, t)) # {} => Settles(d, e, {}, {})
    BY <1>3, <2>2, SettlesThen
  <2>5. Settles(d, r, {}, {})
    BY <1>3, <2>3, SettlesThen
  <2> QED BY <1>2, <1>3, <2>4, <2>5 DEF InterruptModel, TurnOfOperation, r, e, c, key
<1>7. CASE ~Unresolved(d.operations[o])
  BY <1>2, <1>3, <1>7 DEF InterruptModel, c, key
<1> QED BY <1>6, <1>7

\* An Action nobody decided was not attempted, so no stop selected its Turn.
LEMMA UndecidedIsNotStopped ==
  ASSUME NEW d, Tables(d), TurnRules(d), NEW a \in Actions(d), Unresolved(d.actions[a]),
         ~d.actions[a].attempted
  PROVE  ~StopSelected(d, TurnOfAction(d, a))
<1> DEFINE t == TurnOfAction(d, a)
           o == d.actions[a].operation
<1>1. t \in Turns(d) /\ IsOpen(d, t) /\ d.turns[t].operation = o
  BY RunningAction
<1>2. a \in Waiting(d, t)
  BY <1>1 DEF Waiting, ActionsOf
<1>3. StoppedWaits(d, t)
  BY <1>1 DEF TurnRules, TurnRule
<1> QED BY <1>1, <1>2, <1>3 DEF StoppedWaits

\* decidePermission.
LEMMA DecidePermissionKeeps ==
  ASSUME NEW d, Tables(d), TurnRules(d), NEW k, NEW s, NEW a \in Actions(d), NEW decision
  PROVE  LET r == DecidePermission(d, k, s, a, decision)
         IN  /\ d.actions[a].authorized => Settles(d, r, {}, {})
             /\ Settles(d, r, {}, {a})
             /\ r.actions[a].attempted = d.actions[a].attempted
<1> DEFINE key == ClientKey(k)
           c == SaveCommand(d, key)
           t == TurnOfAction(d, a)
           e == Authorize(c, a)
           r == RecordContinuation(ResolveAction(c, a, "denied"), t)
<1>1. key # NoKey
  BY KeysAreKeys
<1>2. Settles(d, d, {}, {}) /\ Settles(d, d, {}, {a})
  BY SettlesSelf
<1> HIDE DEF key
<1>3. Settles(d, c, {}, {}) /\ Settles(d, c, {}, {a})
  <2>1. {} \subseteq Actions(d) /\ {a} \subseteq Actions(d)
    OBVIOUS
  <2> QED BY <1>1, <2>1, SaveKeeps
<1>4. Only(d, c, {"commands"})
  BY SaveCommandFields DEF Tables
<1> HIDE DEF c
<1>5. /\ c.turns = d.turns /\ c.operations = d.operations /\ c.actions = d.actions /\ c.stops = d.stops
      /\ Tables(c) /\ TurnRules(c) /\ a \in Actions(c) /\ t = TurnOfAction(c, a)
  BY <1>3, <1>4, OnlyFields DEF Settles, Tables, Actions, TurnOfAction, TurnOfOperation
<1>6. CASE ~d.actions[a].authorized /\ Unresolved(d.actions[a])
  <2>1. ~c.actions[a].attempted /\ Unresolved(c.actions[a])
    BY <1>5, <1>6 DEF TurnRules, ToolRules
  <2>2. Settles(c, e, {}, {a}) /\ e.actions[a].attempted = c.actions[a].attempted
    <3>1. Tables(e) /\ TurnRules(e)
      BY <1>5, AuthorizeTables, PermissionTurns
    <3>2. /\ Advances(c, e, {}, {a}) /\ Seated(c, e)
          /\ e.actions[a].attempted = c.actions[a].attempted
      BY <1>5, ActionAdvances
    <3> QED BY <3>1, <3>2 DEF Settles
  <2>3. Settles(c, r, {}, {a})
    <3>1. ~StopSelected(c, TurnOfAction(c, a))
      BY <1>5, <2>1, UndecidedIsNotStopped
    <3>2. "denied" \in ActionResolutions \ {"none"}
      BY DEF ActionResolutions
    <3> HIDE DEF t
    <3> QED BY <1>5, <2>1, <3>1, <3>2, ActionGoesOn
  <2>4. r.actions[a].attempted = c.actions[a].attempted
    <3> DEFINE q == ResolveAction(c, a, "denied")
    <3>1. q.actions[a].attempted = c.actions[a].attempted /\ Tables(q) /\ Only(c, q, {"actions"})
      BY <1>5, ResolveActionRows, ResolveActionTables DEF ActionResolutions
    <3> HIDE DEF q
    <3>4. q.turns = d.turns
      BY <1>5, <3>1, OnlyFields DEF Tables
    <3>2. t \in Turns(q)
      BY <3>4, References DEF Turns
    <3> HIDE DEF t
    <3>3. Only(q, RecordContinuation(q, t), {"turns"})
      BY <3>1, <3>2, RecordFields
    <3> QED BY <3>1, <3>3, OnlyFields DEF Tables, q
  <2> HIDE DEF e, r, t
  <2>5. Settles(d, e, {}, {a}) /\ Settles(d, r, {}, {a})
    <3>1. {a} \subseteq Actions(d)
      OBVIOUS
    <3> QED BY <1>3, <2>2, <2>3, <3>1, SettlesThen
  <2>6. DecidePermission(d, k, s, a, decision) \in {d, c, e, r}
    BY DEF DecidePermission, Authorize, e, r, t, c, key
  <2> QED BY <1>2, <1>3, <1>5, <1>6, <2>2, <2>4, <2>5, <2>6
<1>7. CASE ~(~d.actions[a].authorized /\ Unresolved(d.actions[a]))
  <2>1. DecidePermission(d, k, s, a, decision) \in {d, c}
    BY <1>7 DEF DecidePermission, c, key
  <2> QED BY <1>2, <1>3, <1>5, <2>1
<1> QED BY <1>6, <1>7

\* A feed row queued or delivered, and an owed ending settled.
LEMMA FeedKeeps ==
  ASSUME NEW d, Tables(d), TurnRules(d), NEW r, Tables(r), Only(d, r, {"forwards", "endings"}),
         NEW O, NEW A, Advances(d, r, O, A), Seated(d, r)
  PROVE  Settles(d, r, O, A)
<1>1. /\ r.turns = d.turns /\ r.operations = d.operations /\ r.actions = d.actions
      /\ r.stops = d.stops /\ r.messages = d.messages
  BY OnlyFields DEF Tables
<1>2. TurnRules(r)
  BY <1>1, TurnTablesSame
<1> QED BY <1>2 DEF Settles

\* deliverChildEnding.
EndingSettled(d, t, e) == QueueForward(MarkEnding(d, e), SessionOfTurn(d, t), "ending", t)

\* The owed row is settled and its feed row queued; nothing else changes.
LEMMA EndingSettledKeeps ==
  ASSUME NEW d, Tables(d), TurnRules(d), NEW t \in Turns(d), NEW e \in d.endings, ~e.delivered
  PROVE  LET r == EndingSettled(d, t, e)
         IN  Settles(d, r, {}, {}) /\ Only(d, r, {"forwards", "endings"})
<1> DEFINE q == MarkEnding(d, e)
           s == SessionOfTurn(d, t)
           r == QueueForward(q, s, "ending", t)
<1>1. Tables(q) /\ Only(d, q, {"endings"})
  <2>1. Tables(q)
    BY MarkEndingTables
  <2>2. Only(d, q, {"endings"})
    BY MarkEndingFields DEF Tables
  <2> QED BY <2>1, <2>2
<1>2. Advances(d, q, {}, {}) /\ Seated(d, q)
  BY MarkEndingAdvances
<1> HIDE DEF q
<1>3. t \in Nat /\ s \in q.sessions
  <2>1. t \in Nat /\ s \in d.sessions
    BY References DEF SessionOfTurn
  <2> QED BY <1>1, <2>1, OnlyFields DEF Tables
<1> HIDE DEF s
<1>4. Tables(r) /\ Only(q, r, {"forwards"})
  BY <1>1, <1>3, QueueForwardTables
<1>5. Advances(q, r, {}, {}) /\ Seated(q, r)
  BY <1>1, <1>3, QueueForwardAdvances
<1> HIDE DEF r
<1>6. Advances(d, r, {}, {}) /\ Seated(d, r)
  BY <1>2, <1>5, AdvancesThen
<1>7. Only(d, r, {"forwards", "endings"})
  BY <1>1, <1>4 DEF Only
<1>8. Settles(d, r, {}, {})
  BY <1>4, <1>6, <1>7, FeedKeeps
<1> QED BY <1>7, <1>8 DEF r, q, s, EndingSettled

\* deliverChildEnding.
LEMMA DeliverChildEndingKeeps ==
  ASSUME NEW d, Tables(d), TurnRules(d), NEW t \in Turns(d)
  PROVE  Settles(d, DeliverChildEnding(d, t), {}, {})
<1> DEFINE owed == {e \in d.endings : e.turn = t /\ ~e.delivered}
           e == CHOOSE e \in owed : TRUE
           to == d.parent[SessionOfTurn(d, t)]
           q == EndingSettled(d, t, e)
           c == SaveCommand(q, EndingKey(t))
           r == AdmitMessage(c, to, EndingKey(t))
<1>1. Settles(d, d, {}, {})
  BY SettlesSelf
<1>2. CASE owed # {}
  <2>1. e \in d.endings /\ e.turn = t /\ ~e.delivered
    BY <1>2
  <2>2. DeliverChildEnding(d, t) = IF Quiet(d, e) \/ Archived(d, to) THEN q ELSE r
    BY <1>2 DEF DeliverChildEnding, EndingSettled, MarkEnding
  <2>3. to \in d.sessions
    <3>1. to # NoSession
      BY <2>1 DEF Tables, EndingRows, SessionOfTurn
    <3>2. SessionOfTurn(d, t) \in d.sessions
      BY References DEF SessionOfTurn
    <3> QED BY <3>1, <3>2 DEF Tables, SessionRows
  <2> HIDE DEF e, to, owed
  <2>4. Settles(d, q, {}, {}) /\ Only(d, q, {"forwards", "endings"})
    BY <2>1, EndingSettledKeeps
  <2> HIDE DEF q
  <2>5. Tables(q) /\ TurnRules(q) /\ q.sessions = d.sessions
    BY <2>4, OnlyFields DEF Tables, Settles
  <2>6. EndingKey(t) # NoKey
    BY KeysAreKeys
  <2>7. Settles(q, c, {}, {})
    BY <2>5, <2>6, SaveKeeps
  <2>8. Only(q, c, {"commands"}) /\ EndingKey(t) \in c.commands
    BY <2>5, SaveCommandFields DEF Tables
  <2> HIDE DEF c
  <2>9. Tables(c) /\ TurnRules(c) /\ to \in c.sessions
    BY <2>3, <2>5, <2>7, <2>8, OnlyFields DEF Tables, Settles
  <2>10. Settles(c, r, {}, {})
    BY <2>8, <2>9, AdmitMessageKeeps
  <2> HIDE DEF r
  <2>11. Settles(q, r, {}, {})
    BY <2>7, <2>10, SettlesThen
  <2>12. Settles(d, r, {}, {})
    BY <2>4, <2>11, SettlesThen
  <2> QED BY <2>2, <2>4, <2>12
<1>3. CASE owed = {}
  BY <1>1, <1>3 DEF DeliverChildEnding
<1> QED BY <1>2, <1>3

\* forward.deliver.
LEMMA DeliverForwardKeeps ==
  ASSUME NEW d, Tables(d), TurnRules(d), NEW f \in DOMAIN d.forwards
  PROVE  Settles(d, DeliverForward(d, f), {}, {}) /\ Only(d, DeliverForward(d, f), {"forwards"})
<1> DEFINE q == MarkForward(d, f)
           row == d.forwards[f]
           r == QueueForward(q, row.target, row.kind, row.source)
<1>1. row.target \in d.sessions /\ row.kind \in {"approval", "ending"} /\ row.source \in Nat
  BY DEF Tables, ForwardRows, ForwardRow
<1>2. Settles(d, d, {}, {}) /\ Only(d, d, {"forwards"})
  BY SettlesSelf DEF Only, Tables
<1>3. Tables(q) /\ Only(d, q, {"forwards"})
  <2>1. Tables(q)
    BY MarkForwardTables
  <2>2. Only(d, q, {"forwards"})
    BY MarkForwardFields DEF Tables
  <2> QED BY <2>1, <2>2
<1>4. Advances(d, q, {}, {}) /\ Seated(d, q)
  BY MarkForwardAdvances
<1>5. DeliverForward(d, f) = IF row.delivered THEN d ELSE r
  BY DEF DeliverForward, MarkForward
<1> HIDE DEF q, row
<1>6. row.target \in q.sessions
  BY <1>1, <1>3, OnlyFields DEF Tables
<1>7. Tables(r) /\ Only(q, r, {"forwards"})
  BY <1>1, <1>3, <1>6, QueueForwardTables
<1>8. Advances(q, r, {}, {}) /\ Seated(q, r)
  BY <1>1, <1>3, <1>6, QueueForwardAdvances
<1> HIDE DEF r
<1>9. Advances(d, r, {}, {}) /\ Seated(d, r)
  BY <1>4, <1>8, AdvancesThen
<1>10. Only(d, r, {"forwards"}) /\ Only(d, r, {"forwards", "endings"})
  BY <1>3, <1>7 DEF Only
<1>11. Settles(d, r, {}, {})
  BY <1>7, <1>9, <1>10, FeedKeeps
<1> QED BY <1>2, <1>5, <1>10, <1>11

\* A core call that delivered a Message is resolved as it would be before it.
LEMMA ResolveAfter ==
  ASSUME NEW d, Tables(d), TurnRules(d), NEW a \in Actions(d), Unresolved(d.actions[a]),
         ~StopSelected(d, TurnOfAction(d, a)), NEW e, Settles(d, e, {}, {a}),
         e.actions = d.actions, e.operations = d.operations, e.stops = d.stops,
         NEW x \in ActionResolutions \ {"none"}
  PROVE  Settles(d, ResolveCore(e, a, x), {}, {a})
<1>1. /\ Tables(e) /\ TurnRules(e) /\ a \in Actions(e) /\ Unresolved(e.actions[a])
      /\ ~StopSelected(e, TurnOfAction(e, a))
  BY DEF Settles, Actions, TurnOfAction, TurnOfOperation, StopSelected
<1>2. Settles(e, ResolveCore(e, a, x), {}, {a})
  BY <1>1, ResolveCoreKeeps
<1>3. {a} \subseteq Actions(d)
  OBVIOUS
<1> QED BY <1>2, <1>3, SettlesThen

\* deliverAgentMessage.
LEMMA DeliverAgentMessageKeeps ==
  ASSUME NEW d, Tables(d), TurnRules(d), NEW a \in Actions(d), Unresolved(d.actions[a]),
         ~StopSelected(d, TurnOfAction(d, a)), NEW s
  PROVE  Settles(d, DeliverAgentMessage(d, a, s), {}, {a})
<1> DEFINE key == CallKey(a)
           c == ClearArchive(d, s)
           e == SaveCommand(c, key)
           m == AdmitMessage(e, s, key)
<1>1. key # NoKey
  BY KeysAreKeys
<1>2. "succeeded" \in ActionResolutions \ {"none"} /\ "failed" \in ActionResolutions \ {"none"}
  BY DEF ActionResolutions
<1>3. Settles(d, ResolveCore(d, a, "failed"), {}, {a})
  BY <1>2, ResolveCoreKeeps
<1>4. {a} \subseteq Actions(d)
  OBVIOUS
<1> HIDE DEF key
<1>5. CASE s \in d.sessions
  <2>1. Settles(d, c, {}, {a})
    BY <1>4, ClearKeeps
  <2>2. Only(d, c, {"archive"})
    BY ClearArchiveFields DEF Tables
  <2> HIDE DEF c
  <2>3. /\ c.sessions = d.sessions /\ c.actions = d.actions /\ c.operations = d.operations
        /\ c.stops = d.stops /\ Tables(c) /\ TurnRules(c) /\ {a} \subseteq Actions(c)
    BY <2>1, <2>2, OnlyFields DEF Tables, Settles, Actions
  <2>4. Settles(c, e, {}, {a})
    BY <1>1, <2>3, SaveKeeps
  <2>5. Only(c, e, {"commands"}) /\ key \in e.commands
    BY <2>3, SaveCommandFields DEF Tables
  <2> HIDE DEF e
  <2>6. /\ e.sessions = d.sessions /\ e.actions = d.actions /\ e.operations = d.operations
        /\ e.stops = d.stops /\ Tables(e) /\ TurnRules(e)
    BY <2>3, <2>4, <2>5, OnlyFields DEF Tables, Settles, Actions
  <2>7. Settles(d, e, {}, {a})
    BY <1>4, <2>1, <2>4, SettlesThen
  <2>8. Settles(e, m, {}, {a})
    BY <1>5, <2>5, <2>6, AdmitMessageKeeps
  <2>9. Only(e, m, {"messages"})
    BY <2>6, AdmitMessageFields DEF Tables
  <2> HIDE DEF m
  <2>10. /\ m.actions = d.actions /\ m.operations = d.operations /\ m.stops = d.stops
         /\ Settles(d, m, {}, {a})
    BY <1>4, <2>6, <2>7, <2>8, <2>9, OnlyFields, SettlesThen DEF Tables
  <2>11. Settles(d, ResolveCore(m, a, "succeeded"), {}, {a})
    BY <1>2, <2>10, ResolveAfter
  <2> QED BY <1>3, <2>11 DEF DeliverAgentMessage, m, e, c, key
<1>6. CASE s \notin d.sessions
  BY <1>3, <1>6 DEF DeliverAgentMessage
<1> QED BY <1>5, <1>6

\* startAgent.
LEMMA StartAgentKeeps ==
  ASSUME NEW d, Tables(d), TurnRules(d), NEW a \in Actions(d), Unresolved(d.actions[a]),
         ~StopSelected(d, TurnOfAction(d, a)), NEW s, NEW attached \in BOOLEAN
  PROVE  Settles(d, StartAgent(d, a, s, attached), {}, {a})
<1> DEFINE key == CallKey(a)
           p == IF attached THEN SessionOfAction(d, a) ELSE NoSession
           c == AddSession(d, s, p)
           e == SaveCommand(c, key)
           m == AdmitMessage(e, s, key)
<1>1. key # NoKey
  BY KeysAreKeys
<1>2. "succeeded" \in ActionResolutions \ {"none"} /\ "failed" \in ActionResolutions \ {"none"}
  BY DEF ActionResolutions
<1>3. Settles(d, ResolveCore(d, a, "failed"), {}, {a})
  BY <1>2, ResolveCoreKeeps
<1>4. {a} \subseteq Actions(d)
  OBVIOUS
<1>5. p \in d.sessions \cup {NoSession}
  BY References DEF SessionOfAction, SessionOfTurn
<1>6. StartAgent(d, a, s, attached) = IF s \in Sessions \ d.sessions /\ Fresh(d, key)
                                      THEN ResolveCore(m, a, "succeeded") ELSE ResolveCore(d, a, "failed")
  BY DEF StartAgent, AddSession
<1> HIDE DEF key, p
<1>7. CASE s \in Sessions \ d.sessions
  <2>1. Settles(d, m, {}, {a})
    BY <1>1, <1>4, <1>5, <1>7, CreateKeeps
  <2>2. Tables(c)
    BY <1>5, <1>7, AddSessionTables
  <2>3. Only(d, c, {"sessions", "parent"})
    BY AddSessionFields DEF Tables
  <2> HIDE DEF c
  <2>4. Only(c, e, {"commands"})
    BY <2>2, SaveCommandFields DEF Tables
  <2>5. IsStore(e)
    BY <2>4 DEF Only
  <2> HIDE DEF e
  <2>6. Only(e, m, {"messages"})
    BY <2>5, AdmitMessageFields
  <2> HIDE DEF m
  <2>7. Only(d, m, {"sessions", "parent", "commands", "messages"})
    BY <2>3, <2>4, <2>6 DEF Only
  <2>8. m.actions = d.actions /\ m.operations = d.operations /\ m.stops = d.stops
    BY <2>7, OnlyFields DEF Tables
  <2>9. Settles(d, ResolveCore(m, a, "succeeded"), {}, {a})
    BY <1>2, <2>1, <2>8, ResolveAfter
  <2> QED BY <1>3, <1>6, <2>9
<1>8. CASE s \notin Sessions \ d.sessions
  BY <1>3, <1>6, <1>8
<1> QED BY <1>7, <1>8

\* The Attempts of model calls and of Actions.
LEMMA AttemptsKeep ==
  ASSUME NEW d, Tables(d), TurnRules(d)
  PROVE  /\ \A o \in Operations(d) :
              /\ d.operations[o].ordinal < MaxAttempts => Settles(d, AdmitRetry(d, o), {o}, {})
              /\ Settles(d, ClaimAuthRefresh(d, o), {o}, {})
         /\ \A a \in Actions(d) :
              d.actions[a].authorized /\ ~IsCore(d.actions[a].tool) => Settles(d, AdmitAction(d, a), {}, {a})
<1>1. ASSUME NEW o \in Operations(d)
      PROVE  /\ d.operations[o].ordinal < MaxAttempts => Settles(d, AdmitRetry(d, o), {o}, {})
             /\ Settles(d, ClaimAuthRefresh(d, o), {o}, {})
  <2>1. TurnRules(AdmitRetry(d, o)) /\ TurnRules(ClaimAuthRefresh(d, o))
    BY AttemptTurns
  <2>2. Tables(ClaimAuthRefresh(d, o))
    BY ClaimAuthRefreshTables
  <2>3. d.operations[o].ordinal < MaxAttempts => Tables(AdmitRetry(d, o))
    BY AdmitRetryTables
  <2>4. /\ Advances(d, AdmitRetry(d, o), {o}, {}) /\ Seated(d, AdmitRetry(d, o))
        /\ Advances(d, ClaimAuthRefresh(d, o), {o}, {}) /\ Seated(d, ClaimAuthRefresh(d, o))
    BY AttemptsAdvance
  <2> QED BY <2>1, <2>2, <2>3, <2>4 DEF Settles
<1>2. ASSUME NEW a \in Actions(d), d.actions[a].authorized, ~IsCore(d.actions[a].tool)
      PROVE  Settles(d, AdmitAction(d, a), {}, {a})
  <2>1. TurnRules(AdmitAction(d, a))
    BY <1>2, PermissionTurns
  <2>2. Tables(AdmitAction(d, a))
    BY AdmitActionTables
  <2>3. Advances(d, AdmitAction(d, a), {}, {a}) /\ Seated(d, AdmitAction(d, a))
    BY ActionAdvances
  <2> QED BY <2>1, <2>2, <2>3 DEF Settles
<1> QED BY <1>1, <1>2

\* What admitNextModelAttempt changes of a stopped Turn and of an excluded Message.
StopsRespected(d, r) ==
  /\ \A m \in Messages(d) : d.messages[m].turn = 0 /\ ~Queued(d, m) => r.messages[m].turn = 0
  /\ \A t \in Turns(d) : StopSelected(d, t) =>
       /\ r.turns[t].operation = d.turns[t].operation
       /\ \A m \in Messages(d) : r.messages[m].turn = t => d.messages[m].turn = t

\* A write that seats nothing respects every stop.
LEMMA SeatedRespects ==
  ASSUME NEW d, NEW r, Seated(d, r)
  PROVE  StopsRespected(d, r)
BY DEF Seated, StopsRespected

\* admitNextModelAttempt.
LEMMA AdmitModelKeeps ==
  ASSUME NEW d, Tables(d), TurnRules(d), NEW s, MayGoOn(d, s),
         NEW purpose \in {"assistant", "compaction"}
  PROVE  LET r == AdmitModel(d, s, purpose)
             o == Len(d.operations) + 1
         IN  /\ Tables(r) /\ TurnRules(r) /\ Advances(d, r, {}, {}) /\ StopsRespected(d, r)
             /\ o \in Operations(r) /\ o \notin Operations(d) /\ Messages(r) = Messages(d)
             /\ r.operations[o].ordinal = 1 /\ r.operations[o].resolution = "none"
             /\ ~r.operations[o].waiting /\ r.archive = d.archive
<1> DEFINE r == AdmitModel(d, s, purpose)
           t == NextTurn(d, s)
           o == Len(d.operations) + 1
<1>1. Tables(r)
  BY AdmitModelTables
<1>2. TurnRules(r)
  BY AdmitModelTurns
<1>3. ModelRows(d, r, s, purpose)
  BY AdmitModelRows
<1> HIDE DEF r
<1>4. /\ Only(d, r, {"turns", "messages", "operations"})
      /\ t \in Turns(d) => IsOpen(d, t) /\ d.turns[t].session = s
      /\ Turns(r) = Turns(d) \cup {t}
      /\ \A u \in Turns(d) \ {t} : r.turns[u] = d.turns[u]
      /\ r.turns[t] \in [session : {s}, operation : {o}, outcome : {"open"},
                         continuation : 0..Len(d.operations), first : 1..Len(d.messages)]
      /\ Messages(r) = Messages(d)
      /\ \A m \in Messages(d) : \/ r.messages[m] = d.messages[m]
                                \/ /\ m \in QueuedIn(d, s)
                                   /\ r.messages[m] = [d.messages[m] EXCEPT !.turn = t]
      /\ Operations(r) = Operations(d) \cup {o}
      /\ \A p \in Operations(d) : r.operations[p] = d.operations[p]
      /\ r.operations[o] = [turn |-> t, purpose |-> purpose, ordinal |-> 1, waiting |-> FALSE,
                            claimed |-> FALSE, resolution |-> "none"]
  BY <1>3 DEF ModelRows
<1> HIDE DEF t
<1>5. o \notin Operations(d)
  BY References
<1> HIDE DEF o
<1>6. /\ r.sessions = d.sessions /\ r.parent = d.parent /\ r.actions = d.actions /\ r.stops = d.stops
      /\ r.endings = d.endings /\ r.forwards = d.forwards /\ r.archive = d.archive
  BY <1>4, OnlyFields DEF Tables
<1>7. r.turns[t].session = s /\ r.turns[t].outcome = "open"
  BY <1>4
<1>8. TurnsKept(d, r)
  BY <1>4, <1>7 DEF TurnsKept, IsOpen
<1>9. OperationsKept(d, r, {})
  BY <1>4 DEF OperationsKept
<1>10. \A m \in Messages(d) : d.messages[m] \in MessageRow(d)
  BY Columns
<1>11. \A m \in Messages(d) : /\ r.messages[m].session = d.messages[m].session
                              /\ r.messages[m].key = d.messages[m].key
                              /\ \/ r.messages[m] = d.messages[m]
                                 \/ m \in QueuedIn(d, s) /\ r.messages[m].turn = t
  BY <1>4, <1>10 DEF MessageRow
<1>12. \A m \in QueuedIn(d, s) : d.messages[m].turn = 0 /\ Queued(d, m)
  BY DEF QueuedIn, Queued
<1>13. MessagesKept(d, r)
  BY <1>4, <1>11, <1>12 DEF MessagesKept
<1>14. Advances(d, r, {}, {})
  BY <1>6, <1>8, <1>9, <1>13 DEF Advances, SessionsKept, ActionsKept, EndingsKept, ForwardsKept, Actions
<1>15. t \in Turns(d) => ~StopSelected(d, t)
  BY <1>4 DEF MayGoOn, OpenTurns
<1>16. StopsRespected(d, r)
  <2>1. \A m \in Messages(d) : d.messages[m].turn = 0 /\ ~Queued(d, m) => r.messages[m].turn = 0
    BY <1>11, <1>12
  <2>2. \A u \in Turns(d) : StopSelected(d, u) =>
          /\ r.turns[u].operation = d.turns[u].operation
          /\ \A m \in Messages(d) : r.messages[m].turn = u => d.messages[m].turn = u
    BY <1>4, <1>11, <1>15
  <2> QED BY <2>1, <2>2 DEF StopsRespected
<1>17. r.operations[o].ordinal = 1 /\ r.operations[o].resolution = "none" /\ ~r.operations[o].waiting
  BY <1>4
<1> QED BY <1>1, <1>2, <1>4, <1>5, <1>6, <1>14, <1>16, <1>17 DEF o, r

-----------------------------------------------------------------------------
(* Archives and Messages *)

\* archive_state_sql: a Session still archiving takes no Message and stays
\* archived, and what takes a Message is not archived.
ArchiveRule(d, r) ==
  \A s \in d.sessions :
    LET grew == \E m \in Messages(r) \ Messages(d) : r.messages[m].session = s
    IN  /\ Archiving(d, s) => ~grew /\ r.archive[s] # NoKey
        /\ grew => ~Archived(r, s)

\* A write that neither admits a Message nor touches an archive.
Silent(d, r) == IsStore(r) /\ r.messages = d.messages /\ r.archive = d.archive

\* A Session that is archiving is archived: a stop's key was saved.
LEMMA ArchivingIsArchived ==
  ASSUME NEW d, Tables(d), NEW s, Archiving(d, s)
  PROVE  Archived(d, s)
<1>1. PICK stop \in d.stops : stop.key = d.archive[s]
  BY DEF Archiving
<1>2. stop.key \in d.commands /\ NoKey \notin d.commands
  BY DEF Tables, StopRows, StopRow, CommandRows
<1> HIDE DEF NoKey
<1> QED BY <1>1, <1>2 DEF Archived

\* No Message, and no archive undone that was not complete.
LEMMA NoMailRule ==
  ASSUME NEW d, Tables(d), NEW r, r.messages = d.messages,
         \A s \in d.sessions : Archiving(d, s) => r.archive[s] = d.archive[s] \/ r.archive[s] # NoKey
  PROVE  ArchiveRule(d, r)
<1>1. \A s \in d.sessions : Archiving(d, s) => d.archive[s] # NoKey
  BY ArchivingIsArchived DEF Archived
<1>2. Messages(r) = Messages(d)
  BY DEF Messages
<1> HIDE DEF NoKey
<1> QED BY <1>1, <1>2 DEF ArchiveRule

\* The silent case of it.
LEMMA SilentRule ==
  ASSUME NEW d, Tables(d), NEW r, Silent(d, r)
  PROVE  ArchiveRule(d, r)
BY NoMailRule DEF Silent

\* One Message, to a Session that is not archiving and is restored by it, or to
\* one that did not exist.
LEMMA MailRule ==
  ASSUME NEW d, Tables(d), NEW r, NEW s, NEW row, row.session = s,
         r.messages = Append(d.messages, row),
         \A u \in d.sessions \ {s} : r.archive[u] = d.archive[u],
         s \in d.sessions => ~Archiving(d, s) /\ r.archive[s] = NoKey
  PROVE  ArchiveRule(d, r)
<1>1. \A u \in d.sessions : Archiving(d, u) => d.archive[u] # NoKey
  BY ArchivingIsArchived DEF Archived
<1>2. \A m \in Messages(r) \ Messages(d) : r.messages[m] = row
  <2>1. IsSeq(d.messages) /\ Messages(d) = 1..Len(d.messages) /\ Len(d.messages) \in Nat
    BY References DEF Tables, MessageRows
  <2>2. DOMAIN r.messages = 1..(Len(d.messages) + 1) /\ r.messages[Len(d.messages) + 1] = row
    BY <2>1, AppendIsSeq
  <2> QED BY <2>1, <2>2 DEF Messages
<1> HIDE DEF NoKey
<1> QED BY <1>1, <1>2 DEF ArchiveRule, Archived

\* Writes of other tables are silent.
LEMMA OnlySilent ==
  ASSUME NEW d, IsStore(d), NEW r, NEW S, Only(d, r, S), "messages" \notin S, "archive" \notin S
  PROVE  Silent(d, r)
BY OnlyFields DEF Silent

\* One silent write after another.
LEMMA SilentThen ==
  ASSUME NEW d, NEW q, NEW r, Silent(d, q), Silent(q, r)
  PROVE  Silent(d, r)
BY DEF Silent

\* The writes settlements are made of.
LEMMA SilentWrites ==
  ASSUME NEW d, IsStore(d)
  PROVE  /\ \A o, x : Silent(d, ResolveOperation(d, o, x))
         /\ \A a, x : Silent(d, ResolveAction(d, a, x))
         /\ \A key : Silent(d, SaveCommand(d, key))
         /\ \A o : Silent(d, AdmitRetry(d, o)) /\ Silent(d, ClaimAuthRefresh(d, o)) /\ Silent(d, WaitForRetry(d, o))
         /\ \A a : Silent(d, Authorize(d, a)) /\ Silent(d, AdmitAction(d, a))
         /\ \A o : Silent(d, CancelActions(d, o))
<1>1. \A o, x : Silent(d, ResolveOperation(d, o, x))
  BY ResolveOperationFields, OnlySilent
<1>2. \A a, x : Silent(d, ResolveAction(d, a, x))
  BY ResolveActionFields, OnlySilent
<1>3. \A key : Silent(d, SaveCommand(d, key))
  BY SaveCommandFields, OnlySilent
<1>4. \A o : Silent(d, AdmitRetry(d, o))
  BY AdmitRetryFields, OnlySilent
<1>5. \A o : Silent(d, ClaimAuthRefresh(d, o))
  BY ClaimAuthRefreshFields, OnlySilent
<1>6. \A o : Silent(d, WaitForRetry(d, o))
  BY WaitForRetryFields, OnlySilent
<1>7. \A a : Silent(d, Authorize(d, a))
  BY AuthorizeFields, OnlySilent
<1>8. \A a : Silent(d, AdmitAction(d, a))
  BY AdmitActionFields, OnlySilent
<1>9. \A o : Silent(d, CancelActions(d, o))
  BY CancelActionsFields, OnlySilent
<1> QED BY <1>1, <1>2, <1>3, <1>4, <1>5, <1>6, <1>7, <1>8, <1>9

\* What closes a Turn or lets it go on.
LEMMA SilentTurns ==
  ASSUME NEW d, IsStore(d)
  PROVE  /\ \A t, x : Silent(d, CloseTurn(d, t, x))
         /\ \A t : Silent(d, RecordContinuation(d, t))
         /\ \A t, a : Silent(d, CompleteStop(d, t, a))
         /\ \A s : Silent(d, OweChildStops(d, s))
<1>0. Silent(d, d)
  BY DEF Silent
<1>1. ASSUME NEW t, NEW x PROVE Silent(d, CloseTurn(d, t, x))
  <2> DEFINE q == SetOutcome(d, t, x)
  <2>1. Silent(d, q)
    BY SetOutcomeFields, OnlySilent
  <2>2. CloseTurn(d, t, x) = OweEnding(q, t)
    BY DEF CloseTurn, SetOutcome
  <2> HIDE DEF q
  <2> DEFINE y == Archived(q, q.parent[SessionOfTurn(q, t)])
  <2>3. OweEnding(q, t) = q \/ OweEnding(q, t) = AddEnding(q, t, y)
    BY DEF OweEnding, AddEnding
  <2> HIDE DEF y
  <2>4. Silent(q, AddEnding(q, t, y))
    BY <2>1, AddEndingFields, OnlySilent DEF Silent
  <2> QED BY <2>1, <2>2, <2>3, <2>4, SilentThen
<1>2. ASSUME NEW t PROVE Silent(d, RecordContinuation(d, t))
  <2>1. RecordContinuation(d, t) \in {d, SetContinuation(d, t)}
    BY DEF RecordContinuation, SetContinuation
  <2>2. Silent(d, SetContinuation(d, t))
    BY SetContinuationFields, OnlySilent
  <2> QED BY <1>0, <2>1, <2>2
<1>3. ASSUME NEW t, NEW a PROVE Silent(d, CompleteStop(d, t, a))
  <2>1. CompleteStop(d, t, a) \in {d, CloseTurn(d, t, "cancelled")}
    BY DEF CompleteStop
  <2> QED BY <1>0, <1>1, <2>1
<1>4. ASSUME NEW s PROVE Silent(d, OweChildStops(d, s))
  BY DEF OweChildStops, Silent, IsStore, Fields
<1> QED BY <1>1, <1>2, <1>3, <1>4

\* Settlements of Actions.
LEMMA SilentActions ==
  ASSUME NEW d, IsStore(d), NEW a
  PROVE  /\ \A code : Silent(d, SettleAction(d, a, code))
         /\ Silent(d, RecoverUncertain(d, a))
         /\ \A x : Silent(d, ResolveCore(d, a, x))
<1>1. ASSUME NEW x
      PROVE  LET q == ResolveAction(d, a, x)
             IN  \A t : /\ Silent(d, RecordContinuation(q, t))
                        /\ Silent(d, RecordContinuation(CompleteStop(q, t, a), t))
  <2> DEFINE q == ResolveAction(d, a, x)
  <2>1. Silent(d, q)
    BY SilentWrites
  <2> HIDE DEF q
  <2>2. IsStore(q)
    BY <2>1 DEF Silent
  <2>3. ASSUME NEW t
        PROVE  /\ Silent(d, RecordContinuation(q, t))
               /\ Silent(d, RecordContinuation(CompleteStop(q, t, a), t))
    <3> DEFINE c == CompleteStop(q, t, a)
    <3>1. Silent(q, c) /\ Silent(q, RecordContinuation(q, t))
      BY <2>2, SilentTurns
    <3> HIDE DEF c
    <3>2. Silent(c, RecordContinuation(c, t))
      BY <3>1, SilentTurns DEF Silent
    <3> QED BY <2>1, <3>1, <3>2, SilentThen DEF c
  <2> QED BY <2>3 DEF q
<1>2. ASSUME NEW code PROVE Silent(d, SettleAction(d, a, code))
  <2> DEFINE t == TurnOfAction(d, a)
             x == IF StopSelected(d, t) THEN "cancelled" ELSE code
  <2>1. SettleAction(d, a, code) = RecordContinuation(CompleteStop(ResolveAction(d, a, x), t, a), t)
    BY DEF SettleAction
  <2> HIDE DEF t, x
  <2> QED BY <1>1, <2>1
<1>3. Silent(d, RecoverUncertain(d, a))
  BY <1>1 DEF RecoverUncertain
<1>4. \A x : Silent(d, ResolveCore(d, a, x))
  BY <1>1 DEF ResolveCore
<1> QED BY <1>2, <1>3, <1>4

\* Settlements of model Attempts.
LEMMA SilentModels ==
  ASSUME NEW d, Tables(d), ToolRules(d), NEW o \in Operations(d)
  PROVE  /\ \A failure \in Failures : Silent(d, SettleFailure(d, o, failure))
         /\ Silent(d, RecoverExhausted(d, o))
         /\ \A calls \in Seq(Calls) : Silent(d, SettleSuccess(d, o, calls))
<1>0. IsStore(d)
  BY DEF Tables
<1>1. ASSUME NEW x, NEW y, NEW full \in BOOLEAN PROVE Silent(d, FailTurn(d, o, x, y, full))
  <2> DEFINE t == TurnOfOperation(d, o)
             q == ResolveOperation(d, o, x)
             c == CloseTurn(q, t, y)
  <2>1. Silent(d, q)
    BY <1>0, SilentWrites
  <2> HIDE DEF q, t
  <2>2. Silent(q, c)
    BY <2>1, SilentTurns DEF Silent
  <2> HIDE DEF c
  <2>3. \A s : Silent(c, OweChildStops(c, s))
    BY <2>2, SilentTurns DEF Silent
  <2>4. FailTurn(d, o, x, y, full) = IF full THEN OweChildStops(c, SessionOfTurn(d, t)) ELSE c
    BY DEF FailTurn, c, q, t
  <2> QED BY <2>1, <2>2, <2>3, <2>4, SilentThen
<1>2. ASSUME NEW x, NEW t PROVE Silent(d, RecordContinuation(ResolveOperation(d, o, x), t))
  <2> DEFINE q == ResolveOperation(d, o, x)
  <2>1. Silent(d, q)
    BY <1>0, SilentWrites
  <2> HIDE DEF q
  <2>2. Silent(q, RecordContinuation(q, t))
    BY <2>1, SilentTurns DEF Silent
  <2> QED BY <2>1, <2>2, SilentThen DEF q
<1>3. Silent(d, WaitForRetry(d, o))
  BY <1>0, SilentWrites
<1>4. ASSUME NEW failure \in Failures PROVE Silent(d, SettleFailure(d, o, failure))
  <2>1. d.operations[o].ordinal < MaxAttempts \/ d.operations[o].ordinal >= MaxAttempts
    BY Columns, AttemptsAssumption DEF OperationRow
  <2>2. CASE failure = "ordinary"
    BY <1>1, <2>2 DEF SettleFailure
  <2>3. CASE failure = "overflow"
    BY <1>1, <2>3 DEF SettleFailure
  <2>4. CASE failure = "overflow_recovers"
    BY <1>2, <2>4 DEF SettleFailure
  <2>5. CASE failure = "refreshed"
    BY <1>3, <2>5 DEF SettleFailure
  <2>6. CASE failure = "retryable" /\ d.operations[o].ordinal < MaxAttempts /\ ~(d.operations[o].ordinal >= MaxAttempts)
    BY <1>3, <2>6 DEF SettleFailure
  <2>7. CASE failure = "retryable" /\ d.operations[o].ordinal >= MaxAttempts /\ ~(d.operations[o].ordinal < MaxAttempts)
    BY <1>1, <2>7 DEF SettleFailure
  <2>8. d.operations[o].ordinal >= MaxAttempts => ~(d.operations[o].ordinal < MaxAttempts)
    BY Columns, AttemptsAssumption DEF OperationRow
  <2> QED BY <2>1, <2>2, <2>3, <2>4, <2>5, <2>6, <2>7, <2>8 DEF Failures
<1>5. Silent(d, RecoverExhausted(d, o))
  BY <1>1 DEF RecoverExhausted
<1>6. ASSUME NEW calls \in Seq(Calls) PROVE Silent(d, SettleSuccess(d, o, calls))
  <2> DEFINE i == ImportCalls(d, o, calls)
             t == TurnOfOperation(d, o)
  <2>1. Imported(d, i, o)
    BY ImportCallsKeeps
  <2> HIDE DEF i
  <2>2. Silent(d, i)
    BY <1>0, <2>1, OnlySilent DEF Imported
  <2>3. ASSUME NEW x PROVE /\ Silent(d, CloseTurn(ResolveOperation(i, o, x), t, "completed"))
                           /\ Silent(d, RecordContinuation(ResolveOperation(i, o, x), t))
    <3> DEFINE q == ResolveOperation(i, o, x)
    <3>1. Silent(i, q)
      BY <2>2, SilentWrites DEF Silent
    <3> HIDE DEF q
    <3>2. Silent(q, CloseTurn(q, t, "completed")) /\ Silent(q, RecordContinuation(q, t))
      BY <3>1, SilentTurns DEF Silent
    <3>3. Silent(d, q)
      BY <2>2, <3>1, SilentThen
    <3> QED BY <3>2, <3>3, SilentThen DEF q
  <2> DEFINE output == CASE d.operations[o].purpose = "compaction" -> "compacted"
                         [] d.operations[o].purpose = "assistant" /\ calls # <<>> -> "tool_proposals"
                         [] OTHER -> "answer"
  <2>4. \/ SettleSuccess(d, o, calls) = CloseTurn(ResolveOperation(i, o, output), t, "completed")
        \/ SettleSuccess(d, o, calls) = RecordContinuation(ResolveOperation(i, o, output), t)
    BY DEF SettleSuccess, i
  <2> HIDE DEF output, t
  <2> QED BY <2>3, <2>4
<1> QED BY <1>4, <1>5, <1>6

\* interruptModel and decidePermission.
LEMMA SilentCommands ==
  ASSUME NEW d, IsStore(d), NEW k
  PROVE  /\ \A o : Silent(d, InterruptModel(d, k, o))
         /\ \A s, a, decision : Silent(d, DecidePermission(d, k, s, a, decision))
<1> DEFINE c == SaveCommand(d, ClientKey(k))
<1>0. Silent(d, d)
  BY DEF Silent
<1>1. Silent(d, c) /\ IsStore(c)
  BY SilentWrites DEF Silent
<1> HIDE DEF c
<1>2. ASSUME NEW o PROVE Silent(d, InterruptModel(d, k, o))
  <2> DEFINE q == ResolveOperation(c, o, "interrupted")
             t == TurnOfOperation(d, o)
             r == CloseTurn(q, t, "cancelled")
  <2>1. Silent(c, q)
    BY <1>1, SilentWrites
  <2>2. InterruptModel(d, k, o) \in {d, c, q, r}
    BY DEF InterruptModel, c
  <2> HIDE DEF q, t
  <2>3. Silent(q, r)
    BY <2>1, SilentTurns DEF Silent
  <2> HIDE DEF r
  <2>4. Silent(d, q) /\ Silent(d, r)
    BY <1>1, <2>1, <2>3, SilentThen
  <2> QED BY <1>0, <1>1, <2>2, <2>4
<1>3. ASSUME NEW s, NEW a, NEW decision PROVE Silent(d, DecidePermission(d, k, s, a, decision))
  <2> DEFINE q == ResolveAction(c, a, "denied")
             t == TurnOfAction(d, a)
             r == RecordContinuation(q, t)
             e == Authorize(c, a)
  <2>1. Silent(c, q) /\ Silent(c, e)
    BY <1>1, SilentWrites
  <2>2. DecidePermission(d, k, s, a, decision) \in {d, c, e, r}
    BY DEF DecidePermission, Authorize, c
  <2> HIDE DEF q, t, e
  <2>3. Silent(q, r)
    BY <2>1, SilentTurns DEF Silent
  <2> HIDE DEF r
  <2>4. Silent(d, e) /\ Silent(d, r)
    BY <1>1, <2>1, <2>3, SilentThen
  <2> QED BY <1>0, <1>1, <2>2, <2>4
<1> QED BY <1>2, <1>3

\* submitTo and submitCreating.
LEMMA SubmitRule ==
  ASSUME NEW d, Tables(d), NEW k, NEW s
  PROVE  /\ ArchiveRule(d, SubmitMessage(d, k, s))
         /\ s \notin d.sessions => ArchiveRule(d, SubmitCreating(d, k, s))
<1> DEFINE key == ClientKey(k)
<1>1. ArchiveRule(d, d) /\ ArchiveRule(d, SaveCommand(d, key))
  BY SilentRule, SilentWrites DEF Tables, Silent
<1>2. CASE s \in d.sessions /\ ~Archiving(d, s)
  <2> DEFINE c == ClearArchive(d, s)
             e == SaveCommand(c, key)
             r == AdmitMessage(e, s, key)
  <2>1. Only(d, c, {"archive"}) /\ c.archive = [d.archive EXCEPT ![s] = NoKey]
    BY ClearArchiveFields DEF Tables
  <2>2. c.archive[s] = NoKey /\ (\A u \in d.sessions \ {s} : c.archive[u] = d.archive[u])
    BY <1>2, <2>1 DEF Tables, CommandRows, SessionRows
  <2>3. SubmitMessage(d, k, s) \in {d, SaveCommand(d, key), r}
    BY DEF SubmitMessage
  <2> HIDE DEF c, key
  <2>4. Silent(c, e) /\ c.messages = d.messages
    BY <2>1, SilentWrites, OnlyFields DEF Tables, Only
  <2> HIDE DEF e
  <2> DEFINE row == [session |-> s, key |-> key, turn |-> 0]
  <2>5. r.messages = Append(e.messages, row) /\ Only(e, r, {"messages"})
    BY <2>4, AdmitMessageFields DEF Silent
  <2> HIDE DEF r
  <2>6. r.archive = c.archive /\ r.messages = Append(d.messages, row) /\ row.session = s
    BY <2>4, <2>5, OnlyFields DEF Silent
  <2> HIDE DEF row
  <2>7. ArchiveRule(d, r)
    BY <1>2, <2>2, <2>6, MailRule
  <2> QED BY <1>1, <1>2, <2>3, <2>7
<1>3. CASE s \in d.sessions /\ Archiving(d, s)
  BY <1>1, <1>3 DEF SubmitMessage
<1>4. CASE s \notin d.sessions
  <2> DEFINE c == AddSession(d, s, NoSession)
             e == SaveCommand(c, key)
             r == AdmitMessage(e, s, key)
  <2>1. Only(d, c, {"sessions", "parent"})
    BY AddSessionFields DEF Tables
  <2>2. SubmitMessage(d, k, s) \in {d, SaveCommand(d, key)} /\ SubmitCreating(d, k, s) \in {d, r}
    BY <1>4 DEF SubmitMessage, SubmitCreating, AddSession
  <2> HIDE DEF c, key
  <2>3. Silent(d, c) /\ Silent(c, e)
    BY <2>1, SilentWrites, OnlySilent DEF Tables, Only
  <2>4. Silent(d, e)
    BY <2>3, SilentThen
  <2> HIDE DEF e
  <2> DEFINE row == [session |-> s, key |-> key, turn |-> 0]
  <2>5. r.messages = Append(e.messages, row) /\ Only(e, r, {"messages"})
    BY <2>4, AdmitMessageFields DEF Silent
  <2> HIDE DEF r
  <2>6. r.archive = d.archive /\ r.messages = Append(d.messages, row) /\ row.session = s
    BY <2>4, <2>5, OnlyFields DEF Silent
  <2> HIDE DEF row
  <2>7. ArchiveRule(d, r)
    BY <1>4, <2>6, MailRule
  <2> QED BY <1>1, <2>2, <2>7
<1> QED BY <1>2, <1>3, <1>4

\* restoreSession.
LEMMA RestoreRule ==
  ASSUME NEW d, Tables(d), NEW k, NEW s
  PROVE  ArchiveRule(d, RestoreSession(d, k, s))
<1> DEFINE key == ClientKey(k)
           c == SaveCommand(d, key)
           r == ClearArchive(c, s)
<1>1. Silent(d, d) /\ Silent(d, c)
  BY SilentWrites DEF Tables, Silent
<1>2. ArchiveRule(d, d) /\ ArchiveRule(d, c)
  BY <1>1, SilentRule
<1>3. \/ RestoreSession(d, k, s) \in {d, c}
      \/ RestoreSession(d, k, s) = r /\ ~Archiving(d, s)
  BY DEF RestoreSession
<1> HIDE DEF c
<1>4. Only(c, r, {"archive"}) /\ r.archive = [c.archive EXCEPT ![s] = NoKey]
  BY <1>1, ClearArchiveFields DEF Silent
<1> HIDE DEF r
<1>5. r.messages = d.messages /\ r.archive = [d.archive EXCEPT ![s] = NoKey]
  BY <1>1, <1>4, OnlyFields DEF Silent
<1>6. ~Archiving(d, s) => ArchiveRule(d, r)
  <2> SUFFICES ASSUME ~Archiving(d, s) PROVE ArchiveRule(d, r)
    OBVIOUS
  <2>1. \A u \in d.sessions \ {s} : r.archive[u] = d.archive[u]
    BY <1>5 DEF Tables, CommandRows, SessionRows
  <2>2. \A u \in d.sessions : Archiving(d, u) => r.archive[u] = d.archive[u] \/ r.archive[u] # NoKey
    BY <2>1
  <2>3. r.messages = d.messages
    BY <1>5
  <2> QED BY <2>2, <2>3, NoMailRule
<1> QED BY <1>2, <1>3, <1>6

\* stopRounds admits nothing and undoes no archive.
LEMMA StopRoundsRule ==
  ASSUME NEW d, Tables(d), NEW s \in d.sessions, NEW key, key # NoKey, NEW kind
  PROVE  ArchiveRule(d, StopRounds(d, s, key, kind))
<1> DEFINE e == SaveCommand(d, key)
           c == AddStop(e, StopRecord(d, s, key))
           h == StopArchived(d, s, key, kind)
           g == SettleOwed(h, s)
           w == OweChildStops(g, s)
           t == SelectedTurn(d, s)
<1>1. StopRounds(d, s, key, kind) = IF t = 0 THEN w ELSE StopTurn(w, t)
  BY StopRoundsIs DEF StopOwing
<1>2. h = IF kind = "session_archive" THEN ArchiveUnder(c, s, key) ELSE c
  BY DEF StopArchived, StopSaved
<1>3. Silent(d, e)
  BY SilentWrites DEF Tables
<1> HIDE DEF e, t
<1>4. Silent(e, c)
  BY <1>3, AddStopFields, OnlySilent DEF Silent
<1>5. Silent(d, c)
  BY <1>3, <1>4, SilentThen
<1> HIDE DEF c, h
<1>6. /\ Only(c, ArchiveUnder(c, s, key), {"archive", "endings"})
      /\ ArchiveUnder(c, s, key).archive = [c.archive EXCEPT ![s] = key]
  <2>1. IsStore(c)
    BY <1>5 DEF Silent
  <2> QED BY <2>1 DEF ArchiveUnder, Only, IsStore, Fields
<1>7. /\ IsStore(h) /\ h.messages = d.messages
      /\ h.archive = d.archive \/ h.archive = [d.archive EXCEPT ![s] = key]
  <2>1. CASE kind = "session_archive"
    <3>1. Only(c, h, {"archive", "endings"}) /\ h.archive = [c.archive EXCEPT ![s] = key]
      BY <1>2, <1>6, <2>1
    <3> QED BY <1>5, <3>1, OnlyFields DEF Silent
  <2>2. CASE kind # "session_archive"
    BY <1>2, <1>5, <2>2 DEF Silent
  <2> QED BY <2>1, <2>2
<1>8. Silent(h, g)
  BY <1>7, SettleOwedFields, OnlySilent
<1> HIDE DEF g
<1>9. Silent(g, w)
  BY <1>8, SilentTurns DEF Silent
<1> HIDE DEF w
<1>10. Silent(h, w)
  BY <1>8, <1>9, SilentThen
<1>11. Silent(w, StopTurn(w, t))
  <2> DEFINE o == w.turns[t].operation
             i == IF Unresolved(w.operations[o]) THEN ResolveOperation(w, o, "interrupted") ELSE w
             x == CancelActions(i, o)
  <2>1. Silent(w, i)
    BY <1>10, SilentWrites DEF Silent
  <2>2. StopTurn(w, t) \in {x, CloseTurn(x, t, "cancelled")}
    BY DEF StopTurn
  <2> HIDE DEF i, o
  <2>3. Silent(i, x)
    BY <2>1, SilentWrites DEF Silent
  <2> HIDE DEF x
  <2>4. Silent(x, CloseTurn(x, t, "cancelled"))
    BY <2>3, SilentTurns DEF Silent
  <2>5. Silent(w, x)
    BY <2>1, <2>3, SilentThen
  <2> QED BY <2>2, <2>4, <2>5, SilentThen
<1> DEFINE r == StopRounds(d, s, key, kind)
<1>12. Silent(h, r)
  BY <1>1, <1>10, <1>11, SilentThen
<1> HIDE DEF r
<1>13. /\ r.messages = d.messages
       /\ r.archive = d.archive \/ r.archive = [d.archive EXCEPT ![s] = key]
  BY <1>7, <1>12 DEF Silent
<1>14. \A u \in d.sessions : r.archive[u] = d.archive[u] \/ r.archive[u] # NoKey
  <2> HIDE DEF NoKey
  <2> QED BY <1>13 DEF Tables, CommandRows, SessionRows
<1> QED BY <1>13, <1>14, NoMailRule DEF r

\* stopSession, archiveSession and stopOwedSession.
LEMMA StopsRule ==
  ASSUME NEW d, Tables(d), NEW k, NEW s, NEW kind, NEW position
  PROVE  /\ ArchiveRule(d, StopSession(d, k, s, kind))
         /\ ArchiveRule(d, StopOwedSession(d, s, position))
<1>1. ClientKey(k) # NoKey /\ OwedStopKey(s, position) # NoKey
  BY KeysAreKeys
<1>2. ArchiveRule(d, d) /\ ArchiveRule(d, SaveCommand(d, ClientKey(k)))
  BY SilentRule, SilentWrites DEF Tables, Silent
<1>3. s \in d.sessions => /\ ArchiveRule(d, StopRounds(d, s, ClientKey(k), kind))
                          /\ ArchiveRule(d, StopRounds(d, s, OwedStopKey(s, position), "session_stop"))
  BY <1>1, StopRoundsRule
<1>4. [child |-> s, position |-> position] \in d.owed => s \in d.sessions
  BY DEF Tables, OwedRows
<1> QED BY <1>2, <1>3, <1>4 DEF StopSession, StopOwedSession

\* deliverChildEnding tells no archived parent.
LEMMA EndingRule ==
  ASSUME NEW d, Tables(d), TurnRules(d), NEW t \in Turns(d)
  PROVE  ArchiveRule(d, DeliverChildEnding(d, t))
<1> DEFINE owed == {e \in d.endings : e.turn = t /\ ~e.delivered}
           e == CHOOSE e \in owed : TRUE
           to == d.parent[SessionOfTurn(d, t)]
           q == EndingSettled(d, t, e)
           c == SaveCommand(q, EndingKey(t))
           r == AdmitMessage(c, to, EndingKey(t))
<1>1. ArchiveRule(d, d)
  BY SilentRule DEF Tables, Silent
<1>2. CASE owed # {}
  <2>1. e \in d.endings /\ e.turn = t /\ ~e.delivered
    BY <1>2
  <2>2. DeliverChildEnding(d, t) = IF Quiet(d, e) \/ Archived(d, to) THEN q ELSE r
    BY <1>2 DEF DeliverChildEnding, EndingSettled, MarkEnding
  <2> HIDE DEF e, to, owed
  <2>3. Only(d, q, {"forwards", "endings"})
    BY <2>1, EndingSettledKeeps
  <2> HIDE DEF q
  <2>4. Silent(d, q)
    BY <2>3, OnlySilent DEF Tables
  <2>5. Silent(q, c)
    BY <2>4, SilentWrites DEF Silent
  <2>6. Silent(d, c)
    BY <2>4, <2>5, SilentThen
  <2> HIDE DEF c
  <2> DEFINE row == [session |-> to, key |-> EndingKey(t), turn |-> 0]
  <2>7. r.messages = Append(c.messages, row) /\ Only(c, r, {"messages"})
    BY <2>6, AdmitMessageFields DEF Silent
  <2> HIDE DEF r
  <2>8. r.archive = d.archive /\ r.messages = Append(d.messages, row) /\ row.session = to
    BY <2>6, <2>7, OnlyFields DEF Silent
  <2> HIDE DEF row
  <2>9. ~Archived(d, to) => ArchiveRule(d, r)
    <3> SUFFICES ASSUME ~Archived(d, to) PROVE ArchiveRule(d, r)
      OBVIOUS
    <3>1. ~Archiving(d, to) /\ r.archive[to] = NoKey
      BY <2>8, ArchivingIsArchived DEF Archived
    <3> QED BY <2>8, <3>1, MailRule
  <2>10. ArchiveRule(d, q)
    BY <2>4, SilentRule
  <2> QED BY <2>2, <2>9, <2>10
<1>3. CASE owed = {}
  BY <1>1, <1>3 DEF DeliverChildEnding
<1> QED BY <1>2, <1>3

\* A silent write after one that kept the rule.
LEMMA RuleThen ==
  ASSUME NEW d, NEW q, NEW r, ArchiveRule(d, q), Silent(q, r)
  PROVE  ArchiveRule(d, r)
BY DEF ArchiveRule, Silent, Messages, Archived

\* deliverAgentMessage and startAgent.
LEMMA AgentRule ==
  ASSUME NEW d, Tables(d), NEW a, NEW s, NEW attached \in BOOLEAN
  PROVE  /\ ArchiveRule(d, DeliverAgentMessage(d, a, s))
         /\ ArchiveRule(d, StartAgent(d, a, s, attached))
<1> DEFINE key == CallKey(a)
<1>1. ArchiveRule(d, ResolveCore(d, a, "failed"))
  BY SilentActions, SilentRule DEF Tables
<1>2. CASE s \in d.sessions /\ ~Archiving(d, s)
  <2> DEFINE c == ClearArchive(d, s)
             e == SaveCommand(c, key)
             r == AdmitMessage(e, s, key)
  <2>1. Only(d, c, {"archive"}) /\ c.archive = [d.archive EXCEPT ![s] = NoKey]
    BY ClearArchiveFields DEF Tables
  <2>2. c.archive[s] = NoKey /\ (\A u \in d.sessions \ {s} : c.archive[u] = d.archive[u])
    BY <1>2, <2>1 DEF Tables, CommandRows, SessionRows
  <2>3. /\ DeliverAgentMessage(d, a, s) \in {ResolveCore(d, a, "failed"), ResolveCore(r, a, "succeeded")}
        /\ StartAgent(d, a, s, attached) = ResolveCore(d, a, "failed")
    BY <1>2 DEF DeliverAgentMessage, StartAgent
  <2> HIDE DEF c, key
  <2>4. Silent(c, e) /\ c.messages = d.messages
    BY <2>1, SilentWrites, OnlyFields DEF Tables, Only
  <2> HIDE DEF e
  <2> DEFINE row == [session |-> s, key |-> key, turn |-> 0]
  <2>5. r.messages = Append(e.messages, row) /\ Only(e, r, {"messages"})
    BY <2>4, AdmitMessageFields DEF Silent
  <2> HIDE DEF r
  <2>6. r.archive = c.archive /\ r.messages = Append(d.messages, row) /\ row.session = s /\ IsStore(r)
    BY <2>4, <2>5, OnlyFields DEF Silent
  <2> HIDE DEF row
  <2>7. ArchiveRule(d, r)
    BY <1>2, <2>2, <2>6, MailRule
  <2>8. Silent(r, ResolveCore(r, a, "succeeded"))
    BY <2>6, SilentActions
  <2> QED BY <1>1, <2>3, <2>7, <2>8, RuleThen
<1>3. CASE s \in d.sessions /\ Archiving(d, s)
  BY <1>1, <1>3 DEF DeliverAgentMessage, StartAgent
<1>4. CASE s \notin d.sessions
  <2> DEFINE p == IF attached THEN SessionOfAction(d, a) ELSE NoSession
             c == AddSession(d, s, p)
             e == SaveCommand(c, key)
             r == AdmitMessage(e, s, key)
  <2>1. Only(d, c, {"sessions", "parent"})
    BY AddSessionFields DEF Tables
  <2>2. /\ DeliverAgentMessage(d, a, s) = ResolveCore(d, a, "failed")
        /\ StartAgent(d, a, s, attached) \in {ResolveCore(d, a, "failed"), ResolveCore(r, a, "succeeded")}
    BY <1>4 DEF DeliverAgentMessage, StartAgent, AddSession
  <2> HIDE DEF c, key
  <2>3. Silent(d, c) /\ Silent(c, e)
    BY <2>1, SilentWrites, OnlySilent DEF Tables, Only
  <2>4. Silent(d, e)
    BY <2>3, SilentThen
  <2> HIDE DEF e
  <2> DEFINE row == [session |-> s, key |-> key, turn |-> 0]
  <2>5. r.messages = Append(e.messages, row) /\ Only(e, r, {"messages"})
    BY <2>4, AdmitMessageFields DEF Silent
  <2> HIDE DEF r
  <2>6. r.archive = d.archive /\ r.messages = Append(d.messages, row) /\ row.session = s /\ IsStore(r)
    BY <2>4, <2>5, OnlyFields DEF Silent
  <2> HIDE DEF row
  <2>7. ArchiveRule(d, r)
    BY <1>4, <2>6, MailRule
  <2>8. Silent(r, ResolveCore(r, a, "succeeded"))
    BY <2>6, SilentActions
  <2> QED BY <1>1, <2>2, <2>7, <2>8, RuleThen
<1> QED BY <1>2, <1>3, <1>4

\* A settled Action is resolved.
LEMMA SettledActionIsResolved ==
  ASSUME NEW d, Tables(d), NEW a \in Actions(d), NEW code, code # "none"
  PROVE  ~Unresolved(SettleAction(d, a, code).actions[a])
<1> DEFINE t == TurnOfAction(d, a)
           x == IF StopSelected(d, t) THEN "cancelled" ELSE code
           q == ResolveAction(d, a, x)
           c == CompleteStop(q, t, a)
<1>1. SettleAction(d, a, code) = RecordContinuation(c, t)
  BY DEF SettleAction
<1>2. x # "none"
  OBVIOUS
<1> HIDE DEF x, t
<1>3. q.actions[a].resolution = x /\ IsStore(q)
  BY ResolveActionRows DEF Only
<1> HIDE DEF q
<1>4. c.actions = q.actions /\ IsStore(c)
  BY <1>3 DEF CompleteStop, CloseTurn, OweEnding, IsStore, Fields
<1> HIDE DEF c
<1>5. RecordContinuation(c, t).actions = c.actions
  BY <1>4 DEF RecordContinuation, IsStore, Fields
<1> QED BY <1>1, <1>2, <1>3, <1>4, <1>5 DEF Unresolved

-----------------------------------------------------------------------------
(***************************************************************************)
(* Messages, endings and feed rows: what is told, to whom, and how often.  *)
(***************************************************************************)

\* One key admits one Message.
OneMessagePerKey(d) ==
  \A m, n \in Messages(d) : d.messages[m].key = d.messages[n].key => m = n

\* A Turn owes its ending once, when it has closed.
EndingsOwed(d) ==
  /\ \A e, f \in d.endings : e.turn = f.turn => e = f
  /\ \A e \in d.endings : ~IsOpen(d, e.turn)

\* An ending that was told was owed, is settled and was not suppressed, and no
\* stop its parent caused selected the Turn.
EndingsTold(d) ==
  \A m \in Messages(d), t \in Nat : d.messages[m].key = EndingKey(t) =>
    /\ \E e \in d.endings : e.turn = t /\ e.delivered /\ ~e.suppressed
    /\ \A stop \in d.stops : stop.turn = t => ~stop.parentCaused

\* What an archived parent is still owed is suppressed.
ArchivedHearsNothing(d) ==
  \A e \in d.endings :
    Archived(d, d.parent[d.turns[e.turn].session]) /\ ~e.delivered => e.suppressed

Mail(d) ==
  OneMessagePerKey(d) /\ EndingsOwed(d) /\ EndingsTold(d) /\ ArchivedHearsNothing(d)

AgentTools == {"message_agent", "start_agent"}

\* A call on another agent has its Message exactly when it succeeded.
CallTold(d, a) ==
  (\E m \in Messages(d) : d.messages[m].key = CallKey(a)) <=>
    d.actions[a].tool \in AgentTools /\ d.actions[a].resolution = "succeeded"

CallsTold(d) ==
  /\ \A a \in Actions(d) : CallTold(d, a)
  /\ \A m \in Messages(d), a \in Nat : d.messages[m].key = CallKey(a) => a \in Actions(d)

\* The keys are told apart by what they are for.
LEMMA KeysDiffer ==
  /\ \A t, u : EndingKey(t) = EndingKey(u) => t = u
  /\ \A a, b : CallKey(a) = CallKey(b) => a = b
  /\ \A t, a : EndingKey(t) # CallKey(a)
  /\ \A t, k : EndingKey(t) # ClientKey(k)
  /\ \A a, k : CallKey(a) # ClientKey(k)
BY DEF EndingKey, CallKey, ClientKey

\* The Messages a step adds: at most one, under a key that was not used before
\* and that no ending has.
NewMail(d, r) ==
  /\ \A m, n \in Messages(r) \ Messages(d) : m = n
  /\ \A m \in Messages(r) \ Messages(d) :
       r.messages[m].key \notin d.commands /\ \A t : r.messages[m].key # EndingKey(t)

\* The endings a step adds: at most one, of a Turn it closes, suppressed where
\* the parent is archived.
EndingsGrow(d, r) ==
  \/ r.endings = d.endings
  \/ \E t \in Turns(d) :
       /\ IsOpen(d, t) /\ ~IsOpen(r, t) /\ d.parent[d.turns[t].session] # NoSession
       /\ r.endings = d.endings \cup {[turn |-> t, suppressed |-> Archived(d, d.parent[d.turns[t].session]),
                                       delivered |-> FALSE]}

\* Sessions may be restored, none is archived.
NoneArchived(d, r) == \A s \in d.sessions : r.archive[s] = d.archive[s] \/ r.archive[s] = NoKey

\* Adding a Message or an ending in these ways keeps what is told right.
LEMMA MailGrows ==
  ASSUME NEW d, Tables(d), Mail(d), NEW r, NEW O, NEW A, Advances(d, r, O, A), NewMail(d, r),
         EndingsGrow(d, r), NoneArchived(d, r), r.stops = d.stops
  PROVE  Mail(r)
<1>0. /\ SessionsKept(d, r) /\ TurnsKept(d, r) /\ MessagesKept(d, r) /\ EndingsKept(d, r)
  BY DEF Advances
<1>1. \A m \in Messages(d) : d.messages[m].key \in d.commands
  BY Columns DEF MessageRow
<1>2. OneMessagePerKey(r)
  BY <1>0, <1>1 DEF Mail, OneMessagePerKey, MessagesKept, NewMail
<1>3. \A e \in d.endings : /\ e.turn \in Turns(d) /\ ~IsOpen(d, e.turn) /\ r.turns[e.turn] = d.turns[e.turn]
                           /\ d.turns[e.turn].session \in d.sessions
                           /\ d.parent[d.turns[e.turn].session] # NoSession
  <2>1. \A e \in d.endings : /\ e.turn \in Turns(d) /\ ~IsOpen(d, e.turn)
                             /\ d.parent[d.turns[e.turn].session] # NoSession
    BY References DEF Tables, EndingRows, EndingRow, Mail, EndingsOwed
  <2> QED BY <1>0, <2>1, References DEF TurnsKept
<1>4. d.endings \subseteq r.endings
  BY DEF EndingsGrow
<1>5. EndingsOwed(r)
  <2>1. CASE r.endings = d.endings
    BY <1>3, <2>1 DEF Mail, EndingsOwed, IsOpen
  <2>2. ASSUME NEW t \in Turns(d), IsOpen(d, t), ~IsOpen(r, t), NEW x,
               r.endings = d.endings \cup {[turn |-> t, suppressed |-> x, delivered |-> FALSE]}
        PROVE  EndingsOwed(r)
    <3> DEFINE new == [turn |-> t, suppressed |-> x, delivered |-> FALSE]
    <3>1. new.turn = t /\ r.endings = d.endings \cup {new}
      BY <2>2
    <3> HIDE DEF new
    <3>2. \A e \in d.endings : e.turn # t /\ ~IsOpen(r, e.turn)
      BY <1>3, <2>2 DEF IsOpen
    <3> QED BY <2>2, <3>1, <3>2 DEF Mail, EndingsOwed
  <2> QED BY <2>1, <2>2 DEF EndingsGrow
<1>6. EndingsTold(r)
  <2> SUFFICES ASSUME NEW m \in Messages(r), NEW t \in Nat, r.messages[m].key = EndingKey(t)
               PROVE  /\ \E e \in r.endings : e.turn = t /\ e.delivered /\ ~e.suppressed
                      /\ \A stop \in r.stops : stop.turn = t => ~stop.parentCaused
    BY DEF EndingsTold
  <2>1. m \in Messages(d) /\ d.messages[m].key = EndingKey(t)
    BY <1>0 DEF NewMail, MessagesKept
  <2>2. /\ \E e \in d.endings : e.turn = t /\ e.delivered /\ ~e.suppressed
        /\ \A stop \in d.stops : stop.turn = t => ~stop.parentCaused
    BY <2>1 DEF Mail, EndingsTold
  <2> QED BY <1>4, <2>2
<1>7. ASSUME NEW t \in Turns(d), d.parent[d.turns[t].session] # NoSession,
             Archived(r, r.parent[r.turns[t].session])
      PROVE  Archived(d, d.parent[d.turns[t].session])
  <2> DEFINE s == d.turns[t].session
  <2>1. s \in d.sessions /\ r.turns[t].session = s /\ r.parent[s] = d.parent[s]
    BY <1>0, References DEF TurnsKept, SessionsKept
  <2>2. d.parent[s] \in d.sessions
    BY <1>7, <2>1 DEF Tables, SessionRows
  <2> QED BY <1>7, <2>1, <2>2 DEF NoneArchived, Archived
<1>8. ArchivedHearsNothing(r)
  <2> SUFFICES ASSUME NEW e \in r.endings, ~e.delivered, Archived(r, r.parent[r.turns[e.turn].session])
               PROVE  e.suppressed
    BY DEF ArchivedHearsNothing
  <2>1. CASE e \in d.endings
    BY <1>3, <1>7, <2>1 DEF Mail, ArchivedHearsNothing
  <2>2. ASSUME NEW t \in Turns(d), e \notin d.endings, d.parent[d.turns[t].session] # NoSession,
               r.endings = d.endings \cup {[turn |-> t, suppressed |-> Archived(d, d.parent[d.turns[t].session]),
                                       delivered |-> FALSE]}
        PROVE  e.suppressed
    <3>1. e.turn = t /\ e.suppressed = Archived(d, d.parent[d.turns[t].session])
      BY <2>2
    <3> QED BY <1>7, <2>2, <3>1
  <2> QED BY <2>1, <2>2 DEF EndingsGrow
<1> QED BY <1>2, <1>5, <1>6, <1>8 DEF Mail

\* What a step does to the Actions of A, where it tells no agent anything: no
\* call on an agent succeeds.
NoCallSucceeds(d, r, A) ==
  \A a \in A : \/ d.actions[a].tool \notin AgentTools
               \/ Unresolved(d.actions[a]) /\ r.actions[a].resolution # "succeeded"

\* Calls and their Messages stay in step when neither is added to.
LEMMA CallsGrow ==
  ASSUME NEW d, Tables(d), CallsTold(d), NEW r, Tables(r), NEW O, NEW A, Advances(d, r, O, A),
         NoCallSucceeds(d, r, A),
         \A m \in Messages(r) \ Messages(d), a \in Nat : r.messages[m].key # CallKey(a)
  PROVE  CallsTold(r)
<1>0. ActionsKept(d, r, A) /\ MessagesKept(d, r) /\ Actions(d) \subseteq Actions(r)
  BY DEF Advances, ActionsKept
<1>1. Actions(r) \subseteq Nat
  BY References
<1>2. ASSUME NEW a \in Nat
      PROVE  (\E m \in Messages(r) : r.messages[m].key = CallKey(a)) <=>
             (\E m \in Messages(d) : d.messages[m].key = CallKey(a))
  BY <1>0 DEF MessagesKept
<1>3. ASSUME NEW a \in Actions(d) PROVE CallTold(r, a)
  <2>1. CallTold(d, a) /\ a \in Nat /\ r.actions[a].tool = d.actions[a].tool
    BY <1>0, <1>1 DEF CallsTold, ActionsKept
  <2>2. d.actions[a].tool \in AgentTools =>
          (r.actions[a].resolution = "succeeded" <=> d.actions[a].resolution = "succeeded")
    <3>1. CASE a \in A /\ Unresolved(d.actions[a])
      BY <3>1 DEF NoCallSucceeds, Unresolved
    <3>2. CASE a \notin A \/ ~Unresolved(d.actions[a])
      BY <1>0, <3>2 DEF ActionsKept, Unresolved
    <3> QED BY <3>1, <3>2
  <2> QED BY <1>2, <2>1, <2>2 DEF CallTold
<1>4. ASSUME NEW a \in Actions(r) \ Actions(d) PROVE CallTold(r, a)
  <2>1. r.actions[a].resolution # "succeeded" /\ a \in Nat
    BY <1>0, <1>1 DEF ActionsKept
  <2>2. ~\E m \in Messages(d) : d.messages[m].key = CallKey(a)
    BY <2>1 DEF CallsTold
  <2> QED BY <1>2, <2>1, <2>2 DEF CallTold
<1>5. ASSUME NEW m \in Messages(r), NEW a \in Nat, r.messages[m].key = CallKey(a) PROVE a \in Actions(r)
  BY <1>0, <1>5 DEF CallsTold, MessagesKept
<1> QED BY <1>3, <1>4, <1>5 DEF CallsTold

-----------------------------------------------------------------------------
(* Feed rows *)

IsRow(f, s, kind, source) == f.target = s /\ f.kind = kind /\ f.source = source

\* A fact has one row in a feed.
OneForward(d) ==
  \A f, g \in DOMAIN d.forwards :
    IsRow(d.forwards[f], d.forwards[g].target, d.forwards[g].kind, d.forwards[g].source) => f = g

\* The parent of s, if it has one, has its row of the fact.
HasRow(d, s, kind, source) ==
  d.parent[s] # NoSession =>
    \E f \in DOMAIN d.forwards : IsRow(d.forwards[f], d.parent[s], kind, source)

\* What asks for a decision, what was delivered as an ending and what reached one
\* ancestor has its row for the next.
ApprovalRows(d) ==
  \A a \in Actions(d) : ~d.actions[a].authorized => HasRow(d, SessionOfAction(d, a), "approval", a)
DeliveredRows(d) ==
  \A e \in d.endings : e.delivered => HasRow(d, d.turns[e.turn].session, "ending", e.turn)
NextRows(d) ==
  \A f \in DOMAIN d.forwards : d.forwards[f].delivered =>
    HasRow(d, d.forwards[f].target, d.forwards[f].kind, d.forwards[f].source)

Hops(d) == OneForward(d) /\ ApprovalRows(d) /\ DeliveredRows(d) /\ NextRows(d)

\* A row, once there, stays.
LEMMA RowStays ==
  ASSUME NEW d, NEW r, NEW O, NEW A, Advances(d, r, O, A), NEW s \in d.sessions, NEW kind, NEW source,
         HasRow(d, s, kind, source)
  PROVE  HasRow(r, s, kind, source)
<1>1. r.parent[s] = d.parent[s] /\ ForwardsKept(d, r)
  BY DEF Advances, SessionsKept
<1> QED BY <1>1 DEF HasRow, ForwardsKept, IsRow

\* Where a fact comes from stays as it was.
LEMMA SourceStays ==
  ASSUME NEW d, Tables(d), NEW r, NEW O, NEW A, Advances(d, r, O, A)
  PROVE  /\ \A a \in Actions(d) : /\ SessionOfAction(r, a) = SessionOfAction(d, a)
                                  /\ SessionOfAction(d, a) \in d.sessions
         /\ \A t \in Turns(d) : r.turns[t].session = d.turns[t].session /\ d.turns[t].session \in d.sessions
         /\ \A f \in DOMAIN d.forwards : d.forwards[f].target \in d.sessions
<1>1. /\ TurnsKept(d, r) /\ OperationsKept(d, r, O) /\ ActionsKept(d, r, A)
  BY DEF Advances
<1>2. \A t \in Turns(d) : r.turns[t].session = d.turns[t].session /\ d.turns[t].session \in d.sessions
  BY <1>1, References DEF TurnsKept
<1>3. \A f \in DOMAIN d.forwards : d.forwards[f].target \in d.sessions
  BY DEF Tables, ForwardRows, ForwardRow
<1>4. ASSUME NEW a \in Actions(d) PROVE SessionOfAction(r, a) = SessionOfAction(d, a) /\ SessionOfAction(d, a) \in d.sessions
  <2>1. /\ d.actions[a].operation \in Operations(d) /\ TurnOfAction(d, a) \in Turns(d)
    BY References
  <2>2. TurnOfAction(r, a) = TurnOfAction(d, a)
    BY <1>1, <2>1 DEF TurnOfAction, TurnOfOperation, ActionsKept, OperationsKept
  <2> QED BY <1>2, <2>1, <2>2 DEF SessionOfAction, SessionOfTurn
<1> QED BY <1>2, <1>3, <1>4

\* What was owed a row keeps it; what a step adds needs its own.
LEMMA HopsGrow ==
  ASSUME NEW d, Tables(d), Hops(d), NEW r, NEW O, NEW A, Advances(d, r, O, A), OneForward(r),
         \A a \in Actions(r) \ Actions(d) :
           ~r.actions[a].authorized => HasRow(r, SessionOfAction(r, a), "approval", a),
         \A e \in r.endings \ d.endings :
           e.delivered => HasRow(r, r.turns[e.turn].session, "ending", e.turn),
         \A f \in DOMAIN r.forwards :
           r.forwards[f].delivered /\ ~(f \in DOMAIN d.forwards /\ d.forwards[f].delivered) =>
             HasRow(r, r.forwards[f].target, r.forwards[f].kind, r.forwards[f].source)
  PROVE  Hops(r)
<1>1. ASSUME NEW a \in Actions(d), ~r.actions[a].authorized
      PROVE  HasRow(r, SessionOfAction(r, a), "approval", a)
  <2>1. ~d.actions[a].authorized
    BY <1>1 DEF Advances, ActionsKept
  <2>2. HasRow(d, SessionOfAction(d, a), "approval", a)
    BY <2>1 DEF Hops, ApprovalRows
  <2> QED BY <2>2, SourceStays, RowStays
<1>2. ASSUME NEW e \in d.endings, e.delivered
      PROVE  HasRow(r, r.turns[e.turn].session, "ending", e.turn)
  <2>1. HasRow(d, d.turns[e.turn].session, "ending", e.turn)
    BY <1>2 DEF Hops, DeliveredRows
  <2>2. e.turn \in Turns(d)
    BY References DEF Tables, EndingRows, EndingRow
  <2> QED BY <2>1, <2>2, SourceStays, RowStays
<1>3. ASSUME NEW f \in DOMAIN d.forwards, d.forwards[f].delivered
      PROVE  HasRow(r, r.forwards[f].target, r.forwards[f].kind, r.forwards[f].source)
  <2>1. HasRow(d, d.forwards[f].target, d.forwards[f].kind, d.forwards[f].source)
    BY <1>3 DEF Hops, NextRows
  <2>2. /\ r.forwards[f].target = d.forwards[f].target /\ r.forwards[f].kind = d.forwards[f].kind
        /\ r.forwards[f].source = d.forwards[f].source
    BY DEF Advances, ForwardsKept
  <2> QED BY <2>1, <2>2, SourceStays, RowStays
<1>4. ApprovalRows(r)
  BY <1>1 DEF ApprovalRows
<1>5. DeliveredRows(r)
  BY <1>2 DEF DeliveredRows
<1>6. NextRows(r)
  BY <1>3 DEF NextRows
<1> QED BY <1>4, <1>5, <1>6 DEF Hops

\* A step that touches no feed.
LEMMA HopsSame ==
  ASSUME NEW d, Tables(d), Hops(d), NEW r, NEW O, NEW A, Advances(d, r, O, A), r.forwards = d.forwards,
         \A a \in Actions(r) \ Actions(d) : r.actions[a].authorized,
         \A e \in r.endings : e.delivered => e \in d.endings
  PROVE  Hops(r)
<1>1. OneForward(r)
  BY DEF Hops, OneForward
<1> QED BY <1>1, HopsGrow

\* forward.queue: the row is there afterwards, once.
LEMMA QueuedRow ==
  ASSUME NEW d, Tables(d), OneForward(d), NEW s \in d.sessions, NEW kind \in {"approval", "ending"},
         NEW source \in Nat
  PROVE  LET r == QueueForward(d, s, kind, source)
         IN  /\ OneForward(r) /\ HasRow(r, s, kind, source)
             /\ \A f \in DOMAIN r.forwards : r.forwards[f].delivered =>
                  f \in DOMAIN d.forwards /\ d.forwards[f].delivered
<1> DEFINE r == QueueForward(d, s, kind, source)
           row == [target |-> d.parent[s], kind |-> kind, source |-> source, delivered |-> FALSE]
<1>1. /\ Only(d, r, {"forwards"})
      /\ \/ r = d /\ (d.parent[s] # NoSession =>
                          \E f \in DOMAIN d.forwards :
                            /\ d.forwards[f].target = d.parent[s] /\ d.forwards[f].kind = kind
                            /\ d.forwards[f].source = source)
         \/ /\ d.parent[s] # NoSession
            /\ r.forwards = Append(d.forwards, [target |-> d.parent[s], kind |-> kind,
                                                source |-> source, delivered |-> FALSE])
            /\ ~\E f \in DOMAIN d.forwards :
                   /\ d.forwards[f].target = d.parent[s] /\ d.forwards[f].kind = kind
                   /\ d.forwards[f].source = source
  BY QueueForwardTables
<1>2. r.parent = d.parent
  BY <1>1, OnlyFields DEF Tables
<1> HIDE DEF r
<1>3. CASE r = d
  BY <1>1, <1>3 DEF HasRow, IsRow, r
<1>4. CASE r # d
  <2>0. row.target = d.parent[s] /\ row.kind = kind /\ row.source = source /\ ~row.delivered
    OBVIOUS
  <2> HIDE DEF row
  <2>1. IsSeq(d.forwards) /\ r.forwards = Append(d.forwards, row)
    BY <1>1, <1>4 DEF Tables, ForwardRows, row
  <2> DEFINE n == Len(d.forwards) + 1
  <2>2. /\ DOMAIN d.forwards = 1..Len(d.forwards) /\ Len(d.forwards) \in Nat /\ n \notin DOMAIN d.forwards
        /\ DOMAIN r.forwards = DOMAIN d.forwards \cup {n} /\ r.forwards[n] = row
        /\ \A f \in DOMAIN d.forwards : r.forwards[f] = d.forwards[f]
    BY <2>1, AppendIsSeq, SeqDomain
  <2> HIDE DEF n
  <2>3. \A f \in DOMAIN d.forwards : ~IsRow(d.forwards[f], d.parent[s], kind, source)
    BY <1>1, <1>4 DEF IsRow
  <2>4. OneForward(r)
    BY <2>0, <2>2, <2>3 DEF OneForward, IsRow
  <2>5. HasRow(r, s, kind, source)
    BY <1>2, <2>0, <2>2 DEF HasRow, IsRow
  <2> QED BY <2>0, <2>2, <2>4, <2>5 DEF r
<1> QED BY <1>3, <1>4

\* Everything that is told.
Posted(d) == Mail(d) /\ CallsTold(d) /\ Hops(d)

\* A step that admits no Message: what it adds to the feeds is looked at apart.
LEMMA FeedPosts ==
  ASSUME NEW d, Tables(d), Posted(d), NEW r, Tables(r), NEW O, NEW A, Advances(d, r, O, A),
         NoCallSucceeds(d, r, A), EndingsGrow(d, r), NoneArchived(d, r),
         r.stops = d.stops, Messages(r) = Messages(d), Hops(r)
  PROVE  Posted(r)
<1>1. Mail(r)
  <2>1. NewMail(d, r)
    BY DEF NewMail
  <2> QED BY <2>1, MailGrows DEF Posted
<1>2. CallsTold(r)
  BY CallsGrow DEF Posted
<1> QED BY <1>1, <1>2 DEF Posted

\* The settlements, admissions and controls that tell nobody anything but an
\* ending: no feed row, no Message, no new Action, no stop.
LEMMA QuietPosts ==
  ASSUME NEW d, Tables(d), Posted(d), NEW r, Tables(r), NEW O, NEW A, Advances(d, r, O, A),
         NoCallSucceeds(d, r, A), EndingsGrow(d, r), NoneArchived(d, r),
         r.stops = d.stops, r.forwards = d.forwards, Messages(r) = Messages(d), Actions(r) = Actions(d)
  PROVE  Posted(r)
<1>1. Hops(r)
  <2>1. \A e \in r.endings : e.delivered => e \in d.endings
    BY DEF EndingsGrow
  <2> QED BY <2>1, HopsSame DEF Posted
<1> QED BY <1>1, FeedPosts

-----------------------------------------------------------------------------
(* Entry points that post nothing but an ending *)

\* Writes of Operations, Actions and commands.
PlainStep(d, q) == Only(d, q, {"operations", "actions", "commands"}) /\ Actions(q) = Actions(d)

\* Nothing beyond these tables is written, and of the endings at most one is added.
QuietStep(d, r) ==
  /\ Only(d, r, {"operations", "actions", "commands", "turns", "endings", "owed", "causes"})
  /\ Actions(r) = Actions(d) /\ Turns(r) = Turns(d) /\ EndingsGrow(d, r)

\* What writes only some tables writes only a larger set of them.
LEMMA OnlyMore ==
  ASSUME NEW d, NEW q, NEW S, NEW T, Only(d, q, S), S \subseteq T
  PROVE  Only(d, q, T)
BY DEF Only

\* Two steps that write only some tables.
LEMMA OnlyThen ==
  ASSUME NEW d, NEW q, NEW r, NEW S, Only(d, q, S), Only(q, r, S)
  PROVE  Only(d, r, S)
BY DEF Only

\* A plain write adds no ending.
LEMMA PlainIsQuiet ==
  ASSUME NEW d, IsStore(d), NEW q, PlainStep(d, q)
  PROVE  QuietStep(d, q)
<1>1. q.turns = d.turns /\ q.endings = d.endings
  BY OnlyFields DEF PlainStep
<1>2. Only(d, q, {"operations", "actions", "commands", "turns", "endings", "owed", "causes"})
  BY OnlyMore DEF PlainStep
<1> QED BY <1>1, <1>2 DEF PlainStep, QuietStep, EndingsGrow, Turns

\* One plain write after another.
LEMMA PlainThen ==
  ASSUME NEW d, NEW q, NEW r, PlainStep(d, q), PlainStep(q, r)
  PROVE  PlainStep(d, r)
BY OnlyThen DEF PlainStep

\* The plain writes.
LEMMA PlainWrites ==
  ASSUME NEW d, Tables(d)
  PROVE  /\ \A key : PlainStep(d, SaveCommand(d, key))
         /\ \A o \in Operations(d) : \A x : PlainStep(d, ResolveOperation(d, o, x))
         /\ \A o : /\ PlainStep(d, AdmitRetry(d, o)) /\ PlainStep(d, ClaimAuthRefresh(d, o))
                   /\ PlainStep(d, WaitForRetry(d, o))
         /\ \A a \in Actions(d) : \A x : PlainStep(d, ResolveAction(d, a, x))
         /\ \A a \in Actions(d) : PlainStep(d, Authorize(d, a)) /\ PlainStep(d, AdmitAction(d, a))
         /\ \A o : PlainStep(d, CancelActions(d, o))
<1>0. IsStore(d)
  BY DEF Tables
<1>1. ASSUME NEW q, Only(d, q, {"operations"}) \/ Only(d, q, {"commands"}) PROVE PlainStep(d, q)
  <2>1. Only(d, q, {"operations", "actions", "commands"}) /\ q.actions = d.actions
    BY <1>0, <1>1, OnlyMore, OnlyFields
  <2> QED BY <2>1 DEF PlainStep, Actions
<1>2. ASSUME NEW q, Only(d, q, {"actions"}), Actions(q) = Actions(d) PROVE PlainStep(d, q)
  BY <1>2, OnlyMore DEF PlainStep
<1>3. \A key : PlainStep(d, SaveCommand(d, key))
  BY <1>0, <1>1, SaveCommandFields
<1>4. \A o \in Operations(d) : \A x : PlainStep(d, ResolveOperation(d, o, x))
  BY <1>0, <1>1, ResolveOperationFields
<1>5. \A o : PlainStep(d, AdmitRetry(d, o))
  BY <1>0, <1>1, AdmitRetryFields
<1>6. \A o : PlainStep(d, ClaimAuthRefresh(d, o))
  BY <1>0, <1>1, ClaimAuthRefreshFields
<1>7. \A o : PlainStep(d, WaitForRetry(d, o))
  BY <1>0, <1>1, WaitForRetryFields
<1>8. \A a \in Actions(d) : \A x : PlainStep(d, ResolveAction(d, a, x))
  BY <1>2, ResolveActionRows
<1>9. ASSUME NEW a \in Actions(d) PROVE PlainStep(d, Authorize(d, a))
  <2> DEFINE q == Authorize(d, a)
  <2>1. Only(d, q, {"actions"}) /\ q.actions = [d.actions EXCEPT ![a].authorized = TRUE]
    BY <1>0, AuthorizeFields
  <2>2. Actions(q) = Actions(d)
    BY <2>1 DEF Actions
  <2> QED BY <1>2, <2>1, <2>2
<1>10. ASSUME NEW a \in Actions(d) PROVE PlainStep(d, AdmitAction(d, a))
  <2> DEFINE q == AdmitAction(d, a)
  <2>1. Only(d, q, {"actions"}) /\ q.actions = [d.actions EXCEPT ![a].attempted = TRUE]
    BY <1>0, AdmitActionFields
  <2>2. Actions(q) = Actions(d)
    BY <2>1 DEF Actions
  <2> QED BY <1>2, <2>1, <2>2
<1>11. ASSUME NEW o PROVE PlainStep(d, CancelActions(d, o))
  <2> DEFINE q == CancelActions(d, o)
  <2>1. /\ Only(d, q, {"actions"})
        /\ q.actions = [a \in Actions(d) |->
               IF d.actions[a].operation = o /\ Unresolved(d.actions[a]) /\ ~d.actions[a].attempted
               THEN [d.actions[a] EXCEPT !.resolution = "cancelled"] ELSE d.actions[a]]
    BY <1>0, CancelActionsFields
  <2>2. Actions(q) = Actions(d)
    BY <2>1 DEF Actions
  <2> QED BY <1>2, <2>1, <2>2
<1> QED BY <1>3, <1>4, <1>5, <1>6, <1>7, <1>8, <1>9, <1>10, <1>11

\* A Turn closes after plain writes: its ending is added or not.
LEMMA ClosingIsQuiet ==
  ASSUME NEW d, Tables(d), NEW q, Tables(q), PlainStep(d, q), NEW t \in Turns(d), IsOpen(d, t),
         NEW x \in Outcomes \ {"open"}
  PROVE  QuietStep(d, CloseTurn(q, t, x))
<1> DEFINE r == CloseTurn(q, t, x)
           s == d.turns[t].session
           y == Archived(d, d.parent[s])
<1>1. q.turns = d.turns /\ q.endings = d.endings /\ q.parent = d.parent /\ q.archive = d.archive
  BY OnlyFields DEF PlainStep, Tables
<1>2. t \in Turns(q) /\ q.turns[t].session = s /\ Archived(q, q.parent[s]) = y
  BY <1>1 DEF Turns, Archived
<1>3. /\ Only(q, r, {"turns", "endings"})
      /\ r.turns = [q.turns EXCEPT ![t].outcome = x] /\ Turns(r) = Turns(q)
      /\ \/ r.endings = q.endings
         \/ /\ q.parent[q.turns[t].session] # NoSession
            /\ r.endings = q.endings \cup {[turn |-> t, suppressed |-> Archived(q, q.parent[q.turns[t].session]),
                                            delivered |-> FALSE]}
  BY <1>2, CloseTurnFields
<1> HIDE DEF r, y
<1>4. r.actions = q.actions
  BY <1>3, OnlyFields DEF Tables
<1>5. Only(d, r, {"operations", "actions", "commands", "turns", "endings", "owed", "causes"})
  <2>1. Only(d, q, {"operations", "actions", "commands", "turns", "endings", "owed", "causes"})
    BY OnlyMore DEF PlainStep
  <2>2. Only(q, r, {"operations", "actions", "commands", "turns", "endings", "owed", "causes"})
    BY <1>3, OnlyMore
  <2> QED BY <2>1, <2>2, OnlyThen
<1>6. Turns(r) = Turns(d) /\ Actions(r) = Actions(d)
  BY <1>1, <1>3, <1>4 DEF PlainStep, Turns, Actions
<1>7. ~IsOpen(r, t)
  BY <1>1, <1>3 DEF IsOpen, Turns
<1>8. \/ r.endings = d.endings
      \/ /\ d.parent[s] # NoSession
         /\ r.endings = d.endings \cup {[turn |-> t, suppressed |-> y, delivered |-> FALSE]}
  BY <1>1, <1>2, <1>3
<1>9. EndingsGrow(d, r)
  BY <1>7, <1>8 DEF EndingsGrow, y
<1> QED BY <1>5, <1>6, <1>9 DEF QuietStep, r

\* Afterwards the continuation may be stored, or stops be owed.
LEMMA QuietThen ==
  ASSUME NEW d, NEW q, QuietStep(d, q), NEW r, Only(q, r, {"turns", "owed", "causes"}),
         Turns(r) = Turns(q), \A u \in Turns(q) : r.turns[u].outcome = q.turns[u].outcome
  PROVE  QuietStep(d, r)
<1>1. IsStore(q)
  BY DEF QuietStep, Only
<1>2. r.actions = q.actions /\ r.endings = q.endings
  BY <1>1, OnlyFields
<1>3. Only(d, r, {"operations", "actions", "commands", "turns", "endings", "owed", "causes"})
  <2>1. Only(q, r, {"operations", "actions", "commands", "turns", "endings", "owed", "causes"})
    BY OnlyMore
  <2> QED BY <2>1, OnlyThen DEF QuietStep
<1>4. EndingsGrow(d, r)
  <2>1. CASE q.endings = d.endings
    BY <1>2, <2>1 DEF EndingsGrow
  <2>2. CASE q.endings # d.endings
    <3>1. PICK t \in Turns(d) :
             /\ IsOpen(d, t) /\ ~IsOpen(q, t) /\ d.parent[d.turns[t].session] # NoSession
             /\ q.endings = d.endings \cup {[turn |-> t, suppressed |-> Archived(d, d.parent[d.turns[t].session]),
                                             delivered |-> FALSE]}
      BY <2>2 DEF QuietStep, EndingsGrow
    <3>2. ~IsOpen(r, t)
      BY <3>1 DEF QuietStep, IsOpen
    <3> QED BY <1>2, <3>1, <3>2 DEF EndingsGrow
  <2> QED BY <2>1, <2>2
<1> QED BY <1>2, <1>3, <1>4 DEF QuietStep, Actions

\* The continuation is stored.
LEMMA QuietRecord ==
  ASSUME NEW d, NEW q, Tables(q), QuietStep(d, q), NEW t \in Turns(q)
  PROVE  QuietStep(d, RecordContinuation(q, t))
<1> DEFINE r == RecordContinuation(q, t)
<1>1. /\ Only(q, r, {"turns"}) /\ Turns(r) = Turns(q)
      /\ \A u \in Turns(q) : /\ r.turns[u].session = q.turns[u].session
                             /\ r.turns[u].operation = q.turns[u].operation
                             /\ r.turns[u].outcome = q.turns[u].outcome
  BY RecordFields
<1> HIDE DEF r
<1>2. Only(q, r, {"turns", "owed", "causes"})
  BY <1>1, OnlyMore
<1> QED BY <1>1, <1>2, QuietThen DEF r

\* A quiet settlement posts what was owed.
LEMMA QuietSettles ==
  ASSUME NEW d, Tables(d), Posted(d), NEW r, NEW O, NEW A, Settles(d, r, O, A),
         NoCallSucceeds(d, r, A), QuietStep(d, r)
  PROVE  Posted(r)
<1>1. r.stops = d.stops /\ r.forwards = d.forwards /\ r.messages = d.messages /\ r.archive = d.archive
  BY OnlyFields DEF QuietStep, Tables
<1>2. NoneArchived(d, r) /\ Messages(r) = Messages(d)
  BY <1>1 DEF NoneArchived, Messages
<1>3. Advances(d, r, O, A) /\ Tables(r)
  BY DEF Settles
<1>4. Actions(r) = Actions(d) /\ EndingsGrow(d, r)
  BY DEF QuietStep
<1> QED BY <1>1, <1>2, <1>3, <1>4, QuietPosts

\* Settlements of Actions.
LEMMA QuietActions ==
  ASSUME NEW d, Tables(d), NEW a \in Actions(d), NEW code \in ActionResolutions \ {"none"}
  PROVE  /\ QuietStep(d, SettleAction(d, a, code)) /\ QuietStep(d, RecoverUncertain(d, a))
         /\ QuietStep(d, ResolveCore(d, a, code))
<1> DEFINE t == TurnOfAction(d, a)
<1>0. t \in Turns(d) /\ IsStore(d)
  BY References DEF Tables
<1> HIDE DEF t
<1>1. ASSUME NEW x \in ActionResolutions \ {"none"}
      PROVE  LET q == ResolveAction(d, a, x)
             IN  /\ QuietStep(d, RecordContinuation(q, t))
                 /\ QuietStep(d, RecordContinuation(CompleteStop(q, t, a), t))
  <2> DEFINE q == ResolveAction(d, a, x)
             c == CloseTurn(q, t, "cancelled")
  <2>1. Tables(q) /\ PlainStep(d, q)
    BY PlainWrites, ResolveActionTables
  <2> HIDE DEF q
  <2>2. QuietStep(d, q) /\ t \in Turns(q)
    BY <1>0, <2>1, PlainIsQuiet DEF QuietStep
  <2>3. QuietStep(d, RecordContinuation(q, t))
    BY <2>1, <2>2, QuietRecord
  <2>4. CASE CompleteStop(q, t, a) = q
    BY <2>3, <2>4 DEF q
  <2>5. CASE CompleteStop(q, t, a) # q
    <3>1. CompleteStop(q, t, a) = c /\ IsOpen(q, t)
      BY <2>5 DEF CompleteStop
    <3>2. IsOpen(d, t)
      BY <1>0, <2>1, <3>1, OnlyFields DEF PlainStep, IsOpen
    <3>3. "cancelled" \in Outcomes \ {"open"} /\ "cancelled" \in Outcomes
      BY DEF Outcomes
    <3>4. QuietStep(d, c)
      BY <1>0, <2>1, <3>2, <3>3, ClosingIsQuiet
    <3>5. Tables(c) /\ Turns(c) = Turns(q)
      BY <2>1, <2>2, <3>3, CloseTurnFields
    <3> HIDE DEF c
    <3>6. QuietStep(d, RecordContinuation(c, t))
      BY <2>2, <3>4, <3>5, QuietRecord
    <3> QED BY <2>3, <3>1, <3>6 DEF q
  <2> QED BY <2>4, <2>5
<1>2. "cancelled" \in ActionResolutions \ {"none"} /\ "indeterminate" \in ActionResolutions \ {"none"}
  BY DEF ActionResolutions
<1>3. QuietStep(d, SettleAction(d, a, code))
  <2>1. CASE StopSelected(d, t)
    <3>1. SettleAction(d, a, code) = RecordContinuation(CompleteStop(ResolveAction(d, a, "cancelled"), t, a), t)
      BY <2>1 DEF SettleAction, t
    <3> QED BY <1>1, <1>2, <3>1
  <2>2. CASE ~StopSelected(d, t)
    <3>1. SettleAction(d, a, code) = RecordContinuation(CompleteStop(ResolveAction(d, a, code), t, a), t)
      BY <2>2 DEF SettleAction, t
    <3> QED BY <1>1, <3>1
  <2> QED BY <2>1, <2>2
<1>4. QuietStep(d, RecoverUncertain(d, a))
  <2>1. RecoverUncertain(d, a) = RecordContinuation(CompleteStop(ResolveAction(d, a, "indeterminate"), t, a), t)
    BY DEF RecoverUncertain, t
  <2> QED BY <1>1, <1>2, <2>1
<1>5. QuietStep(d, ResolveCore(d, a, code))
  <2>1. ResolveCore(d, a, code) = RecordContinuation(ResolveAction(d, a, code), t)
    BY DEF ResolveCore, t
  <2> QED BY <1>1, <2>1
<1> QED BY <1>3, <1>4, <1>5

\* Settlements of model Attempts that propose no call.
LEMMA QuietModels ==
  ASSUME NEW d, Tables(d), TurnRules(d), NEW o \in Operations(d), Unresolved(d.operations[o])
  PROVE  /\ \A failure \in Failures : QuietStep(d, SettleFailure(d, o, failure))
         /\ QuietStep(d, RecoverExhausted(d, o))
         /\ QuietStep(d, SettleSuccess(d, o, << >>))
<1> DEFINE t == TurnOfOperation(d, o)
<1>0. t \in Turns(d) /\ IsOpen(d, t) /\ IsStore(d)
  BY RunningOperation DEF TurnOfOperation, Tables
<1> HIDE DEF t
<1>1. ASSUME NEW x \in OperationResolutions, NEW y \in Outcomes \ {"open"}
      PROVE  LET c == CloseTurn(ResolveOperation(d, o, x), t, y)
             IN  QuietStep(d, c) /\ Tables(c)
  <2> DEFINE q == ResolveOperation(d, o, x)
  <2>1. Tables(q) /\ PlainStep(d, q)
    BY PlainWrites, ResolveOperationTables
  <2>2. t \in Turns(q)
    BY <1>0, <2>1, OnlyFields DEF PlainStep, Turns
  <2> HIDE DEF q
  <2>3. Tables(CloseTurn(q, t, y))
    BY <2>1, <2>2, CloseTurnFields
  <2>4. QuietStep(d, CloseTurn(q, t, y))
    BY <1>0, <2>1, ClosingIsQuiet
  <2> QED BY <2>3, <2>4 DEF q
<1>2. ASSUME NEW x \in OperationResolutions, NEW y \in Outcomes \ {"open"}, NEW full \in BOOLEAN
      PROVE  QuietStep(d, FailTurn(d, o, x, y, full))
  <2> DEFINE c == CloseTurn(ResolveOperation(d, o, x), t, y)
             s == SessionOfTurn(d, t)
  <2>1. QuietStep(d, c) /\ Tables(c)
    BY <1>1
  <2>2. FailTurn(d, o, x, y, full) = IF full THEN OweChildStops(c, s) ELSE c
    BY DEF FailTurn, t
  <2> HIDE DEF c, s
  <2>3. Only(c, OweChildStops(c, s), {"owed", "causes"}) /\ IsStore(c)
    BY <2>1, OweChildStopsTables DEF Tables
  <2>4. /\ Only(c, OweChildStops(c, s), {"turns", "owed", "causes"})
        /\ OweChildStops(c, s).turns = c.turns
    BY <2>3, OnlyMore, OnlyFields
  <2>5. QuietStep(d, OweChildStops(c, s))
    BY <2>1, <2>4, QuietThen DEF Turns
  <2> QED BY <2>1, <2>2, <2>5
<1>3. ASSUME NEW x \in OperationResolutions
      PROVE  QuietStep(d, RecordContinuation(ResolveOperation(d, o, x), t))
  <2> DEFINE q == ResolveOperation(d, o, x)
  <2>1. Tables(q) /\ PlainStep(d, q)
    BY PlainWrites, ResolveOperationTables
  <2> HIDE DEF q
  <2>2. QuietStep(d, q) /\ t \in Turns(q)
    BY <1>0, <2>1, PlainIsQuiet DEF QuietStep
  <2>3. QuietStep(d, RecordContinuation(q, t))
    BY <2>1, <2>2, QuietRecord
  <2> QED BY <2>3 DEF q
<1>4. QuietStep(d, WaitForRetry(d, o))
  BY <1>0, PlainWrites, PlainIsQuiet
<1>5. /\ {"failed", "context_overflow", "retry_exhausted", "answer", "compacted"} \subseteq OperationResolutions
      /\ {"failed", "resource_exceeded", "retry_exhausted", "completed"} \subseteq Outcomes \ {"open"}
  BY DEF OperationResolutions, Outcomes
<1>6. ASSUME NEW failure \in Failures PROVE QuietStep(d, SettleFailure(d, o, failure))
  <2>1. d.operations[o].ordinal < MaxAttempts \/ d.operations[o].ordinal >= MaxAttempts
    BY Columns, AttemptsAssumption DEF OperationRow
  <2>2. CASE failure = "ordinary"
    BY <1>2, <1>5, <2>2 DEF SettleFailure
  <2>3. CASE failure = "overflow"
    BY <1>2, <1>5, <2>3 DEF SettleFailure
  <2>4. CASE failure = "overflow_recovers"
    BY <1>3, <1>5, <2>4 DEF SettleFailure, t
  <2>5. CASE failure = "refreshed"
    BY <1>4, <2>5 DEF SettleFailure
  <2>6. CASE failure = "retryable" /\ d.operations[o].ordinal < MaxAttempts /\ ~(d.operations[o].ordinal >= MaxAttempts)
    BY <1>4, <2>6 DEF SettleFailure
  <2>7. CASE failure = "retryable" /\ d.operations[o].ordinal >= MaxAttempts /\ ~(d.operations[o].ordinal < MaxAttempts)
    BY <1>2, <1>5, <2>7 DEF SettleFailure
  <2>8. d.operations[o].ordinal >= MaxAttempts => ~(d.operations[o].ordinal < MaxAttempts)
    BY Columns, AttemptsAssumption DEF OperationRow
  <2> QED BY <2>1, <2>2, <2>3, <2>4, <2>5, <2>6, <2>7, <2>8 DEF Failures
<1>7. QuietStep(d, RecoverExhausted(d, o))
  BY <1>2, <1>5 DEF RecoverExhausted
<1>8. QuietStep(d, SettleSuccess(d, o, << >>))
  <2> DEFINE q == ImportCalls(d, o, << >>)
  <2>1. q = d
    <3>1. Len(<< >>) = 0 /\ Len(<< >>) \in Nat
      OBVIOUS
    <3>2. PICK after : ImportRun(d, o, << >>, after)
      BY <3>1, ImportCallsFunction
    <3>3. after = [n \in 0..0 |-> IF n = 0 THEN d ELSE ImportCall(after[n - 1], o, << >>[n])] /\ q = after[0]
      BY <3>1, <3>2 DEF ImportRun
    <3>4. 0 \in 0..0
      OBVIOUS
    <3> QED BY <3>3, <3>4
  <2> HIDE DEF q
  <2>2. PICK output \in {"compacted", "answer"} :
          SettleSuccess(d, o, << >>) =
            IF output = "answer" /\ QueuedIn(d, SessionOfTurn(d, t)) = {}
            THEN CloseTurn(ResolveOperation(q, o, output), t, "completed")
            ELSE RecordContinuation(ResolveOperation(q, o, output), t)
    BY DEF SettleSuccess, q, t
  <2>3. QuietStep(d, CloseTurn(ResolveOperation(d, o, output), t, "completed"))
    BY <1>1, <1>5
  <2>4. QuietStep(d, RecordContinuation(ResolveOperation(d, o, output), t))
    BY <1>3, <1>5
  <2> QED BY <2>1, <2>2, <2>3, <2>4
<1> QED BY <1>6, <1>7, <1>8

\* Interruptions and decisions.
LEMMA QuietCommands ==
  ASSUME NEW d, Tables(d), NEW k
  PROVE  /\ \A o : QuietStep(d, InterruptModel(d, k, o))
         /\ \A a \in Actions(d) : \A s, decision : QuietStep(d, DecidePermission(d, k, s, a, decision))
<1> DEFINE p == SaveCommand(d, ClientKey(k))
<1>0. IsStore(d)
  BY DEF Tables
<1>1. Tables(p) /\ PlainStep(d, p) /\ PlainStep(d, d)
  <2>1. PlainStep(d, d)
    BY <1>0 DEF PlainStep, Only, IsStore
  <2> QED BY <2>1, PlainWrites, SaveCommandTables, KeysAreKeys
<1> HIDE DEF p
<1>2. /\ p.turns = d.turns /\ p.operations = d.operations /\ Actions(p) = Actions(d)
  <2>1. Only(d, p, {"commands"})
    BY <1>0, SaveCommandFields DEF p
  <2> QED BY <1>0, <2>1, OnlyFields DEF Actions
<1>3. QuietStep(d, d) /\ QuietStep(d, p)
  BY <1>0, <1>1, PlainIsQuiet
<1>4. ASSUME NEW o PROVE QuietStep(d, InterruptModel(d, k, o))
  <2> DEFINE t == TurnOfOperation(d, o)
             q == ResolveOperation(p, o, "interrupted")
  <2>1. \/ InterruptModel(d, k, o) \in {d, p}
        \/ /\ o \in Operations(d) /\ IsOpen(d, t)
           /\ InterruptModel(d, k, o) \in {q, CloseTurn(q, t, "cancelled")}
    BY DEF InterruptModel, p
  <2>2. CASE InterruptModel(d, k, o) \in {d, p}
    BY <1>3, <2>2
  <2>3. CASE /\ o \in Operations(d) /\ IsOpen(d, t)
             /\ InterruptModel(d, k, o) \in {q, CloseTurn(q, t, "cancelled")}
    <3>1. t \in Turns(d) /\ o \in Operations(p)
      BY <1>2, <2>3, References DEF TurnOfOperation, Operations
    <3>2. "interrupted" \in OperationResolutions /\ "cancelled" \in Outcomes \ {"open"}
      BY DEF OperationResolutions, Outcomes
    <3>3. Tables(q) /\ PlainStep(p, q)
      BY <1>1, <3>1, <3>2, PlainWrites, ResolveOperationTables
    <3> HIDE DEF q, t
    <3>4. PlainStep(d, q)
      BY <1>1, <3>3, PlainThen
    <3>5. QuietStep(d, q)
      BY <1>0, <3>4, PlainIsQuiet
    <3>6. QuietStep(d, CloseTurn(q, t, "cancelled"))
      BY <2>3, <3>1, <3>2, <3>3, <3>4, ClosingIsQuiet
    <3> QED BY <2>3, <3>5, <3>6
  <2> QED BY <2>1, <2>2, <2>3
<1>5. ASSUME NEW s, NEW a \in Actions(d), NEW decision
      PROVE  QuietStep(d, DecidePermission(d, k, s, a, decision))
  <2> DEFINE t == TurnOfAction(d, a)
             q == ResolveAction(p, a, "denied")
  <2>1. DecidePermission(d, k, s, a, decision) \in {d, p, Authorize(p, a), RecordContinuation(q, t)}
    BY DEF DecidePermission, p, Authorize
  <2>2. a \in Actions(p) /\ "denied" \in ActionResolutions
    BY <1>2 DEF ActionResolutions
  <2>3. QuietStep(d, Authorize(p, a))
    <3>1. PlainStep(p, Authorize(p, a))
      BY <1>1, <2>2, PlainWrites
    <3> QED BY <1>0, <1>1, <3>1, PlainThen, PlainIsQuiet
  <2>4. Tables(q) /\ PlainStep(p, q)
    BY <1>1, <2>2, PlainWrites, ResolveActionTables
  <2> HIDE DEF q
  <2>5. QuietStep(d, q)
    BY <1>0, <1>1, <2>4, PlainThen, PlainIsQuiet
  <2>6. t \in Turns(q)
    BY <2>5, References DEF QuietStep
  <2>7. QuietStep(d, RecordContinuation(q, t))
    BY <2>4, <2>5, <2>6, QuietRecord
  <2> QED BY <1>3, <2>1, <2>3, <2>7
<1> QED BY <1>4, <1>5

-----------------------------------------------------------------------------
(* Each entry point posts what it owes *)

\* Settlements and recoveries of model Attempts, without a call.
LEMMA ModelsPost ==
  ASSUME NEW d, Tables(d), TurnRules(d), Posted(d), NEW o \in Operations(d), Unresolved(d.operations[o])
  PROVE  /\ \A failure \in Failures : Posted(SettleFailure(d, o, failure))
         /\ Posted(RecoverExhausted(d, o))
         /\ Posted(SettleSuccess(d, o, << >>))
<1>1. \A r : NoCallSucceeds(d, r, {})
  BY DEF NoCallSucceeds
<1>2. ASSUME NEW failure \in Failures PROVE Posted(SettleFailure(d, o, failure))
  BY <1>1, QuietModels, QuietSettles, SettleFailureKeeps
<1>3. Posted(RecoverExhausted(d, o))
  BY <1>1, QuietModels, QuietSettles, SettleFailureKeeps
<1>4. Posted(SettleSuccess(d, o, << >>))
  <2>1. << >> \in Seq(Calls)
    OBVIOUS
  <2>2. Settles(d, SettleSuccess(d, o, << >>), {o}, {})
    BY <2>1, SettleSuccessKeeps
  <2> QED BY <1>1, <2>2, QuietModels, QuietSettles
<1> QED BY <1>2, <1>3, <1>4

\* Attempts, and the Actions that end one.
LEMMA AttemptsPost ==
  ASSUME NEW d, Tables(d), TurnRules(d), Posted(d)
  PROVE  /\ \A o \in Operations(d) :
              /\ d.operations[o].ordinal < MaxAttempts => Posted(AdmitRetry(d, o))
              /\ Posted(ClaimAuthRefresh(d, o))
         /\ \A a \in Actions(d) :
              /\ d.actions[a].authorized /\ ~IsCore(d.actions[a].tool) => Posted(AdmitAction(d, a))
              /\ d.actions[a].attempted /\ Unresolved(d.actions[a]) =>
                   /\ \A code \in ActionResolutions \ {"none"} : Posted(SettleAction(d, a, code))
                   /\ Posted(RecoverUncertain(d, a))
<1>0. IsStore(d)
  BY DEF Tables
<1>1. \A r : NoCallSucceeds(d, r, {})
  BY DEF NoCallSucceeds
<1>2. \A a : ~IsCore(d.actions[a].tool) => \A r : NoCallSucceeds(d, r, {a})
  BY DEF NoCallSucceeds, IsCore, AgentTools
<1>3. ASSUME NEW o \in Operations(d), d.operations[o].ordinal < MaxAttempts PROVE Posted(AdmitRetry(d, o))
  <2>1. QuietStep(d, AdmitRetry(d, o)) /\ Settles(d, AdmitRetry(d, o), {o}, {})
    BY <1>0, <1>3, PlainWrites, PlainIsQuiet, AttemptsKeep
  <2> QED BY <1>1, <2>1, QuietSettles
<1>4. ASSUME NEW o \in Operations(d) PROVE Posted(ClaimAuthRefresh(d, o))
  <2>1. QuietStep(d, ClaimAuthRefresh(d, o)) /\ Settles(d, ClaimAuthRefresh(d, o), {o}, {})
    BY <1>0, PlainWrites, PlainIsQuiet, AttemptsKeep
  <2> QED BY <1>1, <2>1, QuietSettles
<1>5. ASSUME NEW a \in Actions(d), d.actions[a].authorized, ~IsCore(d.actions[a].tool)
      PROVE  Posted(AdmitAction(d, a))
  <2>1. QuietStep(d, AdmitAction(d, a)) /\ Settles(d, AdmitAction(d, a), {}, {a})
    BY <1>0, <1>5, PlainWrites, PlainIsQuiet, AttemptsKeep
  <2> QED BY <1>2, <1>5, <2>1, QuietSettles
<1>6. ASSUME NEW a \in Actions(d), d.actions[a].attempted, Unresolved(d.actions[a])
      PROVE  /\ \A code \in ActionResolutions \ {"none"} : Posted(SettleAction(d, a, code))
             /\ Posted(RecoverUncertain(d, a))
  <2>1. ~IsCore(d.actions[a].tool)
    BY <1>6 DEF TurnRules, ToolRules
  <2>2. ASSUME NEW code \in ActionResolutions \ {"none"} PROVE Posted(SettleAction(d, a, code))
    <3>1. QuietStep(d, SettleAction(d, a, code)) /\ Settles(d, SettleAction(d, a, code), {}, {a})
      BY <1>6, QuietActions, SettleActionKeeps
    <3> QED BY <1>2, <2>1, <3>1, QuietSettles
  <2>3. Posted(RecoverUncertain(d, a))
    <3>1. "failed" \in ActionResolutions \ {"none"}
      BY DEF ActionResolutions
    <3>2. QuietStep(d, RecoverUncertain(d, a)) /\ Settles(d, RecoverUncertain(d, a), {}, {a})
      BY <1>6, <3>1, QuietActions, SettleActionKeeps
    <3> QED BY <1>2, <2>1, <3>2, QuietSettles
  <2> QED BY <2>2, <2>3
<1> QED BY <1>3, <1>4, <1>5, <1>6

\* Interruptions and decisions.  Only a call of Bash waits for a decision.
LEMMA CommandsPost ==
  ASSUME NEW d, Tables(d), TurnRules(d), Posted(d), NEW k
  PROVE  /\ \A o \in Operations(d) : Posted(InterruptModel(d, k, o))
         /\ \A a \in Actions(d) : \A s, decision : Posted(DecidePermission(d, k, s, a, decision))
<1>1. \A r : NoCallSucceeds(d, r, {})
  BY DEF NoCallSucceeds
<1>2. ASSUME NEW o \in Operations(d) PROVE Posted(InterruptModel(d, k, o))
  BY <1>1, QuietCommands, InterruptModelKeeps, QuietSettles
<1>3. ASSUME NEW s, NEW a \in Actions(d), NEW decision PROVE Posted(DecidePermission(d, k, s, a, decision))
  <2> DEFINE r == DecidePermission(d, k, s, a, decision)
  <2>1. QuietStep(d, r)
    BY QuietCommands
  <2>2. /\ d.actions[a].authorized => Settles(d, r, {}, {})
        /\ Settles(d, r, {}, {a})
    BY DecidePermissionKeeps
  <2> HIDE DEF r
  <2>3. CASE d.actions[a].authorized
    BY <1>1, <2>1, <2>2, <2>3, QuietSettles DEF r
  <2>4. CASE ~d.actions[a].authorized
    <3>1. ~IsCore(d.actions[a].tool)
      BY <2>4 DEF TurnRules, ToolRules
    <3>2. NoCallSucceeds(d, r, {a})
      BY <3>1 DEF NoCallSucceeds, IsCore, AgentTools
    <3> QED BY <2>1, <2>2, <3>2, QuietSettles DEF r
  <2> QED BY <2>3, <2>4
<1> QED BY <1>2, <1>3

\* A Session is restored.
LEMMA RestorePosts ==
  ASSUME NEW d, Tables(d), TurnRules(d), Posted(d), NEW k, NEW s
  PROVE  Posted(RestoreSession(d, k, s))
<1> DEFINE r == RestoreSession(d, k, s)
           p == SaveCommand(d, ClientKey(k))
           c == ClearArchive(p, s)
<1>0. IsStore(d) /\ d.sessions \subseteq Sessions /\ DOMAIN d.archive = Sessions
  BY DEF Tables, SessionRows, CommandRows
<1>1. Tables(r) /\ Advances(d, r, {}, {})
  BY RestoreSessionKeeps DEF Settles
<1>2. r \in {d, p, c}
  BY DEF RestoreSession
<1>3. Only(d, p, {"commands"}) /\ IsStore(p)
  BY <1>0, SaveCommandFields DEF Only
<1>4. Only(p, c, {"archive"}) /\ c.archive = [p.archive EXCEPT ![s] = NoKey]
  BY <1>3, ClearArchiveFields
<1> HIDE DEF r, p, c
<1>5. p.archive = d.archive
  BY <1>0, <1>3, OnlyFields
<1>6. Only(d, r, {"commands", "archive"})
  <2>1. Only(d, d, {"commands", "archive"}) /\ Only(d, p, {"commands", "archive"})
    BY <1>0, <1>3 DEF Only
  <2>2. Only(d, c, {"commands", "archive"})
    BY <1>3, <1>4 DEF Only
  <2> QED BY <1>2, <2>1, <2>2
<1>7. NoneArchived(d, r)
  BY <1>0, <1>2, <1>4, <1>5 DEF NoneArchived
<1>8. /\ r.stops = d.stops /\ r.forwards = d.forwards /\ r.messages = d.messages
      /\ r.actions = d.actions /\ r.endings = d.endings
  BY <1>0, <1>6, OnlyFields
<1>9. NoCallSucceeds(d, r, {}) /\ EndingsGrow(d, r) /\ Messages(r) = Messages(d) /\ Actions(r) = Actions(d)
  BY <1>8 DEF NoCallSucceeds, EndingsGrow, Messages, Actions
<1> QED BY <1>1, <1>7, <1>8, <1>9, QuietPosts DEF r

\* A model call is admitted.
LEMMA AdmitModelPosts ==
  ASSUME NEW d, Tables(d), TurnRules(d), Posted(d), NEW s, MayGoOn(d, s),
         NEW purpose \in {"assistant", "compaction"}
  PROVE  Posted(AdmitModel(d, s, purpose))
<1> DEFINE r == AdmitModel(d, s, purpose)
<1>1. Tables(r) /\ Advances(d, r, {}, {}) /\ Messages(r) = Messages(d)
  BY AdmitModelKeeps
<1>2. Only(d, r, {"turns", "messages", "operations"})
  BY AdmitModelRows DEF ModelRows
<1> HIDE DEF r
<1>3. /\ r.stops = d.stops /\ r.forwards = d.forwards /\ r.archive = d.archive
      /\ r.actions = d.actions /\ r.endings = d.endings
  BY <1>2, OnlyFields DEF Tables
<1>4. NoCallSucceeds(d, r, {}) /\ EndingsGrow(d, r) /\ NoneArchived(d, r) /\ Actions(r) = Actions(d)
  BY <1>3 DEF NoCallSucceeds, EndingsGrow, NoneArchived, Actions
<1> QED BY <1>1, <1>3, <1>4, QuietPosts DEF r

\* The step admits one Message, under a key that has no answer yet; where the key
\* is a call's, that call succeeds.
OnePosted(d, r, key) ==
  /\ key \notin d.commands /\ \A t : key # EndingKey(t)
  /\ r.endings = d.endings /\ r.stops = d.stops /\ r.forwards = d.forwards
  /\ Actions(r) = Actions(d) /\ NoneArchived(d, r)
  /\ \E s : r.messages = Append(d.messages, [session |-> s, key |-> key, turn |-> 0])

\* A Message is admitted.
LEMMA MessagePosts ==
  ASSUME NEW d, Tables(d), Posted(d), NEW r, NEW A, Settles(d, r, {}, A), NEW key, OnePosted(d, r, key),
         \A a \in Nat : key = CallKey(a) =>
           /\ a \in Actions(d) /\ d.actions[a].tool \in AgentTools
           /\ r.actions[a].resolution = "succeeded",
         \A a \in A : key = CallKey(a)
  PROVE  Posted(r)
<1>0. /\ Tables(r) /\ Advances(d, r, {}, A) /\ ActionsKept(d, r, A) /\ MessagesKept(d, r)
  BY DEF Settles, Advances
<1>1. PICK s : r.messages = Append(d.messages, [session |-> s, key |-> key, turn |-> 0])
  BY DEF OnePosted
<1> DEFINE n == Len(d.messages) + 1
           row == [session |-> s, key |-> key, turn |-> 0]
<1>2. row.key = key /\ r.messages = Append(d.messages, row) /\ IsSeq(d.messages)
  BY <1>1 DEF Tables, MessageRows
<1> HIDE DEF row
<1>3. /\ Messages(r) = Messages(d) \cup {n} /\ n \notin Messages(d) /\ r.messages[n].key = key
      /\ \A m \in Messages(d) : r.messages[m] = d.messages[m]
  <2>1. /\ DOMAIN d.messages = 1..Len(d.messages) /\ Len(d.messages) \in Nat
        /\ DOMAIN r.messages = 1..(Len(d.messages) + 1) /\ r.messages[n] = row
        /\ \A m \in 1..Len(d.messages) : r.messages[m] = d.messages[m]
    BY <1>2, AppendIsSeq, SeqDomain
  <2> QED BY <1>2, <2>1 DEF Messages
<1> HIDE DEF n
<1>4. Mail(r)
  <2>1. NewMail(d, r)
    BY <1>3 DEF NewMail, OnePosted
  <2>2. EndingsGrow(d, r)
    BY DEF EndingsGrow, OnePosted
  <2> QED BY <1>0, <2>1, <2>2, MailGrows DEF Posted, OnePosted
<1>5. Hops(r)
  BY <1>0, HopsSame DEF Posted, OnePosted
<1>6. Actions(r) = Actions(d) /\ Actions(d) \subseteq Nat
  BY References DEF OnePosted
<1>7. ASSUME NEW a \in Actions(d) PROVE CallTold(r, a)
  <2>1. CallTold(d, a) /\ a \in Nat /\ r.actions[a].tool = d.actions[a].tool
    BY <1>0, <1>6 DEF Posted, CallsTold, ActionsKept
  <2>2. CASE key = CallKey(a)
    <3>1. \E m \in Messages(r) : r.messages[m].key = CallKey(a)
      BY <1>3, <2>2
    <3> QED BY <2>1, <2>2, <3>1 DEF CallTold
  <2>3. CASE key # CallKey(a)
    <3>1. a \notin A
      BY <2>3
    <3>2. r.actions[a].resolution = "succeeded" <=> d.actions[a].resolution = "succeeded"
      BY <1>0, <3>1 DEF ActionsKept, Unresolved
    <3>3. (\E m \in Messages(r) : r.messages[m].key = CallKey(a)) <=>
          (\E m \in Messages(d) : d.messages[m].key = CallKey(a))
      BY <1>3, <2>3
    <3> QED BY <2>1, <3>2, <3>3 DEF CallTold
  <2> QED BY <2>2, <2>3
<1>8. CallsTold(r)
  <2>1. ASSUME NEW m \in Messages(r), NEW a \in Nat, r.messages[m].key = CallKey(a) PROVE a \in Actions(r)
    BY <1>3, <1>6, <2>1 DEF Posted, CallsTold
  <2> QED BY <1>6, <1>7, <2>1 DEF CallsTold
<1> QED BY <1>4, <1>5, <1>8 DEF Posted

\* A saved answer alone posts nothing.
LEMMA SavePosts ==
  ASSUME NEW d, Tables(d), TurnRules(d), Posted(d), NEW key, key # NoKey
  PROVE  Posted(SaveCommand(d, key))
<1>1. Settles(d, SaveCommand(d, key), {}, {})
  BY SaveKeeps
<1>2. QuietStep(d, SaveCommand(d, key))
  BY PlainWrites, PlainIsQuiet DEF Tables
<1>3. NoCallSucceeds(d, SaveCommand(d, key), {})
  BY DEF NoCallSucceeds
<1> QED BY <1>1, <1>2, <1>3, QuietSettles

\* ... and no Turn, Operation or Action is touched.
OnlyPosted(d, r, key) ==
  /\ OnePosted(d, r, key)
  /\ r.turns = d.turns /\ r.operations = d.operations /\ r.actions = d.actions

\* A Message to a Session that is there, or to one that it creates.
LEMMA AdmittedMail ==
  ASSUME NEW d, Tables(d), NEW key, key \notin d.commands, \A t : key # EndingKey(t), NEW s
  PROVE  /\ OnlyPosted(d, AdmitMessage(SaveCommand(ClearArchive(d, s), key), s, key), key)
         /\ \A p : OnlyPosted(d, AdmitMessage(SaveCommand(AddSession(d, s, p), key), s, key), key)
<1>0. IsStore(d) /\ d.sessions \subseteq Sessions /\ DOMAIN d.archive = Sessions
  BY DEF Tables, SessionRows, CommandRows
<1>1. ASSUME NEW c, Only(d, c, {"archive"}) \/ Only(d, c, {"sessions", "parent"}), NoneArchived(d, c)
      PROVE  OnlyPosted(d, AdmitMessage(SaveCommand(c, key), s, key), key)
  <2> DEFINE p == SaveCommand(c, key)
             r == AdmitMessage(p, s, key)
  <2>1. /\ IsStore(c) /\ c.messages = d.messages /\ c.endings = d.endings /\ c.stops = d.stops
        /\ c.forwards = d.forwards /\ c.actions = d.actions /\ c.turns = d.turns
        /\ c.operations = d.operations
    BY <1>0, <1>1, OnlyFields
  <2>2. Only(c, p, {"commands"})
    BY <2>1, SaveCommandFields
  <2>3. /\ IsStore(p) /\ p.messages = d.messages /\ p.endings = d.endings /\ p.stops = d.stops
        /\ p.forwards = d.forwards /\ p.actions = d.actions /\ p.archive = c.archive
        /\ p.turns = d.turns /\ p.operations = d.operations
    BY <2>1, <2>2, OnlyFields
  <2> HIDE DEF p
  <2>4. /\ Only(p, r, {"messages"})
        /\ r.messages = Append(p.messages, [session |-> s, key |-> key, turn |-> 0])
    BY <2>3, AdmitMessageFields
  <2> HIDE DEF r
  <2>5. /\ r.endings = d.endings /\ r.stops = d.stops /\ r.forwards = d.forwards /\ r.actions = d.actions
        /\ r.turns = d.turns /\ r.operations = d.operations
        /\ r.archive = c.archive /\ r.messages = Append(d.messages, [session |-> s, key |-> key, turn |-> 0])
    BY <2>3, <2>4, OnlyFields
  <2>6. OnePosted(d, r, key)
    BY <1>1, <2>5 DEF OnePosted, NoneArchived, Actions
  <2> QED BY <2>5, <2>6 DEF r, p, OnlyPosted
<1>2. Only(d, ClearArchive(d, s), {"archive"}) /\ NoneArchived(d, ClearArchive(d, s))
  <2>1. Only(d, ClearArchive(d, s), {"archive"}) /\ ClearArchive(d, s).archive = [d.archive EXCEPT ![s] = NoKey]
    BY <1>0, ClearArchiveFields
  <2> QED BY <1>0, <2>1 DEF NoneArchived
<1>3. ASSUME NEW p PROVE Only(d, AddSession(d, s, p), {"sessions", "parent"}) /\ NoneArchived(d, AddSession(d, s, p))
  <2>1. Only(d, AddSession(d, s, p), {"sessions", "parent"})
    BY <1>0, AddSessionFields
  <2> QED BY <1>0, <2>1, OnlyFields DEF NoneArchived
<1>4. OnlyPosted(d, AdmitMessage(SaveCommand(ClearArchive(d, s), key), s, key), key)
  BY <1>1, <1>2
<1>5. ASSUME NEW p
      PROVE  OnlyPosted(d, AdmitMessage(SaveCommand(AddSession(d, s, p), key), s, key), key)
  BY <1>1, <1>3
<1> QED BY <1>4, <1>5

\* The client's Messages.
LEMMA SubmitPosts ==
  ASSUME NEW d, Tables(d), TurnRules(d), Posted(d), NEW k, NEW s
  PROVE  /\ Posted(SubmitMessage(d, k, s))
         /\ s \in Sessions \ d.sessions => Posted(SubmitCreating(d, k, s))
<1> DEFINE key == ClientKey(k)
           r == SubmitMessage(d, k, s)
           c == SubmitCreating(d, k, s)
<1>1. key # NoKey /\ (\A t : key # EndingKey(t)) /\ \A a : key # CallKey(a)
  BY KeysAreKeys, KeysDiffer
<1> HIDE DEF key
<1>2. Posted(r)
  <2>1. Settles(d, r, {}, {})
    BY SubmitMessageKeeps
  <2>2. \/ r \in {d, SaveCommand(d, key)}
        \/ key \notin d.commands /\ r = AdmitMessage(SaveCommand(ClearArchive(d, s), key), s, key)
    BY DEF SubmitMessage, Fresh, key
  <2> HIDE DEF r
  <2>3. CASE r \in {d, SaveCommand(d, key)}
    BY <1>1, <2>3, SavePosts
  <2>4. CASE key \notin d.commands /\ r = AdmitMessage(SaveCommand(ClearArchive(d, s), key), s, key)
    <3>1. OnePosted(d, r, key)
      BY <1>1, <2>4, AdmittedMail DEF OnlyPosted
    <3> QED BY <1>1, <2>1, <3>1, MessagePosts
  <2> QED BY <2>2, <2>3, <2>4
<1>3. ASSUME s \in Sessions \ d.sessions PROVE Posted(c)
  <2>1. Settles(d, c, {}, {})
    BY <1>3, SubmitCreatingKeeps
  <2>2. \/ c = d
        \/ key \notin d.commands /\ c = AdmitMessage(SaveCommand(AddSession(d, s, NoSession), key), s, key)
    BY DEF SubmitCreating, Fresh, AddSession, key
  <2> HIDE DEF c
  <2>3. CASE key \notin d.commands /\ c = AdmitMessage(SaveCommand(AddSession(d, s, NoSession), key), s, key)
    <3>1. OnePosted(d, c, key)
      BY <1>1, <2>3, AdmittedMail DEF OnlyPosted
    <3> QED BY <1>1, <2>1, <3>1, MessagePosts
  <2> QED BY <2>2, <2>3
<1> QED BY <1>2, <1>3 DEF r, c

\* A call's Message and its result are written together.
LEMMA CallPosts ==
  ASSUME NEW d, Tables(d), Posted(d), NEW a \in Actions(d), d.actions[a].tool \in AgentTools, NEW e, Tables(e),
         OnlyPosted(d, e, CallKey(a)), NEW r, r = ResolveCore(e, a, "succeeded"), Settles(d, r, {}, {a})
  PROVE  Posted(r)
<1> DEFINE q == ResolveAction(e, a, "succeeded")
           t == TurnOfAction(d, a)
<1>1. a \in Actions(e) /\ t \in Turns(e) /\ t = TurnOfAction(e, a)
  BY References DEF OnlyPosted, Actions, Turns, TurnOfAction, TurnOfOperation
<1>2. /\ Only(e, q, {"actions"}) /\ Actions(q) = Actions(e) /\ q.actions[a].resolution = "succeeded"
  BY <1>1, ResolveActionRows
<1>3. Tables(q)
  <2>1. "succeeded" \in ActionResolutions
    BY DEF ActionResolutions
  <2> QED BY <1>1, <2>1, ResolveActionTables
<1>4. q.turns = e.turns /\ IsStore(e)
  BY <1>2, OnlyFields DEF Tables
<1>5. t \in Turns(q)
  BY <1>1, <1>4 DEF Turns
<1>6. r = RecordContinuation(q, t)
  BY <1>1 DEF ResolveCore
<1> HIDE DEF q, t
<1>7. Only(q, r, {"turns"})
  BY <1>3, <1>5, <1>6, RecordFields
<1>8. /\ q.endings = e.endings /\ q.stops = e.stops /\ q.forwards = e.forwards /\ q.messages = e.messages
      /\ q.archive = e.archive
  BY <1>2, <1>4, OnlyFields
<1>9. /\ r.endings = q.endings /\ r.stops = q.stops /\ r.forwards = q.forwards /\ r.messages = q.messages
      /\ r.archive = q.archive /\ r.actions = q.actions
  BY <1>3, <1>7, OnlyFields DEF Tables
<1>10. OnePosted(d, r, CallKey(a))
  BY <1>2, <1>8, <1>9 DEF OnlyPosted, OnePosted, NoneArchived, Actions
<1>11. \A b \in Nat : CallKey(a) = CallKey(b) =>
         /\ b \in Actions(d) /\ d.actions[b].tool \in AgentTools
         /\ r.actions[b].resolution = "succeeded"
  BY <1>2, <1>9, KeysDiffer
<1> QED BY <1>10, <1>11, MessagePosts

\* A call that fails, or one that only reads, posts nothing.
LEMMA RefusalPosts ==
  ASSUME NEW d, Tables(d), TurnRules(d), Posted(d), NEW a \in Actions(d), Unresolved(d.actions[a]),
         ~StopSelected(d, TurnOfAction(d, a)), NEW code \in ActionResolutions \ {"none"},
         code = "failed" \/ d.actions[a].tool \notin AgentTools
  PROVE  Posted(ResolveCore(d, a, code))
<1> DEFINE q == ResolveAction(d, a, code)
           r == ResolveCore(d, a, code)
           t == TurnOfAction(d, a)
<1>1. Settles(d, r, {}, {a}) /\ QuietStep(d, r)
  BY ResolveCoreKeeps, QuietActions
<1>2. Tables(q) /\ q.actions[a].resolution = code /\ Only(d, q, {"actions"})
  BY ResolveActionRows, ResolveActionTables
<1>3. r = RecordContinuation(q, t) /\ t \in Turns(d)
  BY References DEF ResolveCore
<1> HIDE DEF q, r, t
<1>4. t \in Turns(q)
  BY <1>2, <1>3, OnlyFields DEF Tables, Turns
<1>5. Only(q, r, {"turns"})
  BY <1>2, <1>3, <1>4, RecordFields
<1>6. r.actions[a].resolution = code
  BY <1>2, <1>5, OnlyFields DEF Tables
<1>7. NoCallSucceeds(d, r, {a})
  BY <1>6 DEF NoCallSucceeds
<1> QED BY <1>1, <1>7, QuietSettles DEF r

\* deliverAgentMessage.
LEMMA DeliverAgentMessagePosts ==
  ASSUME NEW d, Tables(d), TurnRules(d), Posted(d), NEW a \in Actions(d), Unresolved(d.actions[a]),
         ~StopSelected(d, TurnOfAction(d, a)), d.actions[a].tool \in AgentTools, NEW s
  PROVE  Posted(DeliverAgentMessage(d, a, s))
<1> DEFINE key == CallKey(a)
           c == ClearArchive(d, s)
           p == SaveCommand(c, key)
           e == AdmitMessage(p, s, key)
           r == DeliverAgentMessage(d, a, s)
<1>1. key # NoKey /\ (\A t : key # EndingKey(t)) /\ "failed" \in ActionResolutions \ {"none"}
  BY KeysAreKeys, KeysDiffer DEF ActionResolutions
<1>2. Settles(d, r, {}, {a})
  BY DeliverAgentMessageKeeps
<1>3. \/ r = ResolveCore(d, a, "failed")
      \/ s \in d.sessions /\ key \notin d.commands /\ r = ResolveCore(e, a, "succeeded")
  BY DEF DeliverAgentMessage, Fresh
<1> HIDE DEF r
<1>4. CASE r = ResolveCore(d, a, "failed")
  BY <1>1, <1>4, RefusalPosts DEF r
<1>5. CASE s \in d.sessions /\ key \notin d.commands /\ r = ResolveCore(e, a, "succeeded")
  <2>1. OnlyPosted(d, e, key)
    BY <1>1, <1>5, AdmittedMail
  <2>2. Tables(c) /\ c.sessions = d.sessions
    <3>1. Only(d, c, {"archive"})
      BY ClearArchiveFields DEF Tables
    <3>2. Tables(c)
      BY ClearArchiveTables
    <3> QED BY <3>1, <3>2, OnlyFields DEF Tables
  <2> HIDE DEF c, key
  <2>3. Tables(p) /\ s \in p.sessions /\ key \in p.commands
    <3>1. Only(c, p, {"commands"}) /\ p.commands = c.commands \cup {key}
      BY <2>2, SaveCommandFields DEF Tables
    <3>2. Tables(p)
      BY <1>1, <2>2, SaveCommandTables
    <3> QED BY <1>5, <2>2, <3>1, <3>2, OnlyFields DEF Tables
  <2> HIDE DEF p
  <2>4. Tables(e)
    BY <2>3, AdmitMessageTables
  <2> HIDE DEF e
  <2> QED BY <1>2, <1>5, <2>1, <2>4, CallPosts DEF r, key
<1> QED BY <1>3, <1>4, <1>5 DEF r

\* startAgent.
LEMMA StartAgentPosts ==
  ASSUME NEW d, Tables(d), TurnRules(d), Posted(d), NEW a \in Actions(d), Unresolved(d.actions[a]),
         ~StopSelected(d, TurnOfAction(d, a)), d.actions[a].tool \in AgentTools, NEW s,
         NEW attached \in BOOLEAN
  PROVE  Posted(StartAgent(d, a, s, attached))
<1> DEFINE key == CallKey(a)
           p == IF attached THEN SessionOfAction(d, a) ELSE NoSession
           e == AdmitMessage(SaveCommand(AddSession(d, s, p), key), s, key)
           r == StartAgent(d, a, s, attached)
<1>1. key # NoKey /\ (\A t : key # EndingKey(t)) /\ "failed" \in ActionResolutions \ {"none"}
  BY KeysAreKeys, KeysDiffer DEF ActionResolutions
<1>2. Settles(d, r, {}, {a})
  BY StartAgentKeeps
<1>3. \/ r = ResolveCore(d, a, "failed")
      \/ s \in Sessions \ d.sessions /\ key \notin d.commands /\ r = ResolveCore(e, a, "succeeded")
  BY DEF StartAgent, Fresh, AddSession
<1>4. p \in d.sessions \cup {NoSession}
  BY References DEF SessionOfAction, SessionOfTurn
<1> HIDE DEF r, p
<1>5. CASE r = ResolveCore(d, a, "failed")
  BY <1>1, <1>5, RefusalPosts DEF r
<1>6. CASE s \in Sessions \ d.sessions /\ key \notin d.commands /\ r = ResolveCore(e, a, "succeeded")
  <2>1. OnlyPosted(d, e, key)
    BY <1>1, <1>6, AdmittedMail
  <2> HIDE DEF key
  <2>2. Settles(d, e, {}, {})
    BY <1>1, <1>4, <1>6, CreateKeeps
  <2> HIDE DEF e
  <2>3. Tables(e)
    BY <2>2 DEF Settles
  <2> QED BY <1>2, <1>6, <2>1, <2>3, CallPosts DEF r, key
<1> QED BY <1>3, <1>5, <1>6 DEF r

-----------------------------------------------------------------------------
(* Stops *)

\* The Turn a stop selected closes as others do.
LEMMA StopTurnQuiet ==
  ASSUME NEW d, Tables(d), NEW t \in Turns(d), IsOpen(d, t)
  PROVE  QuietStep(d, StopTurn(d, t))
<1> DEFINE o == d.turns[t].operation
           q == IF Unresolved(d.operations[o]) THEN ResolveOperation(d, o, "interrupted") ELSE d
           c == CancelActions(q, o)
<1>0. IsStore(d) /\ o \in Operations(d) /\ "interrupted" \in OperationResolutions
      /\ "cancelled" \in Outcomes \ {"open"}
  BY References DEF Tables, OperationResolutions, Outcomes
<1>1. Tables(q) /\ PlainStep(d, q)
  <2>1. PlainStep(d, d)
    BY <1>0 DEF PlainStep, Only, IsStore
  <2>2. Tables(ResolveOperation(d, o, "interrupted")) /\ PlainStep(d, ResolveOperation(d, o, "interrupted"))
    BY <1>0, PlainWrites, ResolveOperationTables
  <2> QED BY <2>1, <2>2
<1>2. StopTurn(d, t) \in {c, CloseTurn(c, t, "cancelled")}
  BY DEF StopTurn
<1> HIDE DEF q, o
<1>3. Tables(c) /\ PlainStep(q, c)
  BY <1>1, PlainWrites, CancelActionsTables
<1> HIDE DEF c
<1>4. PlainStep(d, c)
  BY <1>1, <1>3, PlainThen
<1>5. QuietStep(d, c)
  BY <1>0, <1>4, PlainIsQuiet
<1>6. QuietStep(d, CloseTurn(c, t, "cancelled"))
  BY <1>0, <1>3, <1>4, ClosingIsQuiet
<1> QED BY <1>2, <1>5, <1>6

\* An ending when the parent s is archived.
Hushed(d, s, e) ==
  IF d.parent[SessionOfTurn(d, e.turn)] = s /\ ~e.delivered THEN [e EXCEPT !.suppressed = TRUE] ELSE e
HushedAll(d, s) == {Hushed(d, s, e) : e \in d.endings}

\* stopRounds up to the Turn: what it writes of what is told.
StopTold(d, r, s, key) ==
  /\ r.stops = d.stops \cup {StopRecord(d, s, key)} /\ r.forwards = d.forwards
  /\ r.parent = d.parent
  /\ \/ r.archive = d.archive /\ r.endings = d.endings
     \/ /\ r.archive = [d.archive EXCEPT ![s] = key]
        /\ r.endings = HushedAll(d, s)

\* The record of the stop and, where it archives, the endings it hushes.
LEMMA StopOwingRows ==
  ASSUME NEW d, Tables(d), NEW s \in d.sessions, NEW key, key # NoKey, NEW kind
  PROVE  StopTold(d, StopOwing(d, s, key, kind), s, key)
<1> DEFINE p == SaveCommand(d, key)
           c == StopSaved(d, s, key)
           e == ArchiveUnder(c, s, key)
           h == StopArchived(d, s, key, kind)
           g == SettleOwed(h, s)
           r == OweChildStops(g, s)
<1>1. IsStore(d) /\ Only(d, p, {"commands"}) /\ IsStore(p)
  BY SaveCommandFields DEF Tables, Only
<1>2. c = AddStop(p, StopRecord(d, s, key))
  BY DEF StopSaved
<1> HIDE DEF p
<1>3. Only(p, c, {"stops"}) /\ c.stops = p.stops \cup {StopRecord(d, s, key)}
  BY <1>1, <1>2, AddStopFields
<1>4. h = IF kind = "session_archive" THEN e ELSE c
  BY DEF StopArchived
<1> HIDE DEF c, h
<1>5. /\ IsStore(c) /\ c.stops = d.stops \cup {StopRecord(d, s, key)} /\ c.forwards = d.forwards
      /\ c.parent = d.parent /\ c.archive = d.archive /\ c.endings = d.endings /\ c.turns = d.turns
  <2>1. /\ p.stops = d.stops /\ p.forwards = d.forwards /\ p.parent = d.parent /\ p.archive = d.archive
        /\ p.endings = d.endings /\ p.turns = d.turns
    BY <1>1, OnlyFields
  <2> QED BY <1>1, <1>3, <2>1, OnlyFields
<1>6. /\ Only(c, e, {"archive", "endings"}) /\ e.archive = [d.archive EXCEPT ![s] = key]
      /\ e.endings = HushedAll(d, s)
  <2>1. Only(c, e, {"archive", "endings"}) /\ e.archive = [c.archive EXCEPT ![s] = key]
    BY <1>5 DEF ArchiveUnder, Only, IsStore, Fields
  <2>2. e.endings = {IF c.parent[SessionOfTurn(c, x.turn)] = s /\ ~x.delivered
                     THEN [x EXCEPT !.suppressed = TRUE] ELSE x : x \in c.endings}
    BY <1>5 DEF ArchiveUnder, IsStore, Fields
  <2>3. \A x : SessionOfTurn(c, x.turn) = SessionOfTurn(d, x.turn)
    BY <1>5 DEF SessionOfTurn
  <2> HIDE DEF e
  <2> QED BY <1>5, <2>1, <2>2, <2>3 DEF Hushed, HushedAll
<1> HIDE DEF e
<1>7. IsStore(e) /\ e.stops = c.stops /\ e.forwards = c.forwards /\ e.parent = c.parent
  BY <1>5, <1>6, OnlyFields
<1>8. /\ IsStore(h) /\ h.stops = d.stops \cup {StopRecord(d, s, key)} /\ h.forwards = d.forwards
      /\ h.parent = d.parent
      /\ \/ h.archive = d.archive /\ h.endings = d.endings
         \/ /\ h.archive = [d.archive EXCEPT ![s] = key]
            /\ h.endings = HushedAll(d, s)
  <2>1. CASE kind = "session_archive"
    BY <1>4, <1>5, <1>6, <1>7, <2>1
  <2>2. CASE kind # "session_archive"
    BY <1>4, <1>5, <2>2
  <2> QED BY <2>1, <2>2
<1>9. Only(h, g, {"owed"}) /\ IsStore(g)
  BY <1>8, SettleOwedFields DEF Only
<1> HIDE DEF g
<1>10. Only(g, r, {"owed", "causes"})
  BY <1>9 DEF OweChildStops, Only, IsStore, Fields
<1>11. r = StopOwing(d, s, key, kind)
  BY DEF StopOwing, g, h
<1> HIDE DEF r
<1>12. /\ g.stops = h.stops /\ g.forwards = h.forwards /\ g.parent = h.parent /\ g.archive = h.archive
       /\ g.endings = h.endings
  BY <1>8, <1>9, OnlyFields
<1>13. /\ r.stops = h.stops /\ r.forwards = h.forwards /\ r.parent = h.parent /\ r.archive = h.archive
       /\ r.endings = h.endings
  BY <1>9, <1>10, <1>12, OnlyFields
<1>14. StopTold(d, r, s, key)
  BY <1>8, <1>13 DEF StopTold
<1> QED BY <1>11, <1>14

\* A stop takes back nothing that was told: the ending of the Turn it selects is
\* not owed yet.
LEMMA StopOwingPosts ==
  ASSUME NEW d, Tables(d), TurnRules(d), Posted(d), NEW s \in d.sessions, NEW key, key # NoKey, NEW kind
  PROVE  Posted(StopOwing(d, s, key, kind))
<1> DEFINE r == StopOwing(d, s, key, kind)
           stop == StopRecord(d, s, key)
<1>1. Stopping(d, r, s) /\ Advances(d, r, {}, {})
  BY StopOwingKeeps
<1>2. StopTold(d, r, s, key)
  BY StopOwingRows
<1>3. stop.turn = SelectedTurn(d, s)
  BY DEF StopRecord
<1> HIDE DEF r
<1>4. /\ r.stops = d.stops \cup {stop} /\ r.forwards = d.forwards /\ r.parent = d.parent
       /\ \/ r.archive = d.archive /\ r.endings = d.endings
          \/ /\ r.archive = [d.archive EXCEPT ![s] = key]
             /\ r.endings = HushedAll(d, s)
  BY <1>2 DEF StopTold
<1> HIDE DEF stop
<1>5. Tables(r) /\ r.turns = d.turns /\ r.actions = d.actions /\ r.messages = d.messages
  BY <1>1 DEF Stopping
<1>6. ASSUME NEW e \in d.endings
      PROVE  LET x == Hushed(d, s, e)
             IN  /\ x.turn = e.turn /\ x.delivered = e.delivered /\ (e.suppressed => x.suppressed)
                 /\ e.delivered => x = e
                 /\ d.parent[d.turns[e.turn].session] = s /\ ~e.delivered => x.suppressed
                 /\ x # e => x.suppressed
  <2>1. e \in EndingRow(d)
    BY DEF Tables, EndingRows
  <2> QED BY <2>1 DEF Hushed, EndingRow, SessionOfTurn
<1>7. ASSUME NEW x \in r.endings
      PROVE  \E e \in d.endings : /\ x = e \/ x = Hushed(d, s, e)
                                  /\ x.turn = e.turn /\ x.delivered = e.delivered
                                  /\ e.suppressed => x.suppressed
                                  /\ e.delivered => x = e
  BY <1>4, <1>6 DEF HushedAll
<1>8. OneMessagePerKey(r)
  BY <1>5 DEF Posted, Mail, OneMessagePerKey, Messages
<1>9. EndingsOwed(r)
  <2>1. \A e, f \in d.endings : e.turn = f.turn => e = f
    BY DEF Posted, Mail, EndingsOwed
  <2>2. ASSUME NEW x \in r.endings, NEW y \in r.endings, x.turn = y.turn PROVE x = y
    <3>1. CASE r.endings = d.endings
      BY <2>1, <2>2, <3>1
    <3>2. CASE r.endings = HushedAll(d, s)
      <4>1. PICK e \in d.endings, f \in d.endings : x = Hushed(d, s, e) /\ y = Hushed(d, s, f)
        BY <3>2 DEF HushedAll
      <4>2. e.turn = f.turn
        BY <1>6, <2>2, <4>1
      <4> QED BY <2>1, <4>1, <4>2
    <3> QED BY <1>4, <3>1, <3>2
  <2>3. ASSUME NEW x \in r.endings PROVE ~IsOpen(r, x.turn)
    BY <1>5, <1>7 DEF Posted, Mail, EndingsOwed, IsOpen
  <2> QED BY <2>2, <2>3 DEF EndingsOwed
<1>10. EndingsTold(r)
  <2> SUFFICES ASSUME NEW m \in Messages(r), NEW t \in Nat, r.messages[m].key = EndingKey(t)
               PROVE  /\ \E e \in r.endings : e.turn = t /\ e.delivered /\ ~e.suppressed
                      /\ \A x \in r.stops : x.turn = t => ~x.parentCaused
    BY DEF EndingsTold
  <2>1. m \in Messages(d) /\ d.messages[m].key = EndingKey(t)
    BY <1>5 DEF Messages
  <2>2. PICK e \in d.endings : e.turn = t /\ e.delivered /\ ~e.suppressed
    BY <2>1 DEF Posted, Mail, EndingsTold
  <2>3. e \in r.endings
    <3>1. Hushed(d, s, e) = e
      BY <1>6, <2>2
    <3> QED BY <1>4, <3>1 DEF HushedAll
  <2>4. ~IsOpen(d, t) /\ t \in Turns(d) /\ t # 0
    <3>1. e.turn \in 1..Len(d.turns)
      BY DEF Tables, EndingRows, EndingRow
    <3> QED BY <2>2, <3>1, References DEF Posted, Mail, EndingsOwed
  <2>5. stop.turn # t
    <3>1. SelectedTurn(d, s) # 0 => IsOpen(d, SelectedTurn(d, s))
      BY SelectedIsOpen DEF TurnRules, Behind, OpenTurns
    <3> HIDE DEF SelectedTurn
    <3> QED BY <1>3, <2>4, <3>1
  <2>6. \A x \in d.stops : x.turn = t => ~x.parentCaused
    BY <2>1 DEF Posted, Mail, EndingsTold
  <2> QED BY <1>4, <2>2, <2>3, <2>5, <2>6
<1>11. ArchivedHearsNothing(r)
  <2> SUFFICES ASSUME NEW x \in r.endings, ~x.delivered, Archived(r, r.parent[r.turns[x.turn].session])
               PROVE  x.suppressed
    BY DEF ArchivedHearsNothing
  <2>1. PICK e \in d.endings : /\ x = e \/ x = Hushed(d, s, e)
                               /\ x.turn = e.turn /\ x.delivered = e.delivered
                               /\ e.suppressed => x.suppressed
    BY <1>7
  <2> DEFINE p == d.parent[d.turns[e.turn].session]
  <2>2. r.parent[r.turns[x.turn].session] = p
    BY <1>4, <1>5, <2>1
  <2>3. Archived(r, p) /\ (Archived(d, p) => e.suppressed)
    BY <2>1, <2>2 DEF Posted, Mail, ArchivedHearsNothing
  <2>4. CASE Archived(d, p)
    BY <2>1, <2>3, <2>4
  <2>5. CASE ~Archived(d, p)
    <3>1. /\ r.archive = [d.archive EXCEPT ![s] = key]
          /\ r.endings = HushedAll(d, s) /\ p = s
      <4>0. p \in Sessions /\ DOMAIN d.archive = Sessions
        <5>1. p # NoSession /\ e.turn \in Turns(d)
          BY References DEF Tables, EndingRows, EndingRow
        <5> QED BY <5>1, References DEF Tables, SessionRows, CommandRows
      <4> HIDE DEF p
      <4>1. r.archive[p] # d.archive[p]
        BY <2>3, <2>5 DEF Archived
      <4> QED BY <1>4, <4>0, <4>1
    <3>2. PICK f \in d.endings : x = Hushed(d, s, f)
      BY <3>1 DEF HushedAll
    <3>3. f.turn = e.turn /\ ~f.delivered
      BY <1>6, <2>1, <3>2
    <3> QED BY <1>6, <3>1, <3>2, <3>3
  <2> QED BY <2>4, <2>5
<1>12. Mail(r)
  BY <1>8, <1>9, <1>10, <1>11 DEF Mail
<1>13. CallsTold(r)
  <2>1. NoCallSucceeds(d, r, {}) /\ Messages(r) = Messages(d)
    BY <1>5 DEF NoCallSucceeds, Messages
  <2> QED BY <1>1, <1>5, <2>1, CallsGrow DEF Posted
<1>14. Hops(r)
  <2>1. Actions(r) = Actions(d)
    BY <1>5 DEF Actions
  <2>2. \A e \in r.endings : e.delivered => e \in d.endings
    BY <1>7
  <2> QED BY <1>1, <1>4, <2>1, <2>2, HopsSame DEF Posted
<1> QED BY <1>12, <1>13, <1>14 DEF Posted, r

\* stopRounds.
LEMMA StopRoundsPosts ==
  ASSUME NEW d, Tables(d), TurnRules(d), Posted(d), NEW s \in d.sessions, NEW key, key # NoKey, NEW kind
  PROVE  Posted(StopRounds(d, s, key, kind))
<1> DEFINE q == StopOwing(d, s, key, kind)
           t == SelectedTurn(d, s)
           r == StopTurn(q, t)
<1>1. Posted(q) /\ Stopping(d, q, s)
  BY StopOwingPosts, StopOwingKeeps
<1>2. StopRounds(d, s, key, kind) = IF t = 0 THEN q ELSE r
  BY StopRoundsIs
<1> HIDE DEF q
<1>3. /\ Tables(q) /\ TurnsBut(q, t) /\ ActionWasProposed(q) /\ ToolRules(q)
      /\ q.turns = d.turns
      /\ t \in Turns(d) => Agrees(q, t) /\ StopSelected(q, t)
  BY <1>1 DEF Stopping
<1>4. t # 0 => t \in OpenTurns(d, s)
  BY SelectedIsOpen DEF TurnRules, Behind
<1>5. CASE t = 0
  BY <1>1, <1>2, <1>5
<1>6. CASE t # 0
  <2>1. t \in Turns(d) /\ IsOpen(d, t)
    BY <1>4, <1>6 DEF OpenTurns
  <2> HIDE DEF t
  <2>2. t \in Turns(q) /\ IsOpen(q, t) /\ Agrees(q, t) /\ StopSelected(q, t)
    BY <1>3, <2>1 DEF Turns, IsOpen
  <2>3. TurnRules(r) /\ Tables(r)
    BY <1>3, <2>2, StopTurnTurns
  <2>4. OperationIsOwn(q)
    BY <1>3 DEF TurnsBut, Behind
  <2>5. Advances(q, r, {}, {}) /\ Seated(q, r)
    BY <1>3, <2>2, <2>4, StopTurnAdvances
  <2>6. QuietStep(q, r)
    BY <1>3, <2>2, StopTurnQuiet
  <2>7. NoCallSucceeds(q, r, {})
    BY DEF NoCallSucceeds
  <2> HIDE DEF r
  <2>8. Settles(q, r, {}, {})
    BY <2>3, <2>5 DEF Settles
  <2>9. Posted(r)
    BY <1>1, <1>3, <2>6, <2>7, <2>8, QuietSettles
  <2> QED BY <1>2, <1>6, <2>9 DEF r
<1> QED BY <1>5, <1>6

\* Every stop.
LEMMA StopsPost ==
  ASSUME NEW d, Tables(d), TurnRules(d), Posted(d), NEW k, NEW s, NEW kind, NEW position
  PROVE  /\ Posted(StopSession(d, k, s, kind))
         /\ s \in d.sessions => Posted(StopOwedSession(d, s, position))
<1>1. ClientKey(k) # NoKey /\ OwedStopKey(s, position) # NoKey
  BY KeysAreKeys
<1>2. Posted(SaveCommand(d, ClientKey(k)))
  BY <1>1, SavePosts
<1>3. Posted(StopSession(d, k, s, kind))
  <2>1. s \in d.sessions => Posted(StopRounds(d, s, ClientKey(k), kind))
    BY <1>1, StopRoundsPosts
  <2> QED BY <1>2, <2>1 DEF StopSession
<1>4. ASSUME s \in d.sessions PROVE Posted(StopOwedSession(d, s, position))
  <2>1. Posted(StopRounds(d, s, OwedStopKey(s, position), "session_stop"))
    BY <1>1, <1>4, StopRoundsPosts
  <2> QED BY <2>1 DEF StopOwedSession
<1> QED BY <1>3, <1>4

-----------------------------------------------------------------------------
(* Feeds and endings *)

\* forward.deliver: the row that reached its target is followed by the next.
LEMMA DeliverForwardPosts ==
  ASSUME NEW d, Tables(d), TurnRules(d), Posted(d), NEW f \in DOMAIN d.forwards
  PROVE  Posted(DeliverForward(d, f))
<1> DEFINE q == MarkForward(d, f)
           row == d.forwards[f]
           r == QueueForward(q, row.target, row.kind, row.source)
<1>1. row.target \in d.sessions /\ row.kind \in {"approval", "ending"} /\ row.source \in Nat
  BY DEF Tables, ForwardRows, ForwardRow
<1>2. DeliverForward(d, f) = IF row.delivered THEN d ELSE r
  BY DEF DeliverForward, MarkForward
<1>3. CASE row.delivered
  BY <1>2, <1>3
<1>4. CASE ~row.delivered
  <2>1. /\ Advances(d, r, {}, {}) /\ Tables(r) /\ Only(d, r, {"forwards"})
    BY <1>2, <1>4, DeliverForwardKeeps DEF Settles
  <2>2. /\ Tables(q) /\ Only(d, q, {"forwards"})
        /\ q.forwards = [d.forwards EXCEPT ![f].delivered = TRUE]
    <3>1. Tables(q)
      BY MarkForwardTables
    <3>2. Only(d, q, {"forwards"}) /\ q.forwards = [d.forwards EXCEPT ![f].delivered = TRUE]
      BY MarkForwardFields DEF Tables
    <3> QED BY <3>1, <3>2
  <2>3. /\ DOMAIN q.forwards = DOMAIN d.forwards
        /\ \A g \in DOMAIN d.forwards : /\ q.forwards[g].target = d.forwards[g].target
                                        /\ q.forwards[g].kind = d.forwards[g].kind
                                        /\ q.forwards[g].source = d.forwards[g].source
                                        /\ g # f => q.forwards[g] = d.forwards[g]
    <3>1. \A g \in DOMAIN d.forwards : d.forwards[g] \in ForwardRow(d)
      BY DEF Tables, ForwardRows
    <3> HIDE DEF q
    <3> QED BY <2>2, <3>1 DEF ForwardRow
  <2> HIDE DEF q, row
  <2>4. OneForward(q)
    BY <2>3 DEF Posted, Hops, OneForward, IsRow
  <2>5. row.target \in q.sessions
    BY <1>1, <2>2, OnlyFields DEF Tables
  <2>6. /\ OneForward(r) /\ HasRow(r, row.target, row.kind, row.source)
        /\ \A g \in DOMAIN r.forwards : r.forwards[g].delivered =>
             g \in DOMAIN q.forwards /\ q.forwards[g].delivered
    BY <1>1, <2>2, <2>4, <2>5, QueuedRow
  <2> HIDE DEF r
  <2>7. /\ r.messages = d.messages /\ r.endings = d.endings /\ r.stops = d.stops
        /\ r.archive = d.archive /\ r.actions = d.actions
    BY <2>1, OnlyFields DEF Tables
  <2>8. ASSUME NEW g \in DOMAIN r.forwards, r.forwards[g].delivered,
               ~(g \in DOMAIN d.forwards /\ d.forwards[g].delivered)
        PROVE  HasRow(r, r.forwards[g].target, r.forwards[g].kind, r.forwards[g].source)
    <3>1. g = f
      BY <2>3, <2>6, <2>8
    <3>2. /\ r.forwards[f].target = row.target /\ r.forwards[f].kind = row.kind
          /\ r.forwards[f].source = row.source
      BY <2>1 DEF Advances, ForwardsKept, row
    <3> QED BY <2>6, <3>1, <3>2
  <2>9. Actions(r) = Actions(d) /\ Messages(r) = Messages(d)
    BY <2>7 DEF Actions, Messages
  <2>10. Hops(r)
    BY <2>1, <2>6, <2>7, <2>8, <2>9, HopsGrow DEF Posted
  <2>11. EndingsGrow(d, r) /\ NoneArchived(d, r) /\ NoCallSucceeds(d, r, {})
    BY <2>7 DEF EndingsGrow, NoneArchived, NoCallSucceeds
  <2>12. Posted(r)
    BY <2>1, <2>7, <2>9, <2>10, <2>11, FeedPosts
  <2> QED BY <1>2, <1>4, <2>12
<1> QED BY <1>3, <1>4

\* An ending that is settled has its feed row; it is not told by that alone.
LEMMA EndingSettledPosts ==
  ASSUME NEW d, Tables(d), TurnRules(d), Posted(d), NEW t \in Turns(d), NEW e \in d.endings,
         e.turn = t, ~e.delivered
  PROVE  LET r == EndingSettled(d, t, e)
         IN  /\ Posted(r) /\ \E x \in r.endings : x.turn = t /\ x.delivered /\ (x.suppressed => e.suppressed)
             /\ r.messages = d.messages /\ r.stops = d.stops
<1> DEFINE q == MarkEnding(d, e)
           s == SessionOfTurn(d, t)
           r == QueueForward(q, s, "ending", t)
           x == [e EXCEPT !.delivered = TRUE]
<1>1. /\ Advances(d, r, {}, {}) /\ Tables(r) /\ Only(d, r, {"forwards", "endings"}) /\ r = EndingSettled(d, t, e)
  BY EndingSettledKeeps DEF Settles, EndingSettled
<1>2. Tables(q) /\ Only(d, q, {"endings"}) /\ q.endings = (d.endings \ {e}) \cup {x}
  <2>1. Tables(q)
    BY MarkEndingTables
  <2>2. Only(d, q, {"endings"}) /\ q.endings = (d.endings \ {e}) \cup {x}
    BY MarkEndingFields DEF Tables
  <2> QED BY <2>1, <2>2
<1>3. x.turn = t /\ x.delivered /\ x.suppressed = e.suppressed
  <2>1. e \in EndingRow(d)
    BY DEF Tables, EndingRows
  <2> QED BY <2>1 DEF EndingRow
<1> HIDE DEF q, x
<1>4. q.sessions = d.sessions /\ q.forwards = d.forwards
  BY <1>2, OnlyFields DEF Tables
<1>5. t \in Nat /\ s \in q.sessions /\ s = d.turns[t].session
  BY <1>4, References DEF SessionOfTurn
<1>6. OneForward(q)
  BY <1>4 DEF Posted, Hops, OneForward
<1> HIDE DEF s
<1>7. /\ OneForward(r) /\ HasRow(r, s, "ending", t)
      /\ \A f \in DOMAIN r.forwards : r.forwards[f].delivered =>
           f \in DOMAIN q.forwards /\ q.forwards[f].delivered
  BY <1>2, <1>5, <1>6, QueuedRow
<1>8. Only(q, r, {"forwards"})
  BY <1>2, <1>5, QueueForwardTables
<1> HIDE DEF r
<1>9. /\ r.messages = d.messages /\ r.stops = d.stops /\ r.archive = d.archive /\ r.actions = d.actions
      /\ r.turns = d.turns /\ r.parent = d.parent
  BY <1>1, OnlyFields DEF Tables
<1>10. r.endings = (d.endings \ {e}) \cup {x}
  BY <1>2, <1>8, OnlyFields DEF Tables
<1>11. Hops(r)
  <2>1. Actions(r) = Actions(d)
    BY <1>9 DEF Actions
  <2>2. \A y \in r.endings \ d.endings : y = x
    BY <1>10
  <2>3. \A y \in r.endings \ d.endings : HasRow(r, r.turns[y.turn].session, "ending", y.turn)
    BY <1>3, <1>5, <1>7, <1>9, <2>2
  <2> QED BY <1>1, <1>4, <1>7, <2>1, <2>3, HopsGrow DEF Posted
<1>12. Mail(r)
  <2>0. /\ OneMessagePerKey(d) /\ EndingsOwed(d) /\ EndingsTold(d) /\ ArchivedHearsNothing(d)
    BY DEF Posted, Mail
  <2>1. OneMessagePerKey(r)
    BY <1>9, <2>0 DEF OneMessagePerKey, Messages
  <2>2. EndingsOwed(r)
    BY <1>3, <1>9, <1>10, <2>0 DEF EndingsOwed, IsOpen
  <2>3. EndingsTold(r)
    <3> SUFFICES ASSUME NEW m \in Messages(r), NEW u \in Nat, r.messages[m].key = EndingKey(u)
                 PROVE  /\ \E y \in r.endings : y.turn = u /\ y.delivered /\ ~y.suppressed
                        /\ \A stop \in r.stops : stop.turn = u => ~stop.parentCaused
      BY DEF EndingsTold
    <3>1. m \in Messages(d) /\ d.messages[m].key = EndingKey(u)
      BY <1>9 DEF Messages
    <3>2. PICK y \in d.endings : y.turn = u /\ y.delivered /\ ~y.suppressed
      BY <2>0, <3>1 DEF EndingsTold
    <3>3. y \in r.endings
      BY <1>10, <3>2
    <3>4. \A stop \in d.stops : stop.turn = u => ~stop.parentCaused
      BY <2>0, <3>1 DEF EndingsTold
    <3> QED BY <1>9, <3>2, <3>3, <3>4
  <2>4. ArchivedHearsNothing(r)
    <3> SUFFICES ASSUME NEW y \in r.endings, ~y.delivered, Archived(r, r.parent[r.turns[y.turn].session])
                 PROVE  y.suppressed
      BY DEF ArchivedHearsNothing
    <3>1. y \in d.endings
      BY <1>3, <1>10
    <3> QED BY <1>9, <2>0, <3>1 DEF ArchivedHearsNothing, Archived
  <2> QED BY <2>1, <2>2, <2>3, <2>4 DEF Mail
<1>13. CallsTold(r)
  <2>1. NoCallSucceeds(d, r, {}) /\ Messages(r) = Messages(d)
    BY <1>9 DEF NoCallSucceeds, Messages
  <2> QED BY <1>1, <2>1, CallsGrow DEF Posted
<1>14. Posted(r)
  BY <1>11, <1>12, <1>13 DEF Posted
<1> QED BY <1>1, <1>3, <1>9, <1>10, <1>14

\* deliverChildEnding: the Message is the first with its key, and goes out only
\* for an ending that is not quiet.
LEMMA DeliverChildEndingPosts ==
  ASSUME NEW d, Tables(d), TurnRules(d), Posted(d), NEW t \in Turns(d)
  PROVE  Posted(DeliverChildEnding(d, t))
<1> DEFINE owed == {e \in d.endings : e.turn = t /\ ~e.delivered}
           e == CHOOSE e \in owed : TRUE
           to == d.parent[SessionOfTurn(d, t)]
           key == EndingKey(t)
           q == EndingSettled(d, t, e)
           c == SaveCommand(q, key)
           r == AdmitMessage(c, to, key)
<1>1. CASE owed = {}
  BY <1>1 DEF DeliverChildEnding
<1>2. CASE owed # {}
  <2>1. e \in d.endings /\ e.turn = t /\ ~e.delivered
    BY <1>2
  <2>2. DeliverChildEnding(d, t) = IF Quiet(d, e) \/ Archived(d, to) THEN q ELSE r
    BY <1>2 DEF DeliverChildEnding, EndingSettled, MarkEnding
  <2>3. to \in d.sessions
    <3>1. to # NoSession
      BY <2>1 DEF Tables, EndingRows, SessionOfTurn
    <3>2. SessionOfTurn(d, t) \in d.sessions
      BY References DEF SessionOfTurn
    <3> QED BY <3>1, <3>2 DEF Tables, SessionRows
  <2> HIDE DEF e, to, owed
  <2>4. /\ Posted(q) /\ Settles(d, q, {}, {}) /\ Only(d, q, {"forwards", "endings"})
        /\ \E x \in q.endings : x.turn = t /\ x.delivered /\ (x.suppressed => e.suppressed)
        /\ q.messages = d.messages /\ q.stops = d.stops
    BY <2>1, EndingSettledPosts, EndingSettledKeeps
  <2> HIDE DEF q
  <2>5. Tables(q) /\ TurnRules(q) /\ to \in q.sessions
    BY <2>3, <2>4, OnlyFields DEF Tables, Settles
  <2>6. CASE Quiet(d, e) \/ Archived(d, to)
    BY <2>2, <2>4, <2>6
  <2>7. CASE ~Quiet(d, e)
    <3>1. key # NoKey /\ \A a : key # CallKey(a)
      BY KeysAreKeys, KeysDiffer
    <3>2. Tables(c) /\ Only(q, c, {"commands"}) /\ key \in c.commands
      BY <2>5, <3>1, SaveCommandTables, SaveCommandFields DEF Tables
    <3>3. TurnRules(c) /\ Advances(q, c, {}, {}) /\ Seated(q, c)
      BY <2>5, <3>1, SaveKeeps DEF Settles
    <3> HIDE DEF c, key
    <3>4. c.sessions = q.sessions
      BY <2>5, <3>2, OnlyFields DEF Tables
    <3>5. Tables(r) /\ Advances(c, r, {}, {}) /\ Seated(c, r)
      BY <2>5, <3>2, <3>3, <3>4, AdmitMessageKeeps DEF Settles
    <3>6. Only(c, r, {"messages"}) /\ r.messages = Append(c.messages, [session |-> to, key |-> key, turn |-> 0])
      BY <3>2, AdmitMessageFields DEF Tables
    <3> DEFINE row == [session |-> to, key |-> key, turn |-> 0]
               n == Len(q.messages) + 1
    <3> HIDE DEF r
    <3>7. Advances(q, r, {}, {})
      BY <3>3, <3>5, AdvancesThen
    <3>8. /\ r.turns = q.turns /\ r.endings = q.endings /\ r.stops = q.stops /\ r.parent = q.parent
          /\ r.archive = q.archive /\ r.actions = q.actions /\ r.forwards = q.forwards
          /\ r.messages = Append(q.messages, row)
      BY <2>5, <3>2, <3>6, OnlyFields DEF Tables
    <3>9. row.key = key
      OBVIOUS
    <3> HIDE DEF row
    <3>10. /\ Messages(r) = Messages(q) \cup {n} /\ n \notin Messages(q) /\ r.messages[n].key = key
           /\ \A m \in Messages(q) : r.messages[m] = q.messages[m]
      <4>1. IsSeq(q.messages)
        BY <2>5 DEF Tables, MessageRows
      <4>2. /\ DOMAIN q.messages = 1..Len(q.messages) /\ Len(q.messages) \in Nat
            /\ DOMAIN r.messages = 1..(Len(q.messages) + 1) /\ r.messages[n] = row
            /\ \A m \in 1..Len(q.messages) : r.messages[m] = q.messages[m]
        BY <3>8, <4>1, AppendIsSeq, SeqDomain
      <4> QED BY <3>9, <4>2 DEF Messages
    <3> HIDE DEF n
    <3>11. \A m \in Messages(q) : q.messages[m].key # key
      <4> SUFFICES ASSUME NEW m \in Messages(d), d.messages[m].key = EndingKey(t) PROVE FALSE
        BY <2>4 DEF Messages, key
      <4>1. t \in Nat
        BY References
      <4>2. PICK x \in d.endings : x.turn = t /\ x.delivered
        BY <4>1 DEF Posted, Mail, EndingsTold
      <4> QED BY <2>1, <4>2 DEF Posted, Mail, EndingsOwed
    <3>12. /\ OneMessagePerKey(q) /\ EndingsOwed(q) /\ EndingsTold(q) /\ ArchivedHearsNothing(q)
      BY <2>4 DEF Posted, Mail
    <3>13. OneMessagePerKey(r)
      BY <3>10, <3>11, <3>12 DEF OneMessagePerKey
    <3>14. EndingsTold(r)
      <4> SUFFICES ASSUME NEW m \in Messages(r), NEW u \in Nat, r.messages[m].key = EndingKey(u)
                   PROVE  /\ \E x \in r.endings : x.turn = u /\ x.delivered /\ ~x.suppressed
                          /\ \A stop \in r.stops : stop.turn = u => ~stop.parentCaused
        BY DEF EndingsTold
      <4>1. CASE m \in Messages(q)
        <5>1. q.messages[m].key = EndingKey(u)
          BY <3>10, <4>1
        <5>2. /\ \E x \in q.endings : x.turn = u /\ x.delivered /\ ~x.suppressed
              /\ \A stop \in q.stops : stop.turn = u => ~stop.parentCaused
          BY <3>12, <4>1, <5>1 DEF EndingsTold
        <5> QED BY <3>8, <5>2
      <4>2. CASE m = n
        <5>1. u = t
          BY <3>10, <4>2, KeysDiffer DEF key
        <5>2. ~e.suppressed /\ \A stop \in d.stops : stop.turn = t => ~stop.parentCaused
          BY <2>1, <2>7 DEF Quiet
        <5> QED BY <2>4, <3>8, <5>1, <5>2
      <4> QED BY <3>10, <4>1, <4>2
    <3>15. Mail(r)
      BY <3>8, <3>12, <3>13, <3>14 DEF Mail, EndingsOwed, ArchivedHearsNothing, IsOpen, Archived
    <3>16. CallsTold(r)
      <4>1. NoCallSucceeds(q, r, {})
        BY DEF NoCallSucceeds
      <4>2. \A m \in Messages(r) \ Messages(q), a \in Nat : r.messages[m].key # CallKey(a)
        BY <3>1, <3>10
      <4> QED BY <2>4, <2>5, <3>5, <3>7, <4>1, <4>2, CallsGrow DEF Posted
    <3>17. Hops(r)
      <4>1. Actions(r) = Actions(q)
        BY <3>8 DEF Actions
      <4> QED BY <2>4, <2>5, <3>7, <3>8, <4>1, HopsSame DEF Posted
    <3>18. Posted(r)
      BY <3>15, <3>16, <3>17 DEF Posted
    <3> QED BY <2>2, <2>4, <3>18 DEF r, c, key
  <2> QED BY <2>6, <2>7
<1> QED BY <1>1, <1>2

-----------------------------------------------------------------------------
(* Imported calls *)

\* importCall: a call that asks for a decision has its row at once.
LEMMA ImportHops ==
  ASSUME NEW d, Tables(d), NEW q, NEW o \in Operations(d), Imported(d, q, o), Hops(q),
         NEW call \in Calls
  PROVE  Hops(ImportCall(q, o, call))
<1> DEFINE x == IsCore(call.tool) \/ call.verdict = "allow"
           i == AddAction(q, o, call.tool, x)
           s == SessionOfTurn(q, TurnOfOperation(q, o))
           r == ImportCall(q, o, call)
           g == QueueForward(i, s, "approval", Len(i.actions))
           n == Len(q.actions) + 1
<1>1. call.tool \in Tools /\ x \in BOOLEAN
  BY DEF Calls
<1>2. Tables(q) /\ o \in Operations(q)
  BY DEF Imported, Advances, OperationsKept
<1>3. r = IF call.verdict = "rejected" THEN q ELSE IF x THEN i ELSE g
  BY DEF ImportCall, AddAction
<1> HIDE DEF x
<1>4. /\ Only(q, i, {"actions"}) /\ Tables(i) /\ Actions(i) = Actions(q) \cup {n}
      /\ Len(i.actions) = n /\ n \in Nat /\ n \notin Actions(q)
      /\ i.actions[n].operation = o /\ i.actions[n].authorized = x
      /\ Advances(q, i, {}, {}) /\ Seated(q, i)
  <2>1. ActionAdded(q, i, o, call.tool, x) /\ Advances(q, i, {}, {}) /\ Seated(q, i)
    BY <1>1, <1>2, AddActionRows
  <2> HIDE DEF i
  <2> QED BY <2>1 DEF ActionAdded
<1>5. s \in q.sessions
  BY <1>2, References DEF SessionOfTurn, TurnOfOperation
<1> HIDE DEF i, n
<1>6. /\ i.turns = q.turns /\ i.operations = q.operations /\ i.forwards = q.forwards
      /\ i.endings = q.endings /\ i.sessions = q.sessions
  BY <1>2, <1>4, OnlyFields DEF Tables
<1>7. CASE call.verdict = "rejected"
  BY <1>3, <1>7 DEF r
<1>8. CASE call.verdict # "rejected" /\ x
  <2>1. \A a \in Actions(i) \ Actions(q) : i.actions[a].authorized
    BY <1>4, <1>8
  <2>2. Hops(i)
    BY <1>2, <1>4, <1>6, <2>1, HopsSame
  <2> QED BY <1>3, <1>8, <2>2 DEF r
<1>9. CASE call.verdict # "rejected" /\ ~x
  <2>1. OneForward(i) /\ s \in i.sessions
    BY <1>5, <1>6 DEF Hops, OneForward
  <2> HIDE DEF r, s
  <2>2. Only(i, g, {"forwards"}) /\ Advances(i, g, {}, {}) /\ Seated(i, g)
    <3>1. Only(i, g, {"forwards"})
      BY <1>4, <2>1, QueueForwardTables
    <3>2. Advances(i, g, {}, {}) /\ Seated(i, g)
      BY <1>4, <2>1, QueueForwardAdvances
    <3> QED BY <3>1, <3>2
  <2>3. /\ OneForward(g) /\ HasRow(g, s, "approval", n)
        /\ \A f \in DOMAIN g.forwards : g.forwards[f].delivered =>
             f \in DOMAIN i.forwards /\ i.forwards[f].delivered
    BY <1>4, <2>1, QueuedRow
  <2> HIDE DEF g
  <2>4. Advances(q, g, {}, {})
    BY <1>4, <2>2, AdvancesThen
  <2>5. g.turns = i.turns /\ g.operations = i.operations /\ g.actions = i.actions /\ g.endings = i.endings
    BY <1>4, <2>2, OnlyFields DEF Tables
  <2>6. ASSUME NEW a \in Actions(g) \ Actions(q) PROVE HasRow(g, SessionOfAction(g, a), "approval", a)
    <3>1. a = n /\ g.actions[a].operation = o
      BY <1>4, <2>5 DEF Actions
    <3>2. SessionOfAction(g, a) = s
      BY <1>6, <2>5, <3>1 DEF SessionOfAction, SessionOfTurn, TurnOfAction, TurnOfOperation, s
    <3> QED BY <2>3, <3>1, <3>2
  <2>7. \A e \in g.endings \ q.endings : e.delivered => HasRow(g, g.turns[e.turn].session, "ending", e.turn)
    BY <1>6, <2>5
  <2>8. \A f \in DOMAIN g.forwards :
          g.forwards[f].delivered => f \in DOMAIN q.forwards /\ q.forwards[f].delivered
    BY <1>6, <2>3
  <2>9. Hops(g)
    BY <1>2, <2>3, <2>4, <2>6, <2>7, <2>8, HopsGrow
  <2> QED BY <1>3, <1>9, <2>9 DEF r
<1> QED BY <1>7, <1>8, <1>9

\* writeCalls leaves no request without its row.
LEMMA ImportsHop ==
  ASSUME NEW d, Tables(d), ToolRules(d), Hops(d), NEW o \in Operations(d), NEW calls \in Seq(Calls)
  PROVE  Hops(ImportCalls(d, o, calls))
<1> DEFINE N == Len(calls)
<1>1. N \in Nat /\ \A n \in 1..N : calls[n] \in Calls
  OBVIOUS
<1>2. PICK after : ImportRun(d, o, calls, after)
  BY <1>1, ImportCallsFunction
<1>3. \A n \in 0..N : after[n] = IF n = 0 THEN d ELSE ImportCall(after[n - 1], o, calls[n])
  BY <1>2 DEF ImportRun
<1> HIDE DEF N
<1> DEFINE B == {n \in 0..N : ~(Imported(d, after[n], o) /\ Hops(after[n]))}
<1>4. B = {}
  <2> SUFFICES ASSUME B # {} PROVE FALSE
    OBVIOUS
  <2> DEFINE k == Min(B)
  <2>1. k \in B /\ \A y \in B : k <= y
    <3>1. B \subseteq Nat
      BY <1>1
    <3> HIDE DEF B
    <3> QED BY <3>1, MinIsLeast
  <2> HIDE DEF k
  <2>2. k # 0
    <3>1. Imported(d, d, o)
      BY AdvancesSelf DEF Imported, Only, Tables
    <3>2. after[0] = d
      BY <1>1, <1>3
    <3> QED BY <2>1, <3>1, <3>2
  <2>3. k - 1 \in 0..N /\ k \in 1..N /\ k \in 0..N /\ k - 1 \notin B
    BY <1>1, <2>1, <2>2
  <2>4. Imported(d, after[k - 1], o) /\ Hops(after[k - 1])
    BY <2>3
  <2>5. after[k] = ImportCall(after[k - 1], o, calls[k]) /\ calls[k] \in Calls
    BY <1>1, <1>3, <2>2, <2>3
  <2>6. Imported(d, after[k], o)
    BY <2>4, <2>5, ImportCallKeeps
  <2>7. Hops(after[k])
    BY <2>4, <2>5, ImportHops
  <2> QED BY <2>1, <2>6, <2>7
<1>5. N \in 0..N
  BY <1>1
<1>6. Hops(after[N])
  BY <1>4, <1>5
<1> QED BY <1>2, <1>6 DEF N, ImportRun

\* settleModelSuccess: whatever the answer proposes.
LEMMA SuccessPosts ==
  ASSUME NEW d, Tables(d), TurnRules(d), Posted(d), NEW o \in Operations(d), Unresolved(d.operations[o]),
         NEW calls \in Seq(Calls), calls = <<>> \/ d.operations[o].purpose = "assistant"
  PROVE  Posted(SettleSuccess(d, o, calls))
<1>1. CASE calls = <<>>
  BY <1>1, ModelsPost
<1>2. CASE calls # <<>>
  <2> DEFINE t == d.operations[o].turn
             q == ImportCalls(d, o, calls)
             p == ResolveOperation(q, o, "tool_proposals")
             r == RecordContinuation(p, t)
  <2>1. SettleSuccess(d, o, calls) = r
    BY <1>2 DEF SettleSuccess, TurnOfOperation
  <2>2. Imported(d, q, o)
    BY ImportCallsKeeps DEF TurnRules
  <2>3. Hops(q)
    BY ImportsHop DEF TurnRules, Posted
  <2>4. Settles(d, r, {o}, {})
    BY <2>2, ProposalsKeep
  <2> HIDE DEF q
  <2>5. /\ Tables(q) /\ Only(d, q, {"actions", "forwards"}) /\ Advances(d, q, {}, {})
    BY <2>2 DEF Imported
  <2>6. /\ q.turns = d.turns /\ q.operations = d.operations /\ q.messages = d.messages
        /\ q.stops = d.stops /\ q.endings = d.endings /\ q.archive = d.archive
    BY <2>5, OnlyFields DEF Tables
  <2>7. Posted(q)
    <3>1. NoCallSucceeds(d, q, {}) /\ EndingsGrow(d, q) /\ NoneArchived(d, q) /\ Messages(q) = Messages(d)
      BY <2>6 DEF NoCallSucceeds, EndingsGrow, NoneArchived, Messages
    <3> QED BY <2>3, <2>5, <2>6, <3>1, FeedPosts
  <2>8. o \in Operations(q) /\ Unresolved(q.operations[o]) /\ t \in Turns(q)
    <3>1. t \in Turns(d)
      BY RunningOperation
    <3> QED BY <2>6, <3>1 DEF Operations, Turns
  <2>9. PlainStep(q, p) /\ Tables(p) /\ Advances(q, p, {o}, {}) /\ Seated(q, p)
    <3>1. PlainStep(q, p)
      BY <2>5, <2>8, PlainWrites
    <3>2. Tables(p)
      BY <2>5, <2>8, ResolveOperationTables DEF OperationResolutions
    <3>3. Advances(q, p, {o}, {}) /\ Seated(q, p)
      BY <2>5, <2>8, ResolveOperationAdvances
    <3> QED BY <3>1, <3>2, <3>3
  <2> HIDE DEF p, t
  <2>10. t \in Turns(p)
    <3>1. p.turns = q.turns
      BY <2>5, <2>9, OnlyFields DEF PlainStep, Tables
    <3> QED BY <2>8, <3>1 DEF Turns
  <2>11. QuietStep(q, r)
    <3>1. QuietStep(q, p)
      BY <2>5, <2>9, PlainIsQuiet DEF Tables
    <3> QED BY <2>9, <2>10, <3>1, QuietRecord
  <2>12. Advances(q, r, {o}, {}) /\ Seated(q, r)
    <3>1. Advances(p, r, {o}, {}) /\ Seated(p, r)
      BY <2>9, <2>10, RecordAdvances
    <3> QED BY <2>9, <3>1, AdvancesThen
  <2> HIDE DEF r
  <2>13. Tables(r)
    BY <2>4 DEF Settles
  <2>14. /\ r.stops = q.stops /\ r.forwards = q.forwards /\ r.messages = q.messages /\ r.archive = q.archive
    BY <2>5, <2>11, OnlyFields DEF QuietStep, Tables
  <2>15. /\ NoCallSucceeds(q, r, {}) /\ EndingsGrow(q, r) /\ NoneArchived(q, r)
         /\ Messages(r) = Messages(q) /\ Actions(r) = Actions(q)
    BY <2>11, <2>14 DEF NoCallSucceeds, QuietStep, NoneArchived, Messages
  <2>16. Posted(r)
    BY <2>5, <2>7, <2>12, <2>13, <2>14, <2>15, QuietPosts
  <2> QED BY <2>1, <2>16
<1> QED BY <1>1, <1>2
=============================================================================
