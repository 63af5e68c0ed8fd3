------------------------- MODULE StoreTablesProofs -------------------------
(***************************************************************************)
(* What every writer of the Store's rows keeps true: the tables stay       *)
(* well-formed, and the rules of Turns (turn.zig, turn_policy.zig) hold    *)
(* after each transaction.  A database is an argument here, so these are   *)
(* facts about the operators of StoreTables, Command, ModelOperation and   *)
(* ActionOperation, with no behaviour in sight; SessionCoreProofs puts     *)
(* them together.                                                          *)
(***************************************************************************)
EXTENDS ActionOperation, TLAPS, WellFoundedInduction

-----------------------------------------------------------------------------
(* Sequences and least elements *)

IsSeq(s) == /\ Len(s) \in Nat
            /\ s = [i \in 1..Len(s) |-> s[i]]

\* A function on 1..n is a sequence of length n.
LEMMA FunctionIsSeq ==
  ASSUME NEW n \in Nat, NEW f, f = [i \in 1..n |-> f[i]]
  PROVE  IsSeq(f) /\ Len(f) = n
<1> DEFINE S == {f[i] : i \in 1..n}
<1>1. f \in [1..n -> S]
  OBVIOUS
<1>2. f \in Seq(S)
  BY <1>1
<1>3. Len(f) \in Nat /\ DOMAIN f = 1..Len(f)
  BY <1>2
<1>4. DOMAIN f = 1..n
  BY <1>1
<1>5. Len(f) = n
  BY <1>3, <1>4
<1> QED BY <1>5 DEF IsSeq

\* A sequence of rows of S is one of Seq(S).
LEMMA SeqOfRows ==
  ASSUME NEW s, IsSeq(s), NEW S, \A i \in DOMAIN s : s[i] \in S
  PROVE  s \in Seq(S)
<1>1. s \in [1..Len(s) -> S]
  BY DEF IsSeq
<1> QED BY <1>1 DEF IsSeq

\* A member of Seq(S) is a sequence.
LEMMA MemberIsSeq ==
  ASSUME NEW S, NEW q \in Seq(S)
  PROVE  IsSeq(q)
BY DEF IsSeq

\* The indices of a sequence.
LEMMA SeqDomain ==
  ASSUME NEW s, IsSeq(s)
  PROVE  Len(s) \in Nat /\ DOMAIN s = 1..Len(s)
BY DEF IsSeq

\* An appended row is the last one, and the others stay.
LEMMA AppendIsSeq ==
  ASSUME NEW s, IsSeq(s), NEW e
  PROVE  /\ IsSeq(Append(s, e)) /\ Len(Append(s, e)) = Len(s) + 1
         /\ DOMAIN Append(s, e) = 1..(Len(s) + 1)
         /\ Append(s, e)[Len(s) + 1] = e
         /\ \A i \in 1..Len(s) : Append(s, e)[i] = s[i]
<1> DEFINE S == {s[i] : i \in 1..Len(s)} \cup {e}
<1>1. s \in Seq(S)
  <2>1. \A i \in DOMAIN s : s[i] \in S
    BY DEF IsSeq
  <2> QED BY <2>1, SeqOfRows
<1>2. e \in S
  OBVIOUS
<1> HIDE DEF S
<1>3. /\ Append(s, e) \in Seq(S) /\ Len(Append(s, e)) = Len(s) + 1
      /\ Append(s, e)[Len(s) + 1] = e
      /\ \A i \in 1..Len(s) : Append(s, e)[i] = s[i]
  BY <1>1, <1>2
<1>4. DOMAIN Append(s, e) = 1..(Len(s) + 1) /\ Len(s) \in Nat
  BY <1>1, <1>3
<1>5. Append(s, e) = [i \in 1..(Len(s) + 1) |-> Append(s, e)[i]]
  <2>1. IsSeq(Append(s, e))
    BY <1>3, MemberIsSeq
  <2> QED BY <2>1, <1>3 DEF IsSeq
<1>6. IsSeq(Append(s, e))
  BY <1>3, <1>4, <1>5 DEF IsSeq
<1> QED BY <1>3, <1>4, <1>6

\* Rows that are written again stay in their places.
LEMMA SameShape ==
  ASSUME NEW s, IsSeq(s), NEW f, f = [j \in DOMAIN s |-> f[j]]
  PROVE  IsSeq(f) /\ Len(f) = Len(s) /\ DOMAIN f = DOMAIN s
<1>1. Len(s) \in Nat /\ DOMAIN s = 1..Len(s)
  BY DEF IsSeq
<1>2. f = [j \in 1..Len(s) |-> f[j]]
  BY <1>1
<1>3. IsSeq(f) /\ Len(f) = Len(s)
  BY <1>1, <1>2, FunctionIsSeq
<1> QED BY <1>1, <1>2, <1>3

\* Every set of naturals that is not empty has a least element, the one Min names.
LEMMA MinIsLeast ==
  ASSUME NEW T, T \subseteq Nat, T # {}
  PROVE  Min(T) \in T /\ \A y \in T : Min(T) <= y
<1> DEFINE R == {ss \in Nat \X Nat : ss[1] < ss[2]}
<1>1. OpToRel(<, Nat) = R
  BY DEF OpToRel
<1>2. IsWellFoundedOn(R, Nat)
  BY <1>1, NatLessThanWellFounded
<1>3. PICK x \in T : \A y \in T : ~ (<<y, x>> \in R)
  <2> HIDE DEF R
  <2> QED BY <1>2, WFMin
<1>4. \A y \in T : x <= y
  <2> SUFFICES ASSUME NEW y \in T, ~(x <= y) PROVE FALSE
    OBVIOUS
  <2>1. y < x /\ y \in Nat /\ x \in Nat
    OBVIOUS
  <2>2. <<y, x>> \in R
    BY <2>1
  <2> QED BY <2>2, <1>3
<1>5. Min(T) = CHOOSE z \in T : \A y \in T : z =< y
  BY DEF Min
<1> QED BY <1>4, <1>5

\* A set of naturals with an upper bound has a greatest element, the one Max names.
LEMMA MaxIsGreatest ==
  ASSUME NEW T, T \subseteq Nat, T # {}, NEW n \in Nat, \A y \in T : y <= n
  PROVE  Max(T) \in T /\ \A y \in T : Max(T) >= y
<1> DEFINE U == {n - y : y \in T}
<1>1. U \subseteq Nat /\ U # {}
  <2>1. \A y \in T : n - y \in Nat
    OBVIOUS
  <2>2. PICK y \in T : TRUE
    OBVIOUS
  <2>3. n - y \in U
    OBVIOUS
  <2> QED BY <2>1, <2>3
<1>2. Min(U) \in U /\ \A z \in U : Min(U) <= z
  BY <1>1, MinIsLeast
<1>3. PICK x \in T : Min(U) = n - x
  BY <1>2
<1>4. \A y \in T : x >= y
  <2> SUFFICES ASSUME NEW y \in T PROVE x >= y
    OBVIOUS
  <2>1. n - y \in U
    OBVIOUS
  <2>2. n - x <= n - y
    BY <2>1, <1>2, <1>3
  <2> QED BY <2>2
<1>5. Max(T) = CHOOSE z \in T : \A y \in T : z >= y
  BY DEF Max
<1> QED BY <1>4, <1>5
-----------------------------------------------------------------------------
(* Well-formed tables *)

Fields == {"sessions", "parent", "messages", "turns", "operations", "actions", "commands",
           "stops", "archive", "owed", "causes", "endings", "forwards"}

IsStore(d) == DOMAIN d = Fields

\* r is a database that differs from d in the tables of S only.
Only(d, r, S) == IsStore(r) /\ \A f \in Fields \ S : r[f] = d[f]

Outcomes == {"open", "completed", "cancelled", "failed", "resource_exceeded", "retry_exhausted"}

OperationResolutions == {"none", "answer", "tool_proposals", "compacted", "interrupted",
                         "context_overflow", "failed", "retry_exhausted"}

ActionResolutions == {"none", "cancelled", "denied", "succeeded", "failed", "spawn_failed",
                      "indeterminate"}

MessageRow(d) == [session : d.sessions, key : d.commands, turn : 0..Len(d.turns)]

TurnRow(d) == [session : d.sessions, operation : 1..Len(d.operations), outcome : Outcomes,
               continuation : 0..Len(d.operations), first : 1..Len(d.messages)]

OperationRow(d) == [turn : 1..Len(d.turns), purpose : {"assistant", "compaction"},
                    ordinal : 1..MaxAttempts, waiting : BOOLEAN, claimed : BOOLEAN,
                    resolution : OperationResolutions]

ActionRow(d) == [operation : 1..Len(d.operations), tool : Tools, authorized : BOOLEAN,
                 attempted : BOOLEAN, resolution : ActionResolutions]

StopRow(d) == [key : d.commands, session : d.sessions, turn : 0..Len(d.turns),
               cutoff : 0..Len(d.messages), parentCaused : BOOLEAN]

EndingRow(d) == [turn : 1..Len(d.turns), suppressed : BOOLEAN, delivered : BOOLEAN]

ForwardRow(d) == [target : d.sessions, kind : {"approval", "ending"}, source : Nat,
                  delivered : BOOLEAN]

SessionRows(d) ==
  /\ d.sessions \subseteq Sessions
  /\ d.parent \in [Sessions -> Sessions \cup {NoSession}]
  /\ \A s \in d.sessions : d.parent[s] \in d.sessions \cup {NoSession}

MessageRows(d) == IsSeq(d.messages) /\ \A m \in DOMAIN d.messages : d.messages[m] \in MessageRow(d)

TurnRows(d) == IsSeq(d.turns) /\ \A t \in DOMAIN d.turns : d.turns[t] \in TurnRow(d)

OperationRows(d) ==
  IsSeq(d.operations) /\ \A o \in DOMAIN d.operations : d.operations[o] \in OperationRow(d)

ActionRows(d) == IsSeq(d.actions) /\ \A a \in DOMAIN d.actions : d.actions[a] \in ActionRow(d)

StopRows(d) == \A stop \in d.stops : stop \in StopRow(d)

EndingRows(d) ==
  \A e \in d.endings : e \in EndingRow(d) /\ d.parent[d.turns[e.turn].session] # NoSession

ForwardRows(d) == IsSeq(d.forwards) /\ \A f \in DOMAIN d.forwards : d.forwards[f] \in ForwardRow(d)

CommandRows(d) ==
  /\ NoKey \notin d.commands
  /\ d.archive \in [Sessions -> d.commands \cup {NoKey}]

OwedRows(d) ==
  /\ d.owed \subseteq [child : d.sessions, position : Nat]
  /\ d.causes \in Nat

Tables(d) ==
  /\ IsStore(d)
  /\ SessionRows(d) /\ MessageRows(d) /\ TurnRows(d) /\ OperationRows(d) /\ ActionRows(d)
  /\ StopRows(d) /\ EndingRows(d) /\ ForwardRows(d) /\ CommandRows(d) /\ OwedRows(d)

-----------------------------------------------------------------------------
(* The rules of Turns *)

\* A Turn's current Operation is its own.
OperationIsOwn(d) == \A t \in Turns(d) : d.operations[d.turns[t].operation].turn = t

OneOpenTurn(d) ==
  \A t, u \in Turns(d) :
    IsOpen(d, t) /\ IsOpen(d, u) /\ d.turns[t].session = d.turns[u].session => t = u

\* What is not resolved is current in an open Turn.
OperationIsCurrent(d) ==
  \A o \in Operations(d) : Unresolved(d.operations[o]) =>
    IsOpen(d, d.operations[o].turn) /\ d.turns[d.operations[o].turn].operation = o

ActionIsCurrent(d) ==
  \A a \in Actions(d) : Unresolved(d.actions[a]) =>
    /\ IsOpen(d, TurnOfAction(d, a))
    /\ d.turns[TurnOfAction(d, a)].operation = d.actions[a].operation

\* Only an Operation that proposed calls has Actions.
ActionWasProposed(d) ==
  \A a \in Actions(d) : d.operations[d.actions[a].operation].resolution = "tool_proposals"

\* Core calls are authorized and never attempted; a decision is waited for, or
\* an Attempt made, of Bash calls only.
ToolRules(d) ==
  \A a \in Actions(d) :
    /\ IsCore(d.actions[a].tool) => d.actions[a].authorized /\ ~d.actions[a].attempted
    /\ d.actions[a].attempted => d.actions[a].authorized

Behind(d) ==
  /\ OperationIsOwn(d) /\ OneOpenTurn(d) /\ OperationIsCurrent(d) /\ ActionIsCurrent(d)

\* disagreeing_continuation, of one Turn.
Agrees(d, t) ==
  IsOpen(d, t) => (d.turns[t].continuation = d.turns[t].operation
                     <=> ContinuesWithoutInput(d, d.turns[t].operation))

Waiting(d, t) == {a \in ActionsOf(d, d.turns[t].operation) : Unresolved(d.actions[a])}

\* A stopped Turn that is open waits for Attempts, and for nothing else.
StoppedWaits(d, t) ==
  IsOpen(d, t) /\ StopSelected(d, t) =>
    /\ Waiting(d, t) # {}
    /\ \A a \in Waiting(d, t) : d.actions[a].attempted

\* An open Turn no stop selected is running, or can go on, or can once more
\* input comes, which has come.
GoesOn(d, t) ==
  IsOpen(d, t) /\ ~StopSelected(d, t) =>
    \/ d.operations[d.turns[t].operation].resolution
         \in {"none", "answer", "tool_proposals", "compacted", "context_overflow"}
    \/ /\ d.operations[d.turns[t].operation].resolution = "interrupted"
       /\ QueuedIn(d, d.turns[t].session) # {}

TurnRule(d, t) == Agrees(d, t) /\ StoppedWaits(d, t) /\ GoesOn(d, t)

TurnRules(d) ==
  Behind(d) /\ ActionWasProposed(d) /\ ToolRules(d) /\ \A t \in Turns(d) : TurnRule(d, t)

-----------------------------------------------------------------------------
(* Single writes, and the tables after them *)

\* The tables a database keeps its rows in, one by one.
LEMMA OnlyFields ==
  ASSUME NEW d, NEW r, NEW S, IsStore(d), Only(d, r, S)
  PROVE  /\ IsStore(r)
         /\ "sessions" \notin S => r.sessions = d.sessions
         /\ "parent" \notin S => r.parent = d.parent
         /\ "messages" \notin S => r.messages = d.messages
         /\ "turns" \notin S => r.turns = d.turns
         /\ "operations" \notin S => r.operations = d.operations
         /\ "actions" \notin S => r.actions = d.actions
         /\ "commands" \notin S => r.commands = d.commands
         /\ "stops" \notin S => r.stops = d.stops
         /\ "archive" \notin S => r.archive = d.archive
         /\ "owed" \notin S => r.owed = d.owed
         /\ "causes" \notin S => r.causes = d.causes
         /\ "endings" \notin S => r.endings = d.endings
         /\ "forwards" \notin S => r.forwards = d.forwards
BY DEF Only, Fields

\* No row is deleted, and references into the tables stay good.
Grown(d, r) ==
  /\ d.sessions \subseteq r.sessions /\ d.commands \subseteq r.commands
  /\ Len(r.messages) \in Nat /\ Len(d.messages) <= Len(r.messages)
  /\ Len(r.turns) \in Nat /\ Len(d.turns) <= Len(r.turns)
  /\ Len(r.operations) \in Nat /\ Len(d.operations) <= Len(r.operations)

\* Growth of the tables keeps the rows that refer to them good.
LEMMA RowsGrow ==
  ASSUME NEW d, NEW r, Tables(d), Grown(d, r)
  PROVE  /\ MessageRow(d) \subseteq MessageRow(r) /\ TurnRow(d) \subseteq TurnRow(r)
         /\ OperationRow(d) \subseteq OperationRow(r) /\ ActionRow(d) \subseteq ActionRow(r)
         /\ StopRow(d) \subseteq StopRow(r) /\ EndingRow(d) \subseteq EndingRow(r)
         /\ ForwardRow(d) \subseteq ForwardRow(r)
<1>1. /\ Len(d.messages) \in Nat /\ Len(d.turns) \in Nat /\ Len(d.operations) \in Nat
  BY DEF Tables, MessageRows, TurnRows, OperationRows, IsSeq
<1>2. /\ 0..Len(d.turns) \subseteq 0..Len(r.turns) /\ 1..Len(d.turns) \subseteq 1..Len(r.turns)
      /\ 0..Len(d.operations) \subseteq 0..Len(r.operations)
      /\ 1..Len(d.operations) \subseteq 1..Len(r.operations)
      /\ 0..Len(d.messages) \subseteq 0..Len(r.messages)
      /\ 1..Len(d.messages) \subseteq 1..Len(r.messages)
  BY <1>1 DEF Grown
<1>3. d.sessions \subseteq r.sessions /\ d.commands \subseteq r.commands
  BY DEF Grown
<1>4. MessageRow(d) \subseteq MessageRow(r)
  BY <1>2, <1>3 DEF MessageRow
<1>5. TurnRow(d) \subseteq TurnRow(r)
  BY <1>2, <1>3 DEF TurnRow
<1>6. OperationRow(d) \subseteq OperationRow(r)
  BY <1>2 DEF OperationRow
<1>7. ActionRow(d) \subseteq ActionRow(r)
  BY <1>2 DEF ActionRow
<1>8. StopRow(d) \subseteq StopRow(r)
  BY <1>2, <1>3 DEF StopRow
<1>9. EndingRow(d) \subseteq EndingRow(r)
  BY <1>2 DEF EndingRow
<1>10. ForwardRow(d) \subseteq ForwardRow(r)
  BY <1>3 DEF ForwardRow
<1> QED BY <1>4, <1>5, <1>6, <1>7, <1>8, <1>9, <1>10

\* Tables that are not written stay well-formed while the others grow.
LEMMA TablesKept ==
  ASSUME NEW d, NEW r, NEW S, Tables(d), Only(d, r, S), Grown(d, r),
         "sessions" \in S \/ "parent" \in S => SessionRows(r),
         "messages" \in S => MessageRows(r), "turns" \in S => TurnRows(r),
         "operations" \in S => OperationRows(r), "actions" \in S => ActionRows(r),
         "stops" \in S => StopRows(r),
         "endings" \in S \/ "turns" \in S \/ "parent" \in S => EndingRows(r),
         "forwards" \in S => ForwardRows(r),
         "commands" \in S \/ "archive" \in S => CommandRows(r),
         "owed" \in S \/ "causes" \in S => OwedRows(r)
  PROVE  Tables(r)
<1>1. IsStore(r) /\ IsStore(d)
  BY DEF Only, Tables
<1>2. SessionRows(r)
  <2>1. CASE "sessions" \notin S /\ "parent" \notin S
    <3>1. r.sessions = d.sessions /\ r.parent = d.parent
      BY <2>1, <1>1, OnlyFields
    <3> QED BY <3>1 DEF Tables, SessionRows
  <2> QED BY <2>1
<1>3. MessageRows(r)
  <2>1. CASE "messages" \notin S
    <3>1. r.messages = d.messages
      BY <2>1, <1>1, OnlyFields
    <3> QED BY <3>1, RowsGrow DEF Tables, MessageRows
  <2> QED BY <2>1
<1>4. TurnRows(r)
  <2>1. CASE "turns" \notin S
    <3>1. r.turns = d.turns
      BY <2>1, <1>1, OnlyFields
    <3> QED BY <3>1, RowsGrow DEF Tables, TurnRows
  <2> QED BY <2>1
<1>5. OperationRows(r)
  <2>1. CASE "operations" \notin S
    <3>1. r.operations = d.operations
      BY <2>1, <1>1, OnlyFields
    <3> QED BY <3>1, RowsGrow DEF Tables, OperationRows
  <2> QED BY <2>1
<1>6. ActionRows(r)
  <2>1. CASE "actions" \notin S
    <3>1. r.actions = d.actions
      BY <2>1, <1>1, OnlyFields
    <3> QED BY <3>1, RowsGrow DEF Tables, ActionRows
  <2> QED BY <2>1
<1>7. StopRows(r)
  <2>1. CASE "stops" \notin S
    <3>1. r.stops = d.stops
      BY <2>1, <1>1, OnlyFields
    <3> QED BY <3>1, RowsGrow DEF Tables, StopRows
  <2> QED BY <2>1
<1>8. EndingRows(r)
  <2>1. CASE "endings" \notin S /\ "turns" \notin S /\ "parent" \notin S
    <3>1. r.endings = d.endings /\ r.turns = d.turns /\ r.parent = d.parent
      BY <2>1, <1>1, OnlyFields
    <3> QED BY <3>1, RowsGrow DEF Tables, EndingRows
  <2> QED BY <2>1
<1>9. ForwardRows(r)
  <2>1. CASE "forwards" \notin S
    <3>1. r.forwards = d.forwards
      BY <2>1, <1>1, OnlyFields
    <3> QED BY <3>1, RowsGrow DEF Tables, ForwardRows
  <2> QED BY <2>1
<1>10. CommandRows(r)
  <2>1. CASE "commands" \notin S /\ "archive" \notin S
    <3>1. r.commands = d.commands /\ r.archive = d.archive
      BY <2>1, <1>1, OnlyFields
    <3> QED BY <3>1 DEF Tables, CommandRows
  <2> QED BY <2>1
<1>11. OwedRows(r)
  <2>1. CASE "owed" \notin S /\ "causes" \notin S
    <3>1. r.owed = d.owed /\ r.causes = d.causes
      BY <2>1, <1>1, OnlyFields
    <3> QED BY <3>1 DEF Tables, OwedRows, Grown
  <2> QED BY <2>1
<1> QED BY <1>1, <1>2, <1>3, <1>4, <1>5, <1>6, <1>7, <1>8, <1>9, <1>10, <1>11 DEF Tables
-----------------------------------------------------------------------------
(* Single writes, and the tables after them *)

\* Writes that entry points make in place.
AddSession(d, s, p)  == [d EXCEPT !.sessions = @ \cup {s}, !.parent[s] = p]
AddStop(d, stop)     == [d EXCEPT !.stops = @ \cup {stop}]
SettleOwed(d, s)     == [d EXCEPT !.owed = {row \in @ : row.child # s}]
MarkForward(d, f)    == [d EXCEPT !.forwards[f].delivered = TRUE]
MarkEnding(d, e)     == [d EXCEPT !.endings = (@ \ {e}) \cup {[e EXCEPT !.delivered = TRUE]}]
Authorize(d, a)      == [d EXCEPT !.actions[a].authorized = TRUE]
SetOutcome(d, t, x)  == [d EXCEPT !.turns[t].outcome = x]
SetContinuation(d, t) == [d EXCEPT !.turns[t].continuation = d.turns[t].operation]
AddEnding(d, t, x)   == [d EXCEPT !.endings = @ \cup {[turn |-> t, suppressed |-> x, delivered |-> FALSE]}]
AddForward(d, s, kind, source) ==
  [d EXCEPT !.forwards = Append(@, [target |-> s, kind |-> kind, source |-> source, delivered |-> FALSE])]
AddAction(d, o, tool, x) ==
  [d EXCEPT !.actions = Append(@, [operation |-> o, tool |-> tool, authorized |-> x,
                                   attempted |-> FALSE, resolution |-> "none"])]

\* A saved answer adds its key.
LEMMA SaveCommandFields ==
  ASSUME NEW d, IsStore(d), NEW key
  PROVE  LET r == SaveCommand(d, key)
         IN  /\ Only(d, r, {"commands"})
             /\ r.commands = d.commands \cup {key}
BY DEF SaveCommand, Only, IsStore, Fields

\* An admitted Message is the last one, and no Turn has taken it.
LEMMA AdmitMessageFields ==
  ASSUME NEW d, IsStore(d), NEW s, NEW key
  PROVE  LET r == AdmitMessage(d, s, key)
         IN  /\ Only(d, r, {"messages"})
             /\ r.messages = Append(d.messages, [session |-> s, key |-> key, turn |-> 0])
BY DEF AdmitMessage, Only, IsStore, Fields

\* A restored Session has no archive.
LEMMA ClearArchiveFields ==
  ASSUME NEW d, IsStore(d), NEW s
  PROVE  LET r == ClearArchive(d, s)
         IN  /\ Only(d, r, {"archive"})
             /\ r.archive = [d.archive EXCEPT ![s] = NoKey]
BY DEF ClearArchive, Only, IsStore, Fields

\* A new Session names its parent.
LEMMA AddSessionFields ==
  ASSUME NEW d, IsStore(d), NEW s, NEW p
  PROVE  LET r == AddSession(d, s, p)
         IN  /\ Only(d, r, {"sessions", "parent"})
             /\ r.sessions = d.sessions \cup {s}
             /\ r.parent = [d.parent EXCEPT ![s] = p]
BY DEF AddSession, Only, IsStore, Fields

\* A stop adds its row.
LEMMA AddStopFields ==
  ASSUME NEW d, IsStore(d), NEW stop
  PROVE  LET r == AddStop(d, stop)
         IN  /\ Only(d, r, {"stops"})
             /\ r.stops = d.stops \cup {stop}
BY DEF AddStop, Only, IsStore, Fields

\* A stop settles what the Session owed.
LEMMA SettleOwedFields ==
  ASSUME NEW d, IsStore(d), NEW s
  PROVE  LET r == SettleOwed(d, s)
         IN  /\ Only(d, r, {"owed"})
             /\ r.owed = {row \in d.owed : row.child # s}
BY DEF SettleOwed, Only, IsStore, Fields

\* A delivered feed row stays in its place.
LEMMA MarkForwardFields ==
  ASSUME NEW d, IsStore(d), NEW f
  PROVE  LET r == MarkForward(d, f)
         IN  /\ Only(d, r, {"forwards"})
             /\ r.forwards = [d.forwards EXCEPT ![f].delivered = TRUE]
BY DEF MarkForward, Only, IsStore, Fields

\* A settled ending takes the place of the one that was owed.
LEMMA MarkEndingFields ==
  ASSUME NEW d, IsStore(d), NEW e
  PROVE  LET r == MarkEnding(d, e)
         IN  /\ Only(d, r, {"endings"})
             /\ r.endings = (d.endings \ {e}) \cup {[e EXCEPT !.delivered = TRUE]}
BY DEF MarkEnding, Only, IsStore, Fields

\* A permission is written to its Action.
LEMMA AuthorizeFields ==
  ASSUME NEW d, IsStore(d), NEW a
  PROVE  LET r == Authorize(d, a)
         IN  /\ Only(d, r, {"actions"})
             /\ r.actions = [d.actions EXCEPT ![a].authorized = TRUE]
BY DEF Authorize, Only, IsStore, Fields

\* A Turn's outcome is written to its row.
LEMMA SetOutcomeFields ==
  ASSUME NEW d, IsStore(d), NEW t, NEW x
  PROVE  LET r == SetOutcome(d, t, x)
         IN  /\ Only(d, r, {"turns"})
             /\ r.turns = [d.turns EXCEPT ![t].outcome = x]
BY DEF SetOutcome, Only, IsStore, Fields

\* A Turn's continuation is written to its row.
LEMMA SetContinuationFields ==
  ASSUME NEW d, IsStore(d), NEW t
  PROVE  LET r == SetContinuation(d, t)
         IN  /\ Only(d, r, {"turns"})
             /\ r.turns = [d.turns EXCEPT ![t].continuation = d.turns[t].operation]
BY DEF SetContinuation, Only, IsStore, Fields

\* An ending is owed once more.
LEMMA AddEndingFields ==
  ASSUME NEW d, IsStore(d), NEW t, NEW x
  PROVE  LET r == AddEnding(d, t, x)
         IN  /\ Only(d, r, {"endings"})
             /\ r.endings = d.endings \cup {[turn |-> t, suppressed |-> x, delivered |-> FALSE]}
BY DEF AddEnding, Only, IsStore, Fields

\* A new feed row is the last one, not delivered.
LEMMA AddForwardFields ==
  ASSUME NEW d, IsStore(d), NEW s, NEW kind, NEW source
  PROVE  LET r == AddForward(d, s, kind, source)
         IN  /\ Only(d, r, {"forwards"})
             /\ r.forwards = Append(d.forwards, [target |-> s, kind |-> kind, source |-> source, delivered |-> FALSE])
BY DEF AddForward, Only, IsStore, Fields

\* An imported call is the last Action.
LEMMA AddActionFields ==
  ASSUME NEW d, IsStore(d), NEW o, NEW tool, NEW x
  PROVE  LET r == AddAction(d, o, tool, x)
         IN  /\ Only(d, r, {"actions"})
             /\ r.actions = Append(d.actions, [operation |-> o, tool |-> tool, authorized |-> x,
                                                    attempted |-> FALSE, resolution |-> "none"])
BY DEF AddAction, Only, IsStore, Fields

\* An Action's Resolution is written to its row.
LEMMA ResolveActionFields ==
  ASSUME NEW d, IsStore(d), NEW a, NEW x
  PROVE  LET r == ResolveAction(d, a, x)
         IN  /\ Only(d, r, {"actions"})
             /\ r.actions = [d.actions EXCEPT ![a].resolution = x]
BY DEF ResolveAction, Only, IsStore, Fields

\* An admitted Attempt is written to its Action.
LEMMA AdmitActionFields ==
  ASSUME NEW d, IsStore(d), NEW a
  PROVE  LET r == AdmitAction(d, a)
         IN  /\ Only(d, r, {"actions"})
             /\ r.actions = [d.actions EXCEPT ![a].attempted = TRUE]
BY DEF AdmitAction, Only, IsStore, Fields

\* An Operation's Resolution ends its wait.
LEMMA ResolveOperationFields ==
  ASSUME NEW d, IsStore(d), NEW o, NEW x
  PROVE  LET r == ResolveOperation(d, o, x)
         IN  /\ Only(d, r, {"operations"})
             /\ r.operations = [d.operations EXCEPT ![o] = [d.operations[o] EXCEPT !.resolution = x, !.waiting = FALSE]]
BY DEF ResolveOperation, Only, IsStore, Fields

\* A retry is the Operation's next Attempt, within the allowance.
LEMMA AdmitRetryFields ==
  ASSUME NEW d, IsStore(d), NEW o
  PROVE  LET r == AdmitRetry(d, o)
         IN  /\ Only(d, r, {"operations"})
             /\ r.operations = [d.operations EXCEPT ![o] = [d.operations[o] EXCEPT !.ordinal = d.operations[o].ordinal + 1, !.waiting = FALSE]]
BY DEF AdmitRetry, Only, IsStore, Fields

\* A claimed refresh is written to its Operation.
LEMMA ClaimAuthRefreshFields ==
  ASSUME NEW d, IsStore(d), NEW o
  PROVE  LET r == ClaimAuthRefresh(d, o)
         IN  /\ Only(d, r, {"operations"})
             /\ r.operations = [d.operations EXCEPT ![o].claimed = TRUE]
BY DEF ClaimAuthRefresh, Only, IsStore, Fields

\* An Operation that waits for its retry says so.
LEMMA WaitForRetryFields ==
  ASSUME NEW d, IsStore(d), NEW o
  PROVE  LET r == WaitForRetry(d, o)
         IN  /\ Only(d, r, {"operations"})
             /\ r.operations = [d.operations EXCEPT ![o].waiting = TRUE]
BY DEF WaitForRetry, Only, IsStore, Fields

\* A stop cancels the Operation's Actions that were never attempted.
LEMMA CancelActionsFields ==
  ASSUME NEW d, IsStore(d), NEW o
  PROVE  LET r == CancelActions(d, o)
         IN  /\ Only(d, r, {"actions"})
             /\ r.actions = [a \in Actions(d) |->
               IF d.actions[a].operation = o /\ Unresolved(d.actions[a]) /\ ~d.actions[a].attempted
               THEN [d.actions[a] EXCEPT !.resolution = "cancelled"] ELSE d.actions[a]]
BY DEF CancelActions, Only, IsStore, Fields

\* An archive suppresses the endings its Session has not been told.
LEMMA ArchiveUnderFields ==
  ASSUME NEW d, IsStore(d), NEW s, NEW key
  PROVE  LET r == ArchiveUnder(d, s, key)
         IN  /\ Only(d, r, {"archive", "endings"})
             /\ r.archive = [d.archive EXCEPT ![s] = key]
             /\ r.endings = {IF d.parent[SessionOfTurn(d, e.turn)] = s /\ ~e.delivered
                           THEN [e EXCEPT !.suppressed = TRUE] ELSE e : e \in d.endings}
BY DEF ArchiveUnder, Only, IsStore, Fields

\* The tables after SaveCommand.
LEMMA SaveCommandTables ==
  ASSUME NEW d, Tables(d), NEW key,
         key # NoKey
  PROVE  Tables(SaveCommand(d, key)) /\ Grown(d, SaveCommand(d, key))
<1> DEFINE r == SaveCommand(d, key)
<1>1. IsStore(d)
  BY DEF Tables
<1>2. /\ Only(d, r, {"commands"})
      /\ r.commands = d.commands \cup {key}
  BY SaveCommandFields DEF Tables
<1> HIDE DEF r
<1>3. r.sessions = d.sessions /\ r.messages = d.messages /\ r.turns = d.turns /\ r.operations = d.operations
  BY <1>1, <1>2, OnlyFields
<1>4. Len(d.messages) \in Nat /\ Len(d.turns) \in Nat /\ Len(d.operations) \in Nat
  BY SeqDomain DEF Tables, MessageRows, TurnRows, OperationRows
<1>6. Grown(d, r)
  BY <1>2, <1>3, <1>4 DEF Grown
<1>7. CommandRows(r)
  BY <1>1, <1>2, <1>3, <1>4, OnlyFields DEF Tables, CommandRows, NoKey, Turns
<1>8. Tables(r)
  BY <1>2, <1>6, <1>7, TablesKept
<1> QED BY <1>6, <1>8 DEF r

\* The tables after AdmitMessage.
LEMMA AdmitMessageTables ==
  ASSUME NEW d, Tables(d), NEW s, NEW key,
         s \in d.sessions,
         key \in d.commands
  PROVE  Tables(AdmitMessage(d, s, key)) /\ Grown(d, AdmitMessage(d, s, key))
<1> DEFINE r == AdmitMessage(d, s, key)
<1>1. IsStore(d)
  BY DEF Tables
<1>2. /\ Only(d, r, {"messages"})
      /\ r.messages = Append(d.messages, [session |-> s, key |-> key, turn |-> 0])
  BY AdmitMessageFields DEF Tables
<1> HIDE DEF r
<1>3. r.sessions = d.sessions /\ r.commands = d.commands /\ r.turns = d.turns /\ r.operations = d.operations
  BY <1>1, <1>2, OnlyFields
<1>4. Len(d.messages) \in Nat /\ Len(d.turns) \in Nat /\ Len(d.operations) \in Nat
  BY SeqDomain DEF Tables, MessageRows, TurnRows, OperationRows
<1>5. /\ IsSeq(r.messages) /\ Len(r.messages) = Len(d.messages) + 1 /\ DOMAIN r.messages = 1..(Len(d.messages) + 1)
      /\ r.messages[Len(d.messages) + 1] = [session |-> s, key |-> key, turn |-> 0]
      /\ \A j \in 1..Len(d.messages) : r.messages[j] = d.messages[j]
  BY <1>2, AppendIsSeq DEF Tables, MessageRows
<1>6. Grown(d, r)
  BY <1>2, <1>3, <1>4, <1>5 DEF Grown
<1>7. MessageRows(r)
  <2>1. [session |-> s, key |-> key, turn |-> 0] \in MessageRow(d)
    BY <1>4 DEF MessageRow, ActionResolutions, Operations
  <2>2. \A j \in 1..Len(d.messages) : d.messages[j] \in MessageRow(d)
    BY SeqDomain DEF Tables, MessageRows
  <2>3. \A j \in DOMAIN r.messages : r.messages[j] \in MessageRow(d)
    BY <1>5, <2>1, <2>2, SeqDomain DEF Tables, MessageRows
  <2> QED BY <2>3, <1>5, <1>6, RowsGrow DEF MessageRows
<1>8. Tables(r)
  BY <1>2, <1>6, <1>7, TablesKept
<1> QED BY <1>6, <1>8 DEF r

\* The tables after ClearArchive.
LEMMA ClearArchiveTables ==
  ASSUME NEW d, Tables(d), NEW s
  PROVE  Tables(ClearArchive(d, s)) /\ Grown(d, ClearArchive(d, s))
<1> DEFINE r == ClearArchive(d, s)
<1>1. IsStore(d)
  BY DEF Tables
<1>2. /\ Only(d, r, {"archive"})
      /\ r.archive = [d.archive EXCEPT ![s] = NoKey]
  BY ClearArchiveFields DEF Tables
<1> HIDE DEF r
<1>3. r.sessions = d.sessions /\ r.commands = d.commands /\ r.messages = d.messages /\ r.turns = d.turns /\ r.operations = d.operations
  BY <1>1, <1>2, OnlyFields
<1>4. Len(d.messages) \in Nat /\ Len(d.turns) \in Nat /\ Len(d.operations) \in Nat
  BY SeqDomain DEF Tables, MessageRows, TurnRows, OperationRows
<1>6. Grown(d, r)
  BY <1>2, <1>3, <1>4 DEF Grown
<1>7. CommandRows(r)
  BY <1>1, <1>2, <1>3, <1>4, OnlyFields DEF Tables, CommandRows, NoKey, Turns
<1>8. Tables(r)
  BY <1>2, <1>6, <1>7, TablesKept
<1> QED BY <1>6, <1>8 DEF r

\* The tables after AddSession.
LEMMA AddSessionTables ==
  ASSUME NEW d, Tables(d), NEW s, NEW p,
         s \in Sessions \ d.sessions,
         p \in d.sessions \cup {NoSession}
  PROVE  Tables(AddSession(d, s, p)) /\ Grown(d, AddSession(d, s, p))
<1> DEFINE r == AddSession(d, s, p)
<1>1. IsStore(d)
  BY DEF Tables
<1>2. /\ Only(d, r, {"sessions", "parent"})
      /\ r.sessions = d.sessions \cup {s}
      /\ r.parent = [d.parent EXCEPT ![s] = p]
  BY AddSessionFields DEF Tables
<1> HIDE DEF r
<1>3. r.commands = d.commands /\ r.messages = d.messages /\ r.turns = d.turns /\ r.operations = d.operations
  BY <1>1, <1>2, OnlyFields
<1>4. Len(d.messages) \in Nat /\ Len(d.turns) \in Nat /\ Len(d.operations) \in Nat
  BY SeqDomain DEF Tables, MessageRows, TurnRows, OperationRows
<1>6. Grown(d, r)
  BY <1>2, <1>3, <1>4 DEF Grown
<1>7. SessionRows(r)
  BY <1>1, <1>2, <1>3, <1>4, OnlyFields DEF Tables, SessionRows, NoKey, Turns
<1>8. EndingRows(r)
  <2>1. \A e \in d.endings : e \in EndingRow(d) /\ e.turn \in DOMAIN d.turns
    BY <1>4, SeqDomain DEF Tables, EndingRows, EndingRow, TurnRows
  <2>2. \A e \in d.endings : d.turns[e.turn].session \in d.sessions
    BY <2>1 DEF Tables, TurnRows, TurnRow
  <2>3. r.endings = d.endings
    BY <1>1, <1>2, OnlyFields
  <2>4. \A u \in d.sessions : r.parent[u] = d.parent[u]
    BY <1>2 DEF Tables, SessionRows
  <2>5. \A e \in d.endings : e \in EndingRow(r)
    BY <2>1, <1>6, RowsGrow
  <2> QED BY <2>2, <2>3, <2>4, <2>5, <1>3 DEF Tables, EndingRows
<1>9. Tables(r)
  BY <1>2, <1>6, <1>7, <1>8, TablesKept
<1> QED BY <1>6, <1>9 DEF r

\* The tables after AddStop.
LEMMA AddStopTables ==
  ASSUME NEW d, Tables(d), NEW stop,
         stop \in StopRow(d)
  PROVE  Tables(AddStop(d, stop)) /\ Grown(d, AddStop(d, stop))
<1> DEFINE r == AddStop(d, stop)
<1>1. IsStore(d)
  BY DEF Tables
<1>2. /\ Only(d, r, {"stops"})
      /\ r.stops = d.stops \cup {stop}
  BY AddStopFields DEF Tables
<1> HIDE DEF r
<1>3. r.sessions = d.sessions /\ r.commands = d.commands /\ r.messages = d.messages /\ r.turns = d.turns /\ r.operations = d.operations
  BY <1>1, <1>2, OnlyFields
<1>4. Len(d.messages) \in Nat /\ Len(d.turns) \in Nat /\ Len(d.operations) \in Nat
  BY SeqDomain DEF Tables, MessageRows, TurnRows, OperationRows
<1>6. Grown(d, r)
  BY <1>2, <1>3, <1>4 DEF Grown
<1>7. StopRows(r)
  BY <1>1, <1>2, <1>3, <1>4, OnlyFields DEF Tables, StopRows, StopRow, NoKey, Turns
<1>8. Tables(r)
  BY <1>2, <1>6, <1>7, TablesKept
<1> QED BY <1>6, <1>8 DEF r

\* The tables after SettleOwed.
LEMMA SettleOwedTables ==
  ASSUME NEW d, Tables(d), NEW s
  PROVE  Tables(SettleOwed(d, s)) /\ Grown(d, SettleOwed(d, s))
<1> DEFINE r == SettleOwed(d, s)
<1>1. IsStore(d)
  BY DEF Tables
<1>2. /\ Only(d, r, {"owed"})
      /\ r.owed = {row \in d.owed : row.child # s}
  BY SettleOwedFields DEF Tables
<1> HIDE DEF r
<1>3. r.sessions = d.sessions /\ r.commands = d.commands /\ r.messages = d.messages /\ r.turns = d.turns /\ r.operations = d.operations
  BY <1>1, <1>2, OnlyFields
<1>4. Len(d.messages) \in Nat /\ Len(d.turns) \in Nat /\ Len(d.operations) \in Nat
  BY SeqDomain DEF Tables, MessageRows, TurnRows, OperationRows
<1>6. Grown(d, r)
  BY <1>2, <1>3, <1>4 DEF Grown
<1>7. OwedRows(r)
  BY <1>1, <1>2, <1>3, <1>4, OnlyFields DEF Tables, OwedRows, NoKey, Turns
<1>8. Tables(r)
  BY <1>2, <1>6, <1>7, TablesKept
<1> QED BY <1>6, <1>8 DEF r

\* The tables after MarkForward.
LEMMA MarkForwardTables ==
  ASSUME NEW d, Tables(d), NEW f,
         f \in DOMAIN d.forwards
  PROVE  Tables(MarkForward(d, f)) /\ Grown(d, MarkForward(d, f))
<1> DEFINE r == MarkForward(d, f)
<1>1. IsStore(d)
  BY DEF Tables
<1>2. /\ Only(d, r, {"forwards"})
      /\ r.forwards = [d.forwards EXCEPT ![f].delivered = TRUE]
  BY MarkForwardFields DEF Tables
<1> HIDE DEF r
<1>3. r.sessions = d.sessions /\ r.commands = d.commands /\ r.messages = d.messages /\ r.turns = d.turns /\ r.operations = d.operations
  BY <1>1, <1>2, OnlyFields
<1>4. Len(d.messages) \in Nat /\ Len(d.turns) \in Nat /\ Len(d.operations) \in Nat
  BY SeqDomain DEF Tables, MessageRows, TurnRows, OperationRows
<1>5. /\ IsSeq(r.forwards) /\ Len(r.forwards) = Len(d.forwards) /\ DOMAIN r.forwards = DOMAIN d.forwards
  <2> DEFINE row == [d.forwards[f] EXCEPT !.delivered = TRUE]
  <2>1. r.forwards = [d.forwards EXCEPT ![f] = row]
    BY <1>2
  <2> HIDE DEF row
  <2>2. r.forwards = [j \in DOMAIN d.forwards |-> r.forwards[j]]
    BY <2>1
  <2> QED BY <2>2, SameShape DEF Tables, ForwardRows
<1>6. Grown(d, r)
  BY <1>2, <1>3, <1>4, <1>5 DEF Grown
<1>7. ForwardRows(r)
  <2>1. d.forwards[f] \in ForwardRow(d)
    BY DEF Tables, ForwardRows
  <2>2. [d.forwards[f] EXCEPT !.delivered = TRUE] \in ForwardRow(d)
    BY <2>1, <1>4 DEF ForwardRow
  <2>3. \A j \in DOMAIN d.forwards : r.forwards[j] \in ForwardRow(d)
    BY <1>2, <2>2 DEF Tables, ForwardRows
  <2> QED BY <2>3, <1>5, <1>6, RowsGrow DEF ForwardRows
<1>8. Tables(r)
  BY <1>2, <1>6, <1>7, TablesKept
<1> QED BY <1>6, <1>8 DEF r

\* The tables after MarkEnding.
LEMMA MarkEndingTables ==
  ASSUME NEW d, Tables(d), NEW e,
         e \in d.endings
  PROVE  Tables(MarkEnding(d, e)) /\ Grown(d, MarkEnding(d, e))
<1> DEFINE r == MarkEnding(d, e)
<1>1. IsStore(d)
  BY DEF Tables
<1>2. /\ Only(d, r, {"endings"})
      /\ r.endings = (d.endings \ {e}) \cup {[e EXCEPT !.delivered = TRUE]}
  BY MarkEndingFields DEF Tables
<1> HIDE DEF r
<1>3. r.sessions = d.sessions /\ r.commands = d.commands /\ r.messages = d.messages /\ r.turns = d.turns /\ r.operations = d.operations
  BY <1>1, <1>2, OnlyFields
<1>4. Len(d.messages) \in Nat /\ Len(d.turns) \in Nat /\ Len(d.operations) \in Nat
  BY SeqDomain DEF Tables, MessageRows, TurnRows, OperationRows
<1>6. Grown(d, r)
  BY <1>2, <1>3, <1>4 DEF Grown
<1>7. EndingRows(r)
  <2>1. r.parent = d.parent /\ EndingRow(r) = EndingRow(d)
    BY <1>1, <1>2, <1>3, OnlyFields DEF EndingRow
  <2> DEFINE x == [e EXCEPT !.delivered = TRUE]
  <2>2. x \in EndingRow(d) /\ x.turn = e.turn
    BY DEF Tables, EndingRows, EndingRow
  <2>3. \A y \in r.endings : y \in d.endings \/ y = x
    BY <1>2
  <2> HIDE DEF x
  <2>4. \A y \in r.endings : \E z \in d.endings : y.turn = z.turn /\ y \in EndingRow(d)
    BY <2>2, <2>3 DEF Tables, EndingRows
  <2> QED BY <1>3, <2>1, <2>4 DEF Tables, EndingRows
<1>8. Tables(r)
  BY <1>2, <1>6, <1>7, TablesKept
<1> QED BY <1>6, <1>8 DEF r

\* The tables after Authorize.
LEMMA AuthorizeTables ==
  ASSUME NEW d, Tables(d), NEW a,
         a \in Actions(d)
  PROVE  Tables(Authorize(d, a)) /\ Grown(d, Authorize(d, a))
<1> DEFINE r == Authorize(d, a)
<1>1. IsStore(d)
  BY DEF Tables
<1>2. /\ Only(d, r, {"actions"})
      /\ r.actions = [d.actions EXCEPT ![a].authorized = TRUE]
  BY AuthorizeFields DEF Tables
<1> HIDE DEF r
<1>3. r.sessions = d.sessions /\ r.commands = d.commands /\ r.messages = d.messages /\ r.turns = d.turns /\ r.operations = d.operations
  BY <1>1, <1>2, OnlyFields
<1>4. Len(d.messages) \in Nat /\ Len(d.turns) \in Nat /\ Len(d.operations) \in Nat
  BY SeqDomain DEF Tables, MessageRows, TurnRows, OperationRows
<1>5. /\ IsSeq(r.actions) /\ Len(r.actions) = Len(d.actions) /\ DOMAIN r.actions = DOMAIN d.actions
  <2> DEFINE row == [d.actions[a] EXCEPT !.authorized = TRUE]
  <2>1. r.actions = [d.actions EXCEPT ![a] = row]
    BY <1>2
  <2> HIDE DEF row
  <2>2. r.actions = [j \in DOMAIN d.actions |-> r.actions[j]]
    BY <2>1
  <2> QED BY <2>2, SameShape DEF Tables, ActionRows
<1>6. Grown(d, r)
  BY <1>2, <1>3, <1>4, <1>5 DEF Grown
<1>7. ActionRows(r)
  <2>1. d.actions[a] \in ActionRow(d)
    BY DEF Tables, ActionRows, Actions
  <2>2. [d.actions[a] EXCEPT !.authorized = TRUE] \in ActionRow(d)
    BY <2>1, <1>4 DEF ActionRow
  <2>3. \A j \in DOMAIN d.actions : r.actions[j] \in ActionRow(d)
    BY <1>2, <2>2 DEF Tables, ActionRows
  <2> QED BY <2>3, <1>5, <1>6, RowsGrow DEF ActionRows
<1>8. Tables(r)
  BY <1>2, <1>6, <1>7, TablesKept
<1> QED BY <1>6, <1>8 DEF r

\* The tables after SetOutcome.
LEMMA SetOutcomeTables ==
  ASSUME NEW d, Tables(d), NEW t, NEW x,
         t \in Turns(d),
         x \in Outcomes
  PROVE  Tables(SetOutcome(d, t, x)) /\ Grown(d, SetOutcome(d, t, x))
<1> DEFINE r == SetOutcome(d, t, x)
<1>1. IsStore(d)
  BY DEF Tables
<1>2. /\ Only(d, r, {"turns"})
      /\ r.turns = [d.turns EXCEPT ![t].outcome = x]
  BY SetOutcomeFields DEF Tables
<1> HIDE DEF r
<1>3. r.sessions = d.sessions /\ r.commands = d.commands /\ r.messages = d.messages /\ r.operations = d.operations
  BY <1>1, <1>2, OnlyFields
<1>4. Len(d.messages) \in Nat /\ Len(d.turns) \in Nat /\ Len(d.operations) \in Nat
  BY SeqDomain DEF Tables, MessageRows, TurnRows, OperationRows
<1>5. /\ IsSeq(r.turns) /\ Len(r.turns) = Len(d.turns) /\ DOMAIN r.turns = DOMAIN d.turns
  <2> DEFINE row == [d.turns[t] EXCEPT !.outcome = x]
  <2>1. r.turns = [d.turns EXCEPT ![t] = row]
    BY <1>2
  <2> HIDE DEF row
  <2>2. r.turns = [j \in DOMAIN d.turns |-> r.turns[j]]
    BY <2>1
  <2> QED BY <2>2, SameShape DEF Tables, TurnRows
<1>6. Grown(d, r)
  BY <1>2, <1>3, <1>4, <1>5 DEF Grown
<1>7. TurnRows(r)
  <2>1. d.turns[t] \in TurnRow(d)
    BY DEF Tables, TurnRows, Turns
  <2>2. [d.turns[t] EXCEPT !.outcome = x] \in TurnRow(d)
    BY <2>1, <1>4 DEF TurnRow, Outcomes
  <2>3. \A j \in DOMAIN d.turns : r.turns[j] \in TurnRow(d)
    BY <1>2, <2>2 DEF Tables, TurnRows
  <2> QED BY <2>3, <1>5, <1>6, RowsGrow DEF TurnRows
<1>8. EndingRows(r)
  <2>1. \A e \in d.endings : e \in EndingRow(d) /\ e.turn \in DOMAIN d.turns
    BY <1>4, SeqDomain DEF Tables, EndingRows, EndingRow, TurnRows
  <2>2. r.endings = d.endings /\ r.parent = d.parent
    BY <1>1, <1>2, OnlyFields
  <2>3. \A u \in DOMAIN d.turns : r.turns[u].session = d.turns[u].session
    BY <1>2 DEF Tables, TurnRows, TurnRow
  <2>4. \A e \in d.endings : e \in EndingRow(r)
    BY <2>1, <1>6, RowsGrow
  <2> QED BY <2>1, <2>2, <2>3, <2>4 DEF Tables, EndingRows
<1>9. Tables(r)
  BY <1>2, <1>6, <1>7, <1>8, TablesKept
<1> QED BY <1>6, <1>9 DEF r

\* The tables after SetContinuation.
LEMMA SetContinuationTables ==
  ASSUME NEW d, Tables(d), NEW t,
         t \in Turns(d)
  PROVE  Tables(SetContinuation(d, t)) /\ Grown(d, SetContinuation(d, t))
<1> DEFINE r == SetContinuation(d, t)
<1>1. IsStore(d)
  BY DEF Tables
<1>2. /\ Only(d, r, {"turns"})
      /\ r.turns = [d.turns EXCEPT ![t].continuation = d.turns[t].operation]
  BY SetContinuationFields DEF Tables
<1> HIDE DEF r
<1>3. r.sessions = d.sessions /\ r.commands = d.commands /\ r.messages = d.messages /\ r.operations = d.operations
  BY <1>1, <1>2, OnlyFields
<1>4. Len(d.messages) \in Nat /\ Len(d.turns) \in Nat /\ Len(d.operations) \in Nat
  BY SeqDomain DEF Tables, MessageRows, TurnRows, OperationRows
<1>5. /\ IsSeq(r.turns) /\ Len(r.turns) = Len(d.turns) /\ DOMAIN r.turns = DOMAIN d.turns
  <2> DEFINE row == [d.turns[t] EXCEPT !.continuation = d.turns[t].operation]
  <2>1. r.turns = [d.turns EXCEPT ![t] = row]
    BY <1>2
  <2> HIDE DEF row
  <2>2. r.turns = [j \in DOMAIN d.turns |-> r.turns[j]]
    BY <2>1
  <2> QED BY <2>2, SameShape DEF Tables, TurnRows
<1>6. Grown(d, r)
  BY <1>2, <1>3, <1>4, <1>5 DEF Grown
<1>7. TurnRows(r)
  <2>1. d.turns[t] \in TurnRow(d)
    BY DEF Tables, TurnRows, Turns
  <2>2. [d.turns[t] EXCEPT !.continuation = d.turns[t].operation] \in TurnRow(d)
    BY <2>1, <1>4 DEF TurnRow
  <2>3. \A j \in DOMAIN d.turns : r.turns[j] \in TurnRow(d)
    BY <1>2, <2>2 DEF Tables, TurnRows
  <2> QED BY <2>3, <1>5, <1>6, RowsGrow DEF TurnRows
<1>8. EndingRows(r)
  <2>1. \A e \in d.endings : e \in EndingRow(d) /\ e.turn \in DOMAIN d.turns
    BY <1>4, SeqDomain DEF Tables, EndingRows, EndingRow, TurnRows
  <2>2. r.endings = d.endings /\ r.parent = d.parent
    BY <1>1, <1>2, OnlyFields
  <2>3. \A u \in DOMAIN d.turns : r.turns[u].session = d.turns[u].session
    BY <1>2 DEF Tables, TurnRows, TurnRow
  <2>4. \A e \in d.endings : e \in EndingRow(r)
    BY <2>1, <1>6, RowsGrow
  <2> QED BY <2>1, <2>2, <2>3, <2>4 DEF Tables, EndingRows
<1>9. Tables(r)
  BY <1>2, <1>6, <1>7, <1>8, TablesKept
<1> QED BY <1>6, <1>9 DEF r

\* The tables after AddEnding.
LEMMA AddEndingTables ==
  ASSUME NEW d, Tables(d), NEW t, NEW x,
         t \in Turns(d),
         x \in BOOLEAN,
         d.parent[d.turns[t].session] # NoSession
  PROVE  Tables(AddEnding(d, t, x)) /\ Grown(d, AddEnding(d, t, x))
<1> DEFINE r == AddEnding(d, t, x)
<1>1. IsStore(d)
  BY DEF Tables
<1>2. /\ Only(d, r, {"endings"})
      /\ r.endings = d.endings \cup {[turn |-> t, suppressed |-> x, delivered |-> FALSE]}
  BY AddEndingFields DEF Tables
<1> HIDE DEF r
<1>3. r.sessions = d.sessions /\ r.commands = d.commands /\ r.messages = d.messages /\ r.turns = d.turns /\ r.operations = d.operations
  BY <1>1, <1>2, OnlyFields
<1>4. Len(d.messages) \in Nat /\ Len(d.turns) \in Nat /\ Len(d.operations) \in Nat
  BY SeqDomain DEF Tables, MessageRows, TurnRows, OperationRows
<1>6. Grown(d, r)
  BY <1>2, <1>3, <1>4 DEF Grown
<1>7. EndingRows(r)
  <2>1. t \in 1..Len(d.turns)
    BY SeqDomain DEF Tables, TurnRows, Turns
  <2>2. [turn |-> t, suppressed |-> x, delivered |-> FALSE] \in EndingRow(d)
    BY <2>1 DEF EndingRow
  <2> DEFINE row == [turn |-> t, suppressed |-> x, delivered |-> FALSE]
  <2>5. row.turn = t /\ row \in EndingRow(d) /\ \A e \in r.endings : e \in d.endings \/ e = row
    BY <2>2, <1>2
  <2> HIDE DEF row
  <2>6. d.parent[d.turns[row.turn].session] # NoSession
    BY <2>5
  <2>3. \A e \in r.endings : e \in EndingRow(d) /\ d.parent[d.turns[e.turn].session] # NoSession
    BY <2>5, <2>6 DEF Tables, EndingRows
  <2>4. r.parent = d.parent
    BY <1>1, <1>2, OnlyFields
  <2> QED BY <2>3, <2>4, <1>3, <1>6, RowsGrow DEF EndingRows
<1>8. Tables(r)
  BY <1>2, <1>6, <1>7, TablesKept
<1> QED BY <1>6, <1>8 DEF r

\* The tables after AddForward.
LEMMA AddForwardTables ==
  ASSUME NEW d, Tables(d), NEW s, NEW kind, NEW source,
         s \in d.sessions,
         kind \in {"approval", "ending"},
         source \in Nat
  PROVE  Tables(AddForward(d, s, kind, source)) /\ Grown(d, AddForward(d, s, kind, source))
<1> DEFINE r == AddForward(d, s, kind, source)
<1>1. IsStore(d)
  BY DEF Tables
<1>2. /\ Only(d, r, {"forwards"})
      /\ r.forwards = Append(d.forwards, [target |-> s, kind |-> kind, source |-> source, delivered |-> FALSE])
  BY AddForwardFields DEF Tables
<1> HIDE DEF r
<1>3. r.sessions = d.sessions /\ r.commands = d.commands /\ r.messages = d.messages /\ r.turns = d.turns /\ r.operations = d.operations
  BY <1>1, <1>2, OnlyFields
<1>4. Len(d.messages) \in Nat /\ Len(d.turns) \in Nat /\ Len(d.operations) \in Nat
  BY SeqDomain DEF Tables, MessageRows, TurnRows, OperationRows
<1>5. /\ IsSeq(r.forwards) /\ Len(r.forwards) = Len(d.forwards) + 1 /\ DOMAIN r.forwards = 1..(Len(d.forwards) + 1)
      /\ r.forwards[Len(d.forwards) + 1] = [target |-> s, kind |-> kind, source |-> source, delivered |-> FALSE]
      /\ \A j \in 1..Len(d.forwards) : r.forwards[j] = d.forwards[j]
  BY <1>2, AppendIsSeq DEF Tables, ForwardRows
<1>6. Grown(d, r)
  BY <1>2, <1>3, <1>4, <1>5 DEF Grown
<1>7. ForwardRows(r)
  <2>1. [target |-> s, kind |-> kind, source |-> source, delivered |-> FALSE] \in ForwardRow(d)
    BY <1>4 DEF ForwardRow, ActionResolutions, Operations
  <2>2. \A j \in 1..Len(d.forwards) : d.forwards[j] \in ForwardRow(d)
    BY SeqDomain DEF Tables, ForwardRows
  <2>3. \A j \in DOMAIN r.forwards : r.forwards[j] \in ForwardRow(d)
    BY <1>5, <2>1, <2>2, SeqDomain DEF Tables, ForwardRows
  <2> QED BY <2>3, <1>5, <1>6, RowsGrow DEF ForwardRows
<1>8. Tables(r)
  BY <1>2, <1>6, <1>7, TablesKept
<1> QED BY <1>6, <1>8 DEF r

\* The tables after AddAction.
LEMMA AddActionTables ==
  ASSUME NEW d, Tables(d), NEW o, NEW tool, NEW x,
         o \in Operations(d),
         tool \in Tools,
         x \in BOOLEAN
  PROVE  Tables(AddAction(d, o, tool, x)) /\ Grown(d, AddAction(d, o, tool, x))
<1> DEFINE r == AddAction(d, o, tool, x)
<1>1. IsStore(d)
  BY DEF Tables
<1>2. /\ Only(d, r, {"actions"})
      /\ r.actions = Append(d.actions, [operation |-> o, tool |-> tool, authorized |-> x,
                                               attempted |-> FALSE, resolution |-> "none"])
  BY AddActionFields DEF Tables
<1> HIDE DEF r
<1>3. r.sessions = d.sessions /\ r.commands = d.commands /\ r.messages = d.messages /\ r.turns = d.turns /\ r.operations = d.operations
  BY <1>1, <1>2, OnlyFields
<1>4. Len(d.messages) \in Nat /\ Len(d.turns) \in Nat /\ Len(d.operations) \in Nat
  BY SeqDomain DEF Tables, MessageRows, TurnRows, OperationRows
<1>5. /\ IsSeq(r.actions) /\ Len(r.actions) = Len(d.actions) + 1 /\ DOMAIN r.actions = 1..(Len(d.actions) + 1)
      /\ r.actions[Len(d.actions) + 1] = [operation |-> o, tool |-> tool, authorized |-> x, attempted |-> FALSE, resolution |-> "none"]
      /\ \A j \in 1..Len(d.actions) : r.actions[j] = d.actions[j]
  BY <1>2, AppendIsSeq DEF Tables, ActionRows
<1>6. Grown(d, r)
  BY <1>2, <1>3, <1>4, <1>5 DEF Grown
<1>7. ActionRows(r)
  <2>1. [operation |-> o, tool |-> tool, authorized |-> x, attempted |-> FALSE, resolution |-> "none"] \in ActionRow(d)
    BY <1>4, SeqDomain DEF ActionRow, Tables, OperationRows, ActionResolutions, Operations
  <2>2. \A j \in 1..Len(d.actions) : d.actions[j] \in ActionRow(d)
    BY SeqDomain DEF Tables, ActionRows
  <2>3. \A j \in DOMAIN r.actions : r.actions[j] \in ActionRow(d)
    BY <1>5, <2>1, <2>2, SeqDomain DEF Tables, ActionRows
  <2> QED BY <2>3, <1>5, <1>6, RowsGrow DEF ActionRows
<1>8. Tables(r)
  BY <1>2, <1>6, <1>7, TablesKept
<1> QED BY <1>6, <1>8 DEF r

\* The tables after ResolveAction.
LEMMA ResolveActionTables ==
  ASSUME NEW d, Tables(d), NEW a, NEW x,
         a \in Actions(d),
         x \in ActionResolutions
  PROVE  Tables(ResolveAction(d, a, x)) /\ Grown(d, ResolveAction(d, a, x))
<1> DEFINE r == ResolveAction(d, a, x)
<1>1. IsStore(d)
  BY DEF Tables
<1>2. /\ Only(d, r, {"actions"})
      /\ r.actions = [d.actions EXCEPT ![a].resolution = x]
  BY ResolveActionFields DEF Tables
<1> HIDE DEF r
<1>3. r.sessions = d.sessions /\ r.commands = d.commands /\ r.messages = d.messages /\ r.turns = d.turns /\ r.operations = d.operations
  BY <1>1, <1>2, OnlyFields
<1>4. Len(d.messages) \in Nat /\ Len(d.turns) \in Nat /\ Len(d.operations) \in Nat
  BY SeqDomain DEF Tables, MessageRows, TurnRows, OperationRows
<1>5. /\ IsSeq(r.actions) /\ Len(r.actions) = Len(d.actions) /\ DOMAIN r.actions = DOMAIN d.actions
  <2> DEFINE row == [d.actions[a] EXCEPT !.resolution = x]
  <2>1. r.actions = [d.actions EXCEPT ![a] = row]
    BY <1>2
  <2> HIDE DEF row
  <2>2. r.actions = [j \in DOMAIN d.actions |-> r.actions[j]]
    BY <2>1
  <2> QED BY <2>2, SameShape DEF Tables, ActionRows
<1>6. Grown(d, r)
  BY <1>2, <1>3, <1>4, <1>5 DEF Grown
<1>7. ActionRows(r)
  <2>1. d.actions[a] \in ActionRow(d)
    BY DEF Tables, ActionRows, Actions
  <2>2. [d.actions[a] EXCEPT !.resolution = x] \in ActionRow(d)
    BY <2>1, <1>4 DEF ActionRow, ActionResolutions
  <2>3. \A j \in DOMAIN d.actions : r.actions[j] \in ActionRow(d)
    BY <1>2, <2>2 DEF Tables, ActionRows
  <2> QED BY <2>3, <1>5, <1>6, RowsGrow DEF ActionRows
<1>8. Tables(r)
  BY <1>2, <1>6, <1>7, TablesKept
<1> QED BY <1>6, <1>8 DEF r

\* The tables after AdmitAction.
LEMMA AdmitActionTables ==
  ASSUME NEW d, Tables(d), NEW a,
         a \in Actions(d)
  PROVE  Tables(AdmitAction(d, a)) /\ Grown(d, AdmitAction(d, a))
<1> DEFINE r == AdmitAction(d, a)
<1>1. IsStore(d)
  BY DEF Tables
<1>2. /\ Only(d, r, {"actions"})
      /\ r.actions = [d.actions EXCEPT ![a].attempted = TRUE]
  BY AdmitActionFields DEF Tables
<1> HIDE DEF r
<1>3. r.sessions = d.sessions /\ r.commands = d.commands /\ r.messages = d.messages /\ r.turns = d.turns /\ r.operations = d.operations
  BY <1>1, <1>2, OnlyFields
<1>4. Len(d.messages) \in Nat /\ Len(d.turns) \in Nat /\ Len(d.operations) \in Nat
  BY SeqDomain DEF Tables, MessageRows, TurnRows, OperationRows
<1>5. /\ IsSeq(r.actions) /\ Len(r.actions) = Len(d.actions) /\ DOMAIN r.actions = DOMAIN d.actions
  <2> DEFINE row == [d.actions[a] EXCEPT !.attempted = TRUE]
  <2>1. r.actions = [d.actions EXCEPT ![a] = row]
    BY <1>2
  <2> HIDE DEF row
  <2>2. r.actions = [j \in DOMAIN d.actions |-> r.actions[j]]
    BY <2>1
  <2> QED BY <2>2, SameShape DEF Tables, ActionRows
<1>6. Grown(d, r)
  BY <1>2, <1>3, <1>4, <1>5 DEF Grown
<1>7. ActionRows(r)
  <2>1. d.actions[a] \in ActionRow(d)
    BY DEF Tables, ActionRows, Actions
  <2>2. [d.actions[a] EXCEPT !.attempted = TRUE] \in ActionRow(d)
    BY <2>1, <1>4 DEF ActionRow
  <2>3. \A j \in DOMAIN d.actions : r.actions[j] \in ActionRow(d)
    BY <1>2, <2>2 DEF Tables, ActionRows
  <2> QED BY <2>3, <1>5, <1>6, RowsGrow DEF ActionRows
<1>8. Tables(r)
  BY <1>2, <1>6, <1>7, TablesKept
<1> QED BY <1>6, <1>8 DEF r

\* The tables after ResolveOperation.
LEMMA ResolveOperationTables ==
  ASSUME NEW d, Tables(d), NEW o, NEW x,
         o \in Operations(d),
         x \in OperationResolutions
  PROVE  Tables(ResolveOperation(d, o, x)) /\ Grown(d, ResolveOperation(d, o, x))
<1> DEFINE r == ResolveOperation(d, o, x)
<1>1. IsStore(d)
  BY DEF Tables
<1>2. /\ Only(d, r, {"operations"})
      /\ r.operations = [d.operations EXCEPT ![o] = [d.operations[o] EXCEPT !.resolution = x, !.waiting = FALSE]]
  BY <1>1 DEF ResolveOperation, Only, IsStore, Fields, Tables
<1> HIDE DEF r
<1>3. r.sessions = d.sessions /\ r.commands = d.commands /\ r.messages = d.messages /\ r.turns = d.turns
  BY <1>1, <1>2, OnlyFields
<1>4. Len(d.messages) \in Nat /\ Len(d.turns) \in Nat /\ Len(d.operations) \in Nat
  BY SeqDomain DEF Tables, MessageRows, TurnRows, OperationRows
<1>5. /\ IsSeq(r.operations) /\ Len(r.operations) = Len(d.operations) /\ DOMAIN r.operations = DOMAIN d.operations
  <2> DEFINE row == [d.operations[o] EXCEPT !.resolution = x, !.waiting = FALSE]
  <2>1. r.operations = [d.operations EXCEPT ![o] = row]
    BY <1>2
  <2> HIDE DEF row
  <2>2. r.operations = [j \in DOMAIN d.operations |-> r.operations[j]]
    BY <2>1
  <2> QED BY <2>2, SameShape DEF Tables, OperationRows
<1>6. Grown(d, r)
  BY <1>2, <1>3, <1>4, <1>5 DEF Grown
<1>7. OperationRows(r)
  <2>1. d.operations[o] \in OperationRow(d)
    BY DEF Tables, OperationRows, Operations
  <2>2. [d.operations[o] EXCEPT !.resolution = x, !.waiting = FALSE] \in OperationRow(d)
    BY <2>1, <1>4 DEF OperationRow, OperationResolutions
  <2>3. \A j \in DOMAIN d.operations : r.operations[j] \in OperationRow(d)
    BY <1>2, <2>2 DEF Tables, OperationRows
  <2> QED BY <2>3, <1>5, <1>6, RowsGrow DEF OperationRows
<1>8. Tables(r)
  BY <1>2, <1>6, <1>7, TablesKept
<1> QED BY <1>6, <1>8 DEF r

\* The tables after AdmitRetry.
LEMMA AdmitRetryTables ==
  ASSUME NEW d, Tables(d), NEW o,
         o \in Operations(d),
         d.operations[o].ordinal < MaxAttempts
  PROVE  Tables(AdmitRetry(d, o)) /\ Grown(d, AdmitRetry(d, o))
<1> DEFINE r == AdmitRetry(d, o)
<1>1. IsStore(d)
  BY DEF Tables
<1>2. /\ Only(d, r, {"operations"})
      /\ r.operations = [d.operations EXCEPT ![o] = [d.operations[o] EXCEPT !.ordinal = d.operations[o].ordinal + 1, !.waiting = FALSE]]
  BY AdmitRetryFields DEF Tables
<1> HIDE DEF r
<1>3. r.sessions = d.sessions /\ r.commands = d.commands /\ r.messages = d.messages /\ r.turns = d.turns
  BY <1>1, <1>2, OnlyFields
<1>4. Len(d.messages) \in Nat /\ Len(d.turns) \in Nat /\ Len(d.operations) \in Nat
  BY SeqDomain DEF Tables, MessageRows, TurnRows, OperationRows
<1>5. /\ IsSeq(r.operations) /\ Len(r.operations) = Len(d.operations) /\ DOMAIN r.operations = DOMAIN d.operations
  <2> DEFINE row == [d.operations[o] EXCEPT !.ordinal = d.operations[o].ordinal + 1, !.waiting = FALSE]
  <2>1. r.operations = [d.operations EXCEPT ![o] = row]
    BY <1>2
  <2> HIDE DEF row
  <2>2. r.operations = [j \in DOMAIN d.operations |-> r.operations[j]]
    BY <2>1
  <2> QED BY <2>2, SameShape DEF Tables, OperationRows
<1>6. Grown(d, r)
  BY <1>2, <1>3, <1>4, <1>5 DEF Grown
<1>7. OperationRows(r)
  <2>1. d.operations[o] \in OperationRow(d)
    BY DEF Tables, OperationRows, Operations
  <2>4. d.operations[o].ordinal + 1 \in 1..MaxAttempts
    BY <2>1, AttemptsAssumption DEF OperationRow
  <2>2. [d.operations[o] EXCEPT !.ordinal = d.operations[o].ordinal + 1, !.waiting = FALSE] \in OperationRow(d)
    BY <2>1, <2>4 DEF OperationRow
  <2>3. \A j \in DOMAIN d.operations : r.operations[j] \in OperationRow(d)
    BY <1>2, <2>2 DEF Tables, OperationRows
  <2> QED BY <2>3, <1>5, <1>6, RowsGrow DEF OperationRows
<1>8. Tables(r)
  BY <1>2, <1>6, <1>7, TablesKept
<1> QED BY <1>6, <1>8 DEF r

\* The tables after ClaimAuthRefresh.
LEMMA ClaimAuthRefreshTables ==
  ASSUME NEW d, Tables(d), NEW o,
         o \in Operations(d)
  PROVE  Tables(ClaimAuthRefresh(d, o)) /\ Grown(d, ClaimAuthRefresh(d, o))
<1> DEFINE r == ClaimAuthRefresh(d, o)
<1>1. IsStore(d)
  BY DEF Tables
<1>2. /\ Only(d, r, {"operations"})
      /\ r.operations = [d.operations EXCEPT ![o].claimed = TRUE]
  BY ClaimAuthRefreshFields DEF Tables
<1> HIDE DEF r
<1>3. r.sessions = d.sessions /\ r.commands = d.commands /\ r.messages = d.messages /\ r.turns = d.turns
  BY <1>1, <1>2, OnlyFields
<1>4. Len(d.messages) \in Nat /\ Len(d.turns) \in Nat /\ Len(d.operations) \in Nat
  BY SeqDomain DEF Tables, MessageRows, TurnRows, OperationRows
<1>5. /\ IsSeq(r.operations) /\ Len(r.operations) = Len(d.operations) /\ DOMAIN r.operations = DOMAIN d.operations
  <2> DEFINE row == [d.operations[o] EXCEPT !.claimed = TRUE]
  <2>1. r.operations = [d.operations EXCEPT ![o] = row]
    BY <1>2
  <2> HIDE DEF row
  <2>2. r.operations = [j \in DOMAIN d.operations |-> r.operations[j]]
    BY <2>1
  <2> QED BY <2>2, SameShape DEF Tables, OperationRows
<1>6. Grown(d, r)
  BY <1>2, <1>3, <1>4, <1>5 DEF Grown
<1>7. OperationRows(r)
  <2>1. d.operations[o] \in OperationRow(d)
    BY DEF Tables, OperationRows, Operations
  <2>2. [d.operations[o] EXCEPT !.claimed = TRUE] \in OperationRow(d)
    BY <2>1, <1>4 DEF OperationRow
  <2>3. \A j \in DOMAIN d.operations : r.operations[j] \in OperationRow(d)
    BY <1>2, <2>2 DEF Tables, OperationRows
  <2> QED BY <2>3, <1>5, <1>6, RowsGrow DEF OperationRows
<1>8. Tables(r)
  BY <1>2, <1>6, <1>7, TablesKept
<1> QED BY <1>6, <1>8 DEF r

\* The tables after WaitForRetry.
LEMMA WaitForRetryTables ==
  ASSUME NEW d, Tables(d), NEW o,
         o \in Operations(d)
  PROVE  Tables(WaitForRetry(d, o)) /\ Grown(d, WaitForRetry(d, o))
<1> DEFINE r == WaitForRetry(d, o)
<1>1. IsStore(d)
  BY DEF Tables
<1>2. /\ Only(d, r, {"operations"})
      /\ r.operations = [d.operations EXCEPT ![o].waiting = TRUE]
  BY WaitForRetryFields DEF Tables
<1> HIDE DEF r
<1>3. r.sessions = d.sessions /\ r.commands = d.commands /\ r.messages = d.messages /\ r.turns = d.turns
  BY <1>1, <1>2, OnlyFields
<1>4. Len(d.messages) \in Nat /\ Len(d.turns) \in Nat /\ Len(d.operations) \in Nat
  BY SeqDomain DEF Tables, MessageRows, TurnRows, OperationRows
<1>5. /\ IsSeq(r.operations) /\ Len(r.operations) = Len(d.operations) /\ DOMAIN r.operations = DOMAIN d.operations
  <2> DEFINE row == [d.operations[o] EXCEPT !.waiting = TRUE]
  <2>1. r.operations = [d.operations EXCEPT ![o] = row]
    BY <1>2
  <2> HIDE DEF row
  <2>2. r.operations = [j \in DOMAIN d.operations |-> r.operations[j]]
    BY <2>1
  <2> QED BY <2>2, SameShape DEF Tables, OperationRows
<1>6. Grown(d, r)
  BY <1>2, <1>3, <1>4, <1>5 DEF Grown
<1>7. OperationRows(r)
  <2>1. d.operations[o] \in OperationRow(d)
    BY DEF Tables, OperationRows, Operations
  <2>2. [d.operations[o] EXCEPT !.waiting = TRUE] \in OperationRow(d)
    BY <2>1, <1>4 DEF OperationRow
  <2>3. \A j \in DOMAIN d.operations : r.operations[j] \in OperationRow(d)
    BY <1>2, <2>2 DEF Tables, OperationRows
  <2> QED BY <2>3, <1>5, <1>6, RowsGrow DEF OperationRows
<1>8. Tables(r)
  BY <1>2, <1>6, <1>7, TablesKept
<1> QED BY <1>6, <1>8 DEF r

\* The tables after CancelActions.
LEMMA CancelActionsTables ==
  ASSUME NEW d, Tables(d), NEW o
  PROVE  Tables(CancelActions(d, o)) /\ Grown(d, CancelActions(d, o))
<1> DEFINE r == CancelActions(d, o)
<1>1. IsStore(d)
  BY DEF Tables
<1>2. /\ Only(d, r, {"actions"})
      /\ r.actions = [a \in Actions(d) |->
          IF d.actions[a].operation = o /\ Unresolved(d.actions[a]) /\ ~d.actions[a].attempted
          THEN [d.actions[a] EXCEPT !.resolution = "cancelled"] ELSE d.actions[a]]
  BY CancelActionsFields DEF Tables
<1> HIDE DEF r
<1>3. r.sessions = d.sessions /\ r.commands = d.commands /\ r.messages = d.messages /\ r.turns = d.turns /\ r.operations = d.operations
  BY <1>1, <1>2, OnlyFields
<1>4. Len(d.messages) \in Nat /\ Len(d.turns) \in Nat /\ Len(d.operations) \in Nat
  BY SeqDomain DEF Tables, MessageRows, TurnRows, OperationRows
<1>6. Grown(d, r)
  BY <1>2, <1>3, <1>4 DEF Grown
<1>7. ActionRows(r)
  <2>1. IsSeq(r.actions) /\ DOMAIN r.actions = Actions(d)
    <3>1. Len(d.actions) \in Nat /\ Actions(d) = 1..Len(d.actions)
      BY SeqDomain DEF Tables, ActionRows, Actions
    <3>2. r.actions = [j \in 1..Len(d.actions) |-> r.actions[j]]
      BY <1>2, <3>1
    <3> QED BY <3>1, <3>2, FunctionIsSeq
  <2>2. ASSUME NEW a \in Actions(d) PROVE r.actions[a] \in ActionRow(d)
    <3>1. d.actions[a] \in ActionRow(d)
      BY DEF Tables, ActionRows, Actions
    <3>2. [d.actions[a] EXCEPT !.resolution = "cancelled"] \in ActionRow(d)
      BY <3>1 DEF ActionRow, ActionResolutions
    <3> QED BY <1>2, <3>1, <3>2
  <2> QED BY <2>1, <2>2, <1>6, RowsGrow DEF ActionRows
<1>8. Tables(r)
  BY <1>2, <1>6, <1>7, TablesKept
<1> QED BY <1>6, <1>8 DEF r

\* The tables after ArchiveUnder.
LEMMA ArchiveUnderTables ==
  ASSUME NEW d, Tables(d), NEW s, NEW key,
         key \in d.commands
  PROVE  Tables(ArchiveUnder(d, s, key)) /\ Grown(d, ArchiveUnder(d, s, key))
<1> DEFINE r == ArchiveUnder(d, s, key)
<1>1. IsStore(d)
  BY DEF Tables
<1>2. /\ Only(d, r, {"archive", "endings"})
      /\ r.archive = [d.archive EXCEPT ![s] = key]
      /\ r.endings = {IF d.parent[SessionOfTurn(d, e.turn)] = s /\ ~e.delivered
                      THEN [e EXCEPT !.suppressed = TRUE] ELSE e : e \in d.endings}
  BY ArchiveUnderFields DEF Tables
<1> HIDE DEF r
<1>3. r.sessions = d.sessions /\ r.commands = d.commands /\ r.messages = d.messages /\ r.turns = d.turns /\ r.operations = d.operations
  BY <1>1, <1>2, OnlyFields
<1>4. Len(d.messages) \in Nat /\ Len(d.turns) \in Nat /\ Len(d.operations) \in Nat
  BY SeqDomain DEF Tables, MessageRows, TurnRows, OperationRows
<1>6. Grown(d, r)
  BY <1>2, <1>3, <1>4 DEF Grown
<1>7. CommandRows(r)
  BY <1>1, <1>2, <1>3, <1>4, OnlyFields DEF Tables, CommandRows, NoKey, Turns
<1>8. EndingRows(r)
  <2>1. r.parent = d.parent /\ EndingRow(r) = EndingRow(d)
    BY <1>1, <1>2, <1>3, OnlyFields DEF EndingRow
  <2>2. \A e \in EndingRow(d) : [e EXCEPT !.suppressed = TRUE] \in EndingRow(d)
                              /\ [e EXCEPT !.suppressed = TRUE].turn = e.turn
    BY DEF EndingRow
  <2>3. \A e \in r.endings : \E f \in d.endings : e.turn = f.turn /\ e \in EndingRow(d)
    BY <1>2, <2>2 DEF Tables, EndingRows
  <2> QED BY <1>3, <2>1, <2>3 DEF Tables, EndingRows
<1>9. Tables(r)
  BY <1>2, <1>6, <1>7, <1>8, TablesKept
<1> QED BY <1>6, <1>9 DEF r

-----------------------------------------------------------------------------
(* The rules of Turns after single writes *)

\* Rules of all Turns but t, which is being written.
TurnsBut(d, t) == Behind(d) /\ \A u \in Turns(d) \ {t} : TurnRule(d, u)

\* A Turn keeps its rule when its row, its Operation and its Actions are the same
\* for it, no stop selects it and its input stays.
LEMMA RuleKept ==
  ASSUME NEW d, NEW r, NEW u, TurnRule(d, u), u \in Turns(r),
         NEW o, o = d.turns[u].operation, r.turns[u] = d.turns[u],
         r.operations[o].resolution = d.operations[o].resolution,
         ActionsOf(r, o) = ActionsOf(d, o),
         \A a \in ActionsOf(d, o) :
           /\ r.actions[a].resolution = d.actions[a].resolution
           /\ d.actions[a].attempted => r.actions[a].attempted,
         StopSelected(r, u) <=> StopSelected(d, u),
         QueuedIn(d, d.turns[u].session) # {} => QueuedIn(r, d.turns[u].session) # {}
  PROVE  TurnRule(r, u)
<1>1. IsOpen(r, u) <=> IsOpen(d, u)
  BY DEF IsOpen
<1>2. \A a \in ActionsOf(d, o) : Unresolved(r.actions[a]) <=> Unresolved(d.actions[a])
  BY DEF Unresolved
<1>3. CompleteToolResults(r, o) <=> CompleteToolResults(d, o)
  BY <1>2 DEF CompleteToolResults
<1>4. ContinuesWithoutInput(r, o) <=> ContinuesWithoutInput(d, o)
  BY <1>3 DEF ContinuesWithoutInput
<1>5. Agrees(r, u)
  BY <1>1, <1>4 DEF Agrees, TurnRule
<1>6. Waiting(r, u) = Waiting(d, u)
  BY <1>2 DEF Waiting
<1>7. \A a \in Waiting(d, u) : d.actions[a].attempted => r.actions[a].attempted
  BY DEF Waiting
<1>8. StoppedWaits(r, u)
  BY <1>1, <1>6, <1>7 DEF StoppedWaits, TurnRule
<1>9. GoesOn(r, u)
  BY <1>1 DEF GoesOn, TurnRule
<1> QED BY <1>5, <1>8, <1>9 DEF TurnRule

\* A write to other tables does not touch the rules of Turns.
LEMMA TurnTablesSame ==
  ASSUME NEW d, NEW r, r.turns = d.turns, r.operations = d.operations, r.actions = d.actions,
         r.stops = d.stops, r.messages = d.messages
  PROVE  /\ Behind(r) <=> Behind(d)
         /\ ActionWasProposed(r) <=> ActionWasProposed(d)
         /\ ToolRules(r) <=> ToolRules(d)
         /\ \A t : TurnRule(r, t) <=> TurnRule(d, t)
         /\ \A t : TurnsBut(r, t) <=> TurnsBut(d, t)
         /\ TurnRules(r) <=> TurnRules(d)
<1>1. Turns(r) = Turns(d) /\ Operations(r) = Operations(d) /\ Actions(r) = Actions(d)
      /\ Messages(r) = Messages(d)
  BY DEF Turns, Operations, Actions, Messages
<1>2. \A t : (IsOpen(r, t) <=> IsOpen(d, t)) /\ (StopSelected(r, t) <=> StopSelected(d, t))
  BY DEF IsOpen, StopSelected
<1>3. \A a : TurnOfAction(r, a) = TurnOfAction(d, a)
  BY DEF TurnOfAction, TurnOfOperation
<1>4. Behind(r) <=> Behind(d)
  BY <1>1, <1>2, <1>3 DEF Behind, OperationIsOwn, OneOpenTurn, OperationIsCurrent, ActionIsCurrent
<1>5. ActionWasProposed(r) <=> ActionWasProposed(d)
  BY <1>1 DEF ActionWasProposed
<1>6. ToolRules(r) <=> ToolRules(d)
  BY <1>1 DEF ToolRules
<1>7. \A o : ActionsOf(r, o) = ActionsOf(d, o)
  BY <1>1 DEF ActionsOf
<1>8. \A s : QueuedIn(r, s) = QueuedIn(d, s)
  BY <1>1 DEF QueuedIn, Queued
<1>9. \A o : ContinuesWithoutInput(r, o) <=> ContinuesWithoutInput(d, o)
  BY <1>7 DEF ContinuesWithoutInput, CompleteToolResults
<1>10. \A t : Waiting(r, t) = Waiting(d, t)
  BY <1>7 DEF Waiting
<1>11. ASSUME NEW t PROVE TurnRule(r, t) <=> TurnRule(d, t)
  <2>1. Agrees(r, t) <=> Agrees(d, t)
    BY <1>2, <1>9 DEF Agrees
  <2>2. StoppedWaits(r, t) <=> StoppedWaits(d, t)
    BY <1>2, <1>10 DEF StoppedWaits
  <2>3. GoesOn(r, t) <=> GoesOn(d, t)
    BY <1>2, <1>8 DEF GoesOn
  <2> QED BY <2>1, <2>2, <2>3 DEF TurnRule
<1>12. \A t : TurnsBut(r, t) <=> TurnsBut(d, t)
  BY <1>1, <1>4, <1>11 DEF TurnsBut
<1> QED BY <1>1, <1>4, <1>5, <1>6, <1>11, <1>12 DEF TurnRules

\* A database all of whose rules hold but one Turn's.
LEMMA RulesAreBut ==
  ASSUME NEW d, TurnRules(d), NEW t
  PROVE  TurnsBut(d, t)
BY DEF TurnRules, TurnsBut

\* Rows refer to rows that exist.
LEMMA References ==
  ASSUME NEW d, Tables(d)
  PROVE  /\ Turns(d) = 1..Len(d.turns) /\ Len(d.turns) \in Nat
         /\ Operations(d) = 1..Len(d.operations) /\ Len(d.operations) \in Nat
         /\ Actions(d) = 1..Len(d.actions) /\ Len(d.actions) \in Nat
         /\ Messages(d) = 1..Len(d.messages) /\ Len(d.messages) \in Nat
         /\ \A t \in Turns(d) : d.turns[t].operation \in Operations(d) /\ d.turns[t].session \in d.sessions
         /\ \A o \in Operations(d) : d.operations[o].turn \in Turns(d)
         /\ \A a \in Actions(d) : d.actions[a].operation \in Operations(d) /\ TurnOfAction(d, a) \in Turns(d)
<1>1. /\ Turns(d) = 1..Len(d.turns) /\ Len(d.turns) \in Nat
      /\ Operations(d) = 1..Len(d.operations) /\ Len(d.operations) \in Nat
      /\ Actions(d) = 1..Len(d.actions) /\ Len(d.actions) \in Nat
      /\ Messages(d) = 1..Len(d.messages) /\ Len(d.messages) \in Nat
  BY SeqDomain DEF Tables, TurnRows, OperationRows, ActionRows, MessageRows, Turns, Operations, Actions,
     Messages
<1>2. \A t \in Turns(d) : d.turns[t].operation \in Operations(d) /\ d.turns[t].session \in d.sessions
  <2>1. \A t \in Turns(d) : d.turns[t] \in TurnRow(d)
    BY DEF Tables, TurnRows, Turns
  <2> QED BY <1>1, <2>1 DEF TurnRow
<1>3. \A o \in Operations(d) : d.operations[o].turn \in Turns(d)
  <2>1. \A o \in Operations(d) : d.operations[o] \in OperationRow(d)
    BY DEF Tables, OperationRows, Operations
  <2> QED BY <1>1, <2>1 DEF OperationRow
<1>4. \A a \in Actions(d) : d.actions[a].operation \in Operations(d)
  <2>1. \A a \in Actions(d) : d.actions[a] \in ActionRow(d)
    BY DEF Tables, ActionRows, Actions
  <2> QED BY <1>1, <2>1 DEF ActionRow
<1>5. \A a \in Actions(d) : TurnOfAction(d, a) \in Turns(d)
  BY <1>3, <1>4 DEF TurnOfAction, TurnOfOperation
<1> QED BY <1>1, <1>2, <1>3, <1>4, <1>5

\* A row has the columns of its table.
LEMMA Columns ==
  ASSUME NEW d, Tables(d)
  PROVE  /\ \A t \in Turns(d) : d.turns[t] \in TurnRow(d)
         /\ \A o \in Operations(d) : d.operations[o] \in OperationRow(d)
         /\ \A a \in Actions(d) : d.actions[a] \in ActionRow(d)
         /\ \A m \in Messages(d) : d.messages[m] \in MessageRow(d)
BY DEF Tables, TurnRows, OperationRows, ActionRows, MessageRows, Turns, Operations, Actions, Messages

\* The columns a Resolution of an Operation writes.
LEMMA ResolveOperationRows ==
  ASSUME NEW d, Tables(d), NEW o \in Operations(d), NEW x
  PROVE  LET r == ResolveOperation(d, o, x)
         IN  /\ Only(d, r, {"operations"}) /\ Operations(r) = Operations(d)
             /\ r.operations[o].resolution = x /\ r.operations[o].turn = d.operations[o].turn
             /\ r.operations[o].purpose = d.operations[o].purpose
             /\ r.operations[o].ordinal = d.operations[o].ordinal
             /\ \A p \in Operations(d) \ {o} : r.operations[p] = d.operations[p]
<1> DEFINE r == ResolveOperation(d, o, x)
<1>1. /\ Only(d, r, {"operations"})
      /\ r.operations = [d.operations EXCEPT ![o] = [d.operations[o] EXCEPT !.resolution = x, !.waiting = FALSE]]
  BY DEF ResolveOperation, Only, IsStore, Fields, Tables
<1> HIDE DEF r
<1>2. d.operations[o] \in OperationRow(d)
  BY Columns
<1>3. Operations(r) = Operations(d)
  BY <1>1 DEF Operations
<1>4. /\ r.operations[o].resolution = x /\ r.operations[o].turn = d.operations[o].turn
      /\ r.operations[o].purpose = d.operations[o].purpose
      /\ r.operations[o].ordinal = d.operations[o].ordinal
  BY <1>1, <1>2 DEF OperationRow, Operations
<1>5. \A p \in Operations(d) \ {o} : r.operations[p] = d.operations[p]
  BY <1>1 DEF Operations
<1> QED BY <1>1, <1>3, <1>4, <1>5 DEF r

\* The column a Resolution of an Action writes.
LEMMA ResolveActionRows ==
  ASSUME NEW d, Tables(d), NEW a \in Actions(d), NEW x
  PROVE  LET r == ResolveAction(d, a, x)
         IN  /\ Only(d, r, {"actions"}) /\ Actions(r) = Actions(d)
             /\ r.actions[a].resolution = x /\ r.actions[a].operation = d.actions[a].operation
             /\ r.actions[a].tool = d.actions[a].tool
             /\ r.actions[a].authorized = d.actions[a].authorized
             /\ r.actions[a].attempted = d.actions[a].attempted
             /\ \A b \in Actions(d) \ {a} : r.actions[b] = d.actions[b]
<1> DEFINE r == ResolveAction(d, a, x)
<1>1. /\ Only(d, r, {"actions"}) /\ r.actions = [d.actions EXCEPT ![a].resolution = x]
  BY DEF ResolveAction, Only, IsStore, Fields, Tables
<1> HIDE DEF r
<1>2. d.actions[a] \in ActionRow(d)
  BY Columns
<1>3. Actions(r) = Actions(d)
  BY <1>1 DEF Actions
<1>4. /\ r.actions[a].resolution = x /\ r.actions[a].operation = d.actions[a].operation
      /\ r.actions[a].tool = d.actions[a].tool
      /\ r.actions[a].authorized = d.actions[a].authorized
      /\ r.actions[a].attempted = d.actions[a].attempted
  BY <1>1, <1>2 DEF ActionRow, Actions
<1>5. \A b \in Actions(d) \ {a} : r.actions[b] = d.actions[b]
  BY <1>1 DEF Actions
<1> QED BY <1>1, <1>3, <1>4, <1>5 DEF r

\* ResolveOperation disturbs the rule of the Operation's own Turn only.
LEMMA ResolveOperationTurns ==
  ASSUME NEW d, Tables(d), NEW o \in Operations(d), NEW x \in OperationResolutions \ {"none"},
         TurnsBut(d, d.operations[o].turn)
  PROVE  LET r == ResolveOperation(d, o, x)
         IN  /\ TurnsBut(r, d.operations[o].turn) /\ (ToolRules(d) => ToolRules(r))
             /\ r.operations[o].resolution = x
<1> DEFINE r == ResolveOperation(d, o, x)
           t == d.operations[o].turn
<1>1. /\ Only(d, r, {"operations"})
      /\ r.operations = [d.operations EXCEPT ![o] = [d.operations[o] EXCEPT !.resolution = x, !.waiting = FALSE]]
  BY DEF ResolveOperation, Only, IsStore, Fields, Tables
<1>2. /\ r.turns = d.turns /\ r.actions = d.actions /\ r.stops = d.stops /\ r.messages = d.messages
  BY <1>1, OnlyFields DEF Tables
<1> HIDE DEF r
<1>3. /\ Operations(r) = Operations(d) /\ Turns(r) = Turns(d) /\ Actions(r) = Actions(d)
      /\ Messages(r) = Messages(d)
  BY <1>1, <1>2 DEF Operations, Turns, Actions, Messages
<1>4. /\ \A p \in Operations(d) : r.operations[p].turn = d.operations[p].turn
      /\ \A p \in Operations(d) \ {o} : r.operations[p] = d.operations[p]
      /\ r.operations[o].resolution = x
  BY <1>1, Columns DEF Operations, OperationRow
<1>5. \A p \in Operations(d) : Unresolved(r.operations[p]) => Unresolved(d.operations[p])
  BY <1>4 DEF Unresolved
<1>6. \A u : IsOpen(r, u) <=> IsOpen(d, u)
  BY <1>2 DEF IsOpen
<1>7. \A a \in Actions(d) : TurnOfAction(r, a) = TurnOfAction(d, a)
  BY <1>2, <1>4, References DEF TurnOfAction, TurnOfOperation
<1>8. Behind(r)
  <2>1. OperationIsOwn(r)
    BY <1>2, <1>3, <1>4, References DEF TurnsBut, Behind, OperationIsOwn
  <2>2. OneOpenTurn(r)
    BY <1>2, <1>3, <1>6 DEF TurnsBut, Behind, OneOpenTurn
  <2>3. OperationIsCurrent(r)
    BY <1>2, <1>3, <1>4, <1>5, <1>6 DEF TurnsBut, Behind, OperationIsCurrent
  <2>4. ActionIsCurrent(r)
    BY <1>2, <1>3, <1>6, <1>7 DEF TurnsBut, Behind, ActionIsCurrent
  <2> QED BY <2>1, <2>2, <2>3, <2>4 DEF Behind
<1>9. ASSUME NEW u \in Turns(d) \ {t} PROVE TurnRule(r, u)
  <2>1. TurnRule(d, u)
    BY DEF TurnsBut
  <2>2. d.turns[u].operation # o /\ d.turns[u].operation \in Operations(d)
    BY References DEF TurnsBut, Behind, OperationIsOwn
  <2>3. \A p : ActionsOf(r, p) = ActionsOf(d, p)
    BY <1>2 DEF ActionsOf, Actions
  <2>4. StopSelected(r, u) <=> StopSelected(d, u)
    BY <1>2 DEF StopSelected
  <2>5. QueuedIn(r, d.turns[u].session) = QueuedIn(d, d.turns[u].session)
    BY <1>2 DEF QueuedIn, Queued, Messages
  <2> QED BY <1>2, <1>3, <1>4, <2>1, <2>2, <2>3, <2>4, <2>5, RuleKept
<1>10. ToolRules(d) => ToolRules(r)
  BY <1>2 DEF ToolRules, Actions
<1>11. TurnsBut(r, t)
  BY <1>3, <1>8, <1>9 DEF TurnsBut
<1> QED BY <1>4, <1>10, <1>11 DEF r

\* ResolveAction disturbs the rule of the Action's own Turn only.
LEMMA ResolveActionTurns ==
  ASSUME NEW d, Tables(d), NEW a \in Actions(d), NEW x \in ActionResolutions \ {"none"},
         TurnsBut(d, TurnOfAction(d, a))
  PROVE  LET r == ResolveAction(d, a, x)
         IN  /\ TurnsBut(r, TurnOfAction(d, a)) /\ (ToolRules(d) => ToolRules(r))
             /\ (ActionWasProposed(d) => ActionWasProposed(r))
             /\ r.actions[a].resolution = x
<1> DEFINE r == ResolveAction(d, a, x)
           t == TurnOfAction(d, a)
<1>1. /\ Only(d, r, {"actions"}) /\ r.actions = [d.actions EXCEPT ![a].resolution = x]
  BY ResolveActionFields DEF Tables
<1>2. /\ r.turns = d.turns /\ r.operations = d.operations /\ r.stops = d.stops /\ r.messages = d.messages
  BY <1>1, OnlyFields DEF Tables
<1> HIDE DEF r
<1>3. /\ Operations(r) = Operations(d) /\ Turns(r) = Turns(d) /\ Actions(r) = Actions(d)
      /\ Messages(r) = Messages(d)
  BY <1>1, <1>2 DEF Operations, Turns, Actions, Messages
<1>4. /\ r.actions[a].resolution = x /\ r.actions[a].operation = d.actions[a].operation
      /\ r.actions[a].tool = d.actions[a].tool /\ r.actions[a].authorized = d.actions[a].authorized
      /\ r.actions[a].attempted = d.actions[a].attempted
      /\ \A b \in Actions(d) \ {a} : r.actions[b] = d.actions[b]
  BY <1>1, Columns DEF Actions, ActionRow
<1>5. \A b \in Actions(d) : Unresolved(r.actions[b]) => Unresolved(d.actions[b])
  BY <1>4 DEF Unresolved
<1>6. \A u : IsOpen(r, u) <=> IsOpen(d, u)
  BY <1>2 DEF IsOpen
<1>7. \A b \in Actions(d) : /\ TurnOfAction(r, b) = TurnOfAction(d, b)
                            /\ r.actions[b].operation = d.actions[b].operation
  BY <1>2, <1>4 DEF TurnOfAction, TurnOfOperation
<1>8. Behind(r)
  <2>1. OperationIsOwn(r) /\ OneOpenTurn(r)
    BY <1>2, <1>3, <1>6 DEF TurnsBut, Behind, OperationIsOwn, OneOpenTurn
  <2>3. OperationIsCurrent(r)
    BY <1>2, <1>3, <1>6 DEF TurnsBut, Behind, OperationIsCurrent
  <2>4. ActionIsCurrent(r)
    BY <1>2, <1>3, <1>5, <1>6, <1>7 DEF TurnsBut, Behind, ActionIsCurrent
  <2> QED BY <2>1, <2>3, <2>4 DEF Behind
<1>9. ASSUME NEW u \in Turns(d) \ {t} PROVE TurnRule(r, u)
  <2>1. TurnRule(d, u)
    BY DEF TurnsBut
  <2>2. d.turns[u].operation # d.actions[a].operation
    BY DEF TurnsBut, Behind, OperationIsOwn, TurnOfAction, TurnOfOperation
  <2>3. ActionsOf(r, d.turns[u].operation) = ActionsOf(d, d.turns[u].operation)
    BY <1>3, <1>7 DEF ActionsOf
  <2>4. a \notin ActionsOf(d, d.turns[u].operation)
    BY <2>2 DEF ActionsOf
  <2>5. \A b \in ActionsOf(d, d.turns[u].operation) : r.actions[b] = d.actions[b]
    BY <1>4, <2>4 DEF ActionsOf
  <2>6. StopSelected(r, u) <=> StopSelected(d, u)
    BY <1>2 DEF StopSelected
  <2>7. QueuedIn(r, d.turns[u].session) = QueuedIn(d, d.turns[u].session)
    BY <1>2 DEF QueuedIn, Queued, Messages
  <2> QED BY <1>2, <1>3, <2>1, <2>3, <2>5, <2>6, <2>7, RuleKept
<1>10. ToolRules(d) => ToolRules(r)
  <2> SUFFICES ASSUME ToolRules(d), NEW b \in Actions(d)
               PROVE  /\ IsCore(r.actions[b].tool) => r.actions[b].authorized /\ ~r.actions[b].attempted
                      /\ r.actions[b].attempted => r.actions[b].authorized
    BY <1>3 DEF ToolRules
  <2>1. CASE b = a
    BY <2>1, <1>4 DEF ToolRules
  <2>2. CASE b # a
    BY <2>2, <1>4 DEF ToolRules
  <2> QED BY <2>1, <2>2
<1>11. ActionWasProposed(d) => ActionWasProposed(r)
  BY <1>2, <1>3, <1>7 DEF ActionWasProposed
<1>12. TurnsBut(r, t)
  BY <1>3, <1>8, <1>9 DEF TurnsBut
<1> QED BY <1>4, <1>10, <1>11, <1>12 DEF r

\* CancelActions disturbs the rule of the Operation's own Turn only.
LEMMA CancelActionsTurns ==
  ASSUME NEW d, Tables(d), NEW o \in Operations(d), TurnsBut(d, d.operations[o].turn)
  PROVE  LET r == CancelActions(d, o)
         IN  /\ TurnsBut(r, d.operations[o].turn) /\ (ToolRules(d) => ToolRules(r))
             /\ (ActionWasProposed(d) => ActionWasProposed(r))
             /\ \A a \in Actions(d) : d.actions[a].operation = o /\ Unresolved(r.actions[a]) =>
                  d.actions[a].attempted /\ Unresolved(d.actions[a])
             /\ \A a \in Actions(d) : d.actions[a].attempted => r.actions[a] = d.actions[a]
             /\ \A a \in Actions(d) : r.actions[a].attempted = d.actions[a].attempted
<1> DEFINE r == CancelActions(d, o)
           t == d.operations[o].turn
           Hit(a) == d.actions[a].operation = o /\ Unresolved(d.actions[a]) /\ ~d.actions[a].attempted
<1>1. /\ Only(d, r, {"actions"})
      /\ r.actions = [a \in Actions(d) |-> IF Hit(a) THEN [d.actions[a] EXCEPT !.resolution = "cancelled"]
                                           ELSE d.actions[a]]
  BY CancelActionsFields DEF Tables
<1>2. /\ r.turns = d.turns /\ r.operations = d.operations /\ r.stops = d.stops /\ r.messages = d.messages
  BY <1>1, OnlyFields DEF Tables
<1> HIDE DEF r
<1>3. /\ Operations(r) = Operations(d) /\ Turns(r) = Turns(d) /\ Actions(r) = Actions(d)
      /\ Messages(r) = Messages(d)
  BY <1>1, <1>2 DEF Operations, Turns, Actions, Messages
<1>4. ASSUME NEW a \in Actions(d)
      PROVE  /\ r.actions[a].operation = d.actions[a].operation
             /\ r.actions[a].tool = d.actions[a].tool /\ r.actions[a].authorized = d.actions[a].authorized
             /\ r.actions[a].attempted = d.actions[a].attempted
             /\ Hit(a) => r.actions[a].resolution = "cancelled"
             /\ ~Hit(a) => r.actions[a] = d.actions[a]
  <2>1. d.actions[a] \in ActionRow(d)
    BY Columns
  <2>2. CASE Hit(a)
    <3>1. r.actions[a] = [d.actions[a] EXCEPT !.resolution = "cancelled"]
      BY <1>1, <2>2
    <3> HIDE DEF Hit
    <3> QED BY <3>1, <2>1, <2>2 DEF ActionRow
  <2>3. CASE ~Hit(a)
    <3>1. r.actions[a] = d.actions[a]
      BY <1>1, <2>3
    <3> HIDE DEF Hit
    <3> QED BY <3>1, <2>3
  <2> QED BY <2>2, <2>3
<1>5. \A a \in Actions(d) : Unresolved(r.actions[a]) => Unresolved(d.actions[a]) /\ ~Hit(a)
  BY <1>4 DEF Unresolved
<1>6. \A u : IsOpen(r, u) <=> IsOpen(d, u)
  BY <1>2 DEF IsOpen
<1>7. \A a \in Actions(d) : TurnOfAction(r, a) = TurnOfAction(d, a)
  BY <1>2, <1>4 DEF TurnOfAction, TurnOfOperation
<1>8. Behind(r)
  <2>1. OperationIsOwn(r) /\ OneOpenTurn(r)
    BY <1>2, <1>3, <1>6 DEF TurnsBut, Behind, OperationIsOwn, OneOpenTurn
  <2>3. OperationIsCurrent(r)
    BY <1>2, <1>3, <1>6 DEF TurnsBut, Behind, OperationIsCurrent
  <2>4. ActionIsCurrent(r)
    BY <1>2, <1>3, <1>4, <1>5, <1>6, <1>7 DEF TurnsBut, Behind, ActionIsCurrent
  <2> QED BY <2>1, <2>3, <2>4 DEF Behind
<1>9. ASSUME NEW u \in Turns(d) \ {t} PROVE TurnRule(r, u)
  <2>1. TurnRule(d, u)
    BY DEF TurnsBut
  <2>2. d.turns[u].operation # o
    BY DEF TurnsBut, Behind, OperationIsOwn
  <2>3. ActionsOf(r, d.turns[u].operation) = ActionsOf(d, d.turns[u].operation)
    BY <1>3, <1>4 DEF ActionsOf
  <2>4. \A b \in ActionsOf(d, d.turns[u].operation) : b \in Actions(d) /\ ~Hit(b)
    BY <2>2 DEF ActionsOf
  <2>5. \A b \in ActionsOf(d, d.turns[u].operation) : r.actions[b] = d.actions[b]
    BY <1>4, <2>4
  <2>6. StopSelected(r, u) <=> StopSelected(d, u)
    BY <1>2 DEF StopSelected
  <2>7. QueuedIn(r, d.turns[u].session) = QueuedIn(d, d.turns[u].session)
    BY <1>2 DEF QueuedIn, Queued, Messages
  <2> QED BY <1>2, <1>3, <2>1, <2>3, <2>5, <2>6, <2>7, RuleKept
<1>10. ToolRules(d) => ToolRules(r)
  BY <1>3, <1>4 DEF ToolRules
<1>11. ActionWasProposed(d) => ActionWasProposed(r)
  BY <1>2, <1>3, <1>4 DEF ActionWasProposed
<1>12. TurnsBut(r, t)
  BY <1>3, <1>8, <1>9 DEF TurnsBut
<1>13. \A a \in Actions(d) : d.actions[a].operation = o /\ Unresolved(r.actions[a]) =>
         d.actions[a].attempted /\ Unresolved(d.actions[a])
  BY <1>5
<1>14. \A a \in Actions(d) : d.actions[a].attempted => r.actions[a] = d.actions[a]
  BY <1>4
<1>15. \A a \in Actions(d) : r.actions[a].attempted = d.actions[a].attempted
  BY <1>4
<1> QED BY <1>10, <1>11, <1>12, <1>13, <1>14, <1>15 DEF r

\* A write that resolves nothing, moves nothing and only adds to permissions and
\* Attempts keeps the rules of Turns.
LEMMA WorkTouched ==
  ASSUME NEW d, NEW r, Tables(d), TurnRules(d),
         r.turns = d.turns, r.stops = d.stops, r.messages = d.messages,
         Operations(r) = Operations(d), Actions(r) = Actions(d),
         \A o \in Operations(d) : /\ r.operations[o].turn = d.operations[o].turn
                                  /\ r.operations[o].resolution = d.operations[o].resolution,
         \A a \in Actions(d) : /\ r.actions[a].operation = d.actions[a].operation
                               /\ r.actions[a].resolution = d.actions[a].resolution
                               /\ d.actions[a].attempted => r.actions[a].attempted,
         ToolRules(r)
  PROVE  TurnRules(r)
<1>1. Turns(r) = Turns(d) /\ Messages(r) = Messages(d)
  BY DEF Turns, Messages
<1>2. \A u : IsOpen(r, u) <=> IsOpen(d, u)
  BY DEF IsOpen
<1>3. \A a \in Actions(d) : TurnOfAction(r, a) = TurnOfAction(d, a)
  BY References DEF TurnOfAction, TurnOfOperation
<1>4. Behind(r)
  <2>1. OperationIsOwn(r) /\ OneOpenTurn(r)
    BY <1>1, <1>2, References DEF TurnRules, Behind, OperationIsOwn, OneOpenTurn
  <2>3. OperationIsCurrent(r)
    BY <1>1, <1>2 DEF TurnRules, Behind, OperationIsCurrent, Unresolved
  <2>4. ActionIsCurrent(r)
    BY <1>1, <1>2, <1>3 DEF TurnRules, Behind, ActionIsCurrent, Unresolved
  <2> QED BY <2>1, <2>3, <2>4 DEF Behind
<1>5. ASSUME NEW u \in Turns(d) PROVE TurnRule(r, u)
  <2>1. TurnRule(d, u)
    BY DEF TurnRules
  <2>2. d.turns[u].operation \in Operations(d)
    BY References
  <2>3. ActionsOf(r, d.turns[u].operation) = ActionsOf(d, d.turns[u].operation)
    BY DEF ActionsOf
  <2>4. ActionsOf(d, d.turns[u].operation) \subseteq Actions(d)
    BY DEF ActionsOf
  <2>6. StopSelected(r, u) <=> StopSelected(d, u)
    BY DEF StopSelected
  <2>7. QueuedIn(r, d.turns[u].session) = QueuedIn(d, d.turns[u].session)
    BY <1>1 DEF QueuedIn, Queued
  <2> QED BY <1>1, <2>1, <2>2, <2>3, <2>4, <2>6, <2>7, RuleKept
<1>6. ActionWasProposed(r)
  BY References DEF TurnRules, ActionWasProposed
<1> QED BY <1>1, <1>4, <1>5, <1>6 DEF TurnRules

\* The next Attempt, a claimed refresh and a wait leave the rules of Turns alone.
LEMMA AttemptTurns ==
  ASSUME NEW d, Tables(d), TurnRules(d), NEW o \in Operations(d)
  PROVE  TurnRules(AdmitRetry(d, o)) /\ TurnRules(ClaimAuthRefresh(d, o)) /\ TurnRules(WaitForRetry(d, o))
<1>1. ASSUME NEW r, Only(d, r, {"operations"}), Operations(r) = Operations(d),
             \A p \in Operations(d) : /\ r.operations[p].turn = d.operations[p].turn
                                      /\ r.operations[p].resolution = d.operations[p].resolution
      PROVE  TurnRules(r)
  <2>1. r.turns = d.turns /\ r.stops = d.stops /\ r.messages = d.messages /\ r.actions = d.actions
    BY <1>1, OnlyFields DEF Tables
  <2>2. ToolRules(r) /\ Actions(r) = Actions(d)
    BY <2>1 DEF TurnRules, ToolRules, Actions
  <2>3. \A a \in Actions(d) : d.actions[a].attempted => r.actions[a].attempted
    BY <2>1
  <2> QED BY <1>1, <2>1, <2>2, <2>3, WorkTouched
<1>2. \A p \in Operations(d) : d.operations[p] \in OperationRow(d)
  BY Columns
<1>3. TurnRules(AdmitRetry(d, o))
  <2> DEFINE r == AdmitRetry(d, o)
  <2>1. /\ Only(d, r, {"operations"})
        /\ r.operations = [d.operations EXCEPT ![o] = [d.operations[o] EXCEPT !.ordinal = d.operations[o].ordinal + 1, !.waiting = FALSE]]
    BY DEF AdmitRetry, Only, IsStore, Fields, Tables
  <2> HIDE DEF r
  <2>2. Operations(r) = Operations(d)
    BY <2>1 DEF Operations
  <2>3. \A p \in Operations(d) : /\ r.operations[p].turn = d.operations[p].turn
                                 /\ r.operations[p].resolution = d.operations[p].resolution
    BY <1>2, <2>1 DEF Operations, OperationRow
  <2> QED BY <1>1, <2>1, <2>2, <2>3 DEF r
<1>4. TurnRules(ClaimAuthRefresh(d, o))
  <2> DEFINE r == ClaimAuthRefresh(d, o)
  <2>1. Only(d, r, {"operations"}) /\ r.operations = [d.operations EXCEPT ![o].claimed = TRUE]
    BY ClaimAuthRefreshFields DEF Tables
  <2> HIDE DEF r
  <2>2. Operations(r) = Operations(d)
    BY <2>1 DEF Operations
  <2>3. \A p \in Operations(d) : /\ r.operations[p].turn = d.operations[p].turn
                                 /\ r.operations[p].resolution = d.operations[p].resolution
    BY <1>2, <2>1 DEF Operations, OperationRow
  <2> QED BY <1>1, <2>1, <2>2, <2>3 DEF r
<1>5. TurnRules(WaitForRetry(d, o))
  <2> DEFINE r == WaitForRetry(d, o)
  <2>1. Only(d, r, {"operations"}) /\ r.operations = [d.operations EXCEPT ![o].waiting = TRUE]
    BY WaitForRetryFields DEF Tables
  <2> HIDE DEF r
  <2>2. Operations(r) = Operations(d)
    BY <2>1 DEF Operations
  <2>3. \A p \in Operations(d) : /\ r.operations[p].turn = d.operations[p].turn
                                 /\ r.operations[p].resolution = d.operations[p].resolution
    BY <1>2, <2>1 DEF Operations, OperationRow
  <2> QED BY <1>1, <2>1, <2>2, <2>3 DEF r
<1> QED BY <1>3, <1>4, <1>5

\* A permission, and the Attempt of a call that has one, keep the rules of Turns.
LEMMA PermissionTurns ==
  ASSUME NEW d, Tables(d), TurnRules(d), NEW a \in Actions(d)
  PROVE  /\ TurnRules(Authorize(d, a))
         /\ d.actions[a].authorized /\ ~IsCore(d.actions[a].tool) => TurnRules(AdmitAction(d, a))
<1>1. ASSUME NEW r, Only(d, r, {"actions"}), Actions(r) = Actions(d), ToolRules(r),
             \A b \in Actions(d) : /\ r.actions[b].operation = d.actions[b].operation
                                   /\ r.actions[b].resolution = d.actions[b].resolution
                                   /\ d.actions[b].attempted => r.actions[b].attempted
      PROVE  TurnRules(r)
  <2>1. r.turns = d.turns /\ r.stops = d.stops /\ r.messages = d.messages /\ r.operations = d.operations
    BY <1>1, OnlyFields DEF Tables
  <2>2. Operations(r) = Operations(d)
    BY <2>1 DEF Operations
  <2> QED BY <1>1, <2>1, <2>2, WorkTouched
<1>2. \A b \in Actions(d) : d.actions[b] \in ActionRow(d)
  BY Columns
<1>3. TurnRules(Authorize(d, a))
  <2> DEFINE r == Authorize(d, a)
  <2>1. Only(d, r, {"actions"}) /\ r.actions = [d.actions EXCEPT ![a].authorized = TRUE]
    BY AuthorizeFields DEF Tables
  <2> HIDE DEF r
  <2>2. Actions(r) = Actions(d)
    BY <2>1 DEF Actions
  <2>3. /\ r.actions[a].operation = d.actions[a].operation /\ r.actions[a].tool = d.actions[a].tool
        /\ r.actions[a].resolution = d.actions[a].resolution
        /\ r.actions[a].attempted = d.actions[a].attempted /\ r.actions[a].authorized
        /\ \A b \in Actions(d) \ {a} : r.actions[b] = d.actions[b]
    BY <1>2, <2>1 DEF Actions, ActionRow
  <2>4. ToolRules(r)
    <3> SUFFICES ASSUME NEW b \in Actions(d)
                 PROVE  /\ IsCore(r.actions[b].tool) => r.actions[b].authorized /\ ~r.actions[b].attempted
                        /\ r.actions[b].attempted => r.actions[b].authorized
      BY <2>2 DEF ToolRules
    <3>1. CASE b = a
      BY <3>1, <2>3 DEF TurnRules, ToolRules
    <3>2. CASE b # a
      BY <3>2, <2>3 DEF TurnRules, ToolRules
    <3> QED BY <3>1, <3>2
  <2>5. \A b \in Actions(d) : /\ r.actions[b].operation = d.actions[b].operation
                              /\ r.actions[b].resolution = d.actions[b].resolution
                              /\ d.actions[b].attempted => r.actions[b].attempted
    BY <2>3
  <2> QED BY <1>1, <2>1, <2>2, <2>4, <2>5 DEF r
<1>4. ASSUME d.actions[a].authorized, ~IsCore(d.actions[a].tool) PROVE TurnRules(AdmitAction(d, a))
  <2> DEFINE r == AdmitAction(d, a)
  <2>1. Only(d, r, {"actions"}) /\ r.actions = [d.actions EXCEPT ![a].attempted = TRUE]
    BY AdmitActionFields DEF Tables
  <2> HIDE DEF r
  <2>2. Actions(r) = Actions(d)
    BY <2>1 DEF Actions
  <2>3. /\ r.actions[a].operation = d.actions[a].operation /\ r.actions[a].tool = d.actions[a].tool
        /\ r.actions[a].resolution = d.actions[a].resolution
        /\ r.actions[a].attempted /\ r.actions[a].authorized = d.actions[a].authorized
        /\ \A b \in Actions(d) \ {a} : r.actions[b] = d.actions[b]
    BY <1>2, <2>1 DEF Actions, ActionRow
  <2>4. ToolRules(r)
    <3> SUFFICES ASSUME NEW b \in Actions(d)
                 PROVE  /\ IsCore(r.actions[b].tool) => r.actions[b].authorized /\ ~r.actions[b].attempted
                        /\ r.actions[b].attempted => r.actions[b].authorized
      BY <2>2 DEF ToolRules
    <3>1. CASE b = a
      BY <3>1, <2>3, <1>4
    <3>2. CASE b # a
      BY <3>2, <2>3 DEF TurnRules, ToolRules
    <3> QED BY <3>1, <3>2
  <2>5. \A b \in Actions(d) : /\ r.actions[b].operation = d.actions[b].operation
                              /\ r.actions[b].resolution = d.actions[b].resolution
                              /\ d.actions[b].attempted => r.actions[b].attempted
    <3> SUFFICES ASSUME NEW b \in Actions(d)
                 PROVE  /\ r.actions[b].operation = d.actions[b].operation
                        /\ r.actions[b].resolution = d.actions[b].resolution
                        /\ d.actions[b].attempted => r.actions[b].attempted
      OBVIOUS
    <3>1. CASE b = a
      BY <3>1, <2>3
    <3>2. CASE b # a
      BY <3>2, <2>3
    <3> QED BY <3>1, <3>2
  <2> QED BY <1>1, <2>1, <2>2, <2>4, <2>5 DEF r
<1> QED BY <1>3, <1>4

\* A stored continuation makes the Turn's rule whole: record_continuation writes
\* it when the Turn continues, and it was not there before.
LEMMA RecordTurns ==
  ASSUME NEW d, Tables(d), NEW t \in Turns(d), TurnsBut(d, t), StoppedWaits(d, t), GoesOn(d, t),
         IsOpen(d, t) /\ d.turns[t].continuation = d.turns[t].operation =>
           ContinuesWithoutInput(d, d.turns[t].operation),
         ActionWasProposed(d), ToolRules(d)
  PROVE  TurnRules(RecordContinuation(d, t)) /\ Tables(RecordContinuation(d, t))
<1>1. CASE ~(IsOpen(d, t) /\ ContinuesWithoutInput(d, d.turns[t].operation))
  <2>1. RecordContinuation(d, t) = d
    BY <1>1 DEF RecordContinuation
  <2>2. TurnRule(d, t)
    BY <1>1 DEF TurnRule, Agrees
  <2> QED BY <2>1, <2>2 DEF TurnRules, TurnsBut
<1>2. CASE IsOpen(d, t) /\ ContinuesWithoutInput(d, d.turns[t].operation)
  <2> DEFINE r == SetContinuation(d, t)
  <2>1. RecordContinuation(d, t) = r
    BY <1>2 DEF RecordContinuation, SetContinuation
  <2>2. Tables(r)
    BY SetContinuationTables
  <2>3. Only(d, r, {"turns"}) /\ r.turns = [d.turns EXCEPT ![t].continuation = d.turns[t].operation]
    BY SetContinuationFields DEF Tables
  <2> HIDE DEF r
  <2>4. r.operations = d.operations /\ r.actions = d.actions /\ r.stops = d.stops /\ r.messages = d.messages
    BY <2>3, OnlyFields DEF Tables
  <2>5. /\ Operations(r) = Operations(d) /\ Turns(r) = Turns(d) /\ Actions(r) = Actions(d)
        /\ Messages(r) = Messages(d)
    BY <2>3, <2>4 DEF Operations, Turns, Actions, Messages
  <2>6. /\ r.turns[t].continuation = d.turns[t].operation
        /\ r.turns[t].operation = d.turns[t].operation /\ r.turns[t].session = d.turns[t].session
        /\ r.turns[t].outcome = d.turns[t].outcome
        /\ \A u \in Turns(d) \ {t} : r.turns[u] = d.turns[u]
    BY <2>3, Columns DEF Turns, TurnRow
  <2>7. \A u \in Turns(d) : /\ IsOpen(r, u) <=> IsOpen(d, u)
                            /\ r.turns[u].operation = d.turns[u].operation
                            /\ r.turns[u].session = d.turns[u].session
    BY <2>6 DEF IsOpen
  <2>8. \A a : TurnOfAction(r, a) = TurnOfAction(d, a)
    BY <2>4 DEF TurnOfAction, TurnOfOperation
  <2>9. Behind(r)
    <3>1. OperationIsOwn(r) /\ OneOpenTurn(r)
      BY <2>4, <2>5, <2>7 DEF TurnsBut, Behind, OperationIsOwn, OneOpenTurn
    <3>2. OperationIsCurrent(r)
      BY <2>4, <2>5, <2>7, References DEF TurnsBut, Behind, OperationIsCurrent
    <3>3. ActionIsCurrent(r)
      BY <2>4, <2>5, <2>7, <2>8, References DEF TurnsBut, Behind, ActionIsCurrent
    <3> QED BY <3>1, <3>2, <3>3 DEF Behind
  <2>10. \A o : ActionsOf(r, o) = ActionsOf(d, o)
    BY <2>4 DEF ActionsOf, Actions
  <2>11. \A u : StopSelected(r, u) <=> StopSelected(d, u)
    BY <2>4 DEF StopSelected
  <2>12. \A s : QueuedIn(r, s) = QueuedIn(d, s)
    BY <2>4 DEF QueuedIn, Queued, Messages
  <2>13. \A u \in Turns(d) \ {t} : TurnRule(r, u)
    <3> SUFFICES ASSUME NEW u \in Turns(d) \ {t} PROVE TurnRule(r, u)
      OBVIOUS
    <3>1. TurnRule(d, u)
      BY DEF TurnsBut
    <3> QED BY <3>1, <2>4, <2>5, <2>6, <2>10, <2>11, <2>12, RuleKept
  <2>14. TurnRule(r, t)
    <3>1. ContinuesWithoutInput(r, d.turns[t].operation)
      BY <1>2, <2>4, <2>10 DEF ContinuesWithoutInput, CompleteToolResults
    <3>2. Agrees(r, t)
      BY <3>1, <2>6 DEF Agrees
    <3>3. Waiting(r, t) = Waiting(d, t)
      BY <2>4, <2>6, <2>10 DEF Waiting
    <3>4. StoppedWaits(r, t)
      BY <3>3, <2>4, <2>7, <2>11 DEF StoppedWaits
    <3>5. GoesOn(r, t)
      BY <2>4, <2>7, <2>11, <2>12 DEF GoesOn
    <3> QED BY <3>2, <3>4, <3>5 DEF TurnRule
  <2>15. ActionWasProposed(r) /\ ToolRules(r)
    BY <2>4, <2>5 DEF ActionWasProposed, ToolRules
  <2>16. TurnRules(r)
    BY <2>5, <2>9, <2>13, <2>14, <2>15 DEF TurnRules
  <2> QED BY <2>1, <2>2, <2>16
<1> QED BY <1>1, <1>2

\* What record_continuation writes: a column of one Turn, or nothing.
LEMMA RecordFields ==
  ASSUME NEW d, Tables(d), NEW t \in Turns(d)
  PROVE  LET r == RecordContinuation(d, t)
         IN  /\ Only(d, r, {"turns"}) /\ Turns(r) = Turns(d) /\ Tables(r)
             /\ \A u \in Turns(d) : /\ r.turns[u].session = d.turns[u].session
                                    /\ r.turns[u].operation = d.turns[u].operation
                                    /\ r.turns[u].outcome = d.turns[u].outcome
             /\ \A u \in Turns(d) : ~IsOpen(d, u) => r.turns[u] = d.turns[u]
<1>1. CASE ~(IsOpen(d, t) /\ ContinuesWithoutInput(d, d.turns[t].operation))
  <2>1. RecordContinuation(d, t) = d
    BY <1>1 DEF RecordContinuation
  <2> QED BY <2>1 DEF Only, Tables
<1>2. CASE IsOpen(d, t) /\ ContinuesWithoutInput(d, d.turns[t].operation)
  <2> DEFINE r == SetContinuation(d, t)
  <2>1. RecordContinuation(d, t) = r
    BY <1>2 DEF RecordContinuation, SetContinuation
  <2>2. Only(d, r, {"turns"}) /\ r.turns = [d.turns EXCEPT ![t].continuation = d.turns[t].operation]
    BY SetContinuationFields DEF Tables
  <2>3. Tables(r)
    BY SetContinuationTables
  <2> HIDE DEF r
  <2>4. \A u \in Turns(d) : /\ r.turns[u].session = d.turns[u].session
                            /\ r.turns[u].operation = d.turns[u].operation
                            /\ r.turns[u].outcome = d.turns[u].outcome
    BY <2>2, Columns DEF Turns, TurnRow
  <2>5. \A u \in Turns(d) \ {t} : r.turns[u] = d.turns[u]
    BY <2>2 DEF Turns
  <2>6. Turns(r) = Turns(d)
    BY <2>2 DEF Turns
  <2> QED BY <1>2, <2>1, <2>2, <2>3, <2>4, <2>5, <2>6
<1> QED BY <1>1, <1>2

\* What queueClose writes: the outcome, and the ending the parent is owed.
LEMMA CloseTurnFields ==
  ASSUME NEW d, Tables(d), NEW t \in Turns(d), NEW x \in Outcomes
  PROVE  LET r == CloseTurn(d, t, x)
             s == d.turns[t].session
         IN  /\ Only(d, r, {"turns", "endings"}) /\ Tables(r)
             /\ r.turns = [d.turns EXCEPT ![t].outcome = x] /\ Turns(r) = Turns(d)
             /\ \/ r.endings = d.endings
                \/ /\ d.parent[s] # NoSession
                   /\ r.endings = d.endings \cup {[turn |-> t, suppressed |-> Archived(d, d.parent[s]),
                                                   delivered |-> FALSE]}
<1> DEFINE q == SetOutcome(d, t, x)
           s == d.turns[t].session
           r == CloseTurn(d, t, x)
<1>1. Only(d, q, {"turns"}) /\ q.turns = [d.turns EXCEPT ![t].outcome = x]
  BY SetOutcomeFields DEF Tables
<1>2. Tables(q)
  BY SetOutcomeTables
<1>3. r = OweEnding(q, t)
  BY DEF CloseTurn, SetOutcome
<1> HIDE DEF q, r
<1>4. /\ q.parent = d.parent /\ q.owed = d.owed /\ q.archive = d.archive /\ q.endings = d.endings
  BY <1>1, OnlyFields DEF Tables
<1>5. q.turns[t].session = s /\ Turns(q) = Turns(d)
  BY <1>1, Columns DEF Turns, TurnRow
<1>6. Archived(q, q.parent[s]) = Archived(d, d.parent[s])
  BY <1>4 DEF Archived
<1>7. CASE d.parent[s] # NoSession /\ ~OwesStop(q, s)
  <2> DEFINE e == AddEnding(q, t, Archived(d, d.parent[s]))
  <2>1. r = e
    BY <1>3, <1>4, <1>5, <1>6, <1>7 DEF OweEnding, AddEnding, SessionOfTurn
  <2>2. Archived(d, d.parent[s]) \in BOOLEAN
    BY DEF Archived
  <2>3. Tables(e)
    BY <1>2, <1>4, <1>5, <1>7, <2>2, AddEndingTables
  <2>4. /\ Only(q, e, {"endings"})
        /\ e.endings = q.endings \cup {[turn |-> t, suppressed |-> Archived(d, d.parent[s]), delivered |-> FALSE]}
    BY <1>2, AddEndingFields DEF Tables
  <2> HIDE DEF e
  <2>5. Only(d, e, {"turns", "endings"})
    BY <1>1, <2>4 DEF Only
  <2>6. e.turns = q.turns
    BY <1>2, <2>4, OnlyFields DEF Tables
  <2>7. Turns(e) = Turns(d)
    BY <1>5, <2>6 DEF Turns
  <2> QED BY <1>1, <1>4, <1>7, <2>1, <2>3, <2>4, <2>5, <2>6, <2>7 DEF r
<1>8. CASE ~(d.parent[s] # NoSession /\ ~OwesStop(q, s))
  <2>1. r = q
    BY <1>3, <1>4, <1>5, <1>8 DEF OweEnding, SessionOfTurn
  <2>2. Only(d, q, {"turns", "endings"})
    BY <1>1 DEF Only
  <2> QED BY <1>1, <1>2, <1>4, <1>5, <2>1, <2>2 DEF r
<1> QED BY <1>7, <1>8

\* A Turn with nothing left to resolve may close.
LEMMA CloseTurnTurns ==
  ASSUME NEW d, Tables(d), NEW t \in Turns(d), NEW x \in Outcomes \ {"open"}, TurnsBut(d, t),
         ActionWasProposed(d), ToolRules(d),
         \A o \in Operations(d) : d.operations[o].turn = t => ~Unresolved(d.operations[o]),
         \A a \in Actions(d) : TurnOfAction(d, a) = t => ~Unresolved(d.actions[a])
  PROVE  TurnRules(CloseTurn(d, t, x))
<1> DEFINE r == CloseTurn(d, t, x)
<1>1. /\ Only(d, r, {"turns", "endings"}) /\ r.turns = [d.turns EXCEPT ![t].outcome = x]
  BY CloseTurnFields
<1> HIDE DEF r
<1>2. r.operations = d.operations /\ r.actions = d.actions /\ r.stops = d.stops /\ r.messages = d.messages
  BY <1>1, OnlyFields DEF Tables
<1>3. /\ Operations(r) = Operations(d) /\ Turns(r) = Turns(d) /\ Actions(r) = Actions(d)
      /\ Messages(r) = Messages(d)
  BY <1>1, <1>2 DEF Operations, Turns, Actions, Messages
<1>4. /\ r.turns[t].outcome = x
      /\ r.turns[t].operation = d.turns[t].operation /\ r.turns[t].session = d.turns[t].session
      /\ \A u \in Turns(d) \ {t} : r.turns[u] = d.turns[u]
  BY <1>1, Columns DEF Turns, TurnRow
<1>5. /\ ~IsOpen(r, t)
      /\ \A u \in Turns(d) \ {t} : IsOpen(r, u) <=> IsOpen(d, u)
      /\ \A u \in Turns(d) : /\ r.turns[u].operation = d.turns[u].operation
                             /\ r.turns[u].session = d.turns[u].session
  BY <1>4 DEF IsOpen
<1>6. \A a : TurnOfAction(r, a) = TurnOfAction(d, a)
  BY <1>2 DEF TurnOfAction, TurnOfOperation
<1>7. Behind(r)
  <2>1. OperationIsOwn(r)
    BY <1>2, <1>3, <1>5 DEF TurnsBut, Behind, OperationIsOwn
  <2>2. OneOpenTurn(r)
    BY <1>3, <1>5 DEF TurnsBut, Behind, OneOpenTurn
  <2>3. OperationIsCurrent(r)
    BY <1>2, <1>3, <1>5, References DEF TurnsBut, Behind, OperationIsCurrent
  <2>4. ActionIsCurrent(r)
    BY <1>2, <1>3, <1>5, <1>6, References DEF TurnsBut, Behind, ActionIsCurrent
  <2> QED BY <2>1, <2>2, <2>3, <2>4 DEF Behind
<1>8. ASSUME NEW u \in Turns(d) PROVE TurnRule(r, u)
  <2>1. CASE u = t
    BY <2>1, <1>5 DEF TurnRule, Agrees, StoppedWaits, GoesOn
  <2>2. CASE u # t
    <3>1. TurnRule(d, u)
      BY <2>2 DEF TurnsBut
    <3>2. \A o : ActionsOf(r, o) = ActionsOf(d, o)
      BY <1>2 DEF ActionsOf, Actions
    <3>3. StopSelected(r, u) <=> StopSelected(d, u)
      BY <1>2 DEF StopSelected
    <3>4. \A s : QueuedIn(r, s) = QueuedIn(d, s)
      BY <1>2 DEF QueuedIn, Queued, Messages
    <3> QED BY <2>2, <3>1, <3>2, <3>3, <3>4, <1>2, <1>3, <1>4, RuleKept
  <2> QED BY <2>1, <2>2
<1>9. ActionWasProposed(r) /\ ToolRules(r)
  BY <1>2, <1>3 DEF ActionWasProposed, ToolRules
<1>10. TurnRules(r)
  BY <1>3, <1>7, <1>8, <1>9 DEF TurnRules
<1> QED BY <1>10 DEF r

\* An Operation that has proposed nothing has no Action, whatever it resolves to.
LEMMA ResolveOperationProposed ==
  ASSUME NEW d, Tables(d), NEW o \in Operations(d), NEW x, ActionWasProposed(d),
         d.operations[o].resolution # "tool_proposals"
  PROVE  ActionWasProposed(ResolveOperation(d, o, x))
<1> DEFINE r == ResolveOperation(d, o, x)
<1>1. /\ Only(d, r, {"operations"})
      /\ r.operations = [d.operations EXCEPT ![o] = [d.operations[o] EXCEPT !.resolution = x, !.waiting = FALSE]]
  BY DEF ResolveOperation, Only, IsStore, Fields, Tables
<1> HIDE DEF r
<1>2. r.actions = d.actions /\ Actions(r) = Actions(d)
  BY <1>1, OnlyFields DEF Tables, Actions
<1>3. \A p \in Operations(d) \ {o} : r.operations[p] = d.operations[p]
  BY <1>1 DEF Operations
<1>4. \A a \in Actions(d) : d.actions[a].operation \in Operations(d) \ {o}
  BY References DEF ActionWasProposed
<1>5. ActionWasProposed(r)
  BY <1>2, <1>3, <1>4 DEF ActionWasProposed
<1> QED BY <1>5 DEF r

\* A new Message is more input, and changes nothing else for a Turn.
LEMMA AdmitMessageTurns ==
  ASSUME NEW d, Tables(d), TurnRules(d), NEW s \in d.sessions, NEW key \in d.commands
  PROVE  TurnRules(AdmitMessage(d, s, key))
<1> DEFINE r == AdmitMessage(d, s, key)
<1>1. /\ Only(d, r, {"messages"})
      /\ r.messages = Append(d.messages, [session |-> s, key |-> key, turn |-> 0])
  BY AdmitMessageFields DEF Tables
<1> HIDE DEF r
<1>2. r.turns = d.turns /\ r.operations = d.operations /\ r.actions = d.actions /\ r.stops = d.stops
  BY <1>1, OnlyFields DEF Tables
<1>3. \A m \in Messages(d) : m \in Messages(r) /\ r.messages[m] = d.messages[m]
  BY <1>1, AppendIsSeq, SeqDomain DEF Messages, Tables, MessageRows
<1>4. \A q : QueuedIn(d, q) # {} => QueuedIn(r, q) # {}
  BY <1>2, <1>3 DEF QueuedIn, Queued
<1>5. /\ Operations(r) = Operations(d) /\ Turns(r) = Turns(d) /\ Actions(r) = Actions(d)
  BY <1>2 DEF Operations, Turns, Actions
<1>6. \A u : (IsOpen(r, u) <=> IsOpen(d, u)) /\ (StopSelected(r, u) <=> StopSelected(d, u))
  BY <1>2 DEF IsOpen, StopSelected
<1>7. \A a : TurnOfAction(r, a) = TurnOfAction(d, a)
  BY <1>2 DEF TurnOfAction, TurnOfOperation
<1>8. Behind(r)
  BY <1>2, <1>5, <1>6, <1>7 DEF TurnRules, Behind, OperationIsOwn, OneOpenTurn, OperationIsCurrent,
     ActionIsCurrent
<1>9. \A u \in Turns(d) : TurnRule(r, u)
  <2> SUFFICES ASSUME NEW u \in Turns(d) PROVE TurnRule(r, u)
    OBVIOUS
  <2>1. TurnRule(d, u)
    BY DEF TurnRules
  <2>2. \A o : ActionsOf(r, o) = ActionsOf(d, o)
    BY <1>2 DEF ActionsOf, Actions
  <2> QED BY <2>1, <2>2, <1>2, <1>4, <1>5, <1>6, RuleKept
<1>10. ActionWasProposed(r) /\ ToolRules(r)
  BY <1>2, <1>5 DEF TurnRules, ActionWasProposed, ToolRules
<1>11. TurnRules(r)
  BY <1>5, <1>8, <1>9, <1>10 DEF TurnRules
<1> QED BY <1>11 DEF r

\* A stop selects the open Turn of its Session and takes the input of no other.
LEMMA AddStopTurns ==
  ASSUME NEW d, Tables(d), TurnRules(d), NEW stop,
         \A u \in Turns(d) : IsOpen(d, u) /\ d.turns[u].session = stop.session => u = stop.turn
  PROVE  LET r == AddStop(d, stop)
         IN  /\ TurnsBut(r, stop.turn) /\ ActionWasProposed(r) /\ ToolRules(r)
             /\ stop.turn \in Turns(d) => Agrees(r, stop.turn) /\ StopSelected(r, stop.turn)
<1> DEFINE r == AddStop(d, stop)
<1>1. Only(d, r, {"stops"}) /\ r.stops = d.stops \cup {stop}
  BY AddStopFields DEF Tables
<1> HIDE DEF r
<1>2. r.turns = d.turns /\ r.operations = d.operations /\ r.actions = d.actions /\ r.messages = d.messages
  BY <1>1, OnlyFields DEF Tables
<1>3. /\ Operations(r) = Operations(d) /\ Turns(r) = Turns(d) /\ Actions(r) = Actions(d)
      /\ Messages(r) = Messages(d)
  BY <1>2 DEF Operations, Turns, Actions, Messages
<1>4. \A u : IsOpen(r, u) <=> IsOpen(d, u)
  BY <1>2 DEF IsOpen
<1>5. \A a : TurnOfAction(r, a) = TurnOfAction(d, a)
  BY <1>2 DEF TurnOfAction, TurnOfOperation
<1>6. Behind(r)
  BY <1>2, <1>3, <1>4, <1>5 DEF TurnRules, Behind, OperationIsOwn, OneOpenTurn, OperationIsCurrent,
     ActionIsCurrent
<1>7. \A o : ActionsOf(r, o) = ActionsOf(d, o)
  BY <1>2 DEF ActionsOf, Actions
<1>8. \A u \in Turns(d) \ {stop.turn} : TurnRule(r, u)
  <2> SUFFICES ASSUME NEW u \in Turns(d) \ {stop.turn} PROVE TurnRule(r, u)
    OBVIOUS
  <2>1. CASE ~IsOpen(d, u)
    BY <2>1, <1>4 DEF TurnRule, Agrees, StoppedWaits, GoesOn
  <2>2. CASE IsOpen(d, u)
    <3>1. TurnRule(d, u)
      BY DEF TurnRules
    <3>2. d.turns[u].session # stop.session
      BY <2>2
    <3>3. \A m : d.messages[m].session = d.turns[u].session => (Queued(r, m) <=> Queued(d, m))
      BY <3>2, <1>1, <1>2 DEF Queued
    <3>4. QueuedIn(r, d.turns[u].session) = QueuedIn(d, d.turns[u].session)
      BY <3>3, <1>2, <1>3 DEF QueuedIn
    <3>5. StopSelected(r, u) <=> StopSelected(d, u)
      BY <1>1 DEF StopSelected
    <3> QED BY <3>1, <3>4, <3>5, <1>2, <1>3, <1>7, RuleKept
  <2> QED BY <2>1, <2>2
<1>9. ActionWasProposed(r) /\ ToolRules(r)
  BY <1>2, <1>3 DEF TurnRules, ActionWasProposed, ToolRules
<1>10. ASSUME stop.turn \in Turns(d) PROVE Agrees(r, stop.turn) /\ StopSelected(r, stop.turn)
  <2>1. Agrees(d, stop.turn)
    BY <1>10 DEF TurnRules, TurnRule
  <2>2. \A o : ContinuesWithoutInput(r, o) <=> ContinuesWithoutInput(d, o)
    BY <1>2, <1>7 DEF ContinuesWithoutInput, CompleteToolResults
  <2>3. StopSelected(r, stop.turn)
    BY <1>1 DEF StopSelected
  <2> QED BY <2>1, <2>2, <2>3, <1>2, <1>4 DEF Agrees
<1>11. TurnsBut(r, stop.turn)
  BY <1>3, <1>6, <1>8 DEF TurnsBut
<1> QED BY <1>9, <1>10, <1>11 DEF r

\* The Turn a stop selects has its rule again when the stop is done with it: it is
\* closed, or waits for the Attempts in flight and for nothing else.
LEMMA StopTurnTurns ==
  ASSUME NEW d, Tables(d), NEW t \in Turns(d), IsOpen(d, t), TurnsBut(d, t), Agrees(d, t),
         StopSelected(d, t), ActionWasProposed(d), ToolRules(d)
  PROVE  TurnRules(StopTurn(d, t)) /\ Tables(StopTurn(d, t))
<1> DEFINE o == d.turns[t].operation
           q == IF Unresolved(d.operations[o]) THEN ResolveOperation(d, o, "interrupted") ELSE d
           r == CancelActions(q, o)
           inFlight == \E a \in ActionsOf(d, o) : Unresolved(d.actions[a]) /\ d.actions[a].attempted
<1>1. o \in Operations(d) /\ d.operations[o].turn = t
  BY References DEF TurnsBut, Behind, OperationIsOwn
<1>2. /\ Tables(q) /\ TurnsBut(q, t) /\ ActionWasProposed(q) /\ ToolRules(q)
      /\ q.turns = d.turns /\ q.actions = d.actions /\ q.stops = d.stops /\ q.messages = d.messages
      /\ Operations(q) = Operations(d) /\ q.operations[o].turn = t /\ ~Unresolved(q.operations[o])
      /\ \A p \in Operations(d) \ {o} : q.operations[p] = d.operations[p]
  <2>1. CASE ~Unresolved(d.operations[o])
    <3>1. q = d
      BY <2>1
    <3> QED BY <2>1, <3>1, <1>1
  <2>2. CASE Unresolved(d.operations[o])
    <3> DEFINE i == ResolveOperation(d, o, "interrupted")
    <3>1. q = i
      BY <2>2
    <3>2. "interrupted" \in OperationResolutions \ {"none"}
      BY DEF OperationResolutions
    <3>3. Tables(i)
      BY <3>2, <1>1, ResolveOperationTables
    <3>4. TurnsBut(i, t) /\ ToolRules(i) /\ i.operations[o].resolution = "interrupted"
      BY <3>2, <1>1, ResolveOperationTurns
    <3>5. ActionWasProposed(i)
      BY <1>1, <2>2, ResolveOperationProposed DEF Unresolved
    <3>6. /\ Only(d, i, {"operations"}) /\ Operations(i) = Operations(d)
          /\ i.operations[o].turn = d.operations[o].turn
          /\ \A p \in Operations(d) \ {o} : i.operations[p] = d.operations[p]
      BY <1>1, ResolveOperationRows
    <3> HIDE DEF i
    <3>7. i.turns = d.turns /\ i.actions = d.actions /\ i.stops = d.stops /\ i.messages = d.messages
      BY <3>6, OnlyFields DEF Tables
    <3>8. /\ Operations(i) = Operations(d) /\ i.operations[o].turn = t
          /\ \A p \in Operations(d) \ {o} : i.operations[p] = d.operations[p]
      BY <1>1, <3>6
    <3>9. ~Unresolved(i.operations[o])
      BY <3>4 DEF Unresolved
    <3> QED BY <3>1, <3>3, <3>4, <3>5, <3>7, <3>8, <3>9
  <2> QED BY <2>1, <2>2
<1>3. inFlight => q = d
  BY <1>1 DEF ActionsOf, ActionWasProposed, Unresolved
<1> HIDE DEF q
<1>4. Tables(r)
  BY <1>2, CancelActionsTables
<1>5. /\ TurnsBut(r, t) /\ ToolRules(r) /\ ActionWasProposed(r)
      /\ \A a \in Actions(q) : q.actions[a].operation = o /\ Unresolved(r.actions[a]) =>
           q.actions[a].attempted /\ Unresolved(q.actions[a])
      /\ \A a \in Actions(q) : q.actions[a].attempted => r.actions[a] = q.actions[a]
      /\ \A a \in Actions(q) : r.actions[a].attempted = q.actions[a].attempted
  BY <1>1, <1>2, CancelActionsTurns
<1>6. /\ Only(q, r, {"actions"})
      /\ r.actions = [a \in Actions(q) |->
            IF q.actions[a].operation = o /\ Unresolved(q.actions[a]) /\ ~q.actions[a].attempted
            THEN [q.actions[a] EXCEPT !.resolution = "cancelled"] ELSE q.actions[a]]
  BY <1>2, CancelActionsFields DEF Tables
<1> HIDE DEF r
<1>7. r.turns = d.turns /\ r.operations = q.operations /\ r.stops = d.stops
  BY <1>2, <1>6, OnlyFields DEF Tables
<1>8. /\ Actions(q) = Actions(d) /\ Actions(r) = Actions(d)
      /\ \A a \in Actions(d) : r.actions[a].operation = d.actions[a].operation
  <2>1. Actions(q) = Actions(d) /\ Actions(r) = Actions(d)
    BY <1>2, <1>6 DEF Actions
  <2>2. \A a \in Actions(d) : q.actions[a] \in ActionRow(q)
    BY <1>2, <2>1, Columns
  <2> QED BY <1>2, <1>6, <2>1, <2>2 DEF ActionRow
<1>9. CASE inFlight
  <2>1. StopTurn(d, t) = r
    BY <1>9 DEF StopTurn, r, q
  <2>2. PICK a \in ActionsOf(d, o) : Unresolved(d.actions[a]) /\ d.actions[a].attempted
    BY <1>9
  <2>3. q = d
    BY <1>3, <1>9
  <2>4. a \in ActionsOf(r, o) /\ Unresolved(r.actions[a]) /\ a \in Actions(d)
    BY <2>2, <2>3, <1>5, <1>8 DEF ActionsOf
  <2>5. d.operations[o].resolution = "tool_proposals"
    BY <2>2 DEF ActionWasProposed, ActionsOf
  <2>6. ~ContinuesWithoutInput(d, o) /\ ~ContinuesWithoutInput(r, o)
    BY <2>2, <2>3, <2>4, <2>5, <1>7 DEF ContinuesWithoutInput, CompleteToolResults
  <2>7. Agrees(r, t)
    BY <2>6, <1>7 DEF Agrees, IsOpen
  <2>8. StoppedWaits(r, t)
    <3>1. a \in Waiting(r, t)
      BY <2>4, <1>7 DEF Waiting
    <3>2. \A b \in Waiting(r, t) : r.actions[b].attempted
      BY <2>3, <1>5, <1>7, <1>8 DEF Waiting, ActionsOf
    <3> QED BY <3>1, <3>2 DEF StoppedWaits
  <2>9. GoesOn(r, t)
    BY <1>7 DEF GoesOn, StopSelected
  <2>10. TurnRule(r, t)
    BY <2>7, <2>8, <2>9 DEF TurnRule
  <2> QED BY <2>1, <2>10, <1>4, <1>5 DEF TurnRules, TurnsBut
<1>10. CASE ~inFlight
  <2>1. StopTurn(d, t) = CloseTurn(r, t, "cancelled")
    BY <1>10 DEF StopTurn, r, q
  <2>2. \A p \in Operations(r) : r.operations[p].turn = t => ~Unresolved(r.operations[p])
    BY <1>2, <1>5, <1>7 DEF TurnsBut, Behind, OperationIsCurrent
  <2>3. \A a \in Actions(r) : TurnOfAction(r, a) = t => ~Unresolved(r.actions[a])
    <3> SUFFICES ASSUME NEW a \in Actions(r), TurnOfAction(r, a) = t, Unresolved(r.actions[a]) PROVE FALSE
      OBVIOUS
    <3>1. r.actions[a].operation = o
      BY <1>5, <1>7 DEF TurnsBut, Behind, ActionIsCurrent
    <3>2. a \in Actions(d) /\ d.actions[a].operation = o
      BY <3>1, <1>8
    <3>3. d.actions[a].attempted /\ Unresolved(d.actions[a])
      BY <3>2, <1>2, <1>5, <1>8
    <3> QED BY <3>2, <3>3, <1>10 DEF ActionsOf
  <2>4. t \in Turns(r) /\ "cancelled" \in Outcomes \ {"open"}
    BY <1>7 DEF Turns, Outcomes
  <2>5. TurnRules(CloseTurn(r, t, "cancelled"))
    BY <2>2, <2>3, <2>4, <1>4, <1>5, CloseTurnTurns
  <2>6. Tables(CloseTurn(r, t, "cancelled"))
    BY <2>4, <1>4, CloseTurnFields
  <2> QED BY <2>1, <2>5, <2>6
<1> QED BY <1>9, <1>10

\* A Session that owes a stop, and the count of what caused one, touch no other table.
LEMMA OweChildStopsTables ==
  ASSUME NEW d, Tables(d), NEW s
  PROVE  Only(d, OweChildStops(d, s), {"owed", "causes"}) /\ Tables(OweChildStops(d, s))
<1> DEFINE children == {c \in d.sessions : d.parent[c] = s /\ ~OwesStop(d, c)}
           r == OweChildStops(d, s)
<1>1. /\ Only(d, r, {"owed", "causes"})
      /\ r.owed = d.owed \cup {[child |-> c, position |-> d.causes + 1] : c \in children}
      /\ r.causes = IF children = {} THEN d.causes ELSE d.causes + 1
  BY DEF OweChildStops, Only, IsStore, Fields, Tables
<1>2. children \subseteq d.sessions
  OBVIOUS
<1> HIDE DEF r, children
<1>3. /\ r.sessions = d.sessions /\ r.commands = d.commands /\ r.messages = d.messages
      /\ r.turns = d.turns /\ r.operations = d.operations
  BY <1>1, OnlyFields DEF Tables
<1>4. Grown(d, r)
  BY <1>3, References DEF Grown
<1>5. d.causes \in Nat /\ d.owed \subseteq [child : d.sessions, position : Nat]
  BY DEF Tables, OwedRows
<1>6. \A c \in children : [child |-> c, position |-> d.causes + 1] \in [child : d.sessions, position : Nat]
  BY <1>2, <1>5
<1>7. OwedRows(r)
  BY <1>1, <1>3, <1>5, <1>6 DEF OwedRows
<1>8. Tables(r)
  BY <1>1, <1>4, <1>7, TablesKept
<1> QED BY <1>1, <1>8 DEF r

\* forward.queue adds the parent's row unless it is there.
LEMMA QueueForwardTables ==
  ASSUME NEW d, Tables(d), NEW s \in d.sessions, NEW kind \in {"approval", "ending"}, NEW source \in Nat
  PROVE  LET r == QueueForward(d, s, kind, source)
         IN  /\ Only(d, r, {"forwards"}) /\ Tables(r) /\ Grown(d, r)
             /\ \/ r = d /\ (d.parent[s] # NoSession =>
                               \E f \in DOMAIN d.forwards :
                                 /\ d.forwards[f].target = d.parent[s] /\ d.forwards[f].kind = kind
                                 /\ d.forwards[f].source = source)
                \/ /\ d.parent[s] # NoSession
                   /\ r.forwards = Append(d.forwards, [target |-> d.parent[s], kind |-> kind,
                                                       source |-> source, delivered |-> FALSE])
                   /\ ~\E f \in DOMAIN d.forwards :
                          /\ d.forwards[f].target = d.parent[s] /\ d.forwards[f].kind = kind
                          /\ d.forwards[f].source = source
<1> DEFINE there == \E f \in DOMAIN d.forwards :
                      /\ d.forwards[f].target = d.parent[s] /\ d.forwards[f].kind = kind
                      /\ d.forwards[f].source = source
           r == QueueForward(d, s, kind, source)
<1>1. there <=> \E f \in Range(d.forwards) : f.target = d.parent[s] /\ f.kind = kind /\ f.source = source
  BY DEF Range
<1>2. CASE d.parent[s] # NoSession /\ ~there
  <2>1. r = AddForward(d, d.parent[s], kind, source)
    BY <1>1, <1>2 DEF QueueForward, AddForward
  <2>2. d.parent[s] \in d.sessions
    BY <1>2 DEF Tables, SessionRows
  <2>3. Tables(r) /\ Grown(d, r)
    BY <2>1, <2>2, AddForwardTables
  <2>4. /\ Only(d, r, {"forwards"})
        /\ r.forwards = Append(d.forwards, [target |-> d.parent[s], kind |-> kind,
                                            source |-> source, delivered |-> FALSE])
    BY <2>1, AddForwardFields DEF Tables
  <2> QED BY <1>2, <2>3, <2>4
<1>3. CASE ~(d.parent[s] # NoSession /\ ~there)
  <2>1. r = d
    BY <1>1, <1>3 DEF QueueForward
  <2>2. Only(d, d, {"forwards"})
    BY DEF Only, Tables
  <2>3. Grown(d, d)
    BY References DEF Grown
  <2> QED BY <1>3, <2>1, <2>2, <2>3
<1> QED BY <1>2, <1>3

-----------------------------------------------------------------------------
(* Admission *)

\* The Session's next model call may be admitted: it has input or a Turn to go on
\* with, and its open Turn has nothing left to resolve.
MayGoOn(d, s) ==
  /\ s \in d.sessions
  /\ QueuedIn(d, s) # {} \/ OpenTurns(d, s) # {}
  /\ \A t \in OpenTurns(d, s) :
       /\ ~Unresolved(d.operations[d.turns[t].operation])
       /\ \A a \in ActionsOf(d, d.turns[t].operation) : ~Unresolved(d.actions[a])
       /\ ~StopSelected(d, t)

\* A Turn that continues, with input or without, has nothing left to resolve.
LEMMA ContinuingIsDone ==
  ASSUME NEW d, Tables(d), TurnRules(d), NEW t \in Turns(d), IsOpen(d, t),
         \/ ContinuesWithInput(d, d.turns[t].operation)
         \/ ContinuesWithoutInput(d, d.turns[t].operation)
  PROVE  /\ ~Unresolved(d.operations[d.turns[t].operation])
         /\ \A a \in ActionsOf(d, d.turns[t].operation) : ~Unresolved(d.actions[a])
         /\ ~StopSelected(d, t)
<1> DEFINE o == d.turns[t].operation
<1>1. \/ d.operations[o].resolution \in {"answer", "compacted", "interrupted", "context_overflow"}
      \/ CompleteToolResults(d, o)
  BY DEF ContinuesWithInput, ContinuesWithoutInput
<1>2. ~Unresolved(d.operations[o])
  BY <1>1 DEF Unresolved, CompleteToolResults
<1>3. \A a \in ActionsOf(d, o) : ~Unresolved(d.actions[a])
  <2>1. CASE CompleteToolResults(d, o)
    BY <2>1 DEF CompleteToolResults
  <2>2. CASE d.operations[o].resolution \in {"answer", "compacted", "interrupted", "context_overflow"}
    BY <2>2 DEF TurnRules, ActionWasProposed, ActionsOf
  <2> QED BY <1>1, <2>1, <2>2
<1>4. Waiting(d, t) = {}
  BY <1>3 DEF Waiting
<1>5. ~StopSelected(d, t)
  BY <1>4 DEF TurnRules, TurnRule, StoppedWaits
<1> QED BY <1>2, <1>3, <1>5

\* What the two selections of model_admission choose may go on.
LEMMA SelectedMayGoOn ==
  ASSUME NEW d, Tables(d), TurnRules(d), NEW s \in MessageSelection(d) \cup ContinuationSelection(d)
  PROVE  MayGoOn(d, s)
<1>1. CASE s \in MessageSelection(d)
  <2> DEFINE runnable == {m \in Messages(d) : Runnable(d, m)}
  <2>1. runnable # {} /\ s = d.messages[Min(runnable)].session
    BY <1>1 DEF MessageSelection
  <2>2. runnable \subseteq Nat
    BY References
  <2>3. PICK m \in runnable : m = Min(runnable)
    BY <2>1, <2>2, MinIsLeast
  <2>4. Queued(d, m) /\ m \in Messages(d) /\ s = d.messages[m].session
        /\ \A t \in OpenTurns(d, s) : ContinuesWithInput(d, d.turns[t].operation)
    BY <2>1, <2>3 DEF Runnable
  <2>5. m \in QueuedIn(d, s)
    BY <2>4 DEF QueuedIn
  <2>6. s \in d.sessions
    BY <2>4, Columns DEF MessageRow
  <2>7. \A t \in OpenTurns(d, s) : t \in Turns(d) /\ IsOpen(d, t)
    BY DEF OpenTurns
  <2> QED BY <2>4, <2>5, <2>6, <2>7, ContinuingIsDone DEF MayGoOn
<1>2. CASE s \in ContinuationSelection(d)
  <2>1. PICK t \in Turns(d) : /\ IsOpen(d, t) /\ d.turns[t].continuation = d.turns[t].operation
                              /\ s = d.turns[t].session
    BY <1>2 DEF ContinuationSelection, SessionOfTurn
  <2>2. ContinuesWithoutInput(d, d.turns[t].operation)
    BY <2>1 DEF TurnRules, TurnRule, Agrees
  <2>3. OpenTurns(d, s) = {t}
    BY <2>1 DEF TurnRules, Behind, OneOpenTurn, OpenTurns
  <2>4. s \in d.sessions
    BY <2>1, References
  <2>5. /\ ~Unresolved(d.operations[d.turns[t].operation])
        /\ \A a \in ActionsOf(d, d.turns[t].operation) : ~Unresolved(d.actions[a])
        /\ ~StopSelected(d, t)
    BY <2>1, <2>2, ContinuingIsDone
  <2> QED BY <2>3, <2>4, <2>5 DEF MayGoOn
<1> QED BY <1>1, <1>2

\* The purposes forcedPurpose and nextPurpose choose from.
LEMMA PurposesAre ==
  ASSUME NEW d, NEW s, NEW purpose \in Purposes(d, s)
  PROVE  purpose \in {"assistant", "compaction"}
BY DEF Purposes

\* The Turn the next model call of s belongs to.
NextTurn(d, s) == IF OpenTurns(d, s) = {} THEN Len(d.turns) + 1 ELSE Min(OpenTurns(d, s))

\* The rows admitNextModelAttempt writes.
ModelRows(d, r, s, purpose) ==
  LET t == NextTurn(d, s)
      o == Len(d.operations) + 1
  IN  /\ Only(d, r, {"turns", "messages", "operations"})
      /\ t \in Turns(d) => IsOpen(d, t) /\ d.turns[t].session = s
      /\ t \notin Turns(d) => t = Len(d.turns) + 1 /\ OpenTurns(d, s) = {}
      /\ IsSeq(r.turns) /\ Turns(r) = Turns(d) \cup {t} /\ t \in 1..Len(r.turns)
      /\ Len(d.turns) <= Len(r.turns)
      /\ \A u \in Turns(d) \ {t} : r.turns[u] = d.turns[u]
      /\ r.turns[t] \in [session : {s}, operation : {o}, outcome : {"open"},
                         continuation : 0..Len(d.operations), first : 1..Len(d.messages)]
      /\ IsSeq(r.messages) /\ Messages(r) = Messages(d) /\ Len(r.messages) = Len(d.messages)
      /\ \A m \in Messages(d) : \/ r.messages[m] = d.messages[m]
                                \/ /\ m \in QueuedIn(d, s)
                                   /\ r.messages[m] = [d.messages[m] EXCEPT !.turn = t]
      /\ IsSeq(r.operations) /\ Len(r.operations) = o /\ Operations(r) = Operations(d) \cup {o}
      /\ \A p \in Operations(d) : r.operations[p] = d.operations[p]
      /\ r.operations[o] = [turn |-> t, purpose |-> purpose, ordinal |-> 1, waiting |-> FALSE,
                            claimed |-> FALSE, resolution |-> "none"]

\* admitNextModelAttempt writes those rows.
LEMMA AdmitModelRows ==
  ASSUME NEW d, Tables(d), TurnRules(d), NEW s, MayGoOn(d, s),
         NEW purpose \in {"assistant", "compaction"}
  PROVE  ModelRows(d, AdmitModel(d, s, purpose), s, purpose)
<1> DEFINE o == Len(d.operations) + 1
           open == OpenTurns(d, s)
           t == NextTurn(d, s)
           taken == IF purpose = "compaction" THEN {} ELSE QueuedIn(d, s)
           new == [session |-> s, operation |-> o, outcome |-> "open", continuation |-> 0,
                   first |-> FirstAdmission(d, s)]
           r == AdmitModel(d, s, purpose)
<1>1. /\ Only(d, r, {"turns", "messages", "operations"})
      /\ r.turns = IF open = {} THEN Append(d.turns, new) ELSE [d.turns EXCEPT ![t].operation = o]
      /\ r.messages = [m \in Messages(d) |-> IF m \in taken THEN [d.messages[m] EXCEPT !.turn = t]
                                             ELSE d.messages[m]]
      /\ r.operations = Append(d.operations, [turn |-> t, purpose |-> purpose, ordinal |-> 1,
                                 waiting |-> FALSE, claimed |-> FALSE, resolution |-> "none"])
  BY DEF AdmitModel, NextTurn, Only, IsStore, Fields, Tables
<1>2. taken \subseteq QueuedIn(d, s)
  OBVIOUS
<1> HIDE DEF r, taken
<1>3. /\ Turns(d) = 1..Len(d.turns) /\ Len(d.turns) \in Nat
      /\ Operations(d) = 1..Len(d.operations) /\ Len(d.operations) \in Nat
      /\ Messages(d) = 1..Len(d.messages) /\ Len(d.messages) \in Nat
  BY References
<1>4. /\ IsSeq(r.operations) /\ Len(r.operations) = o /\ Operations(r) = Operations(d) \cup {o}
      /\ \A p \in Operations(d) : r.operations[p] = d.operations[p]
      /\ r.operations[o] = [turn |-> t, purpose |-> purpose, ordinal |-> 1, waiting |-> FALSE,
                            claimed |-> FALSE, resolution |-> "none"]
  <2> DEFINE row == [turn |-> t, purpose |-> purpose, ordinal |-> 1, waiting |-> FALSE,
                     claimed |-> FALSE, resolution |-> "none"]
  <2>1. IsSeq(d.operations) /\ r.operations = Append(d.operations, row)
    BY <1>1 DEF Tables, OperationRows
  <2> HIDE DEF row
  <2>2. /\ IsSeq(r.operations) /\ Len(r.operations) = Len(d.operations) + 1
        /\ DOMAIN r.operations = 1..(Len(d.operations) + 1)
        /\ r.operations[Len(d.operations) + 1] = row
        /\ \A i \in 1..Len(d.operations) : r.operations[i] = d.operations[i]
    BY <2>1, AppendIsSeq
  <2>3. 1..o = 1..Len(d.operations) \cup {o}
    BY <1>3
  <2> QED BY <2>2, <2>3, <1>3 DEF Operations, row
<1>5. /\ IsSeq(r.messages) /\ Messages(r) = Messages(d) /\ Len(r.messages) = Len(d.messages)
      /\ \A m \in Messages(d) : \/ r.messages[m] = d.messages[m]
                                \/ /\ m \in QueuedIn(d, s)
                                   /\ r.messages[m] = [d.messages[m] EXCEPT !.turn = t]
  <2>1. IsSeq(d.messages) /\ Messages(d) = DOMAIN d.messages
    BY DEF Tables, MessageRows, Messages
  <2>2. r.messages = [m \in DOMAIN d.messages |-> r.messages[m]]
    BY <1>1, <2>1
  <2>3. IsSeq(r.messages) /\ Len(r.messages) = Len(d.messages) /\ DOMAIN r.messages = DOMAIN d.messages
    BY <2>1, <2>2, SameShape
  <2>4. \A m \in Messages(d) : \/ r.messages[m] = d.messages[m]
                               \/ /\ m \in QueuedIn(d, s)
                                  /\ r.messages[m] = [d.messages[m] EXCEPT !.turn = t]
    BY <1>1, <1>2
  <2> QED BY <2>1, <2>3, <2>4 DEF Messages
<1>6. CASE open = {}
  <2>1. t = Len(d.turns) + 1 /\ t \notin Turns(d)
    BY <1>3, <1>6 DEF NextTurn
  <2>2. FirstAdmission(d, s) \in 1..Len(d.messages)
    <3>1. QueuedIn(d, s) # {}
      BY <1>6 DEF MayGoOn
    <3>2. QueuedIn(d, s) \subseteq 1..Len(d.messages) /\ 1..Len(d.messages) \subseteq Nat
      BY <1>3 DEF QueuedIn
    <3>3. Min(QueuedIn(d, s)) \in QueuedIn(d, s)
      BY <3>1, <3>2, MinIsLeast
    <3> QED BY <3>1, <3>2, <3>3 DEF FirstAdmission
  <2>3. new \in [session : {s}, operation : {o}, outcome : {"open"},
                 continuation : 0..Len(d.operations), first : 1..Len(d.messages)]
    BY <2>2, <1>3
  <2> HIDE DEF new
  <2>4. IsSeq(d.turns) /\ r.turns = Append(d.turns, new)
    BY <1>1, <1>6 DEF Tables, TurnRows
  <2>5. /\ IsSeq(r.turns) /\ Len(r.turns) = Len(d.turns) + 1
        /\ DOMAIN r.turns = 1..(Len(d.turns) + 1)
        /\ r.turns[Len(d.turns) + 1] = new
        /\ \A i \in 1..Len(d.turns) : r.turns[i] = d.turns[i]
    BY <2>4, AppendIsSeq
  <2>6. 1..(Len(d.turns) + 1) = 1..Len(d.turns) \cup {Len(d.turns) + 1}
    BY <1>3
  <2>7. /\ IsSeq(r.turns) /\ Turns(r) = Turns(d) \cup {t} /\ t \in 1..Len(r.turns)
        /\ Len(d.turns) <= Len(r.turns) /\ r.turns[t] = new
        /\ \A u \in Turns(d) \ {t} : r.turns[u] = d.turns[u]
    BY <1>3, <2>1, <2>5, <2>6 DEF Turns
  <2>8. r.turns[t] \in [session : {s}, operation : {o}, outcome : {"open"},
                        continuation : 0..Len(d.operations), first : 1..Len(d.messages)]
    BY <2>3, <2>7
  <2> QED BY <1>1, <1>4, <1>5, <1>6, <2>1, <2>7, <2>8 DEF r, ModelRows
<1>7. CASE open # {}
  <2>1. t \in Turns(d) /\ IsOpen(d, t) /\ d.turns[t].session = s
    <3>1. open \subseteq Nat
      BY <1>3 DEF OpenTurns
    <3>2. t \in open
      BY <1>7, <3>1, MinIsLeast DEF NextTurn
    <3> QED BY <3>2 DEF OpenTurns
  <2>2. d.turns[t] \in TurnRow(d)
    BY <2>1, Columns
  <2>3. r.turns = [d.turns EXCEPT ![t].operation = o]
    BY <1>1, <1>7
  <2>4. r.turns = [u \in DOMAIN d.turns |-> r.turns[u]]
    BY <2>3
  <2>5. IsSeq(r.turns) /\ Len(r.turns) = Len(d.turns) /\ DOMAIN r.turns = DOMAIN d.turns
    BY <2>4, SameShape DEF Tables, TurnRows
  <2>6. r.turns[t] \in [session : {s}, operation : {o}, outcome : {"open"},
                        continuation : 0..Len(d.operations), first : 1..Len(d.messages)]
    BY <2>1, <2>2, <2>3 DEF TurnRow, Turns, IsOpen
  <2>7. \A u \in Turns(d) \ {t} : r.turns[u] = d.turns[u]
    BY <2>3 DEF Turns
  <2>8. Turns(r) = Turns(d) \cup {t} /\ t \in 1..Len(r.turns) /\ Len(d.turns) <= Len(r.turns)
    BY <1>3, <2>1, <2>5 DEF Turns
  <2> QED BY <1>1, <1>4, <1>5, <2>1, <2>5, <2>6, <2>7, <2>8 DEF r, ModelRows
<1> QED BY <1>6, <1>7
=============================================================================
