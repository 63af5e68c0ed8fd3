-------------------------- MODULE SessionCoreProofs --------------------------
(***************************************************************************)
(* The Host's invariant, and the properties of SessionCore that follow     *)
(* from it and from what each Store entry point does (StoreEntryProofs).   *)
(* The database's part is Tables and TurnRules; the Host's part says what  *)
(* an execution slot still holds, whatever other threads committed since.  *)
(***************************************************************************)
EXTENDS SessionCore, StoreEntryProofs, FiniteSetTheorems

-----------------------------------------------------------------------------
(* What slots hold *)

SlotRows == [kind : {"model", "bash"}, id : Nat, ordinal : Nat,
             stage : {"preparing", "running", "refreshing", "closed"}]

\* A model slot's Attempt is the Operation's latest: running, or interrupted by
\* a control.
ModelFits(d, slot) ==
  /\ slot.id \in Operations(d) /\ d.operations[slot.id].ordinal = slot.ordinal
  /\ \/ d.operations[slot.id].resolution = "none" /\ ~d.operations[slot.id].waiting
     \/ d.operations[slot.id].resolution = "interrupted"

\* A Bash slot's Action was attempted and is unresolved until its delivery is
\* closed; L are the Actions whose process was started.
BashFits(d, L, slot) ==
  /\ slot.id \in Actions(d) /\ d.actions[slot.id].attempted
  /\ slot.stage = "closed" <=> ~Unresolved(d.actions[slot.id])
  /\ slot.stage = "preparing" => slot.id \notin L

Fits(d, L, slot) ==
  /\ slot \in SlotRows
  /\ slot.kind = "model" => ModelFits(d, slot)
  /\ slot.kind = "bash" => BashFits(d, L, slot)

OneSlotEach(S) == \A x, y \in S : x.kind = y.kind /\ x.id = y.id => x = y

Slots(d, L, S) ==
  /\ IsFiniteSet(S) /\ Cardinality(S) <= Capacity
  /\ \A slot \in S : Fits(d, L, slot)
  /\ OneSlotEach(S)

\* Every unresolved Attempt of an Action is in a slot.
Covered(d, S) ==
  \A a \in Actions(d) : d.actions[a].attempted /\ Unresolved(d.actions[a]) =>
    \E slot \in S : slot.kind = "bash" /\ slot.id = a /\ slot.stage # "closed"

Launched(d, L) == \A a \in L : a \in Actions(d) /\ d.actions[a].attempted

\* What nextCoreWork named exists as long as the Host remembers it.
Work(d, w) ==
  \/ w = NoWork
  \/ w \in [kind : {"stop"}, child : d.sessions, position : Nat]
  \/ w \in [kind : {"ending"}, turn : Turns(d)]
  \/ w \in [kind : {"forward"}, forward : DOMAIN d.forwards]
  \/ w \in [kind : {"action"}, action : Actions(d)]

HostInv ==
  /\ phase \in {"open", "fenced", "stopping"} /\ scanned \in BOOLEAN
  /\ Slots(db, launched, slots) /\ Launched(db, launched) /\ Work(db, work)
  /\ phase = "open" /\ scanned => Covered(db, slots)

Inv == Tables(db) /\ TurnRules(db) /\ HostInv

\* What the core may do to a call whose Turn is stopped or whose Session owes a stop.
CoreRule(d, r) ==
  \A a \in Actions(d) :
    IsCore(d.actions[a].tool) /\ Unresolved(d.actions[a]) /\ CoreStopped(d, a) =>
      r.actions[a].resolution \in {"none", "cancelled"}

\* What every step does to the Store, beyond keeping its rules.
StoreStep(d, r) ==
  /\ Tables(r) /\ TurnRules(r) /\ Advances(d, r, Operations(d), Actions(d))
  /\ StopsRespected(d, r) /\ ArchiveRule(d, r) /\ CoreRule(d, r)

\* What every step does to the slots: it starts a process only for an Action it
\* never started one for, of an open Turn no stop selected.
LaunchRule ==
  \A slot \in slots' \ slots : slot.kind = "bash" /\ slot.stage = "running" =>
    /\ slot.id \notin launched
    /\ IsOpen(db, TurnOfAction(db, slot.id)) /\ ~StopSelected(db, TurnOfAction(db, slot.id))

GoodStep == Inv' /\ StoreStep(db, db') /\ LaunchRule

-----------------------------------------------------------------------------
(* A Store step seen from the slots *)

\* Operations outside O and Actions outside A are as they were, interrupted, or
\* cancelled before an Attempt: the slots that hold others still fit.
LEMMA FitsKept ==
  ASSUME NEW d, NEW r, NEW O, NEW A, Advances(d, r, O, A), NEW L, NEW M, NEW slot, Fits(d, L, slot),
         slot.kind = "model" => slot.id \notin O,
         slot.kind = "bash" => slot.id \notin A \/ slot.stage = "closed",
         slot.kind = "bash" /\ slot.id \in M => slot.id \in L
  PROVE  Fits(r, M, slot)
<1>1. slot.kind = "model" => ModelFits(r, slot)
  BY DEF Fits, ModelFits, Advances, OperationsKept, Unresolved
<1>2. slot.kind = "bash" => BashFits(r, M, slot)
  <2> SUFFICES ASSUME slot.kind = "bash" PROVE BashFits(r, M, slot)
    OBVIOUS
  <2> DEFINE a == slot.id
  <2>1. BashFits(d, L, slot) /\ ActionsKept(d, r, A)
    BY DEF Fits, Advances
  <2>2. a \in Actions(r) /\ r.actions[a].attempted
    BY <2>1 DEF BashFits, ActionsKept
  <2>3. slot.stage = "closed" <=> ~Unresolved(r.actions[a])
    <3>1. CASE slot.stage = "closed"
      BY <2>1, <3>1 DEF BashFits, ActionsKept, Unresolved
    <3>2. CASE slot.stage # "closed"
      <4>1. a \in Actions(d) \ A /\ d.actions[a].attempted /\ Unresolved(d.actions[a])
        BY <2>1, <3>2 DEF BashFits
      <4>2. r.actions[a] = d.actions[a]
        BY <2>1, <4>1 DEF ActionsKept
      <4> QED BY <3>2, <4>1, <4>2
    <3> QED BY <3>1, <3>2
  <2> QED BY <2>1, <2>2, <2>3 DEF BashFits
<1> QED BY <1>1, <1>2 DEF Fits

\* Some slots, after a step.
LEMMA SlotsKept ==
  ASSUME NEW d, NEW r, NEW O, NEW A, Advances(d, r, O, A), NEW L, NEW M, NEW S, Slots(d, L, S),
         NEW T, T \subseteq S,
         \A slot \in T : /\ slot.kind = "model" => slot.id \notin O
                         /\ slot.kind = "bash" => slot.id \notin A \/ slot.stage = "closed"
                         /\ slot.kind = "bash" /\ slot.id \in M => slot.id \in L
  PROVE  Slots(r, M, T)
<1>1. IsFiniteSet(T) /\ Cardinality(T) <= Cardinality(S)
  BY FS_Subset DEF Slots
<1>2. Cardinality(T) <= Capacity
  <2>1. Cardinality(T) \in Nat /\ Cardinality(S) \in Nat
    BY <1>1, FS_CardinalityType DEF Slots
  <2> QED BY <1>1, <2>1, BoundsAssumption DEF Slots
<1>3. \A slot \in T : Fits(r, M, slot)
  BY FitsKept DEF Slots
<1> QED BY <1>1, <1>2, <1>3 DEF Slots, OneSlotEach

\* One slot less.
LEMMA SlotsWithout ==
  ASSUME NEW d, NEW L, NEW S, Slots(d, L, S), NEW slot \in S
  PROVE  /\ S \ {slot} \subseteq S /\ Cardinality(S \ {slot}) < Capacity
         /\ \A x \in S \ {slot} : x.kind = slot.kind => x.id # slot.id
<1>1. IsFiniteSet(S \ {slot}) /\ Cardinality(S \ {slot}) = Cardinality(S) - 1
  BY FS_RemoveElement DEF Slots
<1>2. Cardinality(S) \in Nat
  BY FS_CardinalityType DEF Slots
<1> QED BY <1>1, <1>2, BoundsAssumption DEF Slots, OneSlotEach

\* One slot more.
LEMMA SlotsWith ==
  ASSUME NEW d, NEW L, NEW S, Slots(d, L, S), Cardinality(S) < Capacity, NEW slot, Fits(d, L, slot),
         \A x \in S : x.kind = slot.kind => x.id # slot.id
  PROVE  Slots(d, L, S \cup {slot})
<1>1. IsFiniteSet(S \cup {slot}) /\ Cardinality(S \cup {slot}) <= Cardinality(S) + 1
  <2>1. /\ IsFiniteSet(S \cup {slot})
        /\ Cardinality(S \cup {slot}) = IF slot \in S THEN Cardinality(S) ELSE Cardinality(S) + 1
    BY FS_AddElement DEF Slots
  <2>2. Cardinality(S) \in Nat
    BY FS_CardinalityType DEF Slots
  <2> QED BY <2>1, <2>2
<1>2. Cardinality(S \cup {slot}) <= Capacity
  <2>1. Cardinality(S) \in Nat /\ Cardinality(S \cup {slot}) \in Nat
    BY <1>1, FS_CardinalityType DEF Slots
  <2> QED BY <1>1, <2>1, BoundsAssumption
<1> QED BY <1>1, <1>2 DEF Slots, OneSlotEach

\* Attempts outside A stay covered by the Bash slots that remain.
LEMMA CoveredKept ==
  ASSUME NEW d, NEW r, NEW O, NEW A, Advances(d, r, O, A), NEW S, Covered(d, S), NEW T,
         \A slot \in S : slot.kind = "bash" /\ slot.id \notin A => slot \in T,
         \A a \in A : a \in Actions(r) /\ r.actions[a].attempted /\ Unresolved(r.actions[a]) =>
           \E slot \in T : slot.kind = "bash" /\ slot.id = a /\ slot.stage # "closed"
  PROVE  Covered(r, T)
<1>1. ActionsKept(d, r, A)
  BY DEF Advances
<1> SUFFICES ASSUME NEW a \in Actions(r), r.actions[a].attempted, Unresolved(r.actions[a])
             PROVE  \E slot \in T : slot.kind = "bash" /\ slot.id = a /\ slot.stage # "closed"
  BY DEF Covered
<1>2. CASE a \in A
  BY <1>2
<1>3. CASE a \notin A
  <2>1. a \in Actions(d)
    BY <1>1 DEF ActionsKept
  <2>2. r.actions[a] = d.actions[a]
    BY <1>1, <1>3, <2>1 DEF ActionsKept, Unresolved
  <2>3. PICK slot \in S : slot.kind = "bash" /\ slot.id = a /\ slot.stage # "closed"
    BY <2>1, <2>2 DEF Covered
  <2> QED BY <1>3, <2>3
<1> QED BY <1>2, <1>3

\* What was started was attempted, and stays so.
LEMMA LaunchedKept ==
  ASSUME NEW d, NEW r, NEW O, NEW A, Advances(d, r, O, A), NEW L, Launched(d, L)
  PROVE  Launched(r, L)
BY DEF Advances, ActionsKept, Launched

\* Rows are never removed: what the core remembers still names one.
LEMMA WorkKept ==
  ASSUME NEW d, NEW r, NEW O, NEW A, Advances(d, r, O, A), NEW w, Work(d, w)
  PROVE  Work(r, w)
BY DEF Advances, SessionsKept, TurnsKept, ActionsKept, ForwardsKept, Work

\* A settlement is a Store step: the core's calls it touches were not stopped.
LEMMA SettlesIsStep ==
  ASSUME NEW d, NEW r, NEW O, NEW A, O \subseteq Operations(d), A \subseteq Actions(d),
         Settles(d, r, O, A), ArchiveRule(d, r),
         \A a \in A : ~(IsCore(d.actions[a].tool) /\ Unresolved(d.actions[a]) /\ CoreStopped(d, a))
  PROVE  StoreStep(d, r)
<1>1. Settles(d, r, Operations(d), Actions(d))
  BY SettlesMore
<1>2. StopsRespected(d, r)
  BY SeatedRespects DEF Settles
<1>3. CoreRule(d, r)
  BY DEF Settles, Advances, ActionsKept, CoreRule, Unresolved
<1> QED BY <1>1, <1>2, <1>3 DEF StoreStep, Settles

-----------------------------------------------------------------------------
(* Commands *)

\* A Store step of another thread, or of the core: the slots stay as they are.
LEMMA OtherStep ==
  ASSUME Inv, StoreStep(db, db'), NEW A, Advances(db, db', {}, A),
         phase' = phase, slots' = slots, scanned' = scanned, launched' = launched,
         work' = work \/ work' = NoWork,
         \A a \in A : ~db.actions[a].attempted /\ ~db'.actions[a].attempted
  PROVE  GoodStep
<1>1. Tables(db') /\ TurnRules(db')
  BY DEF StoreStep
<1>2. Slots(db', launched', slots')
  <2>1. \A slot \in slots : slot.kind = "bash" => slot.id \notin A
    BY DEF Inv, HostInv, Slots, Fits, BashFits
  <2> QED BY <2>1, SlotsKept DEF Inv, HostInv
<1>3. Launched(db', launched')
  BY LaunchedKept DEF Inv, HostInv
<1>4. Work(db', work')
  <2>1. Work(db', work)
    BY WorkKept DEF Inv, HostInv
  <2> QED BY <2>1 DEF Work
<1>5. phase' = "open" /\ scanned' => Covered(db', slots')
  BY CoveredKept DEF Inv, HostInv
<1>6. LaunchRule
  BY DEF LaunchRule
<1>7. HostInv'
  BY <1>2, <1>3, <1>4, <1>5 DEF Inv, HostInv
<1> QED BY <1>1, <1>6, <1>7 DEF GoodStep, Inv

\* The commands that touch no Action by name.
LEMMA PlainCommand ==
  ASSUME Inv, NEW r, Settles(db, r, {}, {}), ArchiveRule(db, r), db' = r,
         phase' = phase, slots' = slots, scanned' = scanned, launched' = launched,
         work' = work \/ work' = NoWork
  PROVE  GoodStep
<1>1. StoreStep(db, r)
  BY SettlesIsStep
<1>2. Advances(db, r, {}, {})
  BY DEF Settles
<1> QED BY <1>1, <1>2, OtherStep

\* Every client command.
LEMMA ClientSteps ==
  ASSUME Inv, ClientStep
  PROVE  GoodStep
<1> USE DEF Client, host
<1>0. Tables(db) /\ TurnRules(db)
  BY DEF Inv
<1> PICK k \in Keys :
    \/ \E s \in Sessions : Submit(k, s) \/ Create(k, s) \/ Stop(k, s) \/ Archive(k, s) \/ Restore(k, s)
    \/ \E o \in Operations(db) : Interrupt(k, o)
    \/ \E s \in db.sessions, a \in Actions(db), decision \in {"allow_once", "deny"} : Decide(k, s, a, decision)
  BY DEF ClientStep
<1>1. ASSUME NEW s \in Sessions, Submit(k, s) PROVE GoodStep
  <2>1. Settles(db, SubmitMessage(db, k, s), {}, {}) /\ ArchiveRule(db, SubmitMessage(db, k, s))
    BY <1>0, SubmitMessageKeeps, SubmitRule
  <2> QED BY <1>1, <2>1, PlainCommand DEF Submit
<1>2. ASSUME NEW s \in Sessions, Create(k, s) PROVE GoodStep
  <2>1. s \in Sessions \ db.sessions
    BY <1>2 DEF Create
  <2>2. Settles(db, SubmitCreating(db, k, s), {}, {})
    BY <1>0, <2>1, SubmitCreatingKeeps
  <2>3. ArchiveRule(db, SubmitCreating(db, k, s))
    BY <1>0, <2>1, SubmitRule
  <2> QED BY <1>2, <2>2, <2>3, PlainCommand DEF Create
<1>3. ASSUME NEW s \in Sessions, NEW kind PROVE
        /\ Settles(db, StopSession(db, k, s, kind), {}, {})
        /\ ArchiveRule(db, StopSession(db, k, s, kind))
  BY <1>0, StopsKeep, StopsRule
<1>4. ASSUME NEW s \in Sessions, Stop(k, s) PROVE GoodStep
  BY <1>3, <1>4, PlainCommand DEF Stop
<1>5. ASSUME NEW s \in Sessions, Archive(k, s) PROVE GoodStep
  BY <1>3, <1>5, PlainCommand DEF Archive
<1>6. ASSUME NEW s \in Sessions, Restore(k, s) PROVE GoodStep
  <2>1. Settles(db, RestoreSession(db, k, s), {}, {}) /\ ArchiveRule(db, RestoreSession(db, k, s))
    BY <1>0, RestoreSessionKeeps, RestoreRule
  <2> QED BY <1>6, <2>1, PlainCommand DEF Restore
<1>7. ASSUME NEW o \in Operations(db), Interrupt(k, o) PROVE GoodStep
  <2>1. Settles(db, InterruptModel(db, k, o), {}, {})
    BY <1>0, InterruptModelKeeps
  <2>2. ArchiveRule(db, InterruptModel(db, k, o))
    BY <1>0, SilentCommands, SilentRule DEF Tables
  <2> QED BY <1>7, <2>1, <2>2, PlainCommand DEF Interrupt
<1>8. ASSUME NEW s \in db.sessions, NEW a \in Actions(db), NEW decision, Decide(k, s, a, decision)
      PROVE  GoodStep
  <2> DEFINE r == DecidePermission(db, k, s, a, decision)
  <2>1. /\ db.actions[a].authorized => Settles(db, r, {}, {})
        /\ Settles(db, r, {}, {a})
        /\ r.actions[a].attempted = db.actions[a].attempted
    BY <1>0, DecidePermissionKeeps
  <2>2. ArchiveRule(db, r)
    BY <1>0, SilentCommands, SilentRule DEF Tables
  <2>3. /\ db' = r /\ phase' = phase /\ slots' = slots /\ scanned' = scanned /\ work' = work
        /\ launched' = launched
    BY <1>8 DEF Decide
  <2> HIDE DEF r
  <2>4. CASE db.actions[a].authorized
    BY <2>1, <2>2, <2>3, <2>4, PlainCommand
  <2>5. CASE ~db.actions[a].authorized
    <3>1. ~db.actions[a].attempted /\ ~IsCore(db.actions[a].tool)
      BY <1>0, <2>5 DEF TurnRules, ToolRules
    <3>2. StoreStep(db, r)
      BY <2>1, <2>2, <3>1, SettlesIsStep
    <3>3. Advances(db, r, {}, {a})
      BY <2>1 DEF Settles
    <3>4. StoreStep(db, db') /\ Advances(db, db', {}, {a}) /\ ~db'.actions[a].attempted
      BY <2>1, <2>3, <3>1, <3>2, <3>3
    <3> QED BY <2>3, <3>1, <3>4, OtherStep
  <2> QED BY <2>4, <2>5
<1> QED BY <1>1, <1>2, <1>4, <1>5, <1>6, <1>7, <1>8

-----------------------------------------------------------------------------
(* The core *)

\* nextCoreWork names rows that exist.
LEMMA CoreWorkIsWork ==
  ASSUME NEW d, Tables(d), NEW w \in CoreWork(d)
  PROVE  Work(d, w)
<1> DEFINE open == {e.turn : e \in {e \in d.endings : ~e.delivered}}
           hops == {f \in DOMAIN d.forwards : ~d.forwards[f].delivered}
<1>1. CASE d.owed # {}
  <2>1. PICK row \in d.owed : w = [kind |-> "stop", child |-> row.child, position |-> row.position]
    BY <1>1 DEF CoreWork
  <2>2. row \in [child : d.sessions, position : Nat]
    BY DEF Tables, OwedRows
  <2> QED BY <2>1, <2>2 DEF Work
<1>2. CASE d.owed = {} /\ open # {}
  <2>1. w = [kind |-> "ending", turn |-> Min(open)]
    BY <1>2 DEF CoreWork
  <2>2. open \subseteq Turns(d) /\ Turns(d) \subseteq Nat
    BY References DEF Tables, EndingRows, EndingRow
  <2> HIDE DEF open
  <2>3. Min(open) \in Turns(d)
    BY <1>2, <2>2, MinIsLeast
  <2> QED BY <2>1, <2>3 DEF Work
<1>3. CASE d.owed = {} /\ open = {} /\ hops # {}
  <2>1. w = [kind |-> "forward", forward |-> Min(hops)]
    BY <1>3 DEF CoreWork
  <2>2. hops \subseteq DOMAIN d.forwards /\ hops \subseteq Nat
    BY SeqDomain DEF Tables, ForwardRows
  <2> HIDE DEF hops
  <2>3. Min(hops) \in DOMAIN d.forwards
    BY <1>3, <2>2, MinIsLeast
  <2> QED BY <2>1, <2>3 DEF Work
<1>4. CASE d.owed = {} /\ open = {} /\ hops = {}
  <2>1. PICK a \in CoreSelection(d) : w = [kind |-> "action", action |-> a]
    BY <1>4 DEF CoreWork
  <2>2. a \in Actions(d)
    BY DEF CoreSelection, Oldest, ReadyActions
  <2> QED BY <2>1, <2>2 DEF Work
<1> QED BY <1>1, <1>2, <1>3, <1>4

\* What kind of work it is says what it names.
LEMMA WorkNames ==
  ASSUME NEW d, NEW w, Work(d, w)
  PROVE  /\ w.kind = "stop" => w.child \in d.sessions
         /\ w.kind = "ending" => w.turn \in Turns(d)
         /\ w.kind = "forward" => w.forward \in DOMAIN d.forwards
         /\ w.kind = "action" => w.action \in Actions(d)
BY DEF Work, NoWork

\* A step that leaves the Store alone is a Store step.
LEMMA IdleStore ==
  ASSUME NEW d, Tables(d), TurnRules(d)
  PROVE  Settles(d, d, {}, {}) /\ ArchiveRule(d, d) /\ StoreStep(d, d)
<1>1. Settles(d, d, {}, {})
  BY SettlesSelf
<1>2. ArchiveRule(d, d)
  BY SilentRule DEF Silent, Tables
<1>3. StoreStep(d, d)
  BY <1>1, <1>2, SettlesIsStep
<1> QED BY <1>1, <1>2, <1>3

\* A core call, still waiting and not stopped, is resolved.
LEMMA CallStep ==
  ASSUME Inv, NEW tool, NEW after, RunCall(tool, after),
         work.action \in Actions(db) /\ Unresolved(db.actions[work.action])
           /\ ~StopSelected(db, TurnOfAction(db, work.action)) =>
              Settles(db, after, {}, {work.action}) /\ ArchiveRule(db, after)
  PROVE  GoodStep
<1> DEFINE a == work.action
<1>0. Tables(db) /\ TurnRules(db) /\ Work(db, work)
  BY DEF Inv, HostInv
<1>1. /\ work.kind = "action" /\ phase' = phase /\ slots' = slots /\ scanned' = scanned
      /\ launched' = launched /\ work' = NoWork
      /\ db' = IF CoreWaiting(db, a) /\ ~CoreStopped(db, a) THEN after ELSE db
  BY DEF RunCall, RunCore
<1>2. a \in Actions(db)
  BY <1>0, <1>1, WorkNames
<1>3. CASE CoreWaiting(db, a) /\ ~CoreStopped(db, a)
  <2>1. /\ IsCore(db.actions[a].tool) /\ ~db.actions[a].attempted /\ Unresolved(db.actions[a])
        /\ ~StopSelected(db, TurnOfAction(db, a)) /\ db' = after
    BY <1>1, <1>3 DEF CoreWaiting, CoreStopped
  <2>2. Settles(db, after, {}, {a}) /\ ArchiveRule(db, after)
    BY <1>2, <2>1
  <2>3. StoreStep(db, after)
    BY <1>2, <1>3, <2>2, SettlesIsStep
  <2>4. ~after.actions[a].attempted
    <3>1. a \in Actions(after) /\ after.actions[a].tool = db.actions[a].tool /\ ToolRules(after)
      BY <1>2, <2>2 DEF Settles, Advances, ActionsKept, TurnRules
    <3> QED BY <2>1, <3>1 DEF ToolRules
  <2>5. Advances(db, after, {}, {a})
    BY <2>2 DEF Settles
  <2> QED BY <1>1, <2>1, <2>3, <2>4, <2>5, OtherStep
<1>4. CASE ~(CoreWaiting(db, a) /\ ~CoreStopped(db, a))
  BY <1>0, <1>1, <1>4, IdleStore, PlainCommand
<1> QED BY <1>3, <1>4

\* What the core runs.
LEMMA CoreSteps ==
  ASSUME Inv, ReadCoreWork \/ RunCoreWork
  PROVE  GoodStep
<1>0. Tables(db) /\ TurnRules(db) /\ Work(db, work)
  BY DEF Inv, HostInv
<1>1. CASE ReadCoreWork
  <2>1. /\ db' = db /\ phase' = phase /\ slots' = slots /\ scanned' = scanned /\ launched' = launched
        /\ work' \in CoreWork(db)
    BY <1>1 DEF ReadCoreWork
  <2>2. Work(db', work')
    BY <1>0, <2>1, CoreWorkIsWork
  <2>3. StoreStep(db, db')
    BY <1>0, <2>1, IdleStore
  <2>4. Inv'
    BY <2>1, <2>2 DEF Inv, HostInv
  <2>5. LaunchRule
    BY <2>1 DEF LaunchRule
  <2> QED BY <2>3, <2>4, <2>5 DEF GoodStep
<1>2. CASE RunOwedStop
  <2>1. /\ Settles(db, StopOwedSession(db, work.child, work.position), {}, {})
        /\ ArchiveRule(db, StopOwedSession(db, work.child, work.position))
    BY <1>0, StopsKeep, StopsRule
  <2> QED BY <1>2, <2>1, PlainCommand DEF RunOwedStop, RunCore
<1>3. CASE RunOwedEnding
  <2>1. work.turn \in Turns(db)
    BY <1>0, <1>3, WorkNames DEF RunOwedEnding
  <2>2. /\ Settles(db, DeliverChildEnding(db, work.turn), {}, {})
        /\ ArchiveRule(db, DeliverChildEnding(db, work.turn))
    BY <1>0, <2>1, DeliverChildEndingKeeps, EndingRule
  <2> QED BY <1>3, <2>2, PlainCommand DEF RunOwedEnding, RunCore
<1>4. CASE RunForward
  <2> DEFINE r == DeliverForward(db, work.forward)
  <2>1. work.forward \in DOMAIN db.forwards
    BY <1>0, <1>4, WorkNames DEF RunForward
  <2>2. Settles(db, r, {}, {}) /\ Only(db, r, {"forwards"})
    BY <1>0, <2>1, DeliverForwardKeeps
  <2> HIDE DEF r
  <2>3. ArchiveRule(db, r)
    BY <1>0, <2>2, OnlySilent, SilentRule DEF Tables
  <2> QED BY <1>4, <2>2, <2>3, PlainCommand DEF RunForward, RunCore, r
<1>5. CASE RunReadTranscript
  <2>1. PICK code \in {"succeeded", "failed"} :
          RunCall("read_transcript", ResolveCore(db, work.action, code))
    BY <1>5 DEF RunReadTranscript
  <2>2. code \in ActionResolutions \ {"none"}
    BY DEF ActionResolutions
  <2>3. work.action \in Actions(db) /\ Unresolved(db.actions[work.action])
           /\ ~StopSelected(db, TurnOfAction(db, work.action)) =>
        Settles(db, ResolveCore(db, work.action, code), {}, {work.action})
    BY <1>0, <2>2, ResolveCoreKeeps
  <2>4. ArchiveRule(db, ResolveCore(db, work.action, code))
    BY <1>0, SilentActions, SilentRule DEF Tables
  <2> QED BY <2>1, <2>3, <2>4, CallStep
<1>6. ASSUME NEW s \in Sessions, RunMessageAgent(s) PROVE GoodStep
  <2>1. work.action \in Actions(db) /\ Unresolved(db.actions[work.action])
           /\ ~StopSelected(db, TurnOfAction(db, work.action)) =>
        Settles(db, DeliverAgentMessage(db, work.action, s), {}, {work.action})
    BY <1>0, DeliverAgentMessageKeeps
  <2>2. ArchiveRule(db, DeliverAgentMessage(db, work.action, s))
    BY <1>0, AgentRule
  <2> QED BY <1>6, <2>1, <2>2, CallStep DEF RunMessageAgent
<1>7. ASSUME NEW s \in Sessions, NEW attached \in BOOLEAN, RunStartAgent(s, attached) PROVE GoodStep
  <2>1. work.action \in Actions(db) /\ Unresolved(db.actions[work.action])
           /\ ~StopSelected(db, TurnOfAction(db, work.action)) =>
        Settles(db, StartAgent(db, work.action, s, attached), {}, {work.action})
    BY <1>0, StartAgentKeeps
  <2>2. ArchiveRule(db, StartAgent(db, work.action, s, attached))
    BY <1>0, AgentRule
  <2> QED BY <1>7, <2>1, <2>2, CallStep DEF RunStartAgent
<1> QED BY <1>1, <1>2, <1>3, <1>4, <1>5, <1>6, <1>7 DEF RunCoreWork

-----------------------------------------------------------------------------
(* Slots are occupied, moved and freed *)

\* The parts of a step of the execution owner, put together.
LEMMA OwnerStep ==
  ASSUME Inv, StoreStep(db, db'), NEW O, NEW A, Advances(db, db', O, A),
         phase' \in {"open", "fenced", "stopping"}, scanned' \in BOOLEAN,
         Slots(db', launched', slots'), Launched(db', launched'),
         work' = work \/ work' = NoWork,
         phase' = "open" /\ scanned' => Covered(db', slots'),
         LaunchRule
  PROVE  GoodStep
<1>1. Work(db', work)
  BY WorkKept DEF Inv, HostInv
<1>2. Work(db', work')
  BY <1>1 DEF Work
<1>3. HostInv'
  BY <1>2 DEF HostInv
<1> QED BY <1>3 DEF GoodStep, Inv, StoreStep

\* A moved slot is the same but for its stage.
LEMMA MovedSlot ==
  ASSUME NEW slot \in SlotRows, NEW stage \in {"preparing", "running", "refreshing", "closed"}
  PROVE  LET x == [slot EXCEPT !.stage = stage]
         IN  /\ x \in SlotRows /\ x.kind = slot.kind /\ x.id = slot.id /\ x.ordinal = slot.ordinal
             /\ x.stage = stage
BY DEF SlotRows

\* A model slot is freed.
LEMMA FreeModel ==
  ASSUME Inv, NEW slot \in slots, slot.kind = "model",
         NEW r, Settles(db, r, {slot.id}, {}), ArchiveRule(db, r), db' = r,
         slots' = slots \ {slot}, phase' = phase, scanned' = scanned, work' = work, launched' = launched
  PROVE  GoodStep
<1>1. Advances(db, r, {slot.id}, {})
  BY DEF Settles
<1>2. slot.id \in Operations(db)
  BY DEF Inv, HostInv, Slots, Fits, ModelFits
<1>3. StoreStep(db, r)
  BY <1>2, SettlesIsStep
<1>4. /\ slots' \subseteq slots
      /\ \A x \in slots' : x.kind = "model" => x.id # slot.id
  BY SlotsWithout DEF Inv, HostInv
<1>5. Slots(db', launched', slots')
  BY <1>1, <1>4, SlotsKept DEF Inv, HostInv
<1>6. Launched(db', launched')
  BY <1>1, LaunchedKept DEF Inv, HostInv
<1>7. phase' = "open" /\ scanned' => Covered(db', slots')
  BY <1>1, CoveredKept DEF Inv, HostInv
<1>8. LaunchRule
  BY DEF LaunchRule
<1>9. phase' \in {"open", "fenced", "stopping"} /\ scanned' \in BOOLEAN
  BY DEF Inv, HostInv
<1>10. StoreStep(db, db') /\ Advances(db, db', {slot.id}, {})
  BY <1>1, <1>3
<1> QED BY <1>5, <1>6, <1>7, <1>8, <1>9, <1>10, OwnerStep

\* A model slot goes to its next stage.
LEMMA MoveModel ==
  ASSUME Inv, NEW slot \in slots, slot.kind = "model",
         NEW r, Settles(db, r, {slot.id}, {}), ArchiveRule(db, r), db' = r,
         NEW x, x.kind = "model", x.id = slot.id, Fits(r, launched, x),
         slots' = (slots \ {slot}) \cup {x}, phase' = phase, scanned' = scanned, work' = work,
         launched' = launched
  PROVE  GoodStep
<1> DEFINE T == slots \ {slot}
<1>1. Advances(db, r, {slot.id}, {})
  BY DEF Settles
<1>2. slot.id \in Operations(db)
  BY DEF Inv, HostInv, Slots, Fits, ModelFits
<1>3. StoreStep(db, r)
  BY <1>2, SettlesIsStep
<1>4. /\ T \subseteq slots /\ Cardinality(T) < Capacity
      /\ \A y \in T : y.kind = "model" => y.id # slot.id
  BY SlotsWithout DEF Inv, HostInv
<1> HIDE DEF T
<1>5. Slots(r, launched, T)
  BY <1>1, <1>4, SlotsKept DEF Inv, HostInv
<1>6. Slots(r, launched, T \cup {x})
  BY <1>4, <1>5, SlotsWith
<1>7. Launched(db', launched')
  BY <1>1, LaunchedKept DEF Inv, HostInv
<1>8. phase' = "open" /\ scanned' => Covered(db', slots')
  BY <1>1, CoveredKept DEF Inv, HostInv
<1>9. LaunchRule
  BY DEF LaunchRule
<1>10. phase' \in {"open", "fenced", "stopping"} /\ scanned' \in BOOLEAN
  BY DEF Inv, HostInv
<1>11. StoreStep(db, db') /\ Advances(db, db', {slot.id}, {}) /\ Slots(db', launched', slots')
  BY <1>1, <1>3, <1>6 DEF T
<1> QED BY <1>7, <1>8, <1>9, <1>10, <1>11, OwnerStep

\* A model slot is occupied: O is empty or the Operation of the new slot.
LEMMA OccupyModel ==
  ASSUME Inv, NEW r, StoreStep(db, r), NEW O, Advances(db, r, O, {}), db' = r,
         NEW x, x.kind = "model", Fits(r, launched, x), Cardinality(slots) < Capacity,
         O \subseteq {x.id}, \A y \in slots : y.kind = "model" => y.id # x.id,
         slots' = slots \cup {x}, phase' = phase, scanned' = scanned, work' = work,
         launched' = launched
  PROVE  GoodStep
<1>1. Slots(r, launched, slots)
  BY SlotsKept DEF Inv, HostInv
<1>2. Slots(r, launched, slots \cup {x})
  BY <1>1, SlotsWith
<1>3. Launched(db', launched')
  BY LaunchedKept DEF Inv, HostInv
<1>4. phase' = "open" /\ scanned' => Covered(db', slots')
  BY CoveredKept DEF Inv, HostInv
<1>5. LaunchRule
  BY DEF LaunchRule
<1>6. phase' \in {"open", "fenced", "stopping"} /\ scanned' \in BOOLEAN
  BY DEF Inv, HostInv
<1>7. StoreStep(db, db') /\ Advances(db, db', O, {}) /\ Slots(db', launched', slots')
  BY <1>2
<1> QED BY <1>3, <1>4, <1>5, <1>6, <1>7, OwnerStep

\* A Bash slot settles its Action and is freed.
LEMMA FreeBash ==
  ASSUME Inv, NEW slot \in slots, slot.kind = "bash", slot.stage # "closed",
         NEW code \in ActionResolutions \ {"none"}, db' = SettleAction(db, slot.id, code),
         slots' = slots \ {slot}, phase' = phase, scanned' = scanned, work' = work, launched' = launched
  PROVE  GoodStep
<1> DEFINE a == slot.id
           r == SettleAction(db, a, code)
<1>0. Tables(db) /\ TurnRules(db)
  BY DEF Inv
<1>1. a \in Actions(db) /\ Unresolved(db.actions[a]) /\ db.actions[a].attempted
  BY DEF Inv, HostInv, Slots, Fits, BashFits
<1>2. Settles(db, r, {}, {a}) /\ ~Unresolved(r.actions[a])
  BY <1>0, <1>1, SettleActionKeeps, SettledActionIsResolved
<1>3. ArchiveRule(db, r)
  BY <1>0, SilentActions, SilentRule DEF Tables
<1> HIDE DEF r
<1>4. ~IsCore(db.actions[a].tool)
  BY <1>0, <1>1 DEF TurnRules, ToolRules
<1>5. StoreStep(db, r)
  BY <1>1, <1>2, <1>3, <1>4, SettlesIsStep
<1>6. Advances(db, r, {}, {a})
  BY <1>2 DEF Settles
<1>7. /\ slots' \subseteq slots
      /\ \A x \in slots' : x.kind = "bash" => x.id # a
  BY SlotsWithout DEF Inv, HostInv
<1>8. Slots(r, launched, slots')
  BY <1>6, <1>7, SlotsKept DEF Inv, HostInv
<1>9. Launched(r, launched)
  BY <1>6, LaunchedKept DEF Inv, HostInv
<1>10. phase' = "open" /\ scanned' => Covered(r, slots')
  BY <1>2, <1>6, CoveredKept DEF Inv, HostInv
<1>11. LaunchRule
  BY DEF LaunchRule
<1>12. phase' \in {"open", "fenced", "stopping"} /\ scanned' \in BOOLEAN
  BY DEF Inv, HostInv
<1>13. /\ StoreStep(db, db') /\ Advances(db, db', {}, {a}) /\ Slots(db', launched', slots')
       /\ Launched(db', launched')
       /\ phase' = "open" /\ scanned' => Covered(db', slots')
  BY <1>5, <1>6, <1>8, <1>9, <1>10 DEF r
<1> QED BY <1>11, <1>12, <1>13, OwnerStep

\* Its delivery closed, the Action is settled and the slot kept.
LEMMA CloseBash ==
  ASSUME Inv, NEW slot \in slots, slot.kind = "bash", slot.stage = "running",
         NEW code \in ActionResolutions \ {"none"}, db' = SettleAction(db, slot.id, code),
         Move(slot, "closed"), phase' = phase, scanned' = scanned, work' = work, launched' = launched
  PROVE  GoodStep
<1> DEFINE a == slot.id
           r == SettleAction(db, a, code)
           x == [slot EXCEPT !.stage = "closed"]
           T == slots \ {slot}
<1>0. Tables(db) /\ TurnRules(db) /\ slot \in SlotRows
  BY DEF Inv, HostInv, Slots, Fits
<1>1. a \in Actions(db) /\ Unresolved(db.actions[a]) /\ db.actions[a].attempted
  BY DEF Inv, HostInv, Slots, Fits, BashFits
<1>2. Settles(db, r, {}, {a}) /\ ~Unresolved(r.actions[a])
  BY <1>0, <1>1, SettleActionKeeps, SettledActionIsResolved
<1>3. ArchiveRule(db, r)
  BY <1>0, SilentActions, SilentRule DEF Tables
<1>4. x \in SlotRows /\ x.kind = "bash" /\ x.id = a /\ x.stage = "closed"
  BY <1>0, MovedSlot
<1>5. slots' = T \cup {x}
  BY DEF Move
<1> HIDE DEF r, x
<1>6. ~IsCore(db.actions[a].tool)
  BY <1>0, <1>1 DEF TurnRules, ToolRules
<1>7. StoreStep(db, r)
  BY <1>1, <1>2, <1>3, <1>6, SettlesIsStep
<1>8. Advances(db, r, {}, {a})
  BY <1>2 DEF Settles
<1>9. /\ T \subseteq slots /\ Cardinality(T) < Capacity
      /\ \A y \in T : y.kind = "bash" => y.id # a
  BY SlotsWithout DEF Inv, HostInv
<1> HIDE DEF T
<1>10. Slots(r, launched, T)
  BY <1>8, <1>9, SlotsKept DEF Inv, HostInv
<1>11. Fits(r, launched, x)
  BY <1>1, <1>2, <1>4, <1>8 DEF Fits, BashFits, Advances, ActionsKept
<1>12. Slots(r, launched, T \cup {x})
  BY <1>4, <1>9, <1>10, <1>11, SlotsWith
<1>13. Launched(r, launched)
  BY <1>8, LaunchedKept DEF Inv, HostInv
<1>14. phase' = "open" /\ scanned' => Covered(r, slots')
  BY <1>2, <1>5, <1>8, CoveredKept DEF Inv, HostInv, T
<1>15. LaunchRule
  BY <1>4, <1>5 DEF LaunchRule, T
<1>16. phase' \in {"open", "fenced", "stopping"} /\ scanned' \in BOOLEAN
  BY DEF Inv, HostInv
<1>17. /\ StoreStep(db, db') /\ Advances(db, db', {}, {a}) /\ Slots(db', launched', slots')
       /\ Launched(db', launched')
       /\ phase' = "open" /\ scanned' => Covered(db', slots')
  BY <1>5, <1>7, <1>8, <1>12, <1>13, <1>14 DEF r
<1> QED BY <1>15, <1>16, <1>17, OwnerStep

\* A slot is dropped where nothing waits for it: no unresolved Attempt of an open
\* Host's Action.
LEMMA DropSlots ==
  ASSUME Inv, db' = db, slots' \subseteq slots, launched' = launched,
         phase' \in {"open", "fenced", "stopping"}, scanned' \in BOOLEAN,
         work' = work \/ work' = NoWork,
         phase' = "open" /\ scanned' => /\ phase = "open" /\ scanned
                                        /\ \A slot \in slots \ slots' : slot.kind = "bash" => slot.stage = "closed"
  PROVE  GoodStep
<1>0. Tables(db) /\ TurnRules(db)
  BY DEF Inv
<1>1. StoreStep(db, db') /\ Advances(db, db', {}, {})
  BY <1>0, IdleStore DEF Settles
<1>2. Slots(db', launched', slots')
  <2>1. Slots(db, launched, slots) /\ Advances(db, db, {}, {})
    BY <1>1 DEF Inv, HostInv
  <2> QED BY <2>1, SlotsKept
<1>3. Launched(db', launched')
  BY DEF Inv, HostInv
<1>4. phase' = "open" /\ scanned' => Covered(db', slots')
  BY DEF Inv, HostInv, Covered
<1>5. LaunchRule
  BY DEF LaunchRule
<1> QED BY <1>1, <1>2, <1>3, <1>4, <1>5, OwnerStep

-----------------------------------------------------------------------------
(* Model Attempts *)

\* An admission takes Messages and starts an Operation; nothing else moves.
LEMMA AdmitModelStep ==
  ASSUME NEW d, Tables(d), TurnRules(d), NEW s, MayGoOn(d, s),
         NEW purpose \in {"assistant", "compaction"}
  PROVE  LET r == AdmitModel(d, s, purpose)
             o == Len(d.operations) + 1
         IN  /\ StoreStep(d, r) /\ Advances(d, r, {}, {})
             /\ o \in Operations(r) /\ o \notin Operations(d) /\ r.operations[o].ordinal = 1
             /\ r.operations[o].resolution = "none" /\ ~r.operations[o].waiting
<1> DEFINE r == AdmitModel(d, s, purpose)
           o == Len(d.operations) + 1
<1>1. /\ Tables(r) /\ TurnRules(r) /\ Advances(d, r, {}, {}) /\ StopsRespected(d, r)
      /\ o \in Operations(r) /\ o \notin Operations(d) /\ Messages(r) = Messages(d)
      /\ r.operations[o].ordinal = 1 /\ r.operations[o].resolution = "none"
      /\ ~r.operations[o].waiting /\ r.archive = d.archive
  BY AdmitModelKeeps
<1> HIDE DEF r
<1>2. Advances(d, r, Operations(d), Actions(d))
  BY <1>1 DEF Advances, OperationsKept, ActionsKept
<1>3. ArchiveRule(d, r)
  BY <1>1, ArchivingIsArchived DEF ArchiveRule, Archived
<1>4. CoreRule(d, r)
  BY <1>1 DEF Advances, ActionsKept, CoreRule, Unresolved
<1>5. StoreStep(d, r)
  BY <1>1, <1>2, <1>3, <1>4 DEF StoreStep
<1> QED BY <1>1, <1>5 DEF r

\* A model slot whose binding is current runs an unresolved Operation.
LEMMA StandingIs ==
  ASSUME Inv, NEW slot \in slots, slot.kind = "model"
  PROVE  LET standing == AttemptStanding(db, slot.id, slot.ordinal)
         IN  /\ slot \in SlotRows /\ slot.id \in Operations(db)
             /\ db.operations[slot.id].ordinal = slot.ordinal
             /\ standing \in {"current", "superseded"}
             /\ standing = "current" =>
                  Unresolved(db.operations[slot.id]) /\ ~db.operations[slot.id].waiting
<1>1. /\ slot \in SlotRows /\ ModelFits(db, slot)
  BY DEF Inv, HostInv, Slots, Fits
<1> QED BY <1>1 DEF ModelFits, AttemptStanding, Unresolved

\* admitNewModel and admitToolContinuation.
LEMMA AdmitNewStep ==
  ASSUME Inv, AdmitNew
  PROVE  GoodStep
<1>0. Tables(db) /\ TurnRules(db)
  BY DEF Inv
<1>1. PICK s \in MessageSelection(db) \cup ContinuationSelection(db) :
        \E purpose \in Purposes(db, s) :
          /\ db' = AdmitModel(db, s, purpose)
          /\ Occupy([kind |-> "model", id |-> Len(db.operations) + 1, ordinal |-> 1, stage |-> "preparing"])
  BY DEF AdmitNew
<1>2. PICK purpose \in Purposes(db, s) :
          /\ db' = AdmitModel(db, s, purpose)
          /\ Occupy([kind |-> "model", id |-> Len(db.operations) + 1, ordinal |-> 1, stage |-> "preparing"])
  BY <1>1
<1> DEFINE o == Len(db.operations) + 1
           x == [kind |-> "model", id |-> o, ordinal |-> 1, stage |-> "preparing"]
           r == AdmitModel(db, s, purpose)
<1>3. MayGoOn(db, s) /\ purpose \in {"assistant", "compaction"}
  BY <1>0, SelectedMayGoOn, PurposesAre
<1>4. /\ StoreStep(db, r) /\ Advances(db, r, {}, {})
      /\ o \in Operations(r) /\ o \notin Operations(db) /\ r.operations[o].ordinal = 1
      /\ r.operations[o].resolution = "none" /\ ~r.operations[o].waiting
  BY <1>0, <1>3, AdmitModelStep
<1>5. /\ db' = r /\ slots' = slots \cup {x} /\ phase' = phase /\ scanned' = scanned
      /\ work' = work /\ launched' = launched /\ Cardinality(slots) < Capacity
  BY <1>2 DEF AdmitNew, MayAdmit, Occupy
<1>6. o \in Nat
  BY <1>0, References
<1> HIDE DEF r
<1>7. Fits(r, launched, x) /\ x.kind = "model" /\ x.id = o
  BY <1>4, <1>6 DEF Fits, SlotRows, ModelFits
<1>8. \A y \in slots : y.kind = "model" => y.id # o
  BY <1>4 DEF Inv, HostInv, Slots, Fits, ModelFits
<1> HIDE DEF x, o
<1> QED BY <1>4, <1>5, <1>7, <1>8, OccupyModel

\* tryAdmitNextModelRetry: the Operation of a retry is in no slot.
LEMMA AdmitRetryStep ==
  ASSUME Inv, AdmitRetryAttempt
  PROVE  GoodStep
<1>0. Tables(db) /\ TurnRules(db)
  BY DEF Inv
<1>1. PICK o \in RetrySelection(db, ActiveOperations) :
         db' = AdmitRetry(db, o) /\ Occupy([Model(o, "preparing") EXCEPT !.ordinal = @ + 1])
  BY DEF AdmitRetryAttempt
<1> DEFINE x == [kind |-> "model", id |-> o, ordinal |-> db.operations[o].ordinal + 1, stage |-> "preparing"]
           r == AdmitRetry(db, o)
<1>2. /\ o \in Operations(db) /\ o \notin ActiveOperations /\ Unresolved(db.operations[o])
      /\ db.operations[o].ordinal < MaxAttempts
  BY DEF RetrySelection
<1>3. Settles(db, r, {o}, {})
  BY <1>0, <1>2, AttemptsKeep
<1>4. /\ r.operations[o].ordinal = db.operations[o].ordinal + 1
      /\ r.operations[o].resolution = db.operations[o].resolution /\ ~r.operations[o].waiting
  BY <1>0, <1>2, AttemptsAdvance
<1>5. ArchiveRule(db, r)
  BY <1>0, SilentWrites, SilentRule DEF Tables
<1>6. [Model(o, "preparing") EXCEPT !.ordinal = @ + 1] = x
  BY DEF Model
<1>7. /\ db' = r /\ slots' = slots \cup {x} /\ phase' = phase /\ scanned' = scanned
      /\ work' = work /\ launched' = launched /\ Cardinality(slots) < Capacity
  BY <1>1, <1>6 DEF AdmitRetryAttempt, MayAdmit, Occupy
<1> HIDE DEF r
<1>8. StoreStep(db, r) /\ Advances(db, r, {o}, {}) /\ o \in Operations(r)
  <2>1. StoreStep(db, r)
    BY <1>2, <1>3, <1>5, SettlesIsStep
  <2> QED BY <1>2, <1>3, <2>1 DEF Settles, Advances, OperationsKept
<1>9. o \in Nat /\ db.operations[o].ordinal \in Nat
  <2>1. db.operations[o] \in OperationRow(db) /\ o \in 1..Len(db.operations)
    BY <1>0, <1>2, Columns, References
  <2> QED BY <2>1 DEF OperationRow
<1>10. Fits(r, launched, x) /\ x.kind = "model" /\ x.id = o
  BY <1>2, <1>4, <1>8, <1>9 DEF Fits, SlotRows, ModelFits, Unresolved
<1>11. \A y \in slots : y.kind = "model" => y.id # o
  BY <1>2 DEF ActiveOperations
<1> HIDE DEF x
<1> QED BY <1>7, <1>8, <1>10, <1>11, OccupyModel

\* recoverOneExhaustedModelAttempt: no slot holds what it settles.
LEMMA RecoverExhaustedStep ==
  ASSUME Inv, RecoverExhaustedRetry
  PROVE  GoodStep
<1>0. Tables(db) /\ TurnRules(db)
  BY DEF Inv
<1>1. PICK o \in ExhaustedSelection(db, ActiveOperations) : db' = RecoverExhausted(db, o)
  BY DEF RecoverExhaustedRetry
<1> DEFINE r == RecoverExhausted(db, o)
<1>2. o \in Operations(db) /\ o \notin ActiveOperations /\ Unresolved(db.operations[o])
  BY DEF ExhaustedSelection
<1>3. Settles(db, r, {o}, {})
  BY <1>0, <1>2, SettleFailureKeeps
<1>4. ArchiveRule(db, r)
  <2>1. Silent(db, r)
    BY <1>0, <1>2, SilentModels DEF TurnRules
  <2> QED BY <1>0, <2>1, SilentRule
<1>5. /\ db' = r /\ slots' = slots /\ phase' = phase /\ scanned' = scanned
      /\ work' = work /\ launched' = launched
  BY <1>1 DEF RecoverExhaustedRetry, host
<1> HIDE DEF r
<1>6. StoreStep(db, r) /\ Advances(db, r, {o}, {})
  <2>1. StoreStep(db, r)
    BY <1>2, <1>3, <1>4, SettlesIsStep
  <2> QED BY <1>3, <2>1 DEF Settles
<1>7. \A y \in slots : y.kind = "model" => y.id # o
  BY <1>2 DEF ActiveOperations
<1>8. Slots(r, launched, slots)
  BY <1>6, <1>7, SlotsKept DEF Inv, HostInv
<1>9. Launched(r, launched)
  BY <1>6, LaunchedKept DEF Inv, HostInv
<1>10. phase = "open" /\ scanned => Covered(r, slots)
  BY <1>6, CoveredKept DEF Inv, HostInv
<1>11. LaunchRule
  BY <1>5 DEF LaunchRule
<1>12. /\ StoreStep(db, db') /\ Advances(db, db', {o}, {}) /\ Slots(db', launched', slots')
       /\ Launched(db', launched') /\ phase' \in {"open", "fenced", "stopping"} /\ scanned' \in BOOLEAN
       /\ phase' = "open" /\ scanned' => Covered(db', slots')
  BY <1>5, <1>6, <1>8, <1>9, <1>10 DEF Inv, HostInv
<1> QED BY <1>5, <1>11, <1>12, OwnerStep

\* Every way a model slot reports a result.
LEMMA ReportStep ==
  ASSUME Inv, NEW slot \in slots, slot.kind = "model", NEW after, Report(slot, after),
         Unresolved(db.operations[slot.id]) =>
           Settles(db, after, {slot.id}, {}) /\ ArchiveRule(db, after)
  PROVE  GoodStep
<1>0. Tables(db) /\ TurnRules(db)
  BY DEF Inv
<1>1. /\ slots' = slots \ {slot} /\ phase' = phase /\ scanned' = scanned /\ work' = work
      /\ launched' = launched
      /\ db' = IF AttemptStanding(db, slot.id, slot.ordinal) = "current" THEN after ELSE db
  BY DEF Report, Free, Rest
<1>2. CASE AttemptStanding(db, slot.id, slot.ordinal) = "current"
  <2>1. Unresolved(db.operations[slot.id])
    BY <1>2, StandingIs
  <2> QED BY <1>1, <1>2, <2>1, FreeModel
<1>3. CASE AttemptStanding(db, slot.id, slot.ordinal) # "current"
  <2>1. Settles(db, db, {slot.id}, {}) /\ ArchiveRule(db, db)
    BY <1>0, IdleStore, SettlesSelf
  <2> QED BY <1>1, <1>3, <2>1, FreeModel
<1> QED BY <1>2, <1>3

\* A model slot's stage changes and the Store is as it was.
LEMMA StageStep ==
  ASSUME Inv, NEW slot \in slots, slot.kind = "model",
         NEW stage \in {"preparing", "running", "refreshing", "closed"}, Move(slot, stage),
         NEW r, Settles(db, r, {slot.id}, {}), ArchiveRule(db, r), db' = r, ModelFits(r, slot),
         phase' = phase, scanned' = scanned, work' = work, launched' = launched
  PROVE  GoodStep
<1> DEFINE x == [slot EXCEPT !.stage = stage]
<1>1. slot \in SlotRows
  BY StandingIs
<1>2. /\ x \in SlotRows /\ x.kind = slot.kind /\ x.id = slot.id /\ x.ordinal = slot.ordinal
      /\ x.stage = stage
  BY <1>1, MovedSlot
<1>3. slots' = (slots \ {slot}) \cup {x}
  BY DEF Move
<1> HIDE DEF x
<1>4. Fits(r, launched, x)
  BY <1>2 DEF Fits, ModelFits
<1> QED BY <1>2, <1>3, <1>4, MoveModel

\* The steps of a model slot.
LEMMA ModelSteps ==
  ASSUME Inv, NEW slot \in slots, ModelStep(slot)
  PROVE  GoodStep
<1>0. Tables(db) /\ TurnRules(db)
  BY DEF Inv
<1>1. Settles(db, db, {slot.id}, {}) /\ ArchiveRule(db, db)
  BY <1>0, IdleStore, SettlesSelf
<1>2. CASE LaunchRequest(slot)
  <2>1. /\ slot.kind = "model" /\ db' = db /\ phase' = phase /\ scanned' = scanned /\ work' = work
        /\ launched' = launched
        /\ Move(slot, "running") \/ slots' = slots \ {slot}
    BY <1>2 DEF LaunchRequest, Rest, Free
  <2>2. CASE Move(slot, "running")
    <3>1. ModelFits(db, slot)
      BY <2>1 DEF Inv, HostInv, Slots, Fits
    <3> QED BY <1>1, <2>1, <2>2, <3>1, StageStep
  <2>3. CASE slots' = slots \ {slot}
    BY <1>1, <2>1, <2>3, FreeModel
  <2> QED BY <2>1, <2>2, <2>3
<1>3. CASE CompleteTransfer(slot)
  <2>1. PICK calls \in Proposals :
          /\ calls = <<>> \/ db.operations[slot.id].purpose = "assistant"
          /\ Report(slot, SettleSuccess(db, slot.id, calls))
    BY <1>3 DEF CompleteTransfer
  <2>2. slot.kind = "model" /\ slot.id \in Operations(db)
    BY <1>3, StandingIs DEF CompleteTransfer
  <2>3. calls \in Seq(Calls)
    BY ProposalsAssumption DEF Calls
  <2>4. Unresolved(db.operations[slot.id]) => Settles(db, SettleSuccess(db, slot.id, calls), {slot.id}, {})
    BY <1>0, <2>1, <2>2, <2>3, SettleSuccessKeeps
  <2>5. Silent(db, SettleSuccess(db, slot.id, calls))
    BY <1>0, <2>2, <2>3, SilentModels DEF TurnRules
  <2>6. ArchiveRule(db, SettleSuccess(db, slot.id, calls))
    BY <1>0, <2>5, SilentRule
  <2> QED BY <2>1, <2>2, <2>4, <2>6, ReportStep
<1>4. ASSUME NEW failure \in Failures, slot.kind = "model", Report(slot, SettleFailure(db, slot.id, failure))
      PROVE  GoodStep
  <2>1. slot.id \in Operations(db)
    BY <1>4, StandingIs
  <2>2. Unresolved(db.operations[slot.id]) => Settles(db, SettleFailure(db, slot.id, failure), {slot.id}, {})
    BY <1>0, <2>1, SettleFailureKeeps
  <2>3. Silent(db, SettleFailure(db, slot.id, failure))
    BY <1>0, <2>1, SilentModels DEF TurnRules
  <2>4. ArchiveRule(db, SettleFailure(db, slot.id, failure))
    BY <1>0, <2>3, SilentRule
  <2> QED BY <1>4, <2>2, <2>4, ReportStep
<1>5. CASE FailAttempt(slot)
  <2>1. PICK failure \in Failures \ {"refreshed"} : Report(slot, SettleFailure(db, slot.id, failure))
    BY <1>5 DEF FailAttempt
  <2> QED BY <1>4, <1>5, <2>1 DEF FailAttempt
<1>6. CASE AdvanceRefresh(slot)
  <2>1. PICK failure \in {"refreshed", "ordinary"} : Report(slot, SettleFailure(db, slot.id, failure))
    BY <1>6 DEF AdvanceRefresh
  <2>2. failure \in Failures
    BY DEF Failures
  <2> QED BY <1>4, <1>6, <2>1, <2>2 DEF AdvanceRefresh
<1>7. CASE BeginForcedRefresh(slot)
  <2>1. /\ slot.kind = "model" /\ phase' = phase /\ scanned' = scanned /\ work' = work
        /\ launched' = launched
    BY <1>7 DEF BeginForcedRefresh, Rest
  <2>2. CASE db' = db /\ Free(slot)
    BY <1>1, <2>1, <2>2, FreeModel DEF Free
  <2>3. CASE /\ AttemptStanding(db, slot.id, slot.ordinal) = "current"
             /\ db' = ClaimAuthRefresh(db, slot.id) /\ Move(slot, "refreshing")
    <3> DEFINE r == ClaimAuthRefresh(db, slot.id)
    <3>1. /\ slot.id \in Operations(db) /\ db.operations[slot.id].ordinal = slot.ordinal
          /\ Unresolved(db.operations[slot.id]) /\ ~db.operations[slot.id].waiting
      BY <2>1, <2>3, StandingIs
    <3>2. Settles(db, r, {slot.id}, {})
      BY <1>0, <3>1, AttemptsKeep
    <3>3. ArchiveRule(db, r)
      BY <1>0, SilentWrites, SilentRule DEF Tables
    <3>4. /\ r.operations[slot.id].ordinal = db.operations[slot.id].ordinal
          /\ r.operations[slot.id].resolution = db.operations[slot.id].resolution
          /\ r.operations[slot.id].waiting = db.operations[slot.id].waiting
      BY <1>0, <3>1, AttemptsAdvance
    <3> HIDE DEF r
    <3>5. slot.id \in Operations(r)
      BY <3>1, <3>2 DEF Settles, Advances, OperationsKept
    <3>6. ModelFits(r, slot)
      BY <3>1, <3>4, <3>5 DEF ModelFits, Unresolved
    <3>7. db' = r /\ Move(slot, "refreshing")
      BY <2>3 DEF r
    <3> QED BY <2>1, <3>2, <3>3, <3>6, <3>7, StageStep
  <2> QED BY <1>7, <2>2, <2>3 DEF BeginForcedRefresh
<1>8. CASE CancelSuperseded(slot)
  BY <1>1, <1>8, FreeModel DEF CancelSuperseded, Rest, Free
<1> QED BY <1>2, <1>3, <1>5, <1>6, <1>7, <1>8 DEF ModelStep

-----------------------------------------------------------------------------
(* Bash Attempts *)

\* A Bash slot that was not closed holds an unresolved Attempt.
LEMMA BashHolds ==
  ASSUME Inv, NEW slot \in slots, slot.kind = "bash"
  PROVE  /\ slot \in SlotRows /\ slot.id \in Actions(db) /\ db.actions[slot.id].attempted
         /\ slot.stage = "closed" <=> ~Unresolved(db.actions[slot.id])
         /\ slot.stage = "preparing" => slot.id \notin launched
BY DEF Inv, HostInv, Slots, Fits, BashFits

\* recoverOneUncertainAction: no slot holds what it settles; a scan that finds
\* nothing shows that every unresolved Attempt is in a slot.
LEMMA RecoverUncertainStep ==
  ASSUME Inv, RecoverUncertainAction
  PROVE  GoodStep
<1> DEFINE U == {a \in Actions(db) \ ActiveActions : Unresolved(db.actions[a]) /\ db.actions[a].attempted}
<1>0. Tables(db) /\ TurnRules(db) /\ UncertainSelection(db, ActiveActions) = Oldest(U)
  BY DEF Inv, UncertainSelection
<1>1. /\ slots' = slots /\ phase' = phase /\ work' = work /\ launched' = launched /\ ~scanned
  BY DEF RecoverUncertainAction
<1>2. LaunchRule
  BY <1>1 DEF LaunchRule
<1>3. CASE UncertainSelection(db, ActiveActions) = {} /\ scanned' = TRUE /\ db' = db
  <2>1. U = {}
    <3> SUFFICES ASSUME U # {} PROVE FALSE
      OBVIOUS
    <3>1. U \subseteq Nat
      BY <1>0, References
    <3> HIDE DEF U
    <3>2. Min(U) \in U /\ \A y \in U : Min(U) <= y
      BY <3>1, MinIsLeast
    <3> QED BY <1>0, <1>3, <3>2 DEF Oldest
  <2>2. Covered(db, slots)
    <3> SUFFICES ASSUME NEW a \in Actions(db), db.actions[a].attempted, Unresolved(db.actions[a])
                 PROVE  \E slot \in slots : slot.kind = "bash" /\ slot.id = a /\ slot.stage # "closed"
      BY DEF Covered
    <3>1. PICK slot \in slots : slot.kind = "bash" /\ slot.id = a
      BY <2>1 DEF ActiveActions
    <3>2. slot.stage # "closed"
      BY <3>1, BashHolds
    <3> QED BY <3>1, <3>2
  <2>3. StoreStep(db, db') /\ Advances(db, db', {}, {})
    BY <1>0, <1>3, IdleStore DEF Settles
  <2>4. /\ Slots(db', launched', slots') /\ Launched(db', launched')
        /\ phase' \in {"open", "fenced", "stopping"} /\ scanned' \in BOOLEAN
        /\ phase' = "open" /\ scanned' => Covered(db', slots')
    BY <1>1, <1>3, <2>2 DEF Inv, HostInv
  <2> QED BY <1>1, <1>2, <2>3, <2>4, OwnerStep
<1>4. CASE scanned' = scanned /\ \E a \in UncertainSelection(db, ActiveActions) : db' = RecoverUncertain(db, a)
  <2>1. PICK a \in UncertainSelection(db, ActiveActions) : db' = RecoverUncertain(db, a)
    BY <1>4
  <2> DEFINE r == RecoverUncertain(db, a)
  <2>2. a \in Actions(db) /\ a \notin ActiveActions /\ Unresolved(db.actions[a]) /\ db.actions[a].attempted
    BY <1>0 DEF Oldest
  <2>3. Settles(db, r, {}, {a})
    BY <1>0, <2>2, SettleActionKeeps
  <2>4. ArchiveRule(db, r)
    BY <1>0, SilentActions, SilentRule DEF Tables
  <2>5. db' = r
    BY <2>1
  <2> HIDE DEF r
  <2>6. ~IsCore(db.actions[a].tool)
    BY <1>0, <2>2 DEF TurnRules, ToolRules
  <2>7. StoreStep(db, r)
    BY <2>2, <2>3, <2>4, <2>6, SettlesIsStep
  <2>8. Advances(db, r, {}, {a})
    BY <2>3 DEF Settles
  <2>9. \A y \in slots : y.kind = "bash" => y.id # a
    BY <2>2 DEF ActiveActions
  <2>10. Slots(r, launched, slots)
    BY <2>8, <2>9, SlotsKept DEF Inv, HostInv
  <2>11. Launched(r, launched)
    BY <2>8, LaunchedKept DEF Inv, HostInv
  <2>12. /\ StoreStep(db, db') /\ Advances(db, db', {}, {a}) /\ Slots(db', launched', slots')
         /\ Launched(db', launched') /\ phase' \in {"open", "fenced", "stopping"} /\ scanned' \in BOOLEAN
         /\ ~scanned'
    BY <1>1, <1>4, <2>5, <2>7, <2>8, <2>10, <2>11 DEF Inv, HostInv
  <2> QED BY <1>1, <1>2, <2>12, OwnerStep
<1> QED BY <1>3, <1>4 DEF RecoverUncertainAction

\* admitNextActionAttempt: a first Attempt, in a slot of its own.
LEMMA AdmitBashStep ==
  ASSUME Inv, AdmitBash
  PROVE  GoodStep
<1>0. Tables(db) /\ TurnRules(db)
  BY DEF Inv
<1>1. PICK a \in BashSelection(db) : db' = AdmitAction(db, a) /\ Occupy(Bash(a, "preparing"))
  BY DEF AdmitBash
<1> DEFINE r == AdmitAction(db, a)
           x == Bash(a, "preparing")
<1>2. /\ a \in Actions(db) /\ db.actions[a].authorized /\ Unresolved(db.actions[a])
      /\ ~db.actions[a].attempted /\ ~IsCore(db.actions[a].tool)
  BY DEF BashSelection, Oldest, ReadyActions
<1>3. Settles(db, r, {}, {a})
  BY <1>0, <1>2, AttemptsKeep
<1>4. r.actions[a].resolution = db.actions[a].resolution /\ r.actions[a].attempted
  BY <1>0, <1>2, ActionAdvances
<1>5. ArchiveRule(db, r)
  BY <1>0, SilentWrites, SilentRule DEF Tables
<1>6. /\ db' = r /\ slots' = slots \cup {x} /\ phase' = phase /\ scanned' = scanned
      /\ work' = work /\ launched' = launched /\ Cardinality(slots) < Capacity
  BY <1>1 DEF AdmitBash, MayAdmit, Occupy
<1> HIDE DEF r
<1>7. StoreStep(db, r)
  BY <1>2, <1>3, <1>5, SettlesIsStep
<1>8. Advances(db, r, {}, {a}) /\ a \in Actions(r) /\ a \in Nat
  BY <1>0, <1>2, <1>3, References DEF Settles, Advances, ActionsKept
<1>9. a \notin launched /\ \A y \in slots : y.kind = "bash" => y.id # a
  BY <1>2, BashHolds DEF Inv, HostInv, Launched
<1>10. Fits(r, launched, x) /\ x.kind = "bash" /\ x.id = a /\ x.stage = "preparing"
  BY <1>2, <1>4, <1>8, <1>9 DEF Fits, SlotRows, BashFits, Unresolved, Bash
<1> HIDE DEF x
<1>11. Slots(r, launched, slots)
  BY <1>8, <1>9, SlotsKept DEF Inv, HostInv
<1>12. Slots(r, launched, slots \cup {x})
  BY <1>6, <1>9, <1>10, <1>11, SlotsWith
<1>13. Launched(r, launched)
  BY <1>8, LaunchedKept DEF Inv, HostInv
<1>14. phase = "open" /\ scanned => Covered(r, slots \cup {x})
  BY <1>8, <1>10, CoveredKept DEF Inv, HostInv
<1>15. LaunchRule
  BY <1>6, <1>10 DEF LaunchRule
<1>16. /\ StoreStep(db, db') /\ Advances(db, db', {}, {a}) /\ Slots(db', launched', slots')
       /\ Launched(db', launched') /\ phase' \in {"open", "fenced", "stopping"} /\ scanned' \in BOOLEAN
       /\ phase' = "open" /\ scanned' => Covered(db', slots')
  BY <1>6, <1>7, <1>8, <1>12, <1>13, <1>14 DEF Inv, HostInv
<1> QED BY <1>6, <1>15, <1>16, OwnerStep

\* launchPreparedBash starts the process: it was never started, and no stop has
\* selected its Turn.
LEMMA StartProcess ==
  ASSUME Inv, NEW slot \in slots, slot.kind = "bash", slot.stage = "preparing",
         ActionStanding(db, slot.id) = "current", Move(slot, "running"),
         launched' = launched \cup {slot.id}, db' = db, phase' = phase, scanned' = scanned, work' = work
  PROVE  GoodStep
<1> DEFINE a == slot.id
           x == [slot EXCEPT !.stage = "running"]
           T == slots \ {slot}
           M == launched \cup {a}
<1>0. Tables(db) /\ TurnRules(db)
  BY DEF Inv
<1>1. /\ slot \in SlotRows /\ a \in Actions(db) /\ db.actions[a].attempted /\ Unresolved(db.actions[a])
      /\ a \notin launched
  BY BashHolds
<1>2. x \in SlotRows /\ x.kind = "bash" /\ x.id = a /\ x.stage = "running"
  BY <1>1, MovedSlot
<1>3. slots' = T \cup {x}
  BY DEF Move
<1> HIDE DEF x
<1>4. /\ T \subseteq slots /\ Cardinality(T) < Capacity
      /\ \A y \in T : y.kind = "bash" => y.id # a
  BY SlotsWithout DEF Inv, HostInv
<1>5. StoreStep(db, db) /\ Advances(db, db, {}, {a})
  BY <1>0, IdleStore, AdvancesSelf
<1> HIDE DEF T
<1>6. Slots(db, M, T)
  BY <1>4, <1>5, SlotsKept DEF Inv, HostInv
<1>7. Fits(db, M, x)
  BY <1>1, <1>2 DEF Fits, BashFits
<1>8. Slots(db, M, T \cup {x})
  BY <1>2, <1>4, <1>6, <1>7, SlotsWith
<1>9. Launched(db, M)
  BY <1>1 DEF Inv, HostInv, Launched
<1>10. phase = "open" /\ scanned => Covered(db, T \cup {x})
  BY <1>2, <1>5, CoveredKept DEF Inv, HostInv, T
<1>11. LaunchRule
  <2>1. IsOpen(db, TurnOfAction(db, a))
    BY <1>0, <1>1 DEF TurnRules, Behind, ActionIsCurrent
  <2>2. ~StopSelected(db, TurnOfAction(db, a))
    BY <1>1 DEF ActionStanding
  <2> QED BY <1>1, <1>2, <1>3, <2>1, <2>2 DEF LaunchRule, T
<1>12. /\ StoreStep(db, db') /\ Advances(db, db', {}, {a}) /\ Slots(db', launched', slots')
       /\ Launched(db', launched') /\ phase' \in {"open", "fenced", "stopping"} /\ scanned' \in BOOLEAN
       /\ phase' = "open" /\ scanned' => Covered(db', slots')
  BY <1>3, <1>5, <1>8, <1>9, <1>10 DEF Inv, HostInv
<1> QED BY <1>11, <1>12, OwnerStep

\* The steps of a Bash slot.
LEMMA BashSteps ==
  ASSUME Inv, NEW slot \in slots, BashStep(slot)
  PROVE  GoodStep
<1>0. /\ slot.kind = "bash" /\ phase' = phase /\ scanned' = scanned /\ work' = work
  BY DEF BashStep, LaunchBash, StopPreparingBash, CompleteBash, ReclaimBash, Rest
<1>1. /\ phase \in {"open", "fenced", "stopping"} /\ scanned \in BOOLEAN
      /\ {"cancelled", "spawn_failed", "succeeded", "failed"} \subseteq ActionResolutions \ {"none"}
  BY DEF Inv, HostInv, ActionResolutions
<1>2. CASE LaunchBash(slot)
  <2>1. slot.stage = "preparing"
    BY <1>2 DEF LaunchBash
  <2>2. CASE /\ ActionStanding(db, slot.id) = "current" /\ Move(slot, "running")
             /\ launched' = launched \cup {slot.id} /\ db' = db
    BY <1>0, <2>1, <2>2, StartProcess
  <2>3. ASSUME NEW code \in {"cancelled", "spawn_failed"}, db' = SettleAction(db, slot.id, code), Free(slot),
               launched' = launched
        PROVE  GoodStep
    BY <1>0, <1>1, <2>1, <2>3, FreeBash DEF Free
  <2>4. CASE phase # "open" /\ Free(slot) /\ db' = db /\ launched' = launched
    BY <1>0, <1>1, <2>4, DropSlots DEF Free
  <2> QED BY <1>2, <2>2, <2>3, <2>4 DEF LaunchBash
<1>3. CASE StopPreparingBash(slot)
  BY <1>0, <1>1, <1>3, FreeBash DEF StopPreparingBash, Free
<1>4. CASE CompleteBash(slot)
  <2>1. PICK code \in {"succeeded", "failed"} : db' = SettleAction(db, slot.id, code)
    BY <1>4 DEF CompleteBash
  <2>2. slot.stage = "running" /\ Move(slot, "closed") /\ launched' = launched
    BY <1>4 DEF CompleteBash
  <2> QED BY <1>0, <1>1, <2>1, <2>2, CloseBash
<1>5. CASE ReclaimBash(slot)
  BY <1>0, <1>1, <1>5, DropSlots DEF ReclaimBash, Free
<1> QED BY <1>2, <1>3, <1>4, <1>5 DEF BashStep

-----------------------------------------------------------------------------
(* The Host fails, stops and starts *)

\* Nothing of it writes the Store; an open Host that had scanned keeps its slots.
LEMMA HostSteps ==
  ASSUME Inv, \/ RetainFence \/ FenceDispatch \/ HostStop \/ ShutDown \/ StartHost \/ Crash
              \/ \E slot \in slots : ShutdownSlot(slot)
  PROVE  GoodStep
<1>0. phase \in {"open", "fenced", "stopping"} /\ scanned \in BOOLEAN
  BY DEF Inv, HostInv
<1>1. CASE RetainFence
  BY <1>0, <1>1, DropSlots DEF RetainFence
<1>2. CASE FenceDispatch
  BY <1>0, <1>2, DropSlots DEF FenceDispatch
<1>3. CASE HostStop
  BY <1>0, <1>3, DropSlots DEF HostStop
<1>4. CASE ShutDown
  BY <1>0, <1>4, DropSlots DEF ShutDown
<1>5. CASE StartHost
  BY <1>5, DropSlots DEF StartHost, Restart
<1>6. CASE Crash
  BY <1>6, DropSlots DEF Crash, Restart
<1>7. ASSUME NEW slot \in slots, ShutdownSlot(slot) PROVE GoodStep
  BY <1>0, <1>7, DropSlots DEF ShutdownSlot, Free, Rest
<1> QED BY <1>1, <1>2, <1>3, <1>4, <1>5, <1>6, <1>7

-----------------------------------------------------------------------------
(* The invariant *)

\* The empty Store keeps every rule.
LEMMA EmptyStoreRules ==
  Tables(EmptyStore(Existing, Parents)) /\ TurnRules(EmptyStore(Existing, Parents))
<1> DEFINE d == EmptyStore(Existing, Parents)
<1>1. /\ IsStore(d) /\ d.sessions = Existing /\ d.parent = Parents /\ d.messages = << >>
      /\ d.turns = << >> /\ d.operations = << >> /\ d.actions = << >> /\ d.commands = {}
      /\ d.stops = {} /\ d.archive = [s \in Sessions |-> NoKey] /\ d.owed = {} /\ d.causes = 0
      /\ d.endings = {} /\ d.forwards = << >>
  BY DEF EmptyStore, IsStore, Fields
<1>2. IsSeq(<< >>) /\ DOMAIN << >> = {}
  BY DEF IsSeq
<1> HIDE DEF d
<1>3. SessionRows(d)
  BY <1>1, ParentsAssumption DEF SessionRows
<1>4. MessageRows(d) /\ TurnRows(d) /\ OperationRows(d) /\ ActionRows(d) /\ ForwardRows(d)
  BY <1>1, <1>2 DEF MessageRows, TurnRows, OperationRows, ActionRows, ForwardRows
<1>5. StopRows(d) /\ EndingRows(d) /\ CommandRows(d) /\ OwedRows(d)
  BY <1>1 DEF StopRows, EndingRows, CommandRows, OwedRows
<1>6. Turns(d) = {} /\ Operations(d) = {} /\ Actions(d) = {}
  BY <1>1, <1>2 DEF Turns, Operations, Actions
<1>7. TurnRules(d)
  BY <1>6 DEF TurnRules, Behind, OperationIsOwn, OneOpenTurn, OperationIsCurrent, ActionIsCurrent,
              ActionWasProposed, ToolRules
<1>8. Tables(d)
  BY <1>1, <1>3, <1>4, <1>5 DEF Tables
<1> QED BY <1>7, <1>8 DEF d

\* The invariant holds at the start.
LEMMA InvInit ==
  ASSUME Init PROVE Inv
<1>1. Tables(db) /\ TurnRules(db)
  BY EmptyStoreRules DEF Init
<1>2. Slots(db, launched, slots)
  BY FS_EmptySet, BoundsAssumption DEF Init, Slots, OneSlotEach
<1>3. Launched(db, launched) /\ Work(db, work)
  BY DEF Init, Launched, Work
<1> QED BY <1>1, <1>2, <1>3 DEF Init, Inv, HostInv

\* Every step of the Host, of its clients and of its failures is a good step.
LEMMA NextGood ==
  ASSUME Inv, [Next]_vars
  PROVE  GoodStep
<1>1. CASE UNCHANGED vars
  BY <1>1, DropSlots DEF vars, Inv, HostInv
<1>2. ASSUME NEW slot \in slots, ModelStep(slot) \/ BashStep(slot) \/ ShutdownSlot(slot) PROVE GoodStep
  BY <1>2, ModelSteps, BashSteps, HostSteps
<1>3. CASE Next
  BY <1>2, <1>3, ClientSteps, CoreSteps, AdmitNewStep, AdmitRetryStep, RecoverExhaustedStep,
     RecoverUncertainStep, AdmitBashStep, HostSteps DEF Next
<1> QED BY <1>1, <1>3

\* The rules of the Store's rows and what the slots hold are kept by every step
\* of every thread, across fences, stops and crashes of the Host.
THEOREM InvHolds == Spec => []Inv
<1>1. Init => Inv
  BY InvInit
<1>2. Inv /\ [Next]_vars => Inv'
  BY NextGood DEF GoodStep
<1> QED BY <1>1, <1>2, PTL DEF Spec

-----------------------------------------------------------------------------
(* The properties *)

\* Every row names rows that exist, the Attempts stay within the allowance and
\* the slots within the capacity, after any sequence of entry points.
THEOREM TypesHold == Spec => []TypeOK
<1>1. Inv => TypeOK
  <2> SUFFICES ASSUME Inv PROVE TypeOK
    OBVIOUS
  <2>1. Tables(db)
    BY DEF Inv
  <2>2. /\ Turns(db) = 1..Len(db.turns) /\ Operations(db) = 1..Len(db.operations)
        /\ Messages(db) = 1..Len(db.messages)
    BY <2>1, References
  <2>3. db.sessions \subseteq Sessions
    BY <2>1 DEF Tables, SessionRows
  <2>4. db.messages \in Seq(MessageRow(db))
    BY <2>1, SeqOfRows DEF Tables, MessageRows
  <2>5. db.turns \in Seq(TurnRow(db))
    BY <2>1, SeqOfRows DEF Tables, TurnRows
  <2>6. db.operations \in Seq(OperationRow(db))
    BY <2>1, SeqOfRows DEF Tables, OperationRows
  <2>7. db.actions \in Seq(ActionRow(db))
    BY <2>1, SeqOfRows DEF Tables, ActionRows
  <2>8. /\ phase \in {"open", "fenced", "stopping"} /\ Cardinality(slots) <= Capacity
        /\ scanned \in BOOLEAN /\ launched \subseteq Actions(db)
    BY DEF Inv, HostInv, Slots, Launched
  <2>9. /\ db.turns \in Seq([session : db.sessions, operation : Operations(db),
                       outcome : {"open", "completed", "cancelled", "failed", "resource_exceeded", "retry_exhausted"},
                       continuation : 0..Len(db.operations), first : Messages(db)])
        /\ db.messages \in Seq([session : db.sessions, key : db.commands, turn : 0..Len(db.turns)])
    BY <2>2, <2>4, <2>5 DEF TurnRow, MessageRow, Outcomes
  <2>10. db.operations \in Seq([turn : Turns(db), purpose : {"assistant", "compaction"},
                            ordinal : 1..MaxAttempts, waiting : BOOLEAN, claimed : BOOLEAN,
                            resolution : {"none", "answer", "tool_proposals", "compacted", "interrupted",
                                          "context_overflow", "failed", "retry_exhausted"}])
    BY <2>2, <2>6 DEF OperationRow, OperationResolutions
  <2>11. db.actions \in Seq([operation : Operations(db), tool : Tools, authorized : BOOLEAN, attempted : BOOLEAN,
                         resolution : {"none", "cancelled", "denied", "succeeded", "failed",
                                       "spawn_failed", "indeterminate"}])
    BY <2>2, <2>7 DEF ActionRow, ActionResolutions
  <2> QED BY <2>3, <2>8, <2>9, <2>10, <2>11 DEF TypeOK
<1> QED BY <1>1, InvHolds, PTL

\* One open Turn per Session, and nothing runs or waits behind a Turn that closed
\* or moved on.
THEOREM NothingIsLeftBehind == Spec => []NothingLeftBehind
<1>1. Inv => NothingLeftBehind
  <2> SUFFICES ASSUME Inv PROVE NothingLeftBehind
    OBVIOUS
  <2>1. Behind(db)
    BY DEF Inv, TurnRules
  <2>2. ASSUME NEW s \in Sessions PROVE Cardinality(OpenTurns(db, s)) <= 1
    <3>1. CASE OpenTurns(db, s) = {}
      BY <3>1, FS_EmptySet
    <3>2. CASE OpenTurns(db, s) # {}
      <4>1. PICK t : t \in OpenTurns(db, s)
        BY <3>2
      <4>2. OpenTurns(db, s) = {t}
        BY <2>1, <4>1 DEF OpenTurns, Behind, OneOpenTurn
      <4>3. Cardinality({t}) = 1
        BY FS_Singleton
      <4> QED BY <4>2, <4>3
    <3> QED BY <3>1, <3>2
  <2>3. \A o \in Operations(db) : Unresolved(db.operations[o]) =>
          IsOpen(db, TurnOfOperation(db, o)) /\ db.turns[TurnOfOperation(db, o)].operation = o
    BY <2>1 DEF Behind, OperationIsCurrent, TurnOfOperation
  <2>4. \A a \in Actions(db) : Unresolved(db.actions[a]) =>
          /\ IsOpen(db, TurnOfAction(db, a))
          /\ db.turns[TurnOfAction(db, a)].operation = db.actions[a].operation
    BY <2>1 DEF Behind, ActionIsCurrent
  <2> QED BY <2>2, <2>3, <2>4 DEF NothingLeftBehind
<1> QED BY <1>1, InvHolds, PTL

\* The stored continuation selection trusts is the predicate it stands for.
THEOREM ContinuationAgrees == Spec => []StoredContinuationAgrees
<1>1. Inv => StoredContinuationAgrees
  BY DEF Inv, TurnRules, TurnRule, Agrees, StoredContinuationAgrees
<1> QED BY <1>1, InvHolds, PTL

\* Every open Turn has something that moves it on.
THEOREM NoTurnIsStuck == Spec => []NoStuckTurn
<1>1. Inv => NoStuckTurn
  <2> SUFFICES ASSUME Inv, NEW t \in Turns(db), IsOpen(db, t)
               PROVE LET o       == db.turns[t].operation
                         waiting == {a \in ActionsOf(db, o) : Unresolved(db.actions[a])}
                         flying  == {a \in waiting : db.actions[a].attempted}
                     IN  IF StopSelected(db, t) THEN flying # {}
                         ELSE \/ Unresolved(db.operations[o]) \/ waiting # {}
                              \/ db.turns[t].continuation = o
                              \/ ContinuesWithInput(db, o) /\ QueuedIn(db, SessionOfTurn(db, t)) # {}
    BY DEF NoStuckTurn
  <2> DEFINE o == db.turns[t].operation
  <2>1. Agrees(db, t) /\ StoppedWaits(db, t) /\ GoesOn(db, t)
    BY DEF Inv, TurnRules, TurnRule
  <2>2. CASE StopSelected(db, t)
    BY <2>1, <2>2 DEF StoppedWaits, Waiting
  <2>3. CASE ~StopSelected(db, t)
    <3>1. CASE db.operations[o].resolution = "none"
      BY <2>3, <3>1 DEF Unresolved
    <3>2. CASE db.operations[o].resolution \in {"answer", "compacted", "context_overflow"}
      BY <2>1, <2>3, <3>2 DEF Agrees, ContinuesWithoutInput
    <3>3. CASE db.operations[o].resolution = "tool_proposals"
      <4>1. Waiting(db, t) # {} \/ CompleteToolResults(db, o)
        BY <3>3 DEF Waiting, CompleteToolResults
      <4> QED BY <2>1, <2>3, <4>1 DEF Agrees, ContinuesWithoutInput, Waiting
    <3>4. CASE db.operations[o].resolution = "interrupted" /\ QueuedIn(db, db.turns[t].session) # {}
      BY <2>3, <3>4 DEF ContinuesWithInput, SessionOfTurn
    <3> QED BY <2>1, <2>3, <3>1, <3>2, <3>3, <3>4 DEF GoesOn
  <2> QED BY <2>2, <2>3
<1> QED BY <1>1, InvHolds, PTL

\* No slot holds a stale binding, waits for its retry or shares its Attempt.
THEOREM NoSlotIsStale == Spec => []NoStaleSlot
<1>1. Inv => NoStaleSlot
  <2> SUFFICES ASSUME Inv PROVE NoStaleSlot
    OBVIOUS
  <2>1. ASSUME NEW slot \in slots, slot.kind = "model"
        PROVE  LET standing == AttemptStanding(db, slot.id, slot.ordinal)
               IN  standing # "stale" /\ (standing = "current" => ~db.operations[slot.id].waiting)
    BY <2>1, StandingIs
  <2>2. ASSUME NEW slot \in slots, slot.kind = "bash", slot.stage # "closed"
        PROVE  ActionStanding(db, slot.id) # "stale"
    BY <2>2, BashHolds DEF ActionStanding
  <2>3. OneSlotEach(slots)
    BY DEF Inv, HostInv, Slots
  <2> QED BY <2>1, <2>2, <2>3 DEF NoStaleSlot, OneSlotEach
<1> QED BY <1>1, InvHolds, PTL

\* Once an open Host's scan found nothing, every unresolved Attempt is in a slot.
THEOREM ScanStrandsNone == Spec => []UncertainOnlyFromEarlierHost
<1>1. Inv => UncertainOnlyFromEarlierHost
  BY DEF Inv, HostInv, Covered, UncertainOnlyFromEarlierHost
<1> QED BY <1>1, InvHolds, PTL

\* A command's process is started at most once, never for a Turn that a stop
\* selected or that closed.
THEOREM ProcessStartsOnce == Spec => BashRunsOnce
<1>1. Inv /\ [Next]_vars =>
        [\A slot \in slots' \ slots : slot.kind = "bash" /\ slot.stage = "running" =>
           /\ slot.id \notin launched
           /\ IsOpen(db, TurnOfAction(db, slot.id)) /\ ~StopSelected(db, TurnOfAction(db, slot.id))]_vars
  BY NextGood DEF GoodStep, LaunchRule
<1> QED BY <1>1, InvHolds, PTL DEF Spec, BashRunsOnce

\* What is settled stays so.
THEOREM SettledStays == Spec => SettledIsFinal
<1>1. Inv /\ [Next]_vars =>
        [/\ \A o \in Operations(db) : ~Unresolved(db.operations[o]) =>
              db'.operations[o].resolution = db.operations[o].resolution
         /\ \A a \in Actions(db) : ~Unresolved(db.actions[a]) =>
              db'.actions[a].resolution = db.actions[a].resolution
         /\ \A t \in Turns(db) : ~IsOpen(db, t) => db'.turns[t] = db.turns[t]
         /\ \A m \in Messages(db) : db.messages[m].turn # 0 => db'.messages[m] = db.messages[m]
         /\ \A e \in db.endings : e.delivered => e \in db'.endings]_vars
  <2> SUFFICES ASSUME Inv, [Next]_vars
               PROVE  /\ \A o \in Operations(db) : ~Unresolved(db.operations[o]) =>
                           db'.operations[o].resolution = db.operations[o].resolution
                      /\ \A a \in Actions(db) : ~Unresolved(db.actions[a]) =>
                           db'.actions[a].resolution = db.actions[a].resolution
                      /\ \A t \in Turns(db) : ~IsOpen(db, t) => db'.turns[t] = db.turns[t]
                      /\ \A m \in Messages(db) : db.messages[m].turn # 0 => db'.messages[m] = db.messages[m]
                      /\ \A e \in db.endings : e.delivered => e \in db'.endings
    OBVIOUS
  <2>1. Advances(db, db', Operations(db), Actions(db))
    BY NextGood DEF GoodStep, StoreStep
  <2> QED BY <2>1 DEF Advances, OperationsKept, ActionsKept, TurnsKept, MessagesKept, EndingsKept
<1> QED BY <1>1, InvHolds, PTL DEF Spec, SettledIsFinal

\* A stop is not undone.
THEOREM StopStays == Spec => StopIsFinal
<1>1. Inv /\ [Next]_vars =>
        [/\ \A m \in Messages(db) : db.messages[m].turn = 0 /\ ~Queued(db, m) =>
              db'.messages[m].turn = 0
         /\ \A t \in Turns(db) : StopSelected(db, t) =>
              /\ db'.turns[t].operation = db.turns[t].operation
              /\ \A m \in Messages(db) : db'.messages[m].turn = t => db.messages[m].turn = t]_vars
  BY NextGood DEF GoodStep, StoreStep, StopsRespected
<1> QED BY <1>1, InvHolds, PTL DEF Spec, StopIsFinal

\* A Session that is being archived takes no Message and is not restored; one
\* that took a Message is not archived.
THEOREM NothingEntersAnArchive == Spec => ArchivingAdmitsNothing
<1>1. Inv /\ [Next]_vars =>
        [\A s \in db.sessions :
           LET grew == \E m \in Messages(db') \ Messages(db) : db'.messages[m].session = s
           IN  /\ Archiving(db, s) => ~grew /\ db'.archive[s] # NoKey
               /\ grew => ~Archived(db', s)]_vars
  BY NextGood DEF GoodStep, StoreStep, ArchiveRule
<1> QED BY <1>1, InvHolds, PTL DEF Spec, ArchivingAdmitsNothing

\* A core call of a stopped Turn, or of a child that owes a stop, is only ever
\* cancelled.
THEOREM CoreHeedsStops == Spec => OwedStopBlocksCore
<1>1. Inv /\ [Next]_vars =>
        [\A a \in Actions(db) :
           IsCore(db.actions[a].tool) /\ Unresolved(db.actions[a]) /\ CoreStopped(db, a) =>
             db'.actions[a].resolution \in {"none", "cancelled"}]_vars
  BY NextGood DEF GoodStep, StoreStep, CoreRule
<1> QED BY <1>1, InvHolds, PTL DEF Spec, OwedStopBlocksCore


-----------------------------------------------------------------------------
(* What is told *)

\* Nothing is told at the start.
LEMMA PostedInit ==
  ASSUME Init PROVE Posted(db)
<1>1. /\ db.messages = << >> /\ db.actions = << >> /\ db.endings = {} /\ db.forwards = << >>
  BY DEF Init, EmptyStore
<1>2. DOMAIN << >> = {}
  OBVIOUS
<1>3. Messages(db) = {} /\ Actions(db) = {}
  BY <1>1, <1>2 DEF Messages, Actions
<1>4. Mail(db)
  BY <1>1, <1>3 DEF Mail, OneMessagePerKey, EndingsOwed, EndingsTold, ArchivedHearsNothing
<1>5. CallsTold(db)
  BY <1>3 DEF CallsTold
<1>6. Hops(db)
  BY <1>1, <1>2, <1>3 DEF Hops, OneForward, ApprovalRows, DeliveredRows, NextRows
<1> QED BY <1>4, <1>5, <1>6 DEF Posted

\* Every client command.
LEMMA ClientTells ==
  ASSUME Inv, Posted(db), ClientStep
  PROVE  Posted(db')
<1> USE DEF Client
<1>0. Tables(db) /\ TurnRules(db)
  BY DEF Inv
<1> PICK k \in Keys :
    \/ \E s \in Sessions : Submit(k, s) \/ Create(k, s) \/ Stop(k, s) \/ Archive(k, s) \/ Restore(k, s)
    \/ \E o \in Operations(db) : Interrupt(k, o)
    \/ \E s \in db.sessions, a \in Actions(db), decision \in {"allow_once", "deny"} : Decide(k, s, a, decision)
  BY DEF ClientStep
<1>1. ASSUME NEW s \in Sessions, Submit(k, s) PROVE Posted(db')
  <2>1. Posted(SubmitMessage(db, k, s))
    BY <1>0, SubmitPosts
  <2> QED BY <1>1, <2>1 DEF Submit
<1>2. ASSUME NEW s \in Sessions, Create(k, s) PROVE Posted(db')
  <2>1. s \in Sessions \ db.sessions
    BY <1>2 DEF Create
  <2>2. Posted(SubmitCreating(db, k, s))
    BY <1>0, <2>1, SubmitPosts
  <2> QED BY <1>2, <2>2 DEF Create
<1>3. ASSUME NEW s \in Sessions, NEW kind PROVE Posted(StopSession(db, k, s, kind))
  BY <1>0, StopsPost
<1>4. ASSUME NEW s \in Sessions, Stop(k, s) \/ Archive(k, s) PROVE Posted(db')
  BY <1>3, <1>4 DEF Stop, Archive
<1>5. ASSUME NEW s \in Sessions, Restore(k, s) PROVE Posted(db')
  <2>1. Posted(RestoreSession(db, k, s))
    BY <1>0, RestorePosts
  <2> QED BY <1>5, <2>1 DEF Restore
<1>6. ASSUME NEW o \in Operations(db), Interrupt(k, o) PROVE Posted(db')
  <2>1. Posted(InterruptModel(db, k, o))
    BY <1>0, CommandsPost
  <2> QED BY <1>6, <2>1 DEF Interrupt
<1>7. ASSUME NEW s \in db.sessions, NEW a \in Actions(db), NEW decision, Decide(k, s, a, decision)
      PROVE  Posted(db')
  <2>1. Posted(DecidePermission(db, k, s, a, decision))
    BY <1>0, CommandsPost
  <2> QED BY <1>7, <2>1 DEF Decide
<1> QED BY <1>1, <1>2, <1>4, <1>5, <1>6, <1>7

\* Action a is a call of the tool that no stop overtook.
Runs(d, a, tool) ==
  /\ a \in Actions(d) /\ Unresolved(d.actions[a]) /\ d.actions[a].tool = tool
  /\ ~StopSelected(d, TurnOfAction(d, a))

\* A core call, still waiting and not stopped, tells what its result says.
LEMMA CallTells ==
  ASSUME Inv, Posted(db), NEW tool, NEW after, RunCall(tool, after),
         Runs(db, work.action, tool) => Posted(after)
  PROVE  Posted(db')
<1>1. Work(db, work)
  BY DEF Inv, HostInv
<1>2. /\ work.kind = "action" /\ db.actions[work.action].tool = tool
      /\ db' = IF CoreWaiting(db, work.action) /\ ~CoreStopped(db, work.action) THEN after ELSE db
  BY DEF RunCall, RunCore
<1>3. work.action \in Actions(db)
  BY <1>1, <1>2, WorkNames
<1> QED BY <1>2, <1>3 DEF CoreWaiting, CoreStopped, Runs

\* What the core runs.
LEMMA CoreTells ==
  ASSUME Inv, Posted(db), RunCoreWork
  PROVE  Posted(db')
<1>0. Tables(db) /\ TurnRules(db) /\ Work(db, work)
  BY DEF Inv, HostInv
<1>1. CASE RunOwedStop
  <2>1. work.child \in db.sessions
    BY <1>0, <1>1, WorkNames DEF RunOwedStop
  <2>2. Posted(StopOwedSession(db, work.child, work.position))
    BY <1>0, <2>1, StopsPost
  <2> QED BY <1>1, <2>2 DEF RunOwedStop, RunCore
<1>2. CASE RunOwedEnding
  <2>1. work.turn \in Turns(db)
    BY <1>0, <1>2, WorkNames DEF RunOwedEnding
  <2>2. Posted(DeliverChildEnding(db, work.turn))
    BY <1>0, <2>1, DeliverChildEndingPosts
  <2> QED BY <1>2, <2>2 DEF RunOwedEnding, RunCore
<1>3. CASE RunForward
  <2>1. work.forward \in DOMAIN db.forwards
    BY <1>0, <1>3, WorkNames DEF RunForward
  <2>2. Posted(DeliverForward(db, work.forward))
    BY <1>0, <2>1, DeliverForwardPosts
  <2> QED BY <1>3, <2>2 DEF RunForward, RunCore
<1>4. CASE RunReadTranscript
  <2>1. PICK code \in {"succeeded", "failed"} :
          RunCall("read_transcript", ResolveCore(db, work.action, code))
    BY <1>4 DEF RunReadTranscript
  <2>2. code \in ActionResolutions \ {"none"} /\ "read_transcript" \notin AgentTools
    BY DEF ActionResolutions, AgentTools
  <2>3. Runs(db, work.action, "read_transcript") => Posted(ResolveCore(db, work.action, code))
    BY <1>0, <2>2, RefusalPosts DEF Runs
  <2> QED BY <2>1, <2>3, CallTells
<1>5. ASSUME NEW s \in Sessions, RunMessageAgent(s) PROVE Posted(db')
  <2>1. "message_agent" \in AgentTools
    BY DEF AgentTools
  <2>2. Runs(db, work.action, "message_agent") => Posted(DeliverAgentMessage(db, work.action, s))
    BY <1>0, <2>1, DeliverAgentMessagePosts DEF Runs
  <2> QED BY <1>5, <2>2, CallTells DEF RunMessageAgent
<1>6. ASSUME NEW s \in Sessions, NEW attached \in BOOLEAN, RunStartAgent(s, attached) PROVE Posted(db')
  <2>1. "start_agent" \in AgentTools
    BY DEF AgentTools
  <2>2. Runs(db, work.action, "start_agent") => Posted(StartAgent(db, work.action, s, attached))
    BY <1>0, <2>1, StartAgentPosts DEF Runs
  <2> QED BY <1>6, <2>2, CallTells DEF RunStartAgent
<1> QED BY <1>1, <1>2, <1>3, <1>4, <1>5, <1>6 DEF RunCoreWork

\* What the execution owner admits and recovers.
LEMMA OwnerTells ==
  ASSUME Inv, Posted(db),
         AdmitNew \/ AdmitRetryAttempt \/ RecoverExhaustedRetry \/ RecoverUncertainAction \/ AdmitBash
  PROVE  Posted(db')
<1>0. Tables(db) /\ TurnRules(db)
  BY DEF Inv
<1>1. CASE AdmitNew
  <2>1. PICK s \in MessageSelection(db) \cup ContinuationSelection(db) :
          \E purpose \in Purposes(db, s) : db' = AdmitModel(db, s, purpose)
    BY <1>1 DEF AdmitNew
  <2>2. PICK purpose \in Purposes(db, s) : db' = AdmitModel(db, s, purpose)
    BY <2>1
  <2>3. MayGoOn(db, s) /\ purpose \in {"assistant", "compaction"}
    BY <1>0, SelectedMayGoOn, PurposesAre
  <2>4. Posted(AdmitModel(db, s, purpose))
    BY <1>0, <2>3, AdmitModelPosts
  <2> QED BY <2>2, <2>4
<1>2. CASE AdmitRetryAttempt
  <2>1. PICK o \in RetrySelection(db, ActiveOperations) : db' = AdmitRetry(db, o)
    BY <1>2 DEF AdmitRetryAttempt
  <2>2. o \in Operations(db) /\ db.operations[o].ordinal < MaxAttempts
    BY DEF RetrySelection
  <2>3. Posted(AdmitRetry(db, o))
    BY <1>0, <2>2, AttemptsPost
  <2> QED BY <2>1, <2>3
<1>3. CASE RecoverExhaustedRetry
  <2>1. PICK o \in ExhaustedSelection(db, ActiveOperations) : db' = RecoverExhausted(db, o)
    BY <1>3 DEF RecoverExhaustedRetry
  <2>2. o \in Operations(db) /\ Unresolved(db.operations[o])
    BY DEF ExhaustedSelection
  <2>3. Posted(RecoverExhausted(db, o))
    BY <1>0, <2>2, ModelsPost
  <2> QED BY <2>1, <2>3
<1>4. CASE RecoverUncertainAction
  <2>1. CASE db' = db
    BY <2>1
  <2>2. CASE \E a \in UncertainSelection(db, ActiveActions) : db' = RecoverUncertain(db, a)
    <3>1. PICK a \in UncertainSelection(db, ActiveActions) : db' = RecoverUncertain(db, a)
      BY <2>2
    <3>2. a \in Actions(db) /\ db.actions[a].attempted /\ Unresolved(db.actions[a])
      BY DEF UncertainSelection, Oldest
    <3>3. Posted(RecoverUncertain(db, a))
      BY <1>0, <3>2, AttemptsPost
    <3> QED BY <3>1, <3>3
  <2> QED BY <1>4, <2>1, <2>2 DEF RecoverUncertainAction
<1>5. CASE AdmitBash
  <2>1. PICK a \in BashSelection(db) : db' = AdmitAction(db, a)
    BY <1>5 DEF AdmitBash
  <2>2. a \in Actions(db) /\ db.actions[a].authorized /\ ~IsCore(db.actions[a].tool)
    BY DEF BashSelection, Oldest, ReadyActions, IsCore
  <2>3. Posted(AdmitAction(db, a))
    BY <1>0, <2>2, AttemptsPost
  <2> QED BY <2>1, <2>3
<1> QED BY <1>1, <1>2, <1>3, <1>4, <1>5

\* What the slots report.
LEMMA SlotTells ==
  ASSUME Inv, Posted(db), NEW slot \in slots, ModelStep(slot) \/ BashStep(slot)
  PROVE  Posted(db')
<1>0. Tables(db) /\ TurnRules(db)
  BY DEF Inv
<1>1. ASSUME NEW after, slot.kind = "model", Report(slot, after),
             slot.id \in Operations(db) /\ Unresolved(db.operations[slot.id]) => Posted(after)
      PROVE  Posted(db')
  <2>1. db' = IF AttemptStanding(db, slot.id, slot.ordinal) = "current" THEN after ELSE db
    BY <1>1 DEF Report
  <2> QED BY <1>1, <2>1, StandingIs
<1>2. ASSUME NEW failure \in Failures, slot.kind = "model", Report(slot, SettleFailure(db, slot.id, failure))
      PROVE  Posted(db')
  <2>1. slot.id \in Operations(db) /\ Unresolved(db.operations[slot.id]) =>
          Posted(SettleFailure(db, slot.id, failure))
    BY <1>0, ModelsPost
  <2> QED BY <1>1, <1>2, <2>1
<1>3. CASE LaunchRequest(slot) \/ CancelSuperseded(slot)
  BY <1>3 DEF LaunchRequest, CancelSuperseded
<1>4. CASE CompleteTransfer(slot)
  <2>1. PICK calls \in Proposals :
          /\ calls = <<>> \/ db.operations[slot.id].purpose = "assistant"
          /\ Report(slot, SettleSuccess(db, slot.id, calls))
    BY <1>4 DEF CompleteTransfer
  <2>2. calls \in Seq(Calls)
    BY ProposalsAssumption DEF Calls
  <2>3. slot.id \in Operations(db) /\ Unresolved(db.operations[slot.id]) =>
          Posted(SettleSuccess(db, slot.id, calls))
    BY <1>0, <2>1, <2>2, SuccessPosts
  <2>4. slot.kind = "model"
    BY <1>4 DEF CompleteTransfer
  <2> QED BY <1>1, <2>1, <2>3, <2>4
<1>5. CASE FailAttempt(slot) \/ AdvanceRefresh(slot)
  <2>1. PICK failure \in Failures : Report(slot, SettleFailure(db, slot.id, failure))
    BY <1>5 DEF FailAttempt, AdvanceRefresh, Failures
  <2>2. slot.kind = "model"
    BY <1>5 DEF FailAttempt, AdvanceRefresh
  <2> QED BY <1>2, <2>1, <2>2
<1>6. CASE BeginForcedRefresh(slot)
  <2>1. slot.id \in Operations(db)
    BY <1>6, StandingIs DEF BeginForcedRefresh
  <2>2. Posted(ClaimAuthRefresh(db, slot.id))
    BY <1>0, <2>1, AttemptsPost
  <2> QED BY <1>6, <2>2 DEF BeginForcedRefresh
<1>7. ASSUME NEW code \in ActionResolutions \ {"none"}, slot.kind = "bash", slot.stage # "closed",
             db' = SettleAction(db, slot.id, code)
      PROVE  Posted(db')
  <2>1. slot.id \in Actions(db) /\ db.actions[slot.id].attempted /\ Unresolved(db.actions[slot.id])
    BY <1>7, BashHolds
  <2>2. Posted(SettleAction(db, slot.id, code))
    BY <1>0, <2>1, AttemptsPost
  <2> QED BY <1>7, <2>2
<1>8. {"cancelled", "spawn_failed", "succeeded", "failed"} \subseteq ActionResolutions \ {"none"}
  BY DEF ActionResolutions
<1>9. CASE LaunchBash(slot)
  BY <1>7, <1>8, <1>9 DEF LaunchBash
<1>10. CASE StopPreparingBash(slot)
  BY <1>7, <1>8, <1>10 DEF StopPreparingBash
<1>11. CASE CompleteBash(slot)
  BY <1>7, <1>8, <1>11 DEF CompleteBash
<1>12. CASE ReclaimBash(slot)
  BY <1>12 DEF ReclaimBash
<1> QED BY <1>3, <1>4, <1>5, <1>6, <1>9, <1>10, <1>11, <1>12 DEF ModelStep, BashStep

\* Every step of the Host, of its clients and of its failures.
LEMMA NextTells ==
  ASSUME Inv, Posted(db), [Next]_vars
  PROVE  Posted(db')
<1>1. CASE UNCHANGED vars
  BY <1>1 DEF vars
<1>2. CASE ReadCoreWork \/ RetainFence \/ FenceDispatch \/ HostStop \/ ShutDown \/ StartHost \/ Crash
  BY <1>2 DEF ReadCoreWork, RetainFence, FenceDispatch, HostStop, ShutDown, StartHost, Crash, Restart
<1>3. ASSUME NEW slot \in slots, ShutdownSlot(slot) PROVE Posted(db')
  BY <1>3 DEF ShutdownSlot
<1>4. CASE Next
  BY <1>2, <1>3, <1>4, ClientTells, CoreTells, OwnerTells, SlotTells DEF Next
<1> QED BY <1>1, <1>4

\* Who was told of what, in Messages and in feeds, is right after every step of
\* every thread, across fences, stops and crashes of the Host.
THEOREM PostedHolds == Spec => []Posted(db)
<1>1. Init => Posted(db)
  BY PostedInit
<1>2. Inv /\ Posted(db) /\ [Next]_vars => Posted(db')
  BY NextTells
<1>3. Inv /\ Posted(db) /\ [Next]_vars => (Posted(db))'
  BY <1>2
<1> QED BY <1>1, <1>3, InvHolds, PTL DEF Spec

\* One key admits one Message, and an agent's call delivered its Message exactly
\* when its result says so.
THEOREM EachIsToldOnce == Spec => []DeliveredOnce
<1>1. Posted(db) => DeliveredOnce
  BY DEF Posted, Mail, OneMessagePerKey, CallsTold, CallTold, AgentTools, DeliveredOnce
<1> QED BY <1>1, PostedHolds, PTL

\* A parent hears of no ending its own stop caused.
THEOREM ParentsStopIsNotTold == Spec => []ParentNotToldOfItsStop
<1>1. Inv /\ Posted(db) => ParentNotToldOfItsStop
  <2> SUFFICES ASSUME Inv, Posted(db), NEW m \in Messages(db), NEW t \in Turns(db),
                      db.messages[m].key = EndingKey(t)
               PROVE  \A stop \in db.stops : stop.turn = t => ~stop.parentCaused
    BY DEF ParentNotToldOfItsStop
  <2>1. t \in Nat
    BY References DEF Inv
  <2> QED BY <2>1 DEF Posted, Mail, EndingsTold
<1> QED BY <1>1, InvHolds, PostedHolds, PTL

\* An ending is not told to an archived parent, nor once the parent is back.
THEOREM ArchivedIsNotTold == Spec => []ArchivedParentHearsNothing
<1>1. Inv /\ Posted(db) => ArchivedParentHearsNothing
  <2> SUFFICES ASSUME Inv, Posted(db), NEW e \in db.endings
               PROVE  /\ Archived(db, db.parent[SessionOfTurn(db, e.turn)]) /\ ~e.delivered => e.suppressed
                      /\ e.suppressed => \A m \in Messages(db) : db.messages[m].key # EndingKey(e.turn)
    BY DEF ArchivedParentHearsNothing
  <2>1. Archived(db, db.parent[SessionOfTurn(db, e.turn)]) /\ ~e.delivered => e.suppressed
    BY DEF Posted, Mail, ArchivedHearsNothing, SessionOfTurn
  <2>2. ASSUME e.suppressed, NEW m \in Messages(db), db.messages[m].key = EndingKey(e.turn) PROVE FALSE
    <3>1. e.turn \in Nat
      BY References DEF Inv, Tables, EndingRows, EndingRow
    <3>2. PICK f \in db.endings : f.turn = e.turn /\ ~f.suppressed
      BY <2>2, <3>1 DEF Posted, Mail, EndingsTold
    <3>3. f = e
      BY <3>2 DEF Posted, Mail, EndingsOwed
    <3> QED BY <2>2, <3>2, <3>3
  <2> QED BY <2>1, <2>2
<1> QED BY <1>1, InvHolds, PostedHolds, PTL

\* What climbs the tree has its row for the next ancestor, exactly one.
THEOREM NoFactIsDropped == Spec => []NoHopIsLost
<1>1. Inv /\ Posted(db) => NoHopIsLost
  <2> SUFFICES ASSUME Inv, Posted(db) PROVE NoHopIsLost
    OBVIOUS
  <2> DEFINE rows(s, kind, source) ==
               {f \in DOMAIN db.forwards : /\ db.forwards[f].target = s
                                           /\ db.forwards[f].kind = kind /\ db.forwards[f].source = source}
             owedTo(s, kind, source) ==
               db.parent[s] = NoSession \/ Cardinality(rows(db.parent[s], kind, source)) = 1
  <2>1. ASSUME NEW s, NEW kind, NEW source, HasRow(db, s, kind, source) PROVE owedTo(s, kind, source)
    <3> SUFFICES ASSUME db.parent[s] # NoSession PROVE Cardinality(rows(db.parent[s], kind, source)) = 1
      OBVIOUS
    <3>1. PICK f \in DOMAIN db.forwards : IsRow(db.forwards[f], db.parent[s], kind, source)
      BY <2>1 DEF HasRow
    <3>2. rows(db.parent[s], kind, source) = {f}
      BY <3>1 DEF Posted, Hops, OneForward, IsRow
    <3> HIDE DEF rows
    <3>3. Cardinality({f}) = 1
      BY FS_Singleton
    <3> QED BY <3>2, <3>3
  <2> HIDE DEF owedTo
  <2>2. \A a \in Actions(db) : ~db.actions[a].authorized => owedTo(SessionOfAction(db, a), "approval", a)
    BY <2>1 DEF Posted, Hops, ApprovalRows
  <2>3. \A e \in db.endings : e.delivered => owedTo(SessionOfTurn(db, e.turn), "ending", e.turn)
    BY <2>1 DEF Posted, Hops, DeliveredRows, SessionOfTurn
  <2>4. \A f \in Range(db.forwards) : f.delivered => owedTo(f.target, f.kind, f.source)
    BY <2>1 DEF Posted, Hops, NextRows, Range
  <2> QED BY <2>2, <2>3, <2>4 DEF NoHopIsLost, owedTo
<1> QED BY <1>1, InvHolds, PostedHolds, PTL
=============================================================================
