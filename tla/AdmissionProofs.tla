--------------------------- MODULE AdmissionProofs ---------------------------
(***************************************************************************)
(* Proofs about Admission, for every preference, any number of slots and of *)
(* MCP places.  That no work is overlooked is not inductive: it rests on     *)
(* what a pass knows while it runs (CorePart, PassPart) and on each          *)
(* remembered scan under the pause it was made with (IdlePart).             *)
(***************************************************************************)
EXTENDS Admission, TLAPS, SequenceTheorems

\* A remembered scan of the slot kinds stands under its own pause.
IdlePart ==
  \A held \in BOOLEAN : ~fenced /\ IdleUnder(held) \in current /\ Free # {} =>
    \A i \in DOMAIN preference : NothingFor(preference[i], held)

\* A remembered scan of the core work stands.
CorePart == ~fenced /\ "idle_core" \in current => CoreWork = {}

\* While the key of the pass agrees, the kinds passed over have nothing, and a
\* pass that skips its scans still has the memory it skips them for.
PassPart ==
  /\ pc \in {"core", "kind"} /\ scanned /\ "key" \in current => IdleUnder(keyPaused) \in current
  /\ pc = "kind" /\ ~fenced /\ "key" \in current /\ Free # {} =>
       \A i \in DOMAIN preference : i < index => NothingFor(preference[i], keyPaused)
  /\ pc = "core" => index = 1
  /\ pc \notin {"core", "kind"} => index = 1 /\ "key" \notin current

KnownInv == TypeOK /\ IdlePart /\ CorePart /\ PassPart

-----------------------------------------------------------------------------
(* Types.                                                                  *)

\* The winner's move keeps a preference of kinds, of the same length.
LEMMA WonTypes ==
  ASSUME preference \in Seq(Kinds), NEW i \in 1..Len(preference)
  PROVE  Won(i) \in Seq(Kinds)
<1>1. SubSeq(preference, 1, i - 1) \in Seq(Kinds)
  BY SubSeqProperties
<1>2. SubSeq(preference, i + 1, Len(preference)) \in Seq(Kinds)
  BY SubSeqProperties
<1>3. <<preference[i]>> \in Seq(Kinds)
  OBVIOUS
<1> QED
  BY <1>1, <1>2, <1>3 DEF Won

\* The memories of an empty pass, listed.
LEMMA IdleListed == IdleAdmission = {"idle_open", "idle_paused"}
  BY DEF IdleAdmission, IdleUnder

\* One step keeps the types.
LEMMA TypesStep ==
  ASSUME TypeOK, [Next]_vars
  PROVE  TypeOK'
<1> USE RowAssumption, CapacityAssumption DEF TypeOK, stored, localVars, stateVars
<1>a. 1 \in 1..(Len(preference) + 1)
  OBVIOUS
<1>1. CASE RecoveryFails
  BY <1>1 DEF RecoveryFails
<1>2. CASE BeginPass
  BY <1>2 DEF BeginPass, StillCurrent, Scanned, Memories
<1>3. CASE SkipPass
  BY <1>a, <1>3 DEF SkipPass, Leave
<1>4. CASE CoreAdmitted
  <2>1. PICK w \in CoreWork : rows' = rows \ {w} /\ mcp' \in IF w = "mcp" THEN {mcp, mcp + 1} ELSE {mcp}
    BY <1>4 DEF CoreAdmitted
  <2>2. w = "mcp" => mcp < McpCapacity
    BY DEF CoreWork
  <2>3. mcp' \in 0..McpCapacity
    BY <2>1, <2>2
  <2> QED
    BY <1>a, <1>4, <2>1, <2>3 DEF CoreAdmitted, Leave, StillCurrent
<1>5. CASE CoreNoWork
  BY <1>5 DEF CoreNoWork, Memories
<1>6. CASE CoreRetryLater
  BY <1>6 DEF CoreRetryLater
<1>7. CASE SkipKind
  BY <1>7 DEF SkipKind
<1>8. CASE KindNoWork
  BY <1>8 DEF KindNoWork, Trying
<1>9. CASE KindRetryLater
  BY <1>9 DEF KindRetryLater, Trying
<1>10. CASE KindAdmitted
  <2>1. preference' \in Seq(Kinds)
    BY <1>10, WonTypes DEF KindAdmitted, Trying
  <2>2. slots' \in [Slots -> Arms]
    BY <1>10 DEF KindAdmitted, Arms
  <2>3. index' \in 1..(Len(preference') + 1)
    BY <1>10, <2>1 DEF KindAdmitted, Leave
  <2>4. fenced' \in BOOLEAN /\ current' = {} /\ rows' \subseteq rows
    BY <1>10 DEF KindAdmitted, StillCurrent
  <2> QED
    BY <1>10, <2>1, <2>2, <2>3, <2>4 DEF KindAdmitted, Leave
<1>11. CASE EndPass
  BY <1>a, <1>11, IdleListed DEF EndPass, Leave, Memories, IdleUnder
<1>12. ASSUME Serve
       PROVE  slots' \in [Slots -> Arms] /\ mcp' \in 0..McpCapacity /\ fenced' \in BOOLEAN /\ current' \subseteq Memories
  <2>1. slots' \in [Slots -> Arms] /\ mcp' \in 0..McpCapacity
    BY <1>12 DEF Serve
  <2>2. fenced' \in BOOLEAN
    BY <1>12 DEF Serve
  <2>3. PICK committed \in BOOLEAN : current' = StillCurrent(committed, slots' # slots)
    BY <1>12 DEF Serve
  <2> QED
    BY <2>1, <2>2, <2>3 DEF StillCurrent
<1>13. CASE Lifecycle
  BY <1>13, <1>12 DEF Lifecycle, Serve
<1>14. CASE Transport
  BY <1>14, <1>12 DEF Transport, Serve
<1>15. CASE Commit
  BY <1>15 DEF Commit, Others, StillCurrent, AllRows, Kinds, CoreRows
<1>16. CASE RetryComesDue
  BY <1>16 DEF RetryComesDue, Others, AllRows, Kinds
<1>17. CASE PauseTurns
  <2>1. paused' \in BOOLEAN
    BY <1>17 DEF PauseTurns
  <2> QED
    BY <1>17, <2>1 DEF PauseTurns, Others
<1>19. CASE PollComesDue
  BY <1>19 DEF PollComesDue, Others
<1>20. CASE HostFences
  BY <1>20 DEF HostFences, Others
<1>18. CASE UNCHANGED vars
  BY <1>18 DEF vars
<1> QED
  BY <1>1, <1>2, <1>3, <1>4, <1>5, <1>6, <1>7, <1>8, <1>9, <1>10, <1>11, <1>13, <1>14,
     <1>15, <1>16, <1>17, <1>18, <1>19, <1>20 DEF Next, Turn, AdmitWork

\* Initial types.
LEMMA InitTypes ==
  ASSUME Init
  PROVE  TypeOK
<1> USE PreferenceAssumption, RowAssumption, CapacityAssumption DEF Init
<1>1. rows \subseteq AllRows /\ coreLeft \in 0..MaxCore /\ mcp \in 0..McpCapacity
  OBVIOUS
<1>2. slots \in [Slots -> Arms] /\ current \subseteq Memories
  BY DEF Arms
<1>3. preference \in Seq(Kinds) /\ index \in 1..(Len(preference) + 1)
  OBVIOUS
<1>4. capacity_was_full \in BOOLEAN
  OBVIOUS
<1> QED
  BY <1>1, <1>2, <1>3, <1>4 DEF TypeOK

\* Type correctness.
THEOREM TypesHold == Spec => []TypeOK
<1>1. Init => TypeOK
  BY InitTypes
<1>2. TypeOK /\ [Next]_vars => TypeOK'
  BY TypesStep
<1> QED
  BY <1>1, <1>2, PTL DEF Spec

-----------------------------------------------------------------------------
(* What a step leaves standing.                                            *)

\* Slots and preference stay, and nothing joins the Store but by time.
Stays ==
  /\ slots' = slots /\ preference' = preference /\ (fenced => fenced')
  /\ rows' \subseteq rows \cup {"retry", "exhausted"}

\* A scan that found nothing finds nothing after such a step.
LEMMA NothingStays ==
  ASSUME Stays, preference \in Seq(Kinds), NEW i \in DOMAIN preference, NEW held \in BOOLEAN,
         NothingFor(preference[i], held)
  PROVE  NothingFor(preference[i], held)'
<1>1. preference[i] \in Kinds /\ preference'[i] = preference[i]
  BY DEF Stays
<1>2. PreparationOpen(preference[i])' => PreparationOpen(preference[i])
  BY <1>1 DEF Stays, PreparationOpen, BashPreparationOpen, ModelPreparationOpen
<1>3. preference[i] # "retry" => Found(preference[i], held)' \subseteq Found(preference[i], held)
  BY <1>1 DEF Stays, Found, Kinds
<1> QED
  BY <1>1, <1>2, <1>3 DEF NothingFor

\* The memories of such a step stand.
LEMMA IdleStays ==
  ASSUME TypeOK, IdlePart, Stays, current' \cap IdleAdmission \subseteq current
  PROVE  IdlePart'
<1> SUFFICES ASSUME NEW held \in BOOLEAN, (~fenced)', IdleUnder(held) \in current', (Free # {})',
                    NEW i \in DOMAIN preference'
             PROVE  NothingFor(preference[i], held)'
  BY DEF IdlePart, IdleUnder
<1>1. Free' = Free /\ i \in DOMAIN preference
  BY DEF Stays, Free
<1>4. ~fenced
  BY DEF Stays
<1>2. IdleUnder(held) \in current
  BY DEF IdleAdmission
<1>3. NothingFor(preference[i], held)
  BY <1>1, <1>2, <1>4 DEF IdlePart
<1> QED
  BY <1>1, <1>3, NothingStays DEF TypeOK

\* Neither does core work appear.
LEMMA CoreStays ==
  ASSUME CorePart, Stays, mcp' = mcp, "idle_core" \in current' => "idle_core" \in current
  PROVE  CorePart'
<1>1. CoreWork' \subseteq CoreWork
  BY DEF Stays, CoreWork
<1> QED
  BY <1>1 DEF CorePart, Stays

\* A step outside a pass, or that ends one, leaves nothing to be known of it.
LEMMA OutsidePass ==
  ASSUME pc' \notin {"core", "kind"}, index' = 1, "key" \notin current'
  PROVE  PassPart'
  BY DEF PassPart

\* A step that leaves the pass where it is.
LEMMA PassStays ==
  ASSUME TypeOK, PassPart, Stays, UNCHANGED <<pc, index, keyPaused, scanned>>,
         current' \in {current, {}}
  PROVE  PassPart'
<1>1. CASE current' = {}
  BY <1>1 DEF PassPart
<1>2. CASE current' = current
  <2>1. Free' = Free /\ DOMAIN preference' = DOMAIN preference
    BY DEF Stays, Free
  <2>2. ASSUME (pc = "kind" /\ ~fenced /\ "key" \in current /\ Free # {})',
               NEW i \in DOMAIN preference, i < index
        PROVE  NothingFor(preference[i], keyPaused)'
    <3>1. pc = "kind" /\ ~fenced /\ "key" \in current /\ Free # {}
      BY <1>2, <2>1, <2>2 DEF Stays
    <3>2. NothingFor(preference[i], keyPaused)
      BY <3>1, <2>2 DEF PassPart
    <3>3. keyPaused \in BOOLEAN /\ preference \in Seq(Kinds)
      BY DEF TypeOK
    <3>4. PICK held \in BOOLEAN : held = keyPaused
      BY <3>3
    <3>5. NothingFor(preference[i], held)'
      BY <3>2, <3>3, <3>4, NothingStays
    <3> QED
      BY <3>4, <3>5
  <2> QED
    BY <1>2, <2>1, <2>2 DEF PassPart, IdleUnder
<1> QED
  BY <1>1, <1>2

-----------------------------------------------------------------------------
(* What is known, action by action.                                        *)

\* The pass begins: what is kept of the memories decides what is skipped.
LEMMA BeginKnows ==
  ASSUME KnownInv, BeginPass
  PROVE  IdlePart' /\ CorePart' /\ PassPart'
<1> USE DEF KnownInv
<1>1. Stays /\ mcp' = mcp /\ index' = 1 /\ pc' \in {"core", "kind"}
  BY DEF BeginPass, Stays, PassPart
<1>2. current' \subseteq current \cup {"key"}
  BY DEF BeginPass, StillCurrent
<1>3. "key" \notin IdleAdmission /\ "key" # "idle_core"
  BY IdleListed
<1>4. scanned' => IdleUnder(keyPaused)' \in current'
  <2>1. SUFFICES ASSUME scanned'
                 PROVE  IdleUnder(paused) \in current'
    BY DEF BeginPass, IdleUnder
  <2> QED
    BY <2>1 DEF BeginPass, Scanned, StillCurrent
<1>5. IdlePart'
  BY <1>1, <1>2, <1>3, IdleStays
<1>6. CorePart'
  BY <1>1, <1>2, <1>3, CoreStays
<1>7. \A i \in DOMAIN preference' : ~(i < index')
  BY <1>1 DEF Stays, TypeOK
<1>8. PassPart'
  BY <1>1, <1>4, <1>7 DEF PassPart
<1> QED
  BY <1>5, <1>6, <1>8

\* The core scan ends, with nothing found or with nothing remembered.
LEMMA CoreKnows ==
  ASSUME KnownInv, CoreNoWork \/ CoreRetryLater
  PROVE  IdlePart' /\ CorePart' /\ PassPart'
<1> USE DEF KnownInv
<1>1. Stays /\ mcp' = mcp /\ index' = 1 /\ pc' = "kind" /\ rows' = rows /\ UNCHANGED localVars
  BY DEF CoreNoWork, CoreRetryLater, Stays, stored, stateVars, PassPart, TypeOK
<1>2. current' \ {"idle_core"} = current \ {"idle_core"}
  BY DEF CoreNoWork, CoreRetryLater
<1>3. "idle_core" \notin IdleAdmission /\ "key" # "idle_core"
  BY IdleListed
<1>4. IdlePart'
  BY <1>1, <1>2, <1>3, IdleStays
<1>5. CorePart'
  <2>1. CoreWork' = CoreWork
    BY <1>1 DEF CoreWork
  <2> QED
    BY <2>1 DEF CoreNoWork, CoreRetryLater, CorePart
<1>6. \A i \in DOMAIN preference' : ~(i < index')
  BY <1>1 DEF Stays, TypeOK
<1>7. scanned' /\ "key" \in current' => IdleUnder(keyPaused)' \in current'
  <2>1. pc = "core"
    BY DEF CoreNoWork, CoreRetryLater
  <2>2. keyPaused' = keyPaused /\ scanned' = scanned
    BY <1>1 DEF localVars
  <2>3. IdleUnder(keyPaused) # "idle_core" /\ IdleUnder(keyPaused)' = IdleUnder(keyPaused)
    BY <2>2 DEF IdleUnder
  <2> QED
    BY <1>2, <1>3, <2>1, <2>2, <2>3 DEF PassPart
<1>8. PassPart'
  BY <1>1, <1>6, <1>7 DEF PassPart
<1> QED
  BY <1>4, <1>5, <1>8

\* One kind further: it was skipped, had nothing, or the Store refused it.
LEMMA KindKnows ==
  ASSUME KnownInv, SkipKind \/ KindNoWork \/ KindRetryLater
  PROVE  IdlePart' /\ CorePart' /\ PassPart'
<1> USE DEF KnownInv
<1>1. /\ Stays /\ mcp' = mcp /\ pc = "kind" /\ pc' = "kind" /\ current' = current
      /\ index \in DOMAIN preference /\ index' = index + 1
      /\ keyPaused' = keyPaused /\ scanned' = scanned
  BY DEF SkipKind, KindNoWork, KindRetryLater, Trying, Stays, stored, localVars, stateVars, TypeOK
<1>2. IdlePart' /\ CorePart'
  BY <1>1, IdleStays, CoreStays
<1>3. ASSUME ~fenced', "key" \in current, Free # {}
      PROVE  NothingFor(Kind, keyPaused)
  <2>1. CASE KindNoWork
    BY <2>1 DEF KindNoWork, NothingFor
  <2>2. CASE SkipKind
    <3>1. scanned => NothingFor(Kind, keyPaused)
      <4> SUFFICES ASSUME scanned
                   PROVE  NothingFor(Kind, keyPaused)
        OBVIOUS
      <4>1. IdleUnder(keyPaused) \in current /\ ~fenced
        BY <1>1, <1>3, <2>2 DEF PassPart, SkipKind
      <4>2. keyPaused \in BOOLEAN
        BY DEF TypeOK
      <4> QED
        BY <4>1, <4>2, <1>1, <1>3 DEF IdlePart, Kind
    <3> QED
      BY <2>2, <3>1, <1>1 DEF SkipKind, Trying, NothingFor, PreparationOpen
  <2>3. CASE KindRetryLater
    BY <2>3, <1>3 DEF KindRetryLater
  <2> QED
    BY <2>1, <2>2, <2>3
<1>4. ASSUME (~fenced /\ "key" \in current /\ Free # {})', NEW i \in DOMAIN preference, i < index'
      PROVE  NothingFor(preference[i], keyPaused)'
  <2>1. ~fenced /\ "key" \in current /\ Free # {}
    BY <1>1, <1>4 DEF Stays, Free
  <2>2. NothingFor(preference[i], keyPaused)
    <3>1. CASE i = index
      BY <3>1, <2>1, <1>3, <1>4 DEF Kind
    <3>2. CASE i < index
      BY <3>2, <2>1, <1>1 DEF PassPart
    <3> QED
      BY <1>1, <1>4, <3>1, <3>2 DEF TypeOK
  <2>3. PICK held \in BOOLEAN : held = keyPaused
    BY DEF TypeOK
  <2>4. NothingFor(preference[i], held)'
    BY <2>2, <2>3, <1>1, NothingStays DEF TypeOK
  <2> QED
    BY <2>3, <2>4, <1>1
<1>5. PassPart'
  BY <1>1, <1>4 DEF PassPart, IdleUnder, Stays
<1> QED
  BY <1>2, <1>5

\* The pass ends: its key becomes the memory of the kinds it scanned.
LEMMA EndKnows ==
  ASSUME KnownInv, EndPass
  PROVE  IdlePart' /\ CorePart' /\ PassPart'
<1> USE DEF KnownInv
<1>1. /\ Stays /\ mcp' = mcp /\ pc = "kind" /\ pc' = "lifecycle" /\ index' = 1
      /\ rows' = rows /\ fenced' = fenced
  BY DEF EndPass, Leave, Stays, stored, stateVars
<1>2. "key" \notin IdleAdmission /\ "idle_core" \notin IdleAdmission
  BY IdleListed
<1>3. PassPart'
  <2>1. "key" \notin current'
    BY <1>2 DEF EndPass, IdleAdmission, IdleUnder
  <2> QED
    BY <1>1, <2>1, OutsidePass
<1>4. CorePart'
  <2>1. "idle_core" \in current' => "idle_core" \in current
    BY DEF EndPass, IdleUnder
  <2> QED
    BY <1>1, <2>1, CoreStays
<1>5. IdlePart'
  <2> SUFFICES ASSUME NEW held \in BOOLEAN, (~fenced)', IdleUnder(held) \in current', (Free # {})',
                      NEW i \in DOMAIN preference'
               PROVE  NothingFor(preference[i], held)'
    BY DEF IdlePart, IdleUnder
  <2>1. index > Len(preference) /\ "key" \in current /\ IdleUnder(held) = IdleUnder(keyPaused)
    BY DEF EndPass, IdleAdmission, TypeOK
  <2>2. held = keyPaused
    BY <2>1 DEF IdleUnder, TypeOK
  <2>3. ~fenced /\ Free # {} /\ i \in DOMAIN preference /\ i < index
    BY <1>1, <2>1 DEF Stays, Free, TypeOK
  <2>4. NothingFor(preference[i], held)
    BY <1>1, <2>1, <2>2, <2>3 DEF PassPart
  <2> QED
    BY <1>1, <2>3, <2>4, NothingStays DEF TypeOK
<1> QED
  BY <1>3, <1>4, <1>5

\* An admission, of a slot or of core work, forgets everything.
LEMMA AdmittedKnows ==
  ASSUME CoreAdmitted \/ KindAdmitted
  PROVE  IdlePart' /\ CorePart' /\ PassPart'
  BY DEF CoreAdmitted, KindAdmitted, Leave, StillCurrent, IdlePart, CorePart, PassPart

\* Slots that move take the memory of their kinds with them; an MCP place is
\* freed with a commit or behind a fence.
LEMMA ServeKnows ==
  ASSUME KnownInv, Lifecycle \/ Transport
  PROVE  IdlePart' /\ CorePart' /\ PassPart'
<1> USE DEF KnownInv
<1>1. /\ Serve /\ pc \notin {"core", "kind"} /\ pc' \notin {"core", "kind"}
      /\ rows' = rows /\ preference' = preference /\ index' = index
  BY DEF Lifecycle, Transport, Serve, stored, stateVars
<1>2. PICK committed \in BOOLEAN :
        /\ mcp' # mcp /\ ~committed => fenced'
        /\ current' = StillCurrent(committed, slots' # slots)
  BY <1>1 DEF Serve
<1>a. fenced => fenced'
  BY <1>1 DEF Serve
<1>b. current' \subseteq current
  BY <1>2 DEF StillCurrent
<1>3. (fenced => fenced') /\ current' \subseteq current
  BY <1>a, <1>b
<1>4. PassPart'
  BY <1>1, <1>3, OutsidePass DEF PassPart
<1>5. CorePart'
  <2>1. CASE committed
    BY <2>1, <1>2 DEF CorePart, StillCurrent
  <2>2. CASE ~committed
    <3>1. ASSUME ~fenced'
          PROVE  CoreWork' = CoreWork
      BY <3>1, <2>2, <1>1, <1>2 DEF CoreWork
    <3> QED
      BY <3>1, <1>3 DEF CorePart
  <2> QED
    BY <2>1, <2>2
<1>6. IdlePart'
  <2>1. CASE committed \/ slots' # slots
    <3>1. \A held \in BOOLEAN : IdleUnder(held) \notin current'
      BY <2>1, <1>2 DEF StillCurrent, IdleAdmission
    <3> QED
      BY <3>1 DEF IdlePart, IdleUnder
  <2>2. CASE ~committed /\ slots' = slots
    BY <2>2, <1>1, <1>3, IdleStays DEF Stays
  <2> QED
    BY <2>1, <2>2
<1> QED
  BY <1>4, <1>5, <1>6

\* The other threads and the clock: what they add comes with a commit or is not
\* what the remembered scans look for.
LEMMA OthersKnow ==
  ASSUME KnownInv, Commit \/ RetryComesDue \/ PollComesDue \/ PauseTurns \/ HostFences
  PROVE  IdlePart' /\ CorePart' /\ PassPart'
<1> USE DEF KnownInv
<1>1. CASE Commit
  <2>1. current' = {} /\ UNCHANGED <<pc, index>>
    BY <1>1 DEF Commit, StillCurrent, Others
  <2> QED
    BY <2>1 DEF IdlePart, CorePart, PassPart
<1>2. CASE RetryComesDue \/ PollComesDue \/ PauseTurns \/ HostFences
  <2>1. /\ Stays /\ mcp' = mcp /\ current' = current
        /\ UNCHANGED <<pc, index, keyPaused, scanned>>
    BY <1>2 DEF RetryComesDue, PollComesDue, PauseTurns, HostFences, Others, Stays, stored, localVars
  <2> QED
    BY <2>1, IdleStays, CoreStays, PassStays
<1> QED
  BY <1>1, <1>2

\* Everything known stays known.
LEMMA KnownStep ==
  ASSUME KnownInv, [Next]_vars
  PROVE  KnownInv'
<1>1. TypeOK'
  BY TypesStep DEF KnownInv
<1>2. CASE RecoveryFails \/ SkipPass
  <2>1. /\ Stays /\ mcp' = mcp /\ current' = current /\ pc \notin {"core", "kind"}
        /\ pc' \notin {"core", "kind"} /\ index' \in {1, index}
    BY <1>2 DEF RecoveryFails, SkipPass, Leave, Stays, stored, stateVars
  <2>2. PassPart'
    BY <2>1, OutsidePass DEF KnownInv, PassPart
  <2> QED
    BY <1>1, <2>1, <2>2, IdleStays, CoreStays DEF KnownInv
<1>3. CASE UNCHANGED vars
  <2>1. /\ Stays /\ mcp' = mcp /\ current' = current
        /\ UNCHANGED <<pc, index, keyPaused, scanned>>
    BY <1>3 DEF vars, Stays, stored, localVars, stateVars
  <2> QED
    BY <1>1, <2>1, IdleStays, CoreStays, PassStays DEF KnownInv
<1> QED
  BY <1>1, <1>2, <1>3, BeginKnows, CoreKnows, KindKnows, EndKnows, AdmittedKnows, ServeKnows, OthersKnow
  DEF Next, Turn, AdmitWork, KnownInv

\* Nothing waits behind a remembered empty scan.
THEOREM NothingIsOverlooked == Spec => []NoWorkOverlooked
<1>1. Init => KnownInv
  <2>1. Init => TypeOK
    BY InitTypes
  <2> QED
    BY <2>1 DEF Init, KnownInv, IdlePart, CorePart, PassPart
<1>2. KnownInv /\ [Next]_vars => KnownInv'
  BY KnownStep
<1>3. KnownInv => NoWorkOverlooked
  BY DEF KnownInv, TypeOK, IdlePart, CorePart, NoWorkOverlooked, Scanned
<1> QED
  BY <1>1, <1>2, <1>3, PTL DEF Spec
=============================================================================
