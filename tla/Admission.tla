------------------------------ MODULE Admission ------------------------------
(***************************************************************************)
(* How the execution owner finds work: execution_turn.zig's admitWork, one  *)
(* pass per turn, over the scans of server_execution.zig's NativeTurn.      *)
(*                                                                         *)
(* A pass that found nothing is remembered under the Store's commit         *)
(* generation, the count of slot changes and the pause, and its scans are   *)
(* skipped while those stand still.  Core work, which takes no slot, is     *)
(* remembered under the generation alone.  Other threads commit and pause   *)
(* between any two scans.                                                   *)
(*                                                                         *)
(* What is remembered is only ever compared with what a pass reads, so the  *)
(* model keeps which memories still agree; having none is the same as having *)
(* one that does not.  The rest of a turn (lifecycle services, transport,   *)
(* preparation) is what it does to slots, MCP calls and the Store.          *)
(***************************************************************************)
EXTENDS Integers, Sequences, FiniteSets

CONSTANTS
  Preference,   \* the kinds of slot admission, in their first order
  Rows,         \* what may be waiting in the Store
  SlotCount,    \* execution slots
  McpCapacity,  \* MCP calls held at once
  MaxCore       \* bound: core and MCP work that arrives

Kinds == {"bash", "retry", "message", "tool_continuation"}
CoreRows == {"core", "mcp"}
AllRows == Kinds \cup CoreRows \cup {"joining", "uncertain", "exhausted"}

ASSUME PreferenceAssumption ==
  /\ Preference \in Seq(Kinds)
  /\ \A i, j \in DOMAIN Preference : Preference[i] = Preference[j] => i = j
ASSUME RowAssumption == Rows \subseteq AllRows
ASSUME CapacityAssumption == SlotCount \in Nat /\ McpCapacity \in Nat /\ MaxCore \in Nat

Slots == 1..SlotCount

VARIABLES
  rows,         \* work waiting in the Store; "joining" is input for an open Turn
  slots,        \* the arm of each slot; "busy" stands for those that prepare nothing
  mcp,          \* live MCP calls
  paused,       \* Host.turns_paused
  fenced,       \* the Host no longer launches
  pc, index,    \* where the turn is; the place in the preference
  preference, retry_admission_due, capacity_was_full, uncertain_action_scan_exhausted,
  pollDue,      \* a retry poll interval has passed since last_retry_poll, or there is none
  current,      \* the memories that agree with the Store's generation and the slots
  keyPaused, scanned, found_nothing,  \* locals of the pass
  coreLeft      \* what MaxCore leaves

stored == <<rows, coreLeft>>
localVars == <<keyPaused, scanned, found_nothing>>
stateVars == <<preference, retry_admission_due, capacity_was_full,
               uncertain_action_scan_exhausted, pollDue>>
vars == <<stored, slots, mcp, paused, fenced, pc, index, localVars, stateVars, current>>

\* idle_admission, by the pause it holds.
IdleUnder(held) == IF held THEN "idle_paused" ELSE "idle_open"
IdleAdmission == {IdleUnder(held) : held \in BOOLEAN}

\* The key of the pass, and what earlier passes left.
Memories == {"key", "idle_core"} \cup IdleAdmission
Arms == {"free", "bash_preparing", "model_preparing", "busy"}

-----------------------------------------------------------------------------
(* What the scans read.                                                    *)

Free == {s \in Slots : slots[s] = "free"}
FirstFree == CHOOSE s \in Free : \A t \in Free : s <= t

BashPreparationOpen == \A s \in Slots : slots[s] # "bash_preparing"
ModelPreparationOpen == \A s \in Slots : slots[s] # "model_preparing"

\* The rows an admission of kind k would take, new Turns held or not.
Found(k, held) ==
  rows \cap (IF k # "message" THEN {k} ELSE IF held THEN {"joining"} ELSE {"message", "joining"})

PreparationOpen(k) == IF k = "bash" THEN BashPreparationOpen ELSE ModelPreparationOpen

\* nextCoreWork looks for MCP calls only while a place for one is free.
CoreWork == rows \cap ({"core"} \cup IF mcp < McpCapacity THEN {"mcp"} ELSE {})

-----------------------------------------------------------------------------
(* The memories.                                                           *)

\* Mutant of StillCurrent: the key leaves the slots out.
CurrentByGeneration(committed, moved) == IF committed THEN {} ELSE current

\* A commit moves the generation, which every memory holds (Entry.release); a
\* moved slot moves the count that idle_admission holds.  No slot moves in a
\* pass without ending it, so the key's own count needs no memory.
StillCurrent(committed, moved) ==
  IF committed THEN {} ELSE IF moved THEN current \ IdleAdmission ELSE current

\* idle_admission is the key a pass would read now.
Scanned == IdleUnder(paused) \in current

\* Mutant of Won: the preference stays as it is.
WonInPlace(i) == preference

\* Only a committed winner moves, to the end.
Won(i) ==
  SubSeq(preference, 1, i - 1) \o SubSeq(preference, i + 1, Len(preference)) \o <<preference[i]>>

-----------------------------------------------------------------------------
(* admitWork.                                                              *)

\* The turn goes on after its pass; the pass's locals are forgotten.
Leave ==
  /\ pc' = "lifecycle" /\ index' = 1
  /\ keyPaused' = FALSE /\ scanned' = FALSE /\ found_nothing' = TRUE

\* A Store call of the recovery fails: dispatch is fenced and the loop ends.
RecoveryFails ==
  /\ pc = "begin"
  /\ ~uncertain_action_scan_exhausted \/ pollDue \/ (capacity_was_full /\ Free # {})
  /\ fenced' = TRUE /\ pc' = "ended"
  /\ UNCHANGED <<stored, slots, mcp, paused, index, localVars, stateVars, current>>

\* One uncertain Action is recovered until a scan finds none; when the poll is
\* due or capacity was released, a retry is due and one exhausted retry is
\* recovered.  Each recovery commits.  Then the key is read, and decides at once
\* whether the remembered scans stand.
BeginPass ==
  /\ pc = "begin" /\ ~fenced
  /\ LET uncertain == IF uncertain_action_scan_exhausted THEN {} ELSE rows \cap {"uncertain"}
         maintain == pollDue \/ (capacity_was_full /\ Free # {})
         exhausted == IF maintain THEN rows \cap {"exhausted"} ELSE {}
         recovered == uncertain \cup exhausted
         kept == StillCurrent(recovered # {}, FALSE)
     IN /\ rows' = rows \ recovered
        /\ uncertain_action_scan_exhausted' = (uncertain = {})
        /\ retry_admission_due' = (retry_admission_due \/ maintain)
        /\ pollDue' = IF maintain THEN exhausted # {} ELSE pollDue
        /\ current' = kept \cup {"key"}
        /\ keyPaused' = paused
        /\ scanned' = (Scanned /\ recovered = {})
        /\ pc' = IF "idle_core" \in kept THEN "kind" ELSE "core"
  /\ UNCHANGED <<coreLeft, slots, mcp, paused, fenced, index, found_nothing,
                 preference, capacity_was_full>>

\* run skips the pass of a Host that launches nothing.
SkipPass ==
  /\ pc = "begin" /\ fenced
  /\ Leave
  /\ UNCHANGED <<stored, slots, mcp, paused, fenced, stateVars, current>>

\* runCoreAction admits one call, an MCP call that starts taking a place: it
\* commits, and the turn's admission ends with both memories cleared.
CoreAdmitted ==
  /\ pc = "core"
  /\ \E w \in CoreWork :
       /\ rows' = rows \ {w}
       /\ mcp' \in IF w = "mcp" THEN {mcp, mcp + 1} ELSE {mcp}
  /\ current' = StillCurrent(TRUE, FALSE) /\ Leave
  /\ UNCHANGED <<coreLeft, slots, paused, fenced, stateVars>>

\* An empty scan is remembered under the key's generation.
CoreNoWork ==
  /\ pc = "core" /\ CoreWork = {}
  /\ current' = (current \ {"idle_core"}) \cup IF "key" \in current THEN {"idle_core"} ELSE {}
  /\ pc' = "kind"
  /\ UNCHANGED <<stored, slots, mcp, paused, fenced, index, localVars, stateVars>>

\* Memory ran out under the call, or the Store failed, which fences.
CoreRetryLater ==
  /\ pc = "core"
  /\ fenced' \in {TRUE} \cup (IF CoreWork # {} THEN {fenced} ELSE {})
  /\ current' = current \ {"idle_core"}
  /\ pc' = "kind"
  /\ UNCHANGED <<stored, slots, mcp, paused, index, localVars, stateVars>>

Kind == preference[index]

\* The loop is over this kind, or left for want of a slot or of a Host that launches.
Trying ==
  /\ pc = "kind" /\ index <= Len(preference)
  /\ ~fenced /\ Free # {}
  /\ PreparationOpen(Kind) /\ (Kind = "retry" => retry_admission_due)
  /\ scanned => Kind = "retry"

SkipKind ==
  /\ pc = "kind" /\ index <= Len(preference)
  /\ ~fenced /\ Free # {} /\ ~Trying
  /\ index' = index + 1
  /\ UNCHANGED <<stored, slots, mcp, paused, fenced, pc, localVars, stateVars, current>>

KindNoWork ==
  /\ Trying /\ Found(Kind, keyPaused) = {}
  /\ index' = index + 1
  /\ retry_admission_due' = (retry_admission_due /\ Kind # "retry")
  /\ UNCHANGED <<stored, slots, mcp, paused, fenced, pc, localVars, current, preference,
                 capacity_was_full, uncertain_action_scan_exhausted, pollDue>>

\* The Store refuses the admission.
KindRetryLater ==
  /\ Trying
  /\ fenced' = TRUE
  /\ index' = index + 1
  /\ found_nothing' = (found_nothing /\ Kind = "retry")
  /\ UNCHANGED <<stored, slots, mcp, paused, pc, keyPaused, scanned, stateVars, current>>

\* The Attempt is committed and takes the first free slot, unless custody cannot
\* be attached, which fences, or its preparation cannot begin and frees it again.
KindAdmitted ==
  /\ Trying
  /\ \E w \in Found(Kind, keyPaused) : rows' = rows \ {w}
  /\ \/ /\ slots' \in {slots, [slots EXCEPT ![FirstFree] =
                                 IF Kind = "bash" THEN "bash_preparing" ELSE "model_preparing"]}
        /\ fenced' \in {fenced, TRUE}
     \/ fenced' = TRUE /\ UNCHANGED slots
  /\ current' = StillCurrent(TRUE, TRUE)
  /\ preference' = Won(index)
  /\ Leave
  /\ UNCHANGED <<coreLeft, mcp, paused, retry_admission_due, capacity_was_full,
                 uncertain_action_scan_exhausted, pollDue>>

\* The pass ends: its key is remembered if every scan found nothing, and
\* forgotten when the loop was left.
EndPass ==
  /\ pc = "kind"
  /\ LET left == index <= Len(preference)
         empty == found_nothing /\ ~left
     IN /\ left => fenced \/ Free = {}
        /\ current' = (current \ (IdleAdmission \cup {"key"}))
                        \cup IF empty /\ "key" \in current THEN {IdleUnder(keyPaused)} ELSE {}
  /\ Leave
  /\ UNCHANGED <<stored, slots, mcp, paused, fenced, stateVars>>

-----------------------------------------------------------------------------
(* The rest of the turn.                                                   *)

\* A preparation is launched or ends, and what runs ends.
Moves(arm) == IF arm = "free" THEN {} ELSE IF arm = "busy" THEN {"free"} ELSE {"busy", "free"}

\* Slots move along, MCP calls end, each by a settlement that commits; other
\* steps of it commit too, and a failing one fences.
Serve ==
  /\ slots' \in {f \in [Slots -> Arms] :
                  \A s \in Slots : f[s] = slots[s] \/ f[s] \in Moves(slots[s])}
  /\ fenced' \in {fenced, TRUE}
  /\ mcp' \in 0..mcp
  /\ \E committed \in BOOLEAN :
       /\ mcp' # mcp /\ ~committed => fenced'
       /\ current' = StillCurrent(committed, slots' # slots)
  /\ UNCHANGED <<stored, paused, index, localVars>>

\* The lifecycle service after the pass, and whether it left a free slot.
Lifecycle ==
  /\ pc = "lifecycle" /\ pc' = "transport"
  /\ Serve
  /\ capacity_was_full' = (\A s \in Slots : slots'[s] # "free")
  /\ UNCHANGED <<preference, retry_admission_due, uncertain_action_scan_exhausted, pollDue>>

\* Transport, one completion, a lifecycle service, model preparation, and the
\* service the next turn begins with.  A Host that is ending leaves the loop.
Transport ==
  /\ pc = "transport"
  /\ Serve
  /\ pc' \in {"begin"} \cup (IF fenced' THEN {"ended"} ELSE {})
  /\ UNCHANGED stateVars

-----------------------------------------------------------------------------
(* The other threads and the clock.                                        *)

Others == UNCHANGED <<slots, mcp, pc, index, localVars, preference, retry_admission_due,
                      capacity_was_full, uncertain_action_scan_exhausted>>

\* A commit of a client's command, or of a save: work may come with it.
Commit ==
  /\ \E arrived \in SUBSET (Rows \cap {"bash", "message", "joining", "tool_continuation", "core", "mcp"}) :
       /\ Cardinality(arrived) <= 1 /\ arrived \cap rows = {}
       /\ arrived \cap CoreRows # {} => coreLeft > 0
       /\ rows' = rows \cup arrived
       /\ coreLeft' = IF arrived \cap CoreRows # {} THEN coreLeft - 1 ELSE coreLeft
  /\ current' = StillCurrent(TRUE, FALSE)
  /\ UNCHANGED <<paused, fenced, pollDue>> /\ Others

\* A retry's time comes, or its last one passes, with no commit.
RetryComesDue ==
  /\ \E r \in (Rows \cap {"retry", "exhausted"}) \ rows : rows' = rows \cup {r}
  /\ UNCHANGED <<coreLeft, paused, fenced, pollDue, current>> /\ Others

PollComesDue ==
  /\ ~pollDue /\ pollDue' = TRUE
  /\ UNCHANGED <<stored, paused, fenced, current>> /\ Others

\* A pause or a resume commits nothing.
PauseTurns ==
  /\ paused' = ~paused
  /\ UNCHANGED <<stored, fenced, pollDue, current>> /\ Others

HostFences ==
  /\ ~fenced /\ fenced' = TRUE
  /\ UNCHANGED <<stored, paused, pollDue, current>> /\ Others

-----------------------------------------------------------------------------
Init ==
  /\ \E early \in SUBSET (Rows \cap {"uncertain"}) : rows = early
  /\ coreLeft = MaxCore
  /\ slots = [s \in Slots |-> "free"] /\ mcp = 0
  /\ paused \in BOOLEAN /\ fenced = FALSE
  /\ pc = "begin" /\ index = 1
  /\ keyPaused = FALSE /\ scanned = FALSE /\ found_nothing = TRUE
  /\ preference = Preference /\ retry_admission_due = TRUE /\ pollDue = TRUE
  /\ capacity_was_full = (Slots = {}) /\ uncertain_action_scan_exhausted = FALSE
  /\ current = {}

AdmitWork ==
  \/ RecoveryFails \/ BeginPass \/ SkipPass \/ CoreAdmitted \/ CoreNoWork \/ CoreRetryLater
  \/ SkipKind \/ KindNoWork \/ KindRetryLater \/ KindAdmitted \/ EndPass

Turn == AdmitWork \/ Lifecycle \/ Transport

Next == Turn \/ Commit \/ RetryComesDue \/ PollComesDue \/ PauseTurns \/ HostFences

Spec == Init /\ [][Next]_vars

\* The owner's loop keeps turning, polls come due, and whatever holds a slot
\* moves on in the end: processes by their watchdog, transfers by their timeouts.
FairSpec ==
  /\ Spec
  /\ WF_vars(Turn) /\ WF_vars(PollComesDue)
  /\ \A s \in Slots : SF_vars(Transport /\ slots'[s] # slots[s])

-----------------------------------------------------------------------------
(* Properties.                                                             *)

TypeOK ==
  /\ rows \subseteq AllRows /\ coreLeft \in 0..MaxCore
  /\ slots \in [Slots -> Arms] /\ mcp \in 0..McpCapacity
  /\ paused \in BOOLEAN /\ fenced \in BOOLEAN
  /\ pc \in {"begin", "core", "kind", "lifecycle", "transport", "ended"}
  /\ index \in 1..(Len(preference) + 1)
  /\ keyPaused \in BOOLEAN /\ scanned \in BOOLEAN /\ found_nothing \in BOOLEAN
  /\ preference \in Seq(Kinds)
  /\ retry_admission_due \in BOOLEAN /\ capacity_was_full \in BOOLEAN
  /\ uncertain_action_scan_exhausted \in BOOLEAN /\ pollDue \in BOOLEAN
  /\ current \subseteq Memories

\* A kind whose scans are remembered could admit nothing now.
NothingFor(k, held) == k # "retry" /\ PreparationOpen(k) => Found(k, held) = {}

\* Nothing waits behind a remembered empty scan: while the key stands, no Bash
\* call, no message that may be taken up and no continuation could be admitted
\* now; while the core generation stands, no core call and no MCP call that has
\* a place.  Commits between the key and the scans, slots and MCP places freed
\* without a commit of their own, and resumes all race the memory.
NoWorkOverlooked ==
  /\ ~fenced /\ Scanned /\ Free # {} =>
       \A i \in DOMAIN preference : NothingFor(preference[i], paused)
  /\ ~fenced /\ "idle_core" \in current => CoreWork = {}

\* No kind of work is kept out of the slots by the others, however fast they
\* come: what waits is taken, unless a pause takes it back or the Host fences.
NoKindStarves ==
  \A i \in DOMAIN Preference :
    LET k == Preference[i] IN Found(k, paused) # {} ~> Found(k, paused) = {} \/ fenced

=============================================================================
