# Rui: TLA+ models and proofs

Rui is an agent runtime: one Host process runs many Sessions. A Session takes
Messages, works on them in Turns, and each Turn is a chain of model Operations whose
answers propose Actions (a Bash command, or a core call on another Session). All state
that matters is in one Store (SQLite or MySQL); the Host's memory only holds what is
running. This directory models the parts that the rest stands on:

1. how threads share the Store and what a write is told (`StoreQueue`),
2. what the Store's rows and the Host's slots do under commands, Attempts, failures and
   restarts (`SessionCore` and the modules under it),
3. how the execution owner finds work, and may take none for granted (`Admission`),
4. one slot with its Bash process, down to the system calls (`BashSlot`), and
5. how an upgrade replaces the running Host without mistaking one process for another
   (`HostActivation`).

Source paths below are relative to `src/src/`.

## Inventory

| Component | State | Operations | Hard behaviour | What makes it correct |
|---|---|---|---|---|
| Store queue (`store/queue.zig`) | `held`, `owner`, FIFO of jobs, drain locals | `run`, `callHeld`, `write`, `release`, `drain`, `take` | threads, lost wake-ups, hand-over, batches | one holder; every caller returns; no answer before COMMIT |
| Store transactions (`store/Store.zig`) | batch state, open transaction, fence, next identity | `startBatch`, `finishBatch`, `begin`, `commit`, `rollbackAfterError`, `loadIdentities` | one write of a batch fails; COMMIT of unknown outcome; crash | rows and identities agree; a batch is durable as a whole |
| Turn rules (`store/domain/turn.zig`, `turn_policy.zig`) | `turn` rows, stored continuation, owed stops and endings | close, record a continuation, owe, complete a stop | a cached predicate with many writers | the cached column agrees with its predicate |
| Commands (`store/domain/command.zig`) | `core_command`, `message_admission`, `session_stop`, `session_archive` | submit, create, stop, archive, restore, interrupt, decide; the core's own: owed stop, ending, agent message, agent start | retries of a key; commands between any two steps of the Host | a stop is final; one key admits one Message |
| Model Operations (`model_admission.zig`, `model_settlement.zig`, `retry_policy.zig`) | `model_operation` rows | admit, retry, claim a refresh, settle, recover an exhausted Attempt | late results, retries while a slot holds the Operation | a Resolution is final; no Turn is stuck |
| Actions (`action.zig`) | `action_operation` rows | admit, validate a dispatch, settle, recover, `nextCoreWork` | a process of unknown outcome | a command runs at most once |
| Feed forwarding (`forward.zig`) | `session_forward` rows | queue, deliver one hop | a crash between hops | every ancestor sees the fact once |
| Execution owner (`server_execution.zig`, `execution_turn.zig`, `execution.zig`) | slots, `uncertain_action_scan_exhausted`, core work in progress | admissions, launches, completions, cancellation, reclaim | Store calls of other threads between its own | slots and rows agree |
| Admission pass (`execution_turn.zig`) | remembered empty scans, preference, retry poll, `capacity_was_full` | begin a pass, core work, a scan per kind, the rest of a turn | commits and pauses between two scans; memories that outlive what they saw | no memory hides work; no kind starves |
| Bash slot (`server_execution.zig`, `execution.zig`, `bash.zig`, `BashLifecycle.zig`, `bash_platform.c`) | slot arm, `CustodyRecord`, process phase, deadlines, pipes | prepare, launch, service (read, reap, probe, finish), deliver, clean up, shut down | exit, deadline, stop, failed calls and shutdown in any order; reused process numbers | signals reach its own group only; a saved result is what happened; every delivery closes |
| Host launch and upgrade (`HostLifecycle.zig`, `host_launch.c`, `host_identity.c`) | `Plan`, snapshot, receipts and gate of a launch | `observe`, `activate`, `startPinned`, `launch_detached`, `rui_process_snapshot` | reused pids, three processes and two pipes, any of them dying | stops only what it read; reports only its own child |
| Host (`server_host.zig`, `server.zig`) | phase, dispatch fence | fence, stop, drain, start | failure at any step | recovery finds everything the last Host left |

Components interact only through the Store's entry points: client connections (one
thread each) and the execution owner (one thread) call them; each call takes the Store
through the queue, runs one transaction, and returns. The execution owner additionally
starts provider transfers and Bash processes, whose ends come back as slot events.
Not modelled yet, or not at all, with the reason: see "Not modelled" and `PROJECT.json`
(`components`). What is hard to test, line by line: `PROJECT.json` (`hazards`).

## Modules

| Module | Models | Remarks |
|---|---|---|
| `StoreContract` | what callers of the Store rely on | abstract: `Commit` of a group of rows, `Reply` to one call |
| `StoreQueue` | `queue.zig` and the batch half of `Store.zig` | one action per critical section of the code; refines `StoreContract` |
| `StoreQueueProofs`, `StoreOrderProofs` | theorems about `StoreQueue`: who holds it and what a write is told; waiters, batches, identities and the refinement | checked by TLAPS |
| `StoreTables` | the rows, reads and writes that every entry point shares | no state of its own: operators from a database to a database |
| `Command`, `ModelOperation`, `ActionOperation` | one operator per entry point of the three domain files | each extends the one before |
| `SessionCore` | the Host: clients, the execution owner, failures | the state machine and its properties |
| `Admission` | `execution_turn.zig`'s `admitWork` over the scans of `NativeTurn` | the loop around `SessionCore`'s admissions |
| `BashSlot` | one `ExecutionSlot` with a Bash Attempt | detail under `SessionCore`'s `preparing`, `running` and `closed` slots |
| `HostActivation` | an upgrade's client, the launch helper, its child, and processes around them | one action per receipt, read or reply |
| `StoreTablesProofs`, `StoreEntryProofs` | lemmas about the operators of `StoreTables`, and of the three entry point modules | checked by TLAPS |
| `SessionCoreProofs` | theorems about `SessionCore` | checked by TLAPS |
| `AdmissionProofs`, `BashSlotProofs`, `HostActivationProofs` | theorems about the three above | checked by TLAPS |
| `MCStoreQueue`, `MCSessionCore`, `MCAdmission`, `MCBashSlot`, `MCHostActivation` | instances for TLC | constants, parents, proposed calls, symmetry |

### StoreQueue

`pc[t]` says where thread `t` is in an entry point: `taken` or `woken` (it has or was
handed the Store), `body` and `holding` (a read, or `callHeld`), `write` (its own write),
`drain`, `running` (a queued write's body runs in the holder's thread), `answer`
(`answerBatch`). `frame[t]` holds `drain`'s locals. `job[t]` is the `Job` on the caller's
stack. Everything done under the queue's mutex is one step; the wake-up (`done.set`) and
the caller's continuation are separate steps. A write is one row that takes the next
identity; its body may succeed, fail alone (its savepoint is undone and identities are
read back), fence the Store, or lose the whole transaction. A COMMIT that reports failure
may or may not have taken effect. `Crash` loses everything but `durable`; the next process
reads its identities from it. `doubt` and `answers` are history.

### SessionCore

`db` is the committed database, a record of tables whose columns are those the properties
tell apart. An entry point is an operator `d -> d`, equal to `d` when the code answers
from a saved command, a conflict or a stale binding. One entry point is atomic because the
queue runs bodies one at a time (`ExclusiveHold`, proved) and because a failed body leaves
no row (`ImplementsContract`, proved). Everything that takes two entry points in the code
takes two steps here, with any other thread's command in between: reading core work and
running it, admitting an Attempt and launching it, owing a stop or an ending and running
it, one hop of a feed row and the next.

Two pairs that look like two steps in the code are one here. `withDispatchHandoff` and
`withActionDispatchHandoff` validate a binding and launch while the Store is held, and
the launch is checked against the fence under `launch_mutex`; so validation and launch are
one action.

`slots` holds the occupied `ExecutionSlot`s: a model Attempt is `preparing`, `running` or
`refreshing`; a Bash is `preparing`, `running`, or `closed` (delivered, not reclaimed).
`phase` is `open`, `fenced` (`retainDispatchFence`: nothing new, what runs goes on) or
`stopping` (`fenceDispatch`, `host_stop`, draining). A Host whose Store call failed does
nothing more but shut down; `StartHost` and `Crash` begin the next one on the same `db`.

Abstractions, and why they lose nothing the properties need:

- content, positions, revisions and times are left out; a retry may or may not be due;
- context pressure and whether an overflow can be mended are nondeterministic choices;
- the target of a core call is chosen when it runs (the model, not the Host, chose it);
- the order of owed stops is by a random reference in the code, so any order here;
- `read_transcript` stands for `find_tools`, `skill` and itself: none has an effect on
  these tables besides its result;
- a configured provider (`@served`) is assumed;
- an ordinary failure that carries an overflow code is not produced by any caller;
- draining is merged with stopping (`BashSlot` tells them apart), and pausing is in
  `Admission`; `Queue.closing` and the test-only `borrow` are left out.

`SessionCore` assumes two things of the slot and the loop it is run by, which the next two
modules are about: that work waiting in the Store is found and that a Bash slot delivers.

### Admission

A pass takes one step per scan, with any commit, pause or slot event in between. The code
remembers the key (commit generation, slot changes, pause) of the last pass that found
nothing, and the generation at which core work was empty. Only whether a memory still
agrees with the present is ever used, so `current` is the set of those that do: a commit
empties it, a slot event takes out the ones that count slots. `rows` is what waits in the
Store, by kind; `joining` is input for an open Turn, which a pause does not hold back. MCP
work is looked for only while a place in `mcp` is free, though the memory of empty core
work does not count places: it is safe because a call that ends commits, or fences.

### BashSlot

`slot`, `delivery`, `accepted` and `custody` are the slot's arm and its custody record;
`life` and `pipes` are `BashLifecycle`'s; `at` is the place in a service of the process
(read each pipe, reap, probe the group, read the tails, finish, deliver). Time is what is
left of each deadline, and moves only where the code reads the clock. `alive`, `zombie`,
`status`, `foreign`, `holds` and `queue` are the kernel's side: processes fork into or out
of the group, keep write ends open, and end at any moment; once the leader is reaped and
the group is empty its number may name a stranger's group. `misdirected` is history: a
signal went to such a number. Preparation, the launch, each system call, the settlement
and the revocation of the sender's handle may fail where the code handles a failure.

### HostActivation

A process is a pid, which the system reuses, and a start time, which it does not. Around
the client, processes start, die, execute other programs, and take or leave the Store's
lease. `rui_process_snapshot` is six reads, `launch_detached` three processes over the
receipts' pipe and the gate, and each step of either is one action; the client, the helper
and the child may die between any two. Reads go by pid number, as
on Darwin. Linux reads through a descriptor of `/proc/<pid>`, which refers to one process
for good and so allows fewer mix-ups than the model does.

## Runs

All with two workers; CHECK_DEADLOCK is off because clients may stop sending and every
bounded behaviour ends.

| Run | Bounds | Distinct states | Shows |
|---|---|---|---|
| `store_queue` | 3 threads, drain limit 2, 4 calls, 1 crash | 587,194 | exclusive hold, no stranded waiter, reads see only committed rows, success only after COMMIT, "lost" only with one's own batch, identities follow arrival, the batch protocol, refinement of `StoreContract` |
| `store_queue_live` | 3 threads, drain limit 1, 3 calls | 91,708 | every call returns |
| `session_controls` | 1 Session, 3 keys, 2 Operations, 2 Actions, 2 Attempts, compaction | 266,436 | stops, an archive, interruptions and decisions against everything in flight: the stored continuation agrees with its predicate, a stop is final |
| `session_recovery` | the same with 2 keys and 2 failures | 389,450 | crashes, fences and stops of the Host at every step, under every client command: nothing left behind, no stuck Turn, no stale slot, no command run twice, no Resolution overwritten |
| `session_family` | parent, child and a third Session, 2 keys, 3 Operations, 1 Action | 300,306 | core calls, owed stops and endings |
| `session_archive` | parent and child, 3 keys, 2 Operations, 2 Actions | 294,778 | archive, restore and endings |
| `session_family_live` | parent and child, 2 keys, 1 failure, fair | 111,768 | a Message is taken, an owed stop ends the Turn, an ending is settled |
| `session_forward` | chain of three, 2 keys, 2 Attempts, 1 failure, fair | 120,030 | facts climb to every ancestor, a stopped Turn closes |
| `bash_slot` | 1 stream, a member and an escaped child, deadline and grace of 1 tick, cleanup of 2, fair | 453,526 | signals, results, custody, the sender's handle; every delivery closes |
| `admission` | 2 slots, 2 kinds, 1 MCP place, 2 pieces of core work, fair | 301,920 | no work overlooked, no kind starves |
| `host_activation` | 2 pids used twice, 2 executables, 2 instances | 736,888 | stops only the Host it read, ready is its own child, no target runs unrecorded |
| `ending_doc` | parent and child | violation | see "Finding" |

Why the bounds are enough for the cases meant: a drain limit below the number of calls
makes holders hand over with writes still queued; three threads give a holder, a queued
write and a queued reader at once, and four calls let a thread come back while its first
answer is pending. Two Operations are a Turn that continues, or a Turn and its successor;
two Actions are one in flight and one waiting; two Attempts are a retry and an exhausted
one; two failures are a failure during recovery from the first. Three Sessions in a chain
are the least with an inner hop. A process and one that inherits its pipes, inside or
outside the group, are the least that keep a group or a stream alive past the leader; a
second stream is serviced by the same steps. Two slots let one be taken while another
frees; with two kinds the one that was not preferred must get its turn, and the two chosen
share the limit on preparation while one of them is polled. Two pids used twice are a pid
of the Host or of the child given to a stranger while another process goes on. Symmetry is
over client keys, threads, pids or instances, which nothing orders, and is off where
liveness is checked.

Fairness. `StoreQueue`: a thread inside an entry point keeps running (no thread must make
a call). `SessionCore`: the execution loop visits every slot and every kind of admission
in each pass (`execution_turn.run`), a provider transfer ends by its inactivity limit, a
Bash by its deadline or the stop's signals, and whoever runs the Host starts it again.
Weak fairness of each of these is all that is assumed; clients need never act.
`BashSlot`: the execution owner keeps running, and the clock moves whenever it is read often
enough; nothing is assumed of the processes, which may ignore signals, hold pipes open and
never exit. A group not seen to be gone by the cleanup deadline fails the slot, which
fences the Host and closes the delivery. `Admission`: the turn goes on, the retry poll falls due, and a slot in
use moves on when it could again and again (which `BashSlot`'s `DeliveryCloses` is the
reason for, on the Bash side).

### Finding

`ARCHITECTURE.md:640` says that every attached child Turn ending owes its parent a
Message, and excepts only endings caused by the parent's owed stop. `owe_ending`
(`store/domain/turn.zig:152`) owes nothing while the child owes a stop, whatever ended the
Turn: the child of a stopped parent whose own model Attempt fails first ends unheard, and
its ending starts no feed row. The comment above `owe_ending` describes what the code does.

## Proofs

`StoreQueueProofs` proves, for any set of threads, any drain limit and any number of calls
and crashes, from `ThreadsAssumption` (the no-owner value is no thread) and
`BoundsAssumption` (the bounds are naturals):

- `StoreQueueTypes`: `Spec => []TypeOK`;
- `OneHolder`: `Spec => []ExclusiveHold`;
- `NoEarlySuccess`: `Spec => []AnsweredIsDurable`;
- `LostOnlyWithOwnBatch`: `Spec => []LostOnlyWithItsBatch`.

`ExclusiveHold` is not inductive: a hand-over wakes the head of the queue, and that this
gives one holder depends on the woken thread sleeping until then. `HoldInv` adds where a
sleeping thread can be: in the queue (`QueueSleeps`), among the holder's batched writers
(`BatchSleeps`) or the one whose body runs (`RunningSleeps`), each at most once and asleep,
and that a thread outside `drain`, or in it with no batch open, has batched nobody
(`NothingBatched`). `DurableInv` follows
a write's row from the open transaction into the committed rows: `BatchRows` (a batched
writer whose body succeeded has its row in the open transaction unless the batch is lost),
`AnswerRows` (once the batch is closed as committed, in the durable rows), `OwnRow` and
`WokenRow` (the same for the holder's own write and for a caller already woken), and
`OwnFrame`, `FreshFrame` for `drain`'s `first` and `committed`, which is what keeps a later
batch from answering for the holder's own. Both are preserved by each action, one lemma
per action.

`StoreOrderProofs` builds on these two, from the same assumptions:

- `NobodyIsStranded`: `Spec => []NoStrandedWaiter`;
- `BatchesAlternate` and `ReadersSeeCommitted`: `Spec => []BatchProtocol` and
  `Spec => []ReadsOnlyCommitted`;
- `IdentitiesFollowArrival`: `Spec => []IdentityFollowsArrival`;
- `QueueKeepsContract`: `Spec => ImplementsContract`.

`WaitInv` says where a sleeping thread is: in the queue, in the batch of a thread that
drains, or in the hands of one that runs its body (`Placed`), that no other thread keeps
such places (`QuietFrames`), and that a queue that is not empty belongs to a held Store.
`HoldInv` says at most one place, `WaitInv` at least one. `BatchInv` ties the batch to where
its holder is, for each `pc` (`BatchAt`), and keeps the open transaction empty outside a
batch of a Store that is not fenced (`BatchRowsOnly`). That durable identities follow the
order of arrival takes two invariants. `CallInv` is about who comes next: each caller has a
call of its own (`OwnCall`), its place in the code says whether its body ran (`BodyRan`),
and the queue is in order of arrival behind the caller in front (`InOrder`). `RowInv` is
about rows: durable rows and open ones are in order together (`RowOrder`), they come before
whatever has not run (`RowsBefore`), the next identity is the one after them, which a
restart would read back (`NextRow`), the rows of an open batch are its callers' successful
writes (`BatchMembers`), and a call that has not succeeded has none (`NoRow`). The
refinement maps `durable` and `answers` to the contract's `committed` and `replies`: a
COMMIT that took effect is its `Commit`, the return of a caller its `Reply`, everything else
a stutter.

`SessionCoreProofs` proves, for any Sessions and tree of parents, any client keys,
proposals, capacity and number of Operations, Actions, Attempts and failures, from
`AttemptsAssumption`, `BoundsAssumption`, `ParentsAssumption` (a parent exists before its
child) and `ProposalsAssumption` (a proposal is a sequence of calls with verdicts):

- of every state: `TypesHold` (`TypeOK`), `NothingIsLeftBehind`, `ContinuationAgrees`,
  `NoTurnIsStuck`, `NoSlotIsStale`, `ScanStrandsNone`, `EachIsToldOnce`,
  `ParentsStopIsNotTold`, `ArchivedIsNotTold`, `NoFactIsDropped`;
- of every step: `ProcessStartsOnce`, `SettledStays`, `StopStays`, `NothingEntersAnArchive`,
  `CoreHeedsStops`.

The first inductive invariant is `Inv` (theorem `InvHolds`). Its part about the database is
`Tables` (the types of the rows and what each refers to) and `TurnRules`: work is unresolved
only at the Operation its open Turn is at (`Behind`), calls come from an answer that
proposed them (`ActionWasProposed`), core calls need no decision and make no Attempt
(`ToolRules`), and each open Turn's `TurnRule`: the stored continuation agrees with its
predicate, a stopped Turn waits for Actions in flight and nothing else (`StoppedWaits`), and
any other goes on (`GoesOn`). `TurnRule` is false in the middle of a transaction, which
resolves an Action in one write and closes or continues its Turn in a later one.
`StoreTablesProofs` therefore shows for each write of `StoreTables` that it disturbs the
rule of one Turn at most (`TurnsBut`), and for the ones that end a transaction (`CloseTurn`,
`CompleteStop`, `RecordContinuation`) that they restore it. `StoreEntryProofs` composes the
writes into entry points, and says what each keeps beyond the rules: `Advances(d, r, O, A)`
(nothing settled, closed, delivered or taken is undone, and of what is unresolved only the
Operations `O` and Actions `A` may change, but for interruption and for cancellation before
an Attempt), `Seated` (no Turn moves on), `StopsRespected` and `ArchiveRule`. The calls of
an answer are imported by a recursive function over the answer; that an import keeps a fact
is proved by the least number of calls after which it would not hold, since the library's
induction theorems cannot be instantiated here.

`HostInv` adds the Host: every slot fits its row (`Slots`: a model slot's Attempt is the
Operation's latest, running or interrupted by a control; a Bash slot's Action was attempted,
and is unresolved until its delivery closes), a launched Action was attempted (`Launched`),
core work that was read still names rows that exist (`Work`), and while the Host is open and
its scan found nothing every Attempt in flight has its slot (`Covered`). Each action of
`SessionCore` is shown to be a `GoodStep`: it keeps `Inv`, is a `StoreStep` (`Advances`,
`StopsRespected`, `ArchiveRule` and the rule for core calls) and starts no process twice
(`LaunchRule`). The invariants follow from `Inv`, the action properties from `GoodStep`.

The second inductive invariant is `Posted` (theorem `PostedHolds`, relative to `Inv`): what
Sessions tell each other. `Mail` says that a key has one Message (`OneMessagePerKey`), that
a Turn owes its ending once, when it has closed (`EndingsOwed`), that an ending that was
told was owed, not suppressed, and not of a Turn its parent's stop selected (`EndingsTold`),
and that what an archived parent is owed is suppressed (`ArchivedHearsNothing`). `CallsTold`
says that a call on another agent has its Message exactly when it succeeded, and that no
Message is under the key of a call that does not exist yet, without which a later call would
inherit one. `Hops` says that a fact has at most one feed row for one target (`OneForward`),
and that each approval asked for, ending delivered and row delivered has one at the next
ancestor (`ApprovalRows`, `DeliveredRows`, `NextRows`).

`BashSlotProofs` proves `TypesHold`, `SignalsAreItsOwn`, `UnsettledEnds`, `ResultsAreHonest`
and `SenderEndsWithRunning`, for any streams, exit statuses, deadlines, pipe sizes, kinds of
children and phases. The layers, each used by the next: `NumberInv` (while the lifecycle may
signal, the leader is unreaped, so the number is still ours), `CustodyInv` (custody is
attached exactly while a result may be saved), `StatusInv` and `PipeInv` (what the lifecycle
recorded is what the kernel said, and an end of file means no writer and no byte left),
`SavedInv` (a result is saved only of a retired process), `SenderInv` (a process that left
running keeps its handle only until the service in which it did so returns).

`AdmissionProofs` proves `TypesHold` and `NothingIsOverlooked`, for any order of kinds, rows,
slots and places. `KnownInv` says what each memory means: `IdlePart` (a current idle key:
nothing to admit with these slots), `CorePart` (the same for core work), `PassPart` (the key
of the pass in progress, if it is still current, vouches for the scans already done).

`HostActivationProofs` proves `StopsWhatItRead`, `ReadyNamesTheTarget` and
`RecordedBeforehand`, for any pids, executables, configurations and instances and any number
of restarts of a pid; it needs no assumption on the constants. `WorldInv` is about the
processes around (`ProcessInv`, `HostInv`, `ChildInv`: start times grow, a lease is held by a
live process that executes what it did when it took it, and no two Hosts share an
instance); `LaunchInv` about the pipes (`ReceiptInv`, `RecordInv`, `ConfirmInv`: what a
receipt names, and that a child beyond its gate was recorded first); `ReadInv` about the
snapshot and plan (`SnapshotInv`, `PlanInv`, `VerifyInv`, `ReadyInv`: a Host that answered
before and after a read was the process read, and what matches the launch is the child).

Every safety invariant, every action property and the refinement that a run checks is thus
a theorem. What stays with TLC is liveness (`EveryCallReturns`, `MessageIsTaken`,
`OwedStopEndsTurn`, `EndingIsSettled`, `StopCompletes`, `EveryAncestorIsAsked`,
`DeliveryCloses`, `NoKindStarves`): it rests on fairness, whose meaning is ENABLED, which the
provers do not handle. `EveryChildEndingIsOwed` is false of the code (see "Finding").

## Plan

Done: the modules above, and proofs of every safety property the runs check. Next, most
important first:

1. A proof that `BashSlot` implements the Bash slots of `SessionCore`.
2. MCP calls in `ActionOperation` (one at a time per Session) and `server_mcp.zig`'s
   running calls.
3. `ChangeRing`: cursors against overwriting; `turn_states.zig` as operators.
4. `ScratchBudget` and `output_retention.zig`; `retry_policy.decide` against a reference.
5. `Credential`: `codex_credential_policy.zig` between processes; `Submission`: the
   terminal client's resend, composed with `Command`'s keys.

## Not modelled

The byte-level transports (`h2/`, `http1/`), the provider codecs, the SQL builder and
dialects, migration, the terminal UI, the CLI and the installation of files are I/O,
encoding or presentation: their effect on the models is a nondeterministic outcome (a
transfer succeeds or fails, a command arrives again). Reads and reports write nothing.
The programs under `research/` are measurements and experiments kept with their results;
the product is not built from them.

Left out of modelled parts:

- `BashSlot`: what is recorded when delivering a signal fails, wait statuses the platform
  does not name, the faults tests inject, decoding the input and wording the result, and
  more than one slot (slots share nothing but the Host's phase).
- `Admission`: reconciling controls after a lost hint (only what it does to slots), the
  choice of how long to wait, listings and tracing.
- `HostActivation`: the descriptor limit, the unpinned launch of an ordinary start, the
  startup text, deriving and encoding a launch specification (a nondeterministic outcome),
  an older release's pause command (a stop that may fail), the Darwin bootstrap's framing.
