------------------------------- MODULE BashSlot ------------------------------
(***************************************************************************)
(* One execution slot of the Host while it holds a Bash Attempt:           *)
(* server_execution.zig's slot arms and custody, bash.zig's service of the *)
(* process, BashLifecycle.zig's value transitions, and the native calls of *)
(* bash_platform.c against the kernel's processes, pids and pipes.         *)
(*                                                                         *)
(* One thread, the execution owner, takes every step of the slot.  The     *)
(* processes run, fork, write and exit between the system calls of a       *)
(* service; Session stops and the Host's shutdown come from other threads. *)
(*                                                                         *)
(* Time is kept as what is left of each deadline.  The code reads the clock *)
(* when a service begins and after every read of a pipe, and uses that one  *)
(* observation until the next: so the clock may move exactly there.        *)
(***************************************************************************)
EXTENDS Integers, Sequences

CONSTANTS
  StreamOrder,   \* the captured streams in the order they are serviced
  ExitStatus,    \* how a leader may end: [kind |-> "exited" | "signal", value |-> Nat]
  Timeout,       \* bash_timeout_ms, in ticks
  Grace,         \* termination_grace_ms
  Cleanup,       \* cleanup_observation_ms
  MaxQueued,     \* bytes a pipe holds at once
  Children,      \* what a process may fork: "member" of its group, "escaped" from it
  OtherPhases    \* where other threads may move the Host's phase

ASSUME StreamAssumption == StreamOrder \in Seq({"stdout", "stderr"}) /\ StreamOrder # <<>>
ASSUME StatusAssumption == ExitStatus \subseteq [kind : {"exited", "signal"}, value : Nat]
ASSUME TickAssumption == Timeout \in Nat /\ Grace \in Nat /\ Cleanup \in Nat
ASSUME BoundAssumption == MaxQueued \in Nat
ASSUME EnvironmentAssumption ==
  Children \subseteq {"member", "escaped"} /\ OtherPhases \subseteq {"fenced", "draining", "stopping"}

Streams == {StreamOrder[i] : i \in DOMAIN StreamOrder}

VARIABLES
  phase,      \* Host.phase
  shutdown,   \* shutdownExecution has begun
  slot,       \* the arm of ExecutionSlot
  delivery,   \* .open until the slot may no longer save a result
  accepted,   \* stop_accepted: the stop was passed to the process
  custody,    \* CustodyRecord
  life,       \* BashLifecycle's process phase, deadlines and reasons
  pipes,      \* BashLifecycle.pipes
  at, todo, fault, wasRunning,  \* the service in progress and its locals
  stopped, resolution, sender,  \* what the Store holds of the slot's last Action
  alive,      \* the running processes of the Attempt
  zombie, status,  \* the leader has ended, with this status, and is not reaped
  foreign,    \* the group's number, once free, names a stranger's group
  holds, queue,    \* who holds each pipe's write end; its bytes not yet read
  misdirected \* a signal went to a number no longer ours; read by properties only

serviceVars == <<at, todo, fault, wasRunning>>
storeVars == <<stopped, resolution, sender>>
processVars == <<alive, zombie, status, foreign>>
kernelVars == <<processVars, holds, queue>>
vars == <<phase, shutdown, slot, delivery, accepted, custody, life, pipes,
          serviceVars, storeVars, kernelVars, misdirected>>

-----------------------------------------------------------------------------
(* Values.                                                                 *)

HostPhases == {"open", "fenced", "draining", "stopping"}
Arms == {"free", "bash_preparing", "bash", "bash_prepared_cleanup"}
Processes == {"running", "grace", "reaping", "checking_group", "gone"}
StopReasons == {"none", "stopped", "timed_out", "infrastructure_shutdown", "capture_failed"}
Resolutions == {"succeeded", "failed", "cancelled", "timed_out",
                "infrastructure_shutdown", "storage_failed", "spawn_failed"}
Closed == {"eof", "incomplete", "failed"}
Group == {"leader", "member"}   \* "escaped" left the original process group

Terms == {[kind |-> e.kind, value |-> e.value % 256] : e \in ExitStatus}
NoTerm == [kind |-> "none", value |-> 0]

FreeRecord == [state |-> "free", delivered |-> FALSE, launch |-> FALSE]

Lifecycle ==
  [process : Processes, deadline : 0..Timeout, kill : 0..Grace, cleanup : 0..Cleanup,
   observed : Terms \cup {NoTerm}, stop_reason : StopReasons, capture_failure : BOOLEAN]

Pipe == [state : {"reading", "tail"} \cup Closed, owed : 0..MaxQueued]
AllReading == [s \in Streams |-> [state |-> "reading", owed |-> 0]]

-----------------------------------------------------------------------------
(* BashLifecycle.zig: each transition yields the lifecycle after it and the *)
(* signal its owner must send, "none" when there is none.                  *)

Quiet(l) == [life |-> l, signal |-> "none"]

Start ==
  [process |-> "running", deadline |-> Timeout, kill |-> 0, cleanup |-> 0,
   observed |-> NoTerm, stop_reason |-> "none", capture_failure |-> FALSE]

BeginGrace(l) ==
  IF l.process # "running" THEN Quiet(l)
  ELSE [life |-> [l EXCEPT !.process = "grace", !.deadline = 0, !.kill = Grace, !.cleanup = Cleanup],
        signal |-> "terminate_group"]

FirstReason(l, reason) ==
  IF l.stop_reason = "none" THEN [l EXCEPT !.stop_reason = reason] ELSE l

\* Mutant of RequestTermination: the group is signalled in every phase.
TerminateAnyPhase(l, reason) ==
  [life |-> BeginGrace(FirstReason(l, reason)).life, signal |-> "terminate_group"]

RequestTermination(l, reason) == BeginGrace(FirstReason(l, reason))

\* Mutant of ExpireDeadline: the reason is recorded and nothing is ended.
DeadlineRecordsOnly(l) ==
  IF l.process = "running" /\ l.deadline = 0 THEN Quiet(FirstReason(l, "timed_out")) ELSE Quiet(l)

ExpireDeadline(l) ==
  IF l.process = "running" /\ l.deadline = 0
  THEN BeginGrace(FirstReason(l, "timed_out")) ELSE Quiet(l)

AwaitsLeader(l) == l.process \in {"running", "grace"} /\ l.observed = NoTerm

ObserveLeader(l, term) == BeginGrace([l EXCEPT !.observed = term])

ExpireGrace(l) ==
  IF l.process = "grace" /\ l.kill = 0
  THEN [life |-> [l EXCEPT !.process = "reaping"], signal |-> "kill_group"]
  ELSE Quiet(l)

Reaped(l, term) ==
  [l EXCEPT !.process = "checking_group",
            !.observed = IF @ = NoTerm THEN term ELSE @]

GroupAbsent(l) == [l EXCEPT !.process = "gone", !.cleanup = 0]

\* The cleanup watchdog ran out before the group was seen to be gone.
Unconfirmed(l) == l.process \in {"grace", "reaping", "checking_group"} /\ l.cleanup = 0

Retired(l, p) == l.process = "gone" /\ \A s \in Streams : p[s].state \in Closed

Resolution(l) ==
  CASE l.stop_reason = "stopped" -> "cancelled"
    [] l.stop_reason = "timed_out" -> "timed_out"
    [] l.stop_reason = "infrastructure_shutdown" -> "infrastructure_shutdown"
    [] l.stop_reason = "capture_failed" \/ l.capture_failure -> "storage_failed"
    [] OTHER -> IF l.observed = [kind |-> "exited", value |-> 0] THEN "succeeded" ELSE "failed"

-----------------------------------------------------------------------------
(* bash_platform.c, against the kernel.                                    *)

\* waitid(WNOWAIT) leaves the zombie; both calls keep the low byte of an exit.
RuiBashObserve(e) == [kind |-> e.kind, value |-> e.value % 256]
RuiBashReap(e) == [kind |-> e.kind, value |-> e.value % 256]

\* Mutant of RuiBashGroupAbsent: a reaped leader is taken for an absent group.
LeaderAbsent == ~zombie

\* kill(-pgid, 0) fails with ESRCH: no process answers to the number.
RuiBashGroupAbsent == ~zombie /\ alive \cap Group = {} /\ ~foreign

\* A number that names nothing of ours may name another process's group.
Signal(signal) == misdirected' = (misdirected \/ (signal # "none" /\ foreign))

-----------------------------------------------------------------------------
(* server_execution.zig: custody and the slot.                             *)

\* Host.advance: forward only.
Order == [open |-> 0, fenced |-> 1, draining |-> 2, stopping |-> 3]
Later(p, q) == IF Order[p] > Order[q] THEN p ELSE q

LaunchAllowed == phase = "open"

\* moveSlot frees the slot: custody is detached and its cleanup complete.
FreeSlot ==
  /\ slot' = "free"
  /\ custody' = FreeRecord

\* settleActionAttempt: a stop that selected the Turn decides the code.
Saved(code) == IF stopped THEN "cancelled" ELSE code

\* Ends an Attempt that was never launched.  settleActionFailure claims the
\* terminal delivery and saves `code` ("none": nothing is saved), and a save
\* that fails stops the Host.  Disposal of the prepared files then frees the
\* slot, the Host at `least` or later, or fails and is retained under a fence.
EndUnlaunched(code, least) ==
  \E saved \in BOOLEAN :
    LET claims == code # "none" /\ ~custody.delivered
        p == IF claims /\ ~saved THEN "stopping" ELSE phase
    IN /\ saved => claims
       /\ resolution' = IF saved THEN Saved(code) ELSE resolution
       /\ sender' = (sender /\ ~saved)
       /\ \/ FreeSlot /\ phase' = Later(least, p)
          \/ /\ slot' = "bash_prepared_cleanup"
             /\ custody' = [custody EXCEPT !.state = "detached", !.delivered = @ \/ claims]
             /\ phase' = Later("fenced", p)

\* What the steps before a launch, and the retained cleanup, leave alone.
NotLaunched == UNCHANGED <<delivery, accepted, life, pipes, misdirected, serviceVars, kernelVars>>

\* admitBashAttempt reserves custody, admits the Action and attaches it to the
\* slot with its permit; admission gives the Attempt its sender handle.
AdmitBashAttempt ==
  /\ at = "idle" /\ slot = "free" /\ LaunchAllowed /\ ~shutdown
  /\ stopped' = FALSE /\ resolution' = "none" /\ sender' = TRUE
  /\ slot' = "bash_preparing"
  /\ custody' = [state |-> "attached", delivered |-> FALSE, launch |-> TRUE]
  /\ delivery' = "open" /\ accepted' = FALSE
  /\ UNCHANGED <<phase, shutdown, life, pipes, misdirected, serviceVars, kernelVars>>

\* The Store refuses the admission, whose reserved custody returns unused, or
\* the look for a stop: dispatch is fenced.
DispatchFails ==
  /\ at = "idle" /\ ~shutdown
  /\ slot \in {"bash_preparing", "bash"} \/ (slot = "free" /\ LaunchAllowed)
  /\ phase' = "stopping"
  /\ UNCHANGED <<shutdown, slot, custody, storeVars>> /\ NotLaunched

\* Mutant of PreparationFails: a corrupt input leaves the Host open.
PreparationFailsQuietly ==
  /\ at = "idle" /\ slot = "bash_preparing" /\ LaunchAllowed /\ ~shutdown
  /\ EndUnlaunched("none", phase)
  /\ UNCHANGED <<shutdown, stopped>> /\ NotLaunched

\* The input cannot be read, decoded or written; the Store may be the reason,
\* and then the Host stops.  A corrupt input stops it too and is not settled.
PreparationFails ==
  /\ at = "idle" /\ slot = "bash_preparing" /\ LaunchAllowed /\ ~shutdown
  /\ \/ \E code \in {"spawn_failed", "storage_failed"}, least \in {phase, "stopping"} :
          EndUnlaunched(code, least)
     \/ EndUnlaunched("none", "stopping")
  /\ UNCHANGED <<shutdown, stopped>> /\ NotLaunched

\* Dispatch is fenced before the launch: the effect is discarded, unsettled.
DiscardPrepared ==
  /\ at = "idle" /\ slot = "bash_preparing" /\ ~LaunchAllowed /\ ~shutdown
  /\ EndUnlaunched("none", phase)
  /\ UNCHANGED <<shutdown, stopped>> /\ NotLaunched

\* launchPreparedBash cannot copy the environment, or spends the launch authority
\* and, holding the Store, finds the stop that got there first, fails to create
\* the process, or is refused by the Store or the custody pool.
LaunchRefused ==
  /\ at = "idle" /\ slot = "bash_preparing" /\ LaunchAllowed /\ ~shutdown
  /\ \/ EndUnlaunched(IF stopped THEN "cancelled" ELSE "spawn_failed", phase)
     \/ EndUnlaunched("none", "stopping")
  /\ UNCHANGED <<shutdown, stopped>> /\ NotLaunched

\* rui_bash_spawn: a new session, so a new group whose number is the leader's,
\* with the write ends of both pipes.  The check and the launch share the hold
\* of the Store, so no stop comes between them.
LaunchPreparedBash ==
  /\ at = "idle" /\ slot = "bash_preparing" /\ LaunchAllowed /\ ~shutdown
  /\ custody.launch /\ ~stopped
  /\ custody' = [custody EXCEPT !.launch = FALSE]
  /\ slot' = "bash"
  /\ life' = Start
  /\ pipes' = AllReading
  /\ alive' = {"leader"}
  /\ zombie' = FALSE /\ status' = NoTerm /\ foreign' = FALSE
  /\ holds' = [s \in Streams |-> {"leader"}]
  /\ queue' = [s \in Streams |-> 0]
  /\ UNCHANGED <<phase, shutdown, delivery, accepted, serviceVars, storeVars, misdirected>>

\* stopSupersededBash before the launch.
StopBeforeLaunch ==
  /\ at = "idle" /\ slot = "bash_preparing" /\ stopped /\ ~shutdown
  /\ EndUnlaunched("cancelled", phase)
  /\ UNCHANGED <<shutdown, stopped>> /\ NotLaunched

\* advanceRetainedCleanup tries again what a disposal left.
RetainedCleanup ==
  /\ at = "idle" /\ slot = "bash_prepared_cleanup"
  /\ FreeSlot
  /\ UNCHANGED <<phase, shutdown, storeVars>> /\ NotLaunched

\* failBash: the Host stops and the slot gives up saving a result.
FailBash ==
  /\ phase' = "stopping"
  /\ delivery' = "closed"
  /\ custody' = [custody EXCEPT !.state = "detached"]

\* revokeActionSender, and failBash when the Store refuses it.
RevokeSender ==
  \/ sender' = FALSE /\ UNCHANGED <<phase, delivery, custody>>
  \/ UNCHANGED sender /\ FailBash

\* stopSupersededBash of a launched process: once per Attempt.
StopLaunched ==
  /\ at = "idle" /\ slot = "bash" /\ stopped /\ ~accepted /\ ~shutdown
  /\ accepted' = TRUE
  /\ LET r == RequestTermination(life, "stopped") IN life' = r.life /\ Signal(r.signal)
  /\ RevokeSender
  /\ UNCHANGED <<shutdown, slot, pipes, serviceVars, stopped, resolution, kernelVars>>

\* shutdownExecution signals every process before it waits for any.
ShutdownExecution ==
  /\ at = "idle" /\ phase \in {"draining", "stopping"} /\ ~shutdown
  /\ shutdown' = TRUE
  /\ CASE slot = "bash" ->
            /\ LET r == RequestTermination(life, "infrastructure_shutdown")
               IN life' = r.life /\ Signal(r.signal)
            /\ UNCHANGED <<phase, slot, delivery, accepted, custody, pipes, serviceVars, storeVars, kernelVars>>
       [] slot = "bash_preparing" ->
            EndUnlaunched("none", phase) /\ UNCHANGED stopped /\ NotLaunched
       [] OTHER -> UNCHANGED <<phase, slot, custody, storeVars>> /\ NotLaunched

-----------------------------------------------------------------------------
(* bash.zig's serviceWithTime, cut where what a process does between two   *)
(* system calls can matter; calls that read different things share a step. *)

\* What a step of a service leaves alone.
SlotKept == UNCHANGED <<phase, shutdown, slot, delivery, accepted, custody, storeVars>>

\* observeLeader, after the due deadline was applied: [life, signal, fault].  A
\* failing call asks for the end of the process.
Observed(l) ==
  IF ~AwaitsLeader(l) THEN {[life |-> l, signal |-> "none", fault |-> FALSE]}
  ELSE LET failed == RequestTermination(l, "infrastructure_shutdown")
           seen == IF zombie THEN ObserveLeader(l, RuiBashObserve(status)) ELSE Quiet(l)
       IN {[life |-> failed.life, signal |-> failed.signal, fault |-> TRUE],
           [life |-> seen.life, signal |-> seen.signal, fault |-> FALSE]}

\* The read ends of S are closed before their end: what is queued is discarded,
\* and who may still write is nobody's concern.
Abandon(S) ==
  /\ queue' = [s \in Streams |-> IF s \in S THEN 0 ELSE queue[s]]
  /\ holds' = [s \in Streams |-> IF s \in S THEN {} ELSE holds[s]]

\* cutCapture of the lifecycle l: every pipe still reading owes what is queued
\* in it now, or is closed when that cannot be asked (the streams of `unasked`).
CutCapture(l, faulted) ==
  LET cut == {s \in Streams : pipes[s].state = "reading"}
      due == l.process = "gone" \/ Unconfirmed(l)
  IN /\ fault' = (faulted \/ Unconfirmed(l))
     /\ \E unasked \in SUBSET (IF due THEN cut ELSE {}) :
          /\ pipes' = [s \in Streams |->
               IF ~due \/ s \notin cut THEN pipes[s]
               ELSE IF s \in unasked THEN [state |-> "failed", owed |-> 0]
               ELSE [state |-> "tail", owed |-> queue[s]]]
          /\ life' = [l EXCEPT !.capture_failure = @ \/ unasked # {}]
          /\ Abandon(unasked)

\* The clock is read, a due deadline applied, the leader observed, and the
\* capture cut when the watchdog has run out or the group is gone.
Service ==
  /\ slot = "bash" /\ at = "idle"
  /\ at' = "read" /\ todo' = StreamOrder
  /\ wasRunning' = (life.process = "running")
  /\ LET expired == ExpireDeadline(life) IN
     \E r \in Observed(expired.life) :
       /\ CutCapture(r.life, r.fault)
       /\ Signal(IF expired.signal # "none" THEN expired.signal ELSE r.signal)
  /\ SlotKept /\ UNCHANGED processVars

\* readPipe and observePipe.  A read takes some of what is queued, up to what a
\* tail owes; with nothing owed it is a probe whose byte is not retained.
Retain(s, n) ==
  /\ queue' = [queue EXCEPT ![s] = @ - n]
  /\ pipes' = [pipes EXCEPT ![s].owed = IF pipes[s].state = "tail" THEN @ - n ELSE @]
  /\ UNCHANGED <<life, fault, holds, misdirected>>

Close(s, how) == pipes' = [pipes EXCEPT ![s] = [state |-> how, owed |-> 0]]

\* EOF: nothing queued and nobody left to write.
ReadEnd(s) ==
  /\ queue[s] = 0 /\ holds[s] = {}
  /\ Close(s, "eof")
  /\ UNCHANGED <<life, fault, queue, holds, misdirected>>

\* A paid tail finds the pipe open: empty, or with bytes past the snapshot.
ReadIncomplete(s) ==
  /\ pipes[s] = [state |-> "tail", owed |-> 0]
  /\ queue[s] > 0 \/ holds[s] # {}
  /\ Close(s, "incomplete") /\ Abandon({s})
  /\ UNCHANGED <<life, fault, misdirected>>

\* The call fails, the budget holds no more, or the capture cannot be written.
\* Only a pipe that was still reading asks for the end of the process.
ReadFails(s) ==
  /\ Close(s, "failed") /\ Abandon({s})
  /\ fault' \in {fault, TRUE}
  /\ LET l == [life EXCEPT !.capture_failure = TRUE]
         r == IF pipes[s].state = "reading" THEN RequestTermination(l, "capture_failed") ELSE Quiet(l)
     IN life' = r.life /\ Signal(r.signal)

ServicePipe(s) ==
  \/ /\ \/ pipes[s].state \in Closed
        \/ pipes[s].state = "reading" /\ queue[s] = 0 /\ holds[s] # {}
     /\ UNCHANGED <<pipes, life, fault, queue, holds, misdirected>>
  \/ /\ pipes[s].state \notin Closed
     /\ \/ \E n \in 1..queue[s] :
             (pipes[s].state = "tail" => n <= pipes[s].owed) /\ Retain(s, n)
        \/ pipes[s].owed = 0 /\ ReadEnd(s)
        \/ ReadIncomplete(s)
        \/ ReadFails(s)

\* The streams in turn.  After the first pass nothing is left to retire while
\* the process runs.
Read ==
  /\ slot = "bash" /\ at \in {"read", "reread"}
  /\ ServicePipe(Head(todo))
  /\ todo' = Tail(todo)
  /\ at' = CASE Len(todo) > 1 -> at
             [] at = "read" /\ life'.process # "running" -> "reap"
             [] OTHER -> "finish"
  /\ SlotKept /\ UNCHANGED <<wasRunning, processVars>>

\* The kill when the grace is over, then reapLeader, which frees the number.  A
\* call that fails, a leader still running past the watchdog, and a status other
\* than the one observed are faults.
Reap ==
  /\ slot = "bash" /\ at = "reap" /\ at' = "probe"
  /\ LET r == ExpireGrace(life)
         term == RuiBashReap(status)
     IN /\ Signal(r.signal)
        /\ \/ r.life.process # "reaping" /\ life' = r.life /\ UNCHANGED <<fault, zombie>>
           \/ /\ r.life.process = "reaping" /\ zombie
              /\ zombie' = FALSE
              /\ life' = Reaped(r.life, term)
              /\ fault' = (fault \/ r.life.observed \notin {NoTerm, term})
           \/ /\ r.life.process = "reaping" /\ ~zombie
              /\ fault' = (fault \/ r.life.cleanup = 0)
              /\ life' = r.life /\ UNCHANGED zombie
           \/ r.life.process = "reaping" /\ fault' = TRUE /\ life' = r.life /\ UNCHANGED zombie
  /\ SlotKept /\ UNCHANGED <<todo, wasRunning, pipes, alive, status, foreign, holds, queue>>

\* The probe of the group, the second cut, and the second service of the pipes
\* once the group is gone.
Probe ==
  /\ slot = "bash" /\ at = "probe"
  /\ \/ CutCapture(IF life.process = "checking_group" /\ RuiBashGroupAbsent
                   THEN GroupAbsent(life) ELSE life, fault)
     \/ life.process = "checking_group" /\ CutCapture(life, TRUE)
  /\ IF life'.process = "gone" THEN at' = "reread" /\ todo' = StreamOrder
     ELSE at' = "finish" /\ UNCHANGED todo
  /\ SlotKept /\ UNCHANGED <<wasRunning, processVars, misdirected>>

-----------------------------------------------------------------------------
(* server_execution.zig's advanceBash, after the service.                  *)

\* No later Attempt reads what this one leaves.
Forgotten ==
  /\ accepted' = FALSE /\ life' = Start /\ pipes' = AllReading
  /\ alive' = {} /\ zombie' = FALSE /\ status' = NoTerm /\ foreign' = FALSE
  /\ holds' = [s \in Streams |-> {}] /\ queue' = [s \in Streams |-> 0]

NextArm(open) ==
  IF ~Retired(life, pipes) THEN "idle" ELSE IF open = "open" THEN "deliver" ELSE "reclaim"

\* Mutant of Finish: only an observed exit revokes the sender.
FinishObserved ==
  /\ slot = "bash" /\ at = "finish"
  /\ sender' = (sender /\ ~(wasRunning /\ life.observed # NoTerm))
  /\ IF fault THEN FailBash ELSE UNCHANGED <<phase, delivery, custody>>
  /\ at' = NextArm(delivery')
  /\ fault' = FALSE /\ wasRunning' = FALSE
  /\ UNCHANGED <<shutdown, slot, accepted, life, pipes, todo, stopped, resolution, kernelVars, misdirected>>

\* The sender goes when the process left running; a fault fails the slot.
Finish ==
  /\ slot = "bash" /\ at = "finish"
  /\ \E refused \in BOOLEAN :
       LET over == wasRunning /\ life.process # "running" IN
       /\ refused => over
       /\ sender' = (sender /\ (over => refused))
       /\ IF fault \/ refused THEN FailBash ELSE UNCHANGED <<phase, delivery, custody>>
  /\ at' = NextArm(delivery')
  /\ fault' = FALSE /\ wasRunning' = FALSE
  /\ UNCHANGED <<shutdown, slot, accepted, life, pipes, todo,
                 stopped, resolution, kernelVars, misdirected>>

\* completeBash: no place for the output or no outcome fails the slot, and so
\* does a save that fails, with the delivery claimed.  Sealing the captures may
\* fail, and that only changes the code.
CompleteBash ==
  /\ slot = "bash" /\ at = "deliver" /\ at' = "reclaim"
  /\ \/ FailBash /\ UNCHANGED <<life, resolution, sender>>
     \/ \E sealed \in BOOLEAN :
          LET l == [life EXCEPT !.capture_failure = @ \/ ~sealed] IN
          /\ life' = l
          /\ delivery' = "closed"
          /\ custody' = [custody EXCEPT !.state = "detached", !.delivered = TRUE]
          /\ \/ resolution' = Saved(Resolution(l)) /\ sender' = FALSE /\ UNCHANGED phase
             \/ phase' = "stopping" /\ UNCHANGED <<resolution, sender>>
  /\ UNCHANGED <<shutdown, slot, accepted, pipes, todo, fault, wasRunning,
                 stopped, kernelVars, misdirected>>

\* reclaimBash frees the slot, which forgets the process, or fences dispatch and
\* is tried again.
ReclaimBash ==
  /\ slot = "bash" /\ at = "reclaim" /\ at' = "idle"
  /\ \/ FreeSlot /\ Forgotten /\ UNCHANGED phase
     \/ /\ phase' = Later(phase, "fenced")
        /\ UNCHANGED <<slot, custody, accepted, life, pipes, kernelVars>>
  /\ UNCHANGED <<shutdown, delivery, todo, fault, wasRunning, storeVars, misdirected>>

-----------------------------------------------------------------------------
(* The kernel, the processes and the other threads.                        *)

HostKept == UNCHANGED <<phase, shutdown, slot, delivery, accepted, custody, serviceVars, storeVars,
                        pipes, misdirected>>

Left(n) == IF n > 0 THEN n - 1 ELSE 0

\* The clock is read where it may have moved: at the start of a service, of a
\* stop or a shutdown, and after each read.
Tick ==
  /\ slot = "bash" /\ at \in {"idle", "read", "reread"}
  /\ life' = [life EXCEPT !.deadline = Left(@), !.kill = Left(@), !.cleanup = Left(@)]
  /\ HostKept /\ UNCHANGED kernelVars

Write(s) ==
  /\ holds[s] # {} /\ queue[s] < MaxQueued
  /\ queue' = [queue EXCEPT ![s] = @ + 1]
  /\ HostKept /\ UNCHANGED <<life, alive, zombie, status, foreign, holds>>

\* A process of the group forks; the child inherits its ends and stays in the
\* group, or leaves it with setsid.
Fork(p, q) ==
  /\ p \in alive \cap Group /\ q \notin alive
  /\ alive' = alive \cup {q}
  /\ holds' = [s \in Streams |-> IF p \in holds[s] THEN holds[s] \cup {q} ELSE holds[s]]
  /\ HostKept /\ UNCHANGED <<life, zombie, status, foreign, queue>>

CloseEnd(p, s) ==
  /\ p \in holds[s]
  /\ holds' = [holds EXCEPT ![s] = @ \ {p}]
  /\ HostKept /\ UNCHANGED <<life, alive, zombie, status, foreign, queue>>

\* By itself or by a signal; no signal is assumed to end anyone.
Exit(p) ==
  /\ p \in alive
  /\ alive' = alive \ {p}
  /\ holds' = [s \in Streams |-> holds[s] \ {p}]
  /\ IF p = "leader" THEN zombie' = TRUE /\ status' \in ExitStatus ELSE UNCHANGED <<zombie, status>>
  /\ HostKept /\ UNCHANGED <<life, foreign, queue>>

\* The number is free once the leader is reaped and the group is empty; a
\* stranger's group may then take it and go again.
ReuseNumber ==
  /\ status # NoTerm /\ ~zombie /\ alive \cap Group = {}
  /\ foreign' = ~foreign
  /\ HostKept /\ UNCHANGED <<life, alive, zombie, status, holds, queue>>

\* A Session stop selects the Turn of the Action.
StopCommits ==
  /\ slot # "free" /\ ~stopped
  /\ stopped' = TRUE
  /\ UNCHANGED <<phase, shutdown, slot, delivery, accepted, custody, life, pipes, serviceVars,
                 resolution, sender, kernelVars, misdirected>>

\* Another slot's failure, the end of intake, or an operator's stop.
HostAdvances ==
  /\ \E p \in OtherPhases : Order[p] > Order[phase] /\ phase' = p
  /\ UNCHANGED <<shutdown, slot, delivery, accepted, custody, life, pipes, serviceVars,
                 storeVars, kernelVars, misdirected>>

-----------------------------------------------------------------------------
Init ==
  /\ phase = "open" /\ shutdown = FALSE
  /\ slot = "free" /\ delivery = "open" /\ accepted = FALSE /\ custody = FreeRecord
  /\ life = Start /\ pipes = AllReading
  /\ at = "idle" /\ todo = <<>> /\ fault = FALSE /\ wasRunning = FALSE
  /\ stopped = FALSE /\ resolution = "unadmitted" /\ sender = FALSE
  /\ alive = {} /\ zombie = FALSE /\ status = NoTerm /\ foreign = FALSE
  /\ holds = [s \in Streams |-> {}] /\ queue = [s \in Streams |-> 0]
  /\ misdirected = FALSE

BeforeLaunch ==
  \/ AdmitBashAttempt \/ DispatchFails \/ PreparationFails \/ DiscardPrepared
  \/ LaunchRefused \/ LaunchPreparedBash \/ StopBeforeLaunch \/ RetainedCleanup

ExecutionOwner ==
  \/ BeforeLaunch \/ StopLaunched \/ ShutdownExecution
  \/ Service \/ Read \/ Reap \/ Probe \/ Finish \/ CompleteBash \/ ReclaimBash

\* The steps after a service read nothing of the kernel's, nor does anyone once
\* the slot is free: what happens there can as well happen before the next read.
Kernel ==
  /\ slot = "bash" /\ at \notin {"finish", "deliver", "reclaim"}
  /\ \/ \E s \in Streams : Write(s)
     \/ \E p \in Group, q \in Children : Fork(p, q)
     \/ \E p \in Group \cup {"escaped"}, s \in Streams : CloseEnd(p, s)
     \/ \E p \in Group \cup {"escaped"} : Exit(p)
     \/ ReuseNumber

Next == ExecutionOwner \/ Tick \/ Kernel \/ StopCommits \/ HostAdvances

Spec == Init /\ [][Next]_vars

\* The owner's loop keeps running, and the clock keeps moving between two of
\* its readings.  Nothing is assumed of the processes.
FairSpec == Spec /\ WF_vars(ExecutionOwner) /\ SF_vars(Tick)

-----------------------------------------------------------------------------
(* Properties.                                                             *)

TypeOK ==
  /\ phase \in HostPhases /\ shutdown \in BOOLEAN
  /\ slot \in Arms /\ delivery \in {"open", "closed"} /\ accepted \in BOOLEAN
  /\ custody \in [state : {"free", "attached", "detached"}, delivered : BOOLEAN, launch : BOOLEAN]
  /\ life \in Lifecycle
  /\ pipes \in [Streams -> Pipe]
  /\ at \in {"idle", "read", "reap", "probe", "reread", "finish", "deliver", "reclaim"}
  /\ todo \in Seq(Streams) /\ (at \in {"read", "reread"} => todo # <<>>)
  /\ fault \in BOOLEAN /\ wasRunning \in BOOLEAN
  /\ stopped \in BOOLEAN /\ resolution \in Resolutions \cup {"unadmitted", "none"} /\ sender \in BOOLEAN
  /\ alive \in SUBSET (Group \cup {"escaped"}) /\ zombie \in BOOLEAN /\ foreign \in BOOLEAN
  /\ status \in ExitStatus \cup {NoTerm}
  /\ holds \in [Streams -> SUBSET (Group \cup {"escaped"})]
  /\ queue \in [Streams -> 0..MaxQueued]
  /\ misdirected \in BOOLEAN

\* No signal goes to a stranger.  The group's number is ours only until the
\* leader is reaped and the group is empty, and deadlines, stops, the shutdown,
\* a failed capture and the kill all race the exit: the observation that
\* WNOWAIT leaves unconsumed, and the phases that never signal after the reap,
\* keep the number ours whenever a signal is sent.
SignalsOnlyItsOwn == ~misdirected

\* Once a result of a launched process is saved, nobody of its group is left, a
\* stream reported whole was read whole and has no writer, the recorded status
\* is the one the kernel gave, and "succeeded" means exit 0.
ResultIsHonest ==
  slot = "bash" /\ resolution # "none" =>
    /\ ~zombie /\ alive \cap Group = {}
    /\ \A s \in Streams : pipes[s].state = "eof" => holds[s] = {} /\ queue[s] = 0
    /\ life.observed = RuiBashReap(status)
    /\ resolution = "succeeded" =>
         /\ status.kind = "exited" /\ status.value % 256 = 0
         /\ \A s \in Streams : pipes[s].state # "failed"

\* An Action leaves its custody unsettled only if the Host no longer launches
\* (the assertion of moveSlot): so what a running Host's recovery finds
\* unsettled comes from an earlier Host, whichever step of an end failed.
SettledOrEnding ==
  resolution = "none" /\ custody.state # "attached" => ~LaunchAllowed

\* While commands are taken in, a process that was told to end, or that ended,
\* has no sender handle left once its service returns, however it came to end.
SenderOnlyWhileRunning ==
  at = "idle" /\ slot = "bash" /\ sender /\ phase \in {"open", "fenced"}
    => life.process = "running"

\* Every launched Attempt is settled or given up, even if no process of it ever
\* ends or closes its pipes: the watchdog bounds the wait.
DeliveryCloses == slot = "bash" /\ delivery = "open" ~> ~(slot = "bash" /\ delivery = "open")

=============================================================================
