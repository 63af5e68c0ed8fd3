--------------------------- MODULE HostActivation ---------------------------
(***************************************************************************)
(* An upgrade moves a running Host to another executable: HostLifecycle.zig *)
(* observes the Host of a Store, stops it, and starts the target through    *)
(* host_launch.c, whose child waits until its generation is recorded.       *)
(*                                                                         *)
(* A process is named by its pid, which the system gives out again, and its *)
(* start time, which it does not: host_identity.c reads both, piece by      *)
(* piece, while processes end, start, execute other programs, and take and  *)
(* leave the Store around the client.  An image stands for a path and for   *)
(* the launch specification derived from argv and environment.              *)
(***************************************************************************)
EXTENDS Integers, Sequences

CONSTANTS
  Pids, Executables, Configurations, Instances,
  Target,       \* the executable the upgrade activates
  None,
  MaxStarted    \* bound: processes started per pid

Images == [exe : Executables, conf : Configurations]

VARIABLES
  table,        \* the start time of the process of each pid, 0 when there is none
  last,         \* the latest start time given with the pid
  image,        \* what the process of each pid executes
  hosts,        \* every Host there has been
  owner,        \* the Host that holds the Store's lease, if there is one
  stopped,      \* the instances the client's stop reached
  pc, purpose,  \* where the client is, and what its snapshot is for
  observed,     \* the Host that answered last
  snap,         \* the snapshot being read
  plan,         \* the Plan: observation and snapshot
  outcome,      \* ActivationOutcome
  launched_pid, launched_started, confirmed, read_error,
  helper,       \* the first child, which only forks
  child,        \* its child, the Host to be
  receipts, ack \* the pipes of launch_detached

systemVars == <<table, last, image>>
storeVars == <<hosts, owner>>
launchVars == <<launched_pid, launched_started, confirmed, read_error>>
pipeVars == <<helper, child, receipts, ack>>
planVars == <<purpose, observed, snap, plan, stopped>>
vars == <<systemVars, storeVars, launchVars, pipeVars, planVars, pc, outcome>>

-----------------------------------------------------------------------------
(* Processes and the Store's lease.                                        *)

ChildAlive == child.at # "none" /\ table[child.pid] = child.started

\* The child runs the client's own program until it executes the target.
Launching(p) == ChildAlive /\ child.pid = p /\ child.at # "executed"

\* Whoever dies gives up its lease.
Kill(p) ==
  /\ table' = [table EXCEPT ![p] = 0]
  /\ owner' = {h \in owner : h.pid # p}
  /\ UNCHANGED <<last, image, hosts>>

StartProcess(p, i) ==
  /\ table[p] = 0 /\ last[p] < MaxStarted
  /\ table' = [table EXCEPT ![p] = last[p] + 1]
  /\ last' = [last EXCEPT ![p] = last[p] + 1]
  /\ image' = [image EXCEPT ![p] = i]

Elsewhere == UNCHANGED <<launchVars, pipeVars, planVars, pc, outcome>>

ProcessStarts(p) ==
  /\ \E i \in Images : StartProcess(p, i)
  /\ UNCHANGED storeVars /\ Elsewhere

ProcessDies(p) == table[p] # 0 /\ Kill(p) /\ Elsewhere

\* A Host never executes another program, nor does the child once it has.
ProcessExecutes(p) ==
  /\ table[p] # 0 /\ (\A h \in owner : h.pid # p) /\ ~(ChildAlive /\ child.pid = p)
  /\ \E i \in Images : image' = [image EXCEPT ![p] = i]
  /\ UNCHANGED <<table, last, storeVars>> /\ Elsewhere

\* A Host takes the lease under an instance of its own.
TakesLease(p) ==
  /\ table[p] # 0 /\ ~Launching(p) /\ owner = {}
  /\ \E i \in Instances :
       /\ \A h \in hosts : h.instance # i
       /\ owner' = {[instance |-> i, pid |-> p, started |-> table[p], image |-> image[p]]}
  /\ hosts' = hosts \cup owner'
  /\ UNCHANGED systemVars /\ Elsewhere

LeavesLease ==
  /\ owner # {} /\ owner' = {}
  /\ UNCHANGED <<systemVars, hosts>> /\ Elsewhere

World ==
  \/ \E p \in Pids : ProcessStarts(p) \/ ProcessDies(p) \/ ProcessExecutes(p) \/ TakesLease(p)
  \/ LeavesLease

-----------------------------------------------------------------------------
(* The client's steps change nothing around it.                            *)

Around == UNCHANGED <<systemVars, storeVars, launchVars, pipeVars>>

Go(to) == pc' = to /\ UNCHANGED <<planVars, outcome>> /\ Around

Settled(kind, h) == [kind |-> kind, instance |-> h.instance, pid |-> h.pid]
Plain(kind) == [kind |-> kind, instance |-> None, pid |-> 0]

Finish(result) == pc' = "done" /\ outcome' = result /\ UNCHANGED planVars /\ Around

\* A Host that was told to stop no longer answers host_info.
Answering == {h \in owner : h.instance \notin stopped}

\* sameHost.
Same(h, o) == h.instance = o.instance /\ h.pid = o.pid

\* rui_process_snapshot of a Host that answered, for a purpose.
BeginSnapshot(h, reason) ==
  /\ pc' = "read_started" /\ purpose' = reason
  /\ observed' = [instance |-> h.instance, pid |-> h.pid]
  /\ snap' = [pid |-> h.pid, started |-> 0, exe |-> None, conf |-> None]
  /\ UNCHANGED <<plan, stopped, outcome>> /\ Around

-----------------------------------------------------------------------------
(* rui_process_snapshot: generation, path and arguments, each read twice.   *)

Reading == {"read_started", "read_exe", "read_conf", "check_conf", "check_started", "check_exe"}

SnapshotFails ==
  /\ pc \in Reading
  /\ Finish(Plain(IF purpose = "observe" THEN "unsupported" ELSE "unconfirmed"))

Present == table[snap.pid] # 0

Reads(next, s) ==
  /\ Present /\ snap' = s /\ pc' = next
  /\ UNCHANGED <<purpose, observed, plan, stopped, outcome>> /\ Around

ReadStarted == pc = "read_started" /\ Reads("read_exe", [snap EXCEPT !.started = table[snap.pid]])
ReadExe == pc = "read_exe" /\ Reads("read_conf", [snap EXCEPT !.exe = image[snap.pid].exe])
ReadConf == pc = "read_conf" /\ Reads("check_conf", [snap EXCEPT !.conf = image[snap.pid].conf])

CheckConf == pc = "check_conf" /\ Present /\ image[snap.pid].conf = snap.conf /\ Go("check_started")
CheckStarted == pc = "check_started" /\ table[snap.pid] = snap.started /\ Go("check_exe")
CheckExe == pc = "check_exe" /\ Present /\ image[snap.pid].exe = snap.exe /\ Go("snapshot")

Snapshot == SnapshotFails \/ ReadStarted \/ ReadExe \/ ReadConf \/ CheckConf \/ CheckStarted \/ CheckExe

-----------------------------------------------------------------------------
(* observe.                                                                *)

\* hostStatus finds no Host, or one the upgrade cannot manage.
ObserveNone == pc = "observe" /\ owner = {} /\ Finish(Plain("not_needed"))
ObserveUnsupported == pc \in {"observe", "confirm"} /\ Finish(Plain("unsupported"))
ObserveHost == pc = "observe" /\ \E h \in Answering : BeginSnapshot(h, "observe")

\* The snapshot's build, environment and arguments are those of a managed Host.
Derive == pc = "snapshot" /\ purpose = "observe" /\ Go("confirm")
DeriveFails == pc = "snapshot" /\ purpose = "observe" /\ Finish(Plain("unsupported"))

Confirm ==
  /\ pc = "confirm" /\ (\E h \in Answering : Same(h, observed))
  /\ plan' = [instance |-> observed.instance, pid |-> observed.pid,
              started |-> snap.started, exe |-> snap.exe, conf |-> snap.conf]
  /\ pc' = "activate"
  /\ UNCHANGED <<purpose, observed, snap, stopped, outcome>> /\ Around

ObserveStep == ObserveNone \/ ObserveUnsupported \/ ObserveHost \/ Derive \/ DeriveFails \/ Confirm

-----------------------------------------------------------------------------
(* activate.                                                               *)

\* Cancelled, superseded, or nothing could be prepared.
ActivateEnds ==
  /\ pc = "activate"
  /\ \E kind \in {"cancelled", "superseded", "unsupported"} : Finish(Plain(kind))

AlreadyReady ==
  /\ pc = "activate" /\ plan.exe = Target
  /\ \/ (\E h \in Answering : Same(h, plan)) /\ Finish(Settled("already_ready", plan))
     \/ Finish(Plain("unconfirmed"))

\* A lock that cannot be probed counts as held.
LockFree == pc = "activate" /\ plan.exe # Target /\ owner = {} /\ Go("start")
LockHeld == pc = "activate" /\ plan.exe # Target /\ Go("recheck")

Recheck == pc = "recheck" /\ \E h \in Answering : Same(h, plan) /\ BeginSnapshot(h, "stop")
Replaced == \E h \in Answering : ~Same(h, plan)
RecheckReplaced == pc = "recheck" /\ Replaced /\ Finish(Plain("replacement_observed"))
RecheckFails == pc = "recheck" /\ Finish(Plain("unconfirmed"))

\* sameSnapshot.
SameSnapshot ==
  /\ pc = "snapshot" /\ purpose = "stop"
  /\ IF snap = [pid |-> plan.pid, started |-> plan.started, exe |-> plan.exe, conf |-> plan.conf]
       THEN Go("stop") ELSE Finish(Plain("unsupported"))

\* Mutant of StopReaches: the stop is not conditional on the instance.
StopReachesAny ==
  /\ pc = "stop"
  /\ \E h \in owner : stopped' = stopped \cup {h.instance}
  /\ pc' \in {"retire", "stop_failed"}
  /\ UNCHANGED <<purpose, observed, snap, plan, outcome>> /\ Around

\* stopObserved: the Host compares the instance; its reply may be lost.
StopReaches ==
  /\ pc = "stop"
  /\ \E h \in owner : h.instance = plan.instance /\ stopped' = stopped \cup {h.instance}
  /\ pc' \in {"retire", "stop_failed"}
  /\ UNCHANGED <<purpose, observed, snap, plan, outcome>> /\ Around
StopRefused ==
  /\ pc = "stop" /\ (\E h \in owner : h.instance # plan.instance)
  /\ Finish(Plain("replacement_observed"))
StopUnavailable == pc = "stop" /\ IF owner = {} THEN Go("retire") ELSE Finish(Plain("unconfirmed"))
StopFails == pc = "stop" /\ Go("stop_failed")

\* After a failed stop, or a retirement that did not come in time.
Unconfirmed ==
  /\ pc \in {"stop_failed", "retire"}
  /\ \/ Replaced /\ Finish(Plain("replacement_observed"))
     \/ Finish(Plain("unconfirmed"))

Retired == pc \in {"stop_failed", "retire"} /\ owner = {} /\ Go("start")

\* startPinned looks again.
Occupied == pc = "start" /\ Finish(Plain("replacement_observed"))
Launch == pc = "start" /\ owner = {} /\ Go("launch")

ActivateStep ==
  \/ ActivateEnds \/ AlreadyReady \/ LockFree \/ LockHeld
  \/ Recheck \/ RecheckReplaced \/ RecheckFails \/ SameSnapshot
  \/ StopReaches \/ StopRefused \/ StopUnavailable \/ StopFails \/ Unconfirmed \/ Retired
  \/ Occupied \/ Launch

-----------------------------------------------------------------------------
(* launch_detached: the client, the helper it forks, and the helper's child *)
(* over two pipes.  A receipt is written whole; nobody reads a channel the   *)
(* client has closed, and whoever writes to it dies.                        *)

Reporting == pc \in {"receipts", "generation", "acknowledge"}

Receipt(kind, value) == [kind |-> kind, value |-> value]

\* The client leaves the loop over the receipts and closes both pipes.
StopReading(failed) ==
  /\ pc' = "wait" /\ read_error' = failed
  /\ ack' = IF ack = "open" THEN "closed" ELSE ack
  /\ UNCHANGED <<launched_pid, launched_started, confirmed, helper, child, receipts>>
  /\ UNCHANGED <<systemVars, storeVars, planVars, outcome>>

LaunchFails == pc = "launch" /\ Finish(Plain("failed"))

Fork ==
  /\ pc = "launch" /\ pc' = "receipts"
  /\ helper' = "running" /\ ack' = "open"
  /\ UNCHANGED <<systemVars, storeVars, launchVars, planVars, outcome, child, receipts>>

ReadPid ==
  /\ pc = "receipts" /\ receipts # <<>> /\ Head(receipts).kind = "pid"
  /\ IF launched_pid # 0
       THEN StopReading(TRUE)
       ELSE /\ launched_pid' = Head(receipts).value
            /\ receipts' = Tail(receipts)
            /\ pc' = "generation"
            /\ UNCHANGED <<systemVars, storeVars, planVars, outcome, launched_started, confirmed,
                           read_error, helper, child, ack>>

\* rui_process_generation of the pid the receipt names.
Generation ==
  /\ pc = "generation" /\ table[launched_pid] # 0
  /\ launched_started' = table[launched_pid]
  /\ pc' = "acknowledge"
  /\ UNCHANGED <<systemVars, storeVars, planVars, outcome, launched_pid, confirmed, read_error, pipeVars>>

GenerationFails == pc = "generation" /\ StopReading(TRUE)

\* The gate has a reader: the child, or the helper that has not exited yet.
Acknowledge ==
  /\ pc = "acknowledge"
  /\ helper = "running" \/ (ChildAlive /\ child.at = "waiting")
  /\ ack' = "sent" /\ pc' = "receipts"
  /\ UNCHANGED <<systemVars, storeVars, planVars, outcome, launchVars, helper, child, receipts>>

AcknowledgeFails == pc = "acknowledge" /\ StopReading(TRUE)

ReadConfirm ==
  /\ pc = "receipts" /\ receipts # <<>> /\ Head(receipts).kind = "confirm"
  /\ IF Head(receipts).value = launched_pid /\ launched_started # 0 /\ ~confirmed
       THEN /\ confirmed' = TRUE /\ receipts' = Tail(receipts)
            /\ UNCHANGED <<systemVars, storeVars, planVars, pc, outcome, launched_pid,
                           launched_started, read_error, helper, child, ack>>
       ELSE StopReading(TRUE)

\* A receipt of an error, or a read that fails.
ReadFails == pc = "receipts" /\ StopReading(TRUE)

\* Every writer is gone: the child is dead or executes the target.
ReadEnd ==
  /\ pc = "receipts" /\ receipts = <<>>
  /\ helper # "running" /\ (ChildAlive => child.at = "executed")
  /\ StopReading(~confirmed)

\* waitpid of the helper; rui_launch_pinned forgets the start time on a failure.
Wait ==
  /\ pc = "wait" /\ helper # "running"
  /\ IF read_error \/ helper = "failed"
       THEN /\ pc' = "done" /\ outcome' = Plain("failed") /\ launched_started' = 0
            /\ UNCHANGED <<systemVars, storeVars, pipeVars, planVars, launched_pid, confirmed, read_error>>
       ELSE Go("verify")

HelperForks ==
  /\ helper = "running" /\ child.at = "none"
  /\ \E p \in Pids, i \in Images :
       /\ StartProcess(p, i)
       /\ child' = [pid |-> p, started |-> last[p] + 1, at |-> "setup"]
  /\ UNCHANGED <<storeVars, launchVars, planVars, pc, outcome, helper, receipts, ack>>

\* The helper has forked and exits, fails before, or is killed.
HelperEnds ==
  /\ helper = "running"
  /\ helper' \in {"failed"} \cup (IF child.at # "none" THEN {"exited"} ELSE {})
  /\ UNCHANGED <<systemVars, storeVars, launchVars, planVars, pc, outcome, child, receipts, ack>>

ChildAt(at) == child.at = at /\ table[child.pid] = child.started

ChildMoves(to) ==
  /\ child' = [child EXCEPT !.at = to]
  /\ UNCHANGED <<storeVars, launchVars, planVars, pc, outcome, helper, ack>>

ChildReports ==
  /\ ChildAt("setup") /\ Reporting
  /\ receipts' = Append(receipts, Receipt("pid", child.pid))
  /\ ChildMoves("waiting") /\ UNCHANGED systemVars

\* Mutant of ChildConfirms: the end of the pipe releases the child as the byte does.
ChildConfirmsAtEnd ==
  /\ ChildAt("waiting") /\ ack \in {"sent", "closed"}
  /\ receipts' = IF Reporting THEN Append(receipts, Receipt("confirm", child.pid)) ELSE receipts
  /\ ChildMoves("confirmed") /\ UNCHANGED systemVars

\* confirm_generation: released by the byte, never by the end of the pipe.
ChildConfirms ==
  /\ ChildAt("waiting") /\ ack = "sent" /\ Reporting
  /\ receipts' = Append(receipts, Receipt("confirm", child.pid))
  /\ ChildMoves("confirmed") /\ UNCHANGED systemVars

ChildExecutes ==
  /\ ChildAt("confirmed")
  /\ image' = [image EXCEPT ![child.pid] = [exe |-> Target, conf |-> plan.conf]]
  /\ ChildMoves("executed") /\ UNCHANGED <<table, last, receipts>>

\* An error of the setup or of execve is reported, and the child exits.
ChildFails ==
  /\ ChildAt("setup") \/ ChildAt("confirmed")
  /\ receipts' = IF Reporting THEN Append(receipts, Receipt("error", 1)) ELSE receipts
  /\ Kill(child.pid)
  /\ UNCHANGED <<launchVars, planVars, pc, outcome, helper, child, ack>>

\* The pipe ends without a byte, or the channel is gone: the child exits.
ChildAbandoned ==
  /\ ChildAt("waiting") /\ (ack = "closed" \/ ~Reporting)
  /\ Kill(child.pid)
  /\ UNCHANGED <<launchVars, planVars, pc, outcome, helper, child, receipts, ack>>

LaunchStep ==
  \/ LaunchFails \/ Fork \/ ReadPid \/ Generation \/ GenerationFails \/ Acknowledge \/ AcknowledgeFails
  \/ ReadConfirm \/ ReadFails \/ ReadEnd \/ Wait \/ HelperForks \/ HelperEnds
  \/ ChildReports \/ ChildConfirms \/ ChildExecutes \/ ChildFails \/ ChildAbandoned

-----------------------------------------------------------------------------
(* startPinned, once the launch has succeeded.                             *)

StartupEnds == pc = "verify" /\ owner = {} /\ Finish(Plain("failed"))
VerifyTimesOut == pc = "verify" /\ Finish(Plain("unconfirmed"))
VerifyReplaced ==
  /\ pc = "verify" /\ (\E h \in Answering : h.pid # launched_pid)
  /\ Finish(Plain("replacement_observed"))
VerifyHost == pc = "verify" /\ \E h \in Answering : h.pid = launched_pid /\ BeginSnapshot(h, "verify")

\* Mutant of MatchesLaunch: the pid alone identifies the launched process.
MatchesByPid == snap.pid = launched_pid /\ snap.exe = Target

\* matchesLaunch, and then the version and the capacity, which may differ.
MatchesLaunch == snap.pid = launched_pid /\ snap.started = launched_started /\ snap.exe = Target

Ready ==
  /\ pc = "snapshot" /\ purpose = "verify" /\ MatchesLaunch
  /\ Finish(Settled("ready", observed))
NotReady == pc = "snapshot" /\ purpose = "verify" /\ Finish(Plain("unconfirmed"))

VerifyStep == StartupEnds \/ VerifyTimesOut \/ VerifyReplaced \/ VerifyHost \/ Ready \/ NotReady

\* The client is killed: its pipes close.
ClientDies ==
  /\ pc # "done" /\ pc' = "done" /\ outcome' = Plain("killed")
  /\ ack' = IF ack = "open" THEN "closed" ELSE ack
  /\ UNCHANGED <<systemVars, storeVars, launchVars, planVars, helper, child, receipts>>

-----------------------------------------------------------------------------
Init ==
  /\ table = [p \in Pids |-> 0] /\ last = [p \in Pids |-> 0] /\ image \in [Pids -> Images]
  /\ hosts = {} /\ owner = {} /\ stopped = {}
  /\ pc = "observe" /\ purpose = "observe" /\ outcome = Plain("none")
  /\ observed = None /\ snap = None /\ plan = None
  /\ launched_pid = 0 /\ launched_started = 0 /\ confirmed = FALSE /\ read_error = FALSE
  /\ helper = "none" /\ child = [pid |-> 0, started |-> 0, at |-> "none"] /\ receipts = <<>> /\ ack = "none"

Client == Snapshot \/ ObserveStep \/ ActivateStep \/ VerifyStep \/ ClientDies

Next == World \/ Client \/ LaunchStep

Spec == Init /\ [][Next]_vars

-----------------------------------------------------------------------------
(* Properties.                                                             *)

\* activate never stops a Host it has not read: whatever instance its stop
\* reached, the plan names that Host's process, executable and configuration,
\* though pids are reused between the reads.
StopsOnlyWhatItRead ==
  \A i \in stopped : \E h \in hosts :
    /\ h.instance = i /\ plan.instance = i
    /\ h.pid = plan.pid /\ h.started = plan.started
    /\ h.image.exe = plan.exe /\ h.image.conf = plan.conf

\* An upgrade that reports a Host as ready names a Host that its own child
\* became, running the target under the configuration of the Host it replaced.
\* One that reports it as ready already names a Host of the target.
ReadyIsTheTarget ==
  /\ outcome.kind = "ready" =>
       \E h \in hosts : /\ h.instance = outcome.instance /\ h.pid = outcome.pid
                        /\ h.pid = child.pid /\ h.started = child.started
                        /\ h.image.exe = Target /\ h.image.conf = plan.conf
  /\ outcome.kind = "already_ready" =>
       \E h \in hosts : h.instance = outcome.instance /\ h.pid = outcome.pid /\ h.image.exe = Target

\* launch_detached: the target runs only after the client recorded the pid and
\* the start time of the very process that executes it, however the client,
\* the helper and the child die and pids are reused.  A launch that failed has
\* forgotten the start time by then.
RecordedBeforeItRuns ==
  child.at = "executed" /\ outcome.kind # "failed" =>
    launched_pid = child.pid /\ launched_started = child.started

=============================================================================
