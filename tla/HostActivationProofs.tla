------------------------ MODULE HostActivationProofs ------------------------
(***************************************************************************)
(* Proofs about HostActivation, for any pids, executables, instances and    *)
(* any number of processes.  Each reading of a process stands between two    *)
(* facts about it: a Host that still owns the Store was there throughout,   *)
(* since no instance takes the lease twice, and a process whose start time   *)
(* is read again never ended, since start times only grow.                  *)
(***************************************************************************)
EXTENDS HostActivation, TLAPS

Begun == child.at # "none"

\* Processes: start times grow with each reuse of a pid.
ProcessInv ==
  /\ table \in [Pids -> Nat] /\ last \in [Pids -> Nat] /\ DOMAIN image = Pids
  /\ \A p \in Pids : table[p] = 0 \/ table[p] = last[p]

\* Hosts: the owner's process lives and still executes what it was started with.
HostInv ==
  /\ owner \subseteq hosts /\ (\A g, h \in owner : g = h)
  /\ \A h \in hosts : h.pid \in Pids /\ h.started \in Nat \ {0} /\ h.started <= last[h.pid]
  /\ \A g, h \in hosts : g.instance = h.instance => g = h
  /\ \A h \in owner : table[h.pid] = h.started /\ image[h.pid] = h.image

InSnapshot == pc \in Reading \cup {"snapshot"}

\* The client has not forked yet.
Before ==
  \/ pc \in {"observe", "confirm", "activate", "recheck", "stop", "stop_failed", "retire", "start", "launch"}
  \/ InSnapshot /\ purpose # "verify"

TargetImage == [exe |-> Target, conf |-> plan.conf]

\* The child: it becomes a Host only as the target.
ChildInv ==
  /\ child = [pid |-> child.pid, started |-> child.started, at |-> child.at]
  /\ Before => ~Begun /\ helper = "none"
  /\ Begun => child.pid \in Pids /\ child.started \in Nat \ {0} /\ child.started <= last[child.pid]
  /\ Begun /\ ChildAlive /\ child.at = "executed" => image[child.pid] = TargetImage
  /\ \A h \in hosts : Begun /\ h.pid = child.pid /\ h.started = child.started =>
       child.at = "executed" /\ h.image = TargetImage

WorldInv == ProcessInv /\ HostInv /\ ChildInv

-----------------------------------------------------------------------------
(* The launch.                                                             *)

Receipts == [kind : {"pid", "confirm", "error"}, value : Pids \cup {1}]

Released == child.at \in {"confirmed", "executed"}

\* The child's pid is the first receipt, and is read before its generation is.
ReceiptInv ==
  /\ receipts \in Seq(Receipts) /\ child.at \in {"none", "setup", "waiting", "confirmed", "executed"}
  /\ ~Begun => receipts = <<>>
  /\ \A i \in DOMAIN receipts :
       /\ receipts[i].kind = "pid" =>
            /\ receipts[i].value = child.pid /\ i = 1
            /\ ack # "sent" /\ pc \notin {"generation", "acknowledge"} /\ child.at # "setup"
       /\ receipts[i].kind = "confirm" => Released
  /\ child.at = "setup" => pc \notin {"generation", "acknowledge"} /\ ack # "sent"
  /\ child.at = "setup" /\ ChildAlive => receipts = <<>>

\* The generation that is recorded is the child's, while the child lives.
RecordInv ==
  /\ pc \in {"generation", "acknowledge"} => ack # "sent"
  /\ pc = "generation" => Begun /\ launched_pid = child.pid
  /\ (pc = "acknowledge" \/ ack = "sent") /\ outcome.kind # "failed" =>
       /\ Begun /\ launched_pid = child.pid
       /\ ChildAlive => launched_started = child.started
  /\ ack = "sent" => Begun
  /\ Released => ack = "sent"
  /\ Released /\ outcome.kind # "failed" => launched_pid = child.pid /\ launched_started = child.started

Verifying == pc = "verify" \/ (InSnapshot /\ purpose = "verify")

\* The client goes on only from a confirmed launch.
ConfirmInv ==
  /\ pc # "done" => outcome.kind = "none"
  /\ confirmed => Released
  /\ pc = "wait" /\ ~read_error => confirmed
  /\ Verifying => confirmed

LaunchInv == ReceiptInv /\ RecordInv /\ ConfirmInv

-----------------------------------------------------------------------------
(* What the client has read.                                               *)

Names(h, o) == h.instance = o.instance /\ h.pid = o.pid

\* A snapshot begins at a Host; as long as that Host owns the Store, whatever
\* has been read is read of it.
SnapshotInv ==
  InSnapshot \/ pc = "confirm" =>
    /\ snap = [pid |-> snap.pid, started |-> snap.started, exe |-> snap.exe, conf |-> snap.conf]
    /\ \E h \in hosts : Names(h, observed) /\ snap.pid = observed.pid
    /\ \A h \in owner : h.instance = observed.instance =>
         /\ pc # "read_started" => snap.started = h.started
         /\ pc \notin {"read_started", "read_exe"} => snap.exe = h.image.exe
         /\ pc \notin {"read_started", "read_exe", "read_conf"} => snap.conf = h.image.conf

Planned ==
  \E h \in hosts :
    /\ Names(h, plan) /\ h.started = plan.started
    /\ h.image.exe = plan.exe /\ h.image.conf = plan.conf

Unplanned == pc \in {"observe", "confirm"} \/ (InSnapshot /\ purpose = "observe")

PlanInv ==
  /\ pc # "done" => Unplanned \/ Planned
  /\ Unplanned => stopped = {}
  /\ stopped # {} => Planned /\ stopped = {plan.instance}

\* The Host that is verified has the child's pid, and is the child or a later process.
VerifyInv ==
  InSnapshot /\ purpose = "verify" =>
    \E h \in hosts :
      /\ Names(h, observed) /\ h.pid = child.pid /\ h.started >= child.started
      /\ pc # "read_started" => snap.started \in Nat /\ snap.started >= h.started

ReadyInv == ReadyIsTheTarget /\ (outcome.kind = "ready" => Begun)

ReadInv == SnapshotInv /\ PlanInv /\ VerifyInv /\ ReadyInv

Inv == WorldInv /\ LaunchInv /\ ReadInv

-----------------------------------------------------------------------------
(* How steps move the processes.                                           *)

\* Nothing around the client moves.
Still == UNCHANGED <<table, last, image, hosts, owner>>

\* A process ends.
Ends == \E p \in Pids : table[p] # 0 /\ Kill(p)

\* The child stays where it is, and the plan is made while there is none.
ChildKept ==
  /\ child' = child
  /\ Begun => plan' = plan
  /\ Before' => Before /\ helper' = helper

\* The steps of the client itself, apart from those over the pipes.
LEMMA ClientStill ==
  ASSUME WorldInv, Client
  PROVE  Still /\ ChildKept /\ UNCHANGED <<launchVars, helper, child, receipts>>
<1> USE DEF Around, systemVars, storeVars, launchVars, pipeVars, planVars, Go, Finish, Still, ChildKept,
            Before, Begun, InSnapshot, Reading
<1>1. CASE Snapshot
  BY <1>1 DEF Snapshot, SnapshotFails, ReadStarted, ReadExe, ReadConf, CheckConf, CheckStarted,
              CheckExe, Reads
<1>2. CASE ObserveStep
  <2>1. CASE Confirm
    BY <2>1 DEF WorldInv, ChildInv, Confirm
  <2>2. CASE ObserveHost
    BY <2>2 DEF ObserveHost, BeginSnapshot
  <2>3. CASE ObserveNone \/ ObserveUnsupported \/ Derive \/ DeriveFails
    BY <2>3 DEF ObserveNone, ObserveUnsupported, Derive, DeriveFails
  <2> QED
    BY <1>2, <2>1, <2>2, <2>3 DEF ObserveStep
<1>3. CASE ActivateStep
  <2>1. CASE ActivateEnds \/ AlreadyReady \/ LockFree \/ LockHeld
    BY <2>1 DEF ActivateEnds, AlreadyReady, LockFree, LockHeld
  <2>2. CASE Recheck
    BY <2>2 DEF Recheck, BeginSnapshot
  <2>3. CASE RecheckReplaced \/ RecheckFails \/ SameSnapshot
    BY <2>3 DEF RecheckReplaced, RecheckFails, SameSnapshot
  <2>4. CASE StopReaches
    BY <2>4 DEF StopReaches
  <2>5. CASE StopRefused \/ StopUnavailable \/ StopFails
    BY <2>5 DEF StopRefused, StopUnavailable, StopFails
  <2>6. CASE Unconfirmed \/ Retired \/ Occupied \/ Launch
    BY <2>6 DEF Unconfirmed, Retired, Occupied, Launch
  <2> QED
    BY <1>3, <2>1, <2>2, <2>3, <2>4, <2>5, <2>6 DEF ActivateStep
<1>4. CASE VerifyStep
  <2>1. CASE VerifyHost
    BY <2>1 DEF VerifyHost, BeginSnapshot
  <2>2. CASE StartupEnds \/ VerifyTimesOut \/ VerifyReplaced \/ Ready \/ NotReady
    BY <2>2 DEF StartupEnds, VerifyTimesOut, VerifyReplaced, Ready, NotReady
  <2> QED
    BY <1>4, <2>1, <2>2 DEF VerifyStep
<1>5. CASE ClientDies
  BY <1>5 DEF ClientDies
<1> QED
  BY <1>1, <1>2, <1>3, <1>4, <1>5 DEF Client

\* The steps over the pipes that move no process.
Piping ==
  \/ LaunchFails \/ Fork \/ ReadPid \/ Generation \/ GenerationFails \/ Acknowledge \/ AcknowledgeFails
  \/ ReadConfirm \/ ReadFails \/ ReadEnd \/ Wait \/ HelperEnds

LEMMA PipingStill ==
  ASSUME WorldInv, Piping
  PROVE  Still /\ ChildKept
<1> USE DEF Around, systemVars, storeVars, launchVars, pipeVars, planVars, Go, Finish, Still, ChildKept,
            Before, Begun, InSnapshot, Reading, StopReading
<1>1. CASE LaunchFails \/ Fork
  BY <1>1 DEF LaunchFails, Fork
<1>2. CASE ReadPid
  BY <1>2 DEF ReadPid
<1>3. CASE Generation \/ GenerationFails
  BY <1>3 DEF Generation, GenerationFails
<1>4. CASE Acknowledge \/ AcknowledgeFails
  BY <1>4 DEF Acknowledge, AcknowledgeFails
<1>5. CASE ReadConfirm
  BY <1>5 DEF ReadConfirm
<1>6. CASE ReadFails \/ ReadEnd
  BY <1>6 DEF ReadFails, ReadEnd
<1>7. CASE Wait
  BY <1>7 DEF Wait
<1>8. CASE HelperEnds
  BY <1>8 DEF WorldInv, ChildInv, HelperEnds
<1> QED
  BY <1>1, <1>2, <1>3, <1>4, <1>5, <1>6, <1>7, <1>8 DEF Piping

LEMMA StillKeeps ==
  ASSUME WorldInv, Still, ChildKept
  PROVE  WorldInv'
<1>1. ProcessInv'
  BY DEF WorldInv, ProcessInv, Still
<1>2. HostInv'
  BY DEF WorldInv, HostInv, Still
<1>3. Begun' = Begun /\ ChildAlive' = ChildAlive /\ (Begun => TargetImage' = TargetImage)
  BY DEF ChildKept, Still, Begun, ChildAlive, TargetImage
<1>4. ChildInv'
  BY <1>3 DEF WorldInv, ChildInv, Still, ChildKept
<1> QED
  BY <1>1, <1>2, <1>4 DEF WorldInv

LEMMA EndsKeeps ==
  ASSUME WorldInv, Ends, ChildKept
  PROVE  WorldInv'
<1>1. PICK p \in Pids : table[p] # 0 /\ Kill(p)
  BY DEF Ends
<1> USE DEF Kill
<1>2. ProcessInv'
  BY <1>1 DEF WorldInv, ProcessInv
<1>3. HostInv'
  BY <1>1 DEF WorldInv, ProcessInv, HostInv
<1>4. Begun' = Begun /\ (Begun => TargetImage' = TargetImage)
  BY DEF ChildKept, Begun, TargetImage
<1>5. Begun /\ ChildAlive' => ChildAlive
  BY <1>1 DEF WorldInv, ProcessInv, ChildInv, ChildKept, ChildAlive, Begun
<1>6. ChildInv'
  BY <1>1, <1>4, <1>5 DEF WorldInv, ChildInv, ChildKept
<1> QED
  BY <1>2, <1>3, <1>6 DEF WorldInv

\* A process starts: whatever was known of the pid is older.
LEMMA StartKeeps ==
  ASSUME WorldInv, NEW p \in Pids, NEW i, StartProcess(p, i), UNCHANGED storeVars
  PROVE  /\ ProcessInv' /\ HostInv'
         /\ last'[p] = last[p] + 1 /\ table'[p] = last[p] + 1
         /\ \A q \in Pids : last[q] <= last'[q] /\ (q # p => table'[q] = table[q] /\ image'[q] = image[q])
<1> USE DEF StartProcess, storeVars, WorldInv, ProcessInv
<1>1. ProcessInv'
  OBVIOUS
<1>2. /\ last'[p] = last[p] + 1 /\ table'[p] = last[p] + 1
      /\ \A q \in Pids : last[q] <= last'[q] /\ (q # p => table'[q] = table[q] /\ image'[q] = image[q])
  OBVIOUS
<1>3. \A h \in owner : h.pid # p
  BY DEF HostInv
<1>4. HostInv'
  BY <1>2, <1>3 DEF HostInv
<1> QED
  BY <1>1, <1>2, <1>4

LEMMA ProcessStartsKeeps ==
  ASSUME WorldInv, NEW p \in Pids, ProcessStarts(p)
  PROVE  WorldInv'
<1>1. PICK i \in Images : StartProcess(p, i) /\ UNCHANGED storeVars
  BY DEF ProcessStarts
<1>2. /\ ProcessInv' /\ HostInv'
      /\ last'[p] = last[p] + 1 /\ table'[p] = last[p] + 1
      /\ \A q \in Pids : last[q] <= last'[q] /\ (q # p => table'[q] = table[q] /\ image'[q] = image[q])
  BY <1>1, StartKeeps
<1>3. UNCHANGED <<child, plan, pc, purpose, helper, hosts>>
  BY DEF ProcessStarts, Elsewhere, storeVars, launchVars, pipeVars, planVars
<1>4. Begun' = Begun /\ TargetImage' = TargetImage /\ Before' = Before
  BY <1>3 DEF Begun, TargetImage, Before, InSnapshot
<1>5. Begun /\ ChildAlive' => ChildAlive /\ child.pid # p
  BY <1>2, <1>3 DEF WorldInv, ProcessInv, ChildInv, ChildAlive, Begun
<1>6. Begun => child.started <= last'[child.pid]
  BY <1>2 DEF WorldInv, ProcessInv, ChildInv
<1>7. ChildInv'
  BY <1>2, <1>3, <1>4, <1>5, <1>6 DEF WorldInv, ChildInv
<1> QED
  BY <1>2, <1>7 DEF WorldInv

LEMMA HelperForksKeeps ==
  ASSUME WorldInv, HelperForks
  PROVE  WorldInv'
<1>1. PICK p \in Pids, i \in Images :
        StartProcess(p, i) /\ child' = [pid |-> p, started |-> last[p] + 1, at |-> "setup"]
  BY DEF HelperForks
<1>2. UNCHANGED <<storeVars, plan, pc, purpose, helper, hosts>> /\ helper = "running"
  BY DEF HelperForks, storeVars, planVars
<1>3. /\ ProcessInv' /\ HostInv' /\ last'[p] = last[p] + 1
  BY <1>1, <1>2, StartKeeps DEF storeVars
<1>4. ~Before /\ ~Before'
  BY <1>2 DEF WorldInv, ChildInv, Before, InSnapshot
<1>5. \A h \in hosts : ~(h.pid = p /\ h.started = last[p] + 1)
  BY DEF WorldInv, HostInv, ProcessInv
<1>6. /\ child'.pid = p /\ child'.started = last[p] + 1 /\ child'.at = "setup" /\ last[p] \in Nat
      /\ child' = [pid |-> child'.pid, started |-> child'.started, at |-> child'.at]
  BY <1>1 DEF WorldInv, ProcessInv
<1>7. ChildInv'
  BY <1>2, <1>3, <1>4, <1>5, <1>6 DEF ChildInv, Begun
<1> QED
  BY <1>3, <1>7 DEF WorldInv

LEMMA ProcessExecutesKeeps ==
  ASSUME WorldInv, NEW p \in Pids, ProcessExecutes(p)
  PROVE  WorldInv'
<1>1. UNCHANGED <<child, plan, pc, purpose, helper, hosts, owner, table, last>>
  BY DEF ProcessExecutes, Elsewhere, storeVars, launchVars, pipeVars, planVars
<1>2. DOMAIN image' = Pids /\ \A q \in Pids \ {p} : image'[q] = image[q]
  BY DEF ProcessExecutes, WorldInv, ProcessInv
<1>3. ProcessInv'
  BY <1>1, <1>2 DEF WorldInv, ProcessInv
<1>4. HostInv'
  BY <1>1, <1>2 DEF WorldInv, HostInv, ProcessExecutes
<1>5. Begun' = Begun /\ TargetImage' = TargetImage /\ Before' = Before /\ ChildAlive' = ChildAlive
  BY <1>1 DEF Begun, TargetImage, Before, InSnapshot, ChildAlive
<1>6. ChildInv'
  BY <1>1, <1>2, <1>5 DEF WorldInv, ChildInv, ProcessExecutes
<1> QED
  BY <1>3, <1>4, <1>6 DEF WorldInv

LEMMA TakesLeaseKeeps ==
  ASSUME WorldInv, NEW p \in Pids, TakesLease(p)
  PROVE  WorldInv'
<1>1. UNCHANGED <<child, plan, pc, purpose, helper, table, last, image>>
  BY DEF TakesLease, Elsewhere, systemVars, launchVars, pipeVars, planVars
<1>2. PICK i \in Instances :
        /\ \A h \in hosts : h.instance # i
        /\ owner' = {[instance |-> i, pid |-> p, started |-> table[p], image |-> image[p]]}
  BY DEF TakesLease
<1> DEFINE n == [instance |-> i, pid |-> p, started |-> table[p], image |-> image[p]]
<1>3. /\ n.instance = i /\ n.pid = p /\ n.started = table[p] /\ n.image = image[p]
      /\ owner' = {n} /\ hosts' = hosts \cup {n}
  BY <1>2 DEF TakesLease
<1> HIDE DEF n
<1>4. ProcessInv'
  BY <1>1 DEF WorldInv, ProcessInv
<1>5. table[p] \in Nat \ {0} /\ table[p] <= last[p]
  BY DEF TakesLease, WorldInv, ProcessInv
<1>6. HostInv'
  BY <1>1, <1>2, <1>3, <1>5 DEF WorldInv, HostInv
<1>7. Begun' = Begun /\ TargetImage' = TargetImage /\ Before' = Before /\ ChildAlive' = ChildAlive
  BY <1>1 DEF Begun, TargetImage, Before, InSnapshot, ChildAlive
<1>8. Begun /\ n.pid = child.pid /\ n.started = child.started => child.at = "executed" /\ n.image = TargetImage
  BY <1>3 DEF WorldInv, ChildInv, TakesLease, Launching, ChildAlive, Begun
<1>9. ChildInv'
  BY <1>1, <1>3, <1>7, <1>8 DEF WorldInv, ChildInv
<1> QED
  BY <1>4, <1>6, <1>9 DEF WorldInv

LEMMA LeavesLeaseKeeps ==
  ASSUME WorldInv, LeavesLease
  PROVE  WorldInv'
<1>1. UNCHANGED <<child, plan, pc, purpose, helper, hosts, table, last, image>> /\ owner' = {}
  BY DEF LeavesLease, Elsewhere, systemVars, launchVars, pipeVars, planVars
<1>2. ProcessInv' /\ HostInv'
  BY <1>1 DEF WorldInv, ProcessInv, HostInv
<1>3. Begun' = Begun /\ TargetImage' = TargetImage /\ Before' = Before /\ ChildAlive' = ChildAlive
  BY <1>1 DEF Begun, TargetImage, Before, InSnapshot, ChildAlive
<1>4. ChildInv'
  BY <1>1, <1>3 DEF WorldInv, ChildInv
<1> QED
  BY <1>2, <1>4 DEF WorldInv

LEMMA ChildWritesKeeps ==
  ASSUME WorldInv, ChildReports \/ ChildConfirms
  PROVE  WorldInv'
<1>1. UNCHANGED <<table, last, image, hosts, owner, plan, pc, purpose, helper>>
  BY DEF ChildReports, ChildConfirms, ChildMoves, systemVars, storeVars, launchVars, planVars
<1>2. /\ Begun /\ child.at # "executed" /\ Begun' /\ child'.at # "executed"
      /\ child'.pid = child.pid /\ child'.started = child.started
      /\ child' = [pid |-> child.pid, started |-> child.started, at |-> child'.at]
  BY DEF WorldInv, ChildInv, ChildReports, ChildConfirms, ChildMoves, ChildAt, Begun
<1>3. ProcessInv' /\ HostInv'
  BY <1>1 DEF WorldInv, ProcessInv, HostInv
<1>4. TargetImage' = TargetImage /\ Before' = Before
  BY <1>1 DEF TargetImage, Before, InSnapshot
<1>5. ChildInv'
  BY <1>1, <1>2, <1>4 DEF WorldInv, ChildInv
<1> QED
  BY <1>3, <1>5 DEF WorldInv

LEMMA ChildExecutesKeeps ==
  ASSUME WorldInv, ChildExecutes
  PROVE  WorldInv'
<1>1. UNCHANGED <<table, last, hosts, owner, plan, pc, purpose, helper>>
  BY DEF ChildExecutes, ChildMoves, storeVars, launchVars, planVars
<1>2. /\ Begun /\ ChildAlive /\ child.at # "executed" /\ Begun'
      /\ child'.pid = child.pid /\ child'.started = child.started /\ child'.at = "executed"
      /\ child' = [pid |-> child.pid, started |-> child.started, at |-> child'.at]
  BY DEF WorldInv, ChildInv, ChildExecutes, ChildMoves, ChildAt, Begun, ChildAlive
<1>3. child.pid \in Pids
  BY <1>2 DEF WorldInv, ChildInv
<1>4. /\ DOMAIN image' = Pids /\ (\A q \in Pids \ {child.pid} : image'[q] = image[q])
      /\ image'[child.pid] = TargetImage
  BY <1>3 DEF ChildExecutes, WorldInv, ProcessInv, TargetImage
<1>5. ProcessInv'
  BY <1>1, <1>4 DEF WorldInv, ProcessInv
<1>6. \A h \in hosts : ~(h.pid = child.pid /\ h.started = child.started)
  BY <1>2 DEF WorldInv, ChildInv
<1>7. \A h \in owner : h.pid # child.pid
  BY <1>2, <1>6 DEF WorldInv, HostInv, ChildAlive
<1>8. HostInv'
  BY <1>1, <1>4, <1>7 DEF WorldInv, HostInv
<1>9. TargetImage' = TargetImage /\ Before' = Before
  BY <1>1 DEF TargetImage, Before, InSnapshot
<1>10. ChildInv'
  BY <1>1, <1>2, <1>4, <1>6, <1>9 DEF WorldInv, ChildInv
<1> QED
  BY <1>5, <1>8, <1>10 DEF WorldInv

\* Deaths: of any process, and of the child.
LEMMA EndingSteps ==
  ASSUME WorldInv, (\E p \in Pids : ProcessDies(p)) \/ ChildFails \/ ChildAbandoned
  PROVE  Ends /\ ChildKept
<1> USE DEF ChildKept, Before, InSnapshot, Elsewhere, launchVars, pipeVars, planVars
<1>1. CASE \E p \in Pids : ProcessDies(p)
  BY <1>1 DEF ProcessDies, Ends
<1>2. CASE ChildFails
  <2>1. Begun /\ table[child.pid] = child.started /\ Kill(child.pid) /\ child.pid \in Pids /\ table[child.pid] # 0
    BY <1>2 DEF ChildFails, ChildAt, Begun, WorldInv, ChildInv
  <2> QED
    BY <1>2, <2>1 DEF ChildFails, Ends
<1>3. CASE ChildAbandoned
  <2>1. Begun /\ table[child.pid] = child.started /\ Kill(child.pid) /\ child.pid \in Pids /\ table[child.pid] # 0
    BY <1>3 DEF ChildAbandoned, ChildAt, Begun, WorldInv, ChildInv
  <2> QED
    BY <1>3, <2>1 DEF ChildAbandoned, Ends
<1> QED
  BY <1>1, <1>2, <1>3

LEMMA WorldInvStep ==
  ASSUME WorldInv, [Next]_vars
  PROVE  WorldInv'
<1>1. CASE UNCHANGED vars
  BY <1>1, StillKeeps DEF vars, systemVars, storeVars, launchVars, pipeVars, planVars, Still, ChildKept,
                          Before, InSnapshot
<1>2. CASE World
  <2>1. CASE \E p \in Pids : ProcessStarts(p)
    BY <2>1, ProcessStartsKeeps
  <2>2. CASE \E p \in Pids : ProcessDies(p)
    BY <2>2, EndingSteps, EndsKeeps
  <2>3. CASE \E p \in Pids : ProcessExecutes(p)
    BY <2>3, ProcessExecutesKeeps
  <2>4. CASE \E p \in Pids : TakesLease(p)
    BY <2>4, TakesLeaseKeeps
  <2>5. CASE LeavesLease
    BY <2>5, LeavesLeaseKeeps
  <2> QED
    BY <1>2, <2>1, <2>2, <2>3, <2>4, <2>5 DEF World
<1>3. CASE Client
  BY <1>3, ClientStill, StillKeeps
<1>4. CASE LaunchStep
  <2>1. CASE Piping
    BY <2>1, PipingStill, StillKeeps
  <2>2. CASE HelperForks
    BY <2>2, HelperForksKeeps
  <2>3. CASE ChildReports \/ ChildConfirms
    BY <2>3, ChildWritesKeeps
  <2>4. CASE ChildExecutes
    BY <2>4, ChildExecutesKeeps
  <2>5. CASE ChildFails \/ ChildAbandoned
    BY <2>5, EndingSteps, EndsKeeps
  <2> QED
    BY <1>4, <2>1, <2>2, <2>3, <2>4, <2>5 DEF LaunchStep, Piping
<1> QED
  BY <1>1, <1>2, <1>3, <1>4 DEF Next

-----------------------------------------------------------------------------
(* The launch: a step outside the pipes loses nothing that was recorded.    *)

ChildNotRevived == child' = child /\ (Begun /\ ChildAlive' => ChildAlive)

LEMMA DeathIsFinal ==
  ASSUME WorldInv, World \/ Client \/ Piping \/ ChildFails \/ ChildAbandoned
  PROVE  ChildNotRevived
<1> USE DEF ChildNotRevived, ChildAlive, Begun
<1>1. CASE Client
  BY <1>1, ClientStill DEF Still, ChildKept
<1>2. CASE Piping
  BY <1>2, PipingStill DEF Still, ChildKept
<1>3. CASE (\E p \in Pids : ProcessDies(p)) \/ ChildFails \/ ChildAbandoned
  <2>1. Ends /\ child' = child
    BY <1>3, EndingSteps DEF ChildKept
  <2> QED
    BY <2>1 DEF Ends, Kill, WorldInv, ProcessInv, ChildInv
<1>4. ASSUME NEW p \in Pids, ProcessStarts(p) PROVE ChildNotRevived
  <2>1. child' = child
    BY <1>4 DEF ProcessStarts, Elsewhere, pipeVars
  <2>2. table'[p] = last[p] + 1 /\ \A q \in Pids : q # p => table'[q] = table[q]
    BY <1>4 DEF ProcessStarts, StartProcess, WorldInv, ProcessInv
  <2> QED
    BY <2>1, <2>2 DEF WorldInv, ProcessInv, ChildInv
<1>5. ASSUME NEW p \in Pids, ProcessExecutes(p) \/ TakesLease(p) PROVE ChildNotRevived
  BY <1>5 DEF ProcessExecutes, TakesLease, Elsewhere, pipeVars, systemVars
<1>6. CASE LeavesLease
  BY <1>6 DEF LeavesLease, Elsewhere, pipeVars, systemVars
<1> QED
  BY <1>1, <1>2, <1>3, <1>4, <1>5, <1>6 DEF World

LEMMA WorldKeepsLaunch ==
  ASSUME WorldInv, LaunchInv, World
  PROVE  LaunchInv'
<1>1. Elsewhere
  BY DEF World, ProcessStarts, ProcessDies, ProcessExecutes, TakesLease, LeavesLease
<1>2. /\ UNCHANGED <<child, receipts, ack, launched_pid, launched_started, confirmed, read_error, helper>>
      /\ UNCHANGED <<pc, purpose, outcome>>
  BY <1>1 DEF Elsewhere, launchVars, pipeVars, planVars
<1>3. Begun' = Begun /\ Released' = Released /\ Verifying' = Verifying
  BY <1>2 DEF Begun, Released, Verifying, InSnapshot
<1>4. Begun /\ ChildAlive' => ChildAlive
  BY DeathIsFinal DEF ChildNotRevived
<1>5. ReceiptInv'
  BY <1>2, <1>3, <1>4 DEF LaunchInv, ReceiptInv, Begun
<1>6. RecordInv'
  BY <1>2, <1>3, <1>4 DEF LaunchInv, RecordInv
<1>7. ConfirmInv'
  BY <1>2, <1>3 DEF LaunchInv, ConfirmInv
<1> QED
  BY <1>5, <1>6, <1>7 DEF LaunchInv

\* Away from the pipes the client ends, or goes on towards or within the verification.
ClientMoves ==
  /\ ack' = ack \/ (ack = "open" /\ ack' = "closed")
  /\ pc # "done" /\ pc' \notin {"receipts", "generation", "acknowledge", "wait"}
  /\ pc' # "done" => outcome' = outcome
  /\ Verifying' => Verifying

LEMMA ClientSteps ==
  ASSUME WorldInv, Client
  PROVE  ClientMoves
<1> USE DEF Around, systemVars, storeVars, launchVars, pipeVars, planVars, Go, Finish, ClientMoves,
            InSnapshot, Reading, Verifying
<1>1. CASE Snapshot
  BY <1>1 DEF Snapshot, SnapshotFails, ReadStarted, ReadExe, ReadConf, CheckConf, CheckStarted,
              CheckExe, Reads
<1>2. CASE ObserveStep
  BY <1>2 DEF ObserveStep, ObserveNone, ObserveUnsupported, ObserveHost, Derive, DeriveFails, Confirm, BeginSnapshot
<1>3. CASE ActivateStep
  <2>1. CASE ActivateEnds \/ AlreadyReady \/ LockFree \/ LockHeld
    BY <2>1 DEF ActivateEnds, AlreadyReady, LockFree, LockHeld
  <2>2. CASE Recheck
    BY <2>2 DEF Recheck, BeginSnapshot
  <2>3. CASE RecheckReplaced \/ RecheckFails \/ SameSnapshot
    BY <2>3 DEF RecheckReplaced, RecheckFails, SameSnapshot
  <2>4. CASE StopReaches
    BY <2>4 DEF StopReaches
  <2>5. CASE StopRefused \/ StopUnavailable \/ StopFails
    BY <2>5 DEF StopRefused, StopUnavailable, StopFails
  <2>6. CASE Unconfirmed \/ Retired \/ Occupied \/ Launch
    BY <2>6 DEF Unconfirmed, Retired, Occupied, Launch
  <2> QED
    BY <1>3, <2>1, <2>2, <2>3, <2>4, <2>5, <2>6 DEF ActivateStep
<1>4. CASE VerifyStep
  <2>1. CASE VerifyHost
    BY <2>1 DEF VerifyHost, BeginSnapshot
  <2>2. CASE StartupEnds \/ VerifyTimesOut \/ VerifyReplaced \/ Ready \/ NotReady
    BY <2>2 DEF StartupEnds, VerifyTimesOut, VerifyReplaced, Ready, NotReady
  <2> QED
    BY <1>4, <2>1, <2>2 DEF VerifyStep
<1>5. CASE ClientDies
  BY <1>5 DEF ClientDies
<1> QED
  BY <1>1, <1>2, <1>3, <1>4, <1>5 DEF Client

LEMMA ClientKeepsLaunch ==
  ASSUME WorldInv, LaunchInv, Client
  PROVE  LaunchInv'
<1>1. UNCHANGED <<child, receipts, launched_pid, launched_started, confirmed, read_error>>
  BY ClientStill DEF launchVars
<1>2. Begun' = Begun /\ Released' = Released
  BY <1>1 DEF Begun, Released
<1>3. Begun /\ ChildAlive' => ChildAlive
  BY DeathIsFinal DEF ChildNotRevived
<1>4. ClientMoves
  BY ClientSteps
<1>5. ReceiptInv'
  BY <1>1, <1>2, <1>3, <1>4 DEF LaunchInv, ReceiptInv, Begun, ClientMoves
<1>6. RecordInv'
  BY <1>1, <1>2, <1>3, <1>4 DEF LaunchInv, RecordInv, ConfirmInv, ClientMoves
<1>7. ConfirmInv'
  BY <1>1, <1>2, <1>4 DEF LaunchInv, ConfirmInv, ClientMoves
<1> QED
  BY <1>5, <1>6, <1>7 DEF LaunchInv

-----------------------------------------------------------------------------
(* The launch: the steps over the pipes.                                    *)

\* The client stops reading: the receipts stay, and the gate closes unless it opened.
LEMMA StopReadingKeepsLaunch ==
  ASSUME WorldInv, LaunchInv, NEW failed, StopReading(failed),
         Reporting, ~failed => confirmed
  PROVE  LaunchInv'
<1>1. /\ UNCHANGED <<child, receipts, table, launched_pid, launched_started, confirmed, outcome>>
      /\ pc' = "wait" /\ pc # "done" /\ read_error' = failed
      /\ ack' = ack \/ (ack = "open" /\ ack' = "closed")
  BY DEF StopReading, Reporting, systemVars
<1>2. Begun' = Begun /\ Released' = Released /\ ChildAlive' = ChildAlive /\ ~Verifying'
  BY <1>1 DEF Begun, Released, ChildAlive, Verifying, InSnapshot, Reading
<1>3. ReceiptInv'
  BY <1>1, <1>2 DEF LaunchInv, ReceiptInv
<1>4. RecordInv'
  BY <1>1, <1>2 DEF LaunchInv, RecordInv
<1>5. ConfirmInv'
  BY <1>1, <1>2 DEF LaunchInv, ConfirmInv
<1> QED
  BY <1>3, <1>4, <1>5 DEF LaunchInv

LEMMA ForkKeepsLaunch ==
  ASSUME WorldInv, LaunchInv, LaunchFails \/ Fork
  PROVE  LaunchInv'
<1>1. /\ UNCHANGED <<child, receipts, table, launched_pid, launched_started, confirmed>>
      /\ pc = "launch" /\ pc' \in {"receipts", "done"} /\ ack' \in {ack, "open"}
      /\ pc' # "done" => outcome' = outcome
  BY DEF LaunchFails, Fork, Finish, Around, systemVars, storeVars, launchVars, pipeVars
<1>2. ~Begun /\ ~Begun' /\ Released' = Released /\ ChildAlive' = ChildAlive /\ ~Verifying'
  BY <1>1 DEF Begun, Released, ChildAlive, Verifying, InSnapshot, Reading, WorldInv, ChildInv, Before
<1>3. ReceiptInv'
  BY <1>1, <1>2 DEF LaunchInv, ReceiptInv, RecordInv, Begun
<1>4. RecordInv'
  BY <1>1, <1>2 DEF LaunchInv, RecordInv, Begun, Released
<1>5. ConfirmInv'
  BY <1>1, <1>2 DEF LaunchInv, ConfirmInv
<1> QED
  BY <1>3, <1>4, <1>5 DEF LaunchInv

LEMMA ReadPidKeepsLaunch ==
  ASSUME WorldInv, LaunchInv, ReadPid
  PROVE  LaunchInv'
<1>1. CASE launched_pid # 0
  BY <1>1, StopReadingKeepsLaunch DEF ReadPid, Reporting
<1>2. CASE launched_pid = 0
  <2>1. /\ UNCHANGED <<child, table, launched_started, confirmed, outcome, ack>>
        /\ pc = "receipts" /\ pc' = "generation" /\ receipts # <<>>
        /\ receipts[1].kind = "pid" /\ launched_pid' = receipts[1].value /\ receipts' = Tail(receipts)
    BY <1>2 DEF ReadPid, systemVars
  <2>2. Begun' = Begun /\ Released' = Released /\ ChildAlive' = ChildAlive /\ ~Verifying'
    BY <2>1 DEF Begun, Released, ChildAlive, Verifying, InSnapshot, Reading
  <2>3. receipts \in Seq(Receipts) /\ 1 \in DOMAIN receipts
    BY <2>1 DEF LaunchInv, ReceiptInv
  <2>4. receipts[1].value = child.pid /\ ack # "sent" /\ child.at # "setup" /\ Begun
    BY <2>1, <2>3 DEF LaunchInv, ReceiptInv, Begun
  <2>5. /\ receipts' \in Seq(Receipts)
        /\ \A i \in DOMAIN receipts' : i + 1 \in DOMAIN receipts /\ receipts'[i] = receipts[i + 1] /\ i + 1 # 1
    BY <2>1, <2>3
  <2>6. \A i \in DOMAIN receipts' : receipts'[i].kind # "pid" /\ (receipts'[i].kind = "confirm" => Released)
    BY <2>5 DEF LaunchInv, ReceiptInv
  <2>7. ReceiptInv'
    BY <2>1, <2>2, <2>4, <2>5, <2>6 DEF LaunchInv, ReceiptInv
  <2>8. RecordInv'
    BY <2>1, <2>2, <2>4 DEF LaunchInv, RecordInv
  <2>9. ConfirmInv'
    BY <2>1, <2>2 DEF LaunchInv, ConfirmInv
  <2> QED
    BY <2>7, <2>8, <2>9 DEF LaunchInv
<1> QED
  BY <1>1, <1>2

LEMMA GenerationKeepsLaunch ==
  ASSUME WorldInv, LaunchInv, Generation
  PROVE  LaunchInv'
<1>1. /\ UNCHANGED <<child, receipts, table, launched_pid, confirmed, outcome, ack>>
      /\ pc = "generation" /\ pc' = "acknowledge" /\ launched_started' = table[launched_pid]
  BY DEF Generation, systemVars, pipeVars
<1>2. Begun' = Begun /\ Released' = Released /\ ChildAlive' = ChildAlive /\ ~Verifying'
  BY <1>1 DEF Begun, Released, ChildAlive, Verifying, InSnapshot, Reading
<1>3. ReceiptInv'
  BY <1>1, <1>2 DEF LaunchInv, ReceiptInv
<1>4. Begun /\ launched_pid = child.pid /\ (ChildAlive => launched_started' = child.started)
  BY <1>1 DEF LaunchInv, RecordInv, ChildAlive
<1>5. RecordInv'
  BY <1>1, <1>2, <1>4 DEF LaunchInv, RecordInv
<1>6. ConfirmInv'
  BY <1>1, <1>2 DEF LaunchInv, ConfirmInv
<1> QED
  BY <1>3, <1>5, <1>6 DEF LaunchInv

LEMMA AcknowledgeKeepsLaunch ==
  ASSUME WorldInv, LaunchInv, Acknowledge
  PROVE  LaunchInv'
<1>1. /\ UNCHANGED <<child, receipts, table, launched_pid, launched_started, confirmed, outcome>>
      /\ pc = "acknowledge" /\ pc' = "receipts" /\ ack' = "sent"
  BY DEF Acknowledge, systemVars, launchVars
<1>2. Begun' = Begun /\ Released' = Released /\ ChildAlive' = ChildAlive /\ ~Verifying'
  BY <1>1 DEF Begun, Released, ChildAlive, Verifying, InSnapshot, Reading
<1>3. ReceiptInv'
  BY <1>1, <1>2 DEF LaunchInv, ReceiptInv
<1>4. RecordInv'
  BY <1>1, <1>2 DEF LaunchInv, RecordInv, ConfirmInv
<1>5. ConfirmInv'
  BY <1>1, <1>2 DEF LaunchInv, ConfirmInv
<1> QED
  BY <1>3, <1>4, <1>5 DEF LaunchInv

LEMMA ReadConfirmKeepsLaunch ==
  ASSUME WorldInv, LaunchInv, ReadConfirm
  PROVE  LaunchInv'
<1>1. CASE ~(Head(receipts).value = launched_pid /\ launched_started # 0 /\ ~confirmed)
  BY <1>1, StopReadingKeepsLaunch DEF ReadConfirm, Reporting
<1>2. CASE Head(receipts).value = launched_pid /\ launched_started # 0 /\ ~confirmed
  <2>1. /\ UNCHANGED <<child, table, launched_pid, launched_started, outcome, ack, pc>>
        /\ pc = "receipts" /\ receipts # <<>> /\ confirmed' = TRUE
        /\ receipts[1].kind = "confirm" /\ receipts' = Tail(receipts)
    BY <1>2 DEF ReadConfirm, systemVars
  <2>2. Begun' = Begun /\ Released' = Released /\ ChildAlive' = ChildAlive /\ ~Verifying'
    BY <2>1 DEF Begun, Released, ChildAlive, Verifying, InSnapshot, Reading
  <2>3. receipts \in Seq(Receipts) /\ 1 \in DOMAIN receipts
    BY <2>1 DEF LaunchInv, ReceiptInv
  <2>4. Released /\ Begun /\ child.at # "setup"
    BY <2>1, <2>3 DEF LaunchInv, ReceiptInv, Begun, Released
  <2>5. /\ receipts' \in Seq(Receipts)
        /\ \A i \in DOMAIN receipts' : i + 1 \in DOMAIN receipts /\ receipts'[i] = receipts[i + 1] /\ i + 1 # 1
    BY <2>1, <2>3
  <2>6. \A i \in DOMAIN receipts' : receipts'[i].kind # "pid"
    BY <2>5 DEF LaunchInv, ReceiptInv
  <2>7. ReceiptInv'
    BY <2>1, <2>2, <2>4, <2>5, <2>6 DEF LaunchInv, ReceiptInv
  <2>8. RecordInv'
    BY <2>1, <2>2 DEF LaunchInv, RecordInv
  <2>9. ConfirmInv'
    BY <2>1, <2>2, <2>4 DEF LaunchInv, ConfirmInv
  <2> QED
    BY <2>7, <2>8, <2>9 DEF LaunchInv
<1> QED
  BY <1>1, <1>2

LEMMA WaitKeepsLaunch ==
  ASSUME WorldInv, LaunchInv, Wait \/ HelperEnds
  PROVE  LaunchInv'
<1>1. /\ UNCHANGED <<child, receipts, table, launched_pid, confirmed, read_error, ack>>
      /\ \/ UNCHANGED <<pc, purpose, outcome, launched_started>>
         \/ pc = "wait" /\ pc' = "verify" /\ ~read_error /\ UNCHANGED <<outcome, launched_started>>
         \/ pc = "wait" /\ pc' = "done" /\ outcome'.kind = "failed"
  BY DEF Wait, HelperEnds, Plain, Go, Around, systemVars, launchVars, pipeVars, planVars
<1>2. Begun' = Begun /\ Released' = Released /\ ChildAlive' = ChildAlive
  BY <1>1 DEF Begun, Released, ChildAlive
<1>3. Verifying' => Verifying \/ (pc = "wait" /\ ~read_error)
  BY <1>1 DEF Verifying, InSnapshot, Reading
<1>4. ReceiptInv'
  BY <1>1, <1>2 DEF LaunchInv, ReceiptInv
<1>5. RecordInv'
  BY <1>1, <1>2 DEF LaunchInv, RecordInv
<1>6. ConfirmInv'
  BY <1>1, <1>2, <1>3 DEF LaunchInv, ConfirmInv
<1> QED
  BY <1>4, <1>5, <1>6 DEF LaunchInv

LEMMA PipingKeepsLaunch ==
  ASSUME WorldInv, LaunchInv, Piping
  PROVE  LaunchInv'
<1>1. CASE GenerationFails \/ AcknowledgeFails \/ ReadFails
  BY <1>1, StopReadingKeepsLaunch DEF GenerationFails, AcknowledgeFails, ReadFails, Reporting
<1>2. CASE ReadEnd
  <2>1. StopReading(~confirmed) /\ Reporting
    BY <1>2 DEF ReadEnd, Reporting
  <2> QED
    BY <2>1, StopReadingKeepsLaunch
<1> QED
  BY <1>1, <1>2, ForkKeepsLaunch, ReadPidKeepsLaunch, GenerationKeepsLaunch, AcknowledgeKeepsLaunch,
     ReadConfirmKeepsLaunch, WaitKeepsLaunch DEF Piping

LEMMA HelperForksKeepsLaunch ==
  ASSUME WorldInv, LaunchInv, HelperForks
  PROVE  LaunchInv'
<1>1. /\ ~Begun /\ child'.at = "setup"
      /\ UNCHANGED <<receipts, ack, launched_pid, launched_started, confirmed, read_error, pc, purpose, outcome>>
  BY DEF HelperForks, Begun, launchVars, planVars
<1>2. receipts = <<>> /\ pc # "generation" /\ ~Released /\ ~confirmed /\ ack # "sent"
  BY <1>1 DEF LaunchInv, ReceiptInv, RecordInv, ConfirmInv, Released, Begun
<1>3. outcome.kind # "failed" => pc # "acknowledge"
  BY <1>1 DEF LaunchInv, RecordInv
<1>4. pc = "acknowledge" => outcome.kind = "none"
  BY DEF LaunchInv, ConfirmInv
<1>5. Begun' /\ ~Released' /\ Verifying' = Verifying
  BY <1>1 DEF Begun, Released, Verifying, InSnapshot
<1>6. ReceiptInv'
  BY <1>1, <1>2, <1>3, <1>4, <1>5 DEF LaunchInv, ReceiptInv
<1>7. RecordInv'
  BY <1>1, <1>2, <1>3, <1>4, <1>5 DEF RecordInv
<1>8. ConfirmInv'
  BY <1>1, <1>2, <1>5 DEF LaunchInv, ConfirmInv
<1> QED
  BY <1>6, <1>7, <1>8 DEF LaunchInv

LEMMA ChildReportsKeepsLaunch ==
  ASSUME WorldInv, LaunchInv, ChildReports
  PROVE  LaunchInv'
<1>1. /\ Begun /\ ChildAlive /\ child.at = "setup" /\ child'.at = "waiting" /\ child'.pid = child.pid
      /\ child'.started = child.started /\ child.pid \in Pids
      /\ receipts' = Append(receipts, Receipt("pid", child.pid))
      /\ UNCHANGED <<table, ack, launched_pid, launched_started, confirmed, read_error, pc, purpose, outcome>>
  BY DEF ChildReports, ChildMoves, ChildAt, Begun, ChildAlive, WorldInv, ChildInv, systemVars, launchVars, planVars
<1>2. receipts = <<>> /\ pc \notin {"generation", "acknowledge"} /\ ack # "sent" /\ ~Released /\ ~confirmed
  BY <1>1 DEF LaunchInv, ReceiptInv, ConfirmInv, Released
<1>3. Begun' /\ ~Released' /\ Verifying' = Verifying
  BY <1>1 DEF Begun, Released, Verifying, InSnapshot
<1>4. /\ receipts' \in Seq(Receipts) /\ DOMAIN receipts' = {1}
      /\ receipts'[1].kind = "pid" /\ receipts'[1].value = child'.pid
  <2>1. Receipt("pid", child.pid) \in Receipts
    BY <1>1 DEF Receipt, Receipts
  <2>2. receipts \in Seq(Receipts) /\ Len(receipts) = 0
    BY <1>2 DEF LaunchInv, ReceiptInv
  <2>3. receipts' \in Seq(Receipts) /\ Len(receipts') = 1 /\ receipts'[1] = Receipt("pid", child.pid)
    BY <1>1, <2>1, <2>2
  <2> QED
    BY <1>1, <2>3 DEF Receipt
<1>5. ReceiptInv'
  BY <1>1, <1>2, <1>3, <1>4 DEF ReceiptInv
<1>6. RecordInv'
  BY <1>1, <1>2, <1>3 DEF LaunchInv, RecordInv
<1>7. ConfirmInv'
  BY <1>1, <1>2, <1>3 DEF LaunchInv, ConfirmInv
<1> QED
  BY <1>5, <1>6, <1>7 DEF LaunchInv

LEMMA ChildConfirmsKeepsLaunch ==
  ASSUME WorldInv, LaunchInv, ChildConfirms
  PROVE  LaunchInv'
<1>1. /\ Begun /\ ChildAlive /\ child.at = "waiting" /\ child'.at = "confirmed" /\ child'.pid = child.pid
      /\ child'.started = child.started /\ child.pid \in Pids /\ ack = "sent" /\ Reporting
      /\ receipts' = Append(receipts, Receipt("confirm", child.pid))
      /\ UNCHANGED <<table, ack, launched_pid, launched_started, confirmed, read_error, pc, purpose, outcome>>
  BY DEF ChildConfirms, ChildMoves, ChildAt, Begun, ChildAlive, WorldInv, ChildInv, systemVars, launchVars, planVars
<1>2. Begun' /\ Released' /\ Verifying' = Verifying /\ ~Released
  BY <1>1 DEF Begun, Released, Verifying, InSnapshot
<1>3. /\ receipts' \in Seq(Receipts)
      /\ \A i \in DOMAIN receipts' : receipts'[i].kind # "pid"
  <2>1. Receipt("confirm", child.pid) \in Receipts /\ Receipt("confirm", child.pid).kind = "confirm"
    BY <1>1 DEF Receipt, Receipts
  <2>2. receipts \in Seq(Receipts) /\ \A i \in DOMAIN receipts : receipts[i].kind # "pid"
    BY <1>1 DEF LaunchInv, ReceiptInv
  <2>3. \A i \in DOMAIN receipts' : IF i \in DOMAIN receipts THEN receipts'[i] = receipts[i]
                                                             ELSE receipts'[i] = Receipt("confirm", child.pid)
    BY <1>1, <2>1, <2>2
  <2>4. receipts' \in Seq(Receipts)
    BY <1>1, <2>1, <2>2
  <2> QED
    BY <2>1, <2>2, <2>3, <2>4
<1>4. ReceiptInv'
  BY <1>1, <1>2, <1>3 DEF ReceiptInv
<1>5. pc \notin {"acknowledge", "generation"} /\ pc # "done" /\ outcome.kind = "none"
  BY <1>1 DEF LaunchInv, RecordInv, ConfirmInv, Reporting
<1>6. launched_pid = child.pid /\ launched_started = child.started
  BY <1>1, <1>5 DEF LaunchInv, RecordInv
<1>7. RecordInv'
  BY <1>1, <1>2, <1>5, <1>6 DEF RecordInv
<1>8. ConfirmInv'
  BY <1>1, <1>2 DEF LaunchInv, ConfirmInv
<1> QED
  BY <1>4, <1>7, <1>8 DEF LaunchInv

LEMMA ChildExecutesKeepsLaunch ==
  ASSUME WorldInv, LaunchInv, ChildExecutes
  PROVE  LaunchInv'
<1>1. /\ Begun /\ ChildAlive /\ child.at = "confirmed" /\ child'.at = "executed" /\ child'.pid = child.pid
      /\ child'.started = child.started
      /\ UNCHANGED <<receipts, table, ack, launched_pid, launched_started, confirmed, read_error, pc, purpose, outcome>>
  BY DEF ChildExecutes, ChildMoves, ChildAt, Begun, ChildAlive, WorldInv, ChildInv, launchVars, planVars
<1>2. Begun' /\ Released /\ Released' /\ Verifying' = Verifying /\ ChildAlive'
  BY <1>1 DEF Begun, Released, Verifying, InSnapshot, ChildAlive
<1>3. ReceiptInv'
  BY <1>1, <1>2 DEF LaunchInv, ReceiptInv
<1>4. RecordInv'
  BY <1>1, <1>2 DEF LaunchInv, RecordInv
<1>5. ConfirmInv'
  BY <1>1, <1>2 DEF LaunchInv, ConfirmInv
<1> QED
  BY <1>3, <1>4, <1>5 DEF LaunchInv

LEMMA ChildDiesKeepsLaunch ==
  ASSUME WorldInv, LaunchInv, ChildFails \/ ChildAbandoned
  PROVE  LaunchInv'
<1>1. /\ UNCHANGED <<child, ack, launched_pid, launched_started, confirmed, read_error, pc, purpose, outcome>>
      /\ Begun /\ Kill(child.pid) /\ ChildAlive
      /\ receipts' = receipts \/ receipts' = Append(receipts, Receipt("error", 1))
  BY DEF ChildFails, ChildAbandoned, ChildAt, Begun, ChildAlive, launchVars, planVars
<1>2. Begun' = Begun /\ Released' = Released /\ Verifying' = Verifying
  BY <1>1 DEF Begun, Released, Verifying, InSnapshot
<1>3. ~ChildAlive'
  BY <1>1 DEF Kill, ChildAlive, Begun, WorldInv, ProcessInv, ChildInv
<1>4. /\ receipts' \in Seq(Receipts)
      /\ \A i \in DOMAIN receipts' : receipts'[i].kind \in {"pid", "confirm"} =>
           i \in DOMAIN receipts /\ receipts'[i] = receipts[i]
  <2>1. Receipt("error", 1) \in Receipts /\ Receipt("error", 1).kind = "error"
    BY DEF Receipt, Receipts
  <2>2. receipts \in Seq(Receipts)
    BY DEF LaunchInv, ReceiptInv
  <2>3. CASE receipts' = receipts
    BY <2>2, <2>3
  <2>4. CASE receipts' = Append(receipts, Receipt("error", 1))
    <3>1. \A i \in DOMAIN receipts' : IF i \in DOMAIN receipts THEN receipts'[i] = receipts[i]
                                                               ELSE receipts'[i] = Receipt("error", 1)
      BY <2>1, <2>2, <2>4
    <3>2. receipts' \in Seq(Receipts)
      BY <2>1, <2>2, <2>4
    <3> QED
      BY <2>1, <3>1, <3>2
  <2> QED
    BY <1>1, <2>3, <2>4
<1>5. ReceiptInv'
  BY <1>1, <1>2, <1>3, <1>4 DEF LaunchInv, ReceiptInv
<1>6. RecordInv'
  BY <1>1, <1>2, <1>3 DEF LaunchInv, RecordInv
<1>7. ConfirmInv'
  BY <1>1, <1>2 DEF LaunchInv, ConfirmInv
<1> QED
  BY <1>5, <1>6, <1>7 DEF LaunchInv

LEMMA LaunchInvStep ==
  ASSUME WorldInv, LaunchInv, [Next]_vars
  PROVE  LaunchInv'
<1>1. CASE UNCHANGED vars
  <2>1. UNCHANGED <<child, receipts, ack, launched_pid, launched_started, confirmed, read_error, table, pc,
                    purpose, outcome>>
    BY <1>1 DEF vars, systemVars, launchVars, pipeVars, planVars
  <2>2. ReceiptInv' /\ RecordInv' /\ ConfirmInv'
    BY <2>1 DEF LaunchInv, ReceiptInv, RecordInv, ConfirmInv, Begun, Released, ChildAlive, Verifying, InSnapshot
  <2> QED
    BY <2>2 DEF LaunchInv
<1>2. CASE World \/ Client
  BY <1>2, WorldKeepsLaunch, ClientKeepsLaunch
<1>3. CASE LaunchStep
  BY <1>3, PipingKeepsLaunch, HelperForksKeepsLaunch, ChildReportsKeepsLaunch, ChildConfirmsKeepsLaunch,
     ChildExecutesKeepsLaunch, ChildDiesKeepsLaunch DEF LaunchStep, Piping
<1> QED
  BY <1>1, <1>2, <1>3 DEF Next

-----------------------------------------------------------------------------
(* What was read: the world and the launch leave it as it was.              *)

Forked == {"launch", "receipts", "generation", "acknowledge", "wait", "verify"}

\* Hosts are only added, and whoever takes the lease is new.
Unread ==
  /\ UNCHANGED <<purpose, observed, snap, plan, stopped>>
  /\ hosts \subseteq hosts'
  /\ \A h \in owner' : h \in owner \/ \A g \in hosts : g.instance # h.instance
  /\ pc' = pc \/ (pc \in Forked /\ pc' \in Forked \cup {"done"})
  /\ outcome' = outcome \/ outcome'.kind = "failed"
  /\ Begun => Begun' /\ child'.pid = child.pid /\ child'.started = child.started

LEMMA WorldUnread ==
  ASSUME WorldInv, World
  PROVE  Unread
<1> USE DEF Unread, Elsewhere, planVars, pipeVars, storeVars, Begun
<1>1. ASSUME NEW p \in Pids, ProcessStarts(p) \/ ProcessDies(p) \/ ProcessExecutes(p) PROVE Unread
  BY <1>1 DEF ProcessStarts, ProcessDies, ProcessExecutes, Kill
<1>2. ASSUME NEW p \in Pids, TakesLease(p) PROVE Unread
  BY <1>2 DEF TakesLease
<1>3. CASE LeavesLease
  BY <1>3 DEF LeavesLease
<1> QED
  BY <1>1, <1>2, <1>3 DEF World

LEMMA LaunchUnread ==
  ASSUME WorldInv, LaunchStep
  PROVE  Unread
<1>1. CASE Piping
  <2>1. Still /\ child' = child
    BY <1>1, PipingStill DEF ChildKept
  <2>2. UNCHANGED <<purpose, observed, snap, plan, stopped>>
    BY <1>1 DEF Piping, LaunchFails, Fork, ReadPid, Generation, GenerationFails, Acknowledge, AcknowledgeFails,
                ReadConfirm, ReadFails, ReadEnd, Wait, HelperEnds, Finish, Go, StopReading, planVars
  <2>3. /\ pc' = pc \/ (pc \in Forked /\ pc' \in Forked \cup {"done"})
        /\ outcome' = outcome \/ outcome'.kind = "failed"
    BY <1>1 DEF Piping, LaunchFails, Fork, ReadPid, Generation, GenerationFails, Acknowledge, AcknowledgeFails,
                ReadConfirm, ReadFails, ReadEnd, Wait, HelperEnds, Finish, Go, StopReading, Plain, Forked
  <2> QED
    BY <2>1, <2>2, <2>3 DEF Unread, Still, Begun
<1>2. CASE HelperForks
  BY <1>2 DEF HelperForks, Unread, storeVars, planVars, Begun
<1>3. CASE ChildReports \/ ChildConfirms \/ ChildExecutes
  BY <1>3 DEF ChildReports, ChildConfirms, ChildExecutes, ChildMoves, Unread, storeVars, planVars, Begun, ChildAt,
              WorldInv, ChildInv
<1>4. CASE ChildFails \/ ChildAbandoned
  BY <1>4 DEF ChildFails, ChildAbandoned, Kill, Unread, planVars, Begun
<1> QED
  BY <1>1, <1>2, <1>3, <1>4 DEF LaunchStep, Piping

LEMMA UnreadKeeps ==
  ASSUME LaunchInv, ReadInv, Unread
  PROVE  ReadInv'
<1>1. UNCHANGED <<purpose, observed, snap, plan, stopped>>
  BY DEF Unread
<1>2. /\ InSnapshot' = InSnapshot /\ Unplanned' = Unplanned
      /\ (pc' = "confirm") = (pc = "confirm")
      /\ InSnapshot \/ pc = "confirm" => pc' = pc
      /\ pc' # "done" => pc # "done"
  BY DEF Unread, InSnapshot, Reading, Unplanned, Forked
<1>3. Planned => Planned'
  BY <1>1 DEF Unread, Planned, Names
<1>4. SnapshotInv'
  BY <1>1, <1>2 DEF ReadInv, SnapshotInv, Unread, Names
<1>5. PlanInv'
  BY <1>1, <1>2, <1>3 DEF ReadInv, PlanInv
<1>6. VerifyInv'
  <2>1. InSnapshot /\ purpose = "verify" => Begun
    BY DEF LaunchInv, ConfirmInv, Verifying, Released, Begun
  <2> QED
    BY <1>1, <1>2, <2>1 DEF ReadInv, VerifyInv, Unread, Names
<1>7. ReadyInv'
  BY <1>1 DEF ReadInv, ReadyInv, ReadyIsTheTarget, Unread
<1> QED
  BY <1>4, <1>5, <1>6, <1>7 DEF ReadInv

-----------------------------------------------------------------------------
(* What was read: the client's own steps.                                   *)

\* The upgrade ends with a result that names no Host.
Ended ==
  /\ pc' = "done" /\ outcome'.kind \notin {"ready", "already_ready"}
  /\ UNCHANGED <<plan, stopped, hosts>>

LEMMA EndKeeps ==
  ASSUME ReadInv, Ended
  PROVE  ReadInv'
<1>1. ~InSnapshot' /\ ~Unplanned' /\ pc' # "confirm"
  BY DEF Ended, InSnapshot, Reading, Unplanned
<1>2. Planned' = Planned
  BY DEF Ended, Planned, Names
<1> QED
  BY <1>1, <1>2 DEF Ended, ReadInv, SnapshotInv, PlanInv, VerifyInv, ReadyInv, ReadyIsTheTarget

\* Once there is a plan, the client moves on with it.
MovedOn ==
  /\ pc' \in {"recheck", "start", "stop", "stop_failed", "retire", "launch"}
  /\ UNCHANGED <<plan, stopped, hosts, outcome, child>>

LEMMA GoKeeps ==
  ASSUME ReadInv, ~Unplanned, pc # "done", MovedOn
  PROVE  ReadInv'
<1>1. ~InSnapshot' /\ ~Unplanned' /\ pc' # "confirm"
  BY DEF MovedOn, InSnapshot, Reading, Unplanned
<1>2. Planned' = Planned /\ Begun' = Begun
  BY DEF MovedOn, Planned, Names, Begun
<1> QED
  BY <1>1, <1>2 DEF MovedOn, ReadInv, SnapshotInv, PlanInv, VerifyInv, ReadyInv, ReadyIsTheTarget

\* A snapshot begins at a Host that answered.
LEMMA BeginKeeps ==
  ASSUME WorldInv, LaunchInv, ReadInv, NEW h \in Answering, NEW reason, BeginSnapshot(h, reason), pc # "done",
         \/ reason = "observe" /\ pc = "observe"
         \/ reason = "stop" /\ ~Unplanned
         \/ reason = "verify" /\ pc = "verify" /\ h.pid = launched_pid
  PROVE  ReadInv'
<1>1. /\ UNCHANGED <<plan, stopped, hosts, owner, outcome, child>>
      /\ pc' = "read_started" /\ purpose' = reason
      /\ observed' = [instance |-> h.instance, pid |-> h.pid]
      /\ snap' = [pid |-> h.pid, started |-> 0, exe |-> None, conf |-> None]
  BY DEF BeginSnapshot, Around, storeVars, pipeVars
<1>2. h \in owner /\ h \in hosts
  BY DEF Answering, WorldInv, HostInv
<1>3. observed'.instance = h.instance /\ observed'.pid = h.pid /\ snap'.pid = h.pid
  BY <1>1
<1>4. Planned' = Planned /\ Begun' = Begun
  BY <1>1 DEF Planned, Names, Begun
<1>5. SnapshotInv'
  BY <1>1, <1>2, <1>3 DEF SnapshotInv, Names
<1>6. Unplanned' = (reason = "observe") /\ (pc = "observe" => Unplanned) /\ (pc = "verify" => ~Unplanned)
  BY <1>1 DEF Unplanned, InSnapshot, Reading
<1>7. PlanInv'
  BY <1>1, <1>4, <1>6 DEF ReadInv, PlanInv
<1>8. VerifyInv'
  <2>1. CASE reason = "verify"
    <3>1. pc = "verify" /\ h.pid = launched_pid
      BY <2>1
    <3>2. Released /\ Begun /\ outcome.kind = "none"
      BY <3>1 DEF LaunchInv, ConfirmInv, Verifying, Released, Begun
    <3>3. h.pid = child.pid
      BY <3>1, <3>2 DEF LaunchInv, RecordInv
    <3>4. h.started >= child.started
      BY <1>2, <3>2, <3>3 DEF WorldInv, ProcessInv, HostInv, ChildInv
    <3> QED
      BY <1>1, <1>2, <1>3, <3>3, <3>4 DEF VerifyInv, Names
  <2>2. CASE reason # "verify"
    BY <1>1, <2>2 DEF VerifyInv
  <2> QED
    BY <2>1, <2>2
<1>9. ReadyInv'
  BY <1>1, <1>4 DEF ReadInv, ReadyInv, ReadyIsTheTarget
<1> QED
  BY <1>5, <1>7, <1>8, <1>9 DEF ReadInv

\* The Host of the snapshot, while it owns the Store, is the process being read.
LEMMA ReadHost ==
  ASSUME WorldInv, ReadInv, InSnapshot \/ pc = "confirm", NEW h \in owner, h.instance = observed.instance
  PROVE  /\ h.pid = observed.pid /\ h.pid = snap.pid /\ h \in hosts
         /\ table[snap.pid] = h.started /\ image[snap.pid] = h.image
<1>1. PICK g \in hosts : Names(g, observed) /\ snap.pid = observed.pid
  BY DEF ReadInv, SnapshotInv
<1>2. h \in hosts /\ g = h
  BY <1>1 DEF WorldInv, HostInv, Names
<1> QED
  BY <1>1, <1>2 DEF WorldInv, HostInv, Names

\* One more reading: of the start time, the path or the arguments.
LEMMA ReadsKeeps ==
  ASSUME WorldInv, ReadInv, ReadStarted \/ ReadExe \/ ReadConf
  PROVE  ReadInv'
<1>1. /\ UNCHANGED <<purpose, observed, plan, stopped, hosts, owner, outcome, child>>
      /\ InSnapshot /\ InSnapshot' /\ pc' # "read_started" /\ pc # "done" /\ table[snap.pid] # 0
      /\ \/ pc = "read_started" /\ pc' = "read_exe" /\ snap' = [snap EXCEPT !.started = table[snap.pid]]
         \/ pc = "read_exe" /\ pc' = "read_conf" /\ snap' = [snap EXCEPT !.exe = image[snap.pid].exe]
         \/ pc = "read_conf" /\ pc' = "check_conf" /\ snap' = [snap EXCEPT !.conf = image[snap.pid].conf]
  BY DEF ReadStarted, ReadExe, ReadConf, Reads, Present, Around, storeVars, pipeVars, InSnapshot, Reading
<1>2. snap = [pid |-> snap.pid, started |-> snap.started, exe |-> snap.exe, conf |-> snap.conf]
  BY <1>1 DEF ReadInv, SnapshotInv
<1>3. snap' = [pid     |-> snap.pid,
               started |-> IF pc = "read_started" THEN table[snap.pid] ELSE snap.started,
               exe     |-> IF pc = "read_exe" THEN image[snap.pid].exe ELSE snap.exe,
               conf    |-> IF pc = "read_conf" THEN image[snap.pid].conf ELSE snap.conf]
  BY <1>1, <1>2
<1>4. /\ snap'.pid = snap.pid
      /\ snap'.started = IF pc = "read_started" THEN table[snap.pid] ELSE snap.started
      /\ snap'.exe = IF pc = "read_exe" THEN image[snap.pid].exe ELSE snap.exe
      /\ snap'.conf = IF pc = "read_conf" THEN image[snap.pid].conf ELSE snap.conf
  BY <1>3
<1>5. Planned' = Planned /\ Begun' = Begun /\ Unplanned' = Unplanned
  BY <1>1 DEF Planned, Names, Begun, Unplanned
<1>6. ASSUME NEW h \in owner, h.instance = observed.instance
      PROVE  /\ snap'.started = h.started
             /\ pc' # "read_exe" => snap'.exe = h.image.exe
             /\ pc' \notin {"read_exe", "read_conf"} => snap'.conf = h.image.conf
  <2>1. table[snap.pid] = h.started /\ image[snap.pid] = h.image
    BY <1>1, <1>6, ReadHost
  <2>2. /\ pc # "read_started" => snap.started = h.started
        /\ pc \notin {"read_started", "read_exe"} => snap.exe = h.image.exe
    BY <1>1, <1>6 DEF ReadInv, SnapshotInv
  <2> QED
    BY <1>1, <1>4, <2>1, <2>2
<1>7. SnapshotInv'
  <2>1. \E h \in hosts' : Names(h, observed') /\ snap'.pid = observed'.pid
    BY <1>1, <1>4 DEF ReadInv, SnapshotInv, Names
  <2>2. snap' = [pid |-> snap'.pid, started |-> snap'.started, exe |-> snap'.exe, conf |-> snap'.conf]
    BY <1>3, <1>4
  <2> QED
    BY <1>1, <1>6, <2>1, <2>2 DEF SnapshotInv
<1>8. PlanInv'
  BY <1>1, <1>5 DEF ReadInv, PlanInv
<1>9. VerifyInv'
  <2>1. CASE purpose = "verify"
    <3>1. PICK h \in hosts : /\ Names(h, observed) /\ h.pid = child.pid /\ h.started >= child.started
                             /\ pc # "read_started" => snap.started \in Nat /\ snap.started >= h.started
      BY <1>1, <2>1 DEF ReadInv, VerifyInv
    <3>2. snap.pid = h.pid
      BY <1>1, <3>1 DEF ReadInv, SnapshotInv, Names
    <3>3. table[snap.pid] \in Nat /\ table[snap.pid] >= h.started
      BY <1>1, <3>2 DEF WorldInv, ProcessInv, HostInv
    <3>4. snap'.started \in Nat /\ snap'.started >= h.started
      BY <1>1, <1>4, <3>1, <3>3
    <3> QED
      BY <1>1, <3>1, <3>4 DEF VerifyInv, Names
  <2>2. CASE purpose # "verify"
    BY <1>1, <2>2 DEF VerifyInv
  <2> QED
    BY <2>1, <2>2
<1>10. ReadyInv'
  BY <1>1, <1>5 DEF ReadInv, ReadyInv, ReadyIsTheTarget
<1> QED
  BY <1>7, <1>8, <1>9, <1>10 DEF ReadInv

\* The readings are compared, and what they say is derived.
LEMMA ChecksKeep ==
  ASSUME WorldInv, ReadInv, CheckConf \/ CheckStarted \/ CheckExe \/ Derive
  PROVE  ReadInv'
<1>1. /\ UNCHANGED <<purpose, observed, snap, plan, stopped, hosts, owner, outcome, child>>
      /\ InSnapshot /\ pc \notin {"read_started", "read_exe", "read_conf", "done"}
      /\ pc' \in {"check_started", "check_exe", "snapshot", "confirm"}
      /\ pc' = "confirm" => purpose = "observe"
  BY DEF CheckConf, CheckStarted, CheckExe, Derive, Go, Around, storeVars, pipeVars, planVars, InSnapshot, Reading
<1>2. Planned' = Planned /\ Begun' = Begun /\ Unplanned' = Unplanned /\ (pc' # "confirm" => InSnapshot')
  BY <1>1 DEF Planned, Names, Begun, Unplanned, InSnapshot, Reading
<1>3. SnapshotInv'
  BY <1>1 DEF ReadInv, SnapshotInv, Names
<1>4. PlanInv'
  BY <1>1, <1>2 DEF ReadInv, PlanInv
<1>5. VerifyInv'
  BY <1>1 DEF ReadInv, VerifyInv, Names
<1>6. ReadyInv'
  BY <1>1, <1>2 DEF ReadInv, ReadyInv, ReadyIsTheTarget
<1> QED
  BY <1>3, <1>4, <1>5, <1>6 DEF ReadInv

\* observe makes the plan of a Host that still answers.
LEMMA ConfirmKeeps ==
  ASSUME WorldInv, ReadInv, Confirm
  PROVE  ReadInv'
<1>1. /\ UNCHANGED <<purpose, observed, snap, stopped, hosts, owner, outcome, child>>
      /\ pc = "confirm" /\ pc' = "activate"
      /\ plan' = [instance |-> observed.instance, pid |-> observed.pid,
                  started |-> snap.started, exe |-> snap.exe, conf |-> snap.conf]
  BY DEF Confirm, Around, storeVars, pipeVars
<1>2. /\ plan'.instance = observed.instance /\ plan'.pid = observed.pid
      /\ plan'.started = snap.started /\ plan'.exe = snap.exe /\ plan'.conf = snap.conf
  BY <1>1
<1>3. PICK h \in owner : h.instance = observed.instance /\ h.pid = observed.pid
  BY DEF Confirm, Answering, Same
<1>4. h \in hosts
  BY <1>3 DEF WorldInv, HostInv
<1>5. snap.started = h.started /\ snap.exe = h.image.exe /\ snap.conf = h.image.conf
  BY <1>1, <1>3 DEF ReadInv, SnapshotInv
<1>6. Planned'
  BY <1>1, <1>2, <1>3, <1>4, <1>5 DEF Planned, Names
<1>7. stopped = {} /\ ~Begun
  BY <1>1 DEF ReadInv, PlanInv, Unplanned, WorldInv, ChildInv, Before
<1>8. ~InSnapshot' /\ ~Unplanned' /\ Begun' = Begun
  BY <1>1 DEF InSnapshot, Reading, Unplanned, Begun
<1>9. ReadyInv'
  BY <1>1, <1>7, <1>8 DEF ReadInv, ReadyInv, ReadyIsTheTarget
<1> QED
  BY <1>1, <1>6, <1>7, <1>8, <1>9 DEF ReadInv, SnapshotInv, PlanInv, VerifyInv

\* The stop reaches the Host of the plan, whose instance it names.
LEMMA StopReachesKeeps ==
  ASSUME WorldInv, ReadInv, StopReaches
  PROVE  ReadInv'
<1>1. /\ UNCHANGED <<plan, hosts, outcome, child>>
      /\ pc = "stop" /\ pc' \in {"retire", "stop_failed"} /\ stopped' = stopped \cup {plan.instance}
  BY DEF StopReaches, Around, storeVars, pipeVars
<1>2. ~InSnapshot' /\ ~Unplanned' /\ Begun' = Begun /\ Planned' = Planned
  BY <1>1 DEF InSnapshot, Reading, Unplanned, Begun, Planned, Names
<1>3. Planned
  BY <1>1 DEF ReadInv, PlanInv, Unplanned, InSnapshot, Reading
<1>4. stopped' = {plan'.instance}
  BY <1>1 DEF ReadInv, PlanInv
<1>5. PlanInv'
  BY <1>1, <1>2, <1>3, <1>4 DEF PlanInv
<1>6. ReadyInv'
  BY <1>1, <1>2 DEF ReadInv, ReadyInv, ReadyIsTheTarget
<1> QED
  BY <1>1, <1>2, <1>5, <1>6 DEF ReadInv, SnapshotInv, VerifyInv

\* A result that names a Host of which ReadyIsTheTarget holds.
LEMMA NamedKeeps ==
  ASSUME ReadInv, pc' = "done", UNCHANGED <<plan, stopped, hosts>>, ReadyInv'
  PROVE  ReadInv'
<1>1. ~InSnapshot' /\ ~Unplanned' /\ pc' # "confirm"
  BY DEF InSnapshot, Reading, Unplanned
<1>2. Planned' = Planned
  BY DEF Planned, Names
<1> QED
  BY <1>1, <1>2 DEF ReadInv, SnapshotInv, PlanInv, VerifyInv

LEMMA AlreadyReadyKeeps ==
  ASSUME ReadInv, AlreadyReady
  PROVE  ReadInv'
<1>1. CASE Finish(Plain("unconfirmed"))
  <2>1. Ended
    BY <1>1 DEF Ended, Finish, Plain, Around, planVars, storeVars
  <2> QED
    BY <2>1, EndKeeps
<1>2. CASE Finish(Settled("already_ready", plan))
  <2>1. /\ pc = "activate" /\ plan.exe = Target /\ pc' = "done" /\ UNCHANGED <<plan, stopped, hosts>>
        /\ outcome'.kind = "already_ready" /\ outcome'.instance = plan.instance /\ outcome'.pid = plan.pid
    BY <1>2 DEF AlreadyReady, Finish, Settled, Around, planVars, storeVars
  <2>2. Planned
    BY <2>1 DEF ReadInv, PlanInv, Unplanned, InSnapshot, Reading
  <2>3. ReadyInv'
    BY <2>1, <2>2 DEF Planned, Names, ReadyInv, ReadyIsTheTarget
  <2> QED
    BY <2>1, <2>3, NamedKeeps
<1> QED
  BY <1>1, <1>2 DEF AlreadyReady

\* The Host that answered with the child's pid and is as old as the child is the child.
LEMMA ReadyKeeps ==
  ASSUME WorldInv, LaunchInv, ReadInv, Ready
  PROVE  ReadInv'
<1>1. /\ pc = "snapshot" /\ purpose = "verify" /\ snap.started = launched_started
      /\ pc' = "done" /\ UNCHANGED <<plan, stopped, hosts, child>>
      /\ outcome'.kind = "ready" /\ outcome'.instance = observed.instance /\ outcome'.pid = observed.pid
  BY DEF Ready, MatchesLaunch, Finish, Settled, Around, planVars, storeVars, pipeVars
<1>2. InSnapshot /\ Verifying
  BY <1>1 DEF InSnapshot, Verifying
<1>3. PICK h \in hosts : /\ Names(h, observed) /\ h.pid = child.pid /\ h.started >= child.started
                         /\ snap.started \in Nat /\ snap.started >= h.started
  BY <1>1, <1>2 DEF ReadInv, VerifyInv
<1>4. Released /\ Begun /\ launched_started = child.started
  BY <1>1, <1>2 DEF LaunchInv, ConfirmInv, RecordInv, Released, Begun
<1>5. h.started = child.started
  BY <1>1, <1>3, <1>4 DEF WorldInv, HostInv, ChildInv
<1>6. h.image.exe = Target /\ h.image.conf = plan.conf
  BY <1>3, <1>4, <1>5 DEF WorldInv, ChildInv, TargetImage
<1>7. Begun'
  BY <1>1, <1>4 DEF Begun
<1>8. ReadyInv'
  BY <1>1, <1>3, <1>5, <1>6, <1>7 DEF ReadyInv, ReadyIsTheTarget, Names
<1> QED
  BY <1>1, <1>8, NamedKeeps

\* The steps of the client after which it ends and names no Host.
Ending ==
  \/ SnapshotFails \/ ObserveNone \/ ObserveUnsupported \/ DeriveFails
  \/ ActivateEnds \/ RecheckReplaced \/ RecheckFails \/ StopRefused \/ Unconfirmed \/ Occupied
  \/ StartupEnds \/ VerifyTimesOut \/ VerifyReplaced \/ NotReady \/ ClientDies

LEMMA EndingKeeps ==
  ASSUME ReadInv, Ending
  PROVE  ReadInv'
<1> USE DEF Ended, Finish, Plain, Around, planVars, storeVars
<1>1. CASE SnapshotFails \/ ObserveNone \/ ObserveUnsupported \/ DeriveFails
  BY <1>1, EndKeeps DEF SnapshotFails, ObserveNone, ObserveUnsupported, DeriveFails
<1>2. CASE ActivateEnds \/ RecheckReplaced \/ RecheckFails \/ StopRefused \/ Unconfirmed \/ Occupied
  BY <1>2, EndKeeps DEF ActivateEnds, RecheckReplaced, RecheckFails, StopRefused, Unconfirmed, Occupied
<1>3. CASE StartupEnds \/ VerifyTimesOut \/ VerifyReplaced \/ NotReady \/ ClientDies
  BY <1>3, EndKeeps DEF StartupEnds, VerifyTimesOut, VerifyReplaced, NotReady, ClientDies
<1> QED
  BY <1>1, <1>2, <1>3 DEF Ending

\* The steps of an upgrade with a plan.
LEMMA PlannedSteps ==
  ASSUME ReadInv, LockFree \/ LockHeld \/ SameSnapshot \/ StopUnavailable \/ StopFails \/ Retired \/ Launch
  PROVE  ReadInv'
<1>1. ~Unplanned /\ pc # "done"
  BY DEF LockFree, LockHeld, SameSnapshot, StopUnavailable, StopFails, Retired, Launch, Unplanned, InSnapshot, Reading
<1>2. MovedOn \/ Ended
  BY DEF LockFree, LockHeld, SameSnapshot, StopUnavailable, StopFails, Retired, Launch, MovedOn, Ended, Go, Finish,
         Plain, Around, planVars, storeVars, pipeVars
<1> QED
  BY <1>1, <1>2, GoKeeps, EndKeeps

LEMMA ClientKeepsRead ==
  ASSUME WorldInv, LaunchInv, ReadInv, Client
  PROVE  ReadInv'
<1>1. CASE Ending
  BY <1>1, EndingKeeps
<1>2. CASE ObserveHost
  BY <1>2, BeginKeeps DEF ObserveHost
<1>3. CASE Recheck
  BY <1>3, BeginKeeps DEF Recheck, Unplanned, InSnapshot, Reading
<1>4. CASE VerifyHost
  BY <1>4, BeginKeeps DEF VerifyHost
<1>5. CASE Snapshot
  BY <1>1, <1>5, ReadsKeeps, ChecksKeep DEF Snapshot, Ending
<1>6. CASE ObserveStep
  BY <1>1, <1>2, <1>6, ChecksKeep, ConfirmKeeps DEF ObserveStep, Ending
<1>7. CASE ActivateStep
  BY <1>1, <1>3, <1>7, PlannedSteps, AlreadyReadyKeeps, StopReachesKeeps DEF ActivateStep, Ending
<1>8. CASE VerifyStep
  BY <1>1, <1>4, <1>8, ReadyKeeps DEF VerifyStep, Ending
<1> QED
  BY <1>1, <1>5, <1>6, <1>7, <1>8 DEF Client, Ending

-----------------------------------------------------------------------------
(* The three layers together.                                              *)

LEMMA InitInv ==
  ASSUME Init
  PROVE  Inv
<1> USE DEF Init
<1>1. ~Begun /\ ~Released /\ ~InSnapshot /\ ~Verifying /\ outcome.kind = "none"
  BY DEF Begun, Released, InSnapshot, Reading, Verifying, Plain
<1>2. WorldInv
  BY <1>1 DEF WorldInv, ProcessInv, HostInv, ChildInv
<1>3. LaunchInv
  BY <1>1 DEF LaunchInv, ReceiptInv, RecordInv, ConfirmInv
<1>4. ReadInv
  BY <1>1 DEF ReadInv, SnapshotInv, PlanInv, Unplanned, VerifyInv, ReadyInv, ReadyIsTheTarget
<1> QED
  BY <1>2, <1>3, <1>4 DEF Inv

LEMMA InvStep ==
  ASSUME Inv, [Next]_vars
  PROVE  Inv'
<1>1. WorldInv' /\ LaunchInv'
  BY WorldInvStep, LaunchInvStep DEF Inv
<1>2. CASE UNCHANGED vars
  BY <1>1, <1>2, UnreadKeeps DEF Inv, Unread, vars, storeVars, pipeVars, planVars, Begun
<1>3. CASE World \/ LaunchStep
  BY <1>1, <1>3, WorldUnread, LaunchUnread, UnreadKeeps DEF Inv
<1>4. CASE Client
  BY <1>1, <1>4, ClientKeepsRead DEF Inv
<1> QED
  BY <1>2, <1>3, <1>4 DEF Next

THEOREM InvHolds == Spec => []Inv
BY InitInv, InvStep, PTL DEF Spec

\* HostLifecycle.zig's stop, for any number of processes and Hosts: the Host it
\* reaches is the one whose process, executable and configuration the plan read.
THEOREM StopsWhatItRead == Spec => []StopsOnlyWhatItRead
<1>1. Inv => StopsOnlyWhatItRead
  BY DEF Inv, ReadInv, PlanInv, Planned, Names, StopsOnlyWhatItRead
<1> QED
  BY <1>1, InvHolds, PTL

\* activate's "ready" and "already ready": the Host named is the child that was
\* launched as the target under the planned configuration, or a Host of the target.
THEOREM ReadyNamesTheTarget == Spec => []ReadyIsTheTarget
<1>1. Inv => ReadyIsTheTarget
  BY DEF Inv, ReadInv, ReadyInv
<1> QED
  BY <1>1, InvHolds, PTL

\* host_launch.c's receipt and gate: the target executes in a process whose pid
\* and start time the client recorded before it released it.
THEOREM RecordedBeforehand == Spec => []RecordedBeforeItRuns
<1>1. Inv => RecordedBeforeItRuns
  BY DEF Inv, LaunchInv, RecordInv, Released, RecordedBeforeItRuns
<1> QED
  BY <1>1, InvHolds, PTL
=============================================================================
