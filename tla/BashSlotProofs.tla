--------------------------- MODULE BashSlotProofs ---------------------------
(***************************************************************************)
(* What BashSlot guarantees for every timeout, every queue and every       *)
(* number of streams.  The invariant is built in layers, each proved on    *)
(* the ones before it: types; who answers to the group's number; custody;  *)
(* what a saved result rests on.                                           *)
(***************************************************************************)
EXTENDS BashSlot, SequenceTheorems, TLAPS

-----------------------------------------------------------------------------
(* The layers.                                                             *)

\* Types, and a zombie has a status to be collected.
TypeInv == TypeOK /\ (zombie => status \in ExitStatus)

\* The leader has not been reaped, so the group's number is still ours.
Unreaped == zombie \/ "leader" \in alive

NumberInv ==
  /\ zombie => "leader" \notin alive
  /\ foreign => ~zombie /\ alive \cap Group = {}
  /\ slot = "bash" /\ life.process \in {"running", "grace", "reaping"} => Unreaped
  /\ ~misdirected

\* Custody is attached exactly while a result may still be saved.
CustodyInv ==
  /\ slot = "bash_preparing" =>
       delivery = "open" /\ custody.state = "attached" /\ ~custody.delivered /\ resolution = "none"
  /\ slot = "bash" /\ delivery = "open" => custody.state = "attached" /\ resolution = "none"
  /\ slot = "bash" /\ delivery = "closed" => custody.state # "attached"
  /\ slot = "bash_prepared_cleanup" => custody.state # "attached"
  /\ at = "reclaim" => delivery = "closed"
  /\ SettledOrEnding

\* What the lifecycle recorded is what the kernel said.
StatusInv ==
  /\ slot = "bash" /\ life.process \in {"checking_group", "gone"} =>
       ~Unreaped /\ life.observed # NoTerm
  /\ slot = "bash" /\ life.observed # NoTerm =>
       "leader" \notin alive /\ status \in ExitStatus /\ life.observed = RuiBashReap(status)
  /\ slot = "bash" /\ life.process = "gone" => alive \cap Group = {}

PipeInv ==
  slot = "bash" => \A s \in Streams :
    /\ pipes[s].state = "eof" => holds[s] = {} /\ queue[s] = 0
    /\ pipes[s].state = "failed" => life.capture_failure

SavedInv ==
  /\ slot = "bash" /\ at = "deliver" => Retired(life, pipes) /\ delivery = "open"
  /\ slot = "bash" /\ resolution # "none" =>
       /\ delivery = "closed" /\ Retired(life, pipes)
       /\ resolution = "succeeded" =>
            life.observed = [kind |-> "exited", value |-> 0] /\ ~life.capture_failure

\* A process that left running still has its sender only until the service in
\* which it did so returns.
Serving == {"read", "reap", "probe", "reread", "finish"}
TakingCommands == {"open", "fenced"}

SenderInv ==
  slot = "bash" =>
    /\ at \in Serving /\ life.process = "running" => wasRunning
    /\ sender /\ phase \in TakingCommands /\ life.process # "running" =>
         at \in Serving /\ wasRunning

-----------------------------------------------------------------------------
(* The lifecycle's transitions.                                            *)

\* What a transition of a lifecycle l does, apart from recording an exit: it
\* keeps what was captured and observed, goes forward to the grace or to the
\* reaping at most, and asks for a signal only before the leader may be reaped.
Evolves(l, r) ==
  /\ r.life \in Lifecycle
  /\ r.life.capture_failure = l.capture_failure
  /\ r.life.observed = l.observed
  /\ \/ r.life.process = l.process
     \/ l.process = "running" /\ r.life.process = "grace"
     \/ l.process = "grace" /\ r.life.process = "reaping"
  /\ r.signal # "none" => l.process \in {"running", "grace"}

LEMMA TicksInRange ==
  /\ 0 \in 0..Timeout
  /\ 0 \in 0..Grace /\ Grace \in 0..Grace
  /\ 0 \in 0..Cleanup /\ Cleanup \in 0..Cleanup
BY TickAssumption

LEMMA QuietEvolves ==
  ASSUME NEW l \in Lifecycle
  PROVE  Evolves(l, Quiet(l))
BY DEF Evolves, Quiet

LEMMA BeginGraceEvolves ==
  ASSUME NEW l \in Lifecycle
  PROVE  Evolves(l, BeginGrace(l))
BY TicksInRange DEF Evolves, BeginGrace, Quiet, Lifecycle, Processes, StopReasons

LEMMA FirstReasonKeeps ==
  ASSUME NEW l \in Lifecycle, NEW reason \in StopReasons
  PROVE  /\ FirstReason(l, reason) \in Lifecycle
         /\ FirstReason(l, reason).process = l.process
         /\ FirstReason(l, reason).capture_failure = l.capture_failure
         /\ FirstReason(l, reason).observed = l.observed
BY DEF FirstReason, Lifecycle, Processes, StopReasons

LEMMA RequestTerminationEvolves ==
  ASSUME NEW l \in Lifecycle, NEW reason \in StopReasons
  PROVE  Evolves(l, RequestTermination(l, reason))
<1> DEFINE m == FirstReason(l, reason)
<1>1. m \in Lifecycle /\ m.process = l.process /\ m.capture_failure = l.capture_failure
      /\ m.observed = l.observed
  BY FirstReasonKeeps
<1>2. Evolves(m, BeginGrace(m))
  BY <1>1, BeginGraceEvolves
<1> HIDE DEF m
<1>3. QED
  BY <1>1, <1>2 DEF Evolves, RequestTermination, m

LEMMA ExpireDeadlineEvolves ==
  ASSUME NEW l \in Lifecycle
  PROVE  Evolves(l, ExpireDeadline(l))
<1> DEFINE m == FirstReason(l, "timed_out")
<1>1. m \in Lifecycle /\ m.process = l.process /\ m.capture_failure = l.capture_failure
      /\ m.observed = l.observed
  BY FirstReasonKeeps DEF StopReasons
<1>2. Evolves(m, BeginGrace(m)) /\ Evolves(l, Quiet(l))
  BY <1>1, BeginGraceEvolves, QuietEvolves
<1>3. ExpireDeadline(l) \in {BeginGrace(m), Quiet(l)}
  BY DEF ExpireDeadline
<1> HIDE DEF m
<1>4. QED
  BY <1>1, <1>2, <1>3 DEF Evolves

LEMMA ExpireGraceEvolves ==
  ASSUME NEW l \in Lifecycle
  PROVE  Evolves(l, ExpireGrace(l))
BY DEF Evolves, ExpireGrace, Quiet, Lifecycle, Processes

\* Recording an exit.
LEMMA ObserveLeaderRecords ==
  ASSUME NEW l \in Lifecycle, NEW term \in Terms, AwaitsLeader(l)
  PROVE  LET r == ObserveLeader(l, term) IN
         /\ r.life \in Lifecycle
         /\ r.life.capture_failure = l.capture_failure
         /\ r.life.observed = term
         /\ r.life.process = "grace"
<1> DEFINE m == [l EXCEPT !.observed = term]
<1>1. m \in Lifecycle /\ m.process = l.process /\ m.capture_failure = l.capture_failure
      /\ m.observed = term
  BY DEF Lifecycle
<1>2. l.process \in {"running", "grace"}
  BY DEF AwaitsLeader
<1> HIDE DEF m
<1>3. /\ BeginGrace(m).life \in Lifecycle
      /\ BeginGrace(m).life.capture_failure = m.capture_failure
      /\ BeginGrace(m).life.observed = m.observed
      /\ BeginGrace(m).life.process = "grace"
  BY <1>1, <1>2, TicksInRange DEF BeginGrace, Quiet, Lifecycle, Processes
<1>4. QED
  BY <1>1, <1>3 DEF ObserveLeader, m

LEMMA ReapedRecords ==
  ASSUME NEW l \in Lifecycle, NEW term \in Terms
  PROVE  /\ Reaped(l, term) \in Lifecycle
         /\ Reaped(l, term).capture_failure = l.capture_failure
         /\ Reaped(l, term).process = "checking_group"
         /\ Reaped(l, term).observed = IF l.observed = NoTerm THEN term ELSE l.observed
BY DEF Reaped, Lifecycle, Processes

LEMMA GroupAbsentKeeps ==
  ASSUME NEW l \in Lifecycle
  PROVE  /\ GroupAbsent(l) \in Lifecycle
         /\ GroupAbsent(l).capture_failure = l.capture_failure
         /\ GroupAbsent(l).process = "gone"
         /\ GroupAbsent(l).observed = l.observed
BY TicksInRange DEF GroupAbsent, Lifecycle, Processes

LEMMA CaptureFailureKeeps ==
  ASSUME NEW l \in Lifecycle, NEW b \in BOOLEAN
  PROVE  LET m == [l EXCEPT !.capture_failure = @ \/ b] IN
         /\ m \in Lifecycle
         /\ m.process = l.process
         /\ m.observed = l.observed
         /\ m.capture_failure = (l.capture_failure \/ b)
BY DEF Lifecycle

LEMMA ReapIsATerm ==
  ASSUME NEW e \in ExitStatus
  PROVE  /\ RuiBashReap(e) \in Terms /\ RuiBashObserve(e) = RuiBashReap(e)
         /\ RuiBashReap(e) # NoTerm
         /\ RuiBashReap(e).kind = e.kind /\ RuiBashReap(e).value = e.value % 256
BY StatusAssumption DEF RuiBashReap, RuiBashObserve, Terms, NoTerm

-----------------------------------------------------------------------------
(* What the steps of a service do, for every layer to use.                 *)

LEMMA StreamOrderTypes ==
  /\ StreamOrder \in Seq(Streams) /\ StreamOrder # <<>>
BY StreamAssumption DEF Streams

\* The leader is observed: nothing new, or the exit of the zombie.
LEMMA ObservedFacts ==
  ASSUME TypeInv, NEW l \in Lifecycle, NEW r \in Observed(l)
  PROVE  /\ r.life \in Lifecycle /\ r.fault \in BOOLEAN
         /\ r.life.capture_failure = l.capture_failure
         /\ \/ r.life.process = l.process
            \/ l.process = "running" /\ r.life.process = "grace"
         /\ r.signal # "none" => l.process \in {"running", "grace"}
         /\ \/ r.life.observed = l.observed
            \/ zombie /\ r.life.observed = RuiBashReap(status)
<1>1. CASE ~AwaitsLeader(l)
  <2>1. r = [life |-> l, signal |-> "none", fault |-> FALSE]
    BY <1>1 DEF Observed
  <2> QED BY <2>1
<1>2. CASE AwaitsLeader(l)
  <2> DEFINE failed == RequestTermination(l, "infrastructure_shutdown")
             seen == IF zombie THEN ObserveLeader(l, RuiBashObserve(status)) ELSE Quiet(l)
  <2>1. l.process \in {"running", "grace"}
    BY <1>2 DEF AwaitsLeader
  <2>2. Evolves(l, failed)
    BY RequestTerminationEvolves DEF StopReasons
  <2>3. failed.life.process = l.process \/ (l.process = "running" /\ failed.life.process = "grace")
    BY <2>1 DEF RequestTermination, BeginGrace, Quiet, FirstReason, Lifecycle
  <2>4. r \in {[life |-> failed.life, signal |-> failed.signal, fault |-> TRUE],
               [life |-> seen.life, signal |-> seen.signal, fault |-> FALSE]}
    BY <1>2 DEF Observed
  <2>5. CASE r = [life |-> failed.life, signal |-> failed.signal, fault |-> TRUE]
    <3> HIDE DEF failed, seen
    <3> QED BY <2>1, <2>2, <2>3, <2>5 DEF Evolves
  <2>6. CASE r = [life |-> seen.life, signal |-> seen.signal, fault |-> FALSE]
    <3>1. CASE zombie
      <4>1. status \in ExitStatus
        BY <3>1 DEF TypeInv
      <4> DEFINE term == RuiBashReap(status)
      <4>2. term \in Terms /\ RuiBashObserve(status) = term
        BY <4>1, ReapIsATerm
      <4>3. seen = ObserveLeader(l, term)
        BY <3>1, <4>2
      <4> HIDE DEF term, seen
      <4>4. /\ seen.life \in Lifecycle /\ seen.life.capture_failure = l.capture_failure
            /\ seen.life.observed = term /\ seen.life.process = "grace"
        BY <1>2, <4>2, <4>3, ObserveLeaderRecords
      <4> QED BY <2>1, <2>6, <3>1, <4>4 DEF term
    <3>2. CASE ~zombie
      BY <2>6, <3>2 DEF Quiet
    <3> QED BY <3>1, <3>2
  <2> QED BY <2>4, <2>5, <2>6
<1> QED BY <1>1, <1>2

\* A cut touches the pipes that are still reading, and only those.
LEMMA CutFacts ==
  ASSUME TypeInv, NEW l \in Lifecycle, NEW f \in BOOLEAN, CutCapture(l, f)
  PROVE  /\ life' \in Lifecycle /\ life'.process = l.process /\ life'.observed = l.observed
         /\ fault' \in BOOLEAN
         /\ pipes' \in [Streams -> Pipe]
         /\ queue' \in [Streams -> 0..MaxQueued]
         /\ holds' \in [Streams -> SUBSET (Group \cup {"escaped"})]
         /\ l.capture_failure => life'.capture_failure
         /\ \A s \in Streams :
              IF pipes[s].state = "reading"
              THEN /\ pipes'[s].state \in {"reading", "tail", "failed"}
                   /\ pipes'[s].state = "failed" => life'.capture_failure
              ELSE pipes'[s] = pipes[s] /\ queue'[s] = queue[s] /\ holds'[s] = holds[s]
         /\ (\A s \in Streams : pipes[s].state # "reading") =>
              life'.capture_failure = l.capture_failure
<1> DEFINE cut == {s \in Streams : pipes[s].state = "reading"}
           due == l.process = "gone" \/ Unconfirmed(l)
<1>1. PICK unasked \in SUBSET (IF due THEN cut ELSE {}) :
        /\ pipes' = [s \in Streams |->
             IF ~due \/ s \notin cut THEN pipes[s]
             ELSE IF s \in unasked THEN [state |-> "failed", owed |-> 0]
             ELSE [state |-> "tail", owed |-> queue[s]]]
        /\ life' = [l EXCEPT !.capture_failure = @ \/ unasked # {}]
        /\ Abandon(unasked)
  BY DEF CutCapture
<1>2. fault' \in BOOLEAN
  BY DEF CutCapture, Unconfirmed
<1>3. /\ life' \in Lifecycle /\ life'.process = l.process /\ life'.observed = l.observed
      /\ life'.capture_failure = (l.capture_failure \/ unasked # {})
  <2> DEFINE b == unasked # {}
  <2>1. life' = [l EXCEPT !.capture_failure = @ \/ b] /\ b \in BOOLEAN
    BY <1>1
  <2> HIDE DEF b
  <2>2. /\ life' \in Lifecycle /\ life'.process = l.process /\ life'.observed = l.observed
        /\ life'.capture_failure = (l.capture_failure \/ b)
    BY <2>1, CaptureFailureKeeps
  <2> QED BY <2>2 DEF b
<1>4. /\ pipes \in [Streams -> Pipe] /\ queue \in [Streams -> 0..MaxQueued]
      /\ holds \in [Streams -> SUBSET (Group \cup {"escaped"})]
      /\ MaxQueued \in Nat /\ l.capture_failure \in BOOLEAN
  BY BoundAssumption DEF TypeInv, TypeOK, Lifecycle
<1>5. pipes' \in [Streams -> Pipe]
  BY <1>1, <1>4 DEF Pipe, Closed
<1>6. /\ queue' \in [Streams -> 0..MaxQueued]
      /\ holds' \in [Streams -> SUBSET (Group \cup {"escaped"})]
  BY <1>1, <1>4 DEF Abandon
<1>7. \A s \in Streams :
        IF pipes[s].state = "reading"
        THEN /\ pipes'[s].state \in {"reading", "tail", "failed"}
             /\ pipes'[s].state = "failed" => unasked # {}
        ELSE pipes'[s] = pipes[s] /\ queue'[s] = queue[s] /\ holds'[s] = holds[s]
  BY <1>1, <1>4 DEF Abandon
<1>8. (\A s \in Streams : pipes[s].state # "reading") => unasked = {}
  BY <1>1
<1> QED BY <1>2, <1>3, <1>4, <1>5, <1>6, <1>7, <1>8

\* What every step of a service does to the pipes: a closed one stays as it is;
\* one that reaches its end has no writer and no byte left; a failed one counts.
PipeEffect ==
  /\ pipes' \in [Streams -> Pipe]
  /\ queue' \in [Streams -> 0..MaxQueued]
  /\ holds' \in [Streams -> SUBSET (Group \cup {"escaped"})]
  /\ \A s \in Streams :
       /\ pipes[s].state \in Closed =>
            pipes'[s] = pipes[s] /\ queue'[s] = queue[s] /\ holds'[s] = holds[s]
       /\ pipes[s].state \notin Closed /\ pipes'[s].state = "eof" => queue'[s] = 0 /\ holds'[s] = {}
       /\ pipes[s].state \notin Closed /\ pipes'[s].state = "failed" => life'.capture_failure
  /\ life.capture_failure => life'.capture_failure
  /\ (\A s \in Streams : pipes[s].state \in Closed) => life'.capture_failure = life.capture_failure

\* ... and to whom it may signal.
SignalEffect ==
  /\ misdirected' \in BOOLEAN
  /\ misdirected' => misdirected \/ (foreign /\ life.process \in {"running", "grace"})

LEMMA CutIsAPipeEffect ==
  ASSUME TypeInv, NEW l \in Lifecycle, NEW f \in BOOLEAN, CutCapture(l, f),
         l.capture_failure = life.capture_failure
  PROVE  PipeEffect
<1>1. /\ pipes' \in [Streams -> Pipe] /\ queue' \in [Streams -> 0..MaxQueued]
      /\ holds' \in [Streams -> SUBSET (Group \cup {"escaped"})]
      /\ life.capture_failure => life'.capture_failure
      /\ (\A s \in Streams : pipes[s].state # "reading") => life'.capture_failure = life.capture_failure
  BY CutFacts
<1>2. ASSUME NEW s \in Streams
      PROVE  /\ pipes[s].state \in Closed =>
                  pipes'[s] = pipes[s] /\ queue'[s] = queue[s] /\ holds'[s] = holds[s]
             /\ pipes[s].state \notin Closed => pipes'[s].state # "eof"
             /\ pipes[s].state \notin Closed /\ pipes'[s].state = "failed" => life'.capture_failure
  <2>1. IF pipes[s].state = "reading"
        THEN /\ pipes'[s].state \in {"reading", "tail", "failed"}
             /\ pipes'[s].state = "failed" => life'.capture_failure
        ELSE pipes'[s] = pipes[s] /\ queue'[s] = queue[s] /\ holds'[s] = holds[s]
    BY CutFacts
  <2> QED BY <2>1 DEF Closed
<1>3. (\A s \in Streams : pipes[s].state \in Closed) => life'.capture_failure = life.capture_failure
  BY <1>1 DEF Closed
<1> QED BY <1>1, <1>2, <1>3 DEF PipeEffect

LEMMA ServiceFacts ==
  ASSUME TypeInv, Service
  PROVE  /\ slot = "bash" /\ life' \in Lifecycle /\ fault' \in BOOLEAN
         /\ PipeEffect /\ SignalEffect
         /\ \/ life'.process = life.process
            \/ life.process = "running" /\ life'.process = "grace"
         /\ \/ life'.observed = life.observed
            \/ zombie /\ life'.observed = RuiBashReap(status)
         /\ at' = "read" /\ todo' = StreamOrder /\ wasRunning' \in BOOLEAN
<1> DEFINE expired == ExpireDeadline(life)
<1>1. life \in Lifecycle /\ misdirected \in BOOLEAN /\ foreign \in BOOLEAN
  BY DEF TypeInv, TypeOK
<1>2. Evolves(life, expired)
  BY <1>1, ExpireDeadlineEvolves
<1>3. expired.life.process = life.process
      \/ (life.process = "running" /\ expired.life.process = "grace")
  BY <1>1 DEF ExpireDeadline, BeginGrace, Quiet, FirstReason, Lifecycle
<1>4. PICK r \in Observed(expired.life) :
        /\ CutCapture(r.life, r.fault)
        /\ Signal(IF expired.signal # "none" THEN expired.signal ELSE r.signal)
  BY DEF Service
<1>5. expired.life \in Lifecycle /\ expired.life.observed = life.observed
      /\ expired.life.capture_failure = life.capture_failure
      /\ (expired.signal # "none" => life.process \in {"running", "grace"})
  BY <1>2 DEF Evolves
<1> HIDE DEF expired
<1>6. /\ r.life \in Lifecycle /\ r.fault \in BOOLEAN
      /\ r.life.capture_failure = life.capture_failure
      /\ \/ r.life.process = expired.life.process
         \/ expired.life.process = "running" /\ r.life.process = "grace"
      /\ r.signal # "none" => expired.life.process \in {"running", "grace"}
      /\ \/ r.life.observed = life.observed
         \/ zombie /\ r.life.observed = RuiBashReap(status)
  BY <1>5, ObservedFacts
<1>7. PipeEffect /\ life' \in Lifecycle /\ fault' \in BOOLEAN
      /\ life'.process = r.life.process /\ life'.observed = r.life.observed
  BY <1>4, <1>6, CutFacts, CutIsAPipeEffect
<1>8. SignalEffect
  BY <1>1, <1>3, <1>4, <1>5, <1>6 DEF Signal, SignalEffect
<1>9. slot = "bash" /\ at' = "read" /\ todo' = StreamOrder /\ wasRunning' \in BOOLEAN
  BY DEF Service
<1> QED BY <1>3, <1>6, <1>7, <1>8, <1>9

LEMMA ReadFacts ==
  ASSUME TypeInv, Read
  PROVE  /\ slot = "bash" /\ life' \in Lifecycle /\ fault' \in BOOLEAN
         /\ PipeEffect /\ SignalEffect
         /\ \/ life'.process = life.process
            \/ life.process = "running" /\ life'.process = "grace"
         /\ life'.observed = life.observed
<1> DEFINE s == Head(todo)
<1>1. /\ slot = "bash" /\ todo \in Seq(Streams) /\ todo # <<>> /\ ServicePipe(s)
      /\ life \in Lifecycle /\ fault \in BOOLEAN /\ misdirected \in BOOLEAN /\ foreign \in BOOLEAN
      /\ pipes \in [Streams -> Pipe] /\ queue \in [Streams -> 0..MaxQueued]
      /\ holds \in [Streams -> SUBSET (Group \cup {"escaped"})] /\ MaxQueued \in Nat
  BY BoundAssumption DEF TypeInv, TypeOK, Read
<1>2. s \in Streams
  BY <1>1
<1> HIDE DEF s
<1>3. CASE UNCHANGED <<pipes, life, fault, queue, holds, misdirected>>
  <2>1. pipes' = pipes /\ life' = life /\ fault' = fault /\ queue' = queue /\ holds' = holds
        /\ misdirected' = misdirected
    BY <1>3
  <2>2. PipeEffect
    BY <1>1, <2>1 DEF PipeEffect, Closed
  <2>3. SignalEffect
    BY <1>1, <2>1 DEF SignalEffect
  <2> QED BY <1>1, <2>1, <2>2, <2>3
<1>4. CASE pipes[s].state \notin Closed /\ \E n \in 1..queue[s] :
             (pipes[s].state = "tail" => n <= pipes[s].owed) /\ Retain(s, n)
  <2>1. PICK n \in 1..queue[s] : (pipes[s].state = "tail" => n <= pipes[s].owed) /\ Retain(s, n)
    BY <1>4
  <2>2. pipes[s].state \in {"reading", "tail"} /\ pipes[s].owed \in 0..MaxQueued
    BY <1>1, <1>2, <1>4 DEF Pipe
  <2>3. queue' \in [Streams -> 0..MaxQueued]
    BY <1>1, <1>2, <2>1 DEF Retain
  <2>4. pipes' \in [Streams -> Pipe] /\ pipes'[s].state = pipes[s].state
        /\ \A t \in Streams \ {s} : pipes'[t] = pipes[t] /\ queue'[t] = queue[t]
    BY <1>1, <1>2, <2>1, <2>2 DEF Retain, Pipe
  <2>5. life' = life /\ fault' = fault /\ holds' = holds /\ misdirected' = misdirected
    BY <2>1 DEF Retain
  <2>6. PipeEffect
    BY <1>1, <1>2, <2>2, <2>3, <2>4, <2>5 DEF PipeEffect, Closed
  <2>7. SignalEffect
    BY <1>1, <2>5 DEF SignalEffect
  <2> QED BY <1>1, <2>5, <2>6, <2>7
<1>5. CASE pipes[s].state \notin Closed /\ ReadEnd(s)
  BY <1>1, <1>2, <1>5 DEF ReadEnd, Close, PipeEffect, SignalEffect, Pipe, Closed
<1>6. CASE pipes[s].state \notin Closed /\ ReadIncomplete(s)
  BY <1>1, <1>2, <1>6 DEF ReadIncomplete, Close, Abandon, PipeEffect, SignalEffect, Pipe, Closed
<1>7. CASE pipes[s].state \notin Closed /\ ReadFails(s)
  <2> DEFINE l == [life EXCEPT !.capture_failure = TRUE]
             r == IF pipes[s].state = "reading" THEN RequestTermination(l, "capture_failed")
                  ELSE Quiet(l)
  <2>1. l \in Lifecycle /\ l.process = life.process /\ l.observed = life.observed
        /\ l.capture_failure
    BY <1>1 DEF Lifecycle
  <2>2. Evolves(l, r)
    BY <2>1, RequestTerminationEvolves, QuietEvolves DEF StopReasons
  <2>3. life' = r.life /\ Signal(r.signal) /\ fault' \in BOOLEAN
    BY <1>1, <1>7 DEF ReadFails
  <2>4. r.life.process = l.process \/ (l.process = "running" /\ r.life.process = "grace")
    BY <2>1 DEF RequestTermination, BeginGrace, Quiet, FirstReason, Lifecycle
  <2> HIDE DEF l, r
  <2>5. life' \in Lifecycle /\ life'.observed = life.observed /\ life'.capture_failure
        /\ SignalEffect
        /\ (life'.process = life.process \/ (life.process = "running" /\ life'.process = "grace"))
    BY <1>1, <2>1, <2>2, <2>3, <2>4 DEF Evolves, Signal, SignalEffect
  <2>6. pipes' \in [Streams -> Pipe] /\ queue' \in [Streams -> 0..MaxQueued]
        /\ holds' \in [Streams -> SUBSET (Group \cup {"escaped"})]
        /\ pipes'[s].state = "failed"
        /\ \A t \in Streams \ {s} : pipes'[t] = pipes[t] /\ queue'[t] = queue[t] /\ holds'[t] = holds[t]
    BY <1>1, <1>2, <1>7 DEF ReadFails, Close, Abandon, Pipe, Closed
  <2>7. PipeEffect
    BY <1>1, <1>2, <1>7, <2>5, <2>6 DEF PipeEffect, Closed
  <2> QED BY <1>1, <2>3, <2>5, <2>7
<1> QED BY <1>1, <1>3, <1>4, <1>5, <1>6, <1>7 DEF ServicePipe

LEMMA ReapFacts ==
  ASSUME TypeInv, Reap
  PROVE  /\ slot = "bash" /\ life' \in Lifecycle /\ fault' \in BOOLEAN /\ zombie' \in BOOLEAN
         /\ SignalEffect /\ life'.capture_failure = life.capture_failure
         /\ \/ /\ life'.process = life.process \/ (life.process = "grace" /\ life'.process = "reaping")
               /\ life'.observed = life.observed /\ zombie' = zombie
            \/ /\ life.process \in {"grace", "reaping"} /\ life'.process = "checking_group"
               /\ zombie /\ ~zombie'
               /\ life'.observed = IF life.observed = NoTerm THEN RuiBashReap(status) ELSE life.observed
<1> DEFINE r == ExpireGrace(life)
           term == RuiBashReap(status)
<1>1. life \in Lifecycle /\ fault \in BOOLEAN /\ zombie \in BOOLEAN /\ misdirected \in BOOLEAN
      /\ foreign \in BOOLEAN
  BY DEF TypeInv, TypeOK
<1>2. Evolves(life, r)
  BY <1>1, ExpireGraceEvolves
<1>3. r.life.process = life.process \/ (life.process = "grace" /\ r.life.process = "reaping")
  BY <1>1 DEF ExpireGrace, Quiet, Lifecycle
<1>4. /\ slot = "bash" /\ Signal(r.signal)
      /\ \/ life' = r.life /\ fault' \in BOOLEAN /\ zombie' = zombie
         \/ /\ r.life.process = "reaping" /\ zombie /\ zombie' = FALSE
            /\ life' = Reaped(r.life, term)
            /\ fault' = (fault \/ r.life.observed \notin {NoTerm, term})
  BY <1>1 DEF Reap
<1>5. zombie => term \in Terms
  BY ReapIsATerm DEF TypeInv
<1> HIDE DEF r, term
<1>6. SignalEffect
  BY <1>1, <1>2, <1>4 DEF Evolves, Signal, SignalEffect
<1>7. CASE life' = r.life /\ fault' \in BOOLEAN /\ zombie' = zombie
  BY <1>1, <1>2, <1>3, <1>4, <1>6, <1>7 DEF Evolves
<1>8. CASE /\ r.life.process = "reaping" /\ zombie /\ zombie' = FALSE
           /\ life' = Reaped(r.life, term)
           /\ fault' = (fault \/ r.life.observed \notin {NoTerm, term})
  <2>1. r.life \in Lifecycle /\ r.life.observed = life.observed
        /\ r.life.capture_failure = life.capture_failure
    BY <1>2 DEF Evolves
  <2>2. /\ life' \in Lifecycle /\ life'.capture_failure = life.capture_failure
        /\ life'.process = "checking_group"
        /\ life'.observed = IF life.observed = NoTerm THEN term ELSE life.observed
    BY <1>5, <1>8, <2>1, ReapedRecords
  <2> QED BY <1>1, <1>3, <1>4, <1>6, <1>8, <2>2 DEF term
<1> QED BY <1>4, <1>7, <1>8

LEMMA ProbeFacts ==
  ASSUME TypeInv, Probe
  PROVE  /\ slot = "bash" /\ life' \in Lifecycle /\ fault' \in BOOLEAN
         /\ PipeEffect /\ life'.observed = life.observed
         /\ \/ life'.process = life.process
            \/ life.process = "checking_group" /\ RuiBashGroupAbsent /\ life'.process = "gone"
<1> DEFINE l == IF life.process = "checking_group" /\ RuiBashGroupAbsent
                THEN GroupAbsent(life) ELSE life
<1>1. life \in Lifecycle /\ fault \in BOOLEAN /\ slot = "bash"
  BY DEF TypeInv, TypeOK, Probe
<1>2. CutCapture(l, fault) \/ CutCapture(life, TRUE)
  BY DEF Probe
<1>3. /\ l \in Lifecycle /\ l.observed = life.observed /\ l.capture_failure = life.capture_failure
      /\ \/ l.process = life.process
         \/ life.process = "checking_group" /\ RuiBashGroupAbsent /\ l.process = "gone"
  BY <1>1, GroupAbsentKeeps
<1> HIDE DEF l
<1>4. CASE CutCapture(l, fault)
  BY <1>1, <1>3, <1>4, CutFacts, CutIsAPipeEffect
<1>5. CASE CutCapture(life, TRUE)
  BY <1>1, <1>5, CutFacts, CutIsAPipeEffect
<1> QED BY <1>2, <1>4, <1>5

-----------------------------------------------------------------------------
(* Ending an Attempt that was not launched.                                *)

LEMMA PhaseOrder ==
  /\ Order["open"] = 0 /\ Order["fenced"] = 1 /\ Order["draining"] = 2 /\ Order["stopping"] = 3
BY DEF Order

LEMMA LaterIsAPhase ==
  ASSUME NEW p \in HostPhases, NEW q \in HostPhases
  PROVE  /\ Later(p, q) \in HostPhases
         /\ Later(p, q) = "open" => p = "open" /\ q = "open"
BY PhaseOrder DEF Later, HostPhases

LEMMA EndUnlaunchedFacts ==
  ASSUME TypeInv, NEW code \in Resolutions \cup {"none"}, NEW least \in HostPhases,
         EndUnlaunched(code, least)
  PROVE  /\ phase' \in HostPhases /\ slot' \in {"free", "bash_prepared_cleanup"}
         /\ custody' \in [state : {"free", "detached"}, delivered : BOOLEAN, launch : BOOLEAN]
         /\ resolution' \in Resolutions \cup {"unadmitted", "none"} /\ sender' \in BOOLEAN
         /\ resolution' = "none" =>
              \/ phase' # "open"
              \/ (code = "none" \/ custody.delivered) /\ least = "open"
<1>1. PICK saved \in BOOLEAN :
        LET claims == code # "none" /\ ~custody.delivered
            p == IF claims /\ ~saved THEN "stopping" ELSE phase
        IN /\ saved => claims
           /\ resolution' = IF saved THEN Saved(code) ELSE resolution
           /\ sender' = (sender /\ ~saved)
           /\ \/ FreeSlot /\ phase' = Later(least, p)
              \/ /\ slot' = "bash_prepared_cleanup"
                 /\ custody' = [custody EXCEPT !.state = "detached", !.delivered = @ \/ claims]
                 /\ phase' = Later("fenced", p)
  BY DEF EndUnlaunched
<1> DEFINE claims == code # "none" /\ ~custody.delivered
           p == IF claims /\ ~saved THEN "stopping" ELSE phase
<1>2. /\ phase \in HostPhases /\ sender \in BOOLEAN /\ resolution \in Resolutions \cup {"unadmitted", "none"}
      /\ custody \in [state : {"free", "attached", "detached"}, delivered : BOOLEAN, launch : BOOLEAN]
      /\ claims \in BOOLEAN
  BY DEF TypeInv, TypeOK
<1>3. p \in HostPhases /\ "fenced" \in HostPhases
  BY <1>2 DEF HostPhases
<1>4. /\ saved => claims
      /\ resolution' = IF saved THEN Saved(code) ELSE resolution
      /\ sender' = (sender /\ ~saved)
      /\ \/ FreeSlot /\ phase' = Later(least, p)
         \/ /\ slot' = "bash_prepared_cleanup"
            /\ custody' = [custody EXCEPT !.state = "detached", !.delivered = @ \/ claims]
            /\ phase' = Later("fenced", p)
  BY <1>1
<1>5. /\ phase' \in HostPhases
      /\ phase' = "open" => p = "open" /\ least = "open"
  BY <1>3, <1>4, LaterIsAPhase
<1>6. /\ slot' \in {"free", "bash_prepared_cleanup"}
      /\ custody' \in [state : {"free", "detached"}, delivered : BOOLEAN, launch : BOOLEAN]
  <2>1. CASE FreeSlot
    BY <2>1 DEF FreeSlot, FreeRecord
  <2>2. CASE /\ slot' = "bash_prepared_cleanup"
             /\ custody' = [custody EXCEPT !.state = "detached", !.delivered = @ \/ claims]
    <3> HIDE DEF claims
    <3> QED BY <1>2, <2>2
  <2> QED BY <1>4, <2>1, <2>2
<1>7. /\ resolution' \in Resolutions \cup {"unadmitted", "none"} /\ sender' \in BOOLEAN
      /\ saved => resolution' # "none"
  BY <1>2, <1>4 DEF Saved, Resolutions
<1>8. p = "open" => saved \/ ~claims
  OBVIOUS
<1> QED BY <1>4, <1>5, <1>6, <1>7, <1>8

-----------------------------------------------------------------------------
(* Types.                                                                  *)

LEMMA StartTypes == Start \in Lifecycle /\ AllReading \in [Streams -> Pipe]
<1>1. Timeout \in 0..Timeout
  BY TickAssumption
<1> QED BY <1>1, TicksInRange, BoundAssumption DEF Start, Lifecycle, Processes, StopReasons, AllReading, Pipe

LEMMA TypeInit == Init => TypeInv
<1> SUFFICES ASSUME Init PROVE TypeInv
  OBVIOUS
<1>1. life \in Lifecycle /\ pipes \in [Streams -> Pipe]
  BY StartTypes DEF Init
<1>2. queue \in [Streams -> 0..MaxQueued] /\ holds \in [Streams -> SUBSET (Group \cup {"escaped"})]
  BY BoundAssumption DEF Init
<1>3. /\ phase \in HostPhases /\ slot \in Arms
      /\ custody \in [state : {"free", "attached", "detached"}, delivered : BOOLEAN, launch : BOOLEAN]
  BY DEF Init, HostPhases, Arms, FreeRecord
<1>4. todo \in Seq(Streams)
  BY DEF Init
<1>5. alive \in SUBSET (Group \cup {"escaped"})
  BY DEF Init
<1> QED BY <1>1, <1>2, <1>3, <1>4, <1>5 DEF Init, TypeInv, TypeOK

\* The steps that end or keep an Attempt without a process.
LEMMA TypeUnlaunched ==
  ASSUME TypeInv, NEW code \in Resolutions \cup {"none"}, NEW least \in HostPhases,
         EndUnlaunched(code, least), NotLaunched, stopped' = stopped, shutdown' \in BOOLEAN
  PROVE  TypeInv'
<1>1. /\ phase' \in HostPhases /\ slot' \in {"free", "bash_prepared_cleanup"}
      /\ custody' \in [state : {"free", "detached"}, delivered : BOOLEAN, launch : BOOLEAN]
      /\ resolution' \in Resolutions \cup {"unadmitted", "none"} /\ sender' \in BOOLEAN
  BY EndUnlaunchedFacts
<1>2. custody' \in [state : {"free", "attached", "detached"}, delivered : BOOLEAN, launch : BOOLEAN]
  BY <1>1
<1> QED BY <1>1, <1>2 DEF TypeInv, TypeOK, Arms, NotLaunched, serviceVars, kernelVars, processVars

LEMMA LeftInRange ==
  ASSUME NEW k \in Nat, NEW n \in 0..k
  PROVE  Left(n) \in 0..k
BY DEF Left

LEMMA TickInRange ==
  ASSUME life \in Lifecycle, Tick
  PROVE  life' \in Lifecycle
<1>1. life' = [life EXCEPT !.deadline = Left(@), !.kill = Left(@), !.cleanup = Left(@)]
  BY DEF Tick
<1>2. /\ Left(life.deadline) \in 0..Timeout /\ Left(life.kill) \in 0..Grace
      /\ Left(life.cleanup) \in 0..Cleanup
  BY LeftInRange, TickAssumption DEF Lifecycle
<1> QED BY <1>1, <1>2 DEF Lifecycle

LEMMA LongHasTail ==
  ASSUME NEW S, NEW q \in Seq(S), Len(q) > 1
  PROVE  Tail(q) # <<>>
<1>1. q # <<>> /\ Len(q) \in Nat
  BY EmptySeq, LenProperties
<1>2. Len(Tail(q)) = Len(q) - 1
  BY <1>1, HeadTailProperties
<1>3. Tail(q) = <<>> => Len(Tail(q)) = 0
  BY EmptySeq
<1> QED BY <1>1, <1>2, <1>3

LEMMA TypeStep == TypeInv /\ [Next]_vars => TypeInv'
<1> SUFFICES ASSUME TypeInv, [Next]_vars PROVE TypeInv'
  OBVIOUS
<1> USE DEF TypeInv
<1>1. CASE AdmitBashAttempt
  BY <1>1 DEF AdmitBashAttempt, TypeOK, Arms, serviceVars, kernelVars, processVars
<1>2. CASE DispatchFails
  BY <1>2 DEF DispatchFails, TypeOK, HostPhases, NotLaunched, storeVars, serviceVars, kernelVars, processVars
<1>3. CASE PreparationFails
  <2>1. PICK code \in Resolutions \cup {"none"}, least \in HostPhases : EndUnlaunched(code, least)
    BY <1>3 DEF PreparationFails, Resolutions, HostPhases, TypeOK
  <2> QED BY <1>3, <2>1, TypeUnlaunched DEF PreparationFails, TypeOK
<1>4. CASE DiscardPrepared
  <2>1. PICK code \in Resolutions \cup {"none"}, least \in HostPhases : EndUnlaunched(code, least)
    BY <1>4 DEF DiscardPrepared, TypeOK
  <2> QED BY <1>4, <2>1, TypeUnlaunched DEF DiscardPrepared, TypeOK
<1>5. CASE LaunchRefused
  <2>1. PICK code \in Resolutions \cup {"none"}, least \in HostPhases : EndUnlaunched(code, least)
    BY <1>5 DEF LaunchRefused, Resolutions, HostPhases, TypeOK
  <2> QED BY <1>5, <2>1, TypeUnlaunched DEF LaunchRefused, TypeOK
<1>6. CASE LaunchPreparedBash
  <2>1. life' \in Lifecycle /\ pipes' \in [Streams -> Pipe]
    BY <1>6, StartTypes DEF LaunchPreparedBash
  <2>2. custody' \in [state : {"free", "attached", "detached"}, delivered : BOOLEAN, launch : BOOLEAN]
    BY <1>6 DEF LaunchPreparedBash, TypeOK
  <2>3. /\ queue' \in [Streams -> 0..MaxQueued]
        /\ holds' \in [Streams -> SUBSET (Group \cup {"escaped"})]
        /\ alive' \in SUBSET (Group \cup {"escaped"})
    BY <1>6, BoundAssumption DEF LaunchPreparedBash, Group
  <2> QED BY <1>6, <2>1, <2>2, <2>3 DEF LaunchPreparedBash, TypeOK, Arms, serviceVars, storeVars
<1>7. CASE StopBeforeLaunch
  <2>1. PICK code \in Resolutions \cup {"none"}, least \in HostPhases : EndUnlaunched(code, least)
    BY <1>7 DEF StopBeforeLaunch, Resolutions, TypeOK
  <2> QED BY <1>7, <2>1, TypeUnlaunched DEF StopBeforeLaunch, TypeOK
<1>8. CASE RetainedCleanup
  BY <1>8 DEF RetainedCleanup, FreeSlot, FreeRecord, TypeOK, Arms, NotLaunched, storeVars,
              serviceVars, kernelVars, processVars
<1>9. CASE StopLaunched
  <2>1. Evolves(life, RequestTermination(life, "stopped"))
    BY RequestTerminationEvolves DEF TypeOK, StopReasons
  <2>2. life' \in Lifecycle /\ misdirected' \in BOOLEAN
    BY <1>9, <2>1 DEF StopLaunched, Evolves, Signal, TypeOK
  <2>3. /\ phase' \in HostPhases /\ delivery' \in {"open", "closed"} /\ sender' \in BOOLEAN
        /\ custody' \in [state : {"free", "attached", "detached"}, delivered : BOOLEAN, launch : BOOLEAN]
    BY <1>9 DEF StopLaunched, RevokeSender, FailBash, TypeOK, HostPhases
  <2> QED BY <1>9, <2>2, <2>3 DEF StopLaunched, TypeOK, serviceVars, kernelVars, processVars
<1>10. CASE ShutdownExecution
  <2>1. CASE slot = "bash"
    <3>1. Evolves(life, RequestTermination(life, "infrastructure_shutdown"))
      BY RequestTerminationEvolves DEF TypeOK, StopReasons
    <3>2. life' \in Lifecycle /\ misdirected' \in BOOLEAN
      BY <1>10, <2>1, <3>1 DEF ShutdownExecution, Evolves, Signal, TypeOK
    <3> QED BY <1>10, <2>1, <3>2 DEF ShutdownExecution, TypeOK, storeVars, serviceVars, kernelVars, processVars
  <2>2. CASE slot = "bash_preparing"
    <3>1. EndUnlaunched("none", phase) /\ NotLaunched /\ stopped' = stopped /\ shutdown' \in BOOLEAN
      BY <1>10, <2>2 DEF ShutdownExecution
    <3> QED BY <3>1, TypeUnlaunched DEF TypeOK
  <2>3. CASE slot \notin {"bash", "bash_preparing"}
    BY <1>10, <2>3 DEF ShutdownExecution, NotLaunched, TypeOK, storeVars, serviceVars, kernelVars, processVars
  <2> QED BY <2>1, <2>2, <2>3
<1>11. CASE Service
  <2>1. /\ life' \in Lifecycle /\ fault' \in BOOLEAN /\ wasRunning' \in BOOLEAN
        /\ at' = "read" /\ todo' = StreamOrder
        /\ pipes' \in [Streams -> Pipe] /\ queue' \in [Streams -> 0..MaxQueued]
        /\ holds' \in [Streams -> SUBSET (Group \cup {"escaped"})] /\ misdirected' \in BOOLEAN
    BY <1>11, ServiceFacts DEF PipeEffect, SignalEffect
  <2>2. SlotKept /\ UNCHANGED processVars
    BY <1>11 DEF Service
  <2> QED BY <2>1, <2>2, StreamOrderTypes DEF SlotKept, TypeOK, storeVars, processVars
<1>12. CASE Read
  <2>1. life' \in Lifecycle /\ fault' \in BOOLEAN /\ PipeEffect /\ SignalEffect
    BY <1>12, ReadFacts
  <2>2. todo \in Seq(Streams) /\ todo # <<>>
    BY <1>12 DEF Read, TypeOK
  <2>3. todo' \in Seq(Streams) /\ (Len(todo) > 1 => todo' # <<>>)
    <3>1. todo' = Tail(todo)
      BY <1>12 DEF Read
    <3>2. Tail(todo) \in Seq(Streams) /\ Len(Tail(todo)) = Len(todo) - 1 /\ Len(todo) \in Nat
      BY <2>2
    <3>3. Len(todo) > 1 => Tail(todo) # <<>>
      BY <2>2, LongHasTail
    <3> QED BY <3>1, <3>2, <3>3
  <2>4. /\ at' \in {"idle", "read", "reap", "probe", "reread", "finish", "deliver", "reclaim"}
        /\ at' \in {"read", "reread"} => Len(todo) > 1
    BY <1>12 DEF Read
  <2>5. /\ pipes' \in [Streams -> Pipe] /\ queue' \in [Streams -> 0..MaxQueued]
        /\ holds' \in [Streams -> SUBSET (Group \cup {"escaped"})] /\ misdirected' \in BOOLEAN
    BY <2>1 DEF PipeEffect, SignalEffect
  <2>6. SlotKept /\ UNCHANGED <<wasRunning, processVars>>
    BY <1>12 DEF Read
  <2> QED BY <2>1, <2>3, <2>4, <2>5, <2>6 DEF SlotKept, TypeOK, storeVars, processVars
<1>13. CASE Reap
  <2>1. life' \in Lifecycle /\ fault' \in BOOLEAN /\ zombie' \in BOOLEAN /\ misdirected' \in BOOLEAN
        /\ (zombie' => zombie)
    BY <1>13, ReapFacts DEF SignalEffect
  <2>2. at' = "probe" /\ UNCHANGED <<todo, wasRunning, pipes, alive, status, foreign, holds, queue>>
        /\ SlotKept
    BY <1>13 DEF Reap
  <2> QED BY <2>1, <2>2 DEF SlotKept, TypeOK, storeVars
<1>14. CASE Probe
  <2>1. /\ life' \in Lifecycle /\ fault' \in BOOLEAN /\ pipes' \in [Streams -> Pipe]
        /\ queue' \in [Streams -> 0..MaxQueued]
        /\ holds' \in [Streams -> SUBSET (Group \cup {"escaped"})]
    BY <1>14, ProbeFacts DEF PipeEffect
  <2>2. todo' \in Seq(Streams) /\ at' \in {"reread", "finish"} /\ (at' = "reread" => todo' # <<>>)
    BY <1>14, StreamOrderTypes DEF Probe, TypeOK
  <2>3. SlotKept /\ UNCHANGED <<wasRunning, processVars, misdirected>>
    BY <1>14 DEF Probe
  <2> QED BY <2>1, <2>2, <2>3 DEF SlotKept, TypeOK, storeVars, processVars
<1>15. CASE Finish
  <2>1. /\ phase' \in HostPhases /\ delivery' \in {"open", "closed"} /\ sender' \in BOOLEAN
        /\ custody' \in [state : {"free", "attached", "detached"}, delivered : BOOLEAN, launch : BOOLEAN]
    BY <1>15 DEF Finish, FailBash, TypeOK, HostPhases
  <2> QED BY <1>15, <2>1 DEF Finish, NextArm, TypeOK, kernelVars, processVars
<1>16. CASE CompleteBash
  <2>1. /\ phase' \in HostPhases /\ delivery' = "closed" /\ sender' \in BOOLEAN
        /\ custody' \in [state : {"free", "attached", "detached"}, delivered : BOOLEAN, launch : BOOLEAN]
        /\ resolution' \in Resolutions \cup {"unadmitted", "none"}
    BY <1>16 DEF CompleteBash, FailBash, TypeOK, HostPhases, Saved, Resolution, Resolutions
  <2>2. life' \in Lifecycle
    <3>1. CASE life' = life
      BY <3>1 DEF TypeOK
    <3>2. CASE \E sealed \in BOOLEAN : life' = [life EXCEPT !.capture_failure = @ \/ ~sealed]
      BY <3>2 DEF TypeOK, Lifecycle
    <3> QED BY <1>16, <3>1, <3>2 DEF CompleteBash
  <2> QED BY <1>16, <2>1, <2>2 DEF CompleteBash, TypeOK, kernelVars, processVars
<1>17. CASE ReclaimBash
  <2>1. /\ phase' \in HostPhases /\ slot' \in Arms
        /\ custody' \in [state : {"free", "attached", "detached"}, delivered : BOOLEAN, launch : BOOLEAN]
    <3>1. CASE FreeSlot /\ UNCHANGED phase
      BY <3>1 DEF FreeSlot, FreeRecord, TypeOK, Arms
    <3>2. CASE phase' = Later(phase, "fenced") /\ UNCHANGED <<slot, custody>>
      <4>1. phase \in HostPhases /\ "fenced" \in HostPhases
        BY DEF TypeOK, HostPhases
      <4> QED BY <3>2, <4>1, LaterIsAPhase DEF TypeOK
    <3> QED BY <1>17, <3>1, <3>2 DEF ReclaimBash
  <2>2. CASE Forgotten
    <3>1. life' \in Lifecycle /\ pipes' \in [Streams -> Pipe]
      BY <2>2, StartTypes DEF Forgotten
    <3>2. /\ queue' \in [Streams -> 0..MaxQueued]
          /\ holds' \in [Streams -> SUBSET (Group \cup {"escaped"})]
      BY <2>2, BoundAssumption DEF Forgotten
    <3> QED BY <1>17, <2>1, <2>2, <3>1, <3>2 DEF ReclaimBash, Forgotten, TypeOK, storeVars
  <2>3. CASE UNCHANGED <<accepted, life, pipes, kernelVars>>
    BY <1>17, <2>1, <2>3 DEF ReclaimBash, TypeOK, storeVars, kernelVars, processVars
  <2> QED BY <1>17, <2>2, <2>3 DEF ReclaimBash
<1>18. CASE Tick
  <2>1. life' \in Lifecycle
    BY <1>18, TickInRange DEF TypeOK
  <2> QED BY <1>18, <2>1 DEF Tick, HostKept, TypeOK, serviceVars, storeVars, kernelVars, processVars
<1>19. ASSUME NEW s \in Streams, Write(s) PROVE TypeInv'
  <2>1. queue' \in [Streams -> 0..MaxQueued]
    BY <1>19, BoundAssumption DEF Write, TypeOK
  <2> QED BY <1>19, <2>1 DEF Write, HostKept, TypeOK, serviceVars, storeVars
<1>20. ASSUME NEW p \in Group, NEW q \in Children, Fork(p, q) PROVE TypeInv'
  <2>1. q \in Group \cup {"escaped"}
    BY EnvironmentAssumption DEF Group
  <2>2. alive' \in SUBSET (Group \cup {"escaped"}) /\ holds' \in [Streams -> SUBSET (Group \cup {"escaped"})]
    BY <1>20, <2>1 DEF Fork, TypeOK
  <2> QED BY <1>20, <2>2 DEF Fork, HostKept, TypeOK, serviceVars, storeVars
<1>21. ASSUME NEW p \in Group \cup {"escaped"}, NEW s \in Streams, CloseEnd(p, s) PROVE TypeInv'
  <2>1. holds' \in [Streams -> SUBSET (Group \cup {"escaped"})]
    BY <1>21 DEF CloseEnd, TypeOK
  <2> QED BY <1>21, <2>1 DEF CloseEnd, HostKept, TypeOK, serviceVars, storeVars
<1>22. ASSUME NEW p \in Group \cup {"escaped"}, Exit(p) PROVE TypeInv'
  <2>1. alive' \in SUBSET (Group \cup {"escaped"}) /\ holds' \in [Streams -> SUBSET (Group \cup {"escaped"})]
    BY <1>22 DEF Exit, TypeOK
  <2>2. status' \in ExitStatus \cup {NoTerm} /\ zombie' \in BOOLEAN /\ (zombie' => status' \in ExitStatus)
    BY <1>22 DEF Exit, TypeOK
  <2>3. HostKept /\ UNCHANGED <<life, foreign, queue>>
    BY <1>22 DEF Exit
  <2> QED BY <2>1, <2>2, <2>3 DEF HostKept, TypeOK, serviceVars, storeVars
<1>23. CASE ReuseNumber
  BY <1>23 DEF ReuseNumber, HostKept, TypeOK, serviceVars, storeVars
<1>24. CASE StopCommits
  BY <1>24 DEF StopCommits, TypeOK, serviceVars, kernelVars, processVars
<1>25. CASE HostAdvances
  BY <1>25, EnvironmentAssumption DEF HostAdvances, TypeOK, HostPhases, serviceVars, storeVars, kernelVars, processVars
<1>26. CASE UNCHANGED vars
  BY <1>26 DEF vars, TypeOK, serviceVars, storeVars, kernelVars, processVars
<1> QED BY <1>1, <1>2, <1>3, <1>4, <1>5, <1>6, <1>7, <1>8, <1>9, <1>10, <1>11, <1>12, <1>13,
           <1>14, <1>15, <1>16, <1>17, <1>18, <1>19, <1>20, <1>21, <1>22, <1>23, <1>24, <1>25,
           <1>26 DEF Next, ExecutionOwner, BeforeLaunch, Kernel

-----------------------------------------------------------------------------
(* The shapes of a step, as the later layers see them.                     *)

\* The slot holds no process after the step.
Away ==
  /\ slot' # "bash" /\ misdirected' = misdirected
  /\ \/ UNCHANGED kernelVars
     \/ alive' = {} /\ ~zombie' /\ ~foreign'

\* What is saved of a result does not change, and a delivery only closes.
Undelivered ==
  /\ resolution' = resolution
  /\ delivery' = delivery \/ delivery' = "closed"

\* Nothing of the process changes.
Keeps ==
  /\ slot = "bash" /\ slot' = "bash" /\ Undelivered
  /\ UNCHANGED <<life, pipes, kernelVars, misdirected>>
  /\ at' = "deliver" =>
       \/ at = "deliver" /\ delivery' = delivery
       \/ Retired(life, pipes) /\ delivery' = "open"

\* The lifecycle moves towards the end of a running process, or in time.
Eases ==
  /\ slot = "bash" /\ slot' = "bash" /\ Undelivered
  /\ UNCHANGED <<pipes, kernelVars>> /\ SignalEffect
  /\ life' \in Lifecycle
  /\ life'.process = life.process \/ (life.process = "running" /\ life'.process = "grace")
  /\ life'.observed = life.observed /\ life'.capture_failure = life.capture_failure
  /\ at' # "deliver"

LEMMA TerminationEases ==
  ASSUME TypeInv, NEW reason \in StopReasons,
         LET r == RequestTermination(life, reason) IN life' = r.life /\ Signal(r.signal)
  PROVE  /\ life' \in Lifecycle /\ SignalEffect
         /\ life'.process = life.process \/ (life.process = "running" /\ life'.process = "grace")
         /\ life'.observed = life.observed /\ life'.capture_failure = life.capture_failure
<1> DEFINE r == RequestTermination(life, reason)
<1>1. life \in Lifecycle /\ misdirected \in BOOLEAN /\ foreign \in BOOLEAN
  BY DEF TypeInv, TypeOK
<1>2. Evolves(life, r)
  BY <1>1, RequestTerminationEvolves
<1>3. r.life.process = life.process \/ (life.process = "running" /\ r.life.process = "grace")
  BY <1>1 DEF RequestTermination, BeginGrace, Quiet, FirstReason, Lifecycle
<1>4. life' = r.life /\ Signal(r.signal)
  OBVIOUS
<1> HIDE DEF r
<1> QED BY <1>1, <1>2, <1>3, <1>4 DEF Evolves, Signal, SignalEffect

LEMMA TickEases ==
  ASSUME TypeInv, Tick
  PROVE  Eases
<1>1. life' \in Lifecycle
  BY TickInRange DEF TypeInv, TypeOK
<1>2. life'.process = life.process /\ life'.observed = life.observed
      /\ life'.capture_failure = life.capture_failure
  BY DEF Tick, TypeInv, TypeOK, Lifecycle
<1>3. misdirected' = misdirected /\ misdirected \in BOOLEAN
  BY DEF Tick, HostKept, TypeInv, TypeOK
<1>4. SignalEffect
  BY <1>3 DEF SignalEffect
<1> QED BY <1>1, <1>2, <1>4 DEF Eases, Undelivered, Tick, HostKept, serviceVars, storeVars

LEMMA StepShapes ==
  ASSUME TypeInv, [Next]_vars
  PROVE  \/ Away \/ LaunchPreparedBash \/ Keeps \/ Eases
         \/ Service \/ Read \/ Reap \/ Probe \/ CompleteBash \/ Kernel
         \/ slot # "bash" /\ slot' = slot /\ UNCHANGED <<kernelVars, misdirected>>
<1> DEFINE Idle == slot # "bash" /\ slot' = slot /\ UNCHANGED <<kernelVars, misdirected>>
<1>1. ASSUME NEW code, NEW least, EndUnlaunched(code, least), NotLaunched
      PROVE  Away
  BY <1>1 DEF EndUnlaunched, FreeSlot, NotLaunched, Away
<1>2. CASE AdmitBashAttempt
  BY <1>2 DEF AdmitBashAttempt, Away
<1>3. CASE DispatchFails
  BY <1>3 DEF DispatchFails, NotLaunched, Keeps, Undelivered, Away, storeVars, serviceVars
<1>4. CASE PreparationFails \/ DiscardPrepared \/ LaunchRefused \/ StopBeforeLaunch
  BY <1>1, <1>4 DEF PreparationFails, DiscardPrepared, LaunchRefused, StopBeforeLaunch
<1>5. CASE RetainedCleanup
  BY <1>5 DEF RetainedCleanup, FreeSlot, NotLaunched, Away
<1>6. CASE StopLaunched
  <2>1. /\ life' \in Lifecycle /\ SignalEffect
        /\ life'.process = life.process \/ (life.process = "running" /\ life'.process = "grace")
        /\ life'.observed = life.observed /\ life'.capture_failure = life.capture_failure
    BY <1>6, TerminationEases DEF StopLaunched, StopReasons
  <2> QED BY <1>6, <2>1 DEF StopLaunched, RevokeSender, FailBash, Eases, Undelivered, serviceVars
<1>7. CASE ShutdownExecution
  <2>1. CASE slot = "bash"
    <3>1. /\ LET r == RequestTermination(life, "infrastructure_shutdown")
             IN life' = r.life /\ Signal(r.signal)
          /\ UNCHANGED <<phase, slot, delivery, accepted, custody, pipes, serviceVars, storeVars, kernelVars>>
          /\ at = "idle"
      BY <1>7, <2>1 DEF ShutdownExecution
    <3>2. /\ life' \in Lifecycle /\ SignalEffect
          /\ life'.process = life.process \/ (life.process = "running" /\ life'.process = "grace")
          /\ life'.observed = life.observed /\ life'.capture_failure = life.capture_failure
      BY <3>1, TerminationEases DEF StopReasons
    <3> QED BY <2>1, <3>1, <3>2 DEF Eases, Undelivered, serviceVars, storeVars
  <2>2. CASE slot = "bash_preparing"
    <3>1. EndUnlaunched("none", phase) /\ NotLaunched
      BY <1>7, <2>2 DEF ShutdownExecution
    <3> QED BY <3>1, <1>1
  <2>3. CASE slot \notin {"bash", "bash_preparing"}
    BY <1>7, <2>3 DEF ShutdownExecution, NotLaunched, Away
  <2> QED BY <2>1, <2>2, <2>3
<1>8. CASE Finish
  BY <1>8 DEF Finish, FailBash, NextArm, Keeps, Undelivered
<1>9. CASE ReclaimBash
  BY <1>9 DEF ReclaimBash, FreeSlot, Forgotten, Away, Keeps, Undelivered, storeVars
<1>10. CASE Tick
  BY <1>10, TickEases
<1>11. CASE StopCommits
  BY <1>11 DEF StopCommits, Keeps, Undelivered, serviceVars
<1>12. CASE HostAdvances
  BY <1>12 DEF HostAdvances, Keeps, Undelivered, serviceVars, storeVars
<1>13. CASE UNCHANGED vars
  BY <1>13 DEF vars, Keeps, Undelivered, serviceVars, storeVars
<1> QED BY <1>2, <1>3, <1>4, <1>5, <1>6, <1>7, <1>8, <1>9, <1>10, <1>11, <1>12, <1>13
        DEF Next, ExecutionOwner, BeforeLaunch

\* Whatever the constants, every variable of the slot, the lifecycle and the
\* modelled kernel stays in its range: among others no deadline goes below
\* zero, a tail never owes more than a pipe holds, and a pass over the streams
\* never reads past their end.
THEOREM TypesHold == Spec => []TypeOK
<1>1. TypeInv => TypeOK
  BY DEF TypeInv
<1> QED BY TypeInit, TypeStep, <1>1, PTL DEF Spec

-----------------------------------------------------------------------------
(* Who answers to the group's number.                                      *)

LEMMA NoMisdirection ==
  ASSUME NumberInv, slot = "bash", SignalEffect
  PROVE  ~misdirected'
BY DEF NumberInv, Unreaped, Group, SignalEffect

LEMMA NumberKept ==
  ASSUME NumberInv, slot = "bash", UNCHANGED <<alive, zombie, foreign>>, ~misdirected',
         life'.process \in {"running", "grace", "reaping"} =>
           life.process \in {"running", "grace", "reaping"}
  PROVE  NumberInv'
BY DEF NumberInv, Unreaped

LEMMA NumberStep == TypeInv /\ NumberInv /\ [Next]_vars => NumberInv'
<1> SUFFICES ASSUME TypeInv, NumberInv, [Next]_vars PROVE NumberInv'
  OBVIOUS
<1>1. CASE Away
  BY <1>1 DEF Away, NumberInv, kernelVars, processVars
<1>2. CASE slot # "bash" /\ slot' = slot /\ UNCHANGED <<kernelVars, misdirected>>
  BY <1>2 DEF NumberInv, kernelVars, processVars
<1>3. CASE LaunchPreparedBash
  BY <1>3 DEF LaunchPreparedBash, NumberInv, Unreaped
<1>4. CASE Keeps
  BY <1>4, NumberKept DEF Keeps, NumberInv, kernelVars, processVars
<1>5. CASE Eases
  BY <1>5, NumberKept, NoMisdirection DEF Eases, kernelVars, processVars
<1>6. CASE Service
  BY <1>6, ServiceFacts, NumberKept, NoMisdirection DEF Service, processVars
<1>7. CASE Read
  BY <1>7, ReadFacts, NumberKept, NoMisdirection DEF Read, processVars
<1>8. CASE Reap
  <2>1. ~misdirected' /\ slot = "bash" /\ UNCHANGED <<alive, foreign>>
    BY <1>8, ReapFacts, NoMisdirection DEF Reap
  <2>2. CASE zombie' = zombie /\ (life'.process = life.process
                                 \/ (life.process = "grace" /\ life'.process = "reaping"))
    BY <2>1, <2>2, NumberKept
  <2>3. CASE life'.process = "checking_group" /\ zombie /\ ~zombie'
    BY <2>1, <2>3 DEF NumberInv, Unreaped
  <2> QED BY <1>8, <2>2, <2>3, ReapFacts
<1>9. CASE Probe
  BY <1>9, ProbeFacts, NumberKept DEF Probe, NumberInv, processVars
<1>10. CASE CompleteBash
  <2>1. life'.process = life.process
    BY <1>10 DEF CompleteBash, TypeInv, TypeOK, Lifecycle
  <2> QED BY <1>10, <2>1, NumberKept DEF CompleteBash, NumberInv, kernelVars, processVars
<1>11. CASE Kernel
  <2>1. ASSUME NEW st \in Streams, Write(st) PROVE NumberInv'
    BY <1>11, <2>1, NumberKept DEF Kernel, Write, HostKept, NumberInv
  <2>2. ASSUME NEW p \in Group, NEW q \in Children, Fork(p, q) PROVE NumberInv'
    <3>1. q # "leader" /\ p \in alive \cap Group
      BY <2>2, EnvironmentAssumption DEF Fork
    <3> QED BY <2>2, <3>1 DEF Fork, HostKept, NumberInv, Unreaped
  <2>3. ASSUME NEW p \in Group \cup {"escaped"}, NEW st \in Streams, CloseEnd(p, st) PROVE NumberInv'
    BY <1>11, <2>3, NumberKept DEF Kernel, CloseEnd, HostKept, NumberInv
  <2>4. ASSUME NEW p \in Group \cup {"escaped"}, Exit(p) PROVE NumberInv'
    <3>1. CASE p = "leader"
      BY <2>4, <3>1 DEF Exit, HostKept, NumberInv, Unreaped, Group
    <3>2. CASE p # "leader"
      BY <2>4, <3>2 DEF Exit, HostKept, NumberInv, Unreaped, Group
    <3> QED BY <3>1, <3>2
  <2>5. CASE ReuseNumber
    BY <2>5 DEF ReuseNumber, HostKept, NumberInv, Unreaped, Group
  <2> QED BY <1>11, <2>1, <2>2, <2>3, <2>4, <2>5 DEF Kernel
<1> QED BY StepShapes, <1>1, <1>2, <1>3, <1>4, <1>5, <1>6, <1>7, <1>8, <1>9, <1>10, <1>11

\* No signal of the Host reaches a process that is not the Attempt's, whatever
\* the timeouts, the forks and the order of exits, stops and shutdown: the
\* lifecycle signals only before the reap, and an unreaped leader keeps its
\* number from being reused (bash.zig sendSignal, bash_platform.c WNOWAIT).
THEOREM SignalsAreItsOwn == Spec => []SignalsOnlyItsOwn
<1>1. Init => NumberInv
  BY DEF Init, NumberInv
<1>2. NumberInv => SignalsOnlyItsOwn
  BY DEF NumberInv, SignalsOnlyItsOwn
<1> QED BY TypeInit, TypeStep, NumberStep, <1>1, <1>2, PTL DEF Spec

-----------------------------------------------------------------------------
(* Custody.                                                                *)

LEMMA CustodyUnlaunched ==
  ASSUME TypeInv, CustodyInv, slot = "bash_preparing", at = "idle", NotLaunched,
         NEW code \in Resolutions \cup {"none"}, NEW least \in HostPhases,
         EndUnlaunched(code, least), code = "none" => least # "open"
  PROVE  CustodyInv'
<1>1. /\ slot' \in {"free", "bash_prepared_cleanup"} /\ custody'.state # "attached"
      /\ resolution' = "none" => phase' # "open" \/ code = "none" \/ custody.delivered
      /\ resolution' = "none" => phase' # "open" \/ least = "open"
  BY EndUnlaunchedFacts
<1>2. ~custody.delivered
  BY DEF CustodyInv
<1>3. resolution' = "none" => phase' # "open"
  BY <1>1, <1>2
<1>4. at' = "idle"
  BY DEF NotLaunched, serviceVars
<1> QED BY <1>1, <1>3, <1>4 DEF CustodyInv, SettledOrEnding, LaunchAllowed

LEMMA CustodyStep == TypeInv /\ CustodyInv /\ [Next]_vars => CustodyInv'
<1> SUFFICES ASSUME TypeInv, CustodyInv, [Next]_vars PROVE CustodyInv'
  OBVIOUS
<1>0. /\ phase \in HostPhases
      /\ custody \in [state : {"free", "attached", "detached"}, delivered : BOOLEAN, launch : BOOLEAN]
  BY DEF TypeInv, TypeOK
<1> USE DEF SettledOrEnding, LaunchAllowed
<1>1. CASE AdmitBashAttempt
  BY <1>1 DEF AdmitBashAttempt, CustodyInv, serviceVars
<1>2. CASE DispatchFails
  BY <1>2 DEF DispatchFails, NotLaunched, CustodyInv, serviceVars, storeVars
<1>3. CASE PreparationFails
  <2>1. PICK code \in Resolutions \cup {"none"}, least \in HostPhases :
          EndUnlaunched(code, least) /\ (code = "none" => least # "open")
    BY <1>0, <1>3 DEF PreparationFails, Resolutions, HostPhases
  <2> QED BY <1>3, <2>1, CustodyUnlaunched DEF PreparationFails
<1>4. CASE DiscardPrepared
  BY <1>0, <1>4, CustodyUnlaunched DEF DiscardPrepared
<1>5. CASE LaunchRefused
  <2>1. PICK code \in Resolutions \cup {"none"}, least \in HostPhases :
          EndUnlaunched(code, least) /\ (code = "none" => least # "open")
    BY <1>0, <1>5 DEF LaunchRefused, Resolutions, HostPhases
  <2> QED BY <1>5, <2>1, CustodyUnlaunched DEF LaunchRefused
<1>6. CASE LaunchPreparedBash
  BY <1>0, <1>6 DEF LaunchPreparedBash, CustodyInv, serviceVars, storeVars
<1>7. CASE StopBeforeLaunch
  <2>1. "cancelled" \in Resolutions \cup {"none"}
    BY DEF Resolutions
  <2> QED BY <1>0, <1>7, <2>1, CustodyUnlaunched DEF StopBeforeLaunch
<1>8. CASE RetainedCleanup
  BY <1>8 DEF RetainedCleanup, FreeSlot, FreeRecord, NotLaunched, CustodyInv, serviceVars, storeVars
<1>9. ASSUME FailBash, slot = "bash", slot' = "bash", resolution' = resolution PROVE CustodyInv'
  BY <1>0, <1>9 DEF FailBash, CustodyInv
<1>10. CASE StopLaunched
  <2>1. CASE UNCHANGED <<phase, delivery, custody>>
    BY <1>10, <2>1 DEF StopLaunched, CustodyInv, serviceVars
  <2>2. CASE FailBash
    BY <1>9, <1>10, <2>2 DEF StopLaunched
  <2> QED BY <1>10, <2>1, <2>2 DEF StopLaunched, RevokeSender
<1>11. CASE ShutdownExecution
  <2>1. CASE slot = "bash_preparing"
    <3>1. /\ EndUnlaunched("none", phase) /\ NotLaunched /\ phase \in {"draining", "stopping"}
          /\ at = "idle"
      BY <1>11, <2>1 DEF ShutdownExecution
    <3> QED BY <1>0, <2>1, <3>1, CustodyUnlaunched
  <2>2. CASE slot # "bash_preparing"
    BY <1>11, <2>2 DEF ShutdownExecution, NotLaunched, CustodyInv, serviceVars, storeVars
  <2> QED BY <2>1, <2>2
<1>12. CASE Service \/ Read \/ Reap \/ Probe
  <2>1. SlotKept /\ at' # "reclaim"
    BY <1>12 DEF Service, Read, Reap, Probe
  <2> QED BY <2>1 DEF SlotKept, CustodyInv, storeVars
<1>13. CASE Finish
  <2>1. at' = "reclaim" => delivery' = "closed"
    BY <1>13 DEF Finish, FailBash, NextArm, TypeInv, TypeOK
  <2>2. CASE FailBash
    BY <1>9, <1>13, <2>2 DEF Finish
  <2>3. CASE UNCHANGED <<phase, delivery, custody>>
    BY <1>13, <2>1, <2>3 DEF Finish, CustodyInv
  <2> QED BY <1>13, <2>2, <2>3 DEF Finish
<1>14. CASE CompleteBash
  <2>1. slot' = "bash" /\ delivery' = "closed" /\ custody'.state = "detached"
    BY <1>0, <1>14 DEF CompleteBash, FailBash
  <2>2. resolution' = "none" => phase' # "open"
    BY <1>14 DEF CompleteBash, FailBash, Saved, Resolution
  <2> QED BY <2>1, <2>2 DEF CustodyInv
<1>15. CASE ReclaimBash
  <2>1. CASE FreeSlot /\ UNCHANGED phase
    BY <1>15, <2>1 DEF ReclaimBash, FreeSlot, FreeRecord, CustodyInv, storeVars
  <2>2. CASE phase' = Later(phase, "fenced") /\ UNCHANGED <<slot, custody>>
    <3>1. phase' # "open"
      BY <1>0, <2>2, LaterIsAPhase DEF HostPhases
    <3> QED BY <1>15, <2>2, <3>1 DEF ReclaimBash, CustodyInv, storeVars
  <2> QED BY <1>15, <2>1, <2>2 DEF ReclaimBash
<1>16. CASE Tick
  BY <1>16 DEF Tick, HostKept, CustodyInv, serviceVars, storeVars
<1>17. CASE Kernel
  <2>1. HostKept
    BY <1>17 DEF Kernel, Write, Fork, CloseEnd, Exit, ReuseNumber
  <2> QED BY <2>1 DEF HostKept, CustodyInv, serviceVars, storeVars
<1>18. CASE StopCommits
  BY <1>18 DEF StopCommits, CustodyInv, serviceVars
<1>19. CASE HostAdvances
  <2>1. phase' # "open"
    BY <1>19, EnvironmentAssumption DEF HostAdvances
  <2> QED BY <1>19, <2>1 DEF HostAdvances, CustodyInv, serviceVars, storeVars
<1>20. CASE UNCHANGED vars
  BY <1>20 DEF vars, CustodyInv, serviceVars, storeVars
<1> QED BY <1>1, <1>2, <1>3, <1>4, <1>5, <1>6, <1>7, <1>8, <1>10, <1>11, <1>12, <1>13, <1>14,
           <1>15, <1>16, <1>17, <1>18, <1>19, <1>20 DEF Next, ExecutionOwner, BeforeLaunch

\* Whichever step of an Attempt's end fails, an Action whose custody the slot
\* gives up unsettled leaves a Host that launches nothing more (the assertion
\* of moveSlot, failBash, settleActionFailure, reclaimBash).
THEOREM UnsettledEnds == Spec => []SettledOrEnding
<1>1. Init => CustodyInv
  BY DEF Init, CustodyInv, SettledOrEnding, FreeRecord
<1>2. CustodyInv => SettledOrEnding
  BY DEF CustodyInv
<1> QED BY TypeInit, TypeStep, CustodyStep, <1>1, <1>2, PTL DEF Spec

-----------------------------------------------------------------------------
(* What the lifecycle recorded of the leader and its group.                *)

LEMMA StatusKept ==
  ASSUME StatusInv, slot = "bash", UNCHANGED <<alive, zombie, status>>,
         life'.process \in {"checking_group", "gone"} => life'.process = life.process,
         life'.observed = life.observed
  PROVE  StatusInv'
BY DEF StatusInv, Unreaped

LEMMA StatusStep == TypeInv /\ NumberInv /\ StatusInv /\ [Next]_vars => StatusInv'
<1> SUFFICES ASSUME TypeInv, NumberInv, StatusInv, [Next]_vars PROVE StatusInv'
  OBVIOUS
<1>1. CASE slot' # "bash"
  BY <1>1 DEF StatusInv
<1>2. CASE LaunchPreparedBash
  BY <1>2 DEF LaunchPreparedBash, Start, NoTerm, StatusInv
<1>3. CASE Keeps
  BY <1>3, StatusKept DEF Keeps, kernelVars, processVars
<1>4. CASE Eases
  BY <1>4, StatusKept DEF Eases, kernelVars, processVars
<1>5. CASE Service
  <2>1. /\ slot = "bash" /\ UNCHANGED <<alive, zombie, status>>
        /\ life'.process \in {"checking_group", "gone"} => life'.process = life.process
    BY <1>5, ServiceFacts DEF Service, processVars
  <2>2. CASE life'.observed = life.observed
    BY <2>1, <2>2, StatusKept
  <2>3. CASE zombie /\ life'.observed = RuiBashReap(status)
    <3>1. /\ status \in ExitStatus /\ RuiBashReap(status) # NoTerm /\ "leader" \notin alive
      BY <2>3, ReapIsATerm DEF TypeInv, NumberInv
    <3>2. life.process \notin {"checking_group", "gone"}
      BY <2>1, <2>3 DEF StatusInv, Unreaped
    <3> QED BY <2>1, <2>3, <3>1, <3>2 DEF StatusInv
  <2> QED BY <1>5, <2>2, <2>3, ServiceFacts
<1>6. CASE Read
  BY <1>6, ReadFacts, StatusKept DEF Read, processVars
<1>7. CASE Reap
  <2>1. slot = "bash" /\ UNCHANGED <<alive, status>>
    BY <1>7 DEF Reap
  <2>2. CASE /\ life'.process = life.process \/ (life.process = "grace" /\ life'.process = "reaping")
             /\ life'.observed = life.observed /\ zombie' = zombie
    BY <2>1, <2>2, StatusKept
  <2>3. CASE /\ life'.process = "checking_group" /\ zombie /\ ~zombie'
             /\ life'.observed = IF life.observed = NoTerm THEN RuiBashReap(status) ELSE life.observed
    <3>1. status \in ExitStatus /\ RuiBashReap(status) # NoTerm /\ "leader" \notin alive
      BY <2>3, ReapIsATerm DEF TypeInv, NumberInv
    <3>2. life'.observed = RuiBashReap(status)
      BY <2>1, <2>3 DEF StatusInv
    <3> QED BY <2>1, <2>3, <3>1, <3>2 DEF StatusInv, Unreaped
  <2> QED BY <1>7, <2>2, <2>3, ReapFacts
<1>8. CASE Probe
  <2>1. /\ slot = "bash" /\ UNCHANGED <<alive, zombie, status>> /\ life'.observed = life.observed
    BY <1>8, ProbeFacts DEF Probe, processVars
  <2>2. CASE life'.process = life.process
    BY <2>1, <2>2, StatusKept
  <2>3. CASE life.process = "checking_group" /\ RuiBashGroupAbsent /\ life'.process = "gone"
    BY <2>1, <2>3 DEF StatusInv, Unreaped, RuiBashGroupAbsent
  <2> QED BY <1>8, <2>2, <2>3, ProbeFacts
<1>9. CASE CompleteBash
  <2>1. life'.process = life.process /\ life'.observed = life.observed
    BY <1>9 DEF CompleteBash, TypeInv, TypeOK, Lifecycle
  <2> QED BY <1>9, <2>1, StatusKept DEF CompleteBash, kernelVars, processVars
<1>10. CASE Kernel
  <2>1. slot = "bash"
    BY <1>10 DEF Kernel
  <2>2. ASSUME NEW st \in Streams, Write(st) PROVE StatusInv'
    BY <2>1, <2>2, StatusKept DEF Write
  <2>3. ASSUME NEW p \in Group, NEW q \in Children, Fork(p, q) PROVE StatusInv'
    <3>1. q # "leader" /\ p \in alive \cap Group
      BY <2>3, EnvironmentAssumption DEF Fork
    <3> QED BY <2>1, <2>3, <3>1 DEF Fork, StatusInv, Unreaped
  <2>4. ASSUME NEW p \in Group \cup {"escaped"}, NEW st \in Streams, CloseEnd(p, st) PROVE StatusInv'
    BY <2>1, <2>4, StatusKept DEF CloseEnd
  <2>5. ASSUME NEW p \in Group \cup {"escaped"}, Exit(p) PROVE StatusInv'
    <3>1. CASE p = "leader"
      BY <2>1, <2>5, <3>1 DEF Exit, HostKept, StatusInv, Unreaped
    <3>2. CASE p # "leader"
      BY <2>1, <2>5, <3>2 DEF Exit, HostKept, StatusInv, Unreaped
    <3> QED BY <3>1, <3>2
  <2>6. CASE ReuseNumber
    BY <2>1, <2>6, StatusKept DEF ReuseNumber
  <2> QED BY <1>10, <2>2, <2>3, <2>4, <2>5, <2>6 DEF Kernel
<1> QED BY StepShapes, <1>1, <1>2, <1>3, <1>4, <1>5, <1>6, <1>7, <1>8, <1>9, <1>10 DEF Away

-----------------------------------------------------------------------------
(* What the pipes report.                                                  *)

LEMMA PipeEffectKeeps ==
  ASSUME PipeInv, slot = "bash", PipeEffect
  PROVE  PipeInv'
BY DEF PipeInv, PipeEffect, Closed

LEMMA PipeStep == TypeInv /\ PipeInv /\ [Next]_vars => PipeInv'
<1> SUFFICES ASSUME TypeInv, PipeInv, [Next]_vars PROVE PipeInv'
  OBVIOUS
<1>1. CASE slot' # "bash"
  BY <1>1 DEF PipeInv
<1>2. CASE LaunchPreparedBash
  BY <1>2 DEF LaunchPreparedBash, AllReading, PipeInv
<1>3. CASE Keeps
  BY <1>3 DEF Keeps, PipeInv, kernelVars
<1>4. CASE Eases
  BY <1>4 DEF Eases, PipeInv, kernelVars
<1>5. CASE Service \/ Read \/ Probe
  BY <1>5, ServiceFacts, ReadFacts, ProbeFacts, PipeEffectKeeps
<1>6. CASE Reap
  BY <1>6, ReapFacts DEF Reap, PipeInv
<1>7. CASE CompleteBash
  <2>1. life.capture_failure => life'.capture_failure
    BY <1>7 DEF CompleteBash, TypeInv, TypeOK, Lifecycle
  <2> QED BY <1>7, <2>1 DEF CompleteBash, PipeInv, kernelVars
<1>8. CASE Kernel
  <2>1. /\ slot = "bash" /\ HostKept /\ life' = life
    BY <1>8 DEF Kernel, Write, Fork, CloseEnd, Exit, ReuseNumber
  <2>2. \A st \in Streams : holds[st] = {} => holds'[st] = {} /\ queue'[st] = queue[st]
    <3>0. holds \in [Streams -> SUBSET (Group \cup {"escaped"})] /\ queue \in [Streams -> 0..MaxQueued]
      BY DEF TypeInv, TypeOK
    <3>1. ASSUME NEW t \in Streams, Write(t)
          PROVE  \A st \in Streams : holds[st] = {} => holds'[st] = {} /\ queue'[st] = queue[st]
      BY <3>0, <3>1 DEF Write
    <3>2. ASSUME NEW p \in Group, NEW q \in Children, Fork(p, q)
          PROVE  \A st \in Streams : holds[st] = {} => holds'[st] = {} /\ queue'[st] = queue[st]
      BY <3>0, <3>2 DEF Fork
    <3>3. ASSUME NEW p \in Group \cup {"escaped"}, NEW t \in Streams, CloseEnd(p, t)
          PROVE  \A st \in Streams : holds[st] = {} => holds'[st] = {} /\ queue'[st] = queue[st]
      BY <3>0, <3>3 DEF CloseEnd
    <3>4. ASSUME NEW p \in Group \cup {"escaped"}, Exit(p)
          PROVE  \A st \in Streams : holds[st] = {} => holds'[st] = {} /\ queue'[st] = queue[st]
      BY <3>0, <3>4 DEF Exit
    <3>5. CASE ReuseNumber
      BY <3>5 DEF ReuseNumber
    <3> QED BY <1>8, <3>1, <3>2, <3>3, <3>4, <3>5 DEF Kernel
  <2> QED BY <2>1, <2>2 DEF HostKept, PipeInv
<1> QED BY StepShapes, <1>1, <1>2, <1>3, <1>4, <1>5, <1>6, <1>7, <1>8 DEF Away

-----------------------------------------------------------------------------
(* What a saved result rests on.                                           *)

\* A retired process stays retired, and what it came to stays the same.
LEMMA RetiredStays ==
  ASSUME SavedInv, slot = "bash", slot' = "bash", at' # "deliver",
         UNCHANGED <<resolution, delivery>>,
         Retired(life, pipes) =>
           /\ Retired(life, pipes)' /\ life'.observed = life.observed
           /\ life'.capture_failure = life.capture_failure
  PROVE  SavedInv'
BY DEF SavedInv

LEMMA ServiceKeepsRetired ==
  ASSUME TypeInv, StatusInv, Service \/ Read \/ Reap \/ Probe, Retired(life, pipes)
  PROVE  /\ Retired(life, pipes)' /\ life'.observed = life.observed
         /\ life'.capture_failure = life.capture_failure
<1>1. slot = "bash" /\ life.process = "gone" /\ \A st \in Streams : pipes[st].state \in Closed
  BY DEF Retired, Service, Read, Reap, Probe
<1>2. ~zombie
  BY <1>1 DEF StatusInv, Unreaped
<1>3. CASE Service
  BY <1>1, <1>2, <1>3, ServiceFacts DEF PipeEffect, Retired
<1>4. CASE Read
  BY <1>1, <1>4, ReadFacts DEF PipeEffect, Retired
<1>5. CASE Probe
  BY <1>1, <1>5, ProbeFacts DEF PipeEffect, Retired
<1>6. CASE Reap
  <2>1. UNCHANGED pipes
    BY <1>6 DEF Reap
  <2> QED BY <1>1, <1>2, <1>6, <2>1, ReapFacts DEF Retired
<1> QED BY <1>3, <1>4, <1>5, <1>6

LEMMA SavedStep == TypeInv /\ CustodyInv /\ StatusInv /\ SavedInv /\ [Next]_vars => SavedInv'
<1> SUFFICES ASSUME TypeInv, CustodyInv, StatusInv, SavedInv, [Next]_vars PROVE SavedInv'
  OBVIOUS
<1>1. CASE slot' # "bash"
  BY <1>1 DEF SavedInv
<1>2. CASE LaunchPreparedBash
  BY <1>2 DEF LaunchPreparedBash, CustodyInv, SavedInv, serviceVars, storeVars
<1>3. CASE Keeps
  <2>1. Retired(life, pipes)' <=> Retired(life, pipes)
    BY <1>3 DEF Keeps, Retired
  <2> QED BY <1>3, <2>1 DEF Keeps, Undelivered, SavedInv
<1>4. CASE Eases
  <2>1. Retired(life, pipes) => Retired(life, pipes)'
    BY <1>4 DEF Eases, Retired
  <2> QED BY <1>4, <2>1 DEF Eases, Undelivered, SavedInv
<1>5. CASE Service \/ Read \/ Reap \/ Probe
  <2>1. slot = "bash" /\ SlotKept /\ at' # "deliver"
    BY <1>5 DEF Service, Read, Reap, Probe
  <2> QED BY <1>5, <2>1, ServiceKeepsRetired, RetiredStays DEF SlotKept, storeVars
<1>6. CASE CompleteBash
  <2>1. /\ slot = "bash" /\ slot' = "bash" /\ delivery = "open" /\ resolution = "none"
        /\ Retired(life, pipes) /\ at' = "reclaim" /\ delivery' = "closed" /\ pipes' = pipes
    BY <1>6 DEF CompleteBash, FailBash, SavedInv, CustodyInv
  <2>2. CASE resolution' = resolution
    BY <2>1, <2>2 DEF SavedInv
  <2>3. CASE \E sealed \in BOOLEAN :
               LET l == [life EXCEPT !.capture_failure = @ \/ ~sealed] IN
               life' = l /\ resolution' = Saved(Resolution(l))
    <3>1. PICK sealed \in BOOLEAN :
            LET l == [life EXCEPT !.capture_failure = @ \/ ~sealed] IN
            life' = l /\ resolution' = Saved(Resolution(l))
      BY <2>3
    <3>2. life'.process = life.process /\ life'.observed = life.observed
          /\ resolution' = Saved(Resolution(life'))
      BY <3>1 DEF TypeInv, TypeOK, Lifecycle
    <3>3. resolution' = "succeeded" =>
            life'.observed = [kind |-> "exited", value |-> 0] /\ ~life'.capture_failure
      BY <3>2 DEF Saved, Resolution
    <3> QED BY <2>1, <3>2, <3>3 DEF SavedInv, Retired
  <2> QED BY <1>6, <2>2, <2>3 DEF CompleteBash
<1>7. CASE Kernel
  <2>1. slot = "bash" /\ HostKept /\ life' = life
    BY <1>7 DEF Kernel, Write, Fork, CloseEnd, Exit, ReuseNumber
  <2> QED BY <2>1 DEF HostKept, SavedInv, Retired, serviceVars, storeVars
<1> QED BY StepShapes, <1>1, <1>2, <1>3, <1>4, <1>5, <1>6, <1>7 DEF Away

\* A result the Host saved of a launched process is true of it: its group is
\* empty, a stream reported whole had no byte and no writer left, the status is
\* the kernel's, and "succeeded" is exit 0 with every capture kept (completeBash,
\* BashLifecycle.resolution), for every schedule of exits, reads and faults.
THEOREM ResultsAreHonest == Spec => []ResultIsHonest
<1> DEFINE IInv == TypeInv /\ NumberInv /\ CustodyInv /\ StatusInv /\ PipeInv /\ SavedInv
<1>1. Init => IInv
  <2>1. Init => NumberInv /\ CustodyInv /\ StatusInv /\ PipeInv /\ SavedInv
    BY DEF Init, NumberInv, CustodyInv, SettledOrEnding, FreeRecord, StatusInv, PipeInv, SavedInv
  <2> QED BY <2>1, TypeInit
<1>2. IInv /\ [Next]_vars => IInv'
  BY TypeStep, NumberStep, CustodyStep, StatusStep, PipeStep, SavedStep
<1>3. IInv => ResultIsHonest
  <2> SUFFICES ASSUME IInv, slot = "bash", resolution # "none"
               PROVE  /\ ~zombie /\ alive \cap Group = {}
                      /\ \A st \in Streams : pipes[st].state = "eof" => holds[st] = {} /\ queue[st] = 0
                      /\ life.observed = RuiBashReap(status)
                      /\ resolution = "succeeded" =>
                           /\ status.kind = "exited" /\ status.value % 256 = 0
                           /\ \A st \in Streams : pipes[st].state # "failed"
    BY DEF ResultIsHonest
  <2>1. life.process = "gone"
    BY DEF SavedInv, Retired
  <2>2. /\ ~zombie /\ alive \cap Group = {} /\ status \in ExitStatus
        /\ life.observed = RuiBashReap(status)
    BY <2>1 DEF StatusInv, Unreaped
  <2>3. resolution = "succeeded" => status.kind = "exited" /\ status.value % 256 = 0
    BY <2>2, ReapIsATerm DEF SavedInv
  <2> QED BY <2>2, <2>3 DEF PipeInv, SavedInv
<1> QED BY <1>1, <1>2, <1>3, PTL DEF Spec

-----------------------------------------------------------------------------
(* The sender handle.                                                      *)

LEMMA SenderStep == TypeInv /\ SenderInv /\ [Next]_vars => SenderInv'
<1> SUFFICES ASSUME TypeInv, SenderInv, [Next]_vars, slot' = "bash" PROVE SenderInv'
  BY DEF SenderInv
<1> USE DEF TakingCommands, Serving
<1>0. phase \in HostPhases /\ life \in Lifecycle
  BY DEF TypeInv, TypeOK
\* The process stands still between two services.
<1>1. ASSUME slot = "bash", life'.process = life.process, sender' => sender,
             phase' \in TakingCommands => phase \in TakingCommands,
             at' = at, wasRunning' = wasRunning
      PROVE  SenderInv'
  BY <1>1 DEF SenderInv
<1>2. CASE BeforeLaunch
  <2>1. CASE LaunchPreparedBash
    BY <2>1 DEF LaunchPreparedBash, Start, SenderInv, serviceVars
  <2>2. CASE DispatchFails
    BY <2>2 DEF DispatchFails, NotLaunched, SenderInv, serviceVars
  <2>3. \A code, least : ~EndUnlaunched(code, least)
    BY DEF EndUnlaunched, FreeSlot
  <2> QED BY <1>2, <2>1, <2>2, <2>3 DEF BeforeLaunch, AdmitBashAttempt, PreparationFails,
             DiscardPrepared, LaunchRefused, StopBeforeLaunch, RetainedCleanup, FreeSlot
<1>3. CASE StopLaunched
  BY <1>3 DEF StopLaunched, RevokeSender, FailBash, SenderInv, serviceVars
<1>4. CASE ShutdownExecution
  <2>1. slot = "bash"
    BY <1>4 DEF ShutdownExecution, EndUnlaunched, FreeSlot
  <2> QED BY <1>4, <2>1 DEF ShutdownExecution, SenderInv, serviceVars
<1>5. CASE Service
  BY <1>5, ServiceFacts DEF Service, SlotKept, SenderInv, storeVars
<1>6. CASE Read
  <2>1. at' \in Serving /\ at \in Serving /\ wasRunning' = wasRunning /\ SlotKept
    BY <1>6 DEF Read
  <2> QED BY <1>6, <2>1, ReadFacts DEF SlotKept, SenderInv, storeVars
<1>7. CASE Reap \/ Probe
  <2>1. at' \in Serving /\ at \in Serving /\ wasRunning' = wasRunning /\ SlotKept
    BY <1>7 DEF Reap, Probe
  <2>2. slot = "bash" /\ (life'.process = "running" <=> life.process = "running")
    BY <1>7, ReapFacts, ProbeFacts
  <2> QED BY <2>1, <2>2 DEF SlotKept, SenderInv, storeVars
<1>8. CASE Finish
  <2>1. slot = "bash" /\ at = "finish" /\ at' \notin Serving /\ life' = life
    BY <1>8 DEF Finish, NextArm
  <2>2. CASE phase' = "stopping"
    BY <2>1, <2>2 DEF SenderInv
  <2>3. CASE phase' = phase /\ sender' = (sender /\ ~(wasRunning /\ life.process # "running"))
    BY <2>1, <2>3 DEF SenderInv
  <2> QED BY <1>8, <2>2, <2>3 DEF Finish, FailBash
<1>9. CASE CompleteBash
  <2>1. life'.process = life.process
    BY <1>0, <1>9 DEF CompleteBash, Lifecycle
  <2> QED BY <1>9, <2>1 DEF CompleteBash, FailBash, SenderInv
<1>10. CASE ReclaimBash
  <2>1. phase' = Later(phase, "fenced") /\ UNCHANGED life /\ slot = "bash" /\ at = "reclaim" /\ at' = "idle"
        /\ sender' = sender
    BY <1>10 DEF ReclaimBash, FreeSlot, storeVars
  <2>2. phase' \in TakingCommands => phase \in TakingCommands
    BY <1>0, <2>1, PhaseOrder DEF Later, HostPhases
  <2> QED BY <2>1, <2>2 DEF SenderInv
<1>11. CASE Tick
  <2>1. life'.process = life.process
    BY <1>0, <1>11 DEF Tick, Lifecycle
  <2> QED BY <1>1, <1>11, <2>1 DEF Tick, HostKept, serviceVars, storeVars
<1>12. CASE Kernel
  <2>1. slot = "bash" /\ HostKept /\ life' = life
    BY <1>12 DEF Kernel, Write, Fork, CloseEnd, Exit, ReuseNumber
  <2> QED BY <1>1, <2>1 DEF HostKept, serviceVars, storeVars
<1>13. CASE StopCommits
  BY <1>1, <1>13 DEF StopCommits, serviceVars
<1>14. CASE HostAdvances
  <2>1. phase' \in TakingCommands => phase \in TakingCommands
    BY <1>0, <1>14, PhaseOrder, EnvironmentAssumption DEF HostAdvances, HostPhases
  <2> QED BY <1>1, <1>14, <2>1 DEF HostAdvances, serviceVars, storeVars
<1>15. CASE UNCHANGED vars
  BY <1>1, <1>15 DEF vars, serviceVars, storeVars
<1> QED BY <1>2, <1>3, <1>4, <1>5, <1>6, <1>7, <1>8, <1>9, <1>10, <1>11, <1>12, <1>13, <1>14, <1>15
        DEF Next, ExecutionOwner

\* However a process came to leave running (a deadline, a stop, its own exit, a
\* failed capture or a failed observation), while the Host still takes commands
\* in, its sender handle is gone when the service that noticed it returns
\* (advanceBash's revokeActionSender, failBash).
THEOREM SenderEndsWithRunning == Spec => []SenderOnlyWhileRunning
<1>1. Init => SenderInv
  BY DEF Init, SenderInv
<1>2. SenderInv => SenderOnlyWhileRunning
  BY DEF SenderInv, SenderOnlyWhileRunning, Serving, TakingCommands
<1> QED BY TypeInit, TypeStep, SenderStep, <1>1, <1>2, PTL DEF Spec

=============================================================================
