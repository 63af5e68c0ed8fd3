--------------------------- MODULE StoreContract ---------------------------
(***************************************************************************)
(* What the Store promises the threads that call its entry points, with no *)
(* queue, holder or batch in sight: a group of calls becomes durable at    *)
(* one instant, and a call is answered once.  A success is answered only   *)
(* after the call's row is durable, a failure of the body only when the    *)
(* row is not and never will be, and "lost" (error.StoreFenced for a body  *)
(* that succeeded) leaves it open.  Identities grow in arrival order.      *)
(***************************************************************************)
EXTENDS Naturals, FiniteSets

CONSTANTS MaxCalls    \* calls the threads make, numbered in arrival order

VARIABLES committed,  \* rows [id, call] that survive a crash
          replies     \* answers heard by callers, [call, kind, answer]

vars == <<committed, replies>>

Rows == [id : 1..MaxCalls, call : 1..MaxCalls]

Replied(c) == \E r \in replies : r.call = c
Durable(c) == \E row \in committed : row.call = c

Init == committed = {} /\ replies = {}

\* One COMMIT: the rows of some unanswered calls become durable together,
\* with identities after every one already durable, in arrival order.
Commit ==
  LET new == committed' \ committed
  IN  /\ committed' \subseteq Rows /\ committed \subseteq committed'
      /\ \A row \in new : ~Replied(row.call) /\ ~Durable(row.call)
      /\ \A row \in new, old \in committed : old.id < row.id /\ old.call < row.call
      /\ \A a, b \in new : a.call < b.call <=> a.id < b.id
      /\ UNCHANGED replies

\* One call returns to its caller.
Reply ==
  \E c \in 1..MaxCalls, k \in {"read", "write"}, a \in {"ok", "error", "lost"} :
    /\ ~Replied(c)
    /\ (k = "write" /\ a = "ok") => Durable(c)
    /\ a = "error" => ~Durable(c)
    /\ a = "lost" => k = "write"
    /\ k = "read" => ~Durable(c)
    /\ replies' = replies \cup {[call |-> c, kind |-> k, answer |-> a]}
    /\ UNCHANGED committed

Next == Commit \/ Reply

Spec == Init /\ [][Next]_vars
=============================================================================
