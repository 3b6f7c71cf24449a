----------------------------- MODULE Completion -----------------------------
(***************************************************************************)
(* What Action and Message (pkg/relay) promise to whoever waits on them,   *)
(* with no server, goroutine or lock in sight: an object gets one outcome, *)
(* which stays; the completion callback is called at most once, when the   *)
(* outcome is there and before done is closed; done is closed once, after  *)
(* that; and Wait returns only then.                                       *)
(***************************************************************************)
EXTENDS Naturals

CONSTANTS Objects,     \* the actions or the messages
          Outcomes,    \* what one may end with
          Pending      \* none of them: it has not ended

VARIABLES outcome,     \* what each object ended with, or Pending
          notified,    \* how often its callback has been called
          closed,      \* how often its done has been closed: a second time panics
          waiter       \* a goroutine in Wait: "idle", "waiting", "returned"

vars == <<outcome, notified, closed, waiter>>

Init == /\ outcome = [o \in Objects |-> Pending]
        /\ notified = [o \in Objects |-> 0]
        /\ closed = [o \in Objects |-> 0]
        /\ waiter = [o \in Objects |-> "idle"]

\* The callback may be called at once or later (Notify).
Settle(o, x) == /\ outcome[o] = Pending
                /\ outcome' = [outcome EXCEPT ![o] = x]
                /\ \E n \in {0, 1} : notified' = [notified EXCEPT ![o] = n]
                /\ UNCHANGED <<closed, waiter>>

Notify(o) == /\ outcome[o] # Pending /\ notified[o] = 0 /\ closed[o] = 0
             /\ notified' = [notified EXCEPT ![o] = 1]
             /\ UNCHANGED <<outcome, closed, waiter>>

Close(o) == /\ outcome[o] # Pending /\ closed[o] = 0
            /\ closed' = [closed EXCEPT ![o] = 1]
            /\ UNCHANGED <<outcome, notified, waiter>>

Wait(o) == /\ waiter[o] = "idle"
           /\ waiter' = [waiter EXCEPT ![o] = "waiting"]
           /\ UNCHANGED <<outcome, notified, closed>>

WaitReturns(o) == /\ waiter[o] = "waiting" /\ closed[o] = 1
                  /\ waiter' = [waiter EXCEPT ![o] = "returned"]
                  /\ UNCHANGED <<outcome, notified, closed>>

Next == \E o \in Objects : \/ \E x \in Outcomes : Settle(o, x)
                           \/ Notify(o) \/ Close(o) \/ Wait(o) \/ WaitReturns(o)

Spec == Init /\ [][Next]_vars
=============================================================================
