---------------------------- MODULE RpcAbstract ----------------------------
(***************************************************************************)
(* What Client.execute promises its caller, with no map, channel, socket   *)
(* or goroutine in sight: an issued request finishes once, with an answer  *)
(* the server really gave to that request, or with one of the local        *)
(* failures (write error, timeout, client stopped).                        *)
(***************************************************************************)
CONSTANTS Requests,    \* the execute() calls
          Bodies,      \* what a response may carry
          Decode(_)    \* execute's classification of a body

VARIABLES status,      \* "idle", "open", or the outcome returned
          served       \* the bodies the server has answered each request with

vars == <<status, served>>

LocalFailures == {"writeErr", "timeout", "cancelled"}

Init == /\ status = [r \in Requests |-> "idle"]
        /\ served = [r \in Requests |-> {}]

Issue(r) == /\ status[r] = "idle"
            /\ status' = [status EXCEPT ![r] = "open"]
            /\ UNCHANGED served

\* The peer may answer late, twice, or after the caller has given up.
Serve(r, b) == /\ status[r] # "idle"
               /\ served' = [served EXCEPT ![r] = @ \cup {b}]
               /\ UNCHANGED status

Finish(r, outcome) ==
    /\ status[r] = "open"
    /\ \/ outcome \in LocalFailures
       \/ \E b \in served[r] : outcome = Decode(b)
    /\ status' = [status EXCEPT ![r] = outcome]
    /\ UNCHANGED served

Next == \E r \in Requests :
            \/ Issue(r)
            \/ \E b \in Bodies : Serve(r, b)
            \/ \E outcome \in LocalFailures \cup {Decode(b) : b \in served[r]} :
                  Finish(r, outcome)

Spec == Init /\ [][Next]_vars
=============================================================================
