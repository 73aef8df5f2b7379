--------------------------- MODULE AsyncOperation ---------------------------
(***************************************************************************)
(* What a commissioning operation promises its callers.                    *)
(*                                                                         *)
(* Both long-running operations of the service (a WiFi scan, a connection  *)
(* attempt) return to their caller at once and do the work in a background *)
(* task.  Seen from outside, each of them is this machine: a call is       *)
(* accepted only while no outcome is awaited, every accepted call is       *)
(* settled at most once, and what is on display is the outcome of a call   *)
(* that was open until then.  An operation may be withdrawn; the calls     *)
(* that are open then are settled all the same.                            *)
(*                                                                         *)
(* ScanService and ConnectionService are shown to implement it.            *)
(***************************************************************************)
EXTENDS Naturals

CONSTANTS
    Outcomes,       \* how a call can end
    Restartable     \* the outcomes after which a further call is accepted

VARIABLES
    calls,          \* the number of calls accepted so far
    open,           \* the calls that have not been settled
    outcome,        \* "none", "pending", or an outcome
    answers         \* the call whose outcome is on display, 0 if there is none

vars == <<calls, open, outcome, answers>>

Init ==
    /\ calls = 0 /\ open = {}
    /\ outcome = "none" /\ answers = 0

\* A call is accepted: the outcome of the previous one disappears.
Start ==
    /\ outcome \in {"none"} \cup Restartable
    /\ calls' = calls + 1
    /\ open' = open \cup {calls + 1}
    /\ outcome' = "pending" /\ answers' = 0

\* An open call is settled, and is open no more.
Settle(k) ==
    /\ k \in open
    /\ open' = open \ {k}
    /\ outcome' \in Outcomes /\ answers' = k
    /\ UNCHANGED calls

\* Whatever was awaited or on display is withdrawn.
Withdraw ==
    /\ outcome' = "none" /\ answers' = 0
    /\ UNCHANGED <<calls, open>>

Next == Start \/ (\E k \in open : Settle(k)) \/ Withdraw

Spec == Init /\ [][Next]_vars
=============================================================================
