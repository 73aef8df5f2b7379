---------------------------- MODULE WpactrlRestart ----------------------------
(***************************************************************************)
(* The program is killed and started again (Restart=on-failure in its      *)
(* systemd unit) while wpa_supplicant keeps running: the new process       *)
(* starts from the new() of the service (core/service.rs) and does not ask *)
(* the backend what it left there.  A command that was on its way when the *)
(* program died has been obeyed or has not: both are steps of              *)
(* WpactrlBackend before the kill.                                         *)
(***************************************************************************)
EXTENDS WpactrlBackend

CONSTANT MaxKills       \* bound: how often the program is killed

ASSUME RestartAssumption == MaxKills \in Nat

VARIABLES
    kills,
    inherited           \* history: what was joinable when it was last killed

restartVars == <<vars, kills, inherited>>

RestartInit == Init /\ kills = 0 /\ inherited = {}

\* The tasks and the callers are gone, and with them what had overlapped; the
\* service is as new.  Attempts keep their numbers.
Kill ==
    /\ kills < MaxKills /\ kills' = kills + 1
    /\ Conn!MachineDisconnect
    /\ task' = [t \in Conn!Attempts |-> IF t \in Conn!InFlight THEN "done" ELSE task[t]]
    /\ caller' = [c \in Callers |-> "ready"]
    /\ reply' = [c \in Callers |-> "none"]
    /\ seen' = [c \in Callers |-> 0] /\ ticket' = [c \in Callers |-> 0]
    /\ strays' = {} /\ deaf' = FALSE
    /\ inherited' = Joinable
    /\ UNCHANGED <<attempts, target, poll, disconnects,
                   sequence, supplicant, refused, dropped>>

RestartNext == (Next /\ UNCHANGED <<kills, inherited>>) \/ Kill

RestartSpec == RestartInit /\ [][RestartNext]_restartVars

-----------------------------------------------------------------------------
(* Properties                                                               *)

\* The types of the variables.
RestartTypeOK ==
    /\ TypeOK
    /\ kills \in 0..MaxKills /\ inherited \in SUBSET DOMAIN nets

\* A restart forgets the link but adds to it nothing: while Idle is shown,
\* wpa_supplicant may join only what it could join when the program was last
\* killed, and never what an attempt of the new process has left enabled.
\* Excused: overlaps of an attempt and a disconnect, and a DISCONNECT that got
\* a FAIL, which nobody reads.
IdleJoinsOnlyInherited ==
    strays = {} /\ connState = "Idle" /\ ~deaf => Joinable \subseteq inherited
=============================================================================
