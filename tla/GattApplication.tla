--------------------------- MODULE GattApplication ---------------------------
(***************************************************************************)
(* The GATT application (transport/ble/gatt.rs, transport/ble/uuids.rs):   *)
(* which characteristics a central finds, and which requests each of them  *)
(* takes.  Every request it takes goes to a method of one                  *)
(* CharacteristicHandler, made with the application: hence the handlers of *)
(* all centrals share its offset and its session.  BlueZ turns away the    *)
(* others without asking the program.                                      *)
(*                                                                         *)
(* The UUIDs differ in their last byte, which stands for them.             *)
(***************************************************************************)
EXTENDS Naturals

AUTH_KEY == 102
SCAN_CONTROL == 103
SCAN_STATE == 104
SCAN_RESULTS == 105
CONNECT_SSID == 106
CONNECT_PSK == 107
CONNECT_CONTROL == 108
CONNECT_STATE == 109

Operations == {"read", "write", "notify"}

\* The three services: what each of their characteristics takes.  The state
\* characteristics have a `notify` part whose flags have their default, off.
build_authorization_service == [ch \in {AUTH_KEY} |-> {"write"}]

build_scan_service ==
    [ch \in {SCAN_CONTROL, SCAN_STATE, SCAN_RESULTS} |->
        IF ch = SCAN_CONTROL THEN {"write"} ELSE {"read"}]

build_connect_service ==
    [ch \in {CONNECT_SSID, CONNECT_PSK, CONNECT_CONTROL, CONNECT_STATE} |->
        IF ch = CONNECT_STATE THEN {"read"} ELSE {"write"}]

build_application ==
    {build_authorization_service, build_scan_service, build_connect_service}

\* The application takes requests to do op with characteristic ch.
Takes(ch, op) ==
    \E service \in build_application : ch \in DOMAIN service /\ op \in service[ch]
=============================================================================
