-------------------------------- MODULE Field --------------------------------
(***************************************************************************)
(* Both sides a client of the field can be on: the one that connects and   *)
(* asks (Exchange), and the one that devices connect to (Server).  A       *)
(* device is configured for one of them, so each is observed by itself.    *)
(***************************************************************************)
EXTENDS Exchange, Server

VARIABLE side

FieldInit ==
  /\ side \in {"asks", "serves"}
  /\ Init /\ ServerInit
  /\ side = "asks" \/ (kind = (CHOOSE k \in Kinds : TRUE) /\ limit = 0 /\ peer = "up")
  /\ side = "serves" \/ (mode = "udp" /\ from = [c \in Accepted |-> CHOOSE a \in Addresses : TRUE])

FieldNext ==
  /\ UNCHANGED side
  /\ \/ side = "asks" /\ Next /\ UNCHANGED serverVars
     \/ side = "serves" /\ ServerStep /\ UNCHANGED vars

FieldSpec == FieldInit /\ [][FieldNext]_<<side, vars, serverVars>> /\ Fairness

\* ZombieHasACause of Exchange on the one side (serial_client.py:269, ethernet_client.py:399),
\* ConnectionsAreServed of Server on the other (ethernet_client.py:468-527).
ConnectionsHaveACause == ZombieHasACause /\ ConnectionsAreServed

=============================================================================
