----------------------------- MODULE ControlNet -----------------------------
(***************************************************************************)
(* The packets of the HDL control protocol and what lies between a client, *)
(* the program that controls a device over the network (NetDevice), and    *)
(* the simulator server (SimServer) that takes the place of the device.    *)
(*                                                                         *)
(* A request carries the client's 8-bit tag, its kind and a value; a       *)
(* response echoes the tag and carries a result code and a value.  The     *)
(* fields client and id are not in the packets: they name the request, the *)
(* number of requests its client has made, so that properties can tell     *)
(* requests with equal tags apart.  The code never looks at them.          *)
(*                                                                         *)
(* Datagrams (UDP or raw Ethernet on one network) may be lost, and stay in *)
(* order between one client and the server.  The executable of a load goes *)
(* over a TCP connection of its own.                                       *)
(***************************************************************************)
EXTENDS Naturals, Sequences

CONSTANTS
  Clients,     \* the programs, by the address the server sees
  TagMod,      \* 256 in the code: tag is a uint8_t
  Values,      \* what a device register may hold
  Reset,       \* what it holds when a simulation starts
  Writes,      \* what the clients write
  MaxFaults    \* bound on the faults

ASSUME NetAssumption ==
  /\ TagMod \in Nat \ {0} /\ Reset \in Values
  /\ Writes \subseteq Values /\ MaxFaults \in Nat

VARIABLES
  toServer,    \* requests on their way or in the server's socket, by client
  toClient,    \* responses on their way or in the client's socket
  conn,        \* the TCP connection that transfers an executable
  faults       \* how many faults there were

netVars == <<toServer, toClient, conn, faults>>

Commands == {"F", "L", "R"}          \* flush, load, run

\* A lost datagram, a socket error, a worker's error, a file that is no good.
Fault == faults < MaxFaults /\ faults' = faults + 1
NoFault == UNCHANGED faults

\* A datagram is put at the end of its channel or lost.
SendRequest(c, packet) ==
  \/ toServer' = [toServer EXCEPT ![c] = Append(@, packet)] /\ NoFault
  \/ UNCHANGED toServer /\ Fault

SendResponse(c, packet) ==
  \/ toClient' = [toClient EXCEPT ![c] = Append(@, packet)] /\ NoFault
  \/ UNCHANGED toClient /\ Fault
=============================================================================
