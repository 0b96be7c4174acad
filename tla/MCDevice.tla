------------------------------ MODULE MCDevice ------------------------------
(***************************************************************************)
(* What keeps a device reachable and its screen shown, in one run: the     *)
(* rendezvous mediators, the capture of the portable service and its       *)
(* processes.  They share no state: each behaviour is one of the component *)
(* `part', while the others rest in an initial state.                      *)
(***************************************************************************)
EXTENDS Rendezvous, PortableCapture, PortableService, TLC

CONSTANTS a, b

VARIABLE part

MCHosts == {a, b}
MCServerLists == {{b}, {a, b}}

\* Somebody else has the device's first id at b.
MCTaken == [h \in MCHosts |-> IF h = b THEN {FirstId} ELSE {}]

\* The primary display is not the first one of the list, and its size can change.
MCScreens == [index : {1}, size : {1, 2}]

DeviceInit ==
  /\ part \in {"rendezvous", "capture", "portable"}
  /\ RzInit /\ CaptureInit /\ PortableInit
  /\ part # "rendezvous" =>
       transport = "udp" /\ servers = {b} /\ ~stop_service /\ ~key_confirmed
  /\ part # "capture" => screen.size = 1
  /\ part # "portable" => ~remote /\ ~quick_support

DeviceNext ==
  /\ UNCHANGED part
  /\ IF part = "rendezvous" THEN RzNext ELSE UNCHANGED rzVars
  /\ IF part = "capture" THEN CaptureNext ELSE UNCHANGED captureVars
  /\ IF part = "portable" THEN PortableNext ELSE UNCHANGED portableVars

DeviceSpec ==
  DeviceInit /\ [][DeviceNext]_<<part, rzVars, captureVars, portableVars>>
-----------------------------------------------------------------------------
(* The liveness properties, of the behaviours in which their part moves.   *)

\* The mediators follow a change of the servers (Rendezvous).
MCServersFollowed == part = "rendezvous" => ServersFollowed

\* A mediator that exits takes the others with it (Rendezvous).
MCOneExitsAllExit == part = "rendezvous" => OneExitsAllExit

\* Every server gets to know the device's current id (Rendezvous).
MCRegistered == part = "rendezvous" => Registered

\* The frames of the portable service come to show the display (PortableCapture).
MCFramesFlow == part = "capture" => FramesFlow

\* The portable service ends with the remote connections, and RUNNING with it
\* (PortableService).
MCServiceFollows == part = "portable" => ServiceFollows
=============================================================================
