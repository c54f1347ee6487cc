---------------------------- MODULE MCServerLoop ----------------------------
(***************************************************************************)
(* What reaches the loop of one server, for TLC: the timers and requests   *)
(* its scripts wait for, and its connections.  The parts share no state,   *)
(* so a behaviour chooses one of them and the other stays as it is in the  *)
(* beginning.                                                              *)
(***************************************************************************)
EXTENDS ScriptWaits, ClientConnections

VARIABLE part

loopVars == <<part, waitVars, connVars>>

LoopInit == part \in {"waits", "connections"} /\ WaitInit /\ ConnInit

LoopNext ==
  \/ part = "waits" /\ WaitNext /\ UNCHANGED <<part, connVars>>
  \/ part = "connections" /\ ConnNext /\ UNCHANGED <<part, waitVars>>

LoopSpec == LoopInit /\ [][LoopNext]_loopVars /\ WaitFairness /\ ConnFairness
-----------------------------------------------------------------------------
\* Waits and connections are well formed: a record is in use exactly while its
\* callback is on the C stack, and a message is read and written inside its content.
LoopTypeOK == WaitTypeOK /\ ConnTypeOK
=============================================================================
