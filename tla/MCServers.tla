----------------------------- MODULE MCServers -----------------------------
(***************************************************************************)
(* Server objects for TLC.  A behaviour is that of g_server, with a worker *)
(* and a second server, or that of an object which a script makes and      *)
(* which any thread calls; then the worker has nothing to do.              *)
(***************************************************************************)
EXTENDS GlobalServer

VARIABLE isGlobal

serverVars == <<isGlobal, allVars>>

ServersInit == isGlobal \in BOOLEAN /\ GInit

ServersNext ==
  \/ isGlobal /\ GNext /\ UNCHANGED isGlobal
  \/ ~isGlobal /\ Next /\ UNCHANGED <<isGlobal, trigger, active, lua, poolVars, misuse>>

\* For g_server, the fairness of DoProc says that the scripts its loop calls end.
ServersSpec == ServersInit /\ [][ServersNext]_serverVars /\ Fairness
=============================================================================
