------------------------------- MODULE MCData -------------------------------
(***************************************************************************)
(* The data of a server, for TLC: messages (their memory, the free list,   *)
(* fields, copies and WebSocket frames), the file of settings, and what    *)
(* chunks and helpers give back to scripts.  The parts share no state, so  *)
(* a behaviour chooses one of them and the others stay as they are in the  *)
(* beginning; a part that has many initial states is there in one of them. *)
(***************************************************************************)
EXTENDS MemFile, MessagePool, MessageFields, MessageTransfer, WebSocketStream,
        CfgLoad, ScriptHelpers, ChunkResults

VARIABLE part

dataVars == <<part, memVars, poolVars, fieldVars, transferVars, streamVars,
              loadVars, helperVars, vars>>

Parts == {"memory", "pool", "fields", "transfer", "stream", "load",
          "helpers", "results"}

NoTransfer == TransferStart(FALSE)
NoLoad == LoadStart(<<>>, <<LF>>)
NoHelper == HelperStart([name |-> "none"])

DataInit ==
  /\ part \in Parts
  /\ MemInit /\ PoolInit /\ FieldInit /\ StreamInit /\ Init
  /\ IF part = "transfer" THEN TransferInit ELSE NoTransfer
  /\ IF part = "load" THEN LoadInit ELSE NoLoad
  /\ IF part = "helpers" THEN HelperInit ELSE NoHelper

DataNext ==
  \/ /\ part = "memory" /\ MemNext
     /\ UNCHANGED <<part, poolVars, fieldVars, transferVars, streamVars, loadVars, helperVars, vars>>
  \/ /\ part = "pool" /\ PoolNext
     /\ UNCHANGED <<part, memVars, fieldVars, transferVars, streamVars, loadVars, helperVars, vars>>
  \/ /\ part = "fields" /\ FieldNext
     /\ UNCHANGED <<part, memVars, poolVars, transferVars, streamVars, loadVars, helperVars, vars>>
  \/ /\ part = "transfer" /\ TransferNext
     /\ UNCHANGED <<part, memVars, poolVars, fieldVars, streamVars, loadVars, helperVars, vars>>
  \/ /\ part = "stream" /\ StreamNext
     /\ UNCHANGED <<part, memVars, poolVars, fieldVars, transferVars, loadVars, helperVars, vars>>
  \/ /\ part = "load" /\ LoadNext
     /\ UNCHANGED <<part, memVars, poolVars, fieldVars, transferVars, streamVars, helperVars, vars>>
  \/ /\ part = "helpers" /\ HelperNext
     /\ UNCHANGED <<part, memVars, poolVars, fieldVars, transferVars, streamVars, loadVars, vars>>
  \/ /\ part = "results" /\ Next
     /\ UNCHANGED <<part, memVars, poolVars, fieldVars, transferVars, streamVars, loadVars, helperVars>>

DataSpec == DataInit /\ [][DataNext]_dataVars
-----------------------------------------------------------------------------
\* The data are well formed: no byte outside a buffer is used, the free list is as
\* short as collect means to keep it, a stream holds the bytes of the frames that
\* were not taken, and there is one result per task.
DataTypeOK == MemTypeOK /\ PoolTypeOK /\ StreamTypeOK /\ TypeOK
=============================================================================
