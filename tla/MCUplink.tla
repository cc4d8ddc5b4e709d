------------------------------ MODULE MCUplink ------------------------------
(***************************************************************************)
(* What a node has to do with the relay, for TLC: its connection           *)
(* (RelayClient), or the agents that its Memory Mesh learns of from it     *)
(* (MeshRegistry).  A behaviour has one of them at work and the other at   *)
(* rest.                                                                   *)
(***************************************************************************)
EXTENDS RelayClient

CONSTANTS here, there, Names, Syncs, Patches, MaxChanges, MaxPatches

VARIABLES
  part,             \* the part that is at work
  enabled, detected, listed, rows, syncs, patches, world, made

Registry == INSTANCE MeshRegistry WITH Local <- here, Remotes <- {there}

registryVars == <<enabled, detected, listed, rows, syncs, patches, world, made>>

uplinkVars == <<part, vars, registryVars>>

\* A client at rest was stopped before it made a socket.
StoppedClient ==
  /\ booting = "done" /\ stopped = TRUE
  /\ client =
       [enabled |-> FALSE, status |-> "disabled", relayUrl |-> "valid", socket |-> None,
        heartbeatTimer |-> FALSE, reconnectTimer |-> FALSE, watchdogTimer |-> None,
        reconnectDelay |-> ReconnectMin,
        ready |-> [s \in Sockets |-> "unused"], failed |-> [s \in Sockets |-> FALSE],
        sent |-> [s \in Sockets |-> {}]]

UplinkInit ==
  /\ Registry!Init
  /\ \/ part = "client" /\ Init /\ ~enabled /\ detected = Registry!Nobody
     \/ part = "registry" /\ StoppedClient

UplinkNext ==
  \/ part = "client" /\ Next /\ UNCHANGED <<part, registryVars>>
  \/ part = "registry" /\ Registry!Next /\ UNCHANGED <<part, vars>>

UplinkSpec ==
  UplinkInit /\ [][UplinkNext]_uplinkVars /\ Fairness /\ Registry!Fairness

\* MeshRegistry: the registry comes to show every agent as it is.
RegistryCatchesUp == Registry!RegistryCatchesUp
=============================================================================
