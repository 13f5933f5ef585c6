-------------------------------- MODULE Peers --------------------------------
(***************************************************************************)
(* The services of the authority to its peers other than remote dispatch:  *)
(* replication (Replica), cross-device sync (Sync), the companion ledgers  *)
(* (Custody), the gateway with its channels, messages and rate window      *)
(* (Gateway), and external sessions and devices (Communication).  They use *)
(* different tables and no step of one reads what another writes, so every *)
(* interleaving of them is a shuffle of behaviours of each: a behaviour of *)
(* this module exercises one service, chosen in its initial state, while   *)
(* the others rest.                                                        *)
(***************************************************************************)
EXTENDS Replica, Sync, Custody, Gateway, Communication, TLC

VARIABLE service

peersVars == <<service, replicaVars, syncVars, custodyVars, gatewayVars, communicationVars>>

Services == {"replica", "sync", "custody", "channels", "messages", "rate", "fabric", "device"}

ModelParticipants ==
  [kind : {"owner", "agent for owner", "external", "external agent"}, id : {"x", "y"}]
ModelPrincipals ==
  [kind : {"owner", "agent for owner", "external"}, id : {"owner", "x", "y"}, method : {"mutual", "local"}]

Datum(request, impact, sensitive, confirmed, tokens) ==
  [request |-> request, category |-> "work", impact |-> impact, sensitive |-> sensitive,
   confirmed |-> confirmed, tokens |-> tokens, aligned |-> TRUE]
ModelMessageData ==
  ("m1" :> Datum("q1", FALSE, FALSE, TRUE, 2)) @@ ("m2" :> Datum("q2", TRUE, FALSE, FALSE, 2))
    @@ ("m3" :> Datum("q1", FALSE, TRUE, TRUE, 1))
ModelRule == [c \in {"work"} |-> "answer"]


Interchangeable == Permutations(Workers)

PeersInit ==
  /\ service \in Services
  /\ ReplicaInit /\ SyncInit /\ CustodyInit /\ GatewayInit /\ CommunicationInit

AtRest(s) ==
  /\ s # "replica" => UNCHANGED replicaVars
  /\ s # "sync" => UNCHANGED syncVars
  /\ s # "custody" => UNCHANGED custodyVars
  /\ s \notin {"channels", "messages", "rate"} => UNCHANGED gatewayVars
  /\ s \notin {"fabric", "device"} => UNCHANGED communicationVars

PeersNext ==
  /\ UNCHANGED service
  /\ AtRest(service)
  /\ \/ service = "replica" /\ ReplicaNext
     \/ service = "sync" /\ SyncNext
     \/ service = "custody" /\ CustodyNext
     \/ service = "channels" /\ ChannelNext
     \/ service = "messages" /\ MessageNext
     \/ service = "rate" /\ RateNext
     \/ service = "fabric" /\ FabricNext
     \/ service = "device" /\ DeviceNext

PeersSpec == PeersInit /\ [][PeersNext]_peersVars

\* Whatever arrives late, twice or after a restart, an acknowledgement never takes the
\* checkpoint back, nothing is handed out to a peer revoked or under a grant replaced
\* meanwhile, and the first retention receipt stays the answer (export_replication,
\* validate_federation_transition, accept_retention_receipt).
PeersOnlyAdvance == [][CheckpointAdvances /\ ExportsAreCurrent /\ RetentionIsFinal]_peersVars
===============================================================================
