--------------------------------- MODULE MCSd ---------------------------------
(***************************************************************************)
(* The SD controller for TLC: a behaviour exercises its command path or    *)
(* its data path.  Between a command and its data lies only the start      *)
(* pulse of the trigger, SdCommand's start_tx and start_rx and SdData's    *)
(* request.                                                                *)
(***************************************************************************)
EXTENDS SdCommand, SdData

VARIABLE path

sdVars == <<path, vars, dataVars>>

OnCommandPath == path = "command" /\ UNCHANGED <<path, dataVars>>
OnDataPath == path = "data" /\ UNCHANGED <<path, vars>>

SdInit == path \in {"command", "data"} /\ Init /\ DataInit

SdNext ==
  \/ OnCommandPath /\ (WbEdge \/ SdEdge \/ CardReady)
  \/ OnDataPath /\ (DataWbEdge \/ DataSdEdge \/ DataClear \/ DataIssue)

(* The clocks run, the bus answers, and no card is busy for ever.           *)
SdSpec ==
  /\ SdInit /\ [][SdNext]_sdVars
  /\ WF_sdVars(OnCommandPath /\ WbEdge) /\ WF_sdVars(OnCommandPath /\ SdEdge)
  /\ WF_sdVars(OnCommandPath /\ CardReady)
  /\ WF_sdVars(OnDataPath /\ DataWbEdge) /\ WF_sdVars(OnDataPath /\ DataSdEdge)

-----------------------------------------------------------------------------
(* With a timeout every command and every transfer ends and says how, also  *)
(* when the card never answers (the watchdogs of sd_cmd_master.v and        *)
(* sd_data_master.v, and START_TX_FIFO, which has none).                    *)
RequestsEnd == CommandEnds /\ DataEnds
=============================================================================
