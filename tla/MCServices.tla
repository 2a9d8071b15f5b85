----------------------------- MODULE MCServices ------------------------------
(* Parts that share no state and must make progress, for TLC: a behaviour  *)
(* is about one of them, and the others stay as they begin.                *)
EXTENDS BrainIndex, Inference, ModelCache, JobRows

VARIABLE part

ServiceInit ==
  /\ part \in {"index", "engine", "cache", "rows"}
  /\ IndexInit /\ InfInit /\ CacheInit /\ RowInit
  /\ part # "rows" => kind = "download"

ServiceNext ==
  \/ part = "index" /\ IndexNext /\ UNCHANGED <<part, infVars, cacheVars, rowVars>>
  \/ part = "engine" /\ InfNext /\ UNCHANGED <<part, indexVars, cacheVars, rowVars>>
  \/ part = "cache" /\ CacheNext /\ UNCHANGED <<part, indexVars, infVars, rowVars>>
  \/ part = "rows" /\ RowNext /\ UNCHANGED <<part, indexVars, infVars, cacheVars>>

ServiceVars == <<part, indexVars, infVars, cacheVars, rowVars>>

(* Every part is idle at first: fairness of one asks nothing of a behaviour*)
(* about another.                                                          *)
ServiceFairness ==
  /\ WF_indexVars(ParserMoves) /\ WF_indexVars(ServerBoots)
  /\ \A r \in Requests : WF_infVars(Serve(r))
  /\ WF_infVars(TimerFires) /\ WF_infVars(AutoUnload)
  /\ WF_cacheVars(TimerWakes) /\ WF_cacheVars(TimerClears)
  /\ WF_cacheVars(TimerExpires) /\ WF_cacheVars(TimerArms)
  /\ WF_rowVars(SettleWrites) /\ WF_rowVars(WatchPolls)

ServiceSpec == ServiceInit /\ [][ServiceNext]_ServiceVars /\ ServiceFairness

(* Every variable of every part has its type.                              *)
ServiceTypeOK == IndexTypeOK /\ InfTypeOK /\ CacheTypeOK /\ RowTypeOK
=============================================================================
