-------------------------- MODULE CicapContainer --------------------------
(***************************************************************************)
(* The c-icap container: its entrypoint and c-icap (CicapInit) under the   *)
(* probe of its own image (HealthCheck), which reads the first line of the *)
(* answer to OPTIONS.  squid's probe is the same but for the request.      *)
(***************************************************************************)
EXTENDS CicapInit

VARIABLES answers, probe, spent, limit, got, grace, failed, health

Probe == INSTANCE HealthCheck WITH
  ByLine  <- TRUE,
  up      <- pc[Main] # "down",
  serving <- Running(Main)

ContainerInit == Init /\ Probe!Init

ContainerNext ==
  \/ Next /\ Probe!Follow
  \/ Probe!Docker /\ UNCHANGED vars

ContainerSpec == ContainerInit /\ [][ContainerNext]_<<vars, Probe!hvars>>

FairContainer == ContainerSpec /\ Fairness /\ Probe!Fairness
-----------------------------------------------------------------------------
\* Every variable of the probe keeps its type, and the probe ends by itself
\* before Docker's timeout would kill it (see HealthCheck).
ProbeOK == Probe!ProbeOK
=============================================================================
