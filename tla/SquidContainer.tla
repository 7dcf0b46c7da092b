-------------------------- MODULE SquidContainer --------------------------
(***************************************************************************)
(* The squid container: its entrypoint, the entrypoints of podman exec and *)
(* their squids (SquidInit) under the probe of its own image               *)
(* (HealthCheck), which asks port 3128 of the container, whoever holds it, *)
(* for a page and reads the first line of the answer.                      *)
(***************************************************************************)
EXTENDS SquidInit

VARIABLES answers, probe, spent, limit, got, grace, failed, health

Listens == \E p \in Procs : pc[p] = "serving"

Probe == INSTANCE HealthCheck WITH
  ByLine  <- TRUE,
  up      <- pc[Main] # "down",
  serving <- Listens

ContainerInit == Init /\ Probe!Init

ContainerNext ==
  \/ Next /\ Probe!Follow
  \/ Probe!Docker /\ UNCHANGED vars

ContainerSpec == ContainerInit /\ [][ContainerNext]_<<vars, Probe!hvars>>

FairContainer ==
  /\ ContainerSpec /\ Probe!Fairness
  /\ WF_vars(StartContainer) /\ WF_vars(Run(Main))
-----------------------------------------------------------------------------
\* A container that Docker calls healthy has its own squid at work, over a complete
\* certificate database and a complete cache: no verdict speaks of an earlier life,
\* of an exec's squid, or of state that an exec has taken away since.
HealthyServesReady ==
  health = "healthy" => pc[Main] = "serving" /\ StateReady(loaded[Main])

\* Once faults stop, a sane container whose squid answers ends up healthy, for good
\* (the restart policy of docker-compose.yml, and the probe after it).
EndsHealthy ==
  <>[](Sane /\ answers \in Probe!Understood) => <>[](health = "healthy")
=============================================================================
