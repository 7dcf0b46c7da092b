-------------------------- MODULE ClamavContainer --------------------------
(***************************************************************************)
(* The clamav container: its entrypoint and clamd (ClamavInit) under the   *)
(* probe of its own image (HealthCheck), which reads clamd's answer once.  *)
(***************************************************************************)
EXTENDS ClamavInit

VARIABLES answers, probe, spent, limit, got, grace, failed, health

Probe == INSTANCE HealthCheck WITH
  ByLine  <- FALSE,
  up      <- pc # "down",
  serving <- pc = "listening"

ContainerInit == Init /\ Probe!Init

ContainerNext ==
  \/ Next /\ Probe!Follow
  \/ Probe!Docker /\ UNCHANGED vars

ContainerSpec == ContainerInit /\ [][ContainerNext]_<<vars, Probe!hvars>>

FairContainer == ContainerSpec /\ Fairness /\ Probe!Fairness
-----------------------------------------------------------------------------
\* Both are in their types (the probe's in HealthCheck).
ContainerOK == TypeOK /\ Probe!ProbeOK

\* What depends_on: service_healthy asks for (docker-compose.yml:74-76): a
\* clamav that Docker calls healthy has a clamd that listens, with signatures.
HealthyHasSignatures == health = "healthy" => pc = "listening" /\ engine # {}

\* clamav as those who depend on it see it.
Life == CASE pc = "down"      -> "down"
          [] pc = "listening" -> "serving"
          [] OTHER            -> "up"
Service == INSTANCE ClamavService WITH life <- Life, stocked <- db # {}

\* The container keeps what ClamavService promises of it.
ImplementsService == Service!Spec

\* Docker's verdict follows clamd, as long as its answers come whole.
HealthFollows == Probe!HealthFollows
=============================================================================
