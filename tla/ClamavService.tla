--------------------------- MODULE ClamavService ---------------------------
(***************************************************************************)
(* What the clamav container promises those who depend on it, stripped of  *)
(* its entrypoint, its probe and of time: clamd listens only once there is *)
(* a database, which no restart takes away, and the container is called    *)
(* healthy only while clamd listens.  docker-compose.yml rests on it       *)
(* (depends_on: clamav: condition: service_healthy).                       *)
(***************************************************************************)
VARIABLES
  life,      \* of the container: "down", "up", "serving" when clamd listens
  stocked,   \* are there signatures in clamav_db?
  health     \* Docker's verdict

vars == <<life, stocked, health>>

Init ==
  /\ life = "down"
  /\ stocked \in BOOLEAN
  /\ health = "starting"

Start ==
  /\ life = "down"
  /\ life' = "up" /\ health' = "starting"
  /\ UNCHANGED stocked

\* freshclam downloads, if it has to, and the probes fail meanwhile.
Prepare ==
  /\ life = "up"
  /\ stocked' \in {stocked, TRUE}
  /\ health' \in {health, "unhealthy"}
  /\ UNCHANGED life

Serve ==
  /\ life = "up" /\ stocked
  /\ life' = "serving"
  /\ UNCHANGED <<stocked, health>>

\* A probe of a clamd that listens may still fail.
Judge ==
  /\ life = "serving"
  /\ health' \in {"healthy", "unhealthy"}
  /\ UNCHANGED <<life, stocked>>

\* The container ends or is removed; the volume stays.
End ==
  /\ life' = "down" /\ health' \in {"starting", "unhealthy"}
  /\ UNCHANGED stocked

Next == Start \/ Prepare \/ Serve \/ Judge \/ End

Spec == Init /\ [][Next]_vars
-----------------------------------------------------------------------------
\* What `up` and c-icap count on: a healthy clamav answers, over signatures.
Promise == health = "healthy" => life = "serving" /\ stocked
=============================================================================
