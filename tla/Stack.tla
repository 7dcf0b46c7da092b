------------------------------- MODULE Stack -------------------------------
(***************************************************************************)
(* docker-compose.yml and scripts/deploy.sh: the clamav, c-icap and squid  *)
(* containers from `deploy.sh up <profile>` on, with the CA it generates   *)
(* when there is none (CaFiles), across failures and reboots.  Each        *)
(* container is seen from outside, as ServiceLifecycle and the modules of  *)
(* the entrypoints allow: it is up, then serves, or it ends and the        *)
(* restart policy starts it again.  Docker is modelled from what the       *)
(* compose file asks of it.  Time is counted in health intervals of        *)
(* clamav, 30 s.                                                           *)
(***************************************************************************)
EXTENDS Naturals, FiniteSets

CONSTANTS
  Squids,       \* the squid services
  Profiles,     \* the sets of them that `deploy.sh up` may be asked for
  HostPorts,    \* the host ports a service may publish
  Ports,        \* the host ports of each squid service
  NeedsCa,      \* the squid services that read certs/; bound: with a profile that
                \* deploy.sh looks for the CA of, as all it offers
  StartPeriod,  \* intervals during which a failed probe does not count: 6
  Retries,      \* failed probes in a row that make clamav unhealthy: 3
  Downloads,    \* how long the first freshclam may take, in intervals
  MaxFaults     \* bound: containers that end, reboots, runs of `deploy.sh down`

Services == {"clamav", "c-icap"} \cup Squids

ASSUME SquidsAssumption == {"clamav", "c-icap"} \cap Squids = {}
ASSUME ProfilesAssumption == Profiles \subseteq SUBSET Squids
ASSUME PortsAssumption == Ports \in [Squids -> SUBSET HostPorts]
ASSUME CaAssumption == NeedsCa \subseteq Squids
ASSUME TimesAssumption == /\ StartPeriod \in Nat /\ Retries \in Nat \ {0}
                          /\ Downloads \subseteq Nat
ASSUME FaultsAssumption == MaxFaults \in Nat

VARIABLES
  up,      \* deploy.sh up: "idle", in generate-ca.sh ("ca"), "waiting" for clamav,
           \* "starting", "done", "aborted"
  asked,   \* the squid services of the profile it was asked for
  box,     \* each container: "absent", "refused" its port, "down", "up", "serving"
  proxied, \* has freshclam.conf a squid of the stack as HTTPProxyServer?
  first,   \* intervals the first download takes
  left,    \* those that remain before clamd can listen
  age,     \* intervals since clamav started, up to StartPeriod
  failed,  \* failed probes in a row
  health,  \* of clamav
  faults,  \* faults so far
  script, key, crt, pem, dh   \* see CaFiles

Ca == INSTANCE CaFiles

download == <<proxied, first, left>>
monitor == <<age, failed, health>>
ca == <<script, key, crt, pem, dh>>
vars == <<up, asked, box, download, monitor, faults, ca>>

Init ==
  /\ up = "idle" /\ asked = {}
  /\ box = [s \in Services |-> "absent"]
  /\ first \in Downloads /\ left = first
  /\ age = 0 /\ failed = 0 /\ health = "starting"
  /\ proxied \in BOOLEAN
  /\ faults = 0
  /\ Ca!Init

Fault == faults < MaxFaults /\ faults' = faults + 1
Running(s) == box[s] \in {"up", "serving"}
FreshHealth == age' = 0 /\ failed' = 0 /\ health' = "starting"
EndedHealth == age' = 0 /\ failed' = 0 /\ health' \in {"starting", "unhealthy"}

AllForgotten == asked' = NeedsCa   \* mutant: "all" does not look for the CA
AskedForCa == NeedsCa \cap asked' # {}

\* docker compose --profile ... up -d: containers that exist are left as they are.
Compose ==
  /\ up' = "waiting"
  /\ box' = [box EXCEPT !["clamav"] = IF @ = "absent" THEN "up" ELSE @]

\* deploy.sh up, also once more after it has given up, or for another profile.
Up ==
  /\ up \in {"idle", "done", "aborted"}
  /\ asked' \in Profiles
  /\ IF AskedForCa /\ ~pem.there
       THEN up' = "ca" /\ Ca!Start /\ UNCHANGED box
       ELSE Compose /\ UNCHANGED ca
  /\ UNCHANGED <<download, monitor, faults>>

UpWithCa ==
  /\ up = "ca" /\ script = "idle"
  /\ Compose
  /\ UNCHANGED <<asked, download, monitor, faults, ca>>

Write ==
  /\ Ca!Write
  /\ UNCHANGED <<up, asked, box, download, monitor, faults>>

\* generate-ca.sh run by hand; bound: before `up`, or after `down`.
Generate ==
  /\ up = "idle" /\ Ca!Start
  /\ UNCHANGED <<up, asked, box, download, monitor, faults>>

\* With the script, the `up` that runs it ends.
Cut ==
  /\ Ca!Cut /\ Fault
  /\ up' = IF up = "ca" THEN "aborted" ELSE up
  /\ UNCHANGED <<asked, box, download, monitor>>

RemoveCa ==
  /\ Ca!Remove /\ Fault
  /\ UNCHANGED <<up, asked, box, download, monitor>>

NoCondition == TRUE                  \* mutant: depends_on without a condition
ClamavIsHealthy == health = "healthy"

\* depends_on: clamav: condition: service_healthy.
StartCicap ==
  /\ up = "waiting" /\ ClamavIsHealthy
  /\ up' = "starting"
  /\ box' = [box EXCEPT !["c-icap"] = IF @ = "absent" THEN "up" ELSE @]
  /\ UNCHANGED <<asked, download, monitor, faults, ca>>

GiveUp ==
  /\ up = "waiting" /\ health = "unhealthy"
  /\ up' = "aborted"
  /\ UNCHANGED <<asked, box, download, monitor, faults, ca>>

\* A container holds its ports while it runs.
Started(s) == box[s] \notin {"absent", "refused"}
Free(s) == \A q \in Squids \ {s} : Running(q) => Ports[q] \cap Ports[s] = {}

StartSquid(s) ==
  /\ up = "starting" /\ s \in asked /\ ~Started(s)
  /\ IF Free(s) THEN box' = [box EXCEPT ![s] = "up"] /\ UNCHANGED up
                ELSE box' = [box EXCEPT ![s] = "refused"] /\ up' = "aborted"
  /\ UNCHANGED <<asked, download, monitor, faults, ca>>

Finish ==
  /\ up = "starting" /\ \A s \in asked : Started(s)
  /\ up' = "done"
  /\ UNCHANGED <<asked, box, download, monitor, faults, ca>>

NoGrace == 0                         \* mutant: no start_period
Grace == StartPeriod

PastZero == left - 1                 \* mutant: counting on once it is over
LeftAfter == IF left = 0 THEN 0 ELSE left - 1

\* freshclam gets to its mirror, by a squid of the stack when it is told to.
Reached == proxied => \E s \in Squids : box[s] = "serving"

\* A health interval of clamav: the download goes on, then the probe; a clamd
\* that has its signatures listens before the next one.
Interval ==
  /\ \/ box["clamav"] = "serving"
     \/ box["clamav"] = "up" /\ left > 0
  /\ left' = IF Reached THEN LeftAfter ELSE left
  /\ age' = IF age < StartPeriod THEN age + 1 ELSE age
  /\ IF box["clamav"] = "serving"
       THEN failed' = 0 /\ health' = "healthy"
       ELSE LET n == IF age < Grace \/ failed = Retries THEN failed ELSE failed + 1
            IN  failed' = n /\ health' = IF n = Retries THEN "unhealthy" ELSE health
  /\ UNCHANGED <<up, asked, box, proxied, first, faults, ca>>

OnlyOnce(s) == box[s] = "down" /\ up # "done"      \* mutant: no restart policy
Restarted(s) == box[s] = "down"

NotAwaited(s) == TRUE       \* mutant: freshclam in the background, clamd at once

\* squid serves whatever the state of c-icap (bypass=1), and ends at once over
\* half of a CA; c-icap waits for clamd.
MayServe(s) ==
  CASE s = "clamav" -> left = 0
    [] s = "c-icap" -> box["clamav"] = "serving"
    [] OTHER        -> s \in NeedsCa => Ca!Usable

Serve(s) ==
  /\ box[s] = "up" /\ MayServe(s)
  /\ box' = [box EXCEPT ![s] = "serving"]
  /\ UNCHANGED <<up, asked, download, monitor, faults, ca>>

\* A crash, a kill, or a c-icap that has waited for clamd long enough.
End(s) ==
  /\ Running(s) /\ Fault
  /\ box' = [box EXCEPT ![s] = "down"]
  /\ IF s = "clamav" THEN EndedHealth ELSE UNCHANGED monitor
  /\ UNCHANGED <<up, asked, download, ca>>

\* restart: unless-stopped, with no regard for depends_on.  A squid whose port
\* was taken while it was down stays down.
Restart(s) ==
  /\ Restarted(s)
  /\ box' = [box EXCEPT ![s] = IF s \notin Squids \/ Free(s) THEN "up" ELSE "refused"]
  /\ IF s = "clamav" THEN FreshHealth ELSE UNCHANGED monitor
  /\ UNCHANGED <<up, asked, download, faults, ca>>

\* deploy.sh down, which ends an `up` that goes on; the volumes stay, and with
\* them what is downloaded.
Down ==
  /\ up \notin {"idle", "ca"} /\ Fault
  /\ up' = "idle"
  /\ box' = [s \in Services |-> "absent"]
  /\ FreshHealth
  /\ UNCHANGED <<asked, download, ca>>

\* The host restarts: so does every container that ran, but nobody runs a script.
Reboot ==
  /\ up # "idle" /\ Fault
  /\ script' = "idle" /\ UNCHANGED <<key, crt, pem, dh>>
  /\ up' = IF up = "done" THEN "done" ELSE "aborted"
  /\ box' = [s \in Services |-> IF Running(s) THEN "down" ELSE box[s]]
  /\ IF Running("clamav") THEN EndedHealth ELSE UNCHANGED monitor
  /\ UNCHANGED <<asked, download>>

Next ==
  \/ Up \/ UpWithCa \/ StartCicap \/ GiveUp \/ Finish \/ Interval \/ Down \/ Reboot
  \/ Write \/ Generate \/ Cut \/ RemoveCa
  \/ \E s \in Squids : StartSquid(s)
  \/ \E s \in Services : Serve(s) \/ End(s) \/ Restart(s)

Spec == Init /\ [][Next]_vars

\* The script runs, Docker probes, restarts and goes on with the command; a
\* container that can serve does.  Nobody has to run a command again.
FairSpec ==
  /\ Spec
  /\ WF_vars(Write) /\ WF_vars(UpWithCa)
  /\ WF_vars(StartCicap) /\ WF_vars(GiveUp) /\ WF_vars(Finish) /\ WF_vars(Interval)
  /\ \A s \in Squids : WF_vars(StartSquid(s))
  /\ \A s \in Services : WF_vars(Serve(s)) /\ WF_vars(Restart(s))
-----------------------------------------------------------------------------
\* Every variable keeps its type.
TypeOK ==
  /\ up \in {"idle", "ca", "waiting", "starting", "done", "aborted"}
  /\ asked \in Profiles \cup {{}}
  /\ box \in [Services -> {"absent", "refused", "down", "up", "serving"}]
  /\ proxied \in BOOLEAN
  /\ first \in Downloads /\ left \in 0..first
  /\ age \in 0..StartPeriod
  /\ failed \in 0..Retries
  /\ health \in {"starting", "healthy", "unhealthy"}
  /\ faults \in 0..MaxFaults
  /\ Ca!TypeOK

\* A first `up` that nothing disturbs waits for clamav to the end of its first
\* download, as long as this takes less than the intervals of start_period and
\* retries together (docker-compose.yml:58-63), and does not go through a squid
\* of the stack; and a squid that reads certs/ only starts once they are there
\* (deploy.sh:29-34).
InTime == first = 0 \/ (~proxied /\ first < StartPeriod + Retries)
FirstUpCompletes ==
  faults = 0 =>
    /\ InTime => health # "unhealthy"
    /\ \A s \in NeedsCa : Started(s) => pem.there

\* However often generate-ca.sh is cut short, run again or told to start anew:
\* a whole bump.pem holds one key with its own certificate, the bump.crt that
\* clients are given; and only a script cut short leaves one that squid cannot
\* start with (generate-ca.sh:29-33, 52-58).
CaSound ==
  /\ Ca!Matches
  /\ faults = 0 /\ script = "idle" /\ pem.there => Ca!Usable

\* The same without regard for the length of the download: README.md:234 says
\* that the first one takes 5 to 15 minutes.
FirstUpNeverGivesUp == faults = 0 /\ ~proxied => health # "unhealthy"

\* The one purpose of condition: service_healthy: c-icap is not started during
\* the first download, on which its 120 dials would run out again and again.
CicapAfterDownload ==
  [][box["c-icap"] = "absent" /\ box'["c-icap"] # "absent" => left = 0]_vars

\* What was started, and not refused its port, serves again, for good, once
\* containers stop ending and hosts rebooting, although restarts follow no
\* order; unless its CA is not whole, or freshclam waits for a squid that waits
\* for clamav.
Stuck(s) == \/ s \in NeedsCa /\ ~Ca!Usable
            \/ s = "clamav" /\ proxied /\ left > 0
Recovers == <>[](\A s \in Services : Started(s) => box[s] = "serving" \/ Stuck(s))

\* clamav as the stack sees it.
ClamavLife == IF Running("clamav") THEN box["clamav"] ELSE "down"
Clamav == INSTANCE ClamavService WITH life <- ClamavLife, stocked <- left = 0

\* It is no more than ClamavService promises, as the container of clamav
\* (ClamavContainer) does in detail.
ClamavAsPromised == Clamav!Spec
=============================================================================
