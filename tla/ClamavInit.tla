---------------------------- MODULE ClamavInit ----------------------------
(***************************************************************************)
(* The entrypoint of the clamav container, clamav/init.go: the signatures  *)
(* it downloads into the clamav_db volume when there are none, the         *)
(* freshclam daemon it leaves behind and the clamd it execs.  freshclam    *)
(* and clamd are modelled from how init.go starts them and from            *)
(* clamav/conf: freshclam replaces one file at a time, and tells clamd.    *)
(***************************************************************************)
EXTENDS Naturals

CONSTANTS
  Files,       \* the signature files freshclam maintains
  MaxFaults    \* bound: kills, failures of a command, losses of the mirror

ASSUME FilesAssumption == Files # {}
ASSUME FaultsAssumption == MaxFaults \in Nat

VARIABLES
  pc,       \* of the container's main process
  vol,      \* can the clamav user write to clamav_db?
  db,       \* the signature files in clamav_db
  engine,   \* those clamd works with
  updater,  \* does the freshclam daemon run?
  mirror,   \* does database.clamav.net answer?
  faults    \* faults so far

vars == <<pc, vol, db, engine, updater, mirror, faults>>

Init ==
  /\ pc = "down"
  /\ vol \in {"ok", "fixable", "denied"}
  /\ db = {} /\ engine = {}
  /\ updater = FALSE
  /\ mirror \in BOOLEAN
  /\ faults = 0

NoFault == UNCHANGED faults
Fault == faults < MaxFaults /\ faults' = faults + 1

\* With the main process the container ends, its daemon and clamd's memory too.
End == pc' = "down" /\ updater' = FALSE /\ engine' = {}

StartContainer ==
  /\ pc = "down"
  /\ pc' = "check"
  /\ UNCHANGED <<vol, db, engine, updater, mirror, faults>>

FixVolume ==
  /\ vol # "ok"
  /\ vol' = "ok"
  /\ UNCHANGED <<pc, db, engine, updater, mirror, faults>>

MirrorChanges ==
  /\ mirror' = ~mirror
  /\ IF mirror THEN Fault ELSE NoFault
  /\ UNCHANGED <<pc, vol, db, engine, updater>>

Kill == pc # "down" /\ Fault /\ End /\ UNCHANGED <<vol, db, mirror>>

Chowned == "ok"

EnsureWritable ==
  /\ pc = "check"
  /\ IF vol = "denied" THEN End /\ UNCHANGED vol
                       ELSE pc' = "look" /\ vol' = Chowned /\ UNCHANGED <<engine, updater>>
  /\ UNCHANGED <<db, mirror, faults>>

Always == TRUE                 \* mutant: the answer of hasSignatures ignored
HasSignatures == db # {}       \* a .cvd or a .cld file, whichever

LookForSignatures ==
  /\ pc = "look"
  /\ pc' = IF HasSignatures THEN "daemon" ELSE "download"
  /\ UNCHANGED <<vol, db, engine, updater, mirror, faults>>

\* freshclam in the foreground: one file after another, success when all are
\* there; what was complete before a failure stays.
Download ==
  /\ pc = "download"
  /\ \/ /\ mirror /\ NoFault /\ db # Files
        /\ \E f \in Files \ db : db' = db \cup {f}
        /\ UNCHANGED <<pc, engine, updater>>
     \/ db = Files /\ NoFault /\ pc' = "daemon" /\ UNCHANGED <<db, engine, updater>>
     \/ ~mirror /\ NoFault /\ End /\ UNCHANGED db
     \/ Fault /\ End /\ UNCHANGED db
  /\ UNCHANGED <<vol, mirror>>

\* A daemon that does not start is only warned about.
StartUpdater ==
  /\ pc = "daemon"
  /\ pc' = "exec"
  /\ \/ NoFault /\ updater' = TRUE
     \/ Fault /\ UNCHANGED updater
  /\ UNCHANGED <<vol, db, engine, mirror>>

\* clamd loads what is there, and leaves when there is nothing.
StartClamd ==
  /\ pc = "exec"
  /\ \/ db # {} /\ NoFault /\ pc' = "listening" /\ engine' = db /\ UNCHANGED updater
     \/ (IF db = {} THEN NoFault ELSE Fault) /\ End
  /\ UNCHANGED <<vol, db, mirror>>

\* An hourly check of the daemon.
Update ==
  /\ updater /\ mirror
  /\ \E f \in Files \ db : db' = db \cup {f}
  /\ UNCHANGED <<pc, vol, engine, updater, mirror, faults>>

Unnotified == engine           \* mutant: clamd keeps what it loaded first
Reloaded == db

\* NotifyClamd after an update; SelfCheck every ten minutes.
Reload ==
  /\ pc = "listening" /\ engine # db
  /\ engine' = Reloaded
  /\ UNCHANGED <<pc, vol, db, updater, mirror, faults>>

\* Nobody starts the daemon again.
UpdaterEnds ==
  /\ updater /\ Fault
  /\ updater' = FALSE
  /\ UNCHANGED <<pc, vol, db, engine, mirror>>

Run == \/ EnsureWritable \/ LookForSignatures \/ Download \/ StartUpdater \/ StartClamd

Next == \/ Run \/ StartContainer \/ FixVolume \/ MirrorChanges \/ Kill
        \/ Update \/ Reload \/ UpdaterEnds

Spec == Init /\ [][Next]_vars

\* The processes run, the restart policy starts the container again
\* (docker-compose.yml: restart: unless-stopped), freshclam checks every hour.
Fairness == /\ WF_vars(StartContainer) /\ WF_vars(Run)
            /\ WF_vars(Update) /\ WF_vars(Reload)
-----------------------------------------------------------------------------
\* Every variable keeps its type.
TypeOK ==
  /\ pc \in {"down", "check", "look", "download", "daemon", "exec", "listening"}
  /\ vol \in {"ok", "fixable", "denied"}
  /\ db \subseteq Files /\ engine \subseteq Files
  /\ updater \in BOOLEAN /\ mirror \in BOOLEAN
  /\ faults \in 0..MaxFaults

\* clamd is only started over signatures, and listens with some: it never
\* loops on an empty database (init.go:195-211).
NeverWithoutSignatures ==
  /\ pc \in {"daemon", "exec"} => db # {}
  /\ pc = "listening" => engine # {}

\* Once the mirror answers for good and clamav_db is writable, clamd listens
\* for good: an interrupted download or a lost mirror only delays it.
Recovers == <>[](mirror /\ vol = "ok") => <>[](pc = "listening")

\* Then, as long as its daemon runs, clamd ends up with every signature file,
\* also when the first download was cut short and the next start took it for
\* complete (init.go:200).
EndsComplete == <>[](mirror /\ vol = "ok" /\ updater) => <>[](engine = Files)
=============================================================================
