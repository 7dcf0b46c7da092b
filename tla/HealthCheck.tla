---------------------------- MODULE HealthCheck ----------------------------
(***************************************************************************)
(* `init --healthcheck`, healthcheck() of the three init.go, and Docker    *)
(* around it: a connection to the service of the same container, one       *)
(* request, and the first line of the answer, or what one read returns of  *)
(* it.  The probe of squid and of c-icap looks for "200" in a line, that   *)
(* of clamav for "PONG" in one read.  The answer is counted in parts: the  *)
(* word looked for may be cut in two, and the end of the line comes last.  *)
(* Docker's verdict is modelled from the HEALTHCHECK of the Dockerfiles.   *)
(***************************************************************************)
EXTENDS Naturals

CONSTANT ByLine    \* reads a line (squid, c-icap), or only once (clamav)

DialLimit == 2     \* seconds a connection may take
ReadLimit == 2     \* seconds the dialogue may then take
Timeout == 5       \* seconds after which Docker kills the probe
Retries == 3       \* failures in a row that make the container unhealthy

VARIABLES
  up,        \* does the container run?
  serving,   \* does its service listen?
  answers,   \* how the service answers now
  probe,     \* "none", "dialing" or "reading"
  spent,     \* seconds since the probe began
  limit,     \* the second at which the deadline of its connection falls
  got,       \* parts of the answer it has read
  grace,     \* does a failure not count yet (start period)?
  failed,    \* failures in a row
  health     \* Docker's verdict

dialogue == <<probe, spent, limit, got>>
verdict == <<grace, failed, health>>
hvars == <<answers, probe, spent, limit, got, grace, failed, health>>

\* The right answer at once, or in pieces; nothing; another answer.
Manners == {"whole", "pieces", "late", "wrong"}

NeverComes == 4    \* mutant: a word the answer does not hold
WordEnd == 2       \* the parts that hold the word looked for: "200", "PONG"
LineEnd == 3       \* all of the line

Init ==
  /\ up = FALSE /\ serving = FALSE
  /\ answers \in Manners
  /\ probe = "none" /\ spent = 0 /\ limit = 0 /\ got = 0
  /\ grace = TRUE /\ failed = 0 /\ health = "starting"

Idle == probe' = "none" /\ spent' = 0 /\ limit' = 0 /\ got' = 0
Fresh == grace' = TRUE /\ failed' = 0 /\ health' = "starting"
Ended == grace' = TRUE /\ failed' = 0 /\ health' \in {"starting", "unhealthy"}

\* A probe ends with its container, which nobody calls healthy any more; the
\* verdict starts anew with the next.
Follow ==
  /\ IF up' = up THEN UNCHANGED <<dialogue, verdict>>
     ELSE Idle /\ IF up' THEN Fresh ELSE Ended
  /\ UNCHANGED answers

\* The container starts and ends, and its service listens and stops as it likes.
Container ==
  /\ up' \in BOOLEAN /\ serving' \in BOOLEAN
  /\ serving' => up'
  /\ Follow

AnswersChange ==
  /\ answers' \in Manners \ {answers}
  /\ UNCHANGED <<dialogue, verdict>>

GraceEnds ==
  /\ up /\ grace
  /\ grace' = FALSE
  /\ UNCHANGED <<answers, dialogue, failed, health>>
-----------------------------------------------------------------------------
(***************************************************************************)
(* The probe, and what Docker makes of its exit status.                    *)
(***************************************************************************)
Judge(ok) ==
  IF ok
    THEN grace' = FALSE /\ failed' = 0 /\ health' = "healthy"
    ELSE IF grace
      THEN UNCHANGED verdict
      ELSE /\ failed' = IF failed = Retries THEN failed ELSE failed + 1
           /\ health' = IF failed' = Retries THEN "unhealthy" ELSE health
           /\ UNCHANGED grace

Finish(ok) == Idle /\ Judge(ok) /\ UNCHANGED answers

Begin ==
  /\ up /\ probe = "none"
  /\ probe' = "dialing"
  /\ UNCHANGED <<answers, spent, limit, got, verdict>>

NoDeadline == Timeout              \* mutant: SetDeadline left out
Deadline == spent + ReadLimit      \* set once connected, for all that follows

Connect ==
  /\ probe = "dialing" /\ serving
  /\ probe' = "reading" /\ limit' = Deadline
  /\ UNCHANGED <<answers, spent, got, verdict>>

Ignored == TRUE                    \* mutant: the error of the dial ignored
DialError == FALSE

DialFails ==
  /\ probe = "dialing"
  /\ ~serving \/ spent = DialLimit
  /\ Finish(DialError)

OneRead == FALSE                   \* mutant: one read for every probe
ReadsOn == ByLine

\* A read returns what has come; a scan reads on to the end of the line.
Receive ==
  /\ probe = "reading" /\ answers \in {"whole", "pieces"}
  /\ \E n \in (got + 1) .. LineEnd :
       /\ answers = "whole" => n = LineEnd
       /\ IF ReadsOn /\ n < LineEnd
            THEN got' = n /\ UNCHANGED <<answers, probe, spent, limit, verdict>>
            ELSE Finish(n >= WordEnd)

\* Another answer, the deadline, or the end of the connection, with that of the
\* service too: a scan then returns the piece of a line it has.
ReadFails ==
  /\ probe = "reading"
  /\ answers \in {"late", "wrong"} \/ ~serving
  /\ Finish(ByLine /\ got >= WordEnd)

\* A service that answers does so within the second.
Tick ==
  /\ answers = "late"
  /\ \/ probe = "dialing" /\ spent < DialLimit
     \/ probe = "reading" /\ spent < limit
  /\ spent' = spent + 1
  /\ UNCHANGED <<answers, probe, limit, got, verdict>>

Step == Begin \/ Connect \/ DialFails \/ Receive \/ ReadFails \/ Tick

Docker == Step \/ AnswersChange \/ GraceEnds

Next == Container \/ (Docker /\ UNCHANGED <<up, serving>>)

Spec == Init /\ [][Next]_<<up, serving, hvars>>

\* Docker probes a container that runs, and the probe runs to its end.
Fairness == WF_hvars(Step) /\ WF_hvars(GraceEnds)
-----------------------------------------------------------------------------
\* Every variable keeps its type; and a probe ends by itself before Docker's
\* timeout would kill it, its dial and its dialogue taken together, whatever
\* the service does (healthcheck(): DialTimeout, SetDeadline).
ProbeOK ==
  /\ up \in BOOLEAN /\ serving \in BOOLEAN
  /\ answers \in Manners
  /\ probe \in {"none", "dialing", "reading"}
  /\ spent \in 0 .. (Timeout - 1) /\ limit \in Nat
  /\ got \in 0 .. (LineEnd - 1)
  /\ grace \in BOOLEAN /\ failed \in 0..Retries
  /\ health \in {"starting", "healthy", "unhealthy"}

\* The service, once it listens, does so until its container ends, as squid, c-icap
\* and clamd do in the modules of their entrypoints: not so for every service.
KeepsListening == up /\ up' /\ serving => serving'
Steady == [][KeepsListening]_<<up, serving>>

\* Docker only calls the container of a steady service healthy while it listens: a
\* probe that passed did so in this life of the container, over a connection.
HealthyMeansServing == health = "healthy" => serving

\* What each probe understands: a line however it is cut; in one read, only an
\* answer that comes whole.
Understood == IF ByLine THEN {"whole", "pieces"} ELSE {"whole"}

\* The verdict follows the service: one that keeps answering is healthy in the
\* end and stays so, one that keeps silent, answers something else or does not
\* listen ends up unhealthy.
HealthFollows ==
  /\ <>[](serving /\ answers \in Understood) => <>[](health = "healthy")
  /\ <>[](up /\ (serving => answers \in {"late", "wrong"})) => <>[](health = "unhealthy")
=============================================================================
