------------------------------ MODULE MCStack ------------------------------
(***************************************************************************)
(* Instances of Stack for TLC.  The ports are those of docker-compose.yml. *)
(***************************************************************************)
EXTENDS Stack, TLC

ThePorts == {3127, 3128, 3129, 3130}
ExplicitOnly == [s \in {"squid-explicit"} |-> {3128, 3129}]
TwoProfiles == "squid-transparent" :> {3128, 3127}
            @@ "squid-explicit"    :> {3128, 3129}

BumpingOne == {"squid-explicit"}

OneOrAll == {{s} : s \in Squids} \cup {Squids}

\* "le 1er freshclam prend 5-15 min" (README.md:234).
FiveToFifteenMinutes == 10..30
\* At once, the last interval that is in time and the first that is not.
AroundTheLimit == {0, StartPeriod + Retries - 1, StartPeriod + Retries}
=============================================================================
