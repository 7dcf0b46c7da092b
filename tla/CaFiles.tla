------------------------------ MODULE CaFiles ------------------------------
(***************************************************************************)
(* scripts/generate-ca.sh and the files of certs/: the key and certificate *)
(* openssl makes, the bump.pem squid reads, which holds both, and          *)
(* dhparam.pem.  The script writes one after the other and may be cut      *)
(* short in between; it refuses to run while there is a bump.pem.  One     *)
(* script runs at a time.                                                  *)
(***************************************************************************)
EXTENDS Naturals

VARIABLES
  script,  \* the file it writes next; "idle"
  key,     \* bump.key and
  crt,     \* bump.crt: the generation they are of, 0 when absent
  pem,     \* bump.pem: is it there, the key and the certificate it holds
  dh       \* is dhparam.pem there?

cavars == <<script, key, crt, pem, dh>>

\* A generation is one run of openssl req; as many as the files can hold, and one.
Generations == 1..5

Init ==
  /\ script = "idle"
  /\ key = 0 /\ crt = 0
  /\ pem = [there |-> FALSE, key |-> 0, crt |-> 0]
  /\ dh = FALSE

NeverRefuses == FALSE        \* mutant: the test of bump.pem left out
Refuses == pem.there

Start ==
  /\ script = "idle" /\ ~Refuses
  /\ script' = "key"
  /\ UNCHANGED <<key, crt, pem, dh>>

\* openssl req: the key, then the certificate made with it.
WriteKey ==
  /\ script = "key"
  /\ script' = "crt"
  /\ key' = CHOOSE g \in Generations : g \notin {key, crt, pem.key, pem.crt}
  /\ UNCHANGED <<crt, pem, dh>>

WriteCrt ==
  /\ script = "crt"
  /\ script' = "open"
  /\ crt' = key
  /\ UNCHANGED <<key, pem, dh>>

\* The redirection creates or empties bump.pem before cat fills it.
OpenPem ==
  /\ script = "open"
  /\ script' = "fill"
  /\ pem' = [there |-> TRUE, key |-> 0, crt |-> 0]
  /\ UNCHANGED <<key, crt, dh>>

FillPem ==
  /\ script = "fill"
  /\ script' = "dh"
  /\ pem' = [there |-> TRUE, key |-> key, crt |-> crt]
  /\ UNCHANGED <<key, crt, dh>>

\* openssl dhparam takes minutes, and writes the file at the end.
WriteDh ==
  /\ script = "dh"
  /\ script' = "idle"
  /\ dh' = TRUE
  /\ UNCHANGED <<key, crt, pem>>

Write == WriteKey \/ WriteCrt \/ OpenPem \/ FillPem \/ WriteDh

\* A signal, a full disk, a failed openssl: set -e ends the script.
Cut ==
  /\ script # "idle"
  /\ script' = "idle"
  /\ UNCHANGED <<key, crt, pem, dh>>

\* The operator deletes or renames bump.pem, as the script asks for.
Remove ==
  /\ pem.there /\ script = "idle"
  /\ pem' = [there |-> FALSE, key |-> 0, crt |-> 0]
  /\ UNCHANGED <<script, key, crt, dh>>

Next == Start \/ Write \/ Cut \/ Remove

Spec == Init /\ [][Next]_cavars
-----------------------------------------------------------------------------
\* Every variable keeps its type.
TypeOK ==
  /\ script \in {"idle", "key", "crt", "open", "fill", "dh"}
  /\ key \in Generations \cup {0} /\ crt \in Generations \cup {0}
  /\ pem \in [there : BOOLEAN, key : Generations \cup {0}, crt : Generations \cup {0}]
  /\ dh \in BOOLEAN

\* squid starts with a bump.pem that holds its key and certificate, and a dhparam.pem.
Whole == pem.there /\ pem.key # 0 /\ pem.crt # 0
Usable == Whole /\ dh

\* However often the script is cut short, run again or told to start anew: what
\* bump.pem holds is one key with its own certificate, and that certificate is
\* the bump.crt the clients are given (generate-ca.sh:29-33 against overwriting).
Matches == Whole => pem.key = pem.crt /\ crt = pem.crt /\ key = pem.key
=============================================================================
