-------------------------- MODULE ServiceLifecycle --------------------------
(***************************************************************************)
(* What the entrypoints of the squid and c-icap containers promise of the  *)
(* service they exec, stripped of how they do it: its pid file is a lock   *)
(* that the death of a container can leave behind ("stale"); the program   *)
(* is only launched once the lock is free, and keeps it while it runs.     *)
(* Without that promise the program takes its predecessor's number for a   *)
(* running instance and leaves ("already running").                        *)
(***************************************************************************)
VARIABLES
  phase,   \* of the main process of the container
  lock     \* the pid file the program uses, or is about to use

vars == <<phase, lock>>

TypeOK == /\ phase \in {"down", "preparing", "launched", "running"}
          /\ lock \in {"free", "stale", "held"}

Init == phase = "down" /\ lock = "free"

\* The container starts; a tmpfs starts empty.
Boot == /\ phase = "down"
        /\ phase' = "preparing"
        /\ lock' \in {lock, "free"}

\* The entrypoint clears what the previous container left.
Clear == /\ phase = "preparing"
         /\ lock' = "free"
         /\ UNCHANGED phase

Launch == /\ phase = "preparing"
          /\ lock = "free"
          /\ phase' = "launched"
          /\ UNCHANGED lock

Acquire == /\ phase = "launched"
           /\ lock = "free"
           /\ phase' = "running"
           /\ lock' = "held"

\* The entrypoint or the program gives up before it runs, or is killed.
Abort == /\ phase \in {"preparing", "launched"}
         /\ phase' = "down"
         /\ UNCHANGED lock

\* The program ends, cleanly or not.
Finish == /\ phase = "running"
          /\ phase' = "down"
          /\ lock' \in {"free", "stale"}

\* With no program running the operator names another pid file.
Repoint == /\ phase = "down"
           /\ lock' \in {"free", "stale"}
           /\ UNCHANGED phase

Next == Boot \/ Clear \/ Launch \/ Acquire \/ Abort \/ Finish \/ Repoint

Spec == Init /\ [][Next]_vars
=============================================================================
