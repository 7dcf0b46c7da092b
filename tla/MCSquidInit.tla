---------------------------- MODULE MCSquidInit ----------------------------
(***************************************************************************)
(* Instances of SquidInit for TLC.                                         *)
(***************************************************************************)
EXTENDS SquidInit, TLC

CONSTANTS run_pid, other_pid    \* two pid files

Config(pid, eff, bump, cache) ==
  [file |-> "good", pid |-> pid, eff |-> eff, bump |-> bump, cache |-> cache]

Broken == [Config(run_pid, run_pid, TRUE, "rock") EXCEPT !.file = "broken"]
Unreadable == [Broken EXCEPT !.file = "unreadable"]

\* The configurations the repository ships: a rock cache with SSL bump
\* (squid-explicit.conf), without (squid-transparent.conf), and no cache with
\* SSL bump (squid-vyos.conf), all with the compiled-in pid file.
Explicit == Config(run_pid, run_pid, TRUE, "rock")
Transparent == Config(run_pid, run_pid, FALSE, "rock")
VyOS == Config(run_pid, run_pid, TRUE, "none")

\* And what an operator may make of them.
Elsewhere == Config(other_pid, other_pid, TRUE, "none")
NoPidFile == Config(NoPath, NoPath, FALSE, "rock")
Ufs == Config(run_pid, run_pid, FALSE, "ufs")

PidConfigs == {VyOS, Elsewhere, NoPidFile, Broken}
ThePaths == {run_pid, other_pid}
NoPaths == {}
RunOnTmpfs == {run_pid}    \* docker-compose.yml: tmpfs /run
UfsThenRock == {Ufs, Transparent}
LiveConfigs == {Explicit, Ufs, Unreadable, Elsewhere}

Symmetry == Permutations(Pids)
=============================================================================
