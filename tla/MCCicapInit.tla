---------------------------- MODULE MCCicapInit ----------------------------
(***************************************************************************)
(* Instances of CicapInit for TLC.                                         *)
(***************************************************************************)
EXTENDS CicapInit, TLC

CONSTANTS default_pid, other_pid    \* two pid files

Config(readable, directives) == [readable |-> readable, directives |-> directives]

ThePaths == {default_pid, other_pid}
\* The default by name, as shipped, and left unsaid; another path; both.
Shipped == Config(TRUE, <<default_pid>>)
Unsaid == Config(TRUE, <<>>)
Elsewhere == Config(TRUE, <<other_pid>>)
Twice == Config(TRUE, <<default_pid, other_pid>>)

TheConfigs == {Shipped, Unsaid, Elsewhere, Twice}
WithUnreadable == {Shipped, Elsewhere, Config(FALSE, <<default_pid>>)}

Symmetry == Permutations(Pids)
=============================================================================
