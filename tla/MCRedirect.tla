----------------------------- MODULE MCRedirect -----------------------------
(***************************************************************************)
(* The instance of Redirect for TLC: two connections to one of the ports,  *)
(* and one to the other.                                                   *)
(***************************************************************************)
EXTENDS Redirect

TheClients == {"browser", "updater", "api"}
TheService == [c \in TheClients |-> IF c = "updater" THEN "http" ELSE "https"]
=============================================================================
