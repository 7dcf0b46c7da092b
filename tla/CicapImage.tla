----------------------------- MODULE CicapImage -----------------------------
(***************************************************************************)
(* From the build of the images to the c-icap container: --setup-dirs is   *)
(* the last step of each build, and the container's entrypoint (CicapInit) *)
(* only ever runs from the image of c-icap, once that is built.            *)
(***************************************************************************)
EXTENDS CicapInit, SetupDirs

ImageInit == Init /\ SetupInit

Building == SetupNext /\ UNCHANGED vars

Deployed == call = "done" /\ table = Cicap /\ Next /\ UNCHANGED setupVars

ImageNext == Building \/ Deployed

ImageSpec == ImageInit /\ [][ImageNext]_<<vars, setupVars>>
=============================================================================
