----------------------------- MODULE SetupDirs -----------------------------
(***************************************************************************)
(* `init --setup-dirs`, setupDirs() of the three init.go: the last step of *)
(* the build of each image, run by root over a table of directories, three *)
(* system calls for each of them.  A path is the sequence of its names, an *)
(* owner root or the user the container runs as, a mode its octal digits   *)
(* read as a number, a file system a function from the paths there are.    *)
(***************************************************************************)
EXTENDS Naturals, Sequences

CONSTANT Tables    \* the tables of directories: Images, those of the images

Row(path, mode, owner) == [path |-> path, mode |-> mode, owner |-> owner]
Dir(mode, owner) == [mode |-> mode, owner |-> owner]

Squid == <<
  Row(<<"var">>, 755, "root"), Row(<<"var", "lib">>, 755, "root"),
  Row(<<"var", "log">>, 755, "root"), Row(<<"var", "spool">>, 755, "root"),
  Row(<<"var", "log", "squid">>, 755, "user"),
  Row(<<"var", "spool", "squid">>, 755, "user"),
  Row(<<"var", "lib", "ssl_db">>, 750, "user"), Row(<<"run">>, 755, "user"),
  Row(<<"etc", "squid", "ssl_cert">>, 755, "user"), Row(<<"tmp">>, 1777, "root") >>

Cicap == <<
  Row(<<"var">>, 755, "root"), Row(<<"var", "log">>, 755, "root"),
  Row(<<"var", "log", "c-icap">>, 755, "user"),
  Row(<<"run", "c-icap">>, 755, "user"), Row(<<"tmp">>, 1777, "root") >>

Clamav == <<
  Row(<<"var">>, 755, "root"), Row(<<"var", "lib">>, 755, "root"),
  Row(<<"var", "log">>, 755, "root"),
  Row(<<"var", "lib", "clamav">>, 750, "user"),
  Row(<<"var", "log", "clamav">>, 750, "user"),
  Row(<<"run", "clamav">>, 755, "user"), Row(<<"tmp">>, 1777, "root") >>

Images == {Squid, Cicap, Clamav}

Modes == {700, 750, 755, 777, 1777}
Owners == {"root", "user"}
RowType == [path : Seq(STRING), mode : Modes, owner : Owners]

\* A number is no os.FileMode: 01777 sets a bit that os.Chmod and os.Mkdir leave
\* out, the sticky bit has another name (os.ModeSticky).
Perm(mode) == mode % 1000

\* The umask of the build, 022, on a directory that is created.
Created(mode) == IF Perm(mode) = 777 THEN 755 ELSE Perm(mode)

Prefixed(path) == {path} \cup {SubSeq(path, 1, n) : n \in 1 .. (Len(path) - 1)}

Named(table) == {table[i].path : i \in 1..Len(table)}

\* What a directory lets others than its owner do.
Others(mode) == CASE mode \in {777, 1777} -> {"enter", "write"}
                  [] mode = 755            -> {"enter"}
                  [] OTHER                 -> {}

\* May the user of the container pass through the directory?
UserEnters(dir) == dir.owner = "user" \/ "enter" \in Others(dir.mode)

\* No directory comes twice; and on the way to one of the user's, a directory has
\* a row that lets the user pass, or only rows below it that create it so.
Sound(table) ==
  /\ table \in Seq(RowType)
  /\ \A i, j \in 1..Len(table) : table[i].path = table[j].path => i = j
  /\ \A i \in 1..Len(table) : table[i].owner = "user" =>
       \A p \in Prefixed(table[i].path) :
         \A j \in 1..Len(table) :
           /\ table[j].path = p => UserEnters(Dir(Perm(table[j].mode), table[j].owner))
           /\ p \in Prefixed(table[j].path) \ Named(table)
                => UserEnters(Dir(Created(table[j].mode), "root"))

ASSUME TablesAssumption == \A table \in Tables : table # <<>> /\ Sound(table)

VARIABLES
  table,   \* the table of the image that is built
  row,     \* the turn of the loop
  call,    \* its next system call, or "done" or "failed"
  fs       \* the directories

setupVars == <<table, row, call, fs>>

\* What the layers of an image may leave: directories with their parents, those
\* of the table open or closed to others.
Touched(t) == UNION {Prefixed(p) : p \in Named(t)}
WithParents(t) == {d \in SUBSET Touched(t) : \A p \in d : Prefixed(p) \subseteq d}
Layers(t) ==
  {[p \in dirs |-> Dir(IF p \in Named(t) THEN mode ELSE 755, "root")] :
     dirs \in WithParents(t), mode \in {700, 755}}

SetupInit ==
  /\ table \in Tables
  /\ row = 1 /\ call = "mkdir"
  /\ fs \in Layers(table)
-----------------------------------------------------------------------------
WithoutParents(t) ==                 \* mutant: the rows of the parents left out
  SelectSeq(t, LAMBDA r : Len(r.path) = 1 \/ r.owner = "user")
Rows(t) == t

Path == Rows(table)[row].path
Mode == Rows(table)[row].mode
Owner == Rows(table)[row].owner

\* os.MkdirAll: what is missing on the way, with the mode asked for the last;
\* what is there stays as it is.
Mkdir ==
  /\ call = "mkdir" /\ call' = "chmod"
  /\ fs' = [p \in DOMAIN fs \cup Prefixed(Path) |->
              IF p \in DOMAIN fs THEN fs[p] ELSE Dir(Created(Mode), "root")]
  /\ UNCHANGED <<table, row>>

Chmod ==
  /\ call = "chmod" /\ call' = "chown"
  /\ fs' = [fs EXCEPT ![Path].mode = Perm(Mode)]
  /\ UNCHANGED <<table, row>>

Chown ==
  /\ call = "chown"
  /\ fs' = [fs EXCEPT ![Path].owner = Owner]
  /\ IF row < Len(Rows(table)) THEN row' = row + 1 /\ call' = "mkdir"
                               ELSE call' = "done" /\ UNCHANGED row
  /\ UNCHANGED table

\* An error ends the build: no image is made of what there is by then.
Fail ==
  /\ call \in {"mkdir", "chmod", "chown"} /\ call' = "failed"
  /\ UNCHANGED <<table, row, fs>>

SetupNext == Mkdir \/ Chmod \/ Chown \/ Fail

SetupSpec == SetupInit /\ [][SetupNext]_setupVars
-----------------------------------------------------------------------------
\* An image that is built has each directory with its owner, open to others to enter
\* and to write as far as asked, and the user of its container gets to its own, whatever
\* the layers below left: no parent, say, with the 0750 of a directory it was created
\* for (squid/init.go:150-153).  Who may remove what another has written is not in
\* it: the sticky bit of /tmp is asked for and not set.
DirsUsable ==
  call = "done" =>
    \A i \in 1..Len(table) :
      LET dir == fs[table[i].path]
      IN  /\ dir.owner = table[i].owner /\ Others(dir.mode) = Others(table[i].mode)
          /\ table[i].owner = "user" => \A p \in Prefixed(table[i].path) : UserEnters(fs[p])

\* "mkdir /tmp (mode=1777 ...)" (squid/init.go:164-167): each directory has the mode that
\* is asked for and printed.  It does not hold: /tmp comes out as 0777.
DirsAsAsked ==
  call = "done" =>
    \A i \in 1..Len(table) : fs[table[i].path] = Dir(table[i].mode, table[i].owner)
=============================================================================
