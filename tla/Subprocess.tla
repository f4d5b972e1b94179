----------------------------- MODULE Subprocess -----------------------------
(***************************************************************************)
(* createSubprocess() of termux.c: the app's process opens a               *)
(* pseudo terminal and forks; the child makes the terminal's slave its     *)
(* own, closes what it has inherited and becomes the shell.                *)
(*                                                                         *)
(* A process is its table of file descriptors.  The app's other threads    *)
(* open and close files between any two steps of it, and a child that has  *)
(* been forked for one session holds copies of the masters of the others.  *)
(* Tables are full at Limit descriptors.                                   *)
(***************************************************************************)
EXTENDS Naturals

CONSTANTS
  Sessions,   \* the terminal sessions that are created
  Limit       \* descriptors that a process may have

ASSUME SessionsAssumption == Sessions # {} /\ Limit \in Nat /\ Limit > 3

VARIABLES
  app,      \* the app's table: what each of its descriptors refers to
  fds,      \* the children's tables
  step,     \* how far createSubprocess() is, for each session
  pc,       \* how far the child is
  leader,   \* whether the child leads a session of processes
  tty,      \* whether its slave is that session's controlling terminal
  dir       \* the descriptor of /proc/self/fd, None, or Failed

vars == <<app, fds, step, pc, leader, tty, dir>>
child == <<fds, pc, leader, tty, dir>>

Fds == 0 .. Limit - 1
Standard == 0..2
None == Limit
Failed == Limit + 1

\* What a descriptor refers to: nothing, /dev/null, a file of the app, a pseudo
\* terminal's master or slave, a directory.
Closed == <<"closed">>
DevNull == <<"null">>
File == <<"file">>
Directory == <<"directory">>
Master(s) == <<"master", s>>
Slave(s) == <<"slave", s>>
Masters == {Master(s) : s \in Sessions}

\* open() takes the lowest descriptor that is free.
IsLowest(table, f) ==
  table[f] = Closed /\ \A g \in Fds : table[g] = Closed => f <= g
IsFull(table) == \A f \in Fds : table[f] # Closed
Set(f, file) == [app EXCEPT ![f] = file]

\* What is closed at execvp(): O_CLOEXEC.  The app's other files are opened without.
NoCloexec == {}
Cloexec == Masters
-----------------------------------------------------------------------------
(* The app.                                                                   *)

Goes(s, to) == step' = [step EXCEPT ![s] = to]
Fails(s) == Goes(s, "failed") /\ UNCHANGED <<app, child>>

\* open("/dev/ptmx", O_RDWR | O_CLOEXEC).  One thread creates sessions.
OpenPtmx(s) ==
  /\ step[s] = "none" /\ \A r \in Sessions : step[r] # "opened"
  /\ \/ \E f \in Fds : IsLowest(app, f) /\ app' = Set(f, Master(s)) /\ Goes(s, "opened")
     \/ IsFull(app) /\ Goes(s, "failed") /\ app' = app
  /\ UNCHANGED child

\* grantpt(), unlockpt(), ptsname_r() or fork() fails: the master stays open.
SetupFails(s) == step[s] = "opened" /\ Fails(s)

Fork(s) ==
  /\ step[s] = "opened" /\ Goes(s, "forked")
  /\ fds' = [fds EXCEPT ![s] = app]
  /\ pc' = [pc EXCEPT ![s] = "close"]
  /\ UNCHANGED <<app, leader, tty, dir>>

\* JNI.close(), after waitFor() has returned.
CloseMaster(s) ==
  /\ step[s] = "forked" /\ pc[s] = "dead" /\ Goes(s, "closed")
  /\ app' = [f \in Fds |-> IF app[f] = Master(s) THEN Closed ELSE app[f]]
  /\ UNCHANGED child

OtherThreadOpens ==
  /\ \E f \in Fds : IsLowest(app, f) /\ app' = Set(f, File)
  /\ UNCHANGED <<step, child>>
OtherThreadCloses ==
  /\ \E f \in Fds : app[f] = File /\ app' = Set(f, Closed)
  /\ UNCHANGED <<step, child>>
-----------------------------------------------------------------------------
(* The child.                                                                 *)

Step(s, from, to) == pc[s] = from /\ pc' = [pc EXCEPT ![s] = to]
Becomes(s, table) == fds' = [fds EXCEPT ![s] = table]
Exit(s) ==
  /\ pc' = [pc EXCEPT ![s] = "dead"]
  /\ Becomes(s, [f \in Fds |-> Closed])
  /\ UNCHANGED <<leader, tty, dir>>

\* close(ptm).
CloseOwnMaster(s) ==
  /\ Step(s, "close", "setsid")
  /\ Becomes(s, [f \in Fds |-> IF fds[s][f] = Master(s) THEN Closed ELSE fds[s][f]])
  /\ UNCHANGED <<app, step, leader, tty, dir>>
Setsid(s) ==
  /\ Step(s, "setsid", "open")
  /\ leader' = [leader EXCEPT ![s] = TRUE]
  /\ UNCHANGED <<app, fds, step, tty, dir>>

\* open(devname): the first terminal that a leader opens controls its session.
OpenSlave(s) ==
  /\ pc[s] = "open"
  /\ \/ /\ pc' = [pc EXCEPT ![s] = "dup"]
        /\ \E f \in Fds : IsLowest(fds[s], f) /\ Becomes(s, [fds[s] EXCEPT ![f] = Slave(s)])
        /\ tty' = [tty EXCEPT ![s] = leader[s]]
        /\ UNCHANGED <<leader, dir>>
     \/ IsFull(fds[s]) /\ Exit(s)
  /\ UNCHANGED <<app, step>>

\* dup2(pts, 0), dup2(pts, 1), dup2(pts, 2).
Dup2(s) ==
  /\ Step(s, "dup", "list")
  /\ Becomes(s, [f \in Fds |-> IF f \in Standard THEN Slave(s) ELSE fds[s][f]])
  /\ UNCHANGED <<app, step, leader, tty, dir>>

\* opendir("/proc/self/fd"); without a descriptor for it nothing is closed.
OpenDir(s) ==
  /\ \/ /\ Step(s, "list", "closing")
        /\ \E f \in Fds :
             /\ IsLowest(fds[s], f)
             /\ Becomes(s, [fds[s] EXCEPT ![f] = Directory])
             /\ dir' = [dir EXCEPT ![s] = f]
     \/ /\ IsFull(fds[s]) /\ Step(s, "list", "exec")
        /\ dir' = [dir EXCEPT ![s] = Failed] /\ UNCHANGED fds
  /\ UNCHANGED <<app, step, leader, tty>>

\* The loop around readdir(), and closedir().
Leftover(s) == {f \in Fds \ (Standard \cup {dir[s]}) : fds[s][f] # Closed}
CloseEntry(s) ==
  /\ pc[s] = "closing"
  /\ \E f \in Leftover(s) : Becomes(s, [fds[s] EXCEPT ![f] = Closed])
  /\ UNCHANGED <<app, step, pc, leader, tty, dir>>
CloseDirIf(s, finished) ==
  /\ finished /\ Step(s, "closing", "exec")
  /\ Becomes(s, [fds[s] EXCEPT ![dir[s]] = Closed])
  /\ dir' = [dir EXCEPT ![s] = None]
  /\ UNCHANGED <<app, step, leader, tty>>
CloseDirAtOwnSlave(s) == CloseDirIf(s, \A f \in Leftover(s) : fds[s][f] # Slave(s))
CloseDir(s) == CloseDirIf(s, Leftover(s) = {})

\* execvp(), or _exit(1) after a message on the terminal.
Exec(s) ==
  /\ \/ /\ Step(s, "exec", "shell")
        /\ Becomes(s, [f \in Fds |-> IF fds[s][f] \in Cloexec THEN Closed ELSE fds[s][f]])
        /\ UNCHANGED <<leader, tty, dir>>
     \/ pc[s] = "exec" /\ Exit(s)
  /\ UNCHANGED <<app, step>>
ShellExits(s) ==
  /\ pc[s] = "shell" /\ Exit(s)
  /\ UNCHANGED <<app, step>>
-----------------------------------------------------------------------------
Init ==
  /\ app = [f \in Fds |-> IF f \in Standard THEN DevNull ELSE Closed]
  /\ fds = [s \in Sessions |-> [f \in Fds |-> Closed]]
  /\ step = [s \in Sessions |-> "none"] /\ pc = [s \in Sessions |-> "none"]
  /\ leader = [s \in Sessions |-> FALSE] /\ tty = [s \in Sessions |-> FALSE]
  /\ dir = [s \in Sessions |-> None]

Child(s) ==
  \/ CloseOwnMaster(s) \/ Setsid(s) \/ OpenSlave(s) \/ Dup2(s) \/ OpenDir(s)
  \/ CloseEntry(s) \/ CloseDir(s) \/ Exec(s) \/ ShellExits(s)

Next ==
  \/ \E s \in Sessions : OpenPtmx(s) \/ SetupFails(s) \/ Fork(s) \/ CloseMaster(s) \/ Child(s)
  \/ OtherThreadOpens \/ OtherThreadCloses

Spec == Init /\ [][Next]_vars
-----------------------------------------------------------------------------
(* Properties. *)

\* No shell holds a master, its own or another session's, even when its table was
\* so full that it could not list, and close, what it had inherited.
MastersArePrivate ==
  \A s \in Sessions : pc[s] = "shell" =>
    \A f \in Fds : fds[s][f] \notin Masters

\* A shell reads and writes its own terminal, which controls its session, and it
\* has inherited nothing else, unless the directory of its descriptors could not be
\* opened: then the app's files are left to it, but no terminal that is not its own.
ShellHasItsTerminal ==
  \A s \in Sessions : pc[s] = "shell" =>
    /\ tty[s]
    /\ \A f \in Standard : fds[s][f] = Slave(s)
    /\ \A f \in Fds \ Standard :
         \/ fds[s][f] = Closed
         \/ dir[s] = Failed /\ fds[s][f] \in {File, DevNull, Slave(s)}
=============================================================================
