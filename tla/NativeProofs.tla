---------------------------- MODULE NativeProofs ----------------------------
(***************************************************************************)
(* Safety of the app's C code: what a shell has open when execvp() returns *)
(* into it, for every number of sessions and every limit on the            *)
(* descriptors of a process; and the window that copy() creates to own the *)
(* selection, which keeps the drawing thread from closing the connection   *)
(* under it, for every number of strings that are typed and whatever the   *)
(* other clients do.                                                       *)
(***************************************************************************)
EXTENDS Subprocess, Clipboard, TLAPS

-----------------------------------------------------------------------------
(* createSubprocess() of termux.c.                                           *)

\* What the app has open, and a child before it opens its slave.
Inherited == {Closed, DevNull, File} \cup Masters
Contents == Inherited \cup {Slave(s) : s \in Sessions} \cup {Directory}

LEMMA FilesDiffer ==
  ASSUME NEW s
  PROVE  /\ Slave(s) # Closed /\ Slave(s) \notin Masters
         /\ Closed \notin Masters /\ Directory # Closed
  BY DEF Slave, Closed, Masters, Master, Directory

Places == {"none", "close", "setsid", "open", "dup", "list", "closing", "exec",
           "shell", "dead"}

\* A child's table, place by place.
Table(s) ==
  /\ pc[s] \in {"close", "setsid", "open"} =>
       \A f \in Fds : fds[s][f] \in Inherited
  /\ pc[s] \in {"dup", "list", "closing"} =>
       \A f \in Fds : fds[s][f] \in Inherited \cup {Slave(s), Directory}
  /\ pc[s] \in {"dup", "list"} =>
       \A f \in Fds : fds[s][f] # Directory
  /\ pc[s] \in {"list", "closing", "exec", "shell"} =>
       \A f \in Standard : fds[s][f] = Slave(s)
  /\ pc[s] = "closing" => dir[s] \in Fds \ Standard
  /\ pc[s] \in {"exec", "shell"} =>
       \A f \in Fds \ Standard :
         \/ fds[s][f] = Closed
         \/ dir[s] = Failed /\ fds[s][f] \in Inherited \cup {Slave(s)}
  /\ pc[s] = "shell" => \A f \in Fds : fds[s][f] \notin Masters

\* Who leads a session, and whose slave controls it.
Control(s) ==
  /\ pc[s] = "open" => leader[s]
  /\ pc[s] \in {"dup", "list", "closing", "exec", "shell"} => tty[s]

TypeOK ==
  /\ app \in [Fds -> Inherited]
  /\ fds \in [Sessions -> [Fds -> Contents]]
  /\ pc \in [Sessions -> Places]
  /\ leader \in [Sessions -> BOOLEAN] /\ tty \in [Sessions -> BOOLEAN]
  /\ dir \in [Sessions -> Fds \cup {None, Failed}]

SubprocessInvariant == TypeOK /\ \A s \in Sessions : Table(s) /\ Control(s)

\* A child's step changes nothing of the other children.
OthersUntouched(s) ==
  \A r \in Sessions \ {s} :
    /\ pc'[r] = pc[r] /\ fds'[r] = fds[r] /\ dir'[r] = dir[r]
    /\ leader'[r] = leader[r] /\ tty'[r] = tty[r]

LEMMA OthersKeep ==
  ASSUME SubprocessInvariant, NEW s \in Sessions, OthersUntouched(s), TypeOK',
         Table(s)' /\ Control(s)'
  PROVE  SubprocessInvariant'
<1> SUFFICES ASSUME NEW r \in Sessions  PROVE (Table(r) /\ Control(r))'
  BY DEF SubprocessInvariant
<1>1. CASE r = s  BY <1>1
<1>2. CASE r # s
  <2>1. /\ pc'[r] = pc[r] /\ fds'[r] = fds[r] /\ dir'[r] = dir[r]
        /\ leader'[r] = leader[r] /\ tty'[r] = tty[r]
    BY <1>2 DEF OthersUntouched
  <2>2. Table(r) /\ Control(r)  BY DEF SubprocessInvariant
  <2>3. Table(r)'  BY <2>1, <2>2, Zenon DEF Table
  <2>4. Control(r)'  BY <2>1, <2>2, Zenon DEF Control
  <2> QED BY <2>3, <2>4
<1> QED BY <1>1, <1>2

-----------------------------------------------------------------------------
(* The child's steps. *)

LEMMA ChildStep ==
  ASSUME SubprocessInvariant, NEW s \in Sessions, Child(s)
  PROVE  SubprocessInvariant'
<1>0. /\ TypeOK /\ Table(s) /\ Control(s)
      /\ Limit \in Nat /\ Limit > 3
  BY SessionsAssumption DEF SubprocessInvariant
<1>1. Standard \subseteq Fds  BY <1>0 DEF Standard, Fds
<1>2. CASE CloseOwnMaster(s)
  <2> DEFINE table == [f \in Fds |-> IF fds[s][f] = Master(s) THEN Closed ELSE fds[s][f]]
  <2>1. /\ pc[s] = "close" /\ pc' = [pc EXCEPT ![s] = "setsid"]
        /\ fds' = [fds EXCEPT ![s] = table]
        /\ UNCHANGED <<app, leader, tty, dir>>
    BY <1>2, Zenon DEF CloseOwnMaster, Step, Becomes
  <2>2. table \in [Fds -> Inherited]
    BY <1>0, <2>1 DEF Table, Inherited
  <2>3. table \in [Fds -> Contents]  BY <2>2 DEF Contents
  <2> HIDE DEF table
  <2>4. pc'[s] = "setsid" /\ fds'[s] = table  BY <1>0, <2>1 DEF TypeOK
  <2>5. TypeOK'  BY <1>0, <2>1, <2>3 DEF TypeOK, Places
  <2>6. OthersUntouched(s)  BY <1>0, <2>1 DEF OthersUntouched, TypeOK
  <2>7. Table(s)'  BY <2>2, <2>4 DEF Table
  <2>8. Control(s)'  BY <2>4 DEF Control
  <2> QED BY <2>5, <2>6, <2>7, <2>8, OthersKeep
<1>3. CASE Setsid(s)
  <2>1. /\ pc[s] = "setsid" /\ pc' = [pc EXCEPT ![s] = "open"]
        /\ leader' = [leader EXCEPT ![s] = TRUE]
        /\ UNCHANGED <<app, fds, tty, dir>>
    BY <1>3, Zenon DEF Setsid, Step
  <2>2. pc'[s] = "open" /\ leader'[s]  BY <1>0, <2>1 DEF TypeOK
  <2>3. TypeOK'  BY <1>0, <2>1 DEF TypeOK, Places
  <2>4. OthersUntouched(s)  BY <1>0, <2>1 DEF OthersUntouched, TypeOK
  <2>5. Table(s)'  BY <1>0, <2>1, <2>2 DEF Table
  <2>6. Control(s)'  BY <2>2 DEF Control
  <2> QED BY <2>3, <2>4, <2>5, <2>6, OthersKeep
<1>4. ASSUME pc' = [pc EXCEPT ![s] = "dead"],
             fds' = [fds EXCEPT ![s] = [f \in Fds |-> Closed]],
             UNCHANGED <<app, leader, tty, dir>>
      PROVE  SubprocessInvariant'
  <2>1. pc'[s] = "dead"  BY <1>0, <1>4 DEF TypeOK
  <2>2. [f \in Fds |-> Closed] \in [Fds -> Contents]  BY DEF Contents, Inherited
  <2>3. TypeOK'  BY <1>0, <1>4, <2>2 DEF TypeOK, Places
  <2>4. OthersUntouched(s)  BY <1>0, <1>4 DEF OthersUntouched, TypeOK
  <2>5. Table(s)' /\ Control(s)'  BY <2>1 DEF Table, Control
  <2> QED BY <2>3, <2>4, <2>5, OthersKeep
<1>5. CASE OpenSlave(s)
  <2>1. CASE Exit(s) /\ app' = app
    BY <2>1, <1>4, Zenon DEF Exit, Becomes
  <2>2. ASSUME NEW f \in Fds, pc[s] = "open", pc' = [pc EXCEPT ![s] = "dup"],
               fds' = [fds EXCEPT ![s] = [fds[s] EXCEPT ![f] = Slave(s)]],
               tty' = [tty EXCEPT ![s] = leader[s]],
               UNCHANGED <<app, leader, dir>>
        PROVE  SubprocessInvariant'
    <3>1. \A g \in Fds : fds[s][g] \in Inherited  BY <1>0, <2>2 DEF Table
    <3>2. pc'[s] = "dup" /\ fds'[s] = [fds[s] EXCEPT ![f] = Slave(s)]
          /\ tty'[s] = leader[s] /\ fds[s] \in [Fds -> Contents]
      BY <1>0, <2>2 DEF TypeOK
    <3>3. \A g \in Fds : fds'[s][g] \in Inherited \cup {Slave(s)}
      BY <3>1, <3>2
    <3>4. fds'[s] \in [Fds -> Contents]  BY <3>2 DEF Contents
    <3>5. fds' \in [Sessions -> [Fds -> Contents]]
      BY <1>0, <2>2, <3>2, <3>4 DEF TypeOK
    <3>6. leader[s] /\ leader[s] \in BOOLEAN
      BY <1>0, <2>2 DEF Control, TypeOK
    <3>7. TypeOK'  BY <1>0, <2>2, <3>5, <3>6 DEF TypeOK, Places
    <3>8. OthersUntouched(s)  BY <1>0, <2>2 DEF OthersUntouched, TypeOK
    <3>9. Directory \notin Inherited \cup {Slave(s)}
      BY DEF Directory, Inherited, Slave, Closed, DevNull, File, Masters, Master
    <3>10. Table(s)'  BY <3>2, <3>3, <3>9 DEF Table
    <3>11. Control(s)'  BY <3>2, <3>6 DEF Control
    <3> QED BY <3>7, <3>8, <3>10, <3>11, OthersKeep
  <2>3. \/ Exit(s) /\ app' = app
        \/ \E f \in Fds :
             /\ pc[s] = "open" /\ pc' = [pc EXCEPT ![s] = "dup"]
             /\ fds' = [fds EXCEPT ![s] = [fds[s] EXCEPT ![f] = Slave(s)]]
             /\ tty' = [tty EXCEPT ![s] = leader[s]]
             /\ UNCHANGED <<app, leader, dir>>
    BY <1>5, Zenon DEF OpenSlave, Becomes
  <2> QED BY <2>1, <2>2, <2>3
<1>6. CASE Dup2(s)
  <2> DEFINE table == [f \in Fds |-> IF f \in Standard THEN Slave(s) ELSE fds[s][f]]
  <2>1. /\ pc[s] = "dup" /\ pc' = [pc EXCEPT ![s] = "list"]
        /\ fds' = [fds EXCEPT ![s] = table]
        /\ UNCHANGED <<app, leader, tty, dir>>
    BY <1>6, Zenon DEF Dup2, Step, Becomes
  <2>2. \A f \in Fds : fds[s][f] \in Inherited \cup {Slave(s), Directory}
                       /\ fds[s][f] # Directory
    BY <1>0, <2>1 DEF Table
  <2>3. Slave(s) # Directory  BY DEF Slave, Directory
  <2>4. /\ table \in [Fds -> Contents]
        /\ \A f \in Fds : table[f] \in Inherited \cup {Slave(s), Directory}
                          /\ table[f] # Directory
        /\ \A f \in Standard : table[f] = Slave(s)
    BY <1>1, <2>2, <2>3 DEF Contents
  <2> HIDE DEF table
  <2>5. pc'[s] = "list" /\ fds'[s] = table  BY <1>0, <2>1 DEF TypeOK
  <2>6. TypeOK'  BY <1>0, <2>1, <2>4 DEF TypeOK, Places
  <2>7. OthersUntouched(s)  BY <1>0, <2>1 DEF OthersUntouched, TypeOK
  <2>8. Table(s)'  BY <2>4, <2>5 DEF Table
  <2>9. Control(s)'  BY <1>0, <2>1, <2>5 DEF Control
  <2> QED BY <2>6, <2>7, <2>8, <2>9, OthersKeep
<1>7. CASE OpenDir(s)
  <2>1. pc[s] = "list" /\ UNCHANGED <<app, leader, tty>>
    BY <1>7, Zenon DEF OpenDir, Step
  <2>2. /\ \A f \in Fds : fds[s][f] \in Inherited \cup {Slave(s), Directory}
                          /\ fds[s][f] # Directory
        /\ \A f \in Standard : fds[s][f] = Slave(s)
        /\ tty[s]
    BY <1>0, <2>1 DEF Table, Control
  <2>3. ASSUME NEW f \in Fds, fds[s][f] = Closed,
               pc' = [pc EXCEPT ![s] = "closing"],
               fds' = [fds EXCEPT ![s] = [fds[s] EXCEPT ![f] = Directory]],
               dir' = [dir EXCEPT ![s] = f]
        PROVE  SubprocessInvariant'
    <3>1. f \notin Standard  BY <2>2, <2>3, FilesDiffer
    <3>2. pc'[s] = "closing" /\ fds'[s] = [fds[s] EXCEPT ![f] = Directory]
          /\ dir'[s] = f /\ fds[s] \in [Fds -> Contents]
      BY <1>0, <2>3 DEF TypeOK
    <3>3. /\ fds'[s] \in [Fds -> Contents]
          /\ \A g \in Fds : fds'[s][g] \in Inherited \cup {Slave(s), Directory}
          /\ \A g \in Standard : fds'[s][g] = Slave(s)
      BY <1>1, <2>2, <3>1, <3>2 DEF Contents
    <3>4. fds' \in [Sessions -> [Fds -> Contents]]
      BY <1>0, <2>3, <3>2, <3>3 DEF TypeOK
    <3>5. TypeOK'  BY <1>0, <2>1, <2>3, <3>4 DEF TypeOK, Places
    <3>6. OthersUntouched(s)  BY <1>0, <2>1, <2>3 DEF OthersUntouched, TypeOK
    <3>7. Table(s)'  BY <3>1, <3>2, <3>3 DEF Table
    <3>8. Control(s)'  BY <2>1, <2>2, <3>2 DEF Control
    <3> QED BY <3>5, <3>6, <3>7, <3>8, OthersKeep
  <2>4. ASSUME pc' = [pc EXCEPT ![s] = "exec"],
               dir' = [dir EXCEPT ![s] = Failed], fds' = fds
        PROVE  SubprocessInvariant'
    <3>1. pc'[s] = "exec" /\ dir'[s] = Failed  BY <1>0, <2>4 DEF TypeOK
    <3>2. TypeOK'  BY <1>0, <2>1, <2>4 DEF TypeOK, Places
    <3>3. OthersUntouched(s)  BY <1>0, <2>1, <2>4 DEF OthersUntouched, TypeOK
    <3>4. Table(s)'  BY <2>2, <2>4, <3>1 DEF Table
    <3>5. Control(s)'  BY <2>1, <2>2, <3>1 DEF Control
    <3> QED BY <3>2, <3>3, <3>4, <3>5, OthersKeep
  <2>5. \/ \E f \in Fds :
             /\ fds[s][f] = Closed
             /\ pc' = [pc EXCEPT ![s] = "closing"]
             /\ fds' = [fds EXCEPT ![s] = [fds[s] EXCEPT ![f] = Directory]]
             /\ dir' = [dir EXCEPT ![s] = f]
        \/ /\ pc' = [pc EXCEPT ![s] = "exec"]
           /\ dir' = [dir EXCEPT ![s] = Failed] /\ fds' = fds
    BY <1>7, Zenon DEF OpenDir, Step, IsLowest, Becomes
  <2> QED BY <2>3, <2>4, <2>5
<1>8. CASE CloseEntry(s)
  <2>1. PICK f \in Leftover(s) : fds' = [fds EXCEPT ![s] = [fds[s] EXCEPT ![f] = Closed]]
    BY <1>8, Zenon DEF CloseEntry, Becomes
  <2>2. pc[s] = "closing" /\ UNCHANGED <<app, pc, leader, tty, dir>>
    BY <1>8, Zenon DEF CloseEntry
  <2>3. f \in Fds /\ f \notin Standard  BY DEF Leftover
  <2>4. fds'[s] = [fds[s] EXCEPT ![f] = Closed] /\ fds[s] \in [Fds -> Contents]
    BY <1>0, <2>1 DEF TypeOK
  <2>5. /\ \A g \in Fds : fds[s][g] \in Inherited \cup {Slave(s), Directory}
        /\ \A g \in Standard : fds[s][g] = Slave(s)
        /\ dir[s] \in Fds \ Standard
    BY <1>0, <2>2 DEF Table
  <2>6. /\ fds'[s] \in [Fds -> Contents]
        /\ \A g \in Fds : fds'[s][g] \in Inherited \cup {Slave(s), Directory}
        /\ \A g \in Standard : fds'[s][g] = Slave(s)
    BY <1>1, <2>3, <2>4, <2>5 DEF Contents, Inherited
  <2>7. fds' \in [Sessions -> [Fds -> Contents]]
    BY <1>0, <2>1, <2>4, <2>6 DEF TypeOK
  <2>8. TypeOK'  BY <1>0, <2>2, <2>7 DEF TypeOK
  <2>9. OthersUntouched(s)  BY <1>0, <2>1, <2>2 DEF OthersUntouched, TypeOK
  <2>10. Table(s)'  BY <2>2, <2>5, <2>6 DEF Table
  <2>11. Control(s)'  BY <1>0, <2>2 DEF Control
  <2> QED BY <2>8, <2>9, <2>10, <2>11, OthersKeep
<1>9. CASE CloseDir(s)
  <2>1. /\ Leftover(s) = {}
        /\ pc[s] = "closing" /\ pc' = [pc EXCEPT ![s] = "exec"]
        /\ fds' = [fds EXCEPT ![s] = [fds[s] EXCEPT ![dir[s]] = Closed]]
        /\ dir' = [dir EXCEPT ![s] = None]
        /\ UNCHANGED <<app, leader, tty>>
    BY <1>9, Zenon DEF CloseDir, CloseDirIf, Step, Becomes
  <2>2. /\ \A g \in Standard : fds[s][g] = Slave(s)
        /\ dir[s] \in Fds \ Standard
    BY <1>0, <2>1 DEF Table
  <2>3. pc'[s] = "exec" /\ fds'[s] = [fds[s] EXCEPT ![dir[s]] = Closed]
        /\ fds[s] \in [Fds -> Contents]
    BY <1>0, <2>1 DEF TypeOK
  <2>4. /\ fds'[s] \in [Fds -> Contents]
        /\ \A g \in Standard : fds'[s][g] = Slave(s)
        /\ \A g \in Fds \ Standard : fds'[s][g] = Closed
    BY <1>1, <2>1, <2>2, <2>3 DEF Contents, Inherited, Leftover
  <2>5. fds' \in [Sessions -> [Fds -> Contents]]
    BY <1>0, <2>1, <2>3, <2>4 DEF TypeOK
  <2>6. TypeOK'  BY <1>0, <2>1, <2>5 DEF TypeOK, Places
  <2>7. OthersUntouched(s)  BY <1>0, <2>1 DEF OthersUntouched, TypeOK
  <2>8. Table(s)'  BY <2>3, <2>4 DEF Table
  <2>9. Control(s)'  BY <1>0, <2>1, <2>3 DEF Control
  <2> QED BY <2>6, <2>7, <2>8, <2>9, OthersKeep
<1>10. CASE Exec(s)
  <2> DEFINE table == [f \in Fds |-> IF fds[s][f] \in Cloexec THEN Closed ELSE fds[s][f]]
  <2>1. CASE Exit(s) /\ app' = app
    BY <2>1, <1>4, Zenon DEF Exit, Becomes
  <2>2. CASE /\ pc[s] = "exec" /\ pc' = [pc EXCEPT ![s] = "shell"]
             /\ fds' = [fds EXCEPT ![s] = table]
             /\ UNCHANGED <<app, leader, tty, dir>>
    <3>1. /\ \A g \in Standard : fds[s][g] = Slave(s)
          /\ \A f \in Fds \ Standard :
               \/ fds[s][f] = Closed
               \/ dir[s] = Failed /\ fds[s][f] \in Inherited \cup {Slave(s)}
          /\ fds[s] \in [Fds -> Contents]
      BY <1>0, <2>2 DEF Table, TypeOK
    <3>2. /\ table \in [Fds -> Contents]
          /\ \A f \in Standard : table[f] = Slave(s)
          /\ \A f \in Fds \ Standard :
               \/ table[f] = Closed
               \/ dir[s] = Failed /\ table[f] \in Inherited \cup {Slave(s)}
          /\ \A f \in Fds : table[f] \notin Masters
      BY <1>1, <3>1, FilesDiffer DEF Cloexec, Contents, Inherited
    <3> HIDE DEF table
    <3>3. pc'[s] = "shell" /\ fds'[s] = table /\ dir'[s] = dir[s]
      BY <1>0, <2>2 DEF TypeOK
    <3>4. TypeOK'  BY <1>0, <2>2, <3>2 DEF TypeOK, Places
    <3>5. OthersUntouched(s)  BY <1>0, <2>2 DEF OthersUntouched, TypeOK
    <3>6. Table(s)'  BY <3>2, <3>3 DEF Table
    <3>7. Control(s)'  BY <1>0, <2>2, <3>3 DEF Control
    <3> QED BY <3>4, <3>5, <3>6, <3>7, OthersKeep
  <2>3. \/ Exit(s) /\ app' = app
        \/ /\ pc[s] = "exec" /\ pc' = [pc EXCEPT ![s] = "shell"]
           /\ fds' = [fds EXCEPT ![s] = table]
           /\ UNCHANGED <<app, leader, tty, dir>>
    BY <1>10, Zenon DEF Exec, Step, Becomes
  <2> QED BY <2>1, <2>2, <2>3
<1>11. CASE ShellExits(s)
  BY <1>11, <1>4, Zenon DEF ShellExits, Exit, Becomes
<1> QED BY <1>2, <1>3, <1>5, <1>6, <1>7, <1>8, <1>9, <1>10, <1>11, Zenon DEF Child

-----------------------------------------------------------------------------
(* The app's steps. *)

LEMMA ForkStep ==
  ASSUME SubprocessInvariant, NEW s \in Sessions, Fork(s)
  PROVE  SubprocessInvariant'
<1>1. TypeOK  BY DEF SubprocessInvariant
<1>2. /\ fds' = [fds EXCEPT ![s] = app] /\ pc' = [pc EXCEPT ![s] = "close"]
      /\ UNCHANGED <<app, leader, tty, dir>>
  BY Zenon DEF Fork
<1>3. app \in [Fds -> Inherited] /\ app \in [Fds -> Contents]
  BY <1>1 DEF TypeOK, Contents
<1>4. pc'[s] = "close" /\ fds'[s] = app  BY <1>1, <1>2 DEF TypeOK
<1>5. TypeOK'  BY <1>1, <1>2, <1>3 DEF TypeOK, Places
<1>6. OthersUntouched(s)  BY <1>1, <1>2 DEF OthersUntouched, TypeOK
<1>7. Table(s)'  BY <1>3, <1>4 DEF Table
<1>8. Control(s)'  BY <1>4 DEF Control
<1> QED BY <1>5, <1>6, <1>7, <1>8, OthersKeep

\* Steps after which the children are as they were.
LEMMA ChildrenKeep ==
  ASSUME SubprocessInvariant, child' = child, app' \in [Fds -> Inherited]
  PROVE  SubprocessInvariant'
<1>1. UNCHANGED <<fds, pc, leader, tty, dir>>  BY Zenon DEF child
<1>2. TypeOK'  BY <1>1 DEF SubprocessInvariant, TypeOK
<1>3. ASSUME NEW s \in Sessions  PROVE (Table(s) /\ Control(s))'
  <2>1. Table(s) /\ Control(s)  BY DEF SubprocessInvariant
  <2>2. Table(s)'  BY <1>1, <2>1, Zenon DEF Table
  <2>3. Control(s)'  BY <1>1, <2>1, Zenon DEF Control
  <2> QED BY <2>2, <2>3
<1> QED BY <1>2, <1>3 DEF SubprocessInvariant

LEMMA SubprocessStep ==
  ASSUME SubprocessInvariant, [Next]_vars
  PROVE  SubprocessInvariant'
<1>1. app \in [Fds -> Inherited]  BY DEF SubprocessInvariant, TypeOK
<1>2. ASSUME NEW s \in Sessions,
             OpenPtmx(s) \/ SetupFails(s) \/ CloseMaster(s)
      PROVE  SubprocessInvariant'
  <2>1. child' = child
    BY <1>2, Zenon DEF OpenPtmx, SetupFails, Fails, CloseMaster
  <2>2. \/ app' = app
        \/ \E f \in Fds : app' = [app EXCEPT ![f] = Master(s)]
        \/ app' = [f \in Fds |-> IF app[f] = Master(s) THEN Closed ELSE app[f]]
    BY <1>2, Zenon DEF OpenPtmx, SetupFails, Fails, CloseMaster, Set
  <2>3. Master(s) \in Inherited  BY DEF Inherited, Masters
  <2>4. app' \in [Fds -> Inherited]
    BY <1>1, <2>2, <2>3 DEF Inherited
  <2> QED BY <2>1, <2>4, ChildrenKeep
<1>3. CASE OtherThreadOpens \/ OtherThreadCloses
  <2>1. child' = child  BY <1>3, Zenon DEF OtherThreadOpens, OtherThreadCloses
  <2>2. \E f \in Fds : app' = [app EXCEPT ![f] = File] \/ app' = [app EXCEPT ![f] = Closed]
    BY <1>3, Zenon DEF OtherThreadOpens, OtherThreadCloses, Set
  <2>3. app' \in [Fds -> Inherited]  BY <1>1, <2>2 DEF Inherited
  <2> QED BY <2>1, <2>3, ChildrenKeep
<1>4. CASE UNCHANGED vars
  <2>1. child' = child /\ app' = app  BY <1>4, Zenon DEF vars, child
  <2> QED BY <1>1, <2>1, ChildrenKeep
<1> QED BY <1>2, <1>3, <1>4, ForkStep, ChildStep, Zenon DEF Next

\* The tables' invariant: what each child may have open at each of its places.
THEOREM SubprocessHolds == Spec => []SubprocessInvariant
<1>1. ASSUME Init  PROVE SubprocessInvariant
  <2>1. /\ app = [f \in Fds |-> IF f \in Standard THEN DevNull ELSE Closed]
        /\ fds = [s \in Sessions |-> [f \in Fds |-> Closed]]
        /\ pc = [s \in Sessions |-> "none"]
        /\ leader = [s \in Sessions |-> FALSE] /\ tty = [s \in Sessions |-> FALSE]
        /\ dir = [s \in Sessions |-> None]
    BY <1>1, Zenon DEF Init
  <2>2. TypeOK  BY <2>1 DEF TypeOK, Contents, Inherited, Places
  <2>3. \A s \in Sessions : Table(s) /\ Control(s)
    BY <2>1 DEF Table, Control
  <2> QED BY <2>2, <2>3 DEF SubprocessInvariant
<1>2. SubprocessInvariant /\ [Next]_vars => SubprocessInvariant'
  BY SubprocessStep
<1> QED BY <1>1, <1>2, PTL DEF Spec

\* createSubprocess(): O_CLOEXEC keeps every session's master out of every shell,
\* also when the loop over /proc/self/fd could not run.
THEOREM MastersStayPrivate == Spec => []MastersArePrivate
<1>1. SubprocessInvariant => MastersArePrivate
  BY DEF SubprocessInvariant, MastersArePrivate, Table
<1> QED BY <1>1, SubprocessHolds, PTL

\* createSubprocess(): a shell is on its own terminal, and inherits nothing but
\* what a full table has kept it from closing.
THEOREM ShellsHaveTerminals == Spec => []ShellHasItsTerminal
<1>1. ASSUME SubprocessInvariant, NEW s \in Sessions, pc[s] = "shell"
      PROVE  /\ tty[s]
             /\ \A f \in Standard : fds[s][f] = Slave(s)
             /\ \A f \in Fds \ Standard :
                  \/ fds[s][f] = Closed
                  \/ dir[s] = Failed /\ fds[s][f] \in {File, DevNull, Slave(s)}
  <2>1. Table(s) /\ Control(s)  BY <1>1 DEF SubprocessInvariant
  <2>2. /\ tty[s]
        /\ \A f \in Standard : fds[s][f] = Slave(s)
        /\ \A f \in Fds \ Standard :
             \/ fds[s][f] = Closed
             \/ dir[s] = Failed /\ fds[s][f] \in Inherited \cup {Slave(s)}
        /\ \A f \in Fds : fds[s][f] \notin Masters
    BY <1>1, <2>1, Zenon DEF Table, Control
  <2> QED BY <2>2 DEF Inherited
<1>2. SubprocessInvariant => ShellHasItsTerminal
  BY <1>1 DEF ShellHasItsTerminal
<1> QED BY <1>2, SubprocessHolds, PTL

-----------------------------------------------------------------------------
(* copy() of clipboard.c.                                                    *)

CopyPlaces == Owning \cup {"none", "start", "done", "left"}

ClipTypeOK ==
  /\ mdisplay \in BOOLEAN
  /\ drawer \in {"idle", "closing"}
  /\ inputs \in 0..MaxInputs
  /\ copyPc \in [Texts -> CopyPlaces]
  /\ \A k \in Texts : k > inputs => copyPc[k] = "none"

\* A copy that has created its window while nobody was closing anything still has
\* it, and so nobody has begun to close anything since.
Kept(k) == mdisplay /\ k \in windows /\ drawer = "idle"
Unslipped(k) == copyPc[k] \in Owning /\ k \notin slipped
ConnectionInvariant == ClipTypeOK /\ \A k \in Texts : Unslipped(k) => Kept(k)

LEMMA ClipTypeStep ==
  ASSUME ClipTypeOK, [ClipNext]_clipVars
  PROVE  ClipTypeOK'
<1> USE DEF ClipTypeOK, CopyPlaces, Owning, Texts, copies, server
<1>0. MaxInputs \in Nat  BY BoundsAssumption
<1>1. CASE InputString
  <2>1. inputs' = inputs + 1 /\ inputs < MaxInputs
        /\ copyPc' = [copyPc EXCEPT ![inputs'] = "start"]
        /\ mdisplay' = mdisplay /\ drawer' = drawer
    BY <1>1, Zenon DEF InputString, Goto
  <2> QED BY <2>1, <1>0
<1>2. CASE PressButton \/ ClientAsks \/ RivalTakes \/ ClientsLeave
           \/ QueryTree \/ CloseDisplay
  <2>1. inputs' = inputs /\ copyPc' = copyPc
        /\ (mdisplay' = mdisplay \/ mdisplay' = FALSE)
        /\ (drawer' = drawer \/ drawer' = "closing" \/ drawer' = "idle")
    BY <1>2, Zenon DEF PressButton, ClientAsks, RivalTakes, ClientsLeave,
                       QueryTree, QueryTreeSeeing, CloseDisplay
  <2> QED BY <2>1
<1>3. ASSUME NEW k \in Texts, Copy(k) \/ Expire(k)
      PROVE  ClipTypeOK'
  <2>1. mdisplay' = mdisplay /\ drawer' = drawer /\ inputs' = inputs
    BY <1>3, Zenon DEF Copy, CreateWindow, SetOwner, CheckOwner, Loop, LoopPending,
                       NextEvent, Free, FreeLeaving, Expire
  <2>2. \/ copyPc' = copyPc
        \/ copyPc[k] # "none" /\ \E p \in CopyPlaces : copyPc' = [copyPc EXCEPT ![k] = p]
    <3>1. CASE CreateWindow(k)
      <4>1. copyPc[k] = "start"
            /\ copyPc' = [copyPc EXCEPT ![k] = IF mdisplay THEN "own" ELSE "start"]
        BY <3>1, Zenon DEF CreateWindow, At, Goto
      <4> QED BY <4>1
    <3>2. CASE SetOwner(k)
      <4>1. copyPc[k] = "own" /\ copyPc' = [copyPc EXCEPT ![k] = "check"]
        BY <3>2, Zenon DEF SetOwner, At, Goto
      <4> QED BY <4>1
    <3>3. CASE CheckOwner(k)
      <4>1. copyPc[k] = "check"
            /\ copyPc' = [copyPc EXCEPT ![k] = IF owner = k THEN "loop" ELSE "left"]
        BY <3>3, Zenon DEF CheckOwner, At, Goto
      <4> QED BY <4>1
    <3>4. CASE Loop(k)
      <4>1. copyPc[k] = "loop"
            /\ copyPc' = [copyPc EXCEPT ![k] = IF expired[k] THEN "free" ELSE "next"]
        BY <3>4, Zenon DEF Loop, LoopPending, At, Goto
      <4> QED BY <4>1
    <3>5. CASE NextEvent(k)
      <4>1. copyPc[k] = "next" /\ copyPc' = [copyPc EXCEPT ![k] = "loop"]
        BY <3>5, Zenon DEF NextEvent, At, Goto
      <4> QED BY <4>1
    <3>6. CASE Free(k)
      <4>1. copyPc[k] = "free" /\ copyPc' = [copyPc EXCEPT ![k] = "done"]
        BY <3>6, Zenon DEF Free, FreeLeaving, At, Goto
      <4> QED BY <4>1
    <3>7. CASE Expire(k)  BY <3>7, Zenon DEF Expire
    <3> QED BY <1>3, <3>1, <3>2, <3>3, <3>4, <3>5, <3>6, <3>7 DEF Copy
  <2> QED BY <2>1, <2>2
<1>4. CASE UNCHANGED clipVars
  <2>1. mdisplay' = mdisplay /\ drawer' = drawer /\ inputs' = inputs /\ copyPc' = copyPc
    BY <1>4, Zenon DEF clipVars
  <2> QED BY <2>1
<1> QED BY <1>1, <1>2, <1>3, <1>4, Zenon DEF ClipNext

LEMMA ConnectionStep ==
  ASSUME ConnectionInvariant, [ClipNext]_clipVars
  PROVE  ConnectionInvariant'
<1>1. ClipTypeOK /\ ClipTypeOK'  BY ClipTypeStep DEF ConnectionInvariant
<1>2. \A k \in Texts : Unslipped(k) => Kept(k)  BY DEF ConnectionInvariant
<1> SUFFICES ASSUME NEW j \in Texts, Unslipped(j)'
             PROVE  Kept(j)'
  BY <1>1 DEF ConnectionInvariant
<1>3. CASE InputString
  <2>1. /\ inputs < MaxInputs /\ inputs' = inputs + 1
        /\ copyPc' = [copyPc EXCEPT ![inputs'] = "start"]
        /\ UNCHANGED <<mdisplay, drawer, windows, slipped>>
    BY <1>3, Zenon DEF InputString, Goto, server
  <2>2. inputs' \in Texts
    BY <2>1, <1>1, BoundsAssumption DEF ClipTypeOK, Texts
  <2>3. j # inputs'
    BY <2>1, <2>2, <1>1 DEF Unslipped, Owning, ClipTypeOK
  <2>4. Unslipped(j)  BY <2>1, <2>3, <1>1 DEF Unslipped, ClipTypeOK
  <2> QED BY <2>1, <2>4, <1>2 DEF Kept
<1>4. CASE PressButton \/ ClientAsks \/ RivalTakes \/ ClientsLeave
  <2>1. UNCHANGED <<mdisplay, drawer, windows, copyPc, slipped>>
    BY <1>4, Zenon DEF PressButton, ClientAsks, RivalTakes, ClientsLeave, copies, server
  <2> QED BY <2>1, <1>2 DEF Kept, Unslipped
<1>5. CASE QueryTree
  <2>1. windows = {} /\ UNCHANGED <<copyPc, slipped>>
    BY <1>5, Zenon DEF QueryTree, QueryTreeSeeing, copies
  <2>2. Unslipped(j)  BY <2>1 DEF Unslipped
  <2> QED BY <2>1, <2>2, <1>2 DEF Kept
<1>6. CASE CloseDisplay
  <2>1. drawer = "closing" /\ UNCHANGED <<copyPc, slipped>>
    BY <1>6, Zenon DEF CloseDisplay, copies
  <2>2. Unslipped(j)  BY <2>1 DEF Unslipped
  <2> QED BY <2>1, <2>2, <1>2 DEF Kept
<1>7. ASSUME NEW k \in Texts, CreateWindow(k)
      PROVE  Kept(j)'
  <2>1. /\ copyPc' = [copyPc EXCEPT ![k] = IF mdisplay THEN "own" ELSE "start"]
        /\ windows' = (IF mdisplay THEN windows \cup {k} ELSE windows)
        /\ slipped' = (IF drawer = "closing" THEN slipped \cup {k} ELSE slipped)
        /\ mdisplay' = mdisplay /\ drawer' = drawer
    BY <1>7, Zenon DEF CreateWindow, Goto
  <2>2. CASE j = k
    <3>1. copyPc'[k] \in Owning /\ k \notin slipped'  BY <2>2 DEF Unslipped
    <3>2. drawer = "idle" /\ mdisplay
      BY <2>1, <3>1, <1>1 DEF ClipTypeOK, Owning
    <3> QED BY <2>1, <2>2, <3>2 DEF Kept
  <2>3. CASE j # k
    <3>1. Unslipped(j)  BY <2>1, <2>3, <1>1 DEF Unslipped, ClipTypeOK
    <3> QED BY <2>1, <3>1, <1>2 DEF Kept
  <2> QED BY <2>2, <2>3
<1>8. ASSUME NEW k \in Texts,
             SetOwner(k) \/ CheckOwner(k) \/ Loop(k) \/ NextEvent(k) \/ Expire(k)
      PROVE  Kept(j)'
  <2>1. UNCHANGED <<mdisplay, drawer, windows, slipped>>
    BY <1>8, Zenon DEF SetOwner, CheckOwner, Loop, LoopPending, NextEvent, Expire, server
  <2>2. \/ copyPc' = copyPc
        \/ copyPc[k] \in Owning /\ \E p : copyPc' = [copyPc EXCEPT ![k] = p]
    BY <1>8, Zenon DEF SetOwner, CheckOwner, Loop, LoopPending, NextEvent, Expire,
                       At, Goto, Owning
  <2>3. Unslipped(j)  BY <2>1, <2>2, <1>1 DEF Unslipped, ClipTypeOK
  <2> QED BY <2>1, <2>3, <1>2 DEF Kept
<1>9. ASSUME NEW k \in Texts, Free(k)
      PROVE  Kept(j)'
  <2>1. /\ copyPc' = [copyPc EXCEPT ![k] = "done"] /\ windows' = windows \ {k}
        /\ UNCHANGED <<mdisplay, drawer, slipped>>
    BY <1>9, Zenon DEF Free, FreeLeaving, Goto
  <2>2. j # k  BY <2>1, <1>1 DEF Unslipped, ClipTypeOK, Owning
  <2>3. Unslipped(j)  BY <2>1, <2>2, <1>1 DEF Unslipped, ClipTypeOK
  <2> QED BY <2>1, <2>2, <2>3, <1>2 DEF Kept
<1>10. CASE UNCHANGED clipVars
  <2>1. UNCHANGED <<mdisplay, drawer, windows, copyPc, slipped>>
    BY <1>10, Zenon DEF clipVars, server, copies
  <2> QED BY <2>1, <1>2 DEF Kept, Unslipped
<1> QED BY <1>3, <1>4, <1>5, <1>6, <1>7, <1>8, <1>9, <1>10, Zenon DEF ClipNext, Copy

\* The connection's invariant: whoever owns the selection since before the last
\* XQueryTree() has its window on an open connection that nobody is closing.
THEOREM ConnectionHolds == ClipSpec => []ConnectionInvariant
<1>1. ClipInit => ConnectionInvariant
  BY BoundsAssumption
  DEF ClipInit, ConnectionInvariant, ClipTypeOK, Texts, CopyPlaces, Owning, Unslipped
<1>2. ConnectionInvariant /\ [ClipNext]_clipVars => ConnectionInvariant'  BY ConnectionStep
<1> QED BY <1>1, <1>2, PTL DEF ClipSpec

\* copy(): its window keeps the connection until it destroys the window itself.
THEOREM ConnectionIsKept == ClipSpec => []WindowKeepsConnection
<1>1. ConnectionInvariant => WindowKeepsConnection
  BY DEF ConnectionInvariant, WindowKeepsConnection, Unslipped, Kept
<1> QED BY <1>1, ConnectionHolds, PTL
=============================================================================
