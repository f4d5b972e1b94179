-------------------------- MODULE CommandExecution --------------------------
(***************************************************************************)
(* com.pangbai.dowork.Command.cmdExer: execute() starts a command, reads   *)
(* its output and waits for it, with the process and its last line in      *)
(* static fields; and display, which starts the X server the same way and  *)
(* takes its process out of the static a statement later.                  *)
(*                                                                         *)
(* The callers are threads of the fragments, of mainService and the main   *)
(* thread.  Nothing keeps two of them apart: each assignment and each use  *)
(* of a static is a step of its own.  pulseaudio is started and stopped    *)
(* like Xvfb.  A NullPointerException, which execute() does not catch,     *)
(* ends the app.                                                           *)
(***************************************************************************)
EXTENDS Naturals, Sequences, FiniteSets

CONSTANTS
  Threads,    \* that call execute() and wait
  Main,       \* the one of them that starts and stops the X server, too
  MaxProcs    \* bound: processes started

ASSUME ThreadsAssumption == Main \in Threads /\ IsFiniteSet(Threads) /\ MaxProcs \in Nat

VARIABLES
  process,       \* static: a process, or NULL
  lastLine,      \* static: the process that printed it, or NULL
  process_Xvfb,  \* display's: a process, or NULL
  procs,         \* the processes started: kind, alive, output left to read
  pc,            \* where each thread is in execute()
  local,         \* the process that a thread reads from, or waits for
  own,           \* history: the process that a thread's call has started, or NULL
  cleared,       \* history: the call was preceded by cmdExer.destroy()
  disturbed,     \* history: a thread's call overlaps with another thread's
  crossed,       \* history: servers started by a call that was disturbed
  crashed        \* the threads that a NullPointerException has ended

statics == <<process, lastLine, process_Xvfb>>
history == <<own, cleared, disturbed, crossed>>
vars == <<statics, procs, pc, local, history, crashed>>

NULL == 0
Alive == crashed = {}
Busy(t) == pc[t] # "idle"
Dead(p) == ~procs[p].alive
Killed(p) == [procs EXCEPT ![p].alive = FALSE]

\* A command prints nothing, a line that fits into the pipe, or one that it can end
\* only after, because the pipe is full.  Xvfb does not end by itself, and nobody
\* reads what it prints.
Outputs == {"none", "fits", "fills"}
Started(kind, output) ==
  /\ Len(procs) < MaxProcs
  /\ procs' = Append(procs, [kind |-> kind, alive |-> TRUE, output |-> output])
  /\ process' = Len(procs')

\* Threads that are in a call when another one enters disturb each other.
Enters(t) ==
  disturbed' = [u \in Threads |->
    IF u = t THEN \E v \in Threads \ {t} : Busy(v) ELSE disturbed[u] \/ Busy(u)]
At(t, place) == Alive /\ pc[t] = place
Goto(t, place) == pc' = [pc EXCEPT ![t] = place]
-----------------------------------------------------------------------------
(* execute() with wait.                                                       *)

\* With cmdExer.destroy() before it, or without.
BeginClearing(t, clear) ==
  /\ At(t, "idle")
  /\ Enters(t)
  /\ process' = IF clear THEN NULL ELSE process
  /\ lastLine' = IF clear THEN NULL ELSE lastLine
  /\ Goto(t, "start")
  /\ UNCHANGED <<process_Xvfb, procs, local, own, crossed, crashed>>
BeginUncleared(t) ==
  BeginClearing(t, FALSE) /\ cleared' = [cleared EXCEPT ![t] = TRUE]
Begin(t) == \E clear \in BOOLEAN :
  BeginClearing(t, clear) /\ cleared' = [cleared EXCEPT ![t] = clear]

\* process = processBuilder.start().
Start(t) ==
  /\ At(t, "start")
  /\ \E output \in Outputs : Started("command", output)
  /\ own' = [own EXCEPT ![t] = process']
  /\ Goto(t, "stream")
  /\ UNCHANGED <<lastLine, process_Xvfb, local, cleared, disturbed, crossed, crashed>>

\* start(), readLine() or waitFor() throws.  A start() that throws assigns nothing.
Throws(t) ==
  /\ Alive /\ pc[t] \in {"start", "read", "wait"}
  /\ Goto(t, "finally")
  /\ UNCHANGED <<statics, procs, local, history, crashed>>

\* A static is read again: for its stream, for waitFor(), for destroy().
Take(t, place, next) ==
  /\ At(t, place)
  /\ local' = [local EXCEPT ![t] = process]
  /\ Goto(t, next)
  /\ crashed' = IF process = NULL THEN {t} ELSE {}
  /\ UNCHANGED <<statics, procs, history>>
GetInputStream(t) == Take(t, "stream", "read")
CallWaitFor(t) == Take(t, "ended", "wait")

\* The loop around readLine(), and its end when the output is closed.
ReadLine(t) ==
  /\ At(t, "read") /\ procs[local[t]].output # "none"
  /\ procs' = [procs EXCEPT ![local[t]].output = "none"]
  /\ lastLine' = local[t]
  /\ UNCHANGED <<process, process_Xvfb, pc, local, history, crashed>>
EndOfOutputIf(t, end) ==
  /\ At(t, "read") /\ end
  /\ Goto(t, "ended")
  /\ UNCHANGED <<statics, procs, local, history, crashed>>
EndOfOutputUnread(t) == EndOfOutputIf(t, TRUE)
EndOfOutput(t) == EndOfOutputIf(t, procs[local[t]].output = "none" /\ Dead(local[t]))

WaitFor(t) ==
  /\ At(t, "wait") /\ Dead(local[t])
  /\ Goto(t, "finally")
  /\ UNCHANGED <<statics, procs, local, history, crashed>>

\* if (process != null && wait), and a step later process.destroy().
Finally(t) ==
  /\ At(t, "finally")
  /\ Goto(t, IF process = NULL THEN "return" ELSE "destroy")
  /\ UNCHANGED <<statics, procs, local, history, crashed>>
DestroyProcess(t) ==
  /\ At(t, "destroy")
  /\ crashed' = IF process = NULL THEN {t} ELSE {}
  /\ procs' = IF process = NULL THEN procs ELSE Killed(process)
  /\ Goto(t, "return")
  /\ UNCHANGED <<statics, local, history>>

\* The caller uses lastLine, and nothing of the call is left but the statics.
Forgotten(t) ==
  /\ own' = [own EXCEPT ![t] = NULL]
  /\ local' = [local EXCEPT ![t] = NULL]
  /\ cleared' = [cleared EXCEPT ![t] = FALSE]
  /\ Goto(t, "idle")
Return(t) ==
  /\ At(t, "return")
  /\ Forgotten(t)
  /\ disturbed' = [disturbed EXCEPT ![t] = FALSE]
  /\ UNCHANGED <<statics, procs, crossed, crashed>>

\* cmdExer.destroy() alone.
Destroy(t) ==
  /\ At(t, "idle")
  /\ disturbed' = [u \in Threads |-> disturbed[u] \/ Busy(u)]
  /\ process' = NULL /\ lastLine' = NULL
  /\ UNCHANGED <<process_Xvfb, procs, pc, local, own, cleared, crossed, crashed>>

\* A command ends.
CommandEnds ==
  /\ Alive
  /\ \E p \in 1..Len(procs) :
       /\ procs[p].kind = "command" /\ procs[p].alive /\ procs[p].output # "fills"
       /\ procs' = Killed(p)
  /\ UNCHANGED <<statics, pc, local, history, crashed>>
-----------------------------------------------------------------------------
(* display.startXvfb() and stopXvfb().                                        *)

StartXvfbIf(needed) ==
  /\ At(Main, "idle") /\ needed
  /\ Enters(Main)
  /\ Started("xvfb", "none")
  /\ own' = [own EXCEPT ![Main] = process']
  /\ Goto(Main, "keep")
  /\ UNCHANGED <<lastLine, process_Xvfb, local, cleared, crossed, crashed>>
StartXvfbAgain == StartXvfbIf(TRUE)
StartXvfb == StartXvfbIf(process_Xvfb = NULL)

\* execute() returns -1, which startXvfb() does not look at.
XvfbFailsToStart ==
  /\ At(Main, "idle") /\ process_Xvfb = NULL
  /\ Enters(Main)
  /\ Goto(Main, "keep")
  /\ UNCHANGED <<statics, procs, local, own, cleared, crossed, crashed>>

\* process_Xvfb = cmdExer.process.
KeepXvfb ==
  /\ At(Main, "keep")
  /\ process_Xvfb' = process
  /\ crossed' = IF disturbed[Main] /\ own[Main] # NULL THEN crossed + 1 ELSE crossed
  /\ Forgotten(Main)
  /\ disturbed' = [disturbed EXCEPT ![Main] = FALSE]
  /\ UNCHANGED <<process, lastLine, procs, crashed>>

StopXvfb ==
  /\ At(Main, "idle") /\ process_Xvfb # NULL
  /\ procs' = Killed(process_Xvfb)
  /\ process_Xvfb' = NULL
  /\ UNCHANGED <<process, lastLine, pc, local, history, crashed>>
-----------------------------------------------------------------------------
Init ==
  /\ process = NULL /\ lastLine = NULL /\ process_Xvfb = NULL /\ procs = <<>>
  /\ pc = [t \in Threads |-> "idle"] /\ local = [t \in Threads |-> NULL]
  /\ own = [t \in Threads |-> NULL]
  /\ cleared = [t \in Threads |-> FALSE] /\ disturbed = [t \in Threads |-> FALSE]
  /\ crossed = 0 /\ crashed = {}

Call(t) ==
  \/ Start(t) \/ GetInputStream(t) \/ ReadLine(t) \/ EndOfOutput(t) \/ CallWaitFor(t)
  \/ WaitFor(t) \/ Finally(t) \/ DestroyProcess(t) \/ Return(t)

Next ==
  \/ \E t \in Threads : Begin(t) \/ Call(t) \/ Throws(t) \/ Destroy(t)
  \/ CommandEnds \/ StartXvfb \/ XvfbFailsToStart \/ KeepXvfb \/ StopXvfb

Spec == Init /\ [][Next]_vars

\* A thread that is in a call goes on, and commands that nobody holds up end.  What
\* may throw need not.
FairSpec ==
  /\ Spec
  /\ WF_vars(CommandEnds) /\ WF_vars(KeepXvfb)
  /\ \A t \in Threads : WF_vars(Call(t))
-----------------------------------------------------------------------------
(* Properties. *)

\* A call that overlaps with no other thread's call does not end the app.  Once its
\* process has started it destroys no other.  If nothing was started and the statics
\* were cleared before it, it destroys nothing; if they were not, finally destroys
\* what an earlier call has left there, an X server maybe.  After a call with the
\* statics cleared its caller finds the line of its own command, or none.
UndisturbedCallsAreTheirOwn ==
  \A t \in Threads : ~disturbed[t] =>
    /\ t \notin crashed
    /\ pc[t] = "destroy" => process = own[t] \/ (own[t] = NULL /\ ~cleared[t])
    /\ pc[t] = "return" /\ cleared[t] => lastLine \in {NULL, own[t]}

\* Servers that run and that display does not know of are left by starts that
\* another thread's call has disturbed, one each.
StrayServersNeedRaces ==
  Cardinality({p \in 1..Len(procs) : /\ procs[p].kind = "xvfb" /\ procs[p].alive
                                     /\ p # process_Xvfb /\ p # own[Main]})
    <= crossed

\* execute() returns once start() has returned or thrown, unless the app ends first
\* or another thread's call has put another process, maybe one that does not end, into
\* the static it waits for.
UndisturbedCallsReturn ==
  \A t \in Threads :
    Busy(t) /\ pc[t] # "start" ~> (~Busy(t) \/ disturbed[t] \/ ~Alive)
=============================================================================
