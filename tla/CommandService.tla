--------------------------- MODULE CommandService ---------------------------
(***************************************************************************)
(* com.pangbai.dowork.service.mainService with its floating view           *)
(* (SuperTerminalView): it runs one shell command at a time in a terminal  *)
(* session, and unmounts the container when a command ends.                *)
(*                                                                         *)
(*   screens --exec, stop--> intents --> looper --> onStartCommand()       *)
(*   waiter --exited--> looper --> handleMessage() --finished--> looper    *)
(*   finished --> the view is free --success, failed--> intents            *)
(*                                                                         *)
(* Whatever is handled is handled by the main thread, in the looper's      *)
(* order.  Intents go through the system first: they reach the looper in   *)
(* the order in which they were sent, but later.  A session is what        *)
(* TerminalSession shows of it: its exit is handled once, after its        *)
(* process has ended.                                                      *)
(***************************************************************************)
EXTENDS Integers, Sequences, FiniteSets

CONSTANTS
  Codes,      \* exit codes of commands; 0 is success
  MaxExecs,   \* bound: commands that the screens send
  MaxStops,   \* bound: stops that the screens send
  MaxOthers   \* bound: exits of the app's other sessions

ASSUME CodesAssumption == Codes \subseteq Int
ASSUME BoundsAssumption == MaxExecs \in Nat /\ MaxStops \in Nat /\ MaxOthers \in Nat

VARIABLES
  isCmdRunning,      \* static: a command is running
  mTerminalSession,  \* the view's session: its place in sessions, or NoSession
  sessions,          \* the sessions created so far, one for each command
  EXITCODE,          \* static: the code of the session that exited last
  mThread,           \* whether there is an umount thread
  laidOut,           \* whether the view has been given a size
  alive,             \* whether the app has not killed itself
  looper,            \* what the main thread is to handle
  intents,           \* what has been sent to the service and is not there yet
  execs, stops, others,  \* how many the screens, and other sessions, have sent
  stopped,           \* history: stops that found a session
  posted,            \* history: runnables posted by onSessionFinished()
  executed           \* history: number of the one executed last

view == <<isCmdRunning, mTerminalSession>>
world == <<laidOut, execs, stops, others>>
history == <<stopped, posted, executed>>
vars == <<view, sessions, EXITCODE, mThread, world, alive, looper, intents, history>>

NoSession == 0
Killed == -9        \* what waitFor() returns after a SIGKILL

\* A session's process: not created yet, running, killed, gone with its exit on
\* the way to the main thread, cleaned up.
States == {"new", "running", "killed", "exited", "done"}
IntentKinds == {"exec", "stop", "success", "failed"}
Kinds == IntentKinds \cup {"exited", "finished"}

\* What the looper holds: an intent; the exit of a session; the runnable that
\* onSessionFinished() posts for a session, numbered in the order of posting.
Item(kind, s, n) == [kind |-> kind, session |-> s, number |-> n]
Intent(kind) == Item(kind, NoSession, 0)
Exited(s) == Item("exited", s, 0)
Finished(s) == Item("finished", s, posted + 1)

IsNext(kind) == looper # <<>> /\ Head(looper).kind = kind
Becomes(s, state) == [sessions EXCEPT ![s].state = state]
-----------------------------------------------------------------------------
(* What the screens and the system send. *)

\* PropertiesActivity, RootfsInstallFragment and ctAdapter, and the dialog of
\* dashboardFragment, which asks for isCmdRunning before it is shown, not after.
\* No screen sends an empty command.
UserExecutes ==
  /\ execs < MaxExecs
  /\ execs' = execs + 1
  /\ intents' = Append(intents, Intent("exec"))
  /\ UNCHANGED <<view, sessions, EXITCODE, mThread, laidOut, stops, others, looper, history>>

\* dashboardFragment's button, while a command runs.
UserStops ==
  /\ isCmdRunning /\ stops < MaxStops
  /\ stops' = stops + 1
  /\ intents' = Append(intents, Intent("stop"))
  /\ UNCHANGED <<view, sessions, EXITCODE, mThread, laidOut, execs, others, looper, history>>

\* The system hands an intent to the app.
IntentArrives ==
  /\ intents # <<>>
  /\ intents' = Tail(intents)
  /\ looper' = Append(looper, Head(intents))
  /\ UNCHANGED <<view, sessions, EXITCODE, mThread, world, history>>

\* The first layout gives the view its size: updateSize() starts the process of
\* the session that is there already.  No other one can be new: a session leaves
\* the view after its exit, or after a stop, which no app survives before this.
LayOut ==
  /\ ~laidOut
  /\ laidOut' = TRUE
  /\ sessions' = [s \in DOMAIN sessions |->
                    IF sessions[s].state = "new" THEN [sessions[s] EXCEPT !.state = "running"]
                    ELSE sessions[s]]
  /\ UNCHANGED <<view, EXITCODE, mThread, execs, stops, others, looper, intents, history>>

\* handleMessage() of a session in a TermActivity, which has the same static.
OtherSessionExits ==
  /\ others < MaxOthers
  /\ others' = others + 1
  /\ EXITCODE' \in Codes
  /\ UNCHANGED <<view, sessions, mThread, laidOut, execs, stops, looper, intents, history>>
-----------------------------------------------------------------------------
(* The threads of a session, and the umount thread. *)

\* waitFor() has returned and the message is sent.
WaiterSends(s, state, code) ==
  /\ sessions[s].state = state
  /\ sessions' = [sessions EXCEPT ![s] = [state |-> "exited", code |-> code]]
  /\ looper' = Append(looper, Exited(s))
  /\ UNCHANGED <<view, EXITCODE, mThread, world, intents, history>>

CommandEnds == \E s \in DOMAIN sessions, code \in Codes : WaiterSends(s, "running", code)
\* The process may have ended by itself just before the signal.
KilledEnds ==
  \E s \in DOMAIN sessions, code \in Codes \cup {Killed} : WaiterSends(s, "killed", code)

\* cli.sh umount has returned.
UmountEnds ==
  /\ mThread
  /\ mThread' = FALSE
  /\ UNCHANGED <<view, sessions, EXITCODE, world, looper, intents, history>>
-----------------------------------------------------------------------------
(* What the main thread handles. *)

\* stopChroot(), unless a thread is unmounting already or the container is a proot
\* one: the one that is selected by now, which may be either.
StopsChroot == \E isProot \in BOOLEAN : mThread' = (mThread \/ ~isProot)

\* setProcess() and runProcess(): a view without a size does not start it yet.
ExecFree ==
  /\ mTerminalSession' = Len(sessions) + 1
  /\ isCmdRunning' = TRUE
  /\ sessions' = Append(sessions, [state |-> IF laidOut THEN "running" ELSE "new", code |-> 0])
ExecIf(free) ==
  /\ IsNext("exec")
  /\ IF free THEN ExecFree ELSE UNCHANGED <<view, sessions>>
  /\ looper' = Tail(looper)
  /\ UNCHANGED <<EXITCODE, mThread, world, alive, intents, history>>

\* Variant with a mistake: the view's session is not looked at.
ExecOverSession == ExecIf(~isCmdRunning)

Exec == ExecIf(~isCmdRunning /\ mTerminalSession = NoSession)

\* finishIfRunning() sends SIGKILL to the pid of a session that is not done.
\* Before the process is created that is pid 0: the app's own process group.
\* onSessionFinished() is called at once, and again when the exit is handled.
StopSession(s) ==
  /\ sessions' = IF sessions[s].state = "running" THEN Becomes(s, "killed") ELSE sessions
  /\ alive' = (sessions[s].state # "new")
  /\ looper' = Append(Tail(looper), Finished(s))
  /\ posted' = posted + 1
  /\ stopped' = stopped + 1
StopNothing == looper' = Tail(looper) /\ UNCHANGED <<sessions, alive, posted, stopped>>
Stop ==
  /\ IsNext("stop")
  /\ StopsChroot
  /\ isCmdRunning' = FALSE
  /\ IF mTerminalSession # NoSession THEN StopSession(mTerminalSession) ELSE StopNothing
  /\ UNCHANGED <<mTerminalSession, EXITCODE, world, intents, executed>>

\* onStartCommand() for success and failed: the toast, and the callback that
\* refreshes a button.
Result ==
  /\ IsNext("success") \/ IsNext("failed")
  /\ StopsChroot
  /\ looper' = Tail(looper)
  /\ UNCHANGED <<view, sessions, EXITCODE, world, alive, intents, history>>

\* handleMessage() of the command's own session.
ExitSets(code) ==
  /\ IsNext("exited")
  /\ LET s == Head(looper).session
     IN /\ sessions' = Becomes(s, "done")
        /\ EXITCODE' = code
        /\ looper' = Append(Tail(looper), Finished(s))
  /\ posted' = posted + 1
  /\ UNCHANGED <<view, mThread, world, alive, intents, stopped, executed>>

\* Variant with a mistake: the code is not taken over.
ExitKeepsCode == ExitSets(EXITCODE)

ExitIsHandled == ExitSets(sessions[Head(looper).session].code)

\* The runnable: it does not ask which session the view has by now.
FinishedFrees(session, running) ==
  /\ IsNext("finished")
  /\ mTerminalSession' = session
  /\ isCmdRunning' = running
  /\ intents' = Append(intents, Intent(IF EXITCODE = 0 THEN "success" ELSE "failed"))
  /\ looper' = Tail(looper)
  /\ executed' = Head(looper).number
  /\ UNCHANGED <<sessions, EXITCODE, mThread, world, alive, stopped, posted>>

\* Variants with a mistake: the busy flag is forgotten; a command that was stopped
\* is taken for one that has been freed.
FinishedStaysBusy == FinishedFrees(NoSession, isCmdRunning)
FinishedIfBusy == FinishedFrees(IF isCmdRunning THEN NoSession ELSE mTerminalSession, FALSE)

FinishedRuns == FinishedFrees(NoSession, FALSE)
-----------------------------------------------------------------------------
Init ==
  /\ isCmdRunning = FALSE /\ mTerminalSession = NoSession /\ sessions = <<>>
  /\ EXITCODE = -1 /\ mThread = FALSE
  /\ laidOut = FALSE /\ alive = TRUE
  /\ looper = <<>> /\ intents = <<>>
  /\ execs = 0 /\ stops = 0 /\ others = 0
  /\ stopped = 0 /\ posted = 0 /\ executed = 0

\* The main thread handles what comes next.
Handle == Exec \/ Stop \/ Result \/ ExitIsHandled \/ FinishedRuns

\* Everybody else.
Around == /\ \/ UserExecutes \/ UserStops \/ IntentArrives \/ LayOut
             \/ OtherSessionExits \/ CommandEnds \/ KilledEnds \/ UmountEnds
          /\ UNCHANGED alive

Next == alive /\ (Handle \/ Around)
Spec == Init /\ [][Next]_vars

\* The system and its threads go on: intents arrive, the looper handles what it
\* has, the view is laid out, a process that was killed ends.  A command may run
\* for ever, and nobody has to send anything.
Fairness == /\ WF_vars(alive /\ Handle)
            /\ WF_vars(IntentArrives /\ UNCHANGED alive)
            /\ WF_vars(KilledEnds /\ UNCHANGED alive)
            /\ WF_vars(LayOut /\ UNCHANGED alive)
FairSpec == Spec /\ Fairness
-----------------------------------------------------------------------------
SessionNumbers == 1..Len(sessions)
Items == [kind : Kinds, session : Nat, number : Nat]
Intents == [kind : IntentKinds, session : Nat, number : Nat]

TypeOK ==
  /\ isCmdRunning \in BOOLEAN /\ mTerminalSession \in {NoSession} \cup SessionNumbers
  /\ sessions \in Seq([state : States, code : Int])
  /\ EXITCODE \in Int /\ mThread \in BOOLEAN
  /\ laidOut \in BOOLEAN /\ alive \in BOOLEAN
  /\ looper \in Seq(Items) /\ intents \in Seq(Intents)
  /\ execs \in Nat /\ stops \in Nat /\ others \in Nat
  /\ stopped \in Nat /\ posted \in Nat /\ executed \in Nat

\* Commands whose exit has not been handled: they may still run.
Unfinished == {s \in SessionNumbers : sessions[s].state # "done"}

\* A stop makes a session report its end twice, and the second report frees the
\* view from under the next command, so that one more can start beside it.  That
\* is the worst of it: every stop lets at most one command more run beside the
\* others, however the exits, runnables and intents of all of them meet.
RivalsNeedStops == Cardinality(Unfinished) <= 1 + stopped

\* Without stops there is one command at a time: only the view's own session can
\* be alive or have anything on the way, and the busy flag tells the truth.
OneAtATime ==
  stopped = 0 =>
    /\ Unfinished \subseteq {mTerminalSession}
    /\ isCmdRunning <=> mTerminalSession # NoSession
    /\ \A i \in DOMAIN looper :
         looper[i].kind \in {"exited", "finished"} => looper[i].session = mTerminalSession

\* The runnable reads a static that it shares with every session of the app.  As
\* long as nobody stops a command and no other session exits, what it reads is the
\* code of the command that it reports.
ReportsOwnExit ==
  stopped = 0 /\ others = 0 =>
    \A i \in DOMAIN looper :
      looper[i].kind = "finished" => EXITCODE = sessions[looper[i].session].code

\* A command that has ended or was killed gives the view back, unless the stop
\* killed the app.
ViewIsFreed ==
  \A s \in 1..MaxExecs :
    (mTerminalSession = s /\ sessions[s].state \in {"killed", "exited", "done"})
      ~> (mTerminalSession # s \/ ~alive)
-----------------------------------------------------------------------------
(* Why: the inductive invariant.                                             *)

\* Each runnable that was posted was posted for an exit or for a stop.  Each
\* session but the last has been followed by a runnable that freed the view.
Ledger ==
  /\ Cardinality(Unfinished) + posted = Len(sessions) + stopped
  /\ mTerminalSession = NoSession => Len(sessions) <= executed
  /\ Len(sessions) <= executed + 1

Waiting(i, kind) == i \in DOMAIN looper /\ looper[i].kind = kind

\* Runnables are executed in the order in which they were posted, each once.
RunnablesAreOrdered ==
  /\ executed <= posted
  /\ \A i \in DOMAIN looper : Waiting(i, "finished") =>
       looper[i].number > executed /\ looper[i].number <= posted
  /\ \A i, j \in DOMAIN looper :
       Waiting(i, "finished") /\ Waiting(j, "finished") /\ i < j
         => looper[i].number < looper[j].number

\* A session's exit is on its way once, between its process's end and cleanup.
ExitsAreOnTheWay ==
  /\ \A i \in DOMAIN looper : Waiting(i, "exited") =>
       looper[i].session \in SessionNumbers /\ sessions[looper[i].session].state = "exited"
  /\ \A i, j \in DOMAIN looper :
       Waiting(i, "exited") /\ Waiting(j, "exited") /\ i # j
         => looper[i].session # looper[j].session

\* Without stops a session is reported once, after its exit has been handled.
ReportedOnceDone ==
  stopped = 0 =>
    /\ \A i \in DOMAIN looper : Waiting(i, "finished") =>
         looper[i].session \in SessionNumbers /\ sessions[looper[i].session].state = "done"
    /\ \A i, j \in DOMAIN looper : Waiting(i, "finished") /\ Waiting(j, "finished") => i = j

InductiveInvariant ==
  /\ TypeOK /\ Ledger /\ RunnablesAreOrdered /\ ExitsAreOnTheWay
  /\ ReportedOnceDone /\ OneAtATime /\ ReportsOwnExit
=============================================================================
