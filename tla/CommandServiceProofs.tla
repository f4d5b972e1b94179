------------------------ MODULE CommandServiceProofs ------------------------
(***************************************************************************)
(* CommandService's safety, for any number of commands, stops and exits of *)
(* other sessions.                                                         *)
(***************************************************************************)
EXTENDS CommandService, SequenceTheorems, FiniteSetTheorems, TLAPS

-----------------------------------------------------------------------------
(* Sequences: what happens to the elements at an Append, a Tail, both.     *)

LEMMA Appended ==
  ASSUME NEW S, NEW q \in Seq(S), NEW x \in S
  PROVE  /\ Append(q, x) \in Seq(S) /\ Len(Append(q, x)) = Len(q) + 1
         /\ Append(q, x)[Len(q) + 1] = x
         /\ \A i \in 1..Len(q) : Append(q, x)[i] = q[i]
BY AppendProperties

LEMMA Headed ==
  ASSUME NEW S, NEW q \in Seq(S), q # <<>>
  PROVE  /\ Head(q) \in S /\ Head(q) = q[1] /\ 1 \in 1..Len(q)
         /\ Tail(q) \in Seq(S) /\ Len(Tail(q)) = Len(q) - 1
         /\ \A i \in 1..Len(q) - 1 : Tail(q)[i] = q[i + 1]
BY HeadTailProperties, EmptySeq

LEMMA Replaced ==
  ASSUME NEW S, NEW q \in Seq(S), NEW x \in S, NEW n \in 1..Len(q)
  PROVE  /\ [q EXCEPT ![n] = x] \in Seq(S) /\ Len([q EXCEPT ![n] = x]) = Len(q)
         /\ [q EXCEPT ![n] = x][n] = x
         /\ \A i \in 1..Len(q) : i # n => [q EXCEPT ![n] = x][i] = q[i]
BY ExceptSeq

LEMMA Functional ==
  ASSUME NEW S, NEW n \in Nat, NEW f \in [1..n -> S]
  PROVE  f \in Seq(S) /\ Len(f) = n
OBVIOUS

-----------------------------------------------------------------------------
(* Types.                                                                    *)

LEMMA IntentTypes ==
  ASSUME NEW kind \in IntentKinds
  PROVE  Intent(kind) \in Intents
BY DEF Intent, Item, Intents, NoSession

LEMMA IntentsAreItems == Intents \subseteq Items
BY DEF Intents, Items, Kinds

\* A session that gets another state.
LEMMA SessionTypes ==
  ASSUME TypeOK, NEW s \in SessionNumbers, NEW state \in States
  PROVE  /\ sessions[s] \in [state : States, code : Int]
         /\ Becomes(s, state) \in Seq([state : States, code : Int])
         /\ Len(Becomes(s, state)) = Len(sessions)
         /\ Becomes(s, state)[s] = [state |-> state, code |-> sessions[s].code]
         /\ \A t \in SessionNumbers : t # s => Becomes(s, state)[t] = sessions[t]
<1>1. sessions \in Seq([state : States, code : Int])
  BY DEF TypeOK
<1>2. sessions[s] \in [state : States, code : Int]
  BY <1>1, ElementOfSeq DEF SessionNumbers
<1>3. [sessions[s] EXCEPT !.state = state] = [state |-> state, code |-> sessions[s].code]
  BY <1>2
<1>4. [state |-> state, code |-> sessions[s].code] \in [state : States, code : Int]
  BY <1>2
<1>5. Becomes(s, state) = [sessions EXCEPT ![s] = [state |-> state, code |-> sessions[s].code]]
  BY <1>3 DEF Becomes
<1> QED
  BY <1>1, <1>2, <1>4, <1>5, Replaced DEF SessionNumbers

\* Nobody but the main thread.
LEMMA AroundTypes == TypeOK /\ Around => TypeOK'
<1> SUFFICES ASSUME TypeOK, Around PROVE TypeOK'
  OBVIOUS
<1> USE DEF TypeOK, view, world, history
<1>0. looper \in Seq(Items) /\ intents \in Seq(Intents)
  OBVIOUS
<1>1. CASE UserExecutes
  <2>1. Append(intents, Intent("exec")) \in Seq(Intents)
    BY <1>0, IntentTypes, Appended DEF IntentKinds
  <2> QED
    BY <1>1, <2>1 DEF UserExecutes, Around, SessionNumbers
<1>2. CASE UserStops
  <2>1. Append(intents, Intent("stop")) \in Seq(Intents)
    BY <1>0, IntentTypes, Appended DEF IntentKinds
  <2> QED
    BY <1>2, <2>1 DEF UserStops, Around, SessionNumbers
<1>3. CASE IntentArrives
  <2>1. intents # <<>>
    BY <1>3 DEF IntentArrives
  <2>2. Head(intents) \in Items /\ Tail(intents) \in Seq(Intents)
    BY <1>0, <2>1, Headed, IntentsAreItems
  <2>3. Append(looper, Head(intents)) \in Seq(Items)
    BY <1>0, <2>2, Appended
  <2> QED
    BY <1>3, <2>2, <2>3 DEF IntentArrives, Around, SessionNumbers
<1>4. CASE LayOut
  <2> DEFINE started == [s \in DOMAIN sessions |->
                    IF sessions[s].state = "new" THEN [sessions[s] EXCEPT !.state = "running"]
                    ELSE sessions[s]]
  <2>1. DOMAIN sessions = SessionNumbers
    BY DEF SessionNumbers
  <2>2. \A s \in SessionNumbers : sessions[s] \in [state : States, code : Int]
    BY ElementOfSeq DEF SessionNumbers
  <2>3. started \in [1..Len(sessions) -> [state : States, code : Int]]
    BY <2>1, <2>2 DEF States, SessionNumbers
  <2> HIDE DEF started
  <2>6. Len(sessions) \in Nat
    OBVIOUS
  <2>4. started \in Seq([state : States, code : Int]) /\ Len(started) = Len(sessions)
    BY <2>3, <2>6, Functional
  <2>5. sessions' = started /\ laidOut' = TRUE
        /\ UNCHANGED <<view, EXITCODE, mThread, execs, stops, others, looper, intents, history, alive>>
    BY <1>4 DEF LayOut, Around, started
  <2> QED
    BY <2>4, <2>5 DEF SessionNumbers
<1>5. CASE OtherSessionExits
  BY <1>5, CodesAssumption DEF OtherSessionExits, Around, SessionNumbers
<1>6. ASSUME NEW s \in DOMAIN sessions, NEW state, NEW code \in Int, WaiterSends(s, state, code)
      PROVE  TypeOK'
  <2>1. s \in SessionNumbers
    BY DEF SessionNumbers
  <2>2. [state |-> "exited", code |-> code] \in [state : States, code : Int]
    BY DEF States
  <2>3. /\ [sessions EXCEPT ![s] = [state |-> "exited", code |-> code]]
              \in Seq([state : States, code : Int])
        /\ Len([sessions EXCEPT ![s] = [state |-> "exited", code |-> code]]) = Len(sessions)
    BY <2>1, <2>2, Replaced DEF SessionNumbers
  <2>4. Exited(s) \in Items
    BY <2>1 DEF Exited, Item, Items, Kinds, SessionNumbers
  <2>5. Append(looper, Exited(s)) \in Seq(Items)
    BY <1>0, <2>4, Appended
  <2>6. /\ sessions' = [sessions EXCEPT ![s] = [state |-> "exited", code |-> code]]
        /\ looper' = Append(looper, Exited(s))
        /\ UNCHANGED <<view, EXITCODE, mThread, world, intents, history, alive>>
    BY <1>6, Zenon DEF WaiterSends, Around
  <2>7. sessions' \in Seq([state : States, code : Int]) /\ Len(sessions') = Len(sessions)
    BY <2>3, <2>6, Zenon
  <2>8. looper' \in Seq(Items)
    BY <2>5, <2>6, Zenon
  <2>9. /\ isCmdRunning' = isCmdRunning /\ mTerminalSession' = mTerminalSession
        /\ EXITCODE' = EXITCODE /\ mThread' = mThread /\ laidOut' = laidOut /\ alive' = alive
        /\ intents' = intents /\ execs' = execs /\ stops' = stops /\ others' = others
        /\ stopped' = stopped /\ posted' = posted /\ executed' = executed
    BY <2>6, Zenon
  <2>10. SessionNumbers' = SessionNumbers
    BY <2>7 DEF SessionNumbers
  <2> QED
    BY <2>7, <2>8, <2>9, <2>10, SMT
<1>7. CASE CommandEnds
  BY <1>6, <1>7, CodesAssumption DEF CommandEnds
<1>8. CASE KilledEnds
  <2>1. \A code \in Codes \cup {Killed} : code \in Int
    BY CodesAssumption DEF Killed
  <2> QED
    BY <1>6, <1>8, <2>1, Zenon DEF KilledEnds
<1>9. CASE UmountEnds
  BY <1>9 DEF UmountEnds, Around, SessionNumbers
<1> QED
  BY <1>1, <1>2, <1>3, <1>4, <1>5, <1>7, <1>8, <1>9 DEF Around

\* The session whose exit comes next.
LEMMA NextExit ==
  ASSUME looper \in Seq(Items), ExitsAreOnTheWay, IsNext("exited")
  PROVE  /\ Head(looper) = looper[1] /\ Waiting(1, "exited")
         /\ Head(looper).session \in SessionNumbers
         /\ sessions[Head(looper).session].state = "exited"
<1>1. Head(looper) = looper[1] /\ 1 \in DOMAIN looper
  BY Headed DEF IsNext
<1>2. Waiting(1, "exited")
  BY <1>1 DEF IsNext, Waiting
<1> QED
  BY <1>1, <1>2 DEF ExitsAreOnTheWay

\* The main thread.
LEMMA HandleTypes == TypeOK /\ ExitsAreOnTheWay /\ Handle => TypeOK'
<1> SUFFICES ASSUME TypeOK, ExitsAreOnTheWay, Handle PROVE TypeOK'
  OBVIOUS
<1> USE DEF TypeOK, view, world, history
<1>0. /\ looper \in Seq(Items) /\ intents \in Seq(Intents)
      /\ sessions \in Seq([state : States, code : Int])
      /\ looper # <<>>
  BY DEF Handle, Exec, ExecIf, Stop, Result, ExitIsHandled, ExitSets, FinishedRuns, FinishedFrees, IsNext
<1>1. Head(looper) \in Items /\ Tail(looper) \in Seq(Items)
  BY <1>0, Headed
<1>2. StopsChroot => mThread' \in BOOLEAN
  BY DEF StopsChroot
<1>3. CASE Exec
  <2> DEFINE new == [state |-> IF laidOut THEN "running" ELSE "new", code |-> 0]
  <2>1. new \in [state : States, code : Int]
    BY DEF States
  <2>2. Append(sessions, new) \in Seq([state : States, code : Int])
        /\ Len(Append(sessions, new)) = Len(sessions) + 1
    BY <1>0, <2>1, Appended
  <2>3. /\ \/ /\ sessions' = Append(sessions, new) /\ isCmdRunning' = TRUE
              /\ mTerminalSession' = Len(sessions) + 1
           \/ UNCHANGED <<view, sessions>>
        /\ looper' = Tail(looper)
        /\ UNCHANGED <<EXITCODE, mThread, world, alive, intents, history>>
    BY <1>3 DEF Exec, ExecIf, ExecFree
  <2> HIDE DEF new
  <2>4. CASE UNCHANGED <<view, sessions>>
    BY <1>1, <2>3, <2>4 DEF SessionNumbers
  <2>5. CASE /\ sessions' = Append(sessions, new) /\ isCmdRunning' = TRUE
             /\ mTerminalSession' = Len(sessions) + 1
    <3>1. Len(sessions) \in Nat
      OBVIOUS
    <3>2. sessions' \in Seq([state : States, code : Int]) /\ Len(sessions') = Len(sessions) + 1
      BY <2>2, <2>5, Zenon
    <3> QED
      BY <1>1, <2>3, <2>5, <3>1, <3>2 DEF SessionNumbers
  <2> QED
    BY <2>3, <2>4, <2>5
<1>4. ASSUME NEW s \in SessionNumbers
      PROVE  Append(Tail(looper), Finished(s)) \in Seq(Items)
  <2>1. Finished(s) \in Items
    BY DEF Finished, Item, Items, Kinds, SessionNumbers
  <2> QED
    BY <1>1, <2>1, Appended
<1>5. CASE Stop
  <2>1. CASE mTerminalSession = NoSession
    BY <1>1, <1>2, <1>5, <2>1 DEF Stop, StopNothing, SessionNumbers
  <2>2. CASE mTerminalSession # NoSession
    <3>1. mTerminalSession \in SessionNumbers
      BY <2>2
    <3>2. /\ Becomes(mTerminalSession, "killed") \in Seq([state : States, code : Int])
          /\ Len(Becomes(mTerminalSession, "killed")) = Len(sessions)
      BY <3>1, SessionTypes DEF States
    <3>3. /\ sessions' = Becomes(mTerminalSession, "killed") \/ sessions' = sessions
          /\ alive' \in BOOLEAN /\ posted' = posted + 1 /\ stopped' = stopped + 1
          /\ looper' = Append(Tail(looper), Finished(mTerminalSession))
          /\ mThread' \in BOOLEAN /\ isCmdRunning' = FALSE
          /\ UNCHANGED <<mTerminalSession, EXITCODE, world, intents, executed>>
      BY <1>2, <1>5, <2>2 DEF Stop, StopSession
    <3>4. sessions' \in Seq([state : States, code : Int]) /\ Len(sessions') = Len(sessions)
      BY <1>0, <3>2, <3>3, Zenon
    <3>5. looper' \in Seq(Items)
      BY <1>4, <3>1, <3>3
    <3>6. SessionNumbers' = SessionNumbers
      BY <3>4 DEF SessionNumbers
    <3>7. posted' \in Nat /\ stopped' \in Nat
      BY <3>3
    <3> QED
      BY <3>3, <3>4, <3>5, <3>6, <3>7, Zenon
  <2> QED
    BY <2>1, <2>2
<1>6. CASE Result
  BY <1>1, <1>2, <1>6 DEF Result, SessionNumbers
<1>7. CASE ExitIsHandled
  <2> DEFINE s == Head(looper).session
  <2>0. IsNext("exited")
    BY <1>7 DEF ExitIsHandled, ExitSets
  <2>1. s \in SessionNumbers
    BY <1>0, <2>0, NextExit
  <2>2. /\ Becomes(s, "done") \in Seq([state : States, code : Int])
        /\ Len(Becomes(s, "done")) = Len(sessions)
        /\ sessions[s].code \in Int
    BY <2>1, SessionTypes DEF States
  <2>3. /\ sessions' = Becomes(s, "done") /\ EXITCODE' = sessions[s].code
        /\ looper' = Append(Tail(looper), Finished(s)) /\ posted' = posted + 1
        /\ UNCHANGED <<view, mThread, world, alive, intents, stopped, executed>>
    BY <1>7 DEF ExitIsHandled, ExitSets
  <2> HIDE DEF s
  <2> QED
    BY <1>4, <2>1, <2>2, <2>3 DEF SessionNumbers
<1>8. CASE FinishedRuns
  <2>1. Intent(IF EXITCODE = 0 THEN "success" ELSE "failed") \in Intents
    BY IntentTypes DEF IntentKinds
  <2>2. Append(intents, Intent(IF EXITCODE = 0 THEN "success" ELSE "failed")) \in Seq(Intents)
    BY <1>0, <2>1, Appended
  <2>3. Head(looper).number \in Nat
    BY <1>1 DEF Items
  <2> QED
    BY <1>1, <1>8, <2>2, <2>3 DEF FinishedRuns, FinishedFrees, SessionNumbers
<1> QED
  BY <1>3, <1>5, <1>6, <1>7, <1>8 DEF Handle

-----------------------------------------------------------------------------
(* What a step does to the variables of the invariant.                       *)

\* To the looper: an item more at the end, one less in front, or both.
AddsTo(q, r, x) ==
  /\ Len(r) = Len(q) + 1 /\ r[Len(q) + 1] = x
  /\ \A i \in 1..Len(q) : r[i] = q[i]
TakesFrom(q, r) ==
  /\ Len(q) # 0 /\ Len(r) = Len(q) - 1
  /\ \A i \in 1..Len(q) - 1 : r[i] = q[i + 1]
ShiftsIn(q, r, x) ==
  /\ Len(q) # 0 /\ Len(r) = Len(q) /\ r[Len(q)] = x
  /\ \A i \in 1..Len(q) - 1 : r[i] = q[i + 1]
Adds(x) == AddsTo(looper, looper', x)
Takes == TakesFrom(looper, looper')
Shifts(x) == ShiftsIn(looper, looper', x)

\* To the sessions: s gets another state, and its code if it had none.
Moves(s, state) ==
  /\ s \in SessionNumbers /\ Len(sessions') = Len(sessions)
  /\ sessions'[s].state = state
  /\ \A t \in SessionNumbers : t # s => sessions'[t] = sessions[t]

Quiet ==
  /\ UNCHANGED <<isCmdRunning, mTerminalSession, sessions, looper, stopped, posted, executed>>
  /\ (EXITCODE' = EXITCODE /\ others' = others) \/ others' = others + 1
Arrival ==
  /\ UNCHANGED <<isCmdRunning, mTerminalSession, sessions, EXITCODE, others, stopped, posted, executed>>
  /\ \E x \in Intents : Adds(x)
Starting ==
  /\ UNCHANGED <<isCmdRunning, mTerminalSession, EXITCODE, others, looper, stopped, posted, executed>>
  /\ Len(sessions') = Len(sessions)
  /\ \A s \in SessionNumbers :
       /\ sessions'[s].code = sessions[s].code
       /\ \/ sessions'[s].state = sessions[s].state
          \/ sessions[s].state = "new" /\ sessions'[s].state = "running"
Ending ==
  /\ UNCHANGED <<isCmdRunning, mTerminalSession, EXITCODE, others, stopped, posted, executed>>
  /\ \E s \in SessionNumbers : /\ sessions[s].state \in {"running", "killed"}
                               /\ Moves(s, "exited") /\ Adds(Exited(s))
Dropping ==
  /\ UNCHANGED <<mTerminalSession, sessions, EXITCODE, others, stopped, posted, executed>>
  /\ Takes
  /\ isCmdRunning' = isCmdRunning \/ (mTerminalSession = NoSession /\ isCmdRunning' = FALSE)
Executing ==
  /\ UNCHANGED <<EXITCODE, others, stopped, posted, executed>>
  /\ Takes
  /\ mTerminalSession = NoSession /\ mTerminalSession' = Len(sessions) + 1
  /\ isCmdRunning' = TRUE
  /\ Len(sessions') = Len(sessions) + 1
  /\ \A s \in SessionNumbers : sessions'[s] = sessions[s]
  /\ sessions'[Len(sessions) + 1].state \in {"new", "running"}
Stopping ==
  /\ UNCHANGED <<mTerminalSession, EXITCODE, others, executed>>
  /\ mTerminalSession # NoSession
  /\ UNCHANGED sessions \/ (/\ Moves(mTerminalSession, "killed")
                            /\ sessions[mTerminalSession].state = "running")
  /\ Shifts(Finished(mTerminalSession))
  /\ posted' = posted + 1 /\ stopped' = stopped + 1
Exiting ==
  /\ UNCHANGED <<isCmdRunning, mTerminalSession, others, stopped, executed>>
  /\ looper[1].kind = "exited"
  /\ LET s == looper[1].session
     IN /\ Moves(s, "done") /\ sessions'[s].code = sessions[s].code
        /\ EXITCODE' = sessions[s].code
        /\ Shifts(Finished(s))
  /\ posted' = posted + 1
Freeing ==
  /\ UNCHANGED <<sessions, EXITCODE, others, stopped, posted>>
  /\ looper[1].kind = "finished" /\ Takes
  /\ mTerminalSession' = NoSession /\ isCmdRunning' = FALSE
  /\ executed' = looper[1].number

LEMMA AroundShapes ==
  TypeOK /\ Around => Quiet \/ Arrival \/ Starting \/ Ending
<1> SUFFICES ASSUME TypeOK, Around PROVE Quiet \/ Arrival \/ Starting \/ Ending
  OBVIOUS
<1> USE DEF view, world, history
<1>0. /\ looper \in Seq(Items) /\ intents \in Seq(Intents)
      /\ sessions \in Seq([state : States, code : Int])
  BY DEF TypeOK
<1>1. CASE UserExecutes
  BY <1>1, Zenon DEF UserExecutes, Quiet
<1>2. CASE UserStops
  BY <1>2, Zenon DEF UserStops, Quiet
<1>3. CASE IntentArrives
  <2>1. intents # <<>>
    BY <1>3 DEF IntentArrives
  <2>2. Head(intents) \in Intents /\ Head(intents) \in Items
    BY <1>0, <2>1, Headed, IntentsAreItems
  <2>3. looper' = Append(looper, Head(intents))
    BY <1>3 DEF IntentArrives
  <2>4. Adds(Head(intents))
    BY <1>0, <2>2, <2>3, Appended DEF Adds, AddsTo
  <2>5. UNCHANGED <<isCmdRunning, mTerminalSession, sessions, EXITCODE, others, stopped, posted, executed>>
    BY <1>3, Zenon DEF IntentArrives
  <2> QED
    BY <2>2, <2>4, <2>5, Zenon DEF Arrival
<1>4. CASE LayOut
  <2>1. \A s \in SessionNumbers : sessions[s] \in [state : States, code : Int]
    BY <1>0, ElementOfSeq DEF SessionNumbers
  <2>2. DOMAIN sessions = SessionNumbers /\ Len(sessions) \in Nat
    BY <1>0 DEF SessionNumbers
  <2>3. sessions' = [s \in DOMAIN sessions |->
                    IF sessions[s].state = "new" THEN [sessions[s] EXCEPT !.state = "running"]
                    ELSE sessions[s]]
    BY <1>4, Zenon DEF LayOut
  <2>4. sessions' \in Seq([state : States, code : Int])
    BY AroundTypes DEF TypeOK
  <2>5. Len(sessions') = Len(sessions)
    BY <2>2, <2>3, <2>4 DEF SessionNumbers
  <2>6. \A s \in SessionNumbers :
          /\ sessions'[s].code = sessions[s].code
          /\ \/ sessions'[s].state = sessions[s].state
             \/ sessions[s].state = "new" /\ sessions'[s].state = "running"
    BY <2>1, <2>2, <2>3
  <2>7. UNCHANGED <<isCmdRunning, mTerminalSession, EXITCODE, others, looper, stopped, posted, executed>>
    BY <1>4, Zenon DEF LayOut
  <2> QED
    BY <2>5, <2>6, <2>7, Zenon DEF Starting
<1>5. CASE OtherSessionExits
  BY <1>5, Zenon DEF OtherSessionExits, Quiet
<1>6. ASSUME NEW s \in DOMAIN sessions, NEW state \in {"running", "killed"}, NEW code \in Int,
             WaiterSends(s, state, code)
      PROVE  Ending
  <2>1. s \in SessionNumbers
    BY <1>0 DEF SessionNumbers
  <2>2. [state |-> "exited", code |-> code] \in [state : States, code : Int]
    BY DEF States
  <2>3. sessions' = [sessions EXCEPT ![s] = [state |-> "exited", code |-> code]]
    BY <1>6, Zenon DEF WaiterSends
  <2>4. Moves(s, "exited")
    BY <1>0, <2>1, <2>2, <2>3, Replaced DEF Moves, SessionNumbers
  <2>5. Exited(s) \in Items
    BY <2>1, <1>0 DEF Exited, Item, Items, Kinds, SessionNumbers
  <2>6. looper' = Append(looper, Exited(s))
    BY <1>6, Zenon DEF WaiterSends
  <2>7. Adds(Exited(s))
    BY <1>0, <2>5, <2>6, Appended DEF Adds, AddsTo
  <2>8. /\ sessions[s].state \in {"running", "killed"}
        /\ UNCHANGED <<isCmdRunning, mTerminalSession, EXITCODE, others, stopped, posted, executed>>
    BY <1>6, Zenon DEF WaiterSends
  <2> QED
    BY <2>1, <2>4, <2>7, <2>8, Zenon DEF Ending
<1>7. CASE CommandEnds
  BY <1>6, <1>7, CodesAssumption DEF CommandEnds
<1>8. CASE KilledEnds
  <2>1. \A code \in Codes \cup {Killed} : code \in Int
    BY CodesAssumption DEF Killed
  <2> QED
    BY <1>6, <1>8, <2>1, Zenon DEF KilledEnds
<1>9. CASE UmountEnds
  BY <1>9, Zenon DEF UmountEnds, Quiet
<1> QED
  BY <1>1, <1>2, <1>3, <1>4, <1>5, <1>7, <1>8, <1>9 DEF Around

LEMMA HandleShapes ==
  TypeOK /\ ExitsAreOnTheWay /\ Handle
    => Dropping \/ Executing \/ Stopping \/ Exiting \/ Freeing
<1> SUFFICES ASSUME TypeOK, ExitsAreOnTheWay, Handle
             PROVE  Dropping \/ Executing \/ Stopping \/ Exiting \/ Freeing
  OBVIOUS
<1> USE DEF view, world, history
<1>0. /\ looper \in Seq(Items) /\ sessions \in Seq([state : States, code : Int])
      /\ looper # <<>> /\ mTerminalSession \in {NoSession} \cup SessionNumbers
      /\ Len(sessions) \in Nat
  BY DEF TypeOK, Handle, Exec, ExecIf, Stop, Result, ExitIsHandled, ExitSets, FinishedRuns, FinishedFrees, IsNext
<1>1. /\ Head(looper) = looper[1] /\ Tail(looper) \in Seq(Items)
      /\ Len(looper) \in Nat \ {0} /\ Len(Tail(looper)) = Len(looper) - 1
      /\ \A i \in 1..Len(looper) - 1 : Tail(looper)[i] = looper[i + 1]
  BY <1>0, Headed, EmptySeq
<1>2. looper' = Tail(looper) => Takes
  BY <1>1 DEF Takes, TakesFrom
<1>3. ASSUME NEW s \in SessionNumbers, looper' = Append(Tail(looper), Finished(s))
      PROVE  Shifts(Finished(s))
  <2>1. Finished(s) \in Items
    BY <1>0 DEF Finished, Item, Items, Kinds, SessionNumbers, TypeOK
  <2>2. /\ Len(looper') = Len(Tail(looper)) + 1
        /\ looper'[Len(Tail(looper)) + 1] = Finished(s)
        /\ \A i \in 1..Len(Tail(looper)) : looper'[i] = Tail(looper)[i]
    BY <1>1, <1>3, <2>1, Appended
  <2> QED
    BY <1>1, <2>2 DEF Shifts, ShiftsIn
<1>4. ASSUME NEW s \in SessionNumbers, NEW state \in States, sessions' = Becomes(s, state)
      PROVE  Moves(s, state) /\ sessions'[s].code = sessions[s].code
  <2>1. /\ Len(sessions') = Len(sessions)
        /\ sessions'[s] = [state |-> state, code |-> sessions[s].code]
        /\ \A t \in SessionNumbers : t # s => sessions'[t] = sessions[t]
    BY <1>4, SessionTypes
  <2> QED
    BY <2>1 DEF Moves
<1>5. CASE Exec
  <2> DEFINE new == [state |-> IF laidOut THEN "running" ELSE "new", code |-> 0]
  <2>1. /\ \/ /\ ~isCmdRunning /\ mTerminalSession = NoSession
              /\ sessions' = Append(sessions, new) /\ isCmdRunning' = TRUE
              /\ mTerminalSession' = Len(sessions) + 1
           \/ UNCHANGED <<isCmdRunning, mTerminalSession, sessions>>
        /\ looper' = Tail(looper)
        /\ UNCHANGED <<EXITCODE, others, stopped, posted, executed>>
    BY <1>5, Zenon DEF Exec, ExecIf, ExecFree
  <2>2. new \in [state : States, code : Int] /\ new.state \in {"new", "running"}
    BY DEF States
  <2>3. CASE UNCHANGED <<isCmdRunning, mTerminalSession, sessions>>
    BY <1>2, <2>1, <2>3, Zenon DEF Dropping
  <2>4. CASE ~UNCHANGED <<isCmdRunning, mTerminalSession, sessions>>
    <3> HIDE DEF new
    <3>1. sessions' = Append(sessions, new)
      BY <2>1, <2>4
    <3>2. /\ Len(sessions') = Len(sessions) + 1
          /\ \A s \in SessionNumbers : sessions'[s] = sessions[s]
          /\ sessions'[Len(sessions) + 1].state \in {"new", "running"}
      BY <1>0, <2>2, <3>1, Appended DEF SessionNumbers
    <3> QED
      BY <1>2, <2>1, <2>4, <3>2, Zenon DEF Executing
  <2> QED
    BY <2>3, <2>4
<1>6. CASE Stop
  <2>1. /\ isCmdRunning' = FALSE
        /\ UNCHANGED <<mTerminalSession, EXITCODE, others, executed>>
    BY <1>6, Zenon DEF Stop
  <2>2. CASE mTerminalSession = NoSession
    <3>1. looper' = Tail(looper) /\ UNCHANGED <<sessions, posted, stopped>>
      BY <1>6, <2>2, Zenon DEF Stop, StopNothing
    <3> QED
      BY <1>2, <2>1, <2>2, <3>1, Zenon DEF Dropping
  <2>3. CASE mTerminalSession # NoSession
    <3>1. mTerminalSession \in SessionNumbers
      BY <1>0, <2>3
    <3>2. /\ sessions' = IF sessions[mTerminalSession].state = "running"
                         THEN Becomes(mTerminalSession, "killed") ELSE sessions
          /\ looper' = Append(Tail(looper), Finished(mTerminalSession))
          /\ posted' = posted + 1 /\ stopped' = stopped + 1
      BY <1>6, <2>3, Zenon DEF Stop, StopSession
    <3>3. Shifts(Finished(mTerminalSession))
      BY <1>3, <3>1, <3>2
    <3>4. UNCHANGED sessions \/ (/\ Moves(mTerminalSession, "killed")
                                 /\ sessions[mTerminalSession].state = "running")
      <4>1. CASE sessions[mTerminalSession].state = "running"
        BY <1>4, <3>1, <3>2, <4>1 DEF States
      <4>2. CASE sessions[mTerminalSession].state # "running"
        BY <3>2, <4>2
      <4> QED
        BY <4>1, <4>2
    <3> QED
      BY <2>1, <2>3, <3>2, <3>3, <3>4, Zenon DEF Stopping
  <2> QED
    BY <2>2, <2>3
<1>7. CASE Result
  BY <1>2, <1>7, Zenon DEF Result, Dropping
<1>8. CASE ExitIsHandled
  <2> DEFINE s == looper[1].session
  <2>1. IsNext("exited")
    BY <1>8 DEF ExitIsHandled, ExitSets
  <2>2. s \in SessionNumbers /\ looper[1].kind = "exited"
    BY <1>0, <2>1, NextExit DEF Waiting
  <2>3. /\ sessions' = Becomes(s, "done") /\ EXITCODE' = sessions[s].code
        /\ looper' = Append(Tail(looper), Finished(s)) /\ posted' = posted + 1
        /\ UNCHANGED <<isCmdRunning, mTerminalSession, others, stopped, executed>>
    BY <1>1, <1>8 DEF ExitIsHandled, ExitSets
  <2>4. Moves(s, "done") /\ sessions'[s].code = sessions[s].code
    BY <1>4, <2>2, <2>3 DEF States
  <2>5. Shifts(Finished(s))
    BY <1>3, <2>2, <2>3
  <2> QED
    BY <2>2, <2>3, <2>4, <2>5, Zenon DEF Exiting
<1>9. CASE FinishedRuns
  <2>1. /\ looper' = Tail(looper) /\ mTerminalSession' = NoSession /\ isCmdRunning' = FALSE
        /\ UNCHANGED <<sessions, EXITCODE, others, stopped, posted>>
    BY <1>9, Zenon DEF FinishedRuns, FinishedFrees
  <2>2. looper[1].kind = "finished" /\ executed' = looper[1].number
    BY <1>1, <1>9 DEF FinishedRuns, FinishedFrees, IsNext
  <2> QED
    BY <1>2, <2>1, <2>2, Zenon DEF Freeing
<1> QED
  BY <1>5, <1>6, <1>7, <1>8, <1>9 DEF Handle

-----------------------------------------------------------------------------
(* Runnables keep their order.                                               *)

Ordered(q, lo, hi) ==
  /\ lo <= hi
  /\ \A i \in 1..Len(q) : q[i].kind = "finished" => lo < q[i].number /\ q[i].number <= hi
  /\ \A i, j \in 1..Len(q) :
       q[i].kind = "finished" /\ q[j].kind = "finished" /\ i < j => q[i].number < q[j].number

LEMMA ItemTypes ==
  ASSUME NEW q \in Seq(Items)
  PROVE  /\ Len(q) \in Nat /\ DOMAIN q = 1..Len(q)
         /\ \A i \in 1..Len(q) : q[i] \in Items /\ q[i].number \in Nat
<1>1. \A i \in 1..Len(q) : q[i] \in Items
  BY ElementOfSeq
<1> QED
  BY <1>1 DEF Items

LEMMA IntentsOnly ==
  ASSUME NEW x \in Intents
  PROVE  x.kind # "finished" /\ x.kind # "exited"
BY DEF Intents, IntentKinds

LEMMA OrderedAdds ==
  ASSUME NEW q \in Seq(Items), NEW r \in Seq(Items), NEW lo \in Nat, NEW hi \in Nat, NEW x,
         Ordered(q, lo, hi), AddsTo(q, r, x), x.kind # "finished"
  PROVE  Ordered(r, lo, hi)
<1>1. /\ Len(q) \in Nat /\ Len(r) \in Nat
      /\ \A i \in 1..Len(q) : q[i].number \in Nat
      /\ \A i \in 1..Len(r) : r[i].number \in Nat
  BY ItemTypes
<1>2. \A i \in 1..Len(r) : r[i].kind = "finished" => i \in 1..Len(q) /\ r[i] = q[i]
  BY <1>1 DEF AddsTo
<1> QED
  BY <1>1, <1>2 DEF Ordered

LEMMA OrderedTakes ==
  ASSUME NEW q \in Seq(Items), NEW r \in Seq(Items), NEW lo \in Nat, NEW hi \in Nat,
         Ordered(q, lo, hi), TakesFrom(q, r)
  PROVE  /\ Ordered(r, lo, hi)
         /\ q[1].kind = "finished" => Ordered(r, q[1].number, hi)
<1>1. /\ Len(q) \in Nat /\ Len(r) \in Nat
      /\ \A i \in 1..Len(q) : q[i].number \in Nat
      /\ \A i \in 1..Len(r) : r[i].number \in Nat
  BY ItemTypes
<1>2. /\ 1 \in 1..Len(q)
      /\ \A i \in 1..Len(r) : i + 1 \in 1..Len(q) /\ 1 < i + 1 /\ r[i] = q[i + 1]
  BY <1>1 DEF TakesFrom
<1>3. ASSUME NEW i \in 1..Len(r), NEW j \in 1..Len(r), i < j,
             r[i].kind = "finished", r[j].kind = "finished"
      PROVE  r[i].number < r[j].number
  <2>1. i + 1 < j + 1
    BY <1>1, <1>3
  <2> QED
    BY <1>2, <1>3, <2>1 DEF Ordered
<1>4. Ordered(r, lo, hi)
  BY <1>1, <1>2, <1>3 DEF Ordered
<1>5. ASSUME q[1].kind = "finished"
      PROVE  Ordered(r, q[1].number, hi)
  <2>1. \A i \in 1..Len(r) : r[i].kind = "finished" => q[1].number < r[i].number
    BY <1>2, <1>5 DEF Ordered
  <2>2. q[1].number <= hi
    BY <1>2, <1>5 DEF Ordered
  <2> QED
    BY <1>4, <2>1, <2>2 DEF Ordered
<1> QED
  BY <1>4, <1>5

LEMMA OrderedShifts ==
  ASSUME NEW q \in Seq(Items), NEW r \in Seq(Items), NEW lo \in Nat, NEW hi \in Nat, NEW x,
         Ordered(q, lo, hi), ShiftsIn(q, r, x), x.kind = "finished", x.number = hi + 1
  PROVE  Ordered(r, lo, hi + 1)
<1>1. /\ Len(q) \in Nat /\ Len(r) \in Nat
      /\ \A i \in 1..Len(q) : q[i].number \in Nat
      /\ \A i \in 1..Len(r) : r[i].number \in Nat
  BY ItemTypes
<1>2. \A i \in 1..Len(r) : \/ i = Len(q) /\ r[i] = x
                           \/ i < Len(q) /\ i + 1 \in 1..Len(q) /\ r[i] = q[i + 1]
  BY <1>1 DEF ShiftsIn
<1>3. \A i \in 1..Len(r) : r[i].kind = "finished" =>
        /\ lo < r[i].number /\ r[i].number <= hi + 1
        /\ i # Len(q) => r[i].number <= hi
  BY <1>1, <1>2 DEF Ordered
<1>4. ASSUME NEW i \in 1..Len(r), NEW j \in 1..Len(r), i < j,
             r[i].kind = "finished", r[j].kind = "finished"
      PROVE  r[i].number < r[j].number
  <2>1. i < Len(q) /\ i # Len(q) /\ i + 1 \in 1..Len(q) /\ r[i] = q[i + 1] /\ i + 1 < j + 1
    BY <1>1, <1>2, <1>4 DEF ShiftsIn
  <2>2. CASE j = Len(q)
    <3>1. r[j].number = hi + 1
      BY <1>1, <1>2, <2>2
    <3>2. r[i].number \in Nat /\ r[i].number <= hi
      BY <1>1, <1>3, <1>4, <2>1
    <3> QED
      BY <3>1, <3>2
  <2>3. CASE j # Len(q)
    <3>1. j + 1 \in 1..Len(q) /\ r[j] = q[j + 1]
      BY <1>2, <2>3
    <3> QED
      BY <1>4, <2>1, <3>1 DEF Ordered
  <2> QED
    BY <2>2, <2>3
<1>5. lo <= hi + 1
  BY DEF Ordered
<1> QED
  BY <1>3, <1>4, <1>5 DEF Ordered

LEMMA OrderedLooper ==
  ASSUME TypeOK
  PROVE  RunnablesAreOrdered <=> Ordered(looper, executed, posted)
BY ItemTypes DEF RunnablesAreOrdered, Ordered, Waiting, TypeOK

LEMMA OrderedPrimed ==
  ASSUME TypeOK', Ordered(looper', executed', posted')
  PROVE  RunnablesAreOrdered'
<1>1. looper' \in Seq(Items)
  BY DEF TypeOK
<1>2. DOMAIN looper' = 1..Len(looper')
  BY <1>1, ItemTypes
<1> QED
  BY <1>2 DEF RunnablesAreOrdered, Ordered, Waiting

LEMMA OrderStep ==
  ASSUME TypeOK, TypeOK', RunnablesAreOrdered,
         Quiet \/ Arrival \/ Starting \/ Ending
           \/ Dropping \/ Executing \/ Stopping \/ Exiting \/ Freeing
  PROVE  RunnablesAreOrdered'
<1>0. /\ looper \in Seq(Items) /\ looper' \in Seq(Items)
      /\ posted \in Nat /\ executed \in Nat
  BY DEF TypeOK
<1>1. Ordered(looper, executed, posted)
  BY OrderedLooper
<1>2. Ordered(looper', executed', posted') => RunnablesAreOrdered'
  BY OrderedPrimed
<1>3. ASSUME Quiet \/ Starting
      PROVE  Ordered(looper', executed', posted')
  BY <1>1, <1>3 DEF Quiet, Starting
<1>4. ASSUME NEW x, Adds(x), x.kind # "finished", UNCHANGED <<posted, executed>>
      PROVE  Ordered(looper', executed', posted')
  BY <1>0, <1>1, <1>4, OrderedAdds DEF Adds
<1>5. ASSUME Arrival
      PROVE  Ordered(looper', executed', posted')
  BY <1>4, <1>5, IntentsOnly DEF Arrival
<1>6. ASSUME Ending
      PROVE  Ordered(looper', executed', posted')
  BY <1>4, <1>6 DEF Ending, Exited, Item
<1>7. ASSUME Dropping \/ Executing
      PROVE  Ordered(looper', executed', posted')
  BY <1>0, <1>1, <1>7, OrderedTakes DEF Dropping, Executing, Takes
<1>8. ASSUME NEW s, Shifts(Finished(s)), posted' = posted + 1, executed' = executed
      PROVE  Ordered(looper', executed', posted')
  <2>1. Finished(s).kind = "finished" /\ Finished(s).number = posted + 1
    BY DEF Finished, Item
  <2> QED
    BY <1>0, <1>1, <1>8, <2>1, OrderedShifts DEF Shifts
<1>9. ASSUME Stopping \/ Exiting
      PROVE  Ordered(looper', executed', posted')
  BY <1>8, <1>9 DEF Stopping, Exiting
<1>10. ASSUME Freeing
      PROVE  Ordered(looper', executed', posted')
  BY <1>0, <1>1, <1>10, OrderedTakes DEF Freeing, Takes
<1> QED
  BY <1>2, <1>3, <1>5, <1>6, <1>7, <1>9, <1>10

-----------------------------------------------------------------------------
(* Where the items of the next looper come from.                             *)

LEMMA AddsKeeps ==
  ASSUME NEW q \in Seq(Items), NEW r \in Seq(Items), NEW x, AddsTo(q, r, x)
  PROVE  \A i \in 1..Len(r) : \/ i = Len(q) + 1 /\ r[i] = x
                              \/ i \in 1..Len(q) /\ r[i] = q[i]
<1>1. Len(q) \in Nat
  BY ItemTypes
<1> QED
  BY <1>1 DEF AddsTo

LEMMA TakesKeeps ==
  ASSUME NEW q \in Seq(Items), NEW r \in Seq(Items), TakesFrom(q, r)
  PROVE  /\ 1 \in 1..Len(q)
         /\ \A i \in 1..Len(r) : i + 1 \in 1..Len(q) /\ i + 1 # 1 /\ r[i] = q[i + 1]
<1>1. Len(q) \in Nat
  BY ItemTypes
<1> QED
  BY <1>1 DEF TakesFrom

LEMMA ShiftsKeeps ==
  ASSUME NEW q \in Seq(Items), NEW r \in Seq(Items), NEW x, ShiftsIn(q, r, x)
  PROVE  /\ 1 \in 1..Len(q)
         /\ \A i \in 1..Len(r) : \/ i = Len(q) /\ r[i] = x
                                 \/ i + 1 \in 1..Len(q) /\ i + 1 # 1 /\ r[i] = q[i + 1]
<1>1. Len(q) \in Nat
  BY ItemTypes
<1> QED
  BY <1>1 DEF ShiftsIn

-----------------------------------------------------------------------------
(* The ledger.                                                               *)

LEMMA UnfinishedIsFinite ==
  ASSUME TypeOK
  PROVE  /\ IsFiniteSet(Unfinished) /\ Cardinality(Unfinished) \in Nat
         /\ Len(sessions) \in Nat
<1>1. Len(sessions) \in Nat
  BY DEF TypeOK
<1>2. IsFiniteSet(1..Len(sessions))
  BY <1>1, FS_Interval
<1>3. Unfinished \subseteq 1..Len(sessions)
  BY DEF Unfinished, SessionNumbers
<1> QED
  BY <1>1, <1>2, <1>3, FS_Subset, FS_CardinalityType

LEMMA LedgerStep ==
  ASSUME TypeOK, TypeOK', Ledger, RunnablesAreOrdered, ExitsAreOnTheWay,
         Quiet \/ Arrival \/ Starting \/ Ending
           \/ Dropping \/ Executing \/ Stopping \/ Exiting \/ Freeing
  PROVE  Ledger'
<1>0. /\ Len(sessions) \in Nat /\ posted \in Nat /\ stopped \in Nat /\ executed \in Nat
      /\ IsFiniteSet(Unfinished) /\ Cardinality(Unfinished) \in Nat
      /\ looper \in Seq(Items) /\ looper' \in Seq(Items)
  BY UnfinishedIsFinite DEF TypeOK
<1>1. ASSUME UNCHANGED <<mTerminalSession, posted, stopped, executed>>,
             Len(sessions') = Len(sessions), Unfinished' = Unfinished
      PROVE  Ledger'
  BY <1>1, Zenon DEF Ledger
<1>2. UNCHANGED sessions => Unfinished' = Unfinished /\ Len(sessions') = Len(sessions)
  BY DEF Unfinished, SessionNumbers
<1>3. CASE Quiet \/ Arrival \/ Dropping
  BY <1>1, <1>2, <1>3, Zenon DEF Quiet, Arrival, Dropping
<1>4. CASE Starting
  <2>1. Unfinished' = Unfinished /\ Len(sessions') = Len(sessions)
    BY <1>4 DEF Starting, Unfinished, SessionNumbers
  <2> QED
    BY <1>1, <1>4, <2>1, Zenon DEF Starting
<1>5. ASSUME NEW s, NEW state, state # "done", Moves(s, state), sessions[s].state # "done"
      PROVE  Unfinished' = Unfinished /\ Len(sessions') = Len(sessions)
  BY <1>5 DEF Moves, Unfinished, SessionNumbers
<1>6. CASE Ending
  <2>1. Unfinished' = Unfinished /\ Len(sessions') = Len(sessions)
    BY <1>5, <1>6 DEF Ending
  <2> QED
    BY <1>1, <1>6, <2>1, Zenon DEF Ending
<1>7. CASE Executing
  <2>1. /\ Len(sessions') = Len(sessions) + 1
        /\ \A s \in SessionNumbers : sessions'[s] = sessions[s]
        /\ sessions'[Len(sessions) + 1].state # "done"
    BY <1>7 DEF Executing
  <2>2. Unfinished' = Unfinished \cup {Len(sessions) + 1}
    BY <1>0, <2>1 DEF Unfinished, SessionNumbers
  <2>3. Len(sessions) + 1 \notin Unfinished
    BY <1>0 DEF Unfinished, SessionNumbers
  <2>4. Cardinality(Unfinished') = Cardinality(Unfinished) + 1
    BY <1>0, <2>2, <2>3, FS_AddElement
  <2>5. /\ posted' = posted /\ stopped' = stopped /\ executed' = executed
        /\ mTerminalSession = NoSession /\ mTerminalSession' = Len(sessions) + 1
    BY <1>7, Zenon DEF Executing
  <2>6. /\ Len(sessions) <= executed
        /\ Cardinality(Unfinished) + posted = Len(sessions) + stopped
    BY <2>5, Zenon DEF Ledger
  <2>7. /\ Cardinality(Unfinished') + posted' = Len(sessions') + stopped'
        /\ Len(sessions') <= executed' + 1
    BY <1>0, <2>1, <2>4, <2>5, <2>6
  <2>8. mTerminalSession' # NoSession
    BY <1>0, <2>5 DEF NoSession
  <2> QED
    BY <2>7, <2>8, Zenon DEF Ledger
<1>8. CASE Stopping
  <2>1. Unfinished' = Unfinished /\ Len(sessions') = Len(sessions)
    BY <1>2, <1>5, <1>8 DEF Stopping
  <2> QED
    BY <1>0, <1>8, <2>1 DEF Stopping, Ledger
<1>9. CASE Exiting
  <2> DEFINE s == looper[1].session
  <2>1. /\ looper[1].kind = "exited" /\ Moves(s, "done") /\ Shifts(Finished(s))
        /\ posted' = posted + 1
        /\ UNCHANGED <<mTerminalSession, stopped, executed>>
    BY <1>9, Zenon DEF Exiting
  <2>2. Waiting(1, "exited")
    BY <1>0, <2>1, ShiftsKeeps, ItemTypes DEF Waiting, Shifts
  <2>3. s \in SessionNumbers /\ sessions[s].state = "exited"
    BY <2>2 DEF ExitsAreOnTheWay, Waiting
  <2>4. Unfinished' = Unfinished \ {s} /\ s \in Unfinished /\ Len(sessions') = Len(sessions)
    BY <2>1, <2>3 DEF Moves, Unfinished, SessionNumbers
  <2>5. Cardinality(Unfinished') = Cardinality(Unfinished) - 1
    BY <1>0, <2>4, FS_RemoveElement
  <2> QED
    BY <1>0, <2>1, <2>4, <2>5 DEF Ledger
<1>10. CASE Freeing
  <2>1. Unfinished' = Unfinished /\ Len(sessions') = Len(sessions)
    BY <1>2, <1>10 DEF Freeing
  <2>2. looper[1].kind = "finished" /\ Takes /\ executed' = looper[1].number
        /\ UNCHANGED <<posted, stopped>>
    BY <1>10, Zenon DEF Freeing
  <2>3. Waiting(1, "finished") /\ looper[1].number \in Nat
    BY <1>0, <2>2, TakesKeeps, ItemTypes DEF Waiting, Takes
  <2>4. executed < looper[1].number
    BY <2>3 DEF RunnablesAreOrdered, Waiting
  <2>5. Len(sessions) <= executed + 1
    BY DEF Ledger
  <2>6. Len(sessions') <= executed' /\ executed' + 1 > executed' /\ executed' \in Nat
    BY <1>0, <2>1, <2>2, <2>3, <2>4, <2>5
  <2>7. Cardinality(Unfinished') + posted' = Len(sessions') + stopped'
    BY <2>1, <2>2, Zenon DEF Ledger
  <2> QED
    BY <1>0, <2>1, <2>6, <2>7 DEF Ledger
<1> QED
  BY <1>3, <1>4, <1>6, <1>7, <1>8, <1>9, <1>10

-----------------------------------------------------------------------------
(* A session's exit is on its way once.                                      *)

ExitedOnce(q, f) ==
  /\ \A i \in 1..Len(q) : q[i].kind = "exited" =>
       q[i].session \in 1..Len(f) /\ f[q[i].session].state = "exited"
  /\ \A i, j \in 1..Len(q) :
       q[i].kind = "exited" /\ q[j].kind = "exited" /\ i # j => q[i].session # q[j].session

LEMMA ExitedOnceLooper ==
  ASSUME looper \in Seq(Items)
  PROVE  ExitsAreOnTheWay <=> ExitedOnce(looper, sessions)
<1>1. DOMAIN looper = 1..Len(looper)
  BY ItemTypes
<1> QED
  BY <1>1 DEF ExitsAreOnTheWay, ExitedOnce, Waiting, SessionNumbers

LEMMA ExitedOncePrimed ==
  ASSUME looper' \in Seq(Items), ExitedOnce(looper', sessions')
  PROVE  ExitsAreOnTheWay'
<1>1. DOMAIN looper' = 1..Len(looper')
  BY ItemTypes
<1> QED
  BY <1>1 DEF ExitsAreOnTheWay, ExitedOnce, Waiting, SessionNumbers

\* Sessions whose exit is on its way are not touched, and no exit is added.
LEMMA ExitedOnceKept ==
  ASSUME NEW q \in Seq(Items), NEW r \in Seq(Items), NEW f, NEW g, NEW x, x.kind # "exited",
         ExitedOnce(q, f), Len(f) \in Nat, Len(g) \in Nat, Len(f) <= Len(g),
         \A s \in 1..Len(f) : f[s].state = "exited" => g[s].state = "exited",
         r = q \/ AddsTo(q, r, x) \/ TakesFrom(q, r) \/ ShiftsIn(q, r, x)
  PROVE  ExitedOnce(r, g)
<1>1. CASE r = q
  BY <1>1 DEF ExitedOnce
<1>2. CASE AddsTo(q, r, x)
  <2>1. \A i \in 1..Len(r) : r[i].kind = "exited" => i \in 1..Len(q) /\ r[i] = q[i]
    BY <1>2, AddsKeeps
  <2>2. ASSUME NEW i \in 1..Len(r), r[i].kind = "exited"
        PROVE  r[i].session \in 1..Len(g) /\ g[r[i].session].state = "exited"
    <3> DEFINE s == q[i].session
    <3>1. i \in 1..Len(q) /\ r[i] = q[i] /\ q[i].kind = "exited"
      BY <2>1, <2>2
    <3>2. s \in 1..Len(f) /\ f[s].state = "exited"
      BY <3>1, Zenon DEF ExitedOnce
    <3> HIDE DEF s
    <3>3. s \in 1..Len(g) /\ g[s].state = "exited"
      BY <3>2
    <3> QED
      BY <3>1, <3>3, Zenon DEF s
  <2>3. ASSUME NEW i \in 1..Len(r), NEW j \in 1..Len(r), i # j,
               r[i].kind = "exited", r[j].kind = "exited"
        PROVE  r[i].session # r[j].session
    <3>1. /\ i \in 1..Len(q) /\ r[i] = q[i] /\ q[i].kind = "exited"
          /\ j \in 1..Len(q) /\ r[j] = q[j] /\ q[j].kind = "exited"
      BY <2>1, <2>3
    <3> QED
      BY <2>3, <3>1, Zenon DEF ExitedOnce
  <2> QED
    BY <2>2, <2>3, Zenon DEF ExitedOnce
<1>3. ASSUME \A i \in 1..Len(r) : r[i].kind = "exited" =>
               i + 1 \in 1..Len(q) /\ r[i] = q[i + 1]
      PROVE  ExitedOnce(r, g)
  <2>1. ASSUME NEW i \in 1..Len(r), r[i].kind = "exited"
        PROVE  r[i].session \in 1..Len(g) /\ g[r[i].session].state = "exited"
    <3> DEFINE s == q[i + 1].session
    <3>1. i + 1 \in 1..Len(q) /\ r[i] = q[i + 1] /\ q[i + 1].kind = "exited"
      BY <1>3, <2>1
    <3>2. s \in 1..Len(f) /\ f[s].state = "exited"
      BY <3>1, Zenon DEF ExitedOnce
    <3> HIDE DEF s
    <3>3. s \in 1..Len(g) /\ g[s].state = "exited"
      BY <3>2
    <3> QED
      BY <3>1, <3>3, Zenon DEF s
  <2>2. ASSUME NEW i \in 1..Len(r), NEW j \in 1..Len(r), i # j,
               r[i].kind = "exited", r[j].kind = "exited"
        PROVE  r[i].session # r[j].session
    <3>1. i + 1 # j + 1
      BY <2>2
    <3> QED
      BY <1>3, <2>2, <3>1 DEF ExitedOnce
  <2> QED
    BY <2>1, <2>2 DEF ExitedOnce
<1>4. CASE TakesFrom(q, r)
  BY <1>3, <1>4, TakesKeeps
<1>5. CASE ShiftsIn(q, r, x)
  BY <1>3, <1>5, ShiftsKeeps
<1> QED
  BY <1>1, <1>2, <1>4, <1>5

LEMMA ExitsStep ==
  ASSUME TypeOK, TypeOK', ExitsAreOnTheWay,
         Quiet \/ Arrival \/ Starting \/ Ending
           \/ Dropping \/ Executing \/ Stopping \/ Exiting \/ Freeing
  PROVE  ExitsAreOnTheWay'
<1>0. /\ looper \in Seq(Items) /\ looper' \in Seq(Items)
      /\ Len(sessions) \in Nat /\ Len(sessions') \in Nat
      /\ mTerminalSession \in {NoSession} \cup SessionNumbers
  BY DEF TypeOK
<1>1. ExitedOnce(looper, sessions)
  BY <1>0, ExitedOnceLooper
<1> SUFFICES ExitedOnce(looper', sessions')
  BY <1>0, ExitedOncePrimed
<1>2. ASSUME NEW x, x.kind # "exited", Len(sessions) <= Len(sessions'),
             \A s \in SessionNumbers : sessions[s].state = "exited" => sessions'[s].state = "exited",
             looper' = looper \/ Adds(x) \/ Takes \/ Shifts(x)
      PROVE  ExitedOnce(looper', sessions')
  BY <1>0, <1>1, <1>2, ExitedOnceKept DEF Adds, Takes, Shifts, SessionNumbers
<1>3. \A s \in Nat : Finished(s).kind # "exited"
  BY DEF Finished, Item
<1>4. CASE Quiet
  BY <1>0, <1>2, <1>3, <1>4 DEF Quiet
<1>5. CASE Arrival
  BY <1>0, <1>2, <1>5, IntentsOnly DEF Arrival
<1>6. CASE Starting
  BY <1>0, <1>2, <1>3, <1>6 DEF Starting
<1>7. CASE Ending
  <2>1. PICK s \in SessionNumbers :
          sessions[s].state \in {"running", "killed"} /\ Moves(s, "exited") /\ Adds(Exited(s))
    BY <1>7 DEF Ending
  <2>2. \A i \in 1..Len(looper') : \/ i = Len(looper) + 1 /\ looper'[i] = Exited(s)
                                   \/ i \in 1..Len(looper) /\ looper'[i] = looper[i]
    BY <1>0, <2>1, AddsKeeps DEF Adds
  <2>3. Exited(s).session = s /\ Exited(s).kind = "exited"
    BY DEF Exited, Item
  <2>4. \A i \in 1..Len(looper) : looper[i].kind = "exited" =>
          /\ looper[i].session \in SessionNumbers /\ looper[i].session # s
          /\ sessions'[looper[i].session].state = "exited"
    BY <1>1, <2>1 DEF ExitedOnce, Moves, SessionNumbers
  <2>5. /\ Len(sessions') = Len(sessions) /\ s \in 1..Len(sessions)
        /\ sessions'[s].state = "exited"
    BY <2>1 DEF Moves, SessionNumbers
  <2>6. ASSUME NEW i \in 1..Len(looper'), looper'[i].kind = "exited"
        PROVE  /\ looper'[i].session \in 1..Len(sessions')
               /\ sessions'[looper'[i].session].state = "exited"
    BY <2>2, <2>3, <2>4, <2>5, <2>6 DEF SessionNumbers
  <2>7. ASSUME NEW i \in 1..Len(looper'), NEW j \in 1..Len(looper'), i # j,
               looper'[i].kind = "exited", looper'[j].kind = "exited"
        PROVE  looper'[i].session # looper'[j].session
    <3>1. CASE i = Len(looper) + 1
      <4>2. i \notin 1..Len(looper) /\ j # Len(looper) + 1
        BY <1>0, <2>7, <3>1, ItemTypes
      <4>1. looper'[i].session = s /\ j \in 1..Len(looper) /\ looper'[j] = looper[j]
        BY <2>2, <2>3, <4>2, Zenon
      <4> QED
        BY <2>4, <2>7, <4>1
    <3>2. CASE j = Len(looper) + 1
      <4>2. j \notin 1..Len(looper) /\ i # Len(looper) + 1
        BY <1>0, <2>7, <3>2, ItemTypes
      <4>1. looper'[j].session = s /\ i \in 1..Len(looper) /\ looper'[i] = looper[i]
        BY <2>2, <2>3, <4>2, Zenon
      <4> QED
        BY <2>4, <2>7, <4>1
    <3>3. CASE i # Len(looper) + 1 /\ j # Len(looper) + 1
      <4>1. /\ i \in 1..Len(looper) /\ looper'[i] = looper[i]
            /\ j \in 1..Len(looper) /\ looper'[j] = looper[j]
        BY <2>2, <3>3, Zenon
      <4> QED
        BY <1>1, <2>7, <4>1, Zenon DEF ExitedOnce
    <3> QED
      BY <3>1, <3>2, <3>3
  <2> QED
    BY <2>6, <2>7, Zenon DEF ExitedOnce
<1>8. CASE Dropping
  BY <1>0, <1>2, <1>3, <1>8 DEF Dropping
<1>9. CASE Executing
  <2>1. \A s \in SessionNumbers : sessions'[s] = sessions[s]
    BY <1>9 DEF Executing
  <2> QED
    BY <1>0, <1>2, <1>3, <1>9, <2>1 DEF Executing
<1>10. CASE Stopping
  <2>1. /\ Len(sessions') = Len(sessions)
        /\ \A s \in SessionNumbers : sessions[s].state = "exited" => sessions'[s].state = "exited"
    BY <1>10 DEF Stopping, Moves
  <2>2. Finished(mTerminalSession).kind # "exited" /\ Shifts(Finished(mTerminalSession))
    BY <1>10 DEF Stopping, Finished, Item
  <2> QED
    BY <1>0, <1>2, <2>1, <2>2
<1>11. CASE Exiting
  <2> DEFINE s == looper[1].session
  <2>1. looper[1].kind = "exited" /\ Moves(s, "done") /\ Shifts(Finished(s))
    BY <1>11, Zenon DEF Exiting
  <2>2. /\ 1 \in 1..Len(looper)
        /\ \A i \in 1..Len(looper') : looper'[i].kind = "exited" =>
             i + 1 \in 1..Len(looper) /\ i + 1 # 1 /\ looper'[i] = looper[i + 1]
    BY <1>0, <2>1, ShiftsKeeps DEF Shifts, Finished, Item
  <2>3. \A i \in 1..Len(looper') : looper'[i].kind = "exited" =>
          looper'[i].session # s /\ looper'[i].session \in SessionNumbers
            /\ sessions[looper'[i].session].state = "exited"
    BY <1>1, <2>1, <2>2 DEF ExitedOnce, SessionNumbers
  <2>4. ASSUME NEW i \in 1..Len(looper'), NEW j \in 1..Len(looper'), i # j,
               looper'[i].kind = "exited", looper'[j].kind = "exited"
        PROVE  looper'[i].session # looper'[j].session
    <3>1. i + 1 # j + 1
      BY <2>4
    <3>2. /\ i + 1 \in 1..Len(looper) /\ looper'[i] = looper[i + 1]
          /\ j + 1 \in 1..Len(looper) /\ looper'[j] = looper[j + 1]
      BY <2>2, <2>4, Zenon
    <3> QED
      BY <1>1, <2>4, <3>1, <3>2, Zenon DEF ExitedOnce
  <2>5. /\ Len(sessions') = Len(sessions)
        /\ \A t \in SessionNumbers : t # s => sessions'[t] = sessions[t]
    BY <2>1, Zenon DEF Moves
  <2> HIDE DEF s
  <2>6. ASSUME NEW i \in 1..Len(looper'), looper'[i].kind = "exited"
        PROVE  /\ looper'[i].session \in 1..Len(sessions')
               /\ sessions'[looper'[i].session].state = "exited"
    BY <2>3, <2>5, <2>6 DEF SessionNumbers
  <2> QED
    BY <2>4, <2>6, Zenon DEF ExitedOnce
<1>12. CASE Freeing
  BY <1>0, <1>2, <1>3, <1>12 DEF Freeing
<1> QED
  BY <1>4, <1>5, <1>6, <1>7, <1>8, <1>9, <1>10, <1>11, <1>12

-----------------------------------------------------------------------------
(* Without stops there is one session at a time.                             *)

Alone ==
  /\ \A s \in SessionNumbers : sessions[s].state # "done" => s = mTerminalSession
  /\ isCmdRunning <=> mTerminalSession # NoSession
  /\ \A i \in 1..Len(looper) :
       looper[i].kind \in {"exited", "finished"} => looper[i].session = mTerminalSession
  /\ \A i \in 1..Len(looper) : looper[i].kind = "finished" =>
       looper[i].session \in SessionNumbers /\ sessions[looper[i].session].state = "done"
  /\ \A i, j \in 1..Len(looper) :
       looper[i].kind = "finished" /\ looper[j].kind = "finished" => i = j
  /\ others = 0 => \A i \in 1..Len(looper) :
       looper[i].kind = "finished" => EXITCODE = sessions[looper[i].session].code

LEMMA AloneIsThree ==
  ASSUME looper \in Seq(Items)
  PROVE  (stopped = 0 => Alone) <=> ReportedOnceDone /\ OneAtATime /\ ReportsOwnExit
<1>1. DOMAIN looper = 1..Len(looper)
  BY ItemTypes
<1> QED
  BY <1>1 DEF Alone, ReportedOnceDone, OneAtATime, ReportsOwnExit, Waiting, Unfinished

LEMMA AlonePrimed ==
  ASSUME looper' \in Seq(Items), stopped' = 0 => Alone'
  PROVE  ReportedOnceDone' /\ OneAtATime' /\ ReportsOwnExit'
<1>1. DOMAIN looper' = 1..Len(looper')
  BY ItemTypes
<1> QED
  BY <1>1 DEF Alone, ReportedOnceDone, OneAtATime, ReportsOwnExit, Waiting, Unfinished

\* Where the exits and runnables of the next looper come from, if none is added.
Passes ==
  \A i \in 1..Len(looper') : looper'[i].kind \in {"exited", "finished"} =>
    i \in 1..Len(looper) /\ looper'[i] = looper[i]
Advances ==
  /\ 1 \in 1..Len(looper)
  /\ \A i \in 1..Len(looper') : i + 1 \in 1..Len(looper) /\ i + 1 # 1 /\ looper'[i] = looper[i + 1]

LEMMA AloneStep ==
  ASSUME TypeOK, TypeOK', ExitsAreOnTheWay, Alone,
         Quiet \/ Arrival \/ Starting \/ Ending \/ Dropping \/ Executing \/ Exiting \/ Freeing
  PROVE  Alone'
<1>0. /\ looper \in Seq(Items) /\ looper' \in Seq(Items)
      /\ Len(sessions) \in Nat /\ Len(sessions') \in Nat /\ others \in Nat
      /\ DOMAIN looper = 1..Len(looper) /\ Len(looper) \in Nat
  BY ItemTypes DEF TypeOK
<1>1. Takes => Advances
  BY <1>0, TakesKeeps DEF Takes, Advances
<1>2. \A i \in 1..Len(looper) : looper[i].kind = "exited" =>
        looper[i].session \in SessionNumbers /\ sessions[looper[i].session].state = "exited"
  BY <1>0 DEF ExitsAreOnTheWay, Waiting
<1>3. CASE Quiet
  <2>1. others' = 0 => others = 0 /\ EXITCODE' = EXITCODE
    BY <1>0, <1>3 DEF Quiet
  <2> QED
    BY <1>3, <2>1 DEF Quiet, Alone, SessionNumbers
<1>4. CASE Arrival
  <2>1. Passes
    BY <1>0, <1>4, AddsKeeps, IntentsOnly DEF Arrival, Adds, Passes
  <2> QED
    BY <1>4, <2>1 DEF Arrival, Passes, Alone, SessionNumbers
<1>5. CASE Starting
  BY <1>5 DEF Starting, Alone, SessionNumbers
<1>6. CASE Ending
  <2>1. PICK s \in SessionNumbers :
          sessions[s].state \in {"running", "killed"} /\ Moves(s, "exited") /\ Adds(Exited(s))
    BY <1>6 DEF Ending
  <2>2. \A i \in 1..Len(looper') : \/ i = Len(looper) + 1 /\ looper'[i] = Exited(s)
                                   \/ i \in 1..Len(looper) /\ looper'[i] = looper[i]
    BY <1>0, <2>1, AddsKeeps DEF Adds
  <2>3. Exited(s).session = s /\ Exited(s).kind = "exited"
    BY DEF Exited, Item
  <2>4. s = mTerminalSession
    BY <2>1 DEF Alone
  <2>5. UNCHANGED <<isCmdRunning, mTerminalSession, EXITCODE, others>>
    BY <1>6, Zenon DEF Ending
  <2>6. SessionNumbers' = SessionNumbers
    BY <2>1 DEF Moves, SessionNumbers
  <2>7. \A t \in SessionNumbers : sessions[t].state = "done" => sessions'[t] = sessions[t]
    BY <2>1 DEF Moves
  <2>8. \A t \in SessionNumbers : t # s => sessions'[t] = sessions[t]
    BY <2>1 DEF Moves
  <2>9. \A i \in 1..Len(looper') : looper'[i].kind = "finished" =>
          /\ i \in 1..Len(looper) /\ looper'[i] = looper[i]
          /\ looper[i].session \in SessionNumbers
          /\ sessions'[looper[i].session] = sessions[looper[i].session]
          /\ sessions[looper[i].session].state = "done"
    BY <2>2, <2>3, <2>7 DEF Alone
  <2> QED
    BY <2>2, <2>3, <2>4, <2>5, <2>6, <2>8, <2>9 DEF Alone
<1>7. CASE Dropping
  <2>1. Advances
    BY <1>1, <1>7 DEF Dropping
  <2>2. /\ UNCHANGED <<mTerminalSession, sessions, EXITCODE, others>>
        /\ isCmdRunning' = isCmdRunning \/ (mTerminalSession = NoSession /\ isCmdRunning' = FALSE)
    BY <1>7, Zenon DEF Dropping
  <2>4. SessionNumbers' = SessionNumbers
    BY <2>2 DEF SessionNumbers
  <2>3. ASSUME NEW i \in 1..Len(looper'), NEW j \in 1..Len(looper'),
               looper'[i].kind = "finished", looper'[j].kind = "finished"
        PROVE  i = j
    <3>1. i + 1 = j + 1
      BY <2>1, <2>3 DEF Advances, Alone
    <3> QED
      BY <1>0, <3>1
  <2>5. ASSUME NEW i \in 1..Len(looper'), looper'[i].kind \in {"exited", "finished"}
        PROVE  /\ looper'[i].session = mTerminalSession
               /\ looper'[i].kind = "finished" =>
                    /\ looper'[i].session \in SessionNumbers
                    /\ sessions[looper'[i].session].state = "done"
                    /\ others = 0 => EXITCODE = sessions[looper'[i].session].code
    BY <2>1, <2>5 DEF Advances, Alone
  <2>6. isCmdRunning' <=> mTerminalSession # NoSession
    BY <2>2 DEF Alone
  <2>7. \A s \in SessionNumbers : sessions[s].state # "done" => s = mTerminalSession
    BY DEF Alone
  <2>8. /\ mTerminalSession' = mTerminalSession /\ sessions' = sessions
        /\ EXITCODE' = EXITCODE /\ others' = others
    BY <2>2, Zenon
  <2> QED
    BY <2>3, <2>4, <2>5, <2>6, <2>7, <2>8 DEF Alone
<1>8. CASE Executing
  <2>1. Advances /\ mTerminalSession = 0
    BY <1>1, <1>8 DEF Executing, NoSession
  <2>2. 0 \notin SessionNumbers
    BY <1>0 DEF SessionNumbers
  <2>3. \A i \in 1..Len(looper) : looper[i].kind \notin {"exited", "finished"}
    BY <1>2, <2>1, <2>2 DEF Alone
  <2>4. \A i \in 1..Len(looper') : looper'[i].kind \notin {"exited", "finished"}
    BY <2>1, <2>3 DEF Advances
  <2>5. \A s \in SessionNumbers : sessions[s].state = "done" /\ sessions'[s] = sessions[s]
    BY <1>8, <2>1, <2>2 DEF Alone, Executing
  <2>6. /\ mTerminalSession' = Len(sessions) + 1 /\ isCmdRunning' = TRUE
        /\ Len(sessions') = Len(sessions) + 1
    BY <1>8 DEF Executing
  <2>7. \A s \in SessionNumbers' : s \in SessionNumbers \/ s = mTerminalSession'
    BY <1>0, <2>6 DEF SessionNumbers
  <2>8. mTerminalSession' # NoSession
    BY <1>0, <2>6 DEF NoSession
  <2> QED
    BY <2>4, <2>5, <2>6, <2>7, <2>8 DEF Alone
<1>9. CASE Exiting
  <2> DEFINE s == looper[1].session
  <2>1. /\ looper[1].kind = "exited" /\ Moves(s, "done") /\ Shifts(Finished(s))
        /\ EXITCODE' = sessions[s].code /\ sessions'[s].code = sessions[s].code
        /\ UNCHANGED <<isCmdRunning, mTerminalSession, others>>
    BY <1>9, Zenon DEF Exiting
  <2>2. /\ 1 \in 1..Len(looper)
        /\ \A i \in 1..Len(looper') : \/ i = Len(looper) /\ looper'[i] = Finished(s)
                                      \/ i + 1 \in 1..Len(looper) /\ looper'[i] = looper[i + 1]
    <3> DEFINE x == Finished(s)
    <3>1. ShiftsIn(looper, looper', x)
      BY <2>1, Zenon DEF Shifts
    <3> HIDE DEF x
    <3>2. /\ 1 \in 1..Len(looper)
          /\ \A i \in 1..Len(looper') : \/ i = Len(looper) /\ looper'[i] = x
                                        \/ i + 1 \in 1..Len(looper) /\ looper'[i] = looper[i + 1]
      <4>1. looper \in Seq(Items) /\ looper' \in Seq(Items)
        BY <1>0, Zenon
      <4> HIDE DEF s
      <4> QED
        BY <3>1, <4>1, ShiftsKeeps
    <3> QED
      BY <3>2, Zenon DEF x
  <2>3. Finished(s).session = s /\ Finished(s).kind = "finished"
    BY DEF Finished, Item
  <2>4. s \in SessionNumbers /\ sessions[s].state = "exited" /\ s = mTerminalSession
    BY <1>2, <2>1, <2>2 DEF Alone
  <2>5. \A i \in 1..Len(looper) : looper[i].kind # "finished"
    BY <2>4 DEF Alone
  <2> HIDE DEF s
  <2>6. \A i \in 1..Len(looper') : looper'[i].kind = "finished" =>
          i = Len(looper) /\ looper'[i] = Finished(s)
    BY <2>2, <2>5
  <2>7. \A i \in 1..Len(looper') :
          looper'[i].kind \in {"exited", "finished"} => looper'[i].session = mTerminalSession
    BY <2>2, <2>3, <2>4 DEF Alone
  <2>8. SessionNumbers' = SessionNumbers /\ sessions'[s].state = "done"
        /\ \A t \in SessionNumbers : t # s => sessions'[t] = sessions[t]
    BY <2>1 DEF Moves, SessionNumbers
  <2> QED
    BY <2>1, <2>3, <2>4, <2>6, <2>7, <2>8 DEF Alone
<1>10. CASE Freeing
  <2>1. /\ looper[1].kind = "finished" /\ Advances
        /\ mTerminalSession' = NoSession /\ isCmdRunning' = FALSE
        /\ UNCHANGED <<sessions, EXITCODE, others>>
    BY <1>1, <1>10 DEF Freeing
  <2>2. /\ looper[1].session = mTerminalSession /\ mTerminalSession \in SessionNumbers
        /\ sessions[mTerminalSession].state = "done"
    BY <2>1 DEF Advances, Alone
  <2>3. \A i \in 1..Len(looper) : looper[i].kind # "exited"
    BY <1>2, <2>2 DEF Alone
  <2>4. \A i \in 1..Len(looper) : looper[i].kind = "finished" => i = 1
    BY <2>1 DEF Advances, Alone
  <2>5. \A i \in 1..Len(looper') : looper'[i].kind \notin {"exited", "finished"}
    BY <2>1, <2>3, <2>4 DEF Advances
  <2>6. \A s \in SessionNumbers : sessions[s].state = "done"
    BY <2>2 DEF Alone
  <2>7. SessionNumbers' = SessionNumbers
    BY <2>1 DEF SessionNumbers
  <2> QED
    BY <2>1, <2>5, <2>6, <2>7 DEF Alone
<1> QED
  BY <1>3, <1>4, <1>5, <1>6, <1>7, <1>8, <1>9, <1>10

-----------------------------------------------------------------------------
(* The inductive invariant.                                                  *)

LEMMA InitInvariant == Init => InductiveInvariant
<1> SUFFICES ASSUME Init PROVE InductiveInvariant
  OBVIOUS
<1> USE DEF Init
<1>1. Len(sessions) = 0 /\ SessionNumbers = {} /\ DOMAIN looper = {}
  BY DEF SessionNumbers
<1>2. TypeOK
  <2>1. /\ isCmdRunning \in BOOLEAN /\ mThread \in BOOLEAN
        /\ laidOut \in BOOLEAN /\ alive \in BOOLEAN
    BY Zenon
  <2>4. /\ EXITCODE \in Int /\ execs \in Nat /\ stops \in Nat /\ others \in Nat
        /\ stopped \in Nat /\ posted \in Nat /\ executed \in Nat
    OBVIOUS
  <2>5. mTerminalSession \in {NoSession} \cup SessionNumbers
    OBVIOUS
  <2>2. \A S : <<>> \in Seq(S)
    OBVIOUS
  <2>3. sessions = <<>> /\ looper = <<>> /\ intents = <<>>
    OBVIOUS
  <2> QED
    BY <2>1, <2>2, <2>3, <2>4, <2>5, Zenon DEF TypeOK
<1>3. Unfinished = {} /\ Cardinality(Unfinished) = 0
  BY <1>1, FS_EmptySet DEF Unfinished
<1>4. Ledger
  BY <1>1, <1>3 DEF Ledger
<1>5. RunnablesAreOrdered
  BY <1>1 DEF RunnablesAreOrdered
<1>6. ExitsAreOnTheWay /\ ReportedOnceDone
  BY <1>1 DEF ExitsAreOnTheWay, ReportedOnceDone
<1>7. OneAtATime /\ ReportsOwnExit
  BY <1>1, <1>3 DEF OneAtATime, ReportsOwnExit
<1> QED
  BY <1>2, <1>4, <1>5, <1>6, <1>7 DEF InductiveInvariant

LEMMA InvariantStep == InductiveInvariant /\ [Next]_vars => InductiveInvariant'
<1> SUFFICES ASSUME InductiveInvariant, [Next]_vars PROVE InductiveInvariant'
  OBVIOUS
<1>0. /\ TypeOK /\ Ledger /\ RunnablesAreOrdered /\ ExitsAreOnTheWay
      /\ ReportedOnceDone /\ OneAtATime /\ ReportsOwnExit
  BY DEF InductiveInvariant
<1>1. CASE UNCHANGED vars
  <2>1. /\ UNCHANGED <<isCmdRunning, mTerminalSession, sessions, EXITCODE, mThread, laidOut, alive>>
        /\ UNCHANGED <<looper, intents, execs, stops, others, stopped, posted, executed>>
    BY <1>1, Zenon DEF vars, view, world, history
  <2>2. TypeOK' /\ Ledger' /\ RunnablesAreOrdered' /\ ExitsAreOnTheWay'
    BY <1>0, <2>1
       DEF TypeOK, Ledger, RunnablesAreOrdered, ExitsAreOnTheWay, Waiting, Unfinished, SessionNumbers
  <2>3. ReportedOnceDone' /\ OneAtATime' /\ ReportsOwnExit'
    BY <1>0, <2>1
       DEF ReportedOnceDone, OneAtATime, ReportsOwnExit, Waiting, Unfinished, SessionNumbers
  <2> QED
    BY <2>2, <2>3 DEF InductiveInvariant
<1>2. CASE Next
  <2>1. TypeOK'
    BY <1>0, <1>2, AroundTypes, HandleTypes DEF Next
  <2>2. Quiet \/ Arrival \/ Starting \/ Ending
          \/ Dropping \/ Executing \/ Stopping \/ Exiting \/ Freeing
    BY <1>0, <1>2, AroundShapes, HandleShapes DEF Next
  <2>3. Ledger' /\ RunnablesAreOrdered' /\ ExitsAreOnTheWay'
    BY <1>0, <2>1, <2>2, LedgerStep, OrderStep, ExitsStep
  <2>4. looper \in Seq(Items) /\ looper' \in Seq(Items) /\ stopped \in Nat
    BY <1>0, <2>1 DEF TypeOK
  <2>5. stopped = 0 => Alone
    BY <1>0, <2>4, AloneIsThree
  <2>6. stopped' = 0 => stopped = 0 /\ ~Stopping
    BY <2>2, <2>4 DEF Quiet, Arrival, Starting, Ending, Dropping, Executing, Stopping, Exiting, Freeing
  <2>7. stopped' = 0 => Alone'
    BY <1>0, <2>1, <2>2, <2>5, <2>6, AloneStep
  <2>8. ReportedOnceDone' /\ OneAtATime' /\ ReportsOwnExit'
    BY <2>4, <2>7, AlonePrimed
  <2> QED
    BY <2>1, <2>3, <2>8 DEF InductiveInvariant
<1> QED
  BY <1>1, <1>2

LEMMA Invariance == Spec => []InductiveInvariant
BY InitInvariant, InvariantStep, PTL DEF Spec

-----------------------------------------------------------------------------
(* The theorems.                                                             *)

\* The service's variables keep their types: the view's session is one of those
\* that were created, or none.
THEOREM TypeCorrect == Spec => []TypeOK
<1>1. InductiveInvariant => TypeOK
  BY DEF InductiveInvariant
<1> QED
  BY <1>1, Invariance, PTL

\* Every stop that finds a session lets at most one command more run beside the
\* others: onSessionFinished() frees the view twice for it.
THEOREM RivalsAreBounded == Spec => []RivalsNeedStops
<1>1. InductiveInvariant => RivalsNeedStops
  <2> SUFFICES ASSUME InductiveInvariant PROVE RivalsNeedStops
    OBVIOUS
  <2>1. TypeOK /\ Ledger /\ executed <= posted
    BY DEF InductiveInvariant, RunnablesAreOrdered
  <2>2. /\ Cardinality(Unfinished) \in Nat /\ Len(sessions) \in Nat
        /\ posted \in Nat /\ executed \in Nat /\ stopped \in Nat
    BY <2>1, UnfinishedIsFinite DEF TypeOK
  <2>3. /\ Cardinality(Unfinished) + posted = Len(sessions) + stopped
        /\ Len(sessions) <= executed + 1
    BY <2>1 DEF Ledger
  <2> QED
    BY <2>1, <2>2, <2>3 DEF RivalsNeedStops
<1> QED
  BY <1>1, Invariance, PTL

\* As long as nobody stops a command, onStartCommand() runs them one at a time,
\* and isCmdRunning says whether the view has one.
THEOREM CommandsRunOneAtATime == Spec => []OneAtATime
<1>1. InductiveInvariant => OneAtATime
  BY DEF InductiveInvariant
<1> QED
  BY <1>1, Invariance, PTL

\* As long as nobody stops a command and no other session exits, the runnable of
\* onSessionFinished() finds its own command's code in the static EXITCODE.
THEOREM ReportsAreOwn == Spec => []ReportsOwnExit
<1>1. InductiveInvariant => ReportsOwnExit
  BY DEF InductiveInvariant
<1> QED
  BY <1>1, Invariance, PTL
=============================================================================
