----------------------- MODULE CommandExecutionProofs -----------------------
(***************************************************************************)
(* What cmdExer's statics hold for a caller whose call overlaps with no    *)
(* other thread's, whether its process starts or not, and how many X       *)
(* servers are lost by the calls that do: for every number of threads and  *)
(* of processes.                                                           *)
(***************************************************************************)
EXTENDS CommandExecution, SequenceTheorems, FiniteSetTheorems, TLAPS

Places == {"idle", "start", "stream", "read", "ended", "wait", "finally", "destroy",
           "return", "keep"}
Kinds == {"command", "xvfb"}
Process == [kind : Kinds, alive : BOOLEAN, output : Outputs]
Numbers == 0..Len(procs)

TypeOK ==
  /\ procs \in Seq(Process)
  /\ process \in Numbers /\ lastLine \in Numbers /\ process_Xvfb \in Numbers
  /\ own \in [Threads -> Numbers] /\ local \in [Threads -> Numbers]
  /\ pc \in [Threads -> Places]
  /\ cleared \in [Threads -> BOOLEAN] /\ disturbed \in [Threads -> BOOLEAN]
  /\ crossed \in Nat /\ crashed \subseteq Threads

\* Where start() has not thrown.
Running == {"stream", "read", "ended", "wait"}

\* What a call has started, whatever the other threads do.
Owns(t) ==
  /\ pc[t] \in {"idle", "start"} => own[t] = NULL
  /\ pc[t] \in Running => own[t] # NULL
  /\ own[t] # NULL /\ pc[t] # "keep" => procs[own[t]].kind = "command"
  /\ pc[t] = "keep" => t = Main /\ process_Xvfb = NULL

\* While nobody disturbs a call, the statics are its own, and as cmdExer.destroy() has
\* left them if it has started nothing.
Undisturbed(t) ==
  /\ t \notin crashed
  /\ Busy(t) => \A u \in Threads \ {t} : ~Busy(u)
  /\ own[t] # NULL => process = own[t]
  /\ cleared[t] /\ own[t] = NULL /\ pc[t] \notin {"idle", "keep"} => process = NULL
  /\ pc[t] = "destroy" => process # NULL
  /\ pc[t] = "read" => local[t] = own[t]
  /\ cleared[t] /\ pc[t] \notin {"idle", "keep"} => lastLine \in {NULL, own[t]}

CallInvariant ==
  /\ TypeOK
  /\ \A t \in Threads : Owns(t) /\ (~disturbed[t] => Undisturbed(t))

-----------------------------------------------------------------------------
(* Processes.                                                                *)

\* A step may start a process, and a process that is there keeps its kind and does
\* not come back to life.
Grown(ps, qs) ==
  /\ qs \in Seq(Process) /\ Len(qs) \in Len(ps) .. Len(ps) + 1
  /\ \A p \in 1..Len(ps) :
       qs[p].kind = ps[p].kind /\ (qs[p].alive => ps[p].alive)

LEMMA Same ==
  ASSUME NEW ps \in Seq(Process)
  PROVE  Grown(ps, ps)
BY LenProperties DEF Grown

LEMMA Starting ==
  ASSUME NEW ps \in Seq(Process), NEW new \in Process
  PROVE  /\ Grown(ps, Append(ps, new))
         /\ Len(Append(ps, new)) = Len(ps) + 1 /\ Append(ps, new)[Len(ps) + 1] = new
BY AppendProperties, LenProperties DEF Grown

\* kill(), on whatever number, and a line that is read.
LEMMA Changing ==
  ASSUME NEW ps \in Seq(Process), NEW i
  PROVE  /\ Grown(ps, [ps EXCEPT ![i].alive = FALSE])
         /\ Len([ps EXCEPT ![i].alive = FALSE]) = Len(ps)
         /\ i \in 1..Len(ps) => ~[ps EXCEPT ![i].alive = FALSE][i].alive
         /\ Grown(ps, [ps EXCEPT ![i].output = "none"])
         /\ Len([ps EXCEPT ![i].output = "none"]) = Len(ps)
<1> DEFINE killed == [ps EXCEPT ![i].alive = FALSE]
           read == [ps EXCEPT ![i].output = "none"]
<1>1. Len(ps) \in Nat /\ DOMAIN ps = 1..Len(ps) /\ \A p \in 1..Len(ps) : ps[p] \in Process
  BY LenProperties, ElementOfSeq
<1>2. /\ killed = [p \in 1..Len(ps) |-> IF p = i THEN [ps[p] EXCEPT !.alive = FALSE] ELSE ps[p]]
      /\ read = [p \in 1..Len(ps) |-> IF p = i THEN [ps[p] EXCEPT !.output = "none"] ELSE ps[p]]
  BY <1>1
<1>3. ASSUME NEW x \in Process
      PROVE  /\ [x EXCEPT !.alive = FALSE] \in Process /\ [x EXCEPT !.output = "none"] \in Process
             /\ [x EXCEPT !.alive = FALSE].kind = x.kind /\ ~[x EXCEPT !.alive = FALSE].alive
             /\ [x EXCEPT !.output = "none"].kind = x.kind
             /\ [x EXCEPT !.output = "none"].alive = x.alive
  BY DEF Process, Outputs
<1>4. killed \in [1..Len(ps) -> Process] /\ read \in [1..Len(ps) -> Process]
  BY <1>1, <1>2, <1>3
<1>5. killed \in Seq(Process) /\ Len(killed) = Len(ps) /\ read \in Seq(Process) /\ Len(read) = Len(ps)
  BY <1>1, <1>4
<1>6. \A p \in 1..Len(ps) :
        /\ killed[p].kind = ps[p].kind /\ (killed[p].alive => ps[p].alive)
        /\ read[p].kind = ps[p].kind /\ read[p].alive = ps[p].alive
        /\ p = i => ~killed[p].alive
  BY <1>1, <1>2, <1>3
<1> QED BY <1>1, <1>5, <1>6 DEF Grown

-----------------------------------------------------------------------------
(* The others.                                                               *)

\* A step by thread t, and what it means for the others: it comes from within a
\* call of t's own, or it disturbs all calls there are.
StepOf(t) ==
  /\ Grown(procs, procs')
  /\ crashed' \subseteq crashed \cup {t}
  /\ \A u \in Threads \ {t} :
       /\ pc'[u] = pc[u] /\ own'[u] = own[u]
       /\ process_Xvfb' = process_Xvfb \/ pc[u] # "keep"
       /\ \/ Busy(t) /\ disturbed'[u] = disturbed[u]
          \/ disturbed'[u] = (disturbed[u] \/ Busy(u))

LEMMA OwnsKept ==
  ASSUME TypeOK, NEW u \in Threads, Owns(u), Grown(procs, procs'),
         pc'[u] = pc[u], own'[u] = own[u],
         process_Xvfb' = process_Xvfb \/ pc[u] # "keep"
  PROVE  Owns(u)'
<1>1. own[u] \in Numbers  BY DEF TypeOK
<1>2. own[u] # NULL => procs'[own[u]].kind = procs[own[u]].kind
  BY <1>1 DEF Grown, Numbers, NULL
<1> QED BY <1>2, Zenon DEF Owns

\* Who may count as undisturbed after a step of another thread is idle.
LEMMA OthersKeep ==
  ASSUME CallInvariant, TypeOK', NEW t \in Threads, StepOf(t),
         Owns(t)' /\ (~disturbed'[t] => Undisturbed(t)')
  PROVE  CallInvariant'
<1>1. TypeOK /\ \A u \in Threads : Owns(u) /\ (~disturbed[u] => Undisturbed(u))
  BY DEF CallInvariant
<1>2. ASSUME NEW u \in Threads \ {t}
      PROVE  Owns(u)' /\ (~disturbed'[u] => Undisturbed(u)')
  <2>1. Owns(u)'  BY <1>1, <1>2, OwnsKept, Zenon DEF StepOf
  <2>2. SUFFICES ASSUME ~disturbed'[u] PROVE Undisturbed(u)'
    BY <2>1, Zenon
  <2>3. ~disturbed[u] /\ (~Busy(u) \/ Busy(t))
    BY <1>2, <2>2, Zenon DEF StepOf
  <2>4. Undisturbed(u)  BY <1>1, <1>2, <2>3, Zenon
  <2>5. ~Busy(u) /\ u \notin crashed
    BY <1>2, <2>3, <2>4, Zenon DEF Undisturbed
  <2>6. pc'[u] = "idle" /\ u \notin crashed'
    BY <1>2, <2>5 DEF StepOf, Busy
  <2> QED BY <2>1, <2>6, Zenon DEF Undisturbed, Busy, Owns
<1> QED BY <1>2, Zenon DEF CallInvariant

\* Whether a call of t that nobody disturbs is the only one.
LEMMA Alone ==
  ASSUME CallInvariant, TypeOK', NEW t \in Threads, StepOf(t), ~disturbed[t], Busy(t)
  PROVE  /\ Undisturbed(t)
         /\ Busy(t)' => \A u \in Threads \ {t} : ~Busy(u)'
BY Zenon DEF CallInvariant, Undisturbed, StepOf, Busy

-----------------------------------------------------------------------------
(* The steps of execute().                                                   *)

LEMMA NumbersGrow ==
  ASSUME TypeOK, Grown(procs, procs')
  PROVE  Numbers \subseteq Numbers' /\ Numbers \subseteq Nat /\ Len(procs) \in Nat
BY LenProperties DEF TypeOK, Grown, Numbers

\* Another thread's entry disturbs the calls there are.
LEMMA EntersTypes ==
  ASSUME NEW t \in Threads, Enters(t)
  PROVE  disturbed' \in [Threads -> BOOLEAN]
<1> DEFINE value(u) ==
      IF u = t THEN \E v \in Threads \ {t} : Busy(v) ELSE disturbed[u] \/ Busy(u)
<1>1. \A u \in Threads : value(u) \in BOOLEAN  BY Zenon
<1>2. disturbed' = [u \in Threads |-> value(u)]  BY Zenon DEF Enters
<1> HIDE DEF value
<1> QED BY <1>1, <1>2

LEMMA BeginStep ==
  ASSUME CallInvariant, NEW t \in Threads, Begin(t)
  PROVE  CallInvariant'
<1>1. TypeOK /\ Owns(t)  BY DEF CallInvariant
<1>2. PICK clear \in BOOLEAN :
        BeginClearing(t, clear) /\ cleared' = [cleared EXCEPT ![t] = clear]
  BY Zenon DEF Begin
<1>3. /\ crashed = {} /\ pc[t] = "idle" /\ pc' = [pc EXCEPT ![t] = "start"]
      /\ process' = (IF clear THEN NULL ELSE process)
      /\ lastLine' = (IF clear THEN NULL ELSE lastLine)
      /\ UNCHANGED <<process_Xvfb, procs, local, own, crossed, crashed>>
  BY <1>2, Zenon DEF BeginClearing, At, Alive, Goto
<1>9. disturbed' = [u \in Threads |->
         IF u = t THEN \E v \in Threads \ {t} : Busy(v) ELSE disturbed[u] \/ Busy(u)]
  BY <1>2, Zenon DEF BeginClearing, Enters
<1>4. Grown(procs, procs')  BY <1>1, <1>3, Same DEF TypeOK
<1>5. TypeOK'
  <2>1. disturbed' \in [Threads -> BOOLEAN]
    BY <1>2, EntersTypes, Zenon DEF BeginClearing
  <2>2. cleared' \in [Threads -> BOOLEAN]
    BY <1>1, <1>2 DEF TypeOK
  <2>3. process' \in Numbers /\ lastLine' \in Numbers
    BY <1>1, <1>3, NumbersGrow, <1>4 DEF TypeOK, NULL, Numbers
  <2>4. pc' \in [Threads -> Places]  BY <1>1, <1>3 DEF TypeOK, Places
  <2>5. Numbers' = Numbers  BY <1>3 DEF Numbers
  <2> QED BY <1>1, <1>3, <2>1, <2>2, <2>3, <2>4, <2>5, Zenon DEF TypeOK
<1>6. StepOf(t)
  <2>1. \A u \in Threads \ {t} : disturbed'[u] = (disturbed[u] \/ Busy(u))
    BY <1>9, Zenon
  <2> QED BY <2>1, <1>1, <1>3, <1>4 DEF StepOf, TypeOK
<1>7. Owns(t)'  BY <1>1, <1>3 DEF Owns, TypeOK, Running
<1>8. ASSUME ~disturbed'[t] PROVE Undisturbed(t)'
  <2>1. \A v \in Threads \ {t} : ~Busy(v)  BY <1>9, <1>8, Zenon
  <2>2. \A v \in Threads \ {t} : ~Busy(v)'  BY <2>1, <1>6, Zenon DEF Busy, StepOf
  <2>3. own'[t] = NULL /\ pc'[t] = "start" /\ crashed' = {}
    BY <1>1, <1>3 DEF Owns, TypeOK
  <2>4. cleared'[t] = clear  BY <1>1, <1>2 DEF TypeOK
  <2>5. cleared'[t] => lastLine' = NULL /\ process' = NULL  BY <2>4, <1>3
  <2> QED BY <2>2, <2>3, <2>5 DEF Undisturbed
<1> QED BY <1>5, <1>6, <1>7, <1>8, OthersKeep

LEMMA StartStep ==
  ASSUME CallInvariant, NEW t \in Threads, Start(t)
  PROVE  CallInvariant'
<1>1. TypeOK /\ Owns(t)  BY DEF CallInvariant
<1>2. PICK output \in Outputs : Started("command", output)
  BY Zenon DEF Start
<1> DEFINE new == [kind |-> "command", alive |-> TRUE, output |-> output]
<1>3. /\ crashed = {} /\ pc[t] = "start" /\ pc' = [pc EXCEPT ![t] = "stream"]
      /\ procs' = Append(procs, new) /\ process' = Len(procs')
      /\ own' = [own EXCEPT ![t] = process']
      /\ UNCHANGED <<lastLine, process_Xvfb, local, cleared, disturbed, crossed, crashed>>
  BY <1>2, Zenon DEF Start, Started, At, Alive, Goto
<1>4. /\ Grown(procs, procs') /\ Len(procs') = Len(procs) + 1
      /\ procs'[Len(procs) + 1].kind = "command"
  <2>1. new \in Process  BY <1>2 DEF Process, Kinds
  <2> QED BY <1>1, <1>3, <2>1, Starting DEF TypeOK
<1>5. Len(procs) \in Nat /\ Numbers \subseteq Numbers'  BY <1>1, <1>4, NumbersGrow
<1>6. process' \in Numbers' /\ process' # NULL /\ procs'[process'].kind = "command"
  BY <1>3, <1>4, <1>5 DEF Numbers, NULL
<1>7. TypeOK'
  BY <1>1, <1>3, <1>4, <1>5, <1>6 DEF TypeOK, Places, Grown
<1>8. StepOf(t)  BY <1>1, <1>3, <1>4 DEF StepOf, TypeOK, Busy
<1>9. own'[t] = process' /\ pc'[t] = "stream"  BY <1>1, <1>3 DEF TypeOK
<1>10. Owns(t)'  BY <1>6, <1>9 DEF Owns
<1>11. ASSUME ~disturbed'[t] PROVE Undisturbed(t)'
  <2>1. ~disturbed[t] /\ Busy(t)  BY <1>3, <1>11 DEF Busy
  <2>2. cleared'[t] = cleared[t] /\ own[t] = NULL  BY <1>1, <1>3 DEF Owns
  <2>3. cleared'[t] => lastLine' = NULL
    BY <2>1, <2>2, <1>3, Alone, <1>7, <1>8 DEF Undisturbed
  <2>4. Busy(t)' => \A u \in Threads \ {t} : ~Busy(u)'
    BY <2>1, <1>7, <1>8, Alone
  <2> QED BY <2>3, <2>4, <1>3, <1>9 DEF Undisturbed
<1> QED BY <1>7, <1>8, <1>10, <1>11, OthersKeep

\* After start() has returned or thrown, a call changes no static but the last line,
\* and that, undisturbed, only to its own.
Within == Places \ {"idle", "start", "keep"}

LEMMA WithinCall ==
  ASSUME CallInvariant, NEW t \in Threads, NEW place \in Within,
         pc[t] \in Within \cup {"start"}, pc' = [pc EXCEPT ![t] = place],
         place \in Running => own[t] # NULL,
         Grown(procs, procs'), Len(procs') = Len(procs),
         lastLine' \in Numbers, local' \in [Threads -> Numbers], crashed' \subseteq crashed \cup {t},
         UNCHANGED <<process, process_Xvfb, own, cleared, disturbed, crossed>>,
         ~disturbed[t] =>
           /\ t \notin crashed' /\ lastLine' \in {lastLine, own[t]}
           /\ place = "read" => local'[t] = own[t]
           /\ place = "destroy" => process # NULL
  PROVE  CallInvariant'
<1>1. TypeOK /\ Owns(t)  BY DEF CallInvariant
<1>2. TypeOK'
  <2>1. Numbers' = Numbers  BY DEF Numbers
  <2>2. pc' \in [Threads -> Places]  BY <1>1 DEF TypeOK, Within
  <2>3. procs' \in Seq(Process)  BY DEF Grown
  <2>4. crashed' \subseteq Threads  BY <1>1 DEF TypeOK
  <2> QED BY <1>1, <2>1, <2>2, <2>3, <2>4, Zenon DEF TypeOK
<1>3. StepOf(t)
  BY <1>1 DEF StepOf, TypeOK, Busy, Within
<1>4. pc'[t] = place  BY <1>1 DEF TypeOK
<1>5. Owns(t)'
  <2>1. own[t] # NULL => own[t] \in 1..Len(procs) /\ procs[own[t]].kind = "command"
    BY <1>1 DEF TypeOK, Owns, Within, Numbers, NULL
  <2>2. own[t] # NULL => procs'[own[t]].kind = "command"  BY <2>1 DEF Grown
  <2> QED BY <1>1, <2>2, <1>4 DEF Owns, Within
<1>6. ASSUME ~disturbed'[t] PROVE Undisturbed(t)'
  <2>1. ~disturbed[t] /\ Busy(t)  BY <1>6 DEF Busy, Within
  <2>2. Undisturbed(t) /\ (Busy(t)' => \A u \in Threads \ {t} : ~Busy(u)')
    BY <2>1, <1>2, <1>3, Alone
  <2>3. /\ own'[t] # NULL => process' = own'[t]
        /\ cleared'[t] => lastLine \in {NULL, own[t]}
        /\ cleared'[t] /\ own'[t] = NULL => process' = NULL
    BY <2>2 DEF Undisturbed, Within
  <2> QED BY <2>1, <2>2, <2>3, <1>4 DEF Undisturbed
<1> QED BY <1>2, <1>3, <1>5, <1>6, OthersKeep

\* The static is the call's own process, once that has started.
LEMMA OwnProcess ==
  ASSUME CallInvariant, NEW t \in Threads, ~disturbed[t], pc[t] \in Within
  PROVE  /\ t \notin crashed
         /\ pc[t] \in Running => process = own[t] /\ process # NULL
         /\ pc[t] = "destroy" => process # NULL
         /\ pc[t] = "read" => local[t] = own[t]
BY DEF CallInvariant, Undisturbed, Owns, Within

LEMMA TakeStep ==
  ASSUME CallInvariant, NEW t \in Threads, GetInputStream(t) \/ CallWaitFor(t)
  PROVE  CallInvariant'
<1>1. TypeOK  BY DEF CallInvariant
<1>2. ASSUME NEW place \in Running, NEW next \in Running, Take(t, place, next)
      PROVE  CallInvariant'
  <2>1. /\ crashed = {} /\ pc[t] = place /\ pc' = [pc EXCEPT ![t] = next]
        /\ local' = [local EXCEPT ![t] = process]
        /\ crashed' = (IF process = NULL THEN {t} ELSE {})
        /\ UNCHANGED <<process, lastLine, process_Xvfb, procs, own, cleared, disturbed, crossed>>
    BY <1>2, Zenon DEF Take, At, Alive, Goto, statics, history
  <2>2. Grown(procs, procs')  BY <1>1, <2>1, Same DEF TypeOK
  <2>3. lastLine' \in Numbers /\ local' \in [Threads -> Numbers] /\ local'[t] = process
    BY <1>1, <2>1 DEF TypeOK
  <2>4. own[t] # NULL  BY <2>1 DEF CallInvariant, Owns
  <2>5. Running \subseteq Within /\ "destroy" \notin Running
    BY DEF Running, Within, Places
  <2> QED BY <1>2, <2>1, <2>2, <2>3, <2>4, <2>5, OwnProcess, WithinCall
<1> QED BY <1>2 DEF GetInputStream, CallWaitFor, Running

LEMMA ReadLineStep ==
  ASSUME CallInvariant, NEW t \in Threads, ReadLine(t)
  PROVE  CallInvariant'
<1>1. TypeOK  BY DEF CallInvariant
<1>2. /\ pc[t] = "read" /\ pc' = pc /\ procs' = [procs EXCEPT ![local[t]].output = "none"]
      /\ lastLine' = local[t]
      /\ UNCHANGED <<process, process_Xvfb, local, own, cleared, disturbed, crossed, crashed>>
  BY Zenon DEF ReadLine, At, history
<1>3. Grown(procs, procs') /\ Len(procs') = Len(procs)
  BY <1>1, <1>2, Changing DEF TypeOK
<1>4. pc' = [pc EXCEPT ![t] = "read"] /\ lastLine' \in Numbers /\ local' \in [Threads -> Numbers]
  BY <1>1, <1>2 DEF TypeOK
<1>5. "read" \in Within /\ own[t] # NULL
  BY <1>2 DEF Within, Places, CallInvariant, Owns, Running
<1> QED BY <1>2, <1>3, <1>4, <1>5, OwnProcess, WithinCall

\* The end of the output, waitFor(), what throws, and the test before the destroy().
LEMMA WaitingStep ==
  ASSUME CallInvariant, NEW t \in Threads,
         EndOfOutput(t) \/ WaitFor(t) \/ Throws(t) \/ Finally(t)
  PROVE  CallInvariant'
<1>1. TypeOK  BY DEF CallInvariant
<1>2. PICK place \in {"ended", "finally", "return", "destroy"} :
        /\ pc[t] \in {"start", "read", "wait", "finally"} /\ pc' = [pc EXCEPT ![t] = place]
        /\ place = "ended" => pc[t] = "read"
        /\ place = "destroy" => process # NULL
  <2>1. CASE EndOfOutput(t)  BY <2>1 DEF EndOfOutput, EndOfOutputIf, At, Goto
  <2>2. CASE WaitFor(t)  BY <2>2 DEF WaitFor, At, Goto
  <2>3. CASE Throws(t)  BY <2>3 DEF Throws, Goto
  <2>4. CASE Finally(t)  BY <2>4 DEF Finally, At, Goto
  <2> QED BY <2>1, <2>2, <2>3, <2>4
<1>3. UNCHANGED <<process, lastLine, process_Xvfb, procs, local, own, cleared,
                  disturbed, crossed, crashed>>
  BY Zenon DEF EndOfOutput, EndOfOutputIf, WaitFor, Throws, Finally, statics, history
<1>4. Grown(procs, procs')  BY <1>1, <1>3, Same DEF TypeOK
<1>5. place \in Within /\ pc[t] \in Within \cup {"start"} /\ place # "read"
  BY <1>2 DEF Within, Places
<1>6. lastLine' \in Numbers /\ local' \in [Threads -> Numbers]  BY <1>1, <1>3 DEF TypeOK
<1>7. place \in Running => own[t] # NULL
  BY <1>2 DEF CallInvariant, Owns, Running
<1>8. ~disturbed[t] => t \notin crashed  BY DEF CallInvariant, Undisturbed
<1> QED BY <1>2, <1>3, <1>4, <1>5, <1>6, <1>7, <1>8, WithinCall

LEMMA DestroyProcessStep ==
  ASSUME CallInvariant, NEW t \in Threads, DestroyProcess(t)
  PROVE  CallInvariant'
<1>1. TypeOK  BY DEF CallInvariant
<1>2. /\ crashed = {} /\ pc[t] = "destroy" /\ pc' = [pc EXCEPT ![t] = "return"]
      /\ crashed' = (IF process = NULL THEN {t} ELSE {})
      /\ procs' = (IF process = NULL THEN procs ELSE Killed(process))
      /\ UNCHANGED <<process, lastLine, process_Xvfb, local, own, cleared, disturbed, crossed>>
  BY Zenon DEF DestroyProcess, At, Alive, Goto, statics, history
<1>3. Grown(procs, procs') /\ Len(procs') = Len(procs)
  BY <1>1, <1>2, Same, Changing DEF TypeOK, Killed
<1>4. lastLine' \in Numbers /\ local' \in [Threads -> Numbers]  BY <1>1, <1>2 DEF TypeOK
<1>5. "return" \in Within \ Running /\ "destroy" \in Within
  BY DEF Within, Places, Running
<1> QED BY <1>2, <1>3, <1>4, <1>5, OwnProcess, WithinCall

\* The end of a call.
LEMMA ReturnStep ==
  ASSUME CallInvariant, NEW t \in Threads, Return(t)
  PROVE  CallInvariant'
<1>1. TypeOK  BY DEF CallInvariant
<1>2. /\ crashed = {} /\ pc[t] = "return" /\ pc' = [pc EXCEPT ![t] = "idle"]
      /\ own' = [own EXCEPT ![t] = NULL] /\ local' = [local EXCEPT ![t] = NULL]
      /\ cleared' = [cleared EXCEPT ![t] = FALSE] /\ disturbed' = [disturbed EXCEPT ![t] = FALSE]
      /\ UNCHANGED <<process, lastLine, process_Xvfb, procs, crossed, crashed>>
  BY Zenon DEF Return, Forgotten, At, Alive, Goto, statics
<1>3. Grown(procs, procs')  BY <1>1, <1>2, Same DEF TypeOK
<1>4. TypeOK'
  <2>1. Numbers' = Numbers  BY <1>2 DEF Numbers
  <2>2. own' \in [Threads -> Numbers] /\ local' \in [Threads -> Numbers]
    BY <1>1, <1>2, <1>3, NumbersGrow DEF TypeOK, NULL, Numbers
  <2>3. cleared' \in [Threads -> BOOLEAN] /\ disturbed' \in [Threads -> BOOLEAN]
    BY <1>1, <1>2 DEF TypeOK
  <2>4. pc' \in [Threads -> Places]  BY <1>1, <1>2 DEF TypeOK, Places
  <2> QED BY <1>1, <1>2, <2>1, <2>2, <2>3, <2>4, Zenon DEF TypeOK
<1>5. StepOf(t)  BY <1>1, <1>2, <1>3 DEF StepOf, TypeOK, Busy
<1>6. pc'[t] = "idle" /\ own'[t] = NULL  BY <1>1, <1>2 DEF TypeOK
<1> QED BY <1>2, <1>4, <1>5, <1>6, OthersKeep DEF Owns, Undisturbed, Busy, Running

\* cmdExer.destroy() alone, which disturbs whoever is in a call.
LEMMA DestroyStep ==
  ASSUME CallInvariant, NEW t \in Threads, Destroy(t)
  PROVE  CallInvariant'
<1>1. TypeOK /\ Owns(t)  BY DEF CallInvariant
<1>2. /\ crashed = {} /\ pc[t] = "idle" /\ process' = NULL /\ lastLine' = NULL
      /\ UNCHANGED <<process_Xvfb, procs, pc, local, own, cleared, crossed, crashed>>
  BY Zenon DEF Destroy, At, Alive
<1>3. disturbed' = [u \in Threads |-> disturbed[u] \/ Busy(u)]
  BY Zenon DEF Destroy
<1>4. Grown(procs, procs')  BY <1>1, <1>2, Same DEF TypeOK
<1>5. TypeOK'
  <2>1. disturbed' \in [Threads -> BOOLEAN]  BY <1>3
  <2>2. Numbers' = Numbers  BY <1>2 DEF Numbers
  <2>3. NULL \in Numbers  BY <1>1, <1>4, NumbersGrow DEF NULL, Numbers
  <2> QED BY <1>1, <1>2, <2>1, <2>2, <2>3, Zenon DEF TypeOK
<1>6. StepOf(t)
  <2>1. \A u \in Threads \ {t} : disturbed'[u] = (disturbed[u] \/ Busy(u))
    BY <1>3, Zenon
  <2> QED BY <2>1, <1>2, <1>4, Zenon DEF StepOf
<1> QED BY <1>1, <1>2, <1>5, <1>6, OthersKeep DEF Owns, Undisturbed, Busy, Running

\* A step of no thread: processes end, and display lets go of its server.
LEMMA ProcessEnds ==
  ASSUME CallInvariant, NEW p, procs' = Killed(p),
         process_Xvfb' \in {process_Xvfb, NULL},
         UNCHANGED <<process, lastLine, pc, local, own, cleared, disturbed, crossed, crashed>>
  PROVE  CallInvariant'
<1>1. TypeOK /\ \A t \in Threads : Owns(t) /\ (~disturbed[t] => Undisturbed(t))
  BY DEF CallInvariant
<1>2. Grown(procs, procs') /\ Len(procs') = Len(procs)
  BY <1>1, Changing DEF TypeOK, Killed
<1>3. TypeOK'
  <2>1. Numbers' = Numbers  BY <1>2 DEF Numbers
  <2>2. NULL \in Numbers  BY <1>1, <1>2, NumbersGrow DEF NULL, Numbers
  <2>3. procs' \in Seq(Process)  BY <1>2 DEF Grown
  <2> QED BY <1>1, <2>1, <2>2, <2>3, Zenon DEF TypeOK
<1>4. ASSUME NEW t \in Threads PROVE Owns(t)'
  <2>1. own[t] \in Numbers  BY <1>1 DEF TypeOK
  <2>2. own[t] # NULL => procs'[own[t]].kind = procs[own[t]].kind
    BY <1>2, <2>1 DEF Grown, Numbers, NULL
  <2> QED BY <1>1, <2>2 DEF Owns
<1>5. ASSUME NEW t \in Threads, ~disturbed'[t] PROVE Undisturbed(t)'
  BY <1>1, <1>5 DEF Undisturbed, Busy
<1> QED BY <1>3, <1>4, <1>5 DEF CallInvariant

LEMMA EndStep ==
  ASSUME CallInvariant, CommandEnds \/ StopXvfb
  PROVE  CallInvariant'
<1>1. PICK p : procs' = Killed(p)
  BY Zenon DEF CommandEnds, StopXvfb
<1>2. /\ process_Xvfb' \in {process_Xvfb, NULL}
      /\ UNCHANGED <<process, lastLine, pc, local, own, cleared, disturbed, crossed, crashed>>
  BY Zenon DEF CommandEnds, StopXvfb, statics, history
<1> QED BY <1>1, <1>2, ProcessEnds

LEMMA CallUnchanged ==
  ASSUME CallInvariant, UNCHANGED vars
  PROVE  CallInvariant'
BY DEF vars, statics, history, CallInvariant, TypeOK, Numbers, Owns, Undisturbed, Busy, Running

-----------------------------------------------------------------------------
(* display.                                                                  *)

LEMMA StartXvfbStep ==
  ASSUME CallInvariant, StartXvfb
  PROVE  CallInvariant'
<1> DEFINE new == [kind |-> "xvfb", alive |-> TRUE, output |-> "none"]
<1>1. TypeOK /\ Owns(Main) /\ Main \in Threads  BY ThreadsAssumption DEF CallInvariant
<1>2. /\ crashed = {} /\ pc[Main] = "idle" /\ pc' = [pc EXCEPT ![Main] = "keep"]
      /\ process_Xvfb = NULL
      /\ procs' = Append(procs, new) /\ process' = Len(procs')
      /\ own' = [own EXCEPT ![Main] = process']
      /\ UNCHANGED <<lastLine, process_Xvfb, local, cleared, crossed, crashed>>
  BY Zenon DEF StartXvfb, StartXvfbIf, Started, At, Alive, Goto
<1>3. disturbed' = [u \in Threads |->
         IF u = Main THEN \E v \in Threads \ {Main} : Busy(v) ELSE disturbed[u] \/ Busy(u)]
  BY Zenon DEF StartXvfb, StartXvfbIf, Enters
<1>4. Grown(procs, procs') /\ Len(procs') = Len(procs) + 1
  <2>1. new \in Process  BY DEF Process, Kinds, Outputs
  <2> QED BY <1>1, <1>2, <2>1, Starting DEF TypeOK
<1>5. Len(procs) \in Nat /\ Numbers \subseteq Numbers'  BY <1>1, <1>4, NumbersGrow
<1>6. process' \in Numbers' /\ process' # NULL
  BY <1>2, <1>4, <1>5 DEF Numbers, NULL
<1>7. TypeOK'
  <2>1. disturbed' \in [Threads -> BOOLEAN]
    BY <1>1, EntersTypes, Zenon DEF StartXvfb, StartXvfbIf
  <2>2. pc' \in [Threads -> Places]  BY <1>1, <1>2 DEF TypeOK, Places
  <2>3. own' \in [Threads -> Numbers'] /\ local' \in [Threads -> Numbers']
    BY <1>1, <1>2, <1>5, <1>6 DEF TypeOK
  <2>4. procs' \in Seq(Process)  BY <1>4 DEF Grown
  <2>5. lastLine' \in Numbers' /\ process_Xvfb' \in Numbers'  BY <1>1, <1>2, <1>5 DEF TypeOK
  <2>6. cleared' \in [Threads -> BOOLEAN] /\ crossed' \in Nat /\ crashed' \subseteq Threads
    BY <1>1, <1>2 DEF TypeOK
  <2> QED BY <1>6, <2>1, <2>2, <2>3, <2>4, <2>5, <2>6, Zenon DEF TypeOK
<1>8. StepOf(Main)
  <2>1. \A u \in Threads \ {Main} : disturbed'[u] = (disturbed[u] \/ Busy(u))
    BY <1>3, Zenon
  <2> QED BY <2>1, <1>1, <1>2, <1>4 DEF StepOf, TypeOK
<1>9. own'[Main] = process' /\ pc'[Main] = "keep"  BY <1>1, <1>2 DEF TypeOK
<1>10. Owns(Main)'  BY <1>2, <1>6, <1>9 DEF Owns, Running
<1>11. ASSUME ~disturbed'[Main] PROVE Undisturbed(Main)'
  <2>1. \A v \in Threads \ {Main} : ~Busy(v)  BY <1>1, <1>3, <1>11, Zenon
  <2>2. \A v \in Threads \ {Main} : ~Busy(v)'  BY <2>1, <1>8, Zenon DEF Busy, StepOf
  <2> QED BY <2>2, <1>2, <1>9 DEF Undisturbed
<1> QED BY <1>1, <1>7, <1>8, <1>10, <1>11, OthersKeep

LEMMA XvfbFailsStep ==
  ASSUME CallInvariant, XvfbFailsToStart
  PROVE  CallInvariant'
<1>1. TypeOK /\ Owns(Main) /\ Main \in Threads  BY ThreadsAssumption DEF CallInvariant
<1>2. /\ crashed = {} /\ pc[Main] = "idle" /\ pc' = [pc EXCEPT ![Main] = "keep"]
      /\ process_Xvfb = NULL
      /\ UNCHANGED <<process, lastLine, process_Xvfb, procs, local, own, cleared, crossed, crashed>>
  BY Zenon DEF XvfbFailsToStart, At, Alive, Goto, statics
<1>3. disturbed' = [u \in Threads |->
         IF u = Main THEN \E v \in Threads \ {Main} : Busy(v) ELSE disturbed[u] \/ Busy(u)]
  BY Zenon DEF XvfbFailsToStart, Enters
<1>4. Grown(procs, procs')  BY <1>1, <1>2, Same DEF TypeOK
<1>5. TypeOK'
  <2>1. disturbed' \in [Threads -> BOOLEAN]
    BY <1>1, EntersTypes, Zenon DEF XvfbFailsToStart
  <2>2. pc' \in [Threads -> Places]  BY <1>1, <1>2 DEF TypeOK, Places
  <2>3. Numbers' = Numbers  BY <1>2 DEF Numbers
  <2> QED BY <1>1, <1>2, <2>1, <2>2, <2>3, Zenon DEF TypeOK
<1>6. StepOf(Main)
  <2>1. \A u \in Threads \ {Main} : disturbed'[u] = (disturbed[u] \/ Busy(u))
    BY <1>3, Zenon
  <2> QED BY <2>1, <1>1, <1>2, <1>4 DEF StepOf, TypeOK
<1>7. own'[Main] = NULL /\ pc'[Main] = "keep"  BY <1>1, <1>2 DEF TypeOK, Owns
<1>8. Owns(Main)'  BY <1>2, <1>7 DEF Owns, Running
<1>9. ASSUME ~disturbed'[Main] PROVE Undisturbed(Main)'
  <2>1. \A v \in Threads \ {Main} : ~Busy(v)  BY <1>1, <1>3, <1>9, Zenon
  <2>2. \A v \in Threads \ {Main} : ~Busy(v)'  BY <2>1, <1>6, Zenon DEF Busy, StepOf
  <2> QED BY <2>2, <1>2, <1>7 DEF Undisturbed
<1> QED BY <1>1, <1>5, <1>6, <1>8, <1>9, OthersKeep

LEMMA KeepXvfbStep ==
  ASSUME CallInvariant, KeepXvfb
  PROVE  CallInvariant'
<1>1. TypeOK /\ Main \in Threads  BY ThreadsAssumption DEF CallInvariant
<1>2. /\ crashed = {} /\ pc[Main] = "keep" /\ pc' = [pc EXCEPT ![Main] = "idle"]
      /\ process_Xvfb' = process
      /\ own' = [own EXCEPT ![Main] = NULL] /\ local' = [local EXCEPT ![Main] = NULL]
      /\ cleared' = [cleared EXCEPT ![Main] = FALSE]
      /\ disturbed' = [disturbed EXCEPT ![Main] = FALSE]
      /\ UNCHANGED <<process, lastLine, procs, crashed>>
  BY Zenon DEF KeepXvfb, Forgotten, At, Alive, Goto
<1>3. Grown(procs, procs')  BY <1>1, <1>2, Same DEF TypeOK
<1>4. TypeOK'
  <2>1. Numbers' = Numbers  BY <1>2 DEF Numbers
  <2>2. own' \in [Threads -> Numbers] /\ local' \in [Threads -> Numbers]
    BY <1>1, <1>2, <1>3, NumbersGrow DEF TypeOK, NULL, Numbers
  <2>3. cleared' \in [Threads -> BOOLEAN] /\ disturbed' \in [Threads -> BOOLEAN]
    BY <1>1, <1>2 DEF TypeOK
  <2>4. pc' \in [Threads -> Places]  BY <1>1, <1>2 DEF TypeOK, Places
  <2>5. crossed' \in Nat  BY <1>1 DEF TypeOK, KeepXvfb
  <2> QED BY <1>1, <1>2, <2>1, <2>2, <2>3, <2>4, <2>5, Zenon DEF TypeOK
<1>5. \A u \in Threads \ {Main} : pc[u] # "keep"  BY DEF CallInvariant, Owns
<1>6. StepOf(Main)  BY <1>1, <1>2, <1>3, <1>5 DEF StepOf, TypeOK, Busy
<1>7. pc'[Main] = "idle" /\ own'[Main] = NULL  BY <1>1, <1>2 DEF TypeOK
<1> QED BY <1>1, <1>2, <1>4, <1>6, <1>7, OthersKeep DEF Owns, Undisturbed, Busy, Running

-----------------------------------------------------------------------------
LEMMA CallInit == Init => CallInvariant
<1> SUFFICES ASSUME Init PROVE CallInvariant
  OBVIOUS
<1>1. Len(procs) = 0 /\ procs \in Seq(Process)  BY EmptySeq DEF Init
<1>2. TypeOK
  BY <1>1 DEF Init, TypeOK, Places, Numbers, NULL
<1> QED BY <1>2 DEF Init, CallInvariant, Owns, Undisturbed, Busy, Running

LEMMA CallStep ==
  ASSUME CallInvariant, [Next]_vars
  PROVE  CallInvariant'
<1>1. ASSUME NEW t \in Threads, Begin(t) \/ Call(t) \/ Throws(t) \/ Destroy(t)
      PROVE  CallInvariant'
  <2>1. CASE Call(t)
    BY <2>1, StartStep, TakeStep, ReadLineStep, WaitingStep, DestroyProcessStep, ReturnStep
    DEF Call
  <2> QED BY <1>1, <2>1, BeginStep, WaitingStep, DestroyStep
<1>2. CASE CommandEnds \/ StopXvfb  BY <1>2, EndStep
<1>3. CASE StartXvfb  BY <1>3, StartXvfbStep
<1>4. CASE KeepXvfb  BY <1>4, KeepXvfbStep
<1>5. CASE UNCHANGED vars  BY <1>5, CallUnchanged
<1>6. CASE XvfbFailsToStart  BY <1>6, XvfbFailsStep
<1> QED BY <1>1, <1>2, <1>3, <1>4, <1>5, <1>6, Zenon DEF Next

\* Whatever the threads do with the statics and whatever throws, a call that nobody
\* disturbs is the only one.  The process in the static is its own once it has started
\* one; until then it is what an earlier call left, or none if cmdExer.destroy() came
\* before it; and after cmdExer.destroy() the line is its own or none.
THEOREM CallInvariantHolds == Spec => []CallInvariant
BY CallInit, CallStep, PTL DEF Spec

\* execute(): a call that overlaps with no other thread's does not end the app.  What
\* it destroys is the process that it has started, or, if start() threw and the statics
\* were not cleared, the one an earlier call has left; with the statics cleared its
\* caller finds its own command's last line or none.
THEOREM UndisturbedCallsAreOwn == Spec => []UndisturbedCallsAreTheirOwn
<1>1. CallInvariant => UndisturbedCallsAreTheirOwn
  BY DEF CallInvariant, Undisturbed, UndisturbedCallsAreTheirOwn
<1> QED BY <1>1, CallInvariantHolds, PTL

-----------------------------------------------------------------------------
(* Servers that nobody knows of.                                             *)

Strays == {p \in 1..Len(procs) : /\ procs[p].kind = "xvfb" /\ procs[p].alive
                                 /\ p # process_Xvfb /\ p # own[Main]}
StrayInvariant ==
  /\ CallInvariant
  /\ IsFiniteSet(Strays) /\ Cardinality(Strays) <= crossed

\* A step that starts no server, and after which display and its call know of those
\* that they knew of, leaves no other stray.
LEMMA NoNewStray ==
  ASSUME CallInvariant, Grown(procs, procs'),
         \A p \in 1..Len(procs') : p > Len(procs) =>
            procs'[p].kind = "command" \/ p = own'[Main],
         \A p \in 1..Len(procs) : p \in {process_Xvfb, own[Main]} =>
            \/ procs[p].kind = "command" \/ p \in {process_Xvfb', own'[Main]}
            \/ ~procs'[p].alive
  PROVE  Strays' \subseteq Strays
<1>1. Len(procs) \in Nat /\ procs \in Seq(Process)  BY LenProperties DEF CallInvariant, TypeOK
<1>2. ASSUME NEW p \in Strays' PROVE p \in Strays
  <2>1. /\ p \in 1..Len(procs') /\ procs'[p].kind = "xvfb" /\ procs'[p].alive
        /\ p # process_Xvfb' /\ p # own'[Main]
    BY DEF Strays
  <2>2. p \in 1..Len(procs)  BY <1>1, <2>1 DEF Grown
  <2>3. procs[p].kind = "xvfb" /\ procs[p].alive  BY <2>1, <2>2 DEF Grown
  <2> QED BY <2>1, <2>2, <2>3 DEF Strays
<1> QED BY <1>2

LEMMA UnlessStarted ==
  ASSUME CallInvariant, Grown(procs, procs'), Len(procs') = Len(procs),
         UNCHANGED <<own, process_Xvfb>>
  PROVE  Strays' \subseteq Strays
<1>1. Len(procs) \in Nat  BY LenProperties DEF CallInvariant, TypeOK
<1> QED BY <1>1, NoNewStray

\* A call's own process is a command, but for Main's between startXvfb()'s two steps.
LEMMA OwnIsCommand ==
  ASSUME CallInvariant, pc[Main] # "keep"
  PROVE  own[Main] \in 1..Len(procs) => procs[own[Main]].kind = "command"
<1>1. Main \in Threads  BY ThreadsAssumption
<1> QED BY <1>1 DEF CallInvariant, Owns, NULL

LEMMA OneMore ==
  ASSUME NEW S, IsFiniteSet(S), NEW x
  PROVE  /\ IsFiniteSet(S \cup {x}) /\ Cardinality(S) \in Nat
         /\ Cardinality(S \cup {x}) \in Nat /\ Cardinality(S \cup {x}) <= Cardinality(S) + 1
<1>1. Cardinality(S) \in Nat  BY FS_CardinalityType
<1>2. /\ IsFiniteSet(S \cup {x})
      /\ Cardinality(S \cup {x}) = IF x \in S THEN Cardinality(S) ELSE Cardinality(S) + 1
  BY FS_AddElement
<1> QED BY <1>1, <1>2

LEMMA StraysKeep ==
  ASSUME StrayInvariant, Strays' \subseteq Strays, crossed' = crossed, CallInvariant'
  PROVE  StrayInvariant'
<1>1. /\ IsFiniteSet(Strays') /\ Cardinality(Strays') \in Nat /\ Cardinality(Strays) \in Nat
      /\ Cardinality(Strays') <= Cardinality(Strays)
  BY FS_Subset, FS_CardinalityType DEF StrayInvariant
<1>2. crossed \in Nat  BY DEF StrayInvariant, CallInvariant, TypeOK
<1> QED BY <1>1, <1>2 DEF StrayInvariant

\* What a step of execute(), or of a command, does to processes and to own.
LEMMA CommandSteps ==
  ASSUME CallInvariant, CallInvariant', [Next]_vars, ~StartXvfb, ~KeepXvfb, ~StopXvfb
  PROVE  Strays' \subseteq Strays /\ crossed' = crossed
<1>1. TypeOK /\ procs \in Seq(Process) /\ Main \in Threads
  BY ThreadsAssumption DEF CallInvariant, TypeOK
<1>2. ASSUME NEW t \in Threads, Start(t)
      PROVE  Strays' \subseteq Strays /\ crossed' = crossed
  <2>1. PICK output \in Outputs :
          procs' = Append(procs, [kind |-> "command", alive |-> TRUE, output |-> output])
    BY <1>2, Zenon DEF Start, Started
  <2>2. /\ pc[t] = "start" /\ own' = [own EXCEPT ![t] = process']
        /\ process_Xvfb' = process_Xvfb /\ crossed' = crossed
    BY <1>2, Zenon DEF Start, At
  <2>3. /\ Grown(procs, procs') /\ Len(procs') = Len(procs) + 1
        /\ procs'[Len(procs) + 1].kind = "command"
    <3>1. [kind |-> "command", alive |-> TRUE, output |-> output] \in Process
      BY DEF Process, Kinds
    <3> QED BY <1>1, <2>1, <3>1, Starting
  <2>4. own[t] = NULL  BY <2>2 DEF CallInvariant, Owns
  <2>5. own'[Main] = own[Main] \/ own[Main] = NULL
    BY <1>1, <2>2, <2>4 DEF TypeOK
  <2>6. Len(procs) \in Nat  BY <1>1, LenProperties
  <2> QED BY <2>2, <2>3, <2>5, <2>6, NoNewStray DEF NULL
<1>3. ASSUME NEW t \in Threads, Return(t)
      PROVE  Strays' \subseteq Strays /\ crossed' = crossed
  <2>1. /\ pc[t] = "return" /\ own' = [own EXCEPT ![t] = NULL] /\ procs' = procs
        /\ process_Xvfb' = process_Xvfb /\ crossed' = crossed
    BY <1>3, Zenon DEF Return, Forgotten, At, statics
  <2>2. own'[Main] = own[Main] \/ pc[Main] = "return"
    BY <1>1, <2>1 DEF TypeOK
  <2>3. Grown(procs, procs')  BY <1>1, <2>1, Same
  <2>4. Len(procs) \in Nat  BY <1>1, LenProperties
  <2> QED BY <2>1, <2>2, <2>3, <2>4, OwnIsCommand, NoNewStray
<1>4. CASE /\ UNCHANGED <<own, process_Xvfb, crossed>>
           /\ \/ procs' = procs
              \/ \E p : procs' = Killed(p)
              \/ \E p : procs' = [procs EXCEPT ![p].output = "none"]
  <2>1. CASE procs' = procs  BY <1>1, <1>4, <2>1, Same, UnlessStarted
  <2>2. ASSUME NEW p, procs' = Killed(p) PROVE Strays' \subseteq Strays
    BY <1>1, <1>4, <2>2, Changing, UnlessStarted DEF Killed
  <2>3. ASSUME NEW p, procs' = [procs EXCEPT ![p].output = "none"]
        PROVE  Strays' \subseteq Strays
    BY <1>1, <1>4, <2>3, Changing, UnlessStarted
  <2> QED BY <1>4, <2>1, <2>2, <2>3, Zenon
<1>5. ASSUME NEW t \in Threads, Call(t) \/ Throws(t), ~Start(t), ~Return(t)
      PROVE  Strays' \subseteq Strays /\ crossed' = crossed
  <2>1. UNCHANGED <<own, process_Xvfb, crossed>>
    BY <1>5, Zenon
    DEF Call, GetInputStream, CallWaitFor, Take, ReadLine, EndOfOutput, EndOfOutputIf, WaitFor,
        Throws, Finally, DestroyProcess, statics, history
  <2>2. \/ procs' = procs
        \/ \E p : procs' = Killed(p)
        \/ \E p : procs' = [procs EXCEPT ![p].output = "none"]
    BY <1>5, Zenon
    DEF Call, GetInputStream, CallWaitFor, Take, ReadLine, EndOfOutput, EndOfOutputIf, WaitFor,
        Throws, Finally, DestroyProcess, statics, history
  <2> QED BY <2>1, <2>2, <1>4
<1>6. ASSUME NEW t \in Threads, Begin(t) \/ Destroy(t)
      PROVE  Strays' \subseteq Strays /\ crossed' = crossed
  <2>1. UNCHANGED <<own, process_Xvfb, crossed, procs>>
    BY <1>6, Zenon DEF Begin, BeginClearing, Destroy
  <2> QED BY <2>1, <1>4
<1>7. CASE CommandEnds
  <2>1. UNCHANGED <<own, process_Xvfb, crossed>> /\ \E p : procs' = Killed(p)
    BY <1>7, Zenon DEF CommandEnds, statics, history
  <2> QED BY <2>1, <1>4
<1>8. CASE UNCHANGED vars
  <2>1. UNCHANGED <<own, process_Xvfb, crossed, procs>>
    BY <1>8, Zenon DEF vars, statics, history
  <2> QED BY <2>1, <1>4
<1>9. CASE XvfbFailsToStart
  <2>1. UNCHANGED <<own, process_Xvfb, crossed, procs>>
    BY <1>9, Zenon DEF XvfbFailsToStart, statics
  <2> QED BY <2>1, <1>4
<1> QED BY <1>2, <1>3, <1>5, <1>6, <1>7, <1>8, <1>9, Zenon DEF Next

LEMMA StartKeepsStrays ==
  ASSUME CallInvariant, StartXvfb
  PROVE  Strays' \subseteq Strays /\ crossed' = crossed
<1> DEFINE new == [kind |-> "xvfb", alive |-> TRUE, output |-> "none"]
<1>1. TypeOK /\ procs \in Seq(Process) /\ Main \in Threads
  BY ThreadsAssumption DEF CallInvariant, TypeOK
<1>2. /\ pc[Main] = "idle" /\ procs' = Append(procs, new) /\ process' = Len(procs')
      /\ own' = [own EXCEPT ![Main] = process']
      /\ UNCHANGED <<process_Xvfb, crossed>>
  BY Zenon DEF StartXvfb, StartXvfbIf, Started, At
<1>3. Grown(procs, procs') /\ Len(procs') = Len(procs) + 1 /\ Len(procs) \in Nat
  <2>1. new \in Process  BY DEF Process, Kinds, Outputs
  <2> QED BY <1>1, <1>2, <2>1, Starting, LenProperties
<1>4. own'[Main] = Len(procs) + 1  BY <1>1, <1>2, <1>3 DEF TypeOK
<1>5. own[Main] = NULL  BY <1>1, <1>2 DEF CallInvariant, Owns
<1> QED BY <1>2, <1>3, <1>4, <1>5, NoNewStray DEF NULL

LEMMA StopKeepsStrays ==
  ASSUME CallInvariant, StopXvfb
  PROVE  Strays' \subseteq Strays /\ crossed' = crossed
<1>1. TypeOK /\ procs \in Seq(Process)  BY DEF CallInvariant, TypeOK
<1>2. /\ procs' = Killed(process_Xvfb) /\ process_Xvfb # NULL
      /\ UNCHANGED <<own, crossed>>
  BY Zenon DEF StopXvfb, history
<1>3. process_Xvfb \in 1..Len(procs)  BY <1>1, <1>2 DEF TypeOK, Numbers, NULL
<1>4. Grown(procs, procs') /\ Len(procs') = Len(procs) /\ ~procs'[process_Xvfb].alive
  BY <1>1, <1>2, <1>3, Changing DEF Killed
<1>5. Len(procs) \in Nat  BY <1>1, LenProperties
<1> QED BY <1>2, <1>4, <1>5, NoNewStray

\* display takes what it finds in the static: its own server, or, when none has started
\* or its call was disturbed, maybe another process; its own, if it has one, is then a
\* stray.
LEMMA KeepAddsOneStray ==
  ASSUME StrayInvariant, KeepXvfb, CallInvariant'
  PROVE  StrayInvariant'
<1>1. TypeOK /\ procs \in Seq(Process) /\ Main \in Threads /\ CallInvariant
  BY ThreadsAssumption DEF StrayInvariant, CallInvariant, TypeOK
<1>2. /\ pc[Main] = "keep" /\ process_Xvfb' = process /\ own' = [own EXCEPT ![Main] = NULL]
      /\ crossed' = (IF disturbed[Main] /\ own[Main] # NULL THEN crossed + 1 ELSE crossed)
      /\ UNCHANGED <<process, procs>>
  BY Zenon DEF KeepXvfb, Forgotten, At
<1>3. own'[Main] = NULL /\ process_Xvfb = NULL
  BY <1>1, <1>2 DEF CallInvariant, TypeOK, Owns
<1>4. Grown(procs, procs')  BY <1>1, <1>2, Same
<1>5. Len(procs) \in Nat  BY <1>1, LenProperties
<1>6. CASE ~disturbed[Main] \/ own[Main] = NULL
  <2>1. process = own[Main] \/ own[Main] = NULL
    BY <1>1, <1>2, <1>6 DEF CallInvariant, Undisturbed
  <2>2. Strays' \subseteq Strays
    BY <1>1, <1>2, <1>3, <1>4, <1>5, <2>1, NoNewStray DEF NULL
  <2> QED BY <1>2, <1>6, <2>2, StraysKeep
<1>7. CASE disturbed[Main] /\ own[Main] # NULL
  <2>1. Strays' \subseteq Strays \cup {own[Main]}
    BY <1>2, <1>3, <1>5 DEF Strays, NULL
  <2>2. /\ IsFiniteSet(Strays \cup {own[Main]})
        /\ Cardinality(Strays \cup {own[Main]}) <= Cardinality(Strays) + 1
        /\ Cardinality(Strays \cup {own[Main]}) \in Nat /\ Cardinality(Strays) \in Nat
    BY OneMore, Zenon DEF StrayInvariant
  <2>3. IsFiniteSet(Strays') /\ Cardinality(Strays') \in Nat
        /\ Cardinality(Strays') <= Cardinality(Strays \cup {own[Main]})
    BY <2>1, <2>2, FS_Subset, FS_CardinalityType
  <2>4. crossed \in Nat /\ crossed' = crossed + 1  BY <1>1, <1>2, <1>7 DEF TypeOK
  <2> QED BY <2>2, <2>3, <2>4 DEF StrayInvariant
<1> QED BY <1>6, <1>7

\* startXvfb() and stopXvfb(): a server that runs unknown to display was left by a
\* start that another thread's call had disturbed, and each such start leaves one.
THEOREM StraysNeedRaces == Spec => []StrayServersNeedRaces
<1>1. Init => StrayInvariant
  <2> SUFFICES ASSUME Init PROVE StrayInvariant
    OBVIOUS
  <2>1. CallInvariant  BY CallInit
  <2>2. Strays = {}  BY EmptySeq DEF Init, Strays
  <2> QED BY <2>1, <2>2, FS_EmptySet DEF Init, StrayInvariant
<1>2. StrayInvariant /\ [Next]_vars => StrayInvariant'
  <2> SUFFICES ASSUME StrayInvariant, [Next]_vars PROVE StrayInvariant'
    OBVIOUS
  <2>1. CallInvariant /\ CallInvariant'  BY CallStep DEF StrayInvariant
  <2> QED BY <2>1, CommandSteps, StartKeepsStrays, StopKeepsStrays, KeepAddsOneStray, StraysKeep
<1>3. StrayInvariant => StrayServersNeedRaces
  BY DEF StrayInvariant, StrayServersNeedRaces, Strays
<1> QED BY <1>1, <1>2, <1>3, PTL DEF Spec
=============================================================================
