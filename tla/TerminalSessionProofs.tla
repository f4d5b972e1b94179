----------------------- MODULE TerminalSessionProofs -----------------------
(***************************************************************************)
(* TerminalSession's safety, for buffers and queues of any size and for    *)
(* any amount of input and output.                                         *)
(***************************************************************************)
EXTENDS TerminalSession, SequenceTheorems, TLAPS

-----------------------------------------------------------------------------
\* The initial state satisfies the inductive invariant.
LEMMA InitInvariant == Init => InductiveInvariant
<1> SUFFICES ASSUME Init PROVE InductiveInvariant
  OBVIOUS
<1> USE SizesAssumption DEF Init
<1>1. ControlTypeOK
  <2>1. inbox \in Seq({NewInput, ProcessExited})
    BY EmptySeq
  <2> QED
    BY <2>1 DEF ControlTypeOK, Pid, MainPlaces, ReaderPlaces, WriterPlaces, WaiterPlaces,
                ShellStates, Misuses
<1>2. CountTypeOK
  BY DEF CountTypeOK
<1>3. QueuesCloseInCleanup /\ ReaderHoldsOneBatch /\ NoStrandedInput
  BY DEF QueuesCloseInCleanup, ReaderHoldsOneBatch, NoStrandedInput
<1>4. OutputIsConserved
  BY DEF OutputIsConserved
<1> QED
  BY <1>1, <1>2, <1>3, <1>4 DEF InductiveInvariant, TypeOK

-----------------------------------------------------------------------------
(* A step that leaves the variables of a part of the invariant alone       *)
(* preserves that part.                                                    *)

LEMMA CountsUntouched ==
  ASSUME CountTypeOK,
         UNCHANGED <<toTerminal, toProcess, mainLeft, readerLeft, writerLeft, ptyOut,
                     ptyIn, printed, printedByShell, appended, typed>>
  PROVE  CountTypeOK'
BY Zenon DEF CountTypeOK

LEMMA OutputUntouched ==
  ASSUME OutputIsConserved,
         UNCHANGED <<toTerminal, toTerminalOpen, readerLeft, ptyOut, printed, appended>>
  PROVE  OutputIsConserved'
BY Zenon DEF OutputIsConserved

LEMMA BatchUntouched ==
  ASSUME ReaderHoldsOneBatch,
         UNCHANGED <<mShellPid, toTerminalOpen, reader, readerLeft>>
  PROVE  ReaderHoldsOneBatch'
BY Zenon DEF ReaderHoldsOneBatch

LEMMA CleanupUntouched ==
  ASSUME QueuesCloseInCleanup,
         UNCHANGED <<mShellPid, toProcessOpen, toTerminalOpen, main, mainLeft>>
  PROVE  QueuesCloseInCleanup'
BY Zenon DEF QueuesCloseInCleanup

LEMMA AnnouncementUntouched ==
  ASSUME NoStrandedInput,
         UNCHANGED <<toTerminal, toTerminalOpen, inbox, reader>>
  PROVE  NoStrandedInput'
BY Zenon DEF NoStrandedInput

-----------------------------------------------------------------------------
(* The main thread's steps. *)

\* initializeEmulator() finds empty open queues and a reader yet to start.
LEMMA InitializeEmulatorStep ==
  ASSUME InductiveInvariant, InitializeEmulator
  PROVE  InductiveInvariant'
<1> USE DEF queues, threads, kernel, mainThread, InductiveInvariant, TypeOK
<1>1. ControlTypeOK'
  BY DEF ControlTypeOK, InitializeEmulator, Pid, ShellStates, ReaderPlaces,
         WriterPlaces, WaiterPlaces
<1>2. CountTypeOK'
  BY CountsUntouched, Zenon DEF InitializeEmulator
<1>3. QueuesCloseInCleanup'
  BY DEF InitializeEmulator, ControlTypeOK, QueuesCloseInCleanup, Pid
<1>4. ReaderHoldsOneBatch'
  BY DEF InitializeEmulator, ControlTypeOK, ReaderHoldsOneBatch, CountTypeOK,
         QueuesCloseInCleanup, Pid
<1>5. NoStrandedInput'
  BY DEF InitializeEmulator, ControlTypeOK, NoStrandedInput, ReaderHoldsOneBatch
<1>6. OutputIsConserved'
  BY OutputUntouched, Zenon DEF InitializeEmulator
<1> QED
  BY <1>1, <1>2, <1>3, <1>4, <1>5, <1>6, Zenon

\* write() returns to the looper.
LEMMA MainReturnsStep ==
  ASSUME InductiveInvariant, MainReturns
  PROVE  InductiveInvariant'
<1> USE DEF queues, threads, kernel, mainThread, InductiveInvariant, TypeOK
<1>1. ControlTypeOK'
  BY DEF ControlTypeOK, MainReturns, MainPlaces
<1>2. CountTypeOK'
  BY CountsUntouched, Zenon DEF MainReturns
<1>3. QueuesCloseInCleanup'
  BY DEF MainReturns, ControlTypeOK, QueuesCloseInCleanup
<1>4. ReaderHoldsOneBatch'
  BY BatchUntouched, Zenon DEF MainReturns
<1>5. NoStrandedInput'
  BY AnnouncementUntouched, Zenon DEF MainReturns
<1>6. OutputIsConserved'
  BY OutputUntouched, Zenon DEF MainReturns
<1> QED
  BY <1>1, <1>2, <1>3, <1>4, <1>5, <1>6, Zenon

\* The cleanup starts with the pid, when no input is left to write ...
LEMMA CleanupPidStep ==
  ASSUME InductiveInvariant, CleanupPid
  PROVE  InductiveInvariant'
<1> USE DEF queues, threads, kernel, mainThread, InductiveInvariant, TypeOK
<1>1. ControlTypeOK'
  BY DEF ControlTypeOK, CleanupPid, MainPlaces
<1>2. CountTypeOK'
  BY CountsUntouched, Zenon DEF CleanupPid
<1>3. QueuesCloseInCleanup'
  BY DEF CleanupPid, ControlTypeOK, QueuesCloseInCleanup
<1>4. ReaderHoldsOneBatch'
  <2>1. mShellPid' = -1
    BY Zenon DEF CleanupPid
  <2>2. mShellPid' # 0
    BY <2>1
  <2> QED
    BY <2>2, Zenon DEF CleanupPid, ReaderHoldsOneBatch
<1>5. NoStrandedInput'
  BY AnnouncementUntouched, Zenon DEF CleanupPid
<1>6. OutputIsConserved'
  BY OutputUntouched, Zenon DEF CleanupPid
<1> QED
  BY <1>1, <1>2, <1>3, <1>4, <1>5, <1>6, Zenon

\* ... closes toProcess ...
LEMMA CleanupToProcessStep ==
  ASSUME InductiveInvariant, CleanupToProcess
  PROVE  InductiveInvariant'
<1> USE DEF queues, threads, kernel, mainThread, InductiveInvariant, TypeOK
<1>1. ControlTypeOK'
  BY DEF ControlTypeOK, CleanupToProcess, CleanupToProcessLeaves, MainPlaces
<1>2. CountTypeOK'
  BY CountsUntouched, Zenon DEF CleanupToProcess, CleanupToProcessLeaves
<1>3. QueuesCloseInCleanup'
  BY DEF CleanupToProcess, CleanupToProcessLeaves, ControlTypeOK, QueuesCloseInCleanup
<1>4. ReaderHoldsOneBatch'
  BY BatchUntouched, Zenon DEF CleanupToProcess, CleanupToProcessLeaves
<1>5. NoStrandedInput'
  BY AnnouncementUntouched, Zenon DEF CleanupToProcess, CleanupToProcessLeaves
<1>6. OutputIsConserved'
  BY OutputUntouched, Zenon DEF CleanupToProcess, CleanupToProcessLeaves
<1> QED
  BY <1>1, <1>2, <1>3, <1>4, <1>5, <1>6, Zenon

\* ... then toTerminal, whose bytes are dropped ...
LEMMA CleanupToTerminalStep ==
  ASSUME InductiveInvariant, CleanupToTerminal
  PROVE  InductiveInvariant'
<1> USE DEF queues, threads, kernel, mainThread, InductiveInvariant, TypeOK
<1>1. ControlTypeOK'
  BY DEF ControlTypeOK, CleanupToTerminal, CleanupToTerminalLeaves, MainPlaces
<1>2. CountTypeOK'
  BY CountsUntouched, Zenon DEF CleanupToTerminal, CleanupToTerminalLeaves
<1>3. QueuesCloseInCleanup'
  BY DEF CleanupToTerminal, CleanupToTerminalLeaves, ControlTypeOK, QueuesCloseInCleanup
<1>4. ReaderHoldsOneBatch'
  BY DEF CleanupToTerminal, CleanupToTerminalLeaves, ControlTypeOK, ReaderHoldsOneBatch
<1>5. NoStrandedInput'
  BY DEF CleanupToTerminal, CleanupToTerminalLeaves, ControlTypeOK, CountTypeOK,
         NoStrandedInput
<1>6. OutputIsConserved'
  BY DEF CleanupToTerminal, CleanupToTerminalLeaves, ControlTypeOK, CountTypeOK,
         OutputIsConserved, QueuesCloseInCleanup, ReaderHoldsOneBatch
<1> QED
  BY <1>1, <1>2, <1>3, <1>4, <1>5, <1>6, Zenon

\* ... and last the descriptor.
LEMMA CleanupDescriptorStep ==
  ASSUME InductiveInvariant, CleanupDescriptor
  PROVE  InductiveInvariant'
<1> USE DEF queues, threads, kernel, mainThread, InductiveInvariant, TypeOK
<1>1. ControlTypeOK'
  BY DEF ControlTypeOK, CleanupDescriptor, MainPlaces
<1>2. CountTypeOK'
  BY CountsUntouched, Zenon DEF CleanupDescriptor
<1>3. QueuesCloseInCleanup'
  BY DEF CleanupDescriptor, ControlTypeOK, QueuesCloseInCleanup
<1>4. ReaderHoldsOneBatch'
  BY BatchUntouched, Zenon DEF CleanupDescriptor
<1>5. NoStrandedInput'
  BY AnnouncementUntouched, Zenon DEF CleanupDescriptor
<1>6. OutputIsConserved'
  BY OutputUntouched, Zenon DEF CleanupDescriptor
<1> QED
  BY <1>1, <1>2, <1>3, <1>4, <1>5, <1>6, Zenon

\* kill() disturbs no byte.
LEMMA FinishIfRunningStep ==
  ASSUME InductiveInvariant, FinishIfRunning
  PROVE  InductiveInvariant'
<1> USE DEF queues, threads, kernel, mainThread, InductiveInvariant, TypeOK
<1>1. ControlTypeOK'
  BY DEF ControlTypeOK, FinishIfRunning, Record, ShellDies, ShellStates, Misuses, MainPlaces
<1>2. CountTypeOK'
  BY DEF FinishIfRunning, CountTypeOK, ShellDies
<1>3. QueuesCloseInCleanup'
  <2>1. /\ UNCHANGED <<mShellPid, toProcessOpen, toTerminalOpen, mainLeft>>
        /\ main' = main \/ (main' = "killed" /\ mShellPid = 0)
    BY DEF FinishIfRunning
  <2>2. CASE main' = main
    BY <2>1, <2>2, CleanupUntouched, Zenon
  <2>3. CASE main' = "killed" /\ mShellPid = 0
    <3>1. /\ mShellPid # -1
          /\ main' \notin {"append", "append, exit"}
          /\ main' \notin {"close toProcess", "close toTerminal", "close fd"}
      BY <2>3
    <3> QED
      BY <2>1, <3>1, Zenon DEF QueuesCloseInCleanup
  <2> QED
    BY <2>1, <2>2, <2>3, Zenon
<1>4. ReaderHoldsOneBatch'
  BY BatchUntouched, Zenon DEF FinishIfRunning
<1>5. NoStrandedInput'
  BY AnnouncementUntouched, Zenon DEF FinishIfRunning
<1>6. OutputIsConserved'
  BY OutputUntouched, Zenon DEF FinishIfRunning
<1> QED
  BY <1>1, <1>2, <1>3, <1>4, <1>5, <1>6, Zenon

\* Nor does an ioctl().
LEMMA UpdateSizeStep ==
  ASSUME InductiveInvariant, UpdateSize
  PROVE  InductiveInvariant'
<1> USE DEF queues, threads, kernel, mainThread, InductiveInvariant, TypeOK
<1>1. ControlTypeOK'
  BY DEF ControlTypeOK, UpdateSize, Record, Misuses
<1>2. CountTypeOK'
  BY CountsUntouched, Zenon DEF UpdateSize
<1>3. QueuesCloseInCleanup'
  BY CleanupUntouched, Zenon DEF UpdateSize
<1>4. ReaderHoldsOneBatch'
  BY BatchUntouched, Zenon DEF UpdateSize
<1>5. NoStrandedInput'
  BY AnnouncementUntouched, Zenon DEF UpdateSize
<1>6. OutputIsConserved'
  BY OutputUntouched, Zenon DEF UpdateSize
<1> QED
  BY <1>1, <1>2, <1>3, <1>4, <1>5, <1>6, Zenon

\* handleMessage() takes all that an open toTerminal stores, since the queue is no
\* larger than the receive buffer: no byte is left behind without a message.
LEMMA HandleMessageStep ==
  ASSUME InductiveInvariant, HandleMessage
  PROVE  InductiveInvariant'
<1> USE DEF queues, threads, kernel, mainThread, InductiveInvariant, TypeOK
<1> DEFINE n == IF toTerminalOpen THEN Least(toTerminal, HandlerBuf) ELSE 0
<1>1. n \in Nat /\ n <= toTerminal /\ (toTerminalOpen => n = toTerminal)
  BY SizesAssumption, BuffersAssumption DEF CountTypeOK, ControlTypeOK, Least
<1>2. toTerminal' = toTerminal - n /\ appended' = appended + n
  BY DEF HandleMessage, HandleMessageTaking
<1>3. PICK r \in 0..(IF n > 0 /\ mShellPid > 0 THEN MaxReply ELSE 0) :
        typed' = typed + r /\ mainLeft' = r
  BY Zenon DEF HandleMessage, HandleMessageTaking
<1> HIDE DEF n
<1>4. main = "looper" /\ main' \in {"append", "append, exit"}
  BY DEF HandleMessage, HandleMessageTaking
<1>5. ControlTypeOK'
  <2>1. inbox' \in Seq({NewInput, ProcessExited})
    BY HeadTailProperties DEF HandleMessage, HandleMessageTaking, ControlTypeOK
  <2> QED
    BY <2>1, <1>4 DEF ControlTypeOK, HandleMessage, HandleMessageTaking, MainPlaces
<1>6. UNCHANGED <<mShellPid, toTerminalOpen, toProcessOpen, toProcess, readerLeft,
                  writerLeft, ptyOut, ptyIn, printed, printedByShell, reader>>
  BY Zenon DEF HandleMessage, HandleMessageTaking
<1>7. CountTypeOK'
  <2>1. toTerminal' \in 0..QueueSize /\ appended' \in Nat
    BY <1>1, <1>2, SizesAssumption DEF CountTypeOK
  <2>2. r \in Nat /\ typed + r \in Nat
    BY SizesAssumption DEF CountTypeOK
  <2>3. typed' \in Nat /\ mainLeft' \in Nat
    BY <1>3, <2>2, Zenon
  <2> QED
    BY <2>1, <2>3, <1>6, Zenon DEF CountTypeOK
<1>8. QueuesCloseInCleanup'
  <2>1. r > 0 => mShellPid # -1
    BY DEF ControlTypeOK, Pid
  <2>2. mainLeft' > 0 => mShellPid # -1
    BY <1>3, <2>1, Zenon
  <2> QED
    BY <2>2, <1>4, <1>6 DEF QueuesCloseInCleanup
<1>9. ReaderHoldsOneBatch'
  BY BatchUntouched, Zenon DEF HandleMessage, HandleMessageTaking
<1>10. NoStrandedInput'
  <2>1. toTerminalOpen' => ~(toTerminal' > 0)
    BY <1>1, <1>2, <1>6 DEF CountTypeOK
  <2> QED
    BY <2>1, Zenon DEF NoStrandedInput
<1>11. OutputIsConserved'
  BY <1>1, <1>2, <1>6 DEF CountTypeOK, OutputIsConserved
<1> QED
  BY <1>5, <1>7, <1>8, <1>9, <1>10, <1>11, Zenon

\* The user's input goes to a session that has a shell, so its queue is open.
LEMMA UserWritesStep ==
  ASSUME InductiveInvariant, UserWrites
  PROVE  InductiveInvariant'
<1> USE DEF queues, threads, kernel, mainThread, InductiveInvariant, TypeOK
<1>1. PICK n \in Nat : mainLeft' = n /\ typed' = typed + n
  BY SizesAssumption DEF UserWrites, UserWritesIf, CountTypeOK
<1>2. main = "looper" /\ main' = "append" /\ mShellPid > 0
  BY DEF UserWrites, UserWritesIf
<1>3. ControlTypeOK'
  BY <1>2 DEF ControlTypeOK, UserWrites, UserWritesIf, MainPlaces
<1>4. CountTypeOK'
  BY <1>1 DEF UserWrites, UserWritesIf, CountTypeOK
<1>5. QueuesCloseInCleanup'
  BY <1>1, <1>2 DEF UserWrites, UserWritesIf, ControlTypeOK, QueuesCloseInCleanup
<1>6. ReaderHoldsOneBatch' /\ NoStrandedInput' /\ OutputIsConserved'
  BY BatchUntouched, AnnouncementUntouched, OutputUntouched, Zenon
     DEF UserWrites, UserWritesIf
<1> QED
  BY <1>3, <1>4, <1>5, <1>6, Zenon

\* A chunk is no longer than what is left and no larger than the room.
LEMMA MainWritesChunkStep ==
  ASSUME InductiveInvariant, MainWritesChunk
  PROVE  InductiveInvariant'
<1> USE DEF queues, threads, kernel, mainThread, InductiveInvariant, TypeOK
<1> DEFINE n == IF toProcessOpen THEN Least(mainLeft, QueueSize - toProcess) ELSE 0
<1>1. /\ toProcess' = toProcess + n
      /\ mainLeft' = IF toProcessOpen THEN mainLeft - n ELSE 0
      /\ mainLeft > 0
      /\ toProcessOpen => toProcess < QueueSize
      /\ UNCHANGED <<mShellPid, toTerminalOpen, toProcessOpen, main>>
      /\ UNCHANGED <<toTerminal, readerLeft, writerLeft, ptyOut, ptyIn, printed,
                     printedByShell, appended, typed>>
  BY Zenon DEF MainWritesChunk
<1>2. n \in Nat /\ n <= mainLeft /\ n <= QueueSize - toProcess
  BY <1>1, SizesAssumption DEF CountTypeOK, Least
<1> HIDE DEF n
<1>3. mainLeft' \in Nat /\ toProcess' \in 0..QueueSize
  BY <1>1, <1>2, SizesAssumption DEF CountTypeOK
<1>4. ControlTypeOK'
  BY DEF ControlTypeOK, MainWritesChunk
<1>5. CountTypeOK'
  BY <1>1, <1>3, Zenon DEF CountTypeOK
<1>6. QueuesCloseInCleanup'
  BY <1>1 DEF QueuesCloseInCleanup
<1>7. ReaderHoldsOneBatch' /\ NoStrandedInput' /\ OutputIsConserved'
  BY BatchUntouched, AnnouncementUntouched, OutputUntouched, Zenon DEF MainWritesChunk
<1> QED
  BY <1>4, <1>5, <1>6, <1>7, Zenon

-----------------------------------------------------------------------------
(* The reader thread's steps. *)

\* A read() is called only when all that was read before has been written.
LEMMA ReaderCallsStep ==
  ASSUME InductiveInvariant, ReaderCalls
  PROVE  InductiveInvariant'
<1> USE DEF queues, threads, kernel, mainThread, InductiveInvariant, TypeOK
<1>1. reader = "loop" /\ reader' \in {"read", "done", "foreign"}
  BY DEF ReaderCalls
<1>2. ControlTypeOK'
  BY DEF ControlTypeOK, ReaderCalls, Record, ReaderPlaces, Misuses
<1>3. CountTypeOK' /\ QueuesCloseInCleanup' /\ OutputIsConserved'
  BY CountsUntouched, CleanupUntouched, OutputUntouched, Zenon DEF ReaderCalls
<1>4. UNCHANGED <<mShellPid, toTerminal, toTerminalOpen, readerLeft, inbox>>
  BY Zenon DEF ReaderCalls
<1>5. ReaderHoldsOneBatch'
  BY <1>1, <1>4, Zenon DEF ReaderHoldsOneBatch
<1>6. NoStrandedInput'
  BY <1>1, <1>4, Zenon DEF NoStrandedInput
<1> QED
  BY <1>2, <1>3, <1>5, <1>6, Zenon

\* What a read() on another's descriptor returns is none of the session's.
LEMMA ReaderReturnsForeignStep ==
  ASSUME InductiveInvariant, ReaderReturnsForeign
  PROVE  InductiveInvariant'
<1> USE DEF queues, threads, kernel, mainThread, InductiveInvariant, TypeOK
<1>1. reader = "foreign" /\ reader' \in {"done", "write"}
  BY DEF ReaderReturnsForeign
<1>2. ControlTypeOK'
  BY DEF ControlTypeOK, ReaderReturnsForeign, ReaderPlaces
<1>3. CountTypeOK' /\ QueuesCloseInCleanup' /\ OutputIsConserved'
  BY CountsUntouched, CleanupUntouched, OutputUntouched, Zenon DEF ReaderReturnsForeign
<1>4. UNCHANGED <<mShellPid, toTerminal, toTerminalOpen, readerLeft, inbox>>
  BY Zenon DEF ReaderReturnsForeign
<1>5. ReaderHoldsOneBatch'
  BY <1>1, <1>4, Zenon DEF ReaderHoldsOneBatch
<1>6. NoStrandedInput'
  BY <1>1, <1>4, Zenon DEF NoStrandedInput
<1> QED
  BY <1>2, <1>3, <1>5, <1>6, Zenon

\* What read() returns leaves the kernel and enters the reader's empty buffer.
LEMMA ReaderReadsStep ==
  ASSUME InductiveInvariant, ReaderReads
  PROVE  InductiveInvariant'
<1> USE DEF queues, threads, kernel, mainThread, InductiveInvariant, TypeOK
<1>1. PICK n \in Nat :
        \/ /\ n <= ptyOut /\ n <= ReaderBuf
           /\ readerLeft' = n /\ ptyOut' = ptyOut - n /\ reader' = "write"
        \/ /\ reader' = "done" /\ readerLeft' = readerLeft /\ ptyOut' = ptyOut
  <2>1. CASE ptyOut > 0
    BY <2>1, SizesAssumption DEF ReaderReads, CountTypeOK, Least
  <2>2. CASE ~(ptyOut > 0)
    <3>1. reader' = "done" /\ readerLeft' = readerLeft /\ ptyOut' = ptyOut
      BY <2>2, Zenon DEF ReaderReads
    <3> QED
      BY <3>1, Zenon
  <2> QED
    BY <2>1, <2>2, Zenon
<1>2. /\ reader = "read"
      /\ UNCHANGED <<mShellPid, toTerminal, toTerminalOpen, toProcess, inbox, mainLeft,
                     writerLeft, ptyIn, printed, printedByShell, appended, typed>>
  BY Zenon DEF ReaderReads
<1>3. ControlTypeOK'
  BY <1>1 DEF ControlTypeOK, ReaderReads, ReaderPlaces
<1>4. readerLeft' \in 0..ReaderBuf /\ ptyOut' \in 0..PtySize
  BY <1>1, SizesAssumption DEF CountTypeOK
<1>5. CountTypeOK'
  BY <1>2, <1>4, Zenon DEF CountTypeOK
<1>6. QueuesCloseInCleanup'
  BY CleanupUntouched, Zenon DEF ReaderReads
<1>7. ReaderHoldsOneBatch' /\ NoStrandedInput'
  BY <1>1, <1>2 DEF ReaderHoldsOneBatch, NoStrandedInput
<1>8. OutputIsConserved'
  <2>1. toTerminalOpen => readerLeft = 0
    BY <1>2 DEF ReaderHoldsOneBatch, CountTypeOK
  <2> QED
    BY <1>1, <1>2, <2>1 DEF CountTypeOK, OutputIsConserved
<1> QED
  BY <1>3, <1>5, <1>6, <1>7, <1>8, Zenon

\* A write() that fills the queue before it has written all found bytes in it,
\* and a message under way for them: its batch is no larger than the queue.
LEMMA ReaderWritesChunkStep ==
  ASSUME InductiveInvariant, ReaderWritesChunk
  PROVE  InductiveInvariant'
<1> USE DEF queues, threads, kernel, mainThread, InductiveInvariant, TypeOK
<1>1. /\ reader = "write"
      /\ UNCHANGED <<mShellPid, toTerminalOpen, toProcess, inbox, mainLeft, writerLeft,
                     ptyOut, ptyIn, printed, printedByShell, appended, typed>>
  BY Zenon DEF ReaderWritesChunk, ReaderWritesInto
<1>2. QueuesCloseInCleanup'
  BY CleanupUntouched, Zenon DEF ReaderWritesChunk, ReaderWritesInto
<1>3. ControlTypeOK'
  BY DEF ControlTypeOK, ReaderWritesChunk, ReaderWritesInto, ReaderPlaces
<1>4. CASE toTerminalOpen
  <2> DEFINE n == Fitting
  <2>1. /\ toTerminal < QueueSize
        /\ toTerminal' = toTerminal + n /\ readerLeft' = readerLeft - n
        /\ reader' = IF readerLeft - n = 0 THEN "send" ELSE "write"
    BY <1>4, Zenon DEF ReaderWritesChunk, ReaderWritesInto
  <2>2. /\ n \in Nat /\ n <= readerLeft /\ n <= QueueSize - toTerminal
        /\ n # readerLeft => toTerminal > 0
    BY <2>1, SizesAssumption, BuffersAssumption DEF CountTypeOK, Least, Fitting
  <2> HIDE DEF n
  <2>3. toTerminal' \in 0..QueueSize /\ readerLeft' \in 0..ReaderBuf
    BY <2>1, <2>2, SizesAssumption DEF CountTypeOK
  <2>4. CountTypeOK'
    BY <1>1, <2>3, Zenon DEF CountTypeOK
  <2>5. reader' = "send" \/ (reader' = "write" /\ n # readerLeft)
    BY <2>1, <2>2 DEF CountTypeOK
  <2>6. NoStrandedInput'
    BY <1>1, <2>2, <2>5, <1>4 DEF NoStrandedInput
  <2>7. reader' = "send" => readerLeft' = 0
    BY <2>1, <2>2 DEF CountTypeOK
  <2>8. ReaderHoldsOneBatch'
    BY <1>1, <2>5, <2>7 DEF ReaderHoldsOneBatch
  <2>9. OutputIsConserved'
    BY <1>1, <2>1, <2>2 DEF CountTypeOK, OutputIsConserved
  <2> QED
    BY <1>2, <1>3, <2>4, <2>6, <2>8, <2>9, Zenon
<1>5. CASE ~toTerminalOpen
  <2>1. reader' = "done" /\ UNCHANGED <<toTerminal, readerLeft>>
    BY <1>5, Zenon DEF ReaderWritesChunk, ReaderWritesInto
  <2>2. CountTypeOK' /\ OutputIsConserved'
    BY <1>1, <2>1, CountsUntouched, OutputUntouched, Zenon
  <2>3. ReaderHoldsOneBatch' /\ NoStrandedInput'
    BY <1>1, <1>5, <2>1, Zenon DEF ReaderHoldsOneBatch, NoStrandedInput
  <2> QED
    BY <1>2, <1>3, <2>2, <2>3, Zenon
<1> QED
  BY <1>4, <1>5, Zenon

\* The message announces what has been written.
LEMMA ReaderSendsStep ==
  ASSUME InductiveInvariant, ReaderSends
  PROVE  InductiveInvariant'
<1> USE DEF queues, threads, kernel, mainThread, InductiveInvariant, TypeOK
<1>1. /\ reader = "send" /\ reader' = "loop"
      /\ inbox' = Append(inbox, NewInput)
      /\ UNCHANGED <<mShellPid, toTerminal, toTerminalOpen, readerLeft>>
  BY Zenon DEF ReaderSends
<1>2. inbox' \in Seq({NewInput, ProcessExited}) /\ inbox' # <<>>
  BY <1>1, AppendProperties DEF ControlTypeOK
<1>3. ControlTypeOK'
  BY <1>2 DEF ControlTypeOK, ReaderSends, ReaderPlaces
<1>4. CountTypeOK' /\ QueuesCloseInCleanup' /\ OutputIsConserved'
  BY CountsUntouched, CleanupUntouched, OutputUntouched, Zenon DEF ReaderSends
<1>5. ReaderHoldsOneBatch'
  BY <1>1, Zenon DEF ReaderHoldsOneBatch
<1>6. NoStrandedInput'
  BY <1>2, Zenon DEF NoStrandedInput
<1> QED
  BY <1>3, <1>4, <1>5, <1>6, Zenon

-----------------------------------------------------------------------------
(* The steps of the writer, of the waiter and of the processes on the pty. *)

\* The writer takes from toProcess what it can hold.
LEMMA WriterTakesStep ==
  ASSUME InductiveInvariant, WriterTakes
  PROVE  InductiveInvariant'
<1> USE DEF queues, threads, kernel, mainThread, InductiveInvariant, TypeOK
<1>1. ControlTypeOK'
  BY DEF ControlTypeOK, WriterTakes, WriterPlaces
<1>2. /\ toProcess' \in 0..QueueSize /\ writerLeft' \in 0..WriterBuf
  BY SizesAssumption DEF WriterTakes, CountTypeOK, Least
<1>3. CountTypeOK'
  BY <1>2, Zenon DEF WriterTakes, CountTypeOK
<1>4. QueuesCloseInCleanup' /\ ReaderHoldsOneBatch' /\ NoStrandedInput'
      /\ OutputIsConserved'
  BY CleanupUntouched, BatchUntouched, AnnouncementUntouched, OutputUntouched, Zenon
     DEF WriterTakes
<1> QED
  BY <1>1, <1>3, <1>4, Zenon

LEMMA WriterCallsStep ==
  ASSUME InductiveInvariant, WriterCalls
  PROVE  InductiveInvariant'
<1> USE DEF queues, threads, kernel, mainThread, InductiveInvariant, TypeOK
<1>1. ControlTypeOK'
  BY DEF ControlTypeOK, WriterCalls, Record, WriterPlaces, Misuses
<1>2. CountTypeOK' /\ QueuesCloseInCleanup' /\ ReaderHoldsOneBatch'
      /\ NoStrandedInput' /\ OutputIsConserved'
  BY CountsUntouched, CleanupUntouched, BatchUntouched, AnnouncementUntouched,
     OutputUntouched, Zenon DEF WriterCalls
<1> QED
  BY <1>1, <1>2, Zenon

LEMMA WriterReturnsForeignStep ==
  ASSUME InductiveInvariant, WriterReturnsForeign
  PROVE  InductiveInvariant'
<1> USE DEF queues, threads, kernel, mainThread, InductiveInvariant, TypeOK
<1>1. ControlTypeOK'
  BY DEF ControlTypeOK, WriterReturnsForeign, WriterPlaces
<1>2. writerLeft' \in 0..WriterBuf
  BY SizesAssumption DEF WriterReturnsForeign, CountTypeOK
<1>3. CountTypeOK'
  BY <1>2, Zenon DEF WriterReturnsForeign, CountTypeOK
<1>4. QueuesCloseInCleanup' /\ ReaderHoldsOneBatch' /\ NoStrandedInput'
      /\ OutputIsConserved'
  BY CleanupUntouched, BatchUntouched, AnnouncementUntouched, OutputUntouched, Zenon
     DEF WriterReturnsForeign
<1> QED
  BY <1>1, <1>3, <1>4, Zenon

\* The kernel takes from the writer what it can hold.
LEMMA WriterWritesStep ==
  ASSUME InductiveInvariant, WriterWrites
  PROVE  InductiveInvariant'
<1> USE DEF queues, threads, kernel, mainThread, InductiveInvariant, TypeOK
<1>1. ControlTypeOK'
  BY DEF ControlTypeOK, WriterWrites, WriterPlaces
<1>2. ptyIn' \in 0..PtySize /\ writerLeft' \in 0..WriterBuf
  BY SizesAssumption DEF WriterWrites, CountTypeOK, Least
<1>3. CountTypeOK'
  BY <1>2, Zenon DEF WriterWrites, CountTypeOK
<1>4. QueuesCloseInCleanup' /\ ReaderHoldsOneBatch' /\ NoStrandedInput'
      /\ OutputIsConserved'
  BY CleanupUntouched, BatchUntouched, AnnouncementUntouched, OutputUntouched, Zenon
     DEF WriterWrites
<1> QED
  BY <1>1, <1>3, <1>4, Zenon

LEMMA WaiterReapsStep ==
  ASSUME InductiveInvariant, WaiterReaps
  PROVE  InductiveInvariant'
<1> USE DEF queues, threads, kernel, mainThread, InductiveInvariant, TypeOK
<1>1. ControlTypeOK'
  BY DEF ControlTypeOK, WaiterReaps, WaiterPlaces, ShellStates
<1>2. CountTypeOK' /\ QueuesCloseInCleanup' /\ ReaderHoldsOneBatch'
      /\ NoStrandedInput' /\ OutputIsConserved'
  BY CountsUntouched, CleanupUntouched, BatchUntouched, AnnouncementUntouched,
     OutputUntouched, Zenon DEF WaiterReaps
<1> QED
  BY <1>1, <1>2, Zenon

\* One more message can only announce more.
LEMMA WaiterSendsStep ==
  ASSUME InductiveInvariant, WaiterSends
  PROVE  InductiveInvariant'
<1> USE DEF queues, threads, kernel, mainThread, InductiveInvariant, TypeOK
<1>1. inbox' = Append(inbox, ProcessExited)
  BY Zenon DEF WaiterSends
<1>2. inbox' \in Seq({NewInput, ProcessExited}) /\ inbox' # <<>>
  BY <1>1, AppendProperties DEF ControlTypeOK
<1>3. ControlTypeOK'
  BY <1>2 DEF ControlTypeOK, WaiterSends, WaiterPlaces
<1>4. CountTypeOK' /\ QueuesCloseInCleanup' /\ ReaderHoldsOneBatch'
      /\ OutputIsConserved'
  BY CountsUntouched, CleanupUntouched, BatchUntouched, OutputUntouched, Zenon
     DEF WaiterSends
<1>5. NoStrandedInput'
  BY <1>2, Zenon DEF NoStrandedInput
<1> QED
  BY <1>3, <1>4, <1>5, Zenon

\* What is printed enters the kernel.
LEMMA ProcessPrintsStep ==
  ASSUME InductiveInvariant, ProcessPrints
  PROVE  InductiveInvariant'
<1> USE DEF queues, threads, kernel, mainThread, InductiveInvariant, TypeOK
<1>1. ControlTypeOK'
  BY DEF ControlTypeOK, ProcessPrints
<1>2. /\ ptyOut < PtySize
      /\ ptyOut' = ptyOut + 1 /\ printed' = printed + 1
      /\ UNCHANGED <<toTerminal, toTerminalOpen, toProcess, mainLeft, readerLeft,
                     writerLeft, ptyIn, printedByShell, appended, typed>>
  BY Zenon DEF ProcessPrints
<1>3. ptyOut' \in 0..PtySize /\ printed' \in Nat
  BY <1>2, SizesAssumption DEF CountTypeOK
<1>4. CountTypeOK'
  BY <1>2, <1>3, Zenon DEF CountTypeOK
<1>5. QueuesCloseInCleanup' /\ ReaderHoldsOneBatch' /\ NoStrandedInput'
  BY CleanupUntouched, BatchUntouched, AnnouncementUntouched, Zenon DEF ProcessPrints
<1>6. OutputIsConserved'
  BY <1>2 DEF CountTypeOK, OutputIsConserved
<1> QED
  BY <1>1, <1>4, <1>5, <1>6, Zenon

LEMMA ProcessReadsStep ==
  ASSUME InductiveInvariant, ProcessReads
  PROVE  InductiveInvariant'
<1> USE DEF queues, threads, kernel, mainThread, InductiveInvariant, TypeOK
<1>1. ControlTypeOK'
  BY DEF ControlTypeOK, ProcessReads
<1>2. ptyIn > 0 /\ ptyIn' = ptyIn - 1
  BY Zenon DEF ProcessReads
<1>3. ptyIn' \in 0..PtySize
  BY <1>2, SizesAssumption DEF CountTypeOK
<1>4. CountTypeOK'
  BY <1>3, Zenon DEF ProcessReads, CountTypeOK
<1>5. QueuesCloseInCleanup' /\ ReaderHoldsOneBatch' /\ NoStrandedInput'
      /\ OutputIsConserved'
  BY CleanupUntouched, BatchUntouched, AnnouncementUntouched, OutputUntouched, Zenon
     DEF ProcessReads
<1> QED
  BY <1>1, <1>4, <1>5, Zenon

LEMMA ShellExitsStep ==
  ASSUME InductiveInvariant, ShellExits
  PROVE  InductiveInvariant'
<1> USE DEF queues, threads, kernel, mainThread, InductiveInvariant, TypeOK, ShellDies
<1>1. ControlTypeOK'
  BY DEF ControlTypeOK, ShellExits, ShellStates
<1>2. CountTypeOK'
  BY Zenon DEF ShellExits, CountTypeOK
<1>3. QueuesCloseInCleanup' /\ ReaderHoldsOneBatch' /\ NoStrandedInput'
      /\ OutputIsConserved'
  BY CleanupUntouched, BatchUntouched, AnnouncementUntouched, OutputUntouched, Zenon
     DEF ShellExits
<1> QED
  BY <1>1, <1>2, <1>3, Zenon

LEMMA BackgroundClosesStep ==
  ASSUME InductiveInvariant, BackgroundCloses
  PROVE  InductiveInvariant'
<1> USE DEF queues, threads, kernel, mainThread, InductiveInvariant, TypeOK
<1>1. ControlTypeOK'
  BY DEF ControlTypeOK, BackgroundCloses
<1>2. CountTypeOK' /\ QueuesCloseInCleanup' /\ ReaderHoldsOneBatch'
      /\ NoStrandedInput' /\ OutputIsConserved'
  BY CountsUntouched, CleanupUntouched, BatchUntouched, AnnouncementUntouched,
     OutputUntouched, Zenon DEF BackgroundCloses
<1> QED
  BY <1>1, <1>2, Zenon

\* A step that changes no variable preserves the invariant.
LEMMA StutterStep ==
  ASSUME InductiveInvariant, UNCHANGED vars
  PROVE  InductiveInvariant'
<1> USE DEF vars, queues, threads, kernel, mainThread, InductiveInvariant, TypeOK
<1>1. ControlTypeOK'
  BY Zenon DEF ControlTypeOK
<1>2. CountTypeOK' /\ QueuesCloseInCleanup' /\ ReaderHoldsOneBatch'
      /\ NoStrandedInput' /\ OutputIsConserved'
  BY CountsUntouched, CleanupUntouched, BatchUntouched, AnnouncementUntouched,
     OutputUntouched, Zenon
<1> QED
  BY <1>1, <1>2, Zenon

-----------------------------------------------------------------------------
\* Every step preserves the inductive invariant.
LEMMA NextStep ==
  ASSUME InductiveInvariant, [Next]_vars
  PROVE  InductiveInvariant'
<1>1. CASE MainStep
  BY <1>1, HandleMessageStep, MainWritesChunkStep, MainReturnsStep, CleanupPidStep,
     CleanupToProcessStep, CleanupToTerminalStep, CleanupDescriptorStep,
     InitializeEmulatorStep, UserWritesStep, FinishIfRunningStep, UpdateSizeStep, Zenon
     DEF MainStep, MainHandles, Cleanup
<1>2. CASE ReaderStep
  BY <1>2, ReaderCallsStep, ReaderReadsStep, ReaderWritesChunkStep, ReaderSendsStep,
     Zenon DEF ReaderStep
<1>3. CASE WriterStep
  BY <1>3, WriterTakesStep, WriterCallsStep, WriterWritesStep, Zenon DEF WriterStep
<1>4. CASE WaiterStep
  BY <1>4, WaiterReapsStep, WaiterSendsStep, Zenon DEF WaiterStep
<1>5. CASE ProcessStep
  BY <1>5, ProcessPrintsStep, ProcessReadsStep, ShellExitsStep, BackgroundClosesStep,
     Zenon DEF ProcessStep
<1>6. CASE ForeignStep
  BY <1>6, ReaderReturnsForeignStep, WriterReturnsForeignStep, Zenon DEF ForeignStep
<1>7. CASE UNCHANGED vars
  BY <1>7, StutterStep
<1> QED
  BY <1>1, <1>2, <1>3, <1>4, <1>5, <1>6, <1>7, Zenon DEF Next

\* The inductive invariant of the session holds whatever the sizes of its
\* buffers and of its queues, as long as no batch of the reader is larger than
\* the queue and the queue no larger than the main thread's receive buffer.
THEOREM InvariantHolds == Spec => []InductiveInvariant
<1> QED
  BY InitInvariant, NextStep, PTL DEF Spec

\* Every thread is at a place it can be at, and no queue, buffer or direction of
\* the pty ever holds more than it can.
THEOREM TypeCorrect == Spec => []TypeOK
<1>1. InductiveInvariant => TypeOK
  BY DEF InductiveInvariant
<1> QED
  BY <1>1, InvariantHolds, PTL

\* Output never lies in the queue to the terminal without a message that will
\* make the main thread fetch it.
THEOREM InputIsAnnounced == Spec => []NoStrandedInput
<1>1. InductiveInvariant => NoStrandedInput
  BY DEF InductiveInvariant
<1> QED
  BY <1>1, InvariantHolds, PTL

\* From the kernel to the screen no byte is repeated or made up, and none is lost
\* before the cleanup closes the queue.
THEOREM OutputBalances == Spec => []OutputIsConserved
<1>1. InductiveInvariant => OutputIsConserved
  BY DEF InductiveInvariant
<1> QED
  BY <1>1, InvariantHolds, PTL

\* The check of the pid that write() makes once, before its first chunk, is good
\* for all of them: the queue is open as long as there is input to write.
THEOREM InputIsNeverDropped == Spec => []WritesMeetAnOpenQueue
<1>1. InductiveInvariant => WritesMeetAnOpenQueue
  BY DEF InductiveInvariant, QueuesCloseInCleanup, WritesMeetAnOpenQueue
<1> QED
  BY <1>1, InvariantHolds, PTL

\* Once the session is finished the main thread shows no more output, however
\* many messages are still in its inbox.
THEOREM NothingAfterExit == Spec => NothingShownAfterExit
<1>1. InductiveInvariant /\ [Next]_vars => [mShellPid = -1 => appended' = appended]_vars
  <2> SUFFICES ASSUME InductiveInvariant, Next, mShellPid = -1
               PROVE  appended' = appended
    BY DEF vars, mainThread
  <2>1. CASE HandleMessage
    <3>1. main = "looper" /\ (~toTerminalOpen => appended' = appended + 0)
      BY <2>1, Zenon DEF HandleMessage, HandleMessageTaking
    <3>2. ~toTerminalOpen
      BY <3>1 DEF InductiveInvariant, QueuesCloseInCleanup
    <3> QED
      BY <3>1, <3>2 DEF InductiveInvariant, TypeOK, CountTypeOK
  <2>2. CASE ~HandleMessage
    BY <2>2, Zenon
       DEF Next, MainStep, MainHandles, Cleanup, ReaderStep, WriterStep, WaiterStep,
           ProcessStep, mainThread, InitializeEmulator, UserWrites, UserWritesIf,
           MainWritesChunk, MainReturns, CleanupPid, CleanupToProcess,
           CleanupToProcessLeaves, CleanupToTerminal, CleanupToTerminalLeaves,
           CleanupDescriptor, FinishIfRunning, UpdateSize, ReaderCalls, ReaderReads,
           ReaderWritesChunk, ReaderWritesInto, ReaderSends, WriterTakes,
           WriterCalls, WriterWrites, WaiterReaps, WaiterSends, ProcessPrints,
           ProcessReads, ShellExits, BackgroundCloses, ForeignStep,
           ReaderReturnsForeign, WriterReturnsForeign
  <2> QED
    BY <2>1, <2>2
<1> QED
  BY <1>1, InvariantHolds, PTL DEF Spec, NothingShownAfterExit

=============================================================================
