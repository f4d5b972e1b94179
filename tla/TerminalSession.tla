-------------------------- MODULE TerminalSession --------------------------
(***************************************************************************)
(* com.pangbai.terminal.TerminalSession: one shell process on a pseudo     *)
(* terminal, the three threads that serve it, and the main thread, whose   *)
(* looper handles the threads' messages, the user's input and kill().      *)
(*                                                                         *)
(*   shell --ptyOut--> reader --toTerminal--> main --> emulator            *)
(*   shell <--ptyIn--- writer <--toProcess--- main <-- keys, replies       *)
(*                     waiter ---inbox------> main                         *)
(*                                                                         *)
(* Both queues are ByteQueues: their calls are atomic here, chunk by chunk *)
(* (ByteQueue shows that the monitor makes them so and that their bytes    *)
(* keep their order), so that counting bytes is enough.                    *)
(***************************************************************************)
EXTENDS Integers, Sequences

CONSTANTS
  QueueSize,   \* capacity of both ByteQueues (4096)
  ReaderBuf,   \* buffer of the reader thread (4096)
  WriterBuf,   \* buffer of the writer thread (4096)
  HandlerBuf,  \* mReceiveBuffer, the main thread's buffer (4096)
  PtySize,     \* bytes the kernel holds for each direction of the pty
  MaxReply,    \* most bytes the emulator answers to one batch of output
  MaxOutput,   \* bound: bytes the processes on the pty print
  MaxInput     \* bound: bytes the main thread writes

ASSUME SizesAssumption ==
  /\ QueueSize \in Nat \ {0} /\ ReaderBuf \in Nat \ {0}
  /\ WriterBuf \in Nat \ {0} /\ HandlerBuf \in Nat \ {0}
  /\ PtySize \in Nat \ {0}
  /\ MaxReply \in Nat /\ MaxOutput \in Nat /\ MaxInput \in Nat

\* The three buffer sizes the code pairs up, all 4096 in the source.
ASSUME BuffersAssumption == ReaderBuf <= QueueSize /\ QueueSize <= HandlerBuf

VARIABLES
  mShellPid,                 \* 0 not started, Pid, -1 finished
  fdOpen,                    \* mTerminalFileDescriptor is open
  toTerminal, toTerminalOpen,\* mProcessToTerminalIOQueue: bytes stored, mOpen
  toProcess, toProcessOpen,  \* mTerminalToProcessIOQueue
  inbox,                     \* the main looper's messages for this session
  main, mainLeft,            \* where the main thread is; bytes it has to write
  reader, readerLeft,        \* TermSessionInputReader; bytes in its buffer
  writer, writerLeft,        \* TermSessionOutputWriter; bytes in its buffer
  waiter,                    \* TermSessionWaiter
  shell,                     \* the child process
  slaveOpen,                 \* some process has the pty's slave side open
  ptyOut, ptyIn,             \* bytes in the kernel, from and to the processes
  printed, appended, typed,  \* history: bytes printed, shown, handed to write()
  printedByShell,            \* history: bytes printed when the shell exited
  misuse                     \* history: the first use of a pid or descriptor that
                             \* does not name this session's shell or pty

queues == <<toTerminal, toTerminalOpen, toProcess, toProcessOpen>>
threads == <<reader, readerLeft, writer, writerLeft, waiter>>
kernel == <<shell, slaveOpen, ptyOut, ptyIn, printed, printedByShell>>
mainThread == <<main, mainLeft, appended, typed>>
vars == <<mShellPid, fdOpen, queues, inbox, mainThread, threads, kernel, misuse>>

Pid == 1
NewInput == "MSG_NEW_INPUT"
ProcessExited == "MSG_PROCESS_EXITED"

\* Records a use of something that is no longer, or not yet, the session's.
Record(what, wrong) == misuse' = IF wrong /\ misuse = "none" THEN what ELSE misuse

Least(a, b) == IF a <= b THEN a ELSE b

-----------------------------------------------------------------------------
(* The main thread.  Where an operation has a parameter, the parameter is  *)
(* what a plausible mistake would change, and a variant that makes it is   *)
(* named for it.                                                           *)

\* initializeEmulator(), reached through updateSize() once the view has a
\* size: forks the shell on a new pty and starts the three threads.
InitializeEmulator ==
  /\ main = "looper" /\ mShellPid = 0
  /\ mShellPid' = Pid /\ fdOpen' = TRUE
  /\ shell' = "running" /\ slaveOpen' = TRUE
  /\ reader' = "loop" /\ writer' = "loop" /\ waiter' = "waitpid"
  /\ UNCHANGED <<queues, inbox, mainThread, readerLeft, writerLeft,
                 ptyOut, ptyIn, printed, printedByShell, misuse>>

\* handleMessage() up to append(): one non-blocking read of toTerminal, whose
\* bytes go to the emulator, which may answer some with write().
HandleMessageTaking(most, rest) ==
  /\ main = "looper" /\ inbox # <<>>
  /\ inbox' = rest
  /\ LET n == IF toTerminalOpen THEN Least(toTerminal, most) ELSE 0
     IN /\ toTerminal' = toTerminal - n
        /\ appended' = appended + n
        /\ \E r \in 0..(IF n > 0 /\ mShellPid > 0 THEN MaxReply ELSE 0) :
             /\ typed + r <= MaxInput
             /\ typed' = typed + r
             /\ mainLeft' = r
  /\ main' = IF Head(inbox) = ProcessExited THEN "append, exit" ELSE "append"
  /\ UNCHANGED <<mShellPid, fdOpen, toTerminalOpen, toProcess, toProcessOpen,
                 threads, kernel, misuse>>
\* A receive buffer one byte short; all messages answered at once.
HandleMessageShort == HandleMessageTaking(HandlerBuf - 1, Tail(inbox))
HandleMessageCoalesces == HandleMessageTaking(HandlerBuf, <<>>)
HandleMessage == HandleMessageTaking(HandlerBuf, Tail(inbox))

\* write() from a key press or a paste: only to a session with a shell.
UserWritesIf(running) ==
  /\ main = "looper" /\ running
  /\ \E n \in 1..(MaxInput - typed) : mainLeft' = n /\ typed' = typed + n
  /\ main' = "append"
  /\ UNCHANGED <<mShellPid, fdOpen, queues, inbox, appended, threads,
                 kernel, misuse>>
\* It is asked whether the session was started, not whether it still runs.
UserWritesUnchecked == UserWritesIf(mShellPid # 0)
UserWrites == UserWritesIf(mShellPid > 0)

\* One chunk of ByteQueue.write() on toProcess; with the queue full and open
\* the main thread waits, with the queue closed the rest is dropped.
MainWritesChunk ==
  /\ main \in {"append", "append, exit"} /\ mainLeft > 0
  /\ toProcessOpen => toProcess < QueueSize
  /\ LET n == IF toProcessOpen THEN Least(mainLeft, QueueSize - toProcess) ELSE 0
     IN /\ toProcess' = toProcess + n
        /\ mainLeft' = IF toProcessOpen THEN mainLeft - n ELSE 0
  /\ UNCHANGED <<mShellPid, fdOpen, toTerminal, toTerminalOpen, toProcessOpen, inbox,
                 main, appended, typed, threads, kernel, misuse>>

MainReturns ==
  /\ main = "append" /\ mainLeft = 0
  /\ main' = "looper"
  /\ UNCHANGED <<mShellPid, fdOpen, queues, inbox, mainLeft, appended, typed,
                 threads, kernel, misuse>>

\* cleanupResources(), statement by statement, and the rest of the handler.
CleanupPid ==
  /\ main = "append, exit" /\ mainLeft = 0
  /\ mShellPid' = -1
  /\ main' = "close toProcess"
  /\ UNCHANGED <<fdOpen, queues, inbox, mainLeft, appended, typed, threads,
                 kernel, misuse>>

CleanupToProcessLeaves(open) ==
  /\ main = "close toProcess"
  /\ toProcessOpen' = open
  /\ main' = "close toTerminal"
  /\ UNCHANGED <<mShellPid, fdOpen, toTerminal, toTerminalOpen, toProcess, inbox,
                 mainLeft, appended, typed, threads, kernel, misuse>>
CleanupForgetsToProcess == CleanupToProcessLeaves(toProcessOpen)
CleanupToProcess == CleanupToProcessLeaves(FALSE)

CleanupToTerminalLeaves(open) ==
  /\ main = "close toTerminal"
  /\ toTerminalOpen' = open
  /\ main' = "close fd"
  /\ UNCHANGED <<mShellPid, fdOpen, toTerminal, toProcess, toProcessOpen, inbox,
                 mainLeft, appended, typed, threads, kernel, misuse>>
CleanupForgetsToTerminal == CleanupToTerminalLeaves(toTerminalOpen)
CleanupToTerminal == CleanupToTerminalLeaves(FALSE)

CleanupDescriptor ==
  /\ main = "close fd"
  /\ fdOpen' = FALSE
  /\ main' = "looper"
  /\ UNCHANGED <<mShellPid, queues, inbox, mainLeft, appended, typed, threads, kernel, misuse>>

\* The shell becomes a zombie; the slave stays open if others hold it.
ShellDies ==
  /\ shell' = "zombie" /\ slaveOpen' \in BOOLEAN
  /\ printedByShell' = printed

\* finishIfRunning(): kill(mShellPid, SIGKILL) unless mShellPid is -1.  Pid 0 is the
\* caller's own process group, and ends the app; a reaped pid may be anybody's.
FinishIfRunning ==
  /\ main = "looper" /\ mShellPid # -1
  /\ Record(IF mShellPid = 0 THEN "kill own group" ELSE "kill reaped pid",
            mShellPid = 0 \/ shell = "reaped")
  /\ IF shell = "running"
     THEN ShellDies
     ELSE UNCHANGED <<shell, slaveOpen, printedByShell>>
  /\ main' = IF mShellPid = 0 THEN "killed" ELSE main
  /\ UNCHANGED <<mShellPid, fdOpen, queues, inbox, mainLeft, appended, typed,
                 threads, ptyOut, ptyIn, printed>>

\* updateSize() of a session whose emulator exists: an ioctl() on the
\* descriptor, whatever has become of the session.
UpdateSize ==
  /\ main = "looper" /\ mShellPid # 0
  /\ Record("resize", ~fdOpen)
  /\ UNCHANGED <<mShellPid, fdOpen, queues, inbox, mainThread, threads, kernel>>

-----------------------------------------------------------------------------
(* TermSessionInputReader. *)

\* termIn.read() is called; on the closed descriptor it fails, or reads from
\* whatever has been opened under that number since.
ReaderCalls ==
  /\ reader = "loop"
  /\ reader' \in IF fdOpen THEN {"read"} ELSE {"done", "foreign"}
  /\ Record("reader", ~fdOpen)
  /\ UNCHANGED <<mShellPid, fdOpen, queues, inbox, mainThread, readerLeft, writer,
                 writerLeft, waiter, kernel>>

\* The read() of what is not the session's returns, if it ever does: with nothing, which
\* ends the thread, or with bytes of others (not counted), which meet a closed queue.
ReaderReturnsForeign ==
  /\ reader = "foreign"
  /\ reader' \in {"done", "write"}
  /\ UNCHANGED <<mShellPid, fdOpen, queues, inbox, mainThread, readerLeft, writer,
                 writerLeft, waiter, kernel, misuse>>

\* termIn.read() returns bytes; or it fails, when no process holds the slave.
ReaderReads ==
  /\ reader = "read"
  /\ \/ /\ ptyOut > 0
        /\ \E n \in 1..Least(ptyOut, ReaderBuf) :
             readerLeft' = n /\ ptyOut' = ptyOut - n
        /\ reader' = "write"
     \/ /\ ptyOut = 0 /\ ~slaveOpen
        /\ reader' = "done"
        /\ UNCHANGED <<readerLeft, ptyOut>>
  /\ UNCHANGED <<mShellPid, fdOpen, queues, inbox, mainThread, writer, writerLeft,
                 waiter, shell, slaveOpen, ptyIn, printed, printedByShell, misuse>>

\* One chunk of ByteQueue.write() on toTerminal: n bytes go, left are still to
\* be written.  With the queue closed write() returns false: the thread ends.
Fitting == Least(readerLeft, QueueSize - toTerminal)
ReaderWritesInto(n, left) ==
  /\ reader = "write"
  /\ \/ /\ toTerminalOpen /\ toTerminal < QueueSize
        /\ toTerminal' = toTerminal + n
        /\ readerLeft' = left
        /\ reader' = IF left = 0 THEN "send" ELSE "write"
     \/ /\ ~toTerminalOpen
        /\ reader' = "done"
        /\ UNCHANGED <<toTerminal, readerLeft>>
  /\ UNCHANGED <<mShellPid, fdOpen, toTerminalOpen, toProcess, toProcessOpen, inbox,
                 mainThread, writer, writerLeft, waiter, kernel, misuse>>
\* What has been written is written again.
ReaderWritesAgain == ReaderWritesInto(Fitting, readerLeft)
ReaderWritesChunk == ReaderWritesInto(Fitting, readerLeft - Fitting)

ReaderSends ==
  /\ reader = "send"
  /\ inbox' = Append(inbox, NewInput)
  /\ reader' = "loop"
  /\ UNCHANGED <<mShellPid, fdOpen, queues, mainThread, readerLeft, writer, writerLeft,
                 waiter, kernel, misuse>>

-----------------------------------------------------------------------------
(* TermSessionOutputWriter. *)

\* The blocking read of toProcess; -1 ends the thread.
WriterTakes ==
  /\ writer = "loop"
  /\ \/ /\ toProcessOpen /\ toProcess > 0
        /\ LET n == Least(toProcess, WriterBuf)
           IN toProcess' = toProcess - n /\ writerLeft' = n
        /\ writer' = "call"
     \/ /\ ~toProcessOpen
        /\ writer' = "done"
        /\ UNCHANGED <<toProcess, writerLeft>>
  /\ UNCHANGED <<mShellPid, fdOpen, toTerminal, toTerminalOpen, toProcessOpen, inbox,
                 mainThread, reader, readerLeft, waiter, kernel, misuse>>

\* termOut.write() is called, on the closed descriptor as above.
WriterCalls ==
  /\ writer = "call"
  /\ writer' \in IF fdOpen THEN {"write"} ELSE {"done", "foreign"}
  /\ Record("writer", ~fdOpen)
  /\ UNCHANGED <<mShellPid, fdOpen, queues, inbox, mainThread, reader, readerLeft,
                 writerLeft, waiter, kernel>>

\* The write() to what is not the session's returns, if it ever does: it fails, or the
\* input has gone there and the thread goes on to a closed queue.
WriterReturnsForeign ==
  /\ writer = "foreign"
  /\ writer' \in {"done", "loop"}
  /\ writerLeft' = IF writer' = "loop" THEN 0 ELSE writerLeft
  /\ UNCHANGED <<mShellPid, fdOpen, queues, inbox, mainThread, reader, readerLeft,
                 waiter, kernel, misuse>>

\* The kernel takes what fits; without a slave the write fails.
WriterWrites ==
  /\ writer = "write"
  /\ \/ /\ slaveOpen /\ ptyIn < PtySize
        /\ LET n == Least(writerLeft, PtySize - ptyIn)
           IN /\ ptyIn' = ptyIn + n
              /\ writerLeft' = writerLeft - n
              /\ writer' = IF writerLeft = n THEN "loop" ELSE "write"
     \/ /\ ~slaveOpen
        /\ writer' = "done"
        /\ UNCHANGED <<ptyIn, writerLeft>>
  /\ UNCHANGED <<mShellPid, fdOpen, queues, inbox, mainThread, reader, readerLeft,
                 waiter, shell, slaveOpen, ptyOut, printed, printedByShell, misuse>>

-----------------------------------------------------------------------------
(* TermSessionWaiter. *)
WaiterReaps ==
  /\ waiter = "waitpid" /\ shell = "zombie"
  /\ shell' = "reaped"
  /\ waiter' = "send"
  /\ UNCHANGED <<mShellPid, fdOpen, queues, inbox, mainThread, reader, readerLeft,
                 writer, writerLeft, slaveOpen, ptyOut, ptyIn, printed,
                 printedByShell, misuse>>

WaiterSends ==
  /\ waiter = "send"
  /\ inbox' = Append(inbox, ProcessExited)
  /\ waiter' = "done"
  /\ UNCHANGED <<mShellPid, fdOpen, queues, mainThread, reader, readerLeft, writer,
                 writerLeft, kernel, misuse>>

-----------------------------------------------------------------------------
(* The processes on the slave side: the shell, and background processes    *)
(* that may keep the slave open when it has gone.                          *)
ProcessPrints ==
  /\ slaveOpen /\ ptyOut < PtySize /\ printed < MaxOutput
  /\ ptyOut' = ptyOut + 1 /\ printed' = printed + 1
  /\ UNCHANGED <<mShellPid, fdOpen, queues, inbox, mainThread, threads, shell,
                 slaveOpen, ptyIn, printedByShell, misuse>>

ProcessReads ==
  /\ slaveOpen /\ ptyIn > 0
  /\ ptyIn' = ptyIn - 1
  /\ UNCHANGED <<mShellPid, fdOpen, queues, inbox, mainThread, threads, shell,
                 slaveOpen, ptyOut, printed, printedByShell, misuse>>

ShellExits ==
  /\ shell = "running"
  /\ ShellDies
  /\ UNCHANGED <<mShellPid, fdOpen, queues, inbox, mainThread, threads, ptyOut, ptyIn,
                 printed, misuse>>

BackgroundCloses ==
  /\ slaveOpen /\ shell \in {"zombie", "reaped"}
  /\ slaveOpen' = FALSE
  /\ UNCHANGED <<mShellPid, fdOpen, queues, inbox, mainThread, threads, shell, ptyOut,
                 ptyIn, printed, printedByShell, misuse>>

-----------------------------------------------------------------------------
Init ==
  /\ mShellPid = 0 /\ fdOpen = FALSE
  /\ toTerminal = 0 /\ toTerminalOpen = TRUE
  /\ toProcess = 0 /\ toProcessOpen = TRUE
  /\ inbox = <<>>
  /\ main = "looper" /\ mainLeft = 0
  /\ reader = "new" /\ readerLeft = 0
  /\ writer = "new" /\ writerLeft = 0
  /\ waiter = "new"
  /\ shell = "none" /\ slaveOpen = FALSE
  /\ ptyOut = 0 /\ ptyIn = 0
  /\ printed = 0 /\ printedByShell = 0 /\ appended = 0 /\ typed = 0
  /\ misuse = "none"

Cleanup == CleanupPid \/ CleanupToProcess \/ CleanupToTerminal \/ CleanupDescriptor
MainHandles == HandleMessage \/ MainWritesChunk \/ MainReturns \/ Cleanup
MainStep == MainHandles \/ InitializeEmulator \/ UserWrites \/ FinishIfRunning
            \/ UpdateSize
ReaderStep == ReaderCalls \/ ReaderReads \/ ReaderWritesChunk \/ ReaderSends
WriterStep == WriterTakes \/ WriterCalls \/ WriterWrites
WaiterStep == WaiterReaps \/ WaiterSends
ProcessStep == ProcessPrints \/ ProcessReads \/ ShellExits \/ BackgroundCloses

ForeignStep == ReaderReturnsForeign \/ WriterReturnsForeign

Next == MainStep \/ ReaderStep \/ WriterStep \/ WaiterStep \/ ProcessStep \/ ForeignStep

Spec == Init /\ [][Next]_vars

(***************************************************************************)
(* Fairness: threads that can run do run, and the looper goes on with what *)
(* it is handling and with its messages.  The user and the processes owe   *)
(* nothing: they need not type, read, print or exit; nor does whatever has *)
(* got the descriptor's number after it was closed.                        *)
(***************************************************************************)
Fairness == /\ WF_vars(MainHandles) /\ WF_vars(ReaderStep)
            /\ WF_vars(WriterStep) /\ WF_vars(WaiterStep)

FairSpec == Spec /\ Fairness

-----------------------------------------------------------------------------
\* The types of the variables: where everybody is, and how many bytes are
\* where; the queues, the buffers and the kernel hold what fits.
MainPlaces == {"looper", "append", "append, exit", "close toProcess",
               "close toTerminal", "close fd", "killed"}
ReaderPlaces == {"new", "loop", "read", "foreign", "write", "send", "done"}
WriterPlaces == {"new", "loop", "call", "foreign", "write", "done"}
WaiterPlaces == {"new", "waitpid", "send", "done"}
ShellStates == {"none", "running", "zombie", "reaped"}
Misuses == {"none", "kill own group", "kill reaped pid", "reader", "writer", "resize"}

ControlTypeOK ==
  /\ mShellPid \in {-1, 0, Pid} /\ fdOpen \in BOOLEAN
  /\ toTerminalOpen \in BOOLEAN /\ toProcessOpen \in BOOLEAN
  /\ inbox \in Seq({NewInput, ProcessExited})
  /\ main \in MainPlaces /\ reader \in ReaderPlaces /\ writer \in WriterPlaces
  /\ waiter \in WaiterPlaces
  /\ shell \in ShellStates /\ slaveOpen \in BOOLEAN /\ misuse \in Misuses

CountTypeOK ==
  /\ toTerminal \in 0..QueueSize /\ toProcess \in 0..QueueSize
  /\ mainLeft \in Nat /\ readerLeft \in 0..ReaderBuf /\ writerLeft \in 0..WriterBuf
  /\ ptyOut \in 0..PtySize /\ ptyIn \in 0..PtySize
  /\ printed \in Nat /\ printedByShell \in Nat /\ appended \in Nat /\ typed \in Nat

TypeOK == ControlTypeOK /\ CountTypeOK

\* Bytes in an open toTerminal never lie there unannounced: a message is
\* under way.  The reader sends its message only after the whole write(), so
\* a write() that has to wait for room relies on the message of the bytes
\* that fill the queue.
NoStrandedInput ==
  toTerminalOpen /\ toTerminal > 0 => inbox # <<>> \/ reader = "send"

\* The main thread's write() never meets a closed queue, so that ignoring its
\* result loses no input: the check of mShellPid cannot be overtaken.
WritesMeetAnOpenQueue ==
  main \in {"append", "append, exit"} /\ mainLeft > 0 => toProcessOpen

\* When the exit has been handled, messages still in the inbox show nothing:
\* no output appears after the exit notice.
NothingShownAfterExit == [][mShellPid = -1 => appended' = appended]_vars

\* No byte is shown twice or made up, and while the queue is open none is lost
\* between the kernel and the screen.
OutputIsConserved ==
  /\ appended + toTerminal + readerLeft + ptyOut <= printed
  /\ toTerminalOpen => appended + toTerminal + readerLeft + ptyOut = printed

\* While the shell runs, what it prints is shown, however bursts, full queues
\* and the emulator's own replies interleave; provided that the processes read
\* what they are sent, without which the main thread may wait for ever.
OutputIsShown ==
  WF_vars(ProcessReads) =>
    \A k \in 1..MaxOutput : printed >= k ~> appended >= k \/ shell # "running"

\* The main thread learns of the shell's exit and marks the session finished,
\* unless it waits for ever for room in the queue to the process.
InputIsStuck == mainLeft > 0 /\ toProcess = QueueSize
ExitIsNoticedUnlessStuck ==
  shell = "zombie" ~> (mShellPid = -1 \/ []InputIsStuck)

\* A finished session leaves no thread behind once nobody holds its slave, unless the
\* reader or the writer has called on the number of the closed descriptor, has found
\* there what others have opened since, and that call never returns.
AllThreadsEnded == reader = "done" /\ writer = "done" /\ waiter = "done"
ThreadsEndUnlessMisled ==
  mShellPid = -1 /\ ~slaveOpen
    ~> (AllThreadsEnded \/ []("foreign" \in {reader, writer}))

-----------------------------------------------------------------------------
(* The inductive invariant behind the safety properties.                   *)

\* The queues close with the session, in the course of its cleanup, and input
\* is only ever written for a session that has a shell.
QueuesCloseInCleanup ==
  /\ mShellPid # -1 => toProcessOpen /\ toTerminalOpen
  /\ main \in {"append", "append, exit"} /\ mainLeft > 0 => mShellPid # -1
  /\ main \in {"close toProcess", "close toTerminal", "close fd"} => mShellPid = -1
  /\ mShellPid = -1 /\ main \notin {"close toProcess", "close toTerminal"}
       => ~toTerminalOpen

\* The reader starts with the shell and reads nothing new before it has written
\* what it read.
ReaderHoldsOneBatch ==
  /\ mShellPid = 0 => reader = "new"
  /\ toTerminalOpen /\ readerLeft > 0 => reader = "write"

InductiveInvariant ==
  /\ TypeOK
  /\ QueuesCloseInCleanup
  /\ ReaderHoldsOneBatch
  /\ NoStrandedInput
  /\ OutputIsConserved

-----------------------------------------------------------------------------
(* What comments of the class say and the code does not do. *)

\* "Finish this terminal session by sending SIGKILL to the shell": a session
\* that has not been started has no shell, and nobody is to be signalled.
OwnGroupIsSpared == misuse # "kill own group"

\* "The pid of the shell process. 0 if not started and -1 if finished
\* running": a pid that has been reaped is never signalled.
ReapedPidIsSpared == misuse # "kill reaped pid"

\* "Stop the reader and writer threads, and close the I/O streams": the
\* threads have stopped using the descriptor when it is closed.
ThreadsStopBeforeClose == misuse \notin {"reader", "writer"}

\* The same comment: the threads stop, at the latest when nobody holds the slave.
ThreadsEnd == mShellPid = -1 /\ ~slaveOpen ~> AllThreadsEnded

\* "A queue written to from a separate thread when the process outputs, and
\* read by main thread to process by terminal emulator": what the shell has
\* printed before it exits is shown when the session is finished.
LastOutputIsShown == mShellPid = -1 => appended >= printedByShell

\* "-1 if finished running": the main thread learns of the shell's exit.
ExitIsNoticed == shell = "zombie" ~> mShellPid = -1
=============================================================================
