# Verification of Dowork

Dowork is an Android app that runs Linux containers (chroot or proot) on a phone. It has a
terminal (a fork of Termux's emulator), a service that runs shell commands in a floating
window, a service that shows an X display on a surface, and screens that create, configure
and delete containers. This directory holds TLA+ models of that program, their TLC
configurations and theorems about them with proofs for TLAPS.

* [1 The system](#1-the-system): its parts, their state, how they interact, what is hard
* [2 The models](#2-the-models): which module stands for which code, and how
* [3 What TLC checks](#3-what-tlc-checks): the runs, their bounds, the fairness
* [4 What is proved](#4-what-is-proved): theorems, invariants, assumptions
* [5 Disagreements between the code and what it says](#5-disagreements-between-the-code-and-what-it-says)
* [6 What is not modelled](#6-what-is-not-modelled)
* [7 Plan](#7-plan)

Paths below are relative to `src/app/src/main/java/com/pangbai/` unless they start with `jni/`
or `assets/`, which are under `src/app/src/main/`.

## 1 The system

### 1.1 Components

| Component | Source | State it keeps | Operations |
|---|---|---|---|
| byte queue | `terminal/ByteQueue.java` | ring, head, stored bytes, open flag; the monitor | `read`, `write`, `close` |
| terminal session | `terminal/TerminalSession.java` | shell pid, pty descriptor, two byte queues, the emulator, a handler on the main looper | `updateSize`/`initializeEmulator`, `write`, `finishIfRunning`, `cleanupResources`, `handleMessage`; loops of the reader, writer and waiter threads |
| pseudo terminal | `jni/termux/termux.c`, `terminal/JNI.java` | none of its own (kernel: pty, process, tables of descriptors) | `createSubprocess`, `setPtyWindowSize`, `waitFor`, `close` |
| terminal emulator | `terminal/TerminalEmulator.java` | cursor, margins, modes, tab stops, saved cursors, which buffer is in use, parser state, colours | one per control character and escape sequence; `resize`, `reset` |
| screen buffer | `terminal/TerminalBuffer.java` | ring of lines, screen's first row, size, rows in the transcript | `resize`, `scrollDownOneLine`, `blockCopy`, `blockSet`, `setChar`, `setOrClearEffect`, `clearTranscript` |
| terminal row | `terminal/TerminalRow.java`, `WcWidth.java` | chars, space used, styles, wrap flag | `setChar`, `copyInterval`, `clear` |
| key codes, styles | `terminal/KeyHandler.java`, `TextStyle.java`, `TerminalColors.java` | tables | pure functions |
| views | `view/*` | session shown, emulator, selection, scroll position, extra keys | input events, `updateSize`, `attachSession`, drawing |
| command service | `dowork/service/mainService.java`, `view/SuperTerminalView.java` | floating view with its session, the static `isCmdRunning`, the umount thread, a callback | `onStartCommand`: exec, stop, success, failed |
| command execution | `dowork/Command/cmdExer.java`, `CommandBuilder.java` | static process, last line, result | `execute`, `destroy` |
| display service | `dowork/service/display.java`, `DisplayActivity.java`, `displayConnection.java` | Xvfb's and PulseAudio's processes, the drawing thread, the surface, `isStarting` | start/stop Xvfb, start/stop audio, `listenDisplay`, full screen on and off |
| X drawing | `jni/xdraw/*.c`, `dowork/tool/jni.java` | the X connection `mdisplay`, `isRunning`; per typed text a window that owns the selection | `init`, `startx`, `stopDraw`, pointer and key input, `copy` |
| containers | `dowork/tool/containerInfor.java`, `dowork/fragment/containerFragment.java`, `dowork/tool/ctAdapter.java` | the static list, the selected container, configuration files | list, create, rename, delete, select |
| settings | `linuxdeploy/*` | shared preferences, a `.conf` file per container | restore, dump, change profile |
| container scripts | `assets/files/dowork/cli/` | mounts, chroot processes | deploy, mount, umount, start, stop, import, export |

`PROJECT.json` lists every one of them with what is modelled.

### 1.2 How they interact

```
 keys, paste --> TerminalSession.write --> ByteQueue --> writer thread --> pty --> shell
 screen <-- TerminalView <-- TerminalEmulator <-- handleMessage <-- ByteQueue <-- reader thread <-- pty
                              |                     ^
                              v                     |  MSG_NEW_INPUT, MSG_PROCESS_EXITED
                        TerminalBuffer        main looper <-- waiter thread <-- waitpid()
                              |
                        TerminalRow

 fragments --intent--> mainService --setProcess/runProcess--> SuperTerminalView --> TerminalSession
      ^                    |  ^                                      |
      +---- callback ------+  +------- intent success/failed --------+  (onSessionFinished)
                           +--> umount thread --> cmdExer --> cli.sh
 activities --bind, intents--> display --> Xdraw thread --> xdraw.c --> X server --> surface
```

The main thread handles all user input, intents, runnables and session messages, one at a
time. Besides it there are three threads per session, the umount thread, the drawing thread,
and threads that fragments start for slow commands. They share byte queues (monitors), static
fields (no protection) and messages to the main looper.

### 1.3 What is hard, and what makes each component correct

* **Byte queue.** Two threads copy in runs around a ring under one monitor with one wait set,
  `notify()` instead of `notifyAll()`, and a third thread may close it at any time. Correct:
  bytes come out once, in order; nobody sleeps through the event it waits for; `write` tells
  the truth about a close.
* **Terminal session.** Messages are sent after queueing, pids and descriptors are numbers that
  the kernel reuses, and the main thread itself waits in `write()`. Correct: no output is
  stranded in a queue, repeated or shown after the exit; the exit is noticed; threads end, as far
  as the descriptor's number is not given to another file under them;
  signals and system calls go to this session's process and pty only.
* **Emulator and buffer.** Any byte stream is legal input. An index off by one is an exception
  on the main thread, that is, the end of the app. Correct: cursor and margins stay on the
  screen and every edit inside the buffer, through modes, saved cursors, resizes and the
  alternate screen.
* **Command service.** A command ends in several ways that can meet: exit, stop, the runnable
  posted by each of them, the intents posted by those. Correct: one command at a time in the
  view; one result per command, and the right one; the container is unmounted once after it.
* **Screen buffer.** Scrolling turns a ring of row objects, resizing changes how many slots are
  the screen's, and both reuse rows. Correct: to the emulator and the view it is a list of lines,
  and no row object is in two slots.
* **Command execution.** Every thread of the app runs commands through the same static fields.
  Correct: at least a call that nobody disturbs waits for and reports its own process, and
  destroys that one; a call whose `start()` fails has none, and destroys what an earlier one left.
* **Display.** A native loop, its stop flag and the X connection are shared by two threads
  without a lock. Correct: a stop stops, a start after a stop starts, clients are drawn, and
  input uses no connection that has been closed.
* **Clipboard.** One thread per typed text, all on the queue of one connection, which a further
  thread closes. Correct: they end, and the connection outlives them.
* **Subprocess.** A fork copies whatever the app's other threads have open. Correct: a shell gets
  its own terminal and nothing of another session, also when the table is full.
* **Containers.** A background thread deletes and reindexes a list that the main thread shows.
  Correct: what is deleted is what the user confirmed, and nothing of a mounted system.

`PROJECT.json` lists the hazards one by one, at their lines, with the properties that cover
them or the reason why none does.

## 2 The models

| Module | Role |
|---|---|
| `ByteQueue` | `ByteQueue.java`, every monitor operation and loop iteration a step |
| `ByteChannel` | what the queue promises: a bounded FIFO channel that can be closed |
| `TerminalSession` | `TerminalSession.java` with its threads, the looper and the pty |
| `TerminalCursor` | `TerminalEmulator.java`: cursor, margins, modes, tab stops, saved cursors, buffers' sizes |
| `TerminalBuffer` | `TerminalBuffer.java`: the ring of row objects, scrolling, block operations, fast and slow resize |
| `LineScreen` | what the buffer promises: a history and a screen, two sequences of lines |
| `Subprocess` | `termux.c`: fork and exec of a session's shell, with the tables of descriptors |
| `CommandService` | `mainService.java` and `SuperTerminalView.java`: commands, stops, runnables and intents on the main looper |
| `CommandExecution` | `cmdExer.java` and the start and stop of Xvfb in `display.java`: the statics |
| `Display` | `display.java`, `displayConnection.java`, `DisplayActivity.java`, `xdraw.c`, `input.c`: drawing, stops, surfaces, touches and keys |
| `Clipboard` | `clipboard.c` and `inputString()` of `input.c`: typed text as the X selection |
| `MCByteQueue`, `MCTerminalSession`, `MCTerminalCursor`, `MCTerminalBuffer` | values of constants that a configuration cannot write down; the other modules need none |
| `...Proofs` | theorems and proofs about the module of that name |
| `NativeProofs` | the same for `Subprocess` and `Clipboard`, the two modules about the app's C code |

`TerminalSession` stands on `ByteQueue` (its queues are the abstract channel, as counters) and on
`Subprocess` (a session starts with a shell on its own terminal). `TerminalCursor` leaves the lines
out and `TerminalBuffer` the cursor's column: what a resize does to the cursor's row is a
choice in the one and computed in the other. `CommandExecution` and `Display` meet in
`process_Xvfb`: the first asks which process it is, the second what happens when the server goes.
`Clipboard` models in detail one piece of `Display`, the event queue of the connection, and shares with it
the closing of the connection.

Some operations have a parameter in the place of what a plausible mistake would change: `CloseThen(signal)`,
`HandleMessageTaking(most, rest)`. The operation itself (`Close`, `HandleMessage`) gives it what the
code does; a variant beside it (`CloseSilent`, `HandleMessageShort`) gives it the mistake. No
specification uses the variants; they show for each property a mistake that breaks it.

### 2.1 ByteQueue

The variables `mBuffer`, `mHead`, `mStoredBytes` and `mOpen` are the fields. A slot of the ring
holds the number of the byte stored in it, counted in the producer's order: which byte it is
matters, its value does not. `lock` is the owner of the object's monitor and `waitSet` its wait
set. `rpc` and `wpc` are the places of the consumer in `read()` and of the producer in `write()`,
with their local variables; `asked`, `sent` and `taken` are history.

| Code | Actions |
|---|---|
| `close()` | `Close` |
| `read()`: entry, `wait()`, early returns | `ReadCall`, `ReadWait`, `ReadNothing`, `ReadBegin` |
| `read()`: copying loop, `notify()` and return | `ReadRun` (one iteration), `ReadReturn` |
| `write()`: outer loop | `WriteCall`, `WriteWait`, `WriteBegin`, `WriteChunkDone`, `WriteReturn` |
| `write()`: inner loop | `WriteRun` (one iteration) |
| `wait()` returning by itself or with `InterruptedException` | `SpuriousWakeup` |

`notify()` wakes any one waiting thread: the model does not choose which. The lengths that make
`write()` throw are not passed.

`ByteChannel` is the abstract specification: a sequence of bytes, `Put`, `Take`, `Begin` (the
consumer's next call, with an empty buffer) and `Close`. The mapping reads the channel off the
ring, from the head, as many slots as are stored; every run of a copying loop is one `Put` or
`Take`, everything else a stutter.

### 2.2 TerminalSession

Five parties: the main thread, the reader (`TermSessionInputReader`), the writer
(`TermSessionOutputWriter`), the waiter (`TermSessionWaiter`) and the processes on the pty. The
queues are counters with an open flag, since `ByteQueue` shows that their calls keep order and
are atomic chunk by chunk; the pty's directions are counters with a limit. `inbox` is what the
main looper holds for the session.

| Code | Actions |
|---|---|
| `initializeEmulator()` | `InitializeEmulator` |
| `updateSize()` later | `UpdateSize` |
| `MainThreadHandler.handleMessage()`: read, append, replies of the emulator | `HandleMessage`, then `MainWritesChunk` for the replies, `MainReturns` |
| ... of `MSG_PROCESS_EXITED`: `cleanupResources()` | `CleanupPid`, `CleanupToProcess`, `CleanupToTerminal`, `CleanupDescriptor` |
| `write()` from the user | `UserWrites`, `MainWritesChunk`, `MainReturns` |
| `finishIfRunning()` | `FinishIfRunning` |
| reader's loop | `ReaderCalls`, `ReaderReads`, `ReaderReturnsForeign`, `ReaderWritesChunk`, `ReaderSends` |
| writer's loop | `WriterTakes`, `WriterCalls`, `WriterWrites`, `WriterReturnsForeign` |
| waiter | `WaiterReaps`, `WaiterSends` |
| processes (external) | `ProcessPrints`, `ProcessReads`, `ShellExits`, `BackgroundCloses` |

A system call on the descriptor is two steps, the call and its return, since the main thread may
close the descriptor between two of them. A call on the number after the close fails, or finds
another file that has been given the number (`TerminalSession.java:295`): then the thread is at
`"foreign"`, blocked as long as that file likes, after which it fails or goes on in its loop. The
`close()` of the streams in the threads' `finally` blocks closes nothing: on Android a stream made
from a `FileDescriptor` does not own it. A `kill(0, SIGKILL)` ends the app, which is the place
`"killed"` of the main thread. `misuse` is history: it records the first signal to a
pid, or use of a descriptor's number, that is not this session's.

### 2.3 TerminalCursor

A step is a whole control character, printed character or escape sequence with its arguments;
several sequences that differ only in a formula share an action as disjuncts. Cells are left out.
What remains of each call on `TerminalBuffer` is whether its arguments are inside the buffer:
where the code would throw, `fault` says why and the model stops, since the exception ends the
main thread.

| Code | Actions |
|---|---|
| `emitCodePoint()` with insert mode and auto-wrap | `EmitCodePoint(width)` |
| BS, HT, LF/VT/FF/IND, NEL, CR | `Backspace`, `Tab`, `LineFeed`, `NextLine`, `CarriageReturn` |
| DECBI, DECFI, RI, ESC F | `BackIndex`, `ForwardIndex`, `ReverseIndex`, `LowerLeft` |
| CUU, CUD, CUF, CUB, CHA, CHT, VPA, HPR | `MoveBy` |
| CNL, CPL, VPR; HPA; CUP, HVP; CBT | `MoveRespectingOrigin`, `HorizontalPosition`, `CursorPosition`, `BackTab` |
| HTS, TBC | `TabStops` |
| ICH, DCH, ECH, IL, DL, EL, ED, DECIC, DECDC, SU, SD, DECALN, DECCARA, DECRARA | `EditAtCursor`, `EditScreen`, `ChangeAttributes` |
| DECSTBM, DECSLRM | `SetTopAndBottom`, `SetLeftAndRight` |
| DECSC, DECRC | `SaveCursor`, `RestoreCursor` |
| IRM; DECSET/DECRST; `CSI ? s`, `CSI ? r` | `InsertMode`; `DecSetOrReset`; `SaveMode`, `RecallMode` |
| DECSTR, RIS | `SoftReset`, `ResetToInitialState` |
| DECSET 47, 1047, 1049 | `EnterAlt`, `LeaveAlt` |
| `resize()` with `resizeScreen()` | `Resize` |

Int arithmetic wraps at `MaxInt` in the sums that the code makes before clamping (`Plus`). What a
resize of the buffer does to the cursor depends on the lines' contents: the fast path may move
the row by the number of blank lines skipped or of transcript lines taken, the slow path may put
the cursor anywhere on the new screen (`BufferResizes`). Either way a cursor that ends above the
screen, or to the left of it, is put into the corner (`TerminalBuffer.java:353`). `MaxLeft` bounds how
far `Backspace` may count a column down. `saved` holds what DECSC and the switch
of buffers save; `leftMain` is history.

### 2.4 CommandService

`looper` is what the main looper holds: intents that have reached the service, exits of sessions
(`MSG_PROCESS_EXITED`), runnables of `onSessionFinished()`. `intents` is what `startService()` has
taken and the system has not delivered. A command's session is its state (not started, running,
killed, exited, cleaned up) and its exit code: `TerminalSession` says how one becomes the other.
`posted` and `executed` number the runnables; they and `stopped` are history.

| Code | Actions |
|---|---|
| the screens: a command, dashboard's stop button | `UserExecutes`, `UserStops` |
| delivery of an intent | `IntentArrives` |
| `TerminalView.updateSize()` at the first layout | `LayOut` |
| a session of a `TermActivity`, which writes the same static `EXITCODE` | `OtherSessionExits` |
| waiter thread: `waitFor()` returns and the message is sent | `CommandEnds`, `KilledEnds` |
| `onStartCommand()`: exec, with `setProcess()` and `runProcess()` | `Exec` |
| ... stop, with `finishIfRunning()` and `onSessionFinished()` | `Stop` |
| ... success, failed | `Result` |
| `handleMessage()` of `MSG_PROCESS_EXITED`, with `onSessionFinished()` | `ExitIsHandled` |
| the runnable of `onSessionFinished()` | `FinishedRuns` |
| `stopChroot()`, its thread | `StopsChroot` in `Stop` and `Result`, `UmountEnds` |

The container may be changed at any time, so each look at `isProot` may find either. A stop of a
session that has not been laid out kills the app (`kill(0, SIGKILL)`, see 5): `alive` becomes false
and nothing happens any more.

What the model shows of stops: `onSessionFinished()` is called twice for a stopped session, by the
stop and by the exit, and the second runnable does not look whose view it frees. Between the two
another command may start; the second runnable then frees the view from under it, and one
more can start beside it. `RivalsNeedStops` says that this is the worst of it.

### 2.5 TerminalBuffer

A row object is a number, a slot of `mLines` holds one or `Null`, and `text` says what a row's cells
hold, one of a few texts or `Blank`: the model follows which object is where, which is what
the index arithmetic can get wrong. One behaviour is about the main buffer or about the alternate
one (`altScreen`), as `resize()` is told which it is.

| Code | Actions |
|---|---|
| `scrollDownOneLine()` with `blockCopyLinesDown()` twice, `allocateFullLineIfNecessary()` | `ScrollDownOneLine` |
| `blockSet()`, `setChar()` over lines | `BlockSet` |
| `blockCopy()` over lines, in its order | `BlockCopy` |
| `resize()`, same columns | `FastResize` |
| `resize()`, other columns or more rows than the ring has | `SlowResize` |
| `clearTranscript()` | `ClearTranscript` |
| the emulator moves its cursor between two calls | `MoveCursor` |

A slow resize makes new rows and prints the old text into them; how it is broken into lines is
left open (`Reflows` bounds what TLC tries, `MaxScrolls` how far it scrolls). The mapping to
`LineScreen` reads the history and the screen off the ring by `externalToInternalRow()`. For the
alternate screen the abstract specification only promises that a lower screen shows lines it
showed before: the fast resize changes `mTotalRows`, the modulus of every index, after the ring has
been turned, so that the lines' order is lost (see 5).

### 2.6 Subprocess

A process is its table of descriptors, full at `Limit`. The app's table is changed by
`OtherThreadOpens` and `OtherThreadCloses` between any two steps of `createSubprocess()`, and
`open()` takes the lowest free descriptor; the child has the copy that `Fork` makes.

| Code | Actions |
|---|---|
| `open("/dev/ptmx")`, failures after it, `fork()`, `JNI.close()` | `OpenPtmx`, `SetupFails`, `Fork`, `CloseMaster` |
| child: `close(ptm)`, `setsid()`, `open(devname)`, `dup2()` three times | `CloseOwnMaster`, `Setsid`, `OpenSlave`, `Dup2` |
| child: `opendir()`, the loop around `readdir()`, `closedir()` | `OpenDir`, `CloseEntry`, `CloseDir` |
| `execvp()` or `_exit(1)`, the shell's end | `Exec`, `ShellExits` |

`OpenDir` may fail: then nothing is closed by the loop, and only `O_CLOEXEC` on the masters keeps
them from the shell.

### 2.7 CommandExecution

Each assignment to and each use of a static is a step. `lastLine` is the process that printed it.
`own`, `disturbed`, `cleared` and `crossed` are history: which process a call has started, whether
it overlaps with another thread's, whether the statics were cleared before it, and how many servers
were started by calls that overlap.

`start()` throws when there is no `su`, `readLine()` when the stream breaks, `waitFor()` when the thread
is interrupted: each at any time (`Throws`). `execute()` catches it and goes to its `finally`, where
`process` is what the call has started or, if `start()` threw, whatever was there before.

| Code | Actions |
|---|---|
| `execute()` from its entry, with or without `destroy()` before it | `Begin`, `Start`, `GetInputStream`, `ReadLine`, `EndOfOutput`, `CallWaitFor`, `WaitFor`, `Throws`, `Finally`, `DestroyProcess`, `Return` |
| `cmdExer.destroy()` alone | `Destroy` |
| `startXvfb()`, `process_Xvfb = cmdExer.process`; `stopXvfb()` | `StartXvfb` or `XvfbFailsToStart`, `KeepXvfb`; `StopXvfb` |
| a command ends (external) | `CommandEnds` |

### 2.8 Display

`xdraw` is the place of the drawing thread in `listenDisplay()`'s loop, in `init()` and in
`startx()`; `ui` is the list of calls that the main thread's handler has still to make, one step
each. `mdisplay` is the server it is connected to, or `NULL`, and `open` whether that connection has
not been closed yet: `XCloseDisplay()` comes before `mdisplay = NULL`.

| Code | Actions |
|---|---|
| `init()`; `checkClientOnline()` there and for each frame | `OpenDisplay`; `ClientsAtInit`, `ClientsAtFrame`, `Forget` |
| the loop of `listenDisplay()` | `Announce`, `UpdateFloatDisplay`, `CallStartx`, `HideDisplay`, `Finish` |
| `startx()` | `Run`, `Loop`, `Frame` |
| runnables on the main thread | `RunPosted` |
| `stopDraw()`; `stopXvfb()`; the float's close button | `StopDraw`; `StopXvfb`, `DestroyXvfb`; `CloseFloat`, `PostHide` |
| `DisplayActivity` and `displayConnection` | `OpenActivity`, `ServiceConnected`, `SetFullScreen`, `SetSurface`, `DestroyActivity`, `Unbind`, `SetWindowed`, `ResetSurface` |
| touches, keys by name, the cursor button | `TouchScreen`, `ConfirmTap`, `UseInTap`, `UseInScroll`; `InputKey`, `ReturnIfNull`, `Load`, `UseInKey`; `CursorControl`, `UseInCursor` |
| server and clients (external) | `ServerStarts`, `ServerDies`, `ClientsComeOrLeave` |

Undefined behaviour is a choice: a call on a closed connection may crash or not, one on `NULL`
does. A call on a connection whose server has gone ends the process, since Xlib's default handler
of I/O errors calls `exit()`; so does, sooner or later, the app's own `stopXvfb()`. `death` names the
call. A key handler reads `mdisplay` once and hands the value on (`dsp`), a touch reads it for each
call. The surface of the activity becomes `"gone"` with it. `unheard`, `lastLeft` and `late` are
history: they name the races that the properties excuse.

### 2.9 Clipboard

A copy thread owns the selection through a window of its own, answers from the connection's queue
until its second is over (`Expire`), and destroys the window: `CreateWindow`, `SetOwner`,
`CheckOwner`, `Loop`, `NextEvent`, `Free`. `InputString` starts it, `PressButton` makes the client
ask. The drawing thread's `QueryTree` and `CloseDisplay` are `checkClientOnline()` as seen from
here: a copy thread's window counts as a client's. `robbed` (another thread took the event that
this one had seen) and `slipped` (the window came after the `XQueryTree()`) are history. `ClipInit`,
`ClipNext` and `ClipSpec` have their prefix because `NativeProofs` extends this module and
`Subprocess` together.

## 3 What TLC checks

### 3.1 Passing runs

| Run | Question | Bounds |
|---|---|---|
| `ByteQueue_monitor` | Are contents, results and signals right in all interleavings, is the queue a `ByteChannel`, does every call come back and every byte arrive? | ring of 3; writes of 1 to 4, reads of 1, 2, 4 bytes, both modes; 8 bytes |
| `TerminalSession_threads` | Is output stranded, repeated or shown too late? Does input meet a closed queue? Is the exit noticed, do the threads end unless a reused descriptor keeps them, is everything shown while the shell reads? | all buffers 1; 2 bytes printed, 3 typed, replies of 1 |
| `TerminalCursor_screen` | Do cursor and edits stay inside, with scrolling regions, origin mode, 80/132 columns, two buffers and resizes? | 2 by 2 and 3 by 2; arguments 1 and 4 |
| `TerminalCursor_margins` | What is left of that with left and right margins and auto-wrap off, and which step takes the cursor to the left of the screen? | 2 by 2 and 2 by 3, so that the top and bottom margins stay the screen's; argument 2; one column to the left |
| `TerminalBuffer_ring` | Has every line a row of its own, and is the ring a history and a screen? | ring of 4, heights 2 and 3, one text; a reflow scrolls at most one line |
| `Subprocess_tables` | What does a shell have open when it starts? | 2 sessions, 6 descriptors |
| `CommandService_view` | How many commands can run beside each other, whose exit code is reported, does the view become free again? | 3 commands, 1 stop, 1 exit of another session, codes 0 and 1 |
| `CommandExecution_statics` | What may an undisturbed call count on, how many servers are lost, does a call return? | 2 threads, 2 processes |
| `Display_draw` | Is the connection open while drawing, on which surface is drawn, is the float hidden, what do touches crash on, do stops and clients get noticed? | 2 servers, 2 user actions, 2 posted runnables |
| `Clipboard_typing` | Who may use the connection, does every copy thread end, is the connection closed at last? | 2 texts, 2 rival owners |

Why the bounds are enough. *ByteQueue:* runs of the copying loops end at the ring's end, at the
head or tail, or at the end of a buffer; with three slots and requests shorter than, equal to and
longer than the ring all of them happen at every offset, and 8 bytes go round the ring more than
twice. *TerminalSession:* the source's buffers
are all 4096 bytes; what matters is that they are equal and that there are more bytes than one
holds, so that writes wait. Three bytes of input fill the queue, the pty and the writer's buffer of
one byte each, after which the main thread waits. Messages that meet partly filled queues need
larger buffers: the four safety properties are proved for all sizes (4). *TerminalCursor:* the smallest screens on which a row or
column can be neither first nor last, growing and shrinking by it; with three rows a scrolling region
lies above or below a fixed line; arguments inside and beyond the edge. With side margins the
one argument 2 sets a left and a right margin inside three columns and passes the edge of two; on the two
rows of that run the scrolling region is always the whole screen, so that both kinds of margins together
are left to the proof of `MarginsStayOnScreen` (4). The tab stops
are the default ones, in every column of `TerminalCursor_screen` and in none of
`TerminalCursor_margins`; there programs set and clear one only in column -1, where that throws. All tab
stops are covered by the proofs (4). `MaxInt` is 15, out of reach of sums in the passing runs. The numbers in `Modes` are
DECSET numbers (3 columns, 6 origin, 7 auto-wrap, 69 left and right margins, 1049 alternate
screen); the runs differ in them to keep apart what does not depend on each other. Three columns
are the fewest with which a left margin can be at column 1 and the screen be made narrower
than the cursor's column.
*CommandService:* a stopped command, one that starts before the stopped one's exit is handled, and one
that starts beside it are three commands and one stop; that the bound holds for more stops is proved.
Two codes tell success from failure and one command's code from another's.
*TerminalBuffer:* a screen of two rows has two free slots and one of three has one, so that the
transcript fills up, the ring turns past its end and a growing screen gets some of its rows
from the transcript and some blank; one text besides blank tells which line is where, since lines
that hold it and blank ones can be put in any pattern. *Subprocess:* three standard descriptors, a
master, a slave, a directory and a master of the other session do not all fit into six: tables are
full at every step that can fail. *CommandExecution:* all races are between two calls; two
processes are one for each, or one of a call and one that an earlier call has left in the static, which a
`start()` that fails then destroys. A `cmdExer.destroy()` between a start
and the display's read of the static loses a server without a further process, so that both can be lost.
More of them are covered by the proofs (4). *Display:* two servers make
a connection to one that has gone; two user actions are enough to open and leave the full screen
or to touch while it is left. *Clipboard:* two texts share the queue; a rival may take the selection
from each. That more texts, sessions, servers and user actions change nothing of the safety
properties is proved (4).

Deadlock is checked in `ByteQueue_monitor`, `Subprocess_tables` and both runs of `TerminalBuffer`. Elsewhere the system
may really stop: in the runs of `TerminalCursor` a fault ends the app; in `TerminalSession_threads` and
`TerminalSession_fullinput` the session ends, or the input fills the queue and the main thread
waits for ever (see 5); in `CommandService_view` the commands sent are limited and a stop may kill the
app; in `CommandExecution_statics`, `Display_draw` and `Clipboard_typing` an exception or Xlib ends
the app, or the bounds are used up.

### 3.2 Fairness

* `ByteQueue!FairSpec`: weak fairness of the consumer's calls, since the loop of
  `TermSessionOutputWriter` calls `read()` again and again; strong fairness of the steps inside
  calls, that is, a monitor that starves nobody for ever. Nothing is assumed of the producer
  between calls, nor of `close()`.
* `TerminalSession!FairSpec`: weak fairness of the looper with what it is handling and of the
  three threads: the operating system runs runnable threads. Users and processes owe nothing: that
  the processes read what they are sent is the premise `WF_vars(ProcessReads)` of `OutputIsShown`,
  since a shell that does not read blocks the writer and, when the queue is full, the main
  thread. Nor does a foreign file that a thread has met under the closed number: it may keep the thread
  for ever, which `ThreadsEndUnlessMisled` allows. For the same reason as `OutputIsShown` `ExitIsNoticedUnlessStuck` allows the main thread to be stuck.
* `CommandService!FairSpec`: weak fairness of the main thread with what its looper holds, of the
  delivery of intents, of the first layout and of the end of a process that was sent SIGKILL. A
  command may run for ever and users owe nothing.
* `CommandExecution!FairSpec`: weak fairness of the threads inside a call and of the end of
  commands that nobody holds up; a command whose output fills the pipe ends only after it has been
  read. Nothing has to throw. `Begin`, `Destroy` and the display's starts and stops are the callers'
  choice.
* `Display!FairSpec`: weak fairness of the drawing thread, which sleeps half a second and looks
  again for ever, of the main thread with what it is doing, and of what the system has promised:
  the confirmation of a tap, the unbinding after an activity is destroyed, and that the first
  `action_startX` is sent (`WF_vars(StartX)`: without it the thread does not exist). No server or
  client has to come, no user has to do anything.
* `Clipboard!ClipFairSpec`: weak fairness of every copy thread, of the clock, of the button that
  `inputString()` presses and of the drawing thread.
* `TerminalCursor`, `TerminalBuffer` and `Subprocess` have no liveness property: the first two are
  functions of their input, and of the third nobody waits for anything.

## 4 What is proved

TLAPS checks the following for all values of the constants that satisfy the named assumptions.

| Module | Theorems | Inductive invariant |
|---|---|---|
| `ByteQueueProofs` | `TypeCorrect`, `RingIsFifo`, `ReadsInOrder`, `NoSignalIsMissed`, `NeverBothWait`, `WriteIsTruthful`, `ClosedQueueIsFrozen`, `QueueIsChannel` | `InductiveInvariant` |
| | `BlockingReadsReturnBytes` | `ReadFrameInvariant`, on top of it |
| `TerminalSessionProofs` | `TypeCorrect`, `InputIsAnnounced`, `OutputBalances`, `InputIsNeverDropped`, `NothingAfterExit` | `InductiveInvariant` |
| `TerminalCursorProofs` | `TypeIsInvariant`, `MarginsStayOnScreen`, `BufferInUseFits` | `FrameInvariant` |
| | `LeftOpenIsInvariant`, `FaultsComeFromTheLeft` | `LeftOpenInvariant`, on top of it |
| | `CursorStaysOnScreen`, `EditsStayInside`, `MainCursorReturns` | `CursorInvariant`, on top of `FrameInvariant` |
| `TerminalBufferProofs` | `RingHolds`, `BufferTypes`, `RowsStayTheirOwn` | `RingInvariant` |
| | `RingIsHistoryAndScreen` | `BufferInvariant`: the same, and every object's text is a line |
| `CommandServiceProofs` | `Invariance`, `RivalsAreBounded`, `CommandsRunOneAtATime`, `ReportsAreOwn` | `InductiveInvariant` |
| `CommandExecutionProofs` | `CallInvariantHolds`, `UndisturbedCallsAreOwn` | `CallInvariant` |
| | `StraysNeedRaces` | `StrayInvariant`, on top of it |
| `DisplayProofs` | `DisplayHolds`, `ConnectionIsOpen`, `SurfacesFollow`, `FloatViewRests`, `TouchesFindConnection` | `DisplayInvariant` |
| `NativeProofs` | `SubprocessHolds`, `MastersStayPrivate`, `ShellsHaveTerminals` | `SubprocessInvariant` |
| | `ConnectionHolds`, `ConnectionIsKept` | `ConnectionInvariant` |

*ByteQueue* (capacity positive, lengths positive). `NoMissedSignal` speaks of states in which the
monitor is free; within a critical section it is broken until the `notify()` at its end. The
invariant therefore says who holds the monitor (`MonitorIsExclusive`) and which signal is still
owed: a waiting reader is right to wait, or a writer inside knows from `wasEmpty` that it must
signal; dually for `wasFull` (`SignalIsOwed`). That never both wait follows, and with it that one
`notify()` reaches the thread it is meant for. The two copying runs are proved slot by slot, with
cases on whether head and tail wrap. That the queue implements `ByteChannel` rests on the same
invariant: what the ring stores is a stretch of the numbers of the producer's stream (`Stretch`), so
that a run of `read()` cuts such a stretch in two, a run of `write()` joins one to its end, and every
other step leaves the channel alone. `ReadFrameInvariant` adds what a `read()` has still to give: once
it has found bytes, some are in the ring or taken until it returns.

*TerminalSession* (positive sizes; the reader's buffer no larger than the queue and the queue no
larger than the handler's, which 4096 = 4096 = 4096 gives). `NoStrandedInput` is inductive because
one message takes a whole queue. `QueuesCloseInCleanup` ties the queues' flags to the place of the
main thread in `cleanupResources()`; `ReaderHoldsOneBatch` says where the bytes of the reader's
buffer are.

*TerminalCursor.* `FrameInvariant` (sizes, margins, types) does not mention where the cursor is and
needs no assumption on modes or arguments; only `SizesAssumption`, that sizes are at least 2 by 2,
as `TerminalView.updateSize()` makes them at least 4 by 4, and no higher than the transcript buffer.
`CursorInvariant` is proved for programs without left and right margins (`NoSideMargins`) and
with arguments that no sum overflows (`SmallArguments`): without either, the cursor does leave the
screen (see 5). With left and right margins, and `SmallArguments` alone, `LeftOpenInvariant` is what
remains: the cursor is never below the bottom or to the right of the right edge, and neither is the
one saved for the main screen. `FaultsComeFromTheLeft` follows: an edit outside the screen is one to
the left of column 0, and the step that takes the cursor there is BS, which compares with the left
margin for equality (`TerminalEmulator.java:561`). A cursor that was there when the main screen was left
is on the screen when it comes back: `restoreCursor()` clips it if the size is the same, and otherwise
the resize puts it into the corner (`TerminalBuffer.java:353`).
`CursorInvariant` needs `SidesAreMargins`, since every clamp in the code is against the margins,
and `MainCursorWaits`: while the alternate screen is in use, the saved cursor lies on the main
buffer as that was left, which may differ from the emulator's size by now.

*CommandService* (exit codes are integers). How many sessions are unfinished depends on how often
the view has been freed, which no variable of the code counts. `Ledger` keeps the account: unfinished
sessions and posted runnables are together as many as sessions and stops, since each runnable was
posted for one exit or one stop; and all sessions but at most one were followed by a runnable that
freed the view. `RunnablesAreOrdered` says that runnables are executed in the order of their numbers,
each once, so that no more were executed than posted: the bound follows. Without stops
`ReportedOnceDone` adds that at most one runnable is on its way and only for a session whose
exit has been handled, which `ExitsAreOnTheWay` keeps apart from sessions whose exit has not.
The proof first shows what each action does to the variables that the invariant mentions
(`Quiet` to `Freeing`) and then treats each part of the invariant by these nine shapes.

*TerminalBuffer* (any ring, any set of heights up to its size, any reflows). `RowsAreTheirOwn` is
nearly inductive: what it lacks is that there is an unused object when a slot without one is
needed, and that turning the ring by `blockCopyLinesDown()` is a permutation of its slots.
`RingIsWhole` keeps the two buffers apart, since only the main one may have empty slots; `TypeOK`
allows `mLines` to be longer than `mTotalRows`, as the fast resize of the alternate screen leaves it.

That the ring implements `LineScreen` is proved operation by operation, each in three steps. First,
slots: rows are counted around the ring from a base that does not move (`Slot`), so that turning the
ring is counting one further, and rows less than a turn apart have different slots (`SlotsApart`).
Second, what the step shows at each row (`View`): the line of another row, as `Origin` says for a
scroll and the shift of the window for a resize, or a blank one where an object has been cleared
that no other active row has (`ObjectsDiffer`). Third, rows become sequences (`Hist`, `Scr`), and the
row by row statement the `SubSeq`s and concatenations of `LineScreen`. `blockCopy()` copies in turn and
`LineScreen` at once: the direction in which the code goes through the lines means that none is
read after it has been written (`ReadBeforeWritten`), and then a least line by which the two
differ would be an earlier one (`CopyingInTurn`; the recursive function's existence is shown by
writing down its values, `CopyingExists`). The text of a slow resize is any, there as here.

*CommandExecution* (any number of threads and processes). Every static can be overwritten between any
two steps of a call, so the invariant says nothing of a disturbed call but what process it has
started and what kind that is (`Owns`). A call that has not been disturbed is the only one
(`Undisturbed`): once it has started a process, `process` is that one and the line in the static its own
or none that it has printed. Before, and after a `start()` that threw, `process` is what was
there: `NULL` if the statics were cleared, otherwise what an earlier call has left, and `finally` destroys
that (`cmdExer.java:66`), the X server for example. `startXvfb()` does not look at the result of its call:
when it fails, the static's process passes for the server.
`OthersKeep` shows once what a step does to the other threads' parts: it disturbs whoever is in a
call. For servers, `StrayInvariant` counts: only a start's step from `startXvfb()` to the assignment of
`process_Xvfb` can leave a server unknown, and it does so only when `crossed` goes up with it.

*Display* (any number of servers, user actions and runnables). `DisplayInvariant` has a part per
question, each about what is still to come: `ConnectionPart` lists the places of the drawing
thread at which the connection is open; `FloatPart` says that, when the last runnable posted is a
"show", the drawing thread has still a "hide" to post; `SurfacePart` that a drawing on another surface
than the service's will be stopped by a call left in `ui`, or has missed its stop; `TouchPart` that a
touch accepted while something is drawn finds the connection. They need little of each other: the
proof takes each part through the steps of the two threads, with lemmas for what a kind of step
leaves alone (`XdrawKeeps` and the ones after it).

*Clipboard.* `Kept(k)`: a copy that has made its window while nobody was closing anything has it
still, so `XQueryTree()` shows a window and nobody has begun to close anything since.

*Subprocess* (any sessions, any `Limit` above 3). `Table(s)` says place by place what can be in the
child's table. That no master is left needs two reasons, and the invariant keeps them apart by
`dir`: the loop has closed it, or the directory could not be opened and `O_CLOEXEC` closes it.

Every safety invariant, action property and refinement that a passing run checks is proved. Only
model-checked is all liveness, which is out of the prover's reach, and with it what rests on fairness
or `ENABLED`. The inductive invariants and properties such as
`OneWaiterAtMost`, `ReadsAreConsecutive`, `ClosedIsFrozen` and `BlockingReadIsNeverEmpty` are proved and
are therefore not named in a run. Not proved, since it is not so: the properties of 5.

The library's induction theorems take an operator as a parameter, which the installed provers cannot
instantiate. The one induction over data that a proof here needs, over the lines of a block copy,
goes by the least counterexample instead (`LeastOf`, from the well-foundedness of `<` on the numbers).

## 5 Disagreements between the code and what it says

Two runs end with a counterexample; `PROJECT.json` quotes the lines they contradict.

| Run | Property | What happens |
|---|---|---|
| `TerminalSession_fullinput` | `ExitIsNoticed` | the queue to the process is full when the shell dies: the main thread waits for ever |
| `TerminalBuffer_shrink` | `ShrinkingKeepsText` | a lower screen gives up as many rows at its bottom as there are blank ones anywhere below the cursor: text under a blank row is lost |

Other statements that the code does not keep are definitions in the last sections of their
modules. They have no run of their own; named as the only `INVARIANT` or `PROPERTY` of
`TerminalSession_threads`, `TerminalCursor_screen`, `Display_draw` or `Clipboard_typing`, with the
constants that the table gives, they show the counterexample.

| Definition | With | What happens |
|---|---|---|
| `ReapedPidIsSpared` | | between `waitpid()` and the handling of its message a pid that is free for reuse is signalled |
| `OwnGroupIsSpared` | | `finishIfRunning()` on a session that was never laid out calls `kill(0, SIGKILL)`: the app's own process group |
| `ThreadsStopBeforeClose` | | the descriptor is closed while reader or writer may still use its number |
| `ThreadsEnd` | | a reader or writer that calls `write()` or `read()` on the number after another file has got it does not end: "Stop the reader and writer threads" (`TerminalSession.java:292`) |
| `LastOutputIsShown` | | the exit message overtakes the shell's last output, which is dropped |
| `CursorStaysBetween` | constants of `TerminalCursor_margins` | with a left margin, Backspace takes the cursor from column 0 to -1 |
| | `Args = {14}` | CUD and CUF with an argument close to the largest int make row or column negative |
| `WideIsNeverPutInTheLastColumn` | constants of `TerminalCursor_margins` | a wide character in the screen's last column, right of the right margin, throws |
| `WrapMovesToTheNextLine` | 4 by 2 screen | auto-wrap below the scrolling region scrolls the region and stays in its row |
| `WrapIsPendingInTheLastColumn` | | some moves, and resizes, leave a wrap pending in another column |
| `HorizontalMovesKeepTheRow` | | in origin mode HPA moves the row too |
| `LowerLeftIsLowerLeft` | | ESC F takes the row for the column |
| `RectanglesAreClipped` | 4 by 2 screen, `Args = {1, 2, 4}` | in origin mode DECCARA and DECRARA reach below the screen |
| `MissingServerIsReported` | | `init()` on a connection whose server has gone does not return -2 but ends the app (`xdraw.c:72`) |
| `TextLeavesInTime` | | a copy thread that another has robbed of its event keeps the selection beyond its time (`clipboard.c:18`) |

Read in the code while modelling and left out of the models' properties:

* The comment of `resize()` says "only works when shrinking the number of rows"; the fast path is
  also taken to grow.
* The fast resize of the alternate screen sets `mTotalRows` under a ring that has been turned:
  until they are redrawn, lines are shown in another order (`LineScreen`'s `ShrinkAlt` allows it).
* In the slow resize `newCursorRow` is not decremented when skipped blank lines scroll
  (`TerminalBuffer.java:277`).
* `CSI ? s` sets a bit of the mode in the saved flags and never clears one
  (`TerminalEmulator.java:1083`): `SaveMode` models it so.
* A line that is cleared keeps its wrap flag (`TerminalRow.java:118`).
* `startx()` leaks the image when the surface has no window (`xdraw.c:142`), and the window when there is no
  image (`xdraw.c:145`).

## 6 What is not modelled

* Of the session: a `createSubprocess()` that fails in the middle of `initializeEmulator()` (its own
  failures are in `Subprocess`), titles, the clipboard, the encoding of code points.
* Of the emulator: the UTF-8 and escape parsers, colours and attributes, rectangle copies and
  fills (DECCRA, DECFRA, DECERA), REP (a repeated `EmitCodePoint`), replies, mouse reports, device control
  strings. The parser is a sequential table of states.
* Of the buffer: block copies of part of a line, what a reflow makes of the text, effects, the
  text of a selection. Of a row: `setChar()`'s bookkeeping of columns and chars, the wrap flag.
* Of the pseudo terminal: `setPtyWindowSize()`, the arrays of arguments and of the environment, `chdir()`.
* Of the command service: an empty command, which no screen sends; the callback that refreshes a
  fragment's button; the window's position; what `cli.sh umount` does.
* Of command execution: the strings that `CommandBuilder` makes. Of the display service: PulseAudio
  (started and stopped like Xvfb), the notification, the size and position of the window. Of X
  drawing: what a frame looks like, and the natives that no Java code calls (`destroySrc`, `draw2`,
  `fullScreen`, `inputKey`, `paste`, the unix socket).
* The screens of containers: a static list and a static selection, which threads read and write
  without any order. The code states nothing that a property could hold it to; the hazard is
  listed. Settings are copies between preferences and a file.
* The container scripts, whose effects are in the kernel's mount table.
* Views, drawing, touch and layout; resources; key tables.
* Third-party code: busybox, proot, Xvfb, PulseAudio, debootstrap, X11 headers, the per-distribution
  scripts.

Lines of C in the repository are almost all those of the X11 and xcb headers under
`jni/xdraw/include`, which are third-party declarations: nothing in them can be modelled. The app's
own C is about a thousand lines, of which the parts with state are in `Subprocess`, `Display` and
`Clipboard`.

## 7 Plan

The plan, in the order of importance: what every other part stands on, the queue, the session and
the emulator's cursor; the command service; the statics of `cmdExer`; the buffer's ring against a
list of lines; the display with its drawing loop, and typed text with it; the fork of a shell. All of
these are modelled and checked, and all their safety properties and refinements proved. Left:

1. `TerminalRow.setChar()` with wide and combining characters against a list of cells, and the
   limits of the escape parser's buffers against a reference definition.
2. Mounting and unmounting in `cli.sh` with a failure between two mounts.
