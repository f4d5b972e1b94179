------------------------------- MODULE Display -------------------------------
(***************************************************************************)
(* The drawing of X clients: com.pangbai.dowork.service.display with its   *)
(* drawing thread Xdraw, DisplayActivity and its displayConnection, and    *)
(* the natives in xdraw.c and input.c that share one connection to the X   *)
(* server, mdisplay.                                                       *)
(*                                                                         *)
(*   Xdraw: sleep -> init() -> startx(surface) -> draws frame by frame     *)
(*          until stopDraw() or the last client leaves -> sleep ...        *)
(*   main thread: starts, stops, surface switches, touches and keys, one   *)
(*          handler after the other, each a sequence of calls              *)
(*                                                                         *)
(* Nothing locks: Xdraw opens and closes mdisplay while the main thread's  *)
(* handlers use it, and stopDraw() is a plain flag.  Xlib is external: a   *)
(* call on a connection whose server has gone ends the app's process, a    *)
(* call on NULL crashes it, and so may one on a connection that is closed. *)
(***************************************************************************)
EXTENDS Naturals, Sequences

CONSTANTS
  MaxServers,   \* bound: X servers started one after the other
  MaxEvents,    \* bound: what the user does
  MaxLooper     \* bound: runnables in the looper before Xdraw posts another

ASSUME BoundsAssumption ==
  MaxServers \in Nat /\ MaxEvents \in Nat /\ MaxLooper \in Nat \ {0}

VARIABLES
  (* The natives. *)
  mdisplay,      \* the server it is connected to, or NULL
  open,          \* whether the connection of mdisplay has not been closed yet
  isRunning,     \* cleared by stopDraw()
  (* The Java side. *)
  xdraw,         \* where the drawing thread is
  isStarting,
  isFulllScreen,
  surface,       \* what the next startx() draws on
  jsurface,      \* what this startx() draws on
  looper,        \* what is posted to the main thread: "show", "hide"
  shown,         \* whether the floating view is visible
  ui,            \* the calls left of the main thread's handler
  dsp,           \* presskey()'s own copy of mdisplay
  tap,           \* a tap the gesture detector still has to confirm
  activity,      \* where DisplayActivity is in its activity
  (* Outside of the app, and history. *)
  server,        \* the number of the X server that runs, or NULL
  servers,       \* how many there have been
  clients,       \* whether the server has clients' windows
  events,        \* how much the user has done
  death,         \* the call that has ended the app's process, or "no"
  unheard,       \* history: the last stopDraw() came just before isRunning = true
  lastLeft,      \* history: closed while drawing, or with a touch on its way
  late           \* history: startx() was called on an activity's last surface

natives == <<mdisplay, open, isRunning>>
thread == <<xdraw, isStarting, jsurface>>
main == <<ui, tap>>
world == <<server, servers, clients>>
mode == <<isFulllScreen, surface>>
history == <<unheard, lastLeft, late>>
vars == <<natives, thread, mode, looper, shown, main, dsp, activity, world, events, death, history>>

NULL == 0
Alive == death = "no"

\* Places of Xdraw inside init() and inside startx()'s loop.
InLoop == xdraw \in {"loop", "query", "grab"}
Drawing == InLoop \/ xdraw \in {"start", "running"}
-----------------------------------------------------------------------------
(* The drawing thread: display.listenDisplay()'s loop around init() and       *)
(* startx().                                                                  *)

Goto(place) == xdraw' = place
OthersKeep == UNCHANGED <<mode, shown, main, activity, world, events>>
ThreadKeeps == OthersKeep /\ UNCHANGED dsp

\* init(): XOpenDisplay() if there is no connection; NULL, -2, if no server runs.
OpenDisplay ==
  /\ Alive /\ xdraw = "sleep"
  /\ mdisplay' = IF mdisplay = NULL THEN server ELSE mdisplay
  /\ open' = (mdisplay' # NULL)
  /\ Goto(IF mdisplay' = NULL THEN "sleep" ELSE "init")
  /\ UNCHANGED <<isRunning, isStarting, jsurface, looper, death, history>>
  /\ ThreadKeeps

\* checkClientOnline(), from init() and for every frame: XQueryTree(), and the
\* connection is closed when there is no window of a client.
QueryTree(place, next) ==
  /\ Alive /\ xdraw = place
  /\ death' = IF mdisplay = server THEN "no" ELSE "server gone"
  /\ open' = (clients \/ mdisplay # server)
  /\ Goto(IF open' THEN next ELSE IF InLoop THEN "forgetEnd" ELSE "forget")
  /\ dsp' = IF open' THEN dsp ELSE "freed"
  /\ lastLeft' = (lastLeft \/ (~open' /\ (InLoop \/ tap \/ ui # <<>>)))
  /\ UNCHANGED <<mdisplay, isRunning, isStarting, jsurface, looper, unheard, late>>
  /\ OthersKeep
ClientsAtInit == QueryTree("init", "ready")
ClientsAtFrame == QueryTree("query", "grab")

\* mdisplay = NULL, after XCloseDisplay(): init() returns -1, startx() breaks.
ForgetThen(next) ==
  /\ Alive /\ xdraw \in {"forget", "forgetEnd"}
  /\ mdisplay' = NULL
  /\ Goto(IF xdraw = "forget" THEN "sleep" ELSE next)
  /\ UNCHANGED <<open, isRunning, isStarting, jsurface, looper, death, history>>
  /\ ThreadKeeps
ForgetAndGoOn == ForgetThen("loop")
Forget == ForgetThen("end")

\* isStarting = true, and the floating view is posted unless there is a full
\* screen: it may have come by then.
Announce ==
  /\ Alive /\ xdraw = "ready"
  /\ isStarting' = TRUE
  /\ Goto(IF isStarting THEN "sleep" ELSE IF isFulllScreen THEN "start" ELSE "show")
  /\ UNCHANGED <<natives, jsurface, looper, death, history>>
  /\ ThreadKeeps
UpdateFloatDisplay ==
  /\ Alive /\ xdraw = "show" /\ Len(looper) < MaxLooper
  /\ looper' = Append(looper, "show")
  /\ Goto("start")
  /\ UNCHANGED <<natives, isStarting, jsurface, death, history>>
  /\ ThreadKeeps

\* The field surface is read for the call of startx().
CallStartx ==
  /\ Alive /\ xdraw = "start"
  /\ jsurface' = surface /\ late' = (surface = "gone")
  /\ Goto("running")
  /\ UNCHANGED <<natives, isStarting, looper, death, unheard, lastLeft>>
  /\ ThreadKeeps

\* isRunning = true, just before the loop: whatever stopped before is forgotten.
Run ==
  /\ Alive /\ xdraw = "running"
  /\ isRunning' = TRUE
  /\ Goto("loop")
  /\ UNCHANGED <<mdisplay, open, isStarting, jsurface, looper, death, history>>
  /\ ThreadKeeps

LoopWhile(running) ==
  /\ Alive /\ xdraw = "loop"
  /\ Goto(IF running THEN "query" ELSE "end")
  /\ UNCHANGED <<natives, isStarting, jsurface, looper, death, history>>
  /\ ThreadKeeps
LoopForever == LoopWhile(TRUE)
Loop == LoopWhile(isRunning)

\* XGetImage() and showImage().  Without a window of the surface the frame is
\* skipped, which makes no difference here.
Frame ==
  /\ Alive /\ xdraw = "grab"
  /\ death' = IF mdisplay = server THEN "no" ELSE "server gone"
  /\ Goto("loop")
  /\ UNCHANGED <<natives, isStarting, jsurface, looper, history>>
  /\ ThreadKeeps

\* hideDisplay() and isStarting = false.
Hide(posted) ==
  /\ Alive /\ xdraw = "end" /\ Len(looper) < MaxLooper
  /\ looper' = IF posted THEN Append(looper, "hide") ELSE looper
  /\ Goto("hidden")
  /\ UNCHANGED <<natives, isStarting, jsurface, death, history>>
  /\ ThreadKeeps
HideInFloat == Hide(~isFulllScreen)
HideDisplay == Hide(TRUE)
FinishSetting(starting) ==
  /\ Alive /\ xdraw = "hidden"
  /\ isStarting' = starting
  /\ Goto("sleep")
  /\ UNCHANGED <<natives, jsurface, looper, death, history>>
  /\ ThreadKeeps
FinishUnsaid == FinishSetting(isStarting)
Finish == FinishSetting(FALSE)

Xdraw ==
  \/ OpenDisplay \/ ClientsAtInit \/ ClientsAtFrame \/ Forget
  \/ Announce \/ UpdateFloatDisplay \/ CallStartx \/ Run \/ Loop \/ Frame \/ HideDisplay \/ Finish
-----------------------------------------------------------------------------
(* The main thread: one call of a handler at a time.                          *)

Call(name) == Alive /\ ui # <<>> /\ Head(ui) = name /\ ui' = Tail(ui)
MainKeeps == UNCHANGED <<thread, tap, activity, world, events>>

\* jni.stopDraw().
StopDraw ==
  /\ Call("stopDraw")
  /\ isRunning' = FALSE /\ unheard' = (xdraw = "running")
  /\ UNCHANGED <<mdisplay, open, mode, looper, shown, dsp, death, lastLeft, late>>
  /\ MainKeeps

PostHide ==
  /\ Call("hideDisplay")
  /\ looper' = Append(looper, "hide")
  /\ UNCHANGED <<natives, mode, shown, dsp, death, history>>
  /\ MainKeeps

\* What onServiceConnected() and onUnbind() set, a field at a time.
Switch(name, full, on) ==
  /\ Call(name)
  /\ isFulllScreen' = full
  /\ surface' = on
  /\ UNCHANGED <<natives, looper, shown, dsp, death, history>>
  /\ MainKeeps
SetFullScreen == Switch("fullScreen", TRUE, surface)
SetWindowed == Switch("windowed", FALSE, surface)
SetSurface == Switch("fullSurface", isFulllScreen, "full")
ResetSurface == Switch("floatSurface", isFulllScreen, "float")

\* process_Xvfb.destroy().
DestroyXvfb ==
  /\ Call("destroyXvfb")
  /\ server' = NULL /\ clients' = FALSE
  /\ UNCHANGED <<natives, thread, mode, looper, shown, tap, dsp, activity, servers, events, death, history>>

\* A call of Xlib on mdisplay as it is now.
Use(name) ==
  /\ Call(name)
  /\ death' \in IF mdisplay = NULL THEN {name}
                ELSE IF ~open THEN {name, "no"}
                ELSE IF mdisplay # server THEN {"server gone"} ELSE {"no"}
  /\ UNCHANGED <<natives, mode, looper, shown, dsp, history>>
  /\ MainKeeps
UseInTap == Use("tap")
UseInScroll == Use("scroll")
UseInCursor == Use("cursor")

\* if (mdisplay == NULL) return -1.
ReturnIfNull ==
  /\ Alive /\ ui # <<>> /\ Head(ui) = "check"
  /\ ui' = IF mdisplay = NULL THEN <<>> ELSE Tail(ui)
  /\ UNCHANGED <<natives, mode, looper, shown, dsp, death, history>>
  /\ MainKeeps

\* presskey() and releasekey() are given mdisplay, and test and use what they got.
Load ==
  /\ Call("load")
  /\ dsp' = IF mdisplay = NULL THEN "null" ELSE IF open THEN "live" ELSE "freed"
  /\ UNCHANGED <<natives, mode, looper, shown, death, history>>
  /\ MainKeeps
UseInKey ==
  /\ Call("key")
  /\ death' \in IF dsp = "freed" THEN {"key", "no"}
                ELSE IF dsp = "live" /\ mdisplay # server THEN {"server gone"} ELSE {"no"}
  /\ UNCHANGED <<natives, mode, looper, shown, dsp, history>>
  /\ MainKeeps

\* The runnables of updateFloatDisplay() and hideDisplay().
RunPosted ==
  /\ Alive /\ ui = <<>> /\ looper # <<>>
  /\ looper' = Tail(looper)
  /\ shown' = (Head(looper) = "show")
  /\ UNCHANGED <<natives, mode, ui, dsp, death, history>>
  /\ MainKeeps

Main ==
  \/ StopDraw \/ PostHide \/ SetFullScreen \/ SetWindowed \/ SetSurface \/ ResetSurface
  \/ DestroyXvfb \/ UseInTap \/ UseInScroll \/ UseInCursor \/ ReturnIfNull \/ Load
  \/ UseInKey \/ RunPosted
-----------------------------------------------------------------------------
(* What the main thread is called for.  A handler is the calls it makes.      *)

Handle(calls) ==
  /\ Alive /\ ui = <<>>
  /\ ui' = calls
  /\ UNCHANGED <<natives, isFulllScreen, looper, shown, dsp, death, history>>
Handler(calls) == Handle(calls) /\ UNCHANGED surface
UserDoes(calls) ==
  /\ events < MaxEvents
  /\ events' = events + 1
  /\ Handler(calls)

\* The first action_startX starts the thread; it is alive for every other one.
StartX ==
  /\ xdraw = "off" /\ Goto("sleep")
  /\ Handler(<<>>)
  /\ UNCHANGED <<isStarting, jsurface, tap, activity, world, events>>

\* stopXvfb(), also for action_startX with an external server.
StopXvfb ==
  /\ server # NULL
  /\ UserDoes(<<"stopDraw", "destroyXvfb">>)
  /\ UNCHANGED <<thread, tap, activity, world>>

\* The close button of the floating view.
CloseFloat ==
  /\ shown
  /\ UserDoes(<<"stopDraw", "hideDisplay">>)
  /\ UNCHANGED <<thread, tap, activity, world>>

\* screenTouch: a tap is confirmed later, a scroll is handled now.
Touch(kind, accepted) ==
  /\ accepted /\ ~tap
  /\ IF kind = "tap" THEN UserDoes(<<>>) ELSE UserDoes(<<"check", "scroll", "scroll">>)
  /\ tap' = (kind = "tap")
  /\ UNCHANGED <<thread, activity, world>>
TouchAnyTime == \E kind \in {"tap", "scroll"} : Touch(kind, TRUE)
TouchScreen == \E kind \in {"tap", "scroll"} : Touch(kind, isStarting)
ConfirmTap ==
  /\ tap /\ tap' = FALSE
  /\ Handler(<<"tap", "tap">>)
  /\ UNCHANGED <<thread, activity, world, events>>

\* The buttons of the full screen: keys by their name, and the cursor, whose
\* native does not test mdisplay.
InputKey ==
  /\ activity \in {"starting", "connected"}
  /\ UserDoes(<<"check", "load", "key", "load", "key">>)
  /\ UNCHANGED <<thread, tap, activity, world>>
CursorControl ==
  /\ activity \in {"starting", "connected"}
  /\ UserDoes(<<"cursor", "cursor">>)
  /\ UNCHANGED <<thread, tap, activity, world>>

\* DisplayActivity: onCreate(), the connection to the service, onDestroy().
OpenActivity ==
  /\ activity = "none" /\ activity' = "starting"
  /\ UserDoes(<<>>)
  /\ UNCHANGED <<thread, tap, world>>
ServiceConnectedCalls(calls) ==
  /\ activity = "starting" /\ activity' = "connected"
  /\ Handler(calls)
  /\ UNCHANGED <<thread, tap, world, events>>
ServiceConnectedStopsFirst ==
  ServiceConnectedCalls(<<"hideDisplay", "fullScreen", "stopDraw", "fullSurface">>)
ServiceConnected ==
  ServiceConnectedCalls(<<"hideDisplay", "fullScreen", "fullSurface", "stopDraw">>)
\* With the activity its surface goes, whoever refers to it.
Gone(s) == IF s = "full" THEN "gone" ELSE s
DestroyActivity ==
  /\ activity \in {"starting", "connected"} /\ activity' = "unbinding"
  /\ surface' = Gone(surface) /\ jsurface' = Gone(jsurface)
  /\ events < MaxEvents /\ events' = events + 1
  /\ Handle(<<"stopDraw">>)
  /\ UNCHANGED <<xdraw, isStarting, tap, world>>
Unbind ==
  /\ activity = "unbinding" /\ activity' = "none"
  /\ Handler(<<"windowed", "floatSurface">>)
  /\ UNCHANGED <<thread, tap, world, events>>

Events ==
  \/ StartX \/ StopXvfb \/ CloseFloat \/ TouchScreen \/ ConfirmTap \/ InputKey
  \/ CursorControl \/ OpenActivity \/ ServiceConnected \/ DestroyActivity \/ Unbind
-----------------------------------------------------------------------------
(* Outside of the app: the server and its clients.                            *)

OutsideKeeps == UNCHANGED <<natives, thread, mode, looper, shown, main, dsp, events, death, history>>

ServerStarts ==
  /\ Alive /\ server = NULL /\ servers < MaxServers
  /\ servers' = servers + 1 /\ server' = servers'
  /\ UNCHANGED <<clients, activity>> /\ OutsideKeeps
ServerDies ==
  /\ Alive /\ server # NULL
  /\ server' = NULL /\ clients' = FALSE
  /\ UNCHANGED <<servers, activity>> /\ OutsideKeeps
ClientsComeOrLeave ==
  /\ Alive /\ server # NULL
  /\ clients' = ~clients
  /\ UNCHANGED <<server, servers, activity>> /\ OutsideKeeps

Outside == ServerStarts \/ ServerDies \/ ClientsComeOrLeave
-----------------------------------------------------------------------------
Init ==
  /\ mdisplay = NULL /\ open = FALSE /\ isRunning = TRUE
  /\ xdraw = "off" /\ isStarting = FALSE /\ jsurface = "float"
  /\ isFulllScreen = FALSE /\ surface = "float"
  /\ looper = <<>> /\ shown = FALSE /\ ui = <<>> /\ dsp = "null" /\ tap = FALSE
  /\ activity = "none"
  /\ server = NULL /\ servers = 0 /\ clients = FALSE
  /\ events = 0 /\ death = "no"
  /\ unheard = FALSE /\ lastLeft = FALSE /\ late = FALSE

Next == Xdraw \/ Main \/ Events \/ Outside

Spec == Init /\ [][Next]_vars

\* Both threads go on as long as the app lives; the system delivers what it has
\* promised to deliver.  Nobody has to touch anything, no server has to come.
FairSpec ==
  /\ Spec
  /\ WF_vars(Xdraw) /\ WF_vars(Main)
  /\ WF_vars(StartX) /\ WF_vars(ConfirmTap) /\ WF_vars(Unbind)
-----------------------------------------------------------------------------
(* Properties. *)

\* startx() and its frames never work without a connection: the loop leaves
\* mdisplay when checkClientOnline() has closed it, and nobody else closes it.
DrawsOnOpenConnection ==
  Drawing => mdisplay # NULL /\ open

\* The service's surface is the one drawn on, unless the stop that came with it
\* fell between startx()'s reading of the surface and isRunning = true, or unless
\* the drawing started between DisplayActivity's onDestroy() and onUnbind().
StaleSurfaceNeedsRace ==
  InLoop /\ isRunning /\ ui = <<>> /\ jsurface # surface => unheard \/ late

\* When nothing is drawn and every runnable has run, the floating view is hidden:
\* whatever was posted for it is followed by a "hide".
FloatIsHiddenAtRest ==
  xdraw = "sleep" /\ looper = <<>> => ~shown

\* A touch, accepted only while something is drawn, crashes in Xlib only if the
\* last client leaves while something is drawn or while the touch is on its way.
TouchCrashNeedsLastClient ==
  death \in {"tap", "scroll"} => lastLeft

\* A stop that reaches a drawing that runs ends it, if the app lives.
StopsEndDrawing ==
  (InLoop /\ ~isRunning) ~> (~InLoop \/ ~Alive)

\* Clients are drawn, or they leave, also after any number of stops.
ClientsAreDrawn ==
  clients ~> (Drawing \/ ~clients \/ ~Alive)

\* What xdraw.c:72 says of init()'s result -2: it is returned when no server is
\* there.  It does not hold: with a connection to a server that has gone, init()
\* does not return.
MissingServerIsReported ==
  xdraw = "init" => server # NULL
=============================================================================
