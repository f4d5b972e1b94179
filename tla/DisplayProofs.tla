---------------------------- MODULE DisplayProofs ----------------------------
(***************************************************************************)
(* The drawing thread against the main thread: for every number of X       *)
(* servers, events and posted runnables.  The invariant has four parts:    *)
(* where Xdraw may be with which connection, what has been posted for the  *)
(* floating view, what the main thread's handler will still do about the   *)
(* surface, and what is on its way to a touch.                             *)
(***************************************************************************)
EXTENDS Display, TLAPS

-----------------------------------------------------------------------------
(* What is left of a handler. *)

Calls == {"stopDraw", "hideDisplay", "destroyXvfb", "fullScreen", "fullSurface",
          "windowed", "floatSurface", "check", "tap", "scroll", "cursor", "load",
          "key"}

Has(calls, name) == \E i \in 1..Len(calls) : calls[i] = name

\* A new surface is followed by a stop; the old one comes back, and a handler may
\* return early, only where no stop is waiting.
Ordered(calls) ==
  /\ calls \in Seq(Calls)
  /\ \A i \in 1..Len(calls) :
       calls[i] = "fullSurface" => i < Len(calls) /\ calls[i + 1] = "stopDraw"
  /\ Has(calls, "floatSurface") \/ Has(calls, "check")
       => ~Has(calls, "stopDraw") /\ ~Has(calls, "fullSurface")

LEMMA EmptyHasNothing == \A name : ~Has(<<>>, name)
  BY DEF Has

LEMMA EmptyIsOrdered == Ordered(<<>>)
  BY DEF Ordered, Has

LEMMA TailHas ==
  ASSUME NEW calls \in Seq(Calls), calls # <<>>, NEW name
  PROVE  Has(calls, name) <=> Head(calls) = name \/ Has(Tail(calls), name)
<1>1. /\ Len(calls) \in Nat \ {0} /\ Len(Tail(calls)) = Len(calls) - 1
      /\ Head(calls) = calls[1]
      /\ \A i \in 1..(Len(calls) - 1) : Tail(calls)[i] = calls[i + 1]
  OBVIOUS
<1>2. ASSUME Has(calls, name)  PROVE Head(calls) = name \/ Has(Tail(calls), name)
  <2>1. PICK i \in 1..Len(calls) : calls[i] = name  BY <1>2 DEF Has
  <2>2. CASE i = 1  BY <1>1, <2>1, <2>2
  <2>3. CASE i # 1
    <3>1. i - 1 \in 1..(Len(calls) - 1) /\ (i - 1) + 1 = i  BY <1>1, <2>3
    <3>2. Tail(calls)[i - 1] = name  BY <1>1, <2>1, <3>1
    <3>3. i - 1 \in 1..Len(Tail(calls))  BY <1>1, <3>1
    <3> QED BY <3>2, <3>3 DEF Has
  <2> QED BY <2>2, <2>3
<1>3. ASSUME Head(calls) = name  PROVE Has(calls, name)
  <2>1. 1 \in 1..Len(calls) /\ calls[1] = name  BY <1>1, <1>3
  <2> QED BY <2>1 DEF Has
<1>4. ASSUME Has(Tail(calls), name)  PROVE Has(calls, name)
  <2>1. PICK i \in 1..Len(Tail(calls)) : Tail(calls)[i] = name  BY <1>4 DEF Has
  <2>2. i + 1 \in 1..Len(calls) /\ calls[i + 1] = name  BY <1>1, <2>1
  <2> QED BY <2>2 DEF Has
<1> QED BY <1>2, <1>3, <1>4

LEMMA TailIsOrdered ==
  ASSUME NEW calls, Ordered(calls), calls # <<>>
  PROVE  /\ Ordered(Tail(calls))
         /\ Head(calls) = "fullSurface" => Has(Tail(calls), "stopDraw")
<1>1. calls \in Seq(Calls)  BY DEF Ordered
<1>2. /\ Len(calls) \in Nat \ {0} /\ Len(Tail(calls)) = Len(calls) - 1
      /\ Head(calls) = calls[1] /\ Tail(calls) \in Seq(Calls)
      /\ \A i \in 1..(Len(calls) - 1) : Tail(calls)[i] = calls[i + 1]
  BY <1>1
<1>3. \A name : Has(Tail(calls), name) => Has(calls, name)  BY <1>1, TailHas
<1>4. ASSUME NEW i \in 1..Len(Tail(calls)), Tail(calls)[i] = "fullSurface"
      PROVE  i < Len(Tail(calls)) /\ Tail(calls)[i + 1] = "stopDraw"
  <2>1. i + 1 \in 1..Len(calls) /\ calls[i + 1] = "fullSurface"  BY <1>2, <1>4
  <2>2. i + 1 < Len(calls) /\ calls[(i + 1) + 1] = "stopDraw"
    BY <2>1 DEF Ordered
  <2>3. i + 1 \in 1..(Len(calls) - 1)  BY <1>2, <2>1, <2>2
  <2> QED BY <1>2, <2>2, <2>3
<1>5. Ordered(Tail(calls))  BY <1>2, <1>3, <1>4 DEF Ordered
<1>6. ASSUME Head(calls) = "fullSurface"  PROVE Has(Tail(calls), "stopDraw")
  <2>1. 1 \in 1..Len(calls) /\ calls[1] = "fullSurface"  BY <1>2, <1>6
  <2>2. 1 < Len(calls) /\ calls[1 + 1] = "stopDraw"  BY <2>1 DEF Ordered
  <2>3. 1 \in 1..Len(Tail(calls)) /\ Tail(calls)[1] = "stopDraw"
    BY <1>2, <2>2
  <2> QED BY <2>3 DEF Has
<1> QED BY <1>5, <1>6

LEMMA CallsAre1 ==
  ASSUME NEW a \in Calls
  PROVE  /\ <<a>> \in Seq(Calls) /\ Len(<<a>>) = 1
         /\ <<a>>[1] = a
         /\ \A name : Has(<<a>>, name) <=> name \in {a}
<1> DEFINE calls == <<a>>
<1>1. calls \in Seq(Calls) /\ Len(calls) = 1
      /\ calls[1] = a
  OBVIOUS
<1> HIDE DEF calls
<1>2. 1..Len(calls) = {1}  BY <1>1
<1>3. \A name : Has(calls, name) <=> name \in {a}
  BY <1>1, <1>2 DEF Has
<1> QED BY <1>1, <1>3 DEF calls

LEMMA CallsAre2 ==
  ASSUME NEW a \in Calls, NEW b \in Calls
  PROVE  /\ <<a, b>> \in Seq(Calls) /\ Len(<<a, b>>) = 2
         /\ <<a, b>>[1] = a
         /\ <<a, b>>[2] = b
         /\ \A name : Has(<<a, b>>, name) <=> name \in {a, b}
<1> DEFINE calls == <<a, b>>
<1>1. calls \in Seq(Calls) /\ Len(calls) = 2
      /\ calls[1] = a /\ calls[2] = b
  OBVIOUS
<1> HIDE DEF calls
<1>2. 1..Len(calls) = {1, 2}  BY <1>1
<1>3. \A name : Has(calls, name) <=> name \in {a, b}
  BY <1>1, <1>2 DEF Has
<1> QED BY <1>1, <1>3 DEF calls

LEMMA CallsAre3 ==
  ASSUME NEW a \in Calls, NEW b \in Calls, NEW c \in Calls
  PROVE  /\ <<a, b, c>> \in Seq(Calls) /\ Len(<<a, b, c>>) = 3
         /\ <<a, b, c>>[1] = a
         /\ <<a, b, c>>[2] = b
         /\ <<a, b, c>>[3] = c
         /\ \A name : Has(<<a, b, c>>, name) <=> name \in {a, b, c}
<1> DEFINE calls == <<a, b, c>>
<1>1. calls \in Seq(Calls) /\ Len(calls) = 3
      /\ calls[1] = a /\ calls[2] = b /\ calls[3] = c
  OBVIOUS
<1> HIDE DEF calls
<1>2. 1..Len(calls) = {1, 2, 3}  BY <1>1
<1>3. \A name : Has(calls, name) <=> name \in {a, b, c}
  BY <1>1, <1>2 DEF Has
<1> QED BY <1>1, <1>3 DEF calls

LEMMA CallsAre4 ==
  ASSUME NEW a \in Calls, NEW b \in Calls, NEW c \in Calls, NEW d \in Calls
  PROVE  /\ <<a, b, c, d>> \in Seq(Calls) /\ Len(<<a, b, c, d>>) = 4
         /\ <<a, b, c, d>>[1] = a
         /\ <<a, b, c, d>>[2] = b
         /\ <<a, b, c, d>>[3] = c
         /\ <<a, b, c, d>>[4] = d
         /\ \A name : Has(<<a, b, c, d>>, name) <=> name \in {a, b, c, d}
<1> DEFINE calls == <<a, b, c, d>>
<1>1. calls \in Seq(Calls) /\ Len(calls) = 4
      /\ calls[1] = a /\ calls[2] = b /\ calls[3] = c /\ calls[4] = d
  OBVIOUS
<1> HIDE DEF calls
<1>2. 1..Len(calls) = {1, 2, 3, 4}  BY <1>1
<1>3. \A name : Has(calls, name) <=> name \in {a, b, c, d}
  BY <1>1, <1>2 DEF Has
<1> QED BY <1>1, <1>3 DEF calls

LEMMA CallsAre5 ==
  ASSUME NEW a \in Calls, NEW b \in Calls, NEW c \in Calls, NEW d \in Calls, NEW e \in Calls
  PROVE  /\ <<a, b, c, d, e>> \in Seq(Calls) /\ Len(<<a, b, c, d, e>>) = 5
         /\ <<a, b, c, d, e>>[1] = a
         /\ <<a, b, c, d, e>>[2] = b
         /\ <<a, b, c, d, e>>[3] = c
         /\ <<a, b, c, d, e>>[4] = d
         /\ <<a, b, c, d, e>>[5] = e
         /\ \A name : Has(<<a, b, c, d, e>>, name) <=> name \in {a, b, c, d, e}
<1> DEFINE calls == <<a, b, c, d, e>>
<1>1. calls \in Seq(Calls) /\ Len(calls) = 5
      /\ calls[1] = a /\ calls[2] = b /\ calls[3] = c /\ calls[4] = d /\ calls[5] = e
  OBVIOUS
<1> HIDE DEF calls
<1>2. 1..Len(calls) = {1, 2, 3, 4, 5}  BY <1>1
<1>3. \A name : Has(calls, name) <=> name \in {a, b, c, d, e}
  BY <1>1, <1>2 DEF Has
<1> QED BY <1>1, <1>3 DEF calls

LEMMA CallsAreNotFull ==
  ASSUME NEW calls \in Seq(Calls), ~Has(calls, "fullSurface"),
         ~(Has(calls, "floatSurface") \/ Has(calls, "check"))
           \/ ~Has(calls, "stopDraw")
  PROVE  Ordered(calls)
  BY DEF Ordered, Has

\* The handlers.
LEMMA HandlersAreOrdered ==
  /\ Ordered(<<"stopDraw">>)
  /\ Ordered(<<"stopDraw", "destroyXvfb">>)
  /\ Ordered(<<"stopDraw", "hideDisplay">>)
  /\ Ordered(<<"tap", "tap">>)
  /\ Ordered(<<"cursor", "cursor">>)
  /\ Ordered(<<"windowed", "floatSurface">>)
  /\ Ordered(<<"check", "scroll", "scroll">>)
  /\ Ordered(<<"hideDisplay", "fullScreen", "fullSurface", "stopDraw">>)
  /\ Ordered(<<"check", "load", "key", "load", "key">>)
<1>1. Ordered(<<"stopDraw">>)
  <2> DEFINE calls == <<"stopDraw">>
  <2>0. /\ "stopDraw" \in Calls
    BY DEF Calls
  <2>1. calls \in Seq(Calls)
        /\ \A name : Has(calls, name) <=> name \in {"stopDraw"}
    BY <2>0, CallsAre1
  <2> HIDE DEF calls
  <2>2. Ordered(calls)  BY <2>1, CallsAreNotFull
  <2> QED BY <2>2 DEF calls
<1>2. Ordered(<<"stopDraw", "destroyXvfb">>)
  <2> DEFINE calls == <<"stopDraw", "destroyXvfb">>
  <2>0. /\ "stopDraw" \in Calls
        /\ "destroyXvfb" \in Calls
    BY DEF Calls
  <2>1. calls \in Seq(Calls)
        /\ \A name : Has(calls, name) <=> name \in {"stopDraw", "destroyXvfb"}
    BY <2>0, CallsAre2
  <2> HIDE DEF calls
  <2>2. Ordered(calls)  BY <2>1, CallsAreNotFull
  <2> QED BY <2>2 DEF calls
<1>3. Ordered(<<"stopDraw", "hideDisplay">>)
  <2> DEFINE calls == <<"stopDraw", "hideDisplay">>
  <2>0. /\ "stopDraw" \in Calls
        /\ "hideDisplay" \in Calls
    BY DEF Calls
  <2>1. calls \in Seq(Calls)
        /\ \A name : Has(calls, name) <=> name \in {"stopDraw", "hideDisplay"}
    BY <2>0, CallsAre2
  <2> HIDE DEF calls
  <2>2. Ordered(calls)  BY <2>1, CallsAreNotFull
  <2> QED BY <2>2 DEF calls
<1>4. Ordered(<<"tap", "tap">>)
  <2> DEFINE calls == <<"tap", "tap">>
  <2>0. /\ "tap" \in Calls
    BY DEF Calls
  <2>1. calls \in Seq(Calls)
        /\ \A name : Has(calls, name) <=> name \in {"tap", "tap"}
    BY <2>0, CallsAre2
  <2> HIDE DEF calls
  <2>2. Ordered(calls)  BY <2>1, CallsAreNotFull
  <2> QED BY <2>2 DEF calls
<1>5. Ordered(<<"cursor", "cursor">>)
  <2> DEFINE calls == <<"cursor", "cursor">>
  <2>0. /\ "cursor" \in Calls
    BY DEF Calls
  <2>1. calls \in Seq(Calls)
        /\ \A name : Has(calls, name) <=> name \in {"cursor", "cursor"}
    BY <2>0, CallsAre2
  <2> HIDE DEF calls
  <2>2. Ordered(calls)  BY <2>1, CallsAreNotFull
  <2> QED BY <2>2 DEF calls
<1>6. Ordered(<<"windowed", "floatSurface">>)
  <2> DEFINE calls == <<"windowed", "floatSurface">>
  <2>0. /\ "windowed" \in Calls
        /\ "floatSurface" \in Calls
    BY DEF Calls
  <2>1. calls \in Seq(Calls)
        /\ \A name : Has(calls, name) <=> name \in {"windowed", "floatSurface"}
    BY <2>0, CallsAre2
  <2> HIDE DEF calls
  <2>2. Ordered(calls)  BY <2>1, CallsAreNotFull
  <2> QED BY <2>2 DEF calls
<1>7. Ordered(<<"check", "scroll", "scroll">>)
  <2> DEFINE calls == <<"check", "scroll", "scroll">>
  <2>0. /\ "check" \in Calls
        /\ "scroll" \in Calls
    BY DEF Calls
  <2>1. calls \in Seq(Calls)
        /\ \A name : Has(calls, name) <=> name \in {"check", "scroll", "scroll"}
    BY <2>0, CallsAre3
  <2> HIDE DEF calls
  <2>2. Ordered(calls)  BY <2>1, CallsAreNotFull
  <2> QED BY <2>2 DEF calls
<1>8. Ordered(<<"hideDisplay", "fullScreen", "fullSurface", "stopDraw">>)
  <2> DEFINE calls == <<"hideDisplay", "fullScreen", "fullSurface", "stopDraw">>
  <2>0. /\ "hideDisplay" \in Calls
        /\ "fullScreen" \in Calls
        /\ "fullSurface" \in Calls
        /\ "stopDraw" \in Calls
    BY DEF Calls
  <2>1. /\ calls \in Seq(Calls) /\ Len(calls) = 4
        /\ calls[1] = "hideDisplay" /\ calls[2] = "fullScreen"
        /\ calls[3] = "fullSurface" /\ calls[4] = "stopDraw"
        /\ ~Has(calls, "floatSurface") /\ ~Has(calls, "check")
    BY <2>0, CallsAre4
  <2> HIDE DEF calls
  <2>2. Ordered(calls)  BY <2>1 DEF Ordered
  <2> QED BY <2>2 DEF calls
<1>9. Ordered(<<"check", "load", "key", "load", "key">>)
  <2> DEFINE calls == <<"check", "load", "key", "load", "key">>
  <2>0. /\ "check" \in Calls
        /\ "load" \in Calls
        /\ "key" \in Calls
    BY DEF Calls
  <2>1. calls \in Seq(Calls)
        /\ \A name : Has(calls, name) <=> name \in {"check", "load", "key", "load", "key"}
    BY <2>0, CallsAre5
  <2> HIDE DEF calls
  <2>2. Ordered(calls)  BY <2>1, CallsAreNotFull
  <2> QED BY <2>2 DEF calls
<1> QED BY <1>1, <1>2, <1>3, <1>4, <1>5, <1>6, <1>7, <1>8, <1>9

-----------------------------------------------------------------------------
(* The parts of the invariant. *)

Places == {"off", "sleep", "init", "ready", "show", "start", "running", "loop",
           "query", "grab", "forget", "forgetEnd", "end", "hidden"}

TypeOK == xdraw \in Places /\ looper \in Seq({"show", "hide"})

\* The connection: from init()'s XQueryTree() to the end of the loop it is there,
\* and it is forgotten only when it is closed.
Connected == {"init", "ready", "show", "start", "running", "loop", "query", "grab"}
ConnectionPart ==
  /\ xdraw \in Connected => mdisplay # NULL /\ open
  /\ xdraw \in {"forget", "forgetEnd"} => ~open

\* The floating view: it is shown, or about to be, only while Xdraw has still a
\* "hide" to post.
Showing == IF looper = <<>> THEN shown ELSE looper[Len(looper)] = "show"
FloatPart ==
  Showing => xdraw \in {"start", "running", "loop", "query", "grab", "forgetEnd", "end"}

\* The surface: a drawing that goes on on another surface than the service's will
\* be stopped, or has missed its stop.
GoesOn == (InLoop /\ isRunning) \/ xdraw = "running"
Excused == unheard \/ late \/ Has(ui, "stopDraw")
FloatReturns == activity = "unbinding" \/ Has(ui, "floatSurface")
SurfacePart ==
  /\ Ordered(ui) /\ surface \in {"float", "full", "gone"}
  /\ Has(ui, "fullSurface") => activity = "connected"
  /\ FloatReturns => surface \in {"float", "gone"}
  /\ GoesOn /\ jsurface # surface => Excused
  /\ GoesOn /\ FloatReturns /\ jsurface # "float" => Excused

\* Touches: as long as the last client has not left at a bad time, a touch finds
\* the connection that was there when it was accepted.
Touching == tap \/ Has(ui, "tap") \/ Has(ui, "scroll")
TouchPart ==
  /\ isStarting => xdraw \in {"show", "start", "running", "loop", "query", "grab",
                              "forgetEnd", "end", "hidden"}
  /\ xdraw = "forgetEnd" => lastLeft
  /\ ~lastLeft /\ (xdraw \in {"end", "hidden"} \/ Touching)
       => mdisplay # NULL /\ open
  /\ death \in {"tap", "scroll"} => lastLeft

DisplayInvariant ==
  TypeOK /\ ConnectionPart /\ FloatPart /\ SurfacePart /\ TouchPart

-----------------------------------------------------------------------------
(* What the steps leave alone. *)

LEMMA XdrawKeeps ==
  ASSUME Xdraw
  PROVE  surface' = surface /\ shown' = shown /\ ui' = ui /\ tap' = tap
         /\ activity' = activity /\ unheard' = unheard
<1>1. CASE OpenDisplay
  BY <1>1, Zenon DEF OpenDisplay, ThreadKeeps, OthersKeep, mode, main, world, history
<1>2. CASE ClientsAtInit \/ ClientsAtFrame
  BY <1>2, Zenon DEF ClientsAtInit, ClientsAtFrame, QueryTree, OthersKeep, mode, main, world
<1>3. CASE Forget
  BY <1>3, Zenon DEF Forget, ForgetThen, ThreadKeeps, OthersKeep, mode, main, world, history
<1>4. CASE Announce \/ UpdateFloatDisplay
  BY <1>4, Zenon DEF Announce, UpdateFloatDisplay, ThreadKeeps, OthersKeep, mode, main, world, history
<1>5. CASE CallStartx \/ Run
  BY <1>5, Zenon DEF CallStartx, Run, ThreadKeeps, OthersKeep, mode, main, world, history
<1>6. CASE Loop \/ Frame
  BY <1>6, Zenon DEF Loop, LoopWhile, Frame, ThreadKeeps, OthersKeep, mode, main, world, history
<1>7. CASE HideDisplay \/ Finish
  BY <1>7, Zenon DEF HideDisplay, Hide, Finish, FinishSetting, ThreadKeeps, OthersKeep, mode, main, world, history
<1> QED BY <1>1, <1>2, <1>3, <1>4, <1>5, <1>6, <1>7, Zenon DEF Xdraw

LEMMA OthersLeaveConnection ==
  ASSUME Main \/ Events \/ Outside
  PROVE  /\ mdisplay' = mdisplay /\ open' = open /\ isStarting' = isStarting
         /\ xdraw' = xdraw \/ (xdraw = "off" /\ xdraw' = "sleep")
         /\ lastLeft' = lastLeft /\ late' = late
<1>1. CASE StopDraw \/ PostHide \/ RunPosted \/ ReturnIfNull
  BY <1>1, Zenon DEF StopDraw, PostHide, RunPosted, ReturnIfNull, MainKeeps, natives, thread, history
<1>2. CASE SetFullScreen \/ SetWindowed \/ SetSurface \/ ResetSurface
  BY <1>2, Zenon DEF SetFullScreen, SetWindowed, SetSurface, ResetSurface, Switch, MainKeeps, natives, thread, history
<1>3. CASE DestroyXvfb \/ Load \/ UseInKey
  BY <1>3, Zenon DEF DestroyXvfb, Load, UseInKey, MainKeeps, natives, thread, history
<1>4. CASE UseInTap \/ UseInScroll \/ UseInCursor
  BY <1>4, Zenon DEF UseInTap, UseInScroll, UseInCursor, Use, MainKeeps, natives, thread, history
<1>5. CASE StartX
  BY <1>5, Zenon DEF StartX, Goto, Handler, Handle, natives, history
<1>6. CASE StopXvfb \/ CloseFloat
  BY <1>6, Zenon DEF StopXvfb, CloseFloat, UserDoes, Handler, Handle, natives, history, thread
<1>7. CASE TouchScreen
  BY <1>7, Zenon DEF TouchScreen, Touch, UserDoes, Handler, Handle, natives, history, thread
<1>8. CASE ConfirmTap \/ InputKey \/ CursorControl
  BY <1>8, Zenon DEF ConfirmTap, InputKey, CursorControl, UserDoes, Handler, Handle, natives, history, thread
<1>9. CASE OpenActivity \/ ServiceConnected \/ Unbind
  BY <1>9, Zenon DEF OpenActivity, ServiceConnected, ServiceConnectedCalls, Unbind, UserDoes, Handler, Handle, natives, history, thread
<1>10. CASE DestroyActivity
  BY <1>10, Zenon DEF DestroyActivity, Handle, natives, history
<1>11. CASE Outside
  BY <1>11, Zenon DEF Outside, ServerStarts, ServerDies, ClientsComeOrLeave, OutsideKeeps, natives, thread, history
<1> QED BY <1>1, <1>2, <1>3, <1>4, <1>5, <1>6, <1>7, <1>8, <1>9, <1>10, <1>11, Zenon
        DEF Main, Events

\* The connection and Xdraw's places.
LEMMA ConnectionStep ==
  ASSUME DisplayInvariant, Next
  PROVE  ConnectionPart' /\ (xdraw \in Places)'
<1> USE DEF Connected, Places
<1>0. xdraw \in Places /\ ConnectionPart
  BY DEF DisplayInvariant, TypeOK
<1>1. CASE Main \/ Events \/ Outside
  BY <1>0, <1>1, OthersLeaveConnection DEF ConnectionPart
<1>2. CASE OpenDisplay
  <2>1. /\ open' = (mdisplay' # NULL)
        /\ xdraw' = IF mdisplay' = NULL THEN "sleep" ELSE "init"
    BY <1>2, Zenon DEF OpenDisplay, Goto
  <2> QED BY <2>1 DEF ConnectionPart
<1>3. ASSUME NEW place \in {"init", "query"}, NEW next \in {"ready", "grab"},
             QueryTree(place, next)
      PROVE  ConnectionPart' /\ xdraw' \in Places
  <2>1. /\ xdraw = place /\ mdisplay' = mdisplay
        /\ xdraw' = IF open' THEN next ELSE IF InLoop THEN "forgetEnd" ELSE "forget"
    BY <1>3, Zenon DEF QueryTree, Goto
  <2>2. mdisplay # NULL  BY <1>0, <2>1 DEF ConnectionPart
  <2>3. CASE open'  BY <2>1, <2>2, <2>3 DEF ConnectionPart
  <2>4. CASE ~open'  BY <2>1, <2>4 DEF ConnectionPart
  <2> QED BY <2>3, <2>4
<1>4. CASE Forget
  <2>1. open' = open /\ xdraw' = IF xdraw = "forget" THEN "sleep" ELSE "end"
    BY <1>4, Zenon DEF Forget, ForgetThen, Goto
  <2> QED BY <2>1 DEF ConnectionPart
<1>5. CASE Announce \/ UpdateFloatDisplay \/ CallStartx \/ Run \/ Loop \/ Frame
  <2>1. mdisplay' = mdisplay /\ open' = open /\ xdraw \in Connected
    BY <1>5, Zenon DEF Announce, UpdateFloatDisplay, CallStartx, Run, Loop, LoopWhile,
                       Frame, natives, Connected
  <2>2. \/ xdraw' = IF isStarting THEN "sleep" ELSE IF isFulllScreen THEN "start" ELSE "show"
        \/ xdraw' \in {"start", "running", "loop", "query", "end"}
    BY <1>5 DEF Announce, UpdateFloatDisplay, CallStartx, Run, Loop, LoopWhile,
                Frame, Goto
  <2> QED BY <1>0, <2>1, <2>2 DEF ConnectionPart
<1>6. CASE HideDisplay \/ Finish
  <2>1. xdraw' \in {"hidden", "sleep"}
    BY <1>6 DEF HideDisplay, Hide, Finish, FinishSetting, Goto
  <2> QED BY <2>1 DEF ConnectionPart
<1>7. CASE ClientsAtInit \/ ClientsAtFrame
  BY <1>7, <1>3 DEF ClientsAtInit, ClientsAtFrame
<1> QED BY <1>1, <1>2, <1>4, <1>5, <1>6, <1>7, Zenon DEF Next, Xdraw

LEMMA AppendShows ==
  ASSUME NEW S, NEW calls \in Seq(S), NEW e \in S
  PROVE  /\ Append(calls, e) \in Seq(S) /\ Append(calls, e) # <<>>
         /\ Append(calls, e)[Len(Append(calls, e))] = e
  OBVIOUS

LEMMA TailShows ==
  ASSUME NEW S, NEW calls \in Seq(S), calls # <<>>
  PROVE  /\ Tail(calls) \in Seq(S)
         /\ Tail(calls) = <<>> => Head(calls) = calls[Len(calls)]
         /\ Tail(calls) # <<>> => Tail(calls)[Len(Tail(calls))] = calls[Len(calls)]
<1>1. Len(calls) \in Nat \ {0} /\ Len(Tail(calls)) = Len(calls) - 1
      /\ Head(calls) = calls[1] /\ Tail(calls) \in Seq(S)
      /\ \A i \in 1..(Len(calls) - 1) : Tail(calls)[i] = calls[i + 1]
  OBVIOUS
<1>2. ASSUME Tail(calls) = <<>>  PROVE Head(calls) = calls[Len(calls)]
  <2>1. Len(calls) = 1  BY <1>1, <1>2
  <2> QED BY <1>1, <2>1
<1>3. ASSUME Tail(calls) # <<>>
      PROVE  Tail(calls)[Len(Tail(calls))] = calls[Len(calls)]
  <2>1. Len(Tail(calls)) # 0  BY <1>1, <1>3
  <2>2. Len(calls) - 1 \in 1..(Len(calls) - 1) /\ (Len(calls) - 1) + 1 = Len(calls)
    BY <1>1, <2>1
  <2> QED BY <1>1, <2>2
<1> QED BY <1>1, <1>2, <1>3

LEMMA OthersKeepFloat ==
  ASSUME Main \/ Events \/ Outside, ~PostHide, ~RunPosted
  PROVE  looper' = looper /\ shown' = shown
<1>1. CASE StopDraw \/ ReturnIfNull
  BY <1>1, Zenon DEF StopDraw, ReturnIfNull
<1>2. CASE SetFullScreen \/ SetWindowed \/ SetSurface \/ ResetSurface
  BY <1>2, Zenon DEF SetFullScreen, SetWindowed, SetSurface, ResetSurface, Switch
<1>3. CASE DestroyXvfb \/ Load \/ UseInKey
  BY <1>3, Zenon DEF DestroyXvfb, Load, UseInKey
<1>4. CASE UseInTap \/ UseInScroll \/ UseInCursor
  BY <1>4, Zenon DEF UseInTap, UseInScroll, UseInCursor, Use
<1>5. CASE StartX \/ StopXvfb \/ CloseFloat \/ TouchScreen
  BY <1>5, Zenon DEF StartX, StopXvfb, CloseFloat, TouchScreen, Touch, UserDoes, Handler, Handle
<1>6. CASE ConfirmTap \/ InputKey \/ CursorControl \/ OpenActivity
  BY <1>6, Zenon DEF ConfirmTap, InputKey, CursorControl, OpenActivity, UserDoes, Handler, Handle
<1>7. CASE ServiceConnected \/ Unbind \/ DestroyActivity
  BY <1>7, Zenon DEF ServiceConnected, ServiceConnectedCalls, Unbind, DestroyActivity, Handler, Handle
<1>8. CASE Outside
  BY <1>8, Zenon DEF Outside, ServerStarts, ServerDies, ClientsComeOrLeave, OutsideKeeps
<1> QED BY <1>1, <1>2, <1>3, <1>4, <1>5, <1>6, <1>7, <1>8, Zenon DEF Main, Events

\* The floating view and what is posted for it.
LEMMA FloatStep ==
  ASSUME DisplayInvariant, Next
  PROVE  FloatPart' /\ (looper \in Seq({"show", "hide"}))'
<1> DEFINE showing == {"start", "running", "loop", "query", "grab", "forgetEnd", "end"}
<1>0. looper \in Seq({"show", "hide"}) /\ FloatPart
  BY DEF DisplayInvariant, TypeOK
<1>1. ASSUME looper' = Append(looper, "hide")
      PROVE  FloatPart' /\ looper' \in Seq({"show", "hide"})
  <2>1. /\ looper' \in Seq({"show", "hide"}) /\ looper' # <<>>
        /\ looper'[Len(looper')] = "hide"
    BY <1>0, <1>1, AppendShows
  <2> QED BY <2>1 DEF FloatPart, Showing
<1>2. ASSUME looper' = looper, shown' = shown, xdraw \in showing => xdraw' \in showing
      PROVE  FloatPart' /\ looper' \in Seq({"show", "hide"})
  <2>1. Showing' = Showing  BY <1>2 DEF Showing
  <2> QED BY <1>0, <1>2, <2>1 DEF FloatPart
<1>3. CASE Main \/ Events \/ Outside
  <2>1. xdraw' = xdraw \/ xdraw = "off"  BY <1>3, OthersLeaveConnection
  <2>2. CASE PostHide  BY <2>2, <1>1, Zenon DEF PostHide
  <2>3. CASE RunPosted
    <3>1. looper # <<>> /\ looper' = Tail(looper) /\ shown' = (Head(looper) = "show")
      BY <2>3, Zenon DEF RunPosted
    <3>2. looper' \in Seq({"show", "hide"})  BY <1>0, <3>1, TailShows
    <3>3. CASE looper' = <<>>
      <4>1. Head(looper) = looper[Len(looper)]  BY <1>0, <3>1, <3>3, TailShows
      <4>2. Showing' = (looper[Len(looper)] = "show")
        BY <3>1, <3>3, <4>1, Zenon DEF Showing
      <4>3. Showing = (looper[Len(looper)] = "show")  BY <3>1, Zenon DEF Showing
      <4> QED BY <1>0, <2>1, <3>2, <4>2, <4>3 DEF FloatPart
    <3>4. CASE looper' # <<>>
      <4>1. looper'[Len(looper')] = looper[Len(looper)]
        BY <1>0, <3>1, <3>4, TailShows
      <4>2. Showing' = (looper[Len(looper)] = "show")
        BY <3>4, <4>1, Zenon DEF Showing
      <4>3. Showing = (looper[Len(looper)] = "show")  BY <3>1, Zenon DEF Showing
      <4> QED BY <1>0, <2>1, <3>2, <4>2, <4>3 DEF FloatPart
    <3> QED BY <3>3, <3>4
  <2>4. CASE ~PostHide /\ ~RunPosted
    <3>1. looper' = looper /\ shown' = shown  BY <1>3, <2>4, OthersKeepFloat
    <3> QED BY <2>1, <3>1, <1>2
  <2> QED BY <2>2, <2>3, <2>4
<1>4. CASE Xdraw
  <2>1. shown' = shown  BY <1>4, XdrawKeeps
  <2>2. CASE UpdateFloatDisplay
    <3>1. looper' = Append(looper, "show") /\ xdraw' = "start"
      BY <2>2, Zenon DEF UpdateFloatDisplay, Goto
    <3>2. looper' \in Seq({"show", "hide"})  BY <1>0, <3>1, AppendShows
    <3> QED BY <3>1, <3>2 DEF FloatPart
  <2>3. CASE HideDisplay  BY <2>3, <1>1, Zenon DEF HideDisplay, Hide
  <2>4. CASE OpenDisplay \/ Announce \/ Finish
    <3>1. looper' = looper /\ xdraw \notin showing
      BY <2>4 DEF OpenDisplay, Announce, Finish, FinishSetting
    <3> QED BY <2>1, <3>1, <1>2
  <2>5. CASE CallStartx \/ Run \/ Loop \/ Frame
    <3>1. looper' = looper /\ xdraw' \in showing
      BY <2>5 DEF CallStartx, Run, Loop, LoopWhile, Frame, Goto
    <3> QED BY <2>1, <3>1, <1>2
  <2>6. CASE Forget
    <3>1. looper' = looper /\ xdraw \in {"forget", "forgetEnd"}
          /\ xdraw' = IF xdraw = "forget" THEN "sleep" ELSE "end"
      BY <2>6, Zenon DEF Forget, ForgetThen, Goto
    <3> QED BY <2>1, <3>1, <1>2
  <2>7. CASE ClientsAtInit
    <3>1. looper' = looper /\ xdraw = "init"
      BY <2>7, Zenon DEF ClientsAtInit, QueryTree
    <3> QED BY <2>1, <3>1, <1>2
  <2>8. CASE ClientsAtFrame
    <3>1. looper' = looper /\ xdraw = "query"
          /\ xdraw' = IF open' THEN "grab" ELSE IF InLoop THEN "forgetEnd" ELSE "forget"
      BY <2>8, Zenon DEF ClientsAtFrame, QueryTree, Goto
    <3>2. xdraw' \in showing  BY <3>1 DEF InLoop
    <3> QED BY <2>1, <3>1, <3>2, <1>2
  <2> QED BY <1>4, <2>2, <2>3, <2>4, <2>5, <2>6, <2>7, <2>8, Zenon DEF Xdraw
<1> QED BY <1>3, <1>4, Zenon DEF Next

-----------------------------------------------------------------------------
(* The surface. *)

\* What of a step of another thread than Xdraw matters here.
LEMMA SurfaceKept ==
  ASSUME SurfacePart, xdraw' = xdraw \/ (xdraw = "off" /\ xdraw' = "sleep"),
         surface' = surface, jsurface' = jsurface, isRunning' = isRunning,
         unheard' = unheard, late' = late, Ordered(ui'),
         Has(ui', "fullSurface") => activity' = "connected",
         FloatReturns' => FloatReturns,
         Has(ui, "stopDraw") => Has(ui', "stopDraw")
  PROVE  SurfacePart'
<1>1. GoesOn' => GoesOn  BY DEF GoesOn, InLoop
<1>2. Excused => Excused'  BY DEF Excused
<1> QED BY <1>1, <1>2 DEF SurfacePart

\* The next call of a handler.
LEMMA SurfaceCalls ==
  ASSUME SurfacePart, xdraw' = xdraw, ui # <<>>, ui' = Tail(ui),
         Head(ui) \notin {"stopDraw", "fullSurface", "floatSurface"},
         surface' = surface, jsurface' = jsurface, isRunning' = isRunning,
         unheard' = unheard, late' = late, activity' = activity
  PROVE  SurfacePart'
<1>1. Ordered(ui) /\ ui \in Seq(Calls)  BY DEF SurfacePart, Ordered
<1>2. Ordered(ui')  BY <1>1, TailIsOrdered
<1>3. \A name : Has(ui, name) <=> Head(ui) = name \/ Has(ui', name)
  BY <1>1, TailHas
<1>4. /\ Has(ui', "fullSurface") => activity' = "connected"
      /\ FloatReturns' => FloatReturns
      /\ Has(ui, "stopDraw") => Has(ui', "stopDraw")
  BY <1>3 DEF SurfacePart, FloatReturns
<1> QED BY <1>2, <1>4, SurfaceKept

\* A handler that brings no surface back.
LEMMA SurfaceHandler ==
  ASSUME SurfacePart, xdraw' = xdraw \/ (xdraw = "off" /\ xdraw' = "sleep"),
         ui = <<>>, Ordered(ui'), ~Has(ui', "floatSurface"),
         Has(ui', "fullSurface") => activity' = "connected",
         activity' = "unbinding" => activity = "unbinding",
         surface' = surface, jsurface' = jsurface, isRunning' = isRunning,
         unheard' = unheard, late' = late
  PROVE  SurfacePart'
<1>1. ~Has(ui, "stopDraw")  BY EmptyHasNothing
<1>2. FloatReturns' => FloatReturns  BY DEF FloatReturns
<1> QED BY <1>1, <1>2, SurfaceKept

LEMMA SurfaceMainStep ==
  ASSUME SurfacePart, Main
  PROVE  SurfacePart'
<1>0. Ordered(ui) /\ ui \in Seq(Calls)  BY DEF SurfacePart, Ordered
<1>1. xdraw' = xdraw /\ jsurface' = jsurface /\ late' = late /\ activity' = activity
  <2>1. CASE StopDraw \/ PostHide \/ RunPosted \/ ReturnIfNull \/ DestroyXvfb
    BY <2>1, Zenon DEF StopDraw, PostHide, RunPosted, ReturnIfNull, DestroyXvfb, MainKeeps, thread, history
  <2>2. CASE SetFullScreen \/ SetWindowed \/ SetSurface \/ ResetSurface
    BY <2>2, Zenon DEF SetFullScreen, SetWindowed, SetSurface, ResetSurface, Switch, MainKeeps, thread, history
  <2>3. CASE Load \/ UseInKey \/ UseInTap \/ UseInScroll \/ UseInCursor
    BY <2>3, Zenon DEF Load, UseInKey, UseInTap, UseInScroll, UseInCursor, Use, MainKeeps, thread, history
  <2> QED BY <2>1, <2>2, <2>3, Zenon DEF Main
<1>2. CASE StopDraw
  <2>1. /\ ui # <<>> /\ Head(ui) = "stopDraw" /\ ui' = Tail(ui)
        /\ ~isRunning' /\ unheard' = (xdraw = "running") /\ surface' = surface
    BY <1>2, Zenon DEF StopDraw, Call, mode
  <2>2. Ordered(ui')  BY <1>0, <2>1, TailIsOrdered
  <2>3. \A name : Has(ui, name) <=> Head(ui) = name \/ Has(ui', name)
    BY <1>0, <2>1, TailHas
  <2>4. GoesOn' => Excused'  BY <1>1, <2>1 DEF GoesOn, InLoop, Excused
  <2>5. FloatReturns' => FloatReturns  BY <1>1, <2>3 DEF FloatReturns
  <2> QED BY <1>1, <2>1, <2>2, <2>3, <2>4, <2>5 DEF SurfacePart
<1>3. CASE SetSurface
  <2>1. /\ ui # <<>> /\ Head(ui) = "fullSurface" /\ ui' = Tail(ui)
        /\ surface' = "full"
    BY <1>3, Zenon DEF SetSurface, Switch, Call
  <2>2. Ordered(ui') /\ Has(ui', "stopDraw")  BY <1>0, <2>1, TailIsOrdered
  <2>3. \A name : Has(ui, name) <=> Head(ui) = name \/ Has(ui', name)
    BY <1>0, <2>1, TailHas
  <2>4. activity = "connected" /\ ~Has(ui, "floatSurface")
    BY <2>1, <2>3 DEF SurfacePart, Ordered
  <2>5. ~FloatReturns'  BY <1>1, <2>3, <2>4 DEF FloatReturns
  <2>6. Excused'  BY <2>2 DEF Excused
  <2> QED BY <1>1, <2>1, <2>2, <2>4, <2>5, <2>6 DEF SurfacePart
<1>4. CASE ResetSurface
  <2>1. /\ ui # <<>> /\ Head(ui) = "floatSurface" /\ ui' = Tail(ui)
        /\ surface' = "float" /\ isRunning' = isRunning /\ unheard' = unheard
    BY <1>4, Zenon DEF ResetSurface, Switch, Call, natives, history
  <2>2. Ordered(ui')  BY <1>0, <2>1, TailIsOrdered
  <2>3. \A name : Has(ui, name) <=> Head(ui) = name \/ Has(ui', name)
    BY <1>0, <2>1, TailHas
  <2>4. FloatReturns /\ ~Has(ui, "stopDraw") /\ ~Has(ui', "fullSurface")
    BY <1>0, <2>1, <2>3 DEF FloatReturns, Ordered
  <2>5. GoesOn' => GoesOn  BY <1>1, <2>1 DEF GoesOn, InLoop
  <2>6. Excused => Excused'  BY <1>1, <2>1, <2>4 DEF Excused
  <2> QED BY <1>1, <2>1, <2>2, <2>4, <2>5, <2>6 DEF SurfacePart
<1>5. CASE ReturnIfNull
  <2>1. /\ ui # <<>> /\ Head(ui) = "check" /\ (ui' = <<>> \/ ui' = Tail(ui))
        /\ surface' = surface /\ isRunning' = isRunning /\ unheard' = unheard
    BY <1>5, Zenon DEF ReturnIfNull, mode, natives, history
  <2>2. CASE ui' = Tail(ui)
    <3>1. Head(ui) \notin {"stopDraw", "fullSurface", "floatSurface"}  BY <2>1
    <3> QED BY <1>1, <2>1, <2>2, <3>1, SurfaceCalls
  <2>3. CASE ui' = <<>>
    <3>1. Has(ui, "check")  BY <1>0, <2>1, TailHas
    <3>2. ~Has(ui, "stopDraw")  BY <1>0, <3>1 DEF Ordered
    <3>3. Ordered(ui') /\ ~Has(ui', "floatSurface") /\ ~Has(ui', "fullSurface")
      BY <2>3, EmptyIsOrdered, EmptyHasNothing
    <3>4. FloatReturns' => FloatReturns  BY <1>1, <3>3 DEF FloatReturns
    <3> QED BY <1>1, <2>1, <3>2, <3>3, <3>4, SurfaceKept
  <2> QED BY <2>1, <2>2, <2>3
<1>6. CASE RunPosted
  <2>1. ui' = ui /\ surface' = surface /\ isRunning' = isRunning /\ unheard' = unheard
    BY <1>6, Zenon DEF RunPosted, mode, natives, history
  <2>2. FloatReturns' => FloatReturns  BY <1>1, <2>1 DEF FloatReturns
  <2> QED BY <1>1, <2>1, <2>2, SurfaceKept DEF SurfacePart
<1>7. CASE PostHide \/ SetFullScreen \/ SetWindowed \/ DestroyXvfb \/ UseInTap
           \/ UseInScroll \/ UseInCursor \/ Load \/ UseInKey
  <2>1. /\ ui # <<>> /\ ui' = Tail(ui)
        /\ Head(ui) \in {"hideDisplay", "fullScreen", "windowed", "destroyXvfb",
                         "tap", "scroll", "cursor", "load", "key"}
        /\ surface' = surface /\ isRunning' = isRunning /\ unheard' = unheard
    <3>1. CASE PostHide \/ SetFullScreen \/ SetWindowed
      BY <3>1 DEF PostHide, SetFullScreen, SetWindowed, Switch, Call, mode, natives, history
    <3>2. CASE DestroyXvfb \/ Load \/ UseInKey
      BY <3>2 DEF DestroyXvfb, Load, UseInKey, Call, mode, natives, history
    <3>3. CASE UseInTap \/ UseInScroll \/ UseInCursor
      BY <3>3 DEF UseInTap, UseInScroll, UseInCursor, Use, Call, mode, natives, history
    <3> QED BY <1>7, <3>1, <3>2, <3>3
  <2>2. Head(ui) \notin {"stopDraw", "fullSurface", "floatSurface"}  BY <2>1
  <2> QED BY <1>1, <2>1, <2>2, SurfaceCalls
<1> QED BY <1>2, <1>3, <1>4, <1>5, <1>6, <1>7, Zenon DEF Main

\* What is called when no handler runs, and with which calls.
PlainHandlers ==
  {<<>>, <<"stopDraw", "destroyXvfb">>, <<"stopDraw", "hideDisplay">>,
   <<"check", "scroll", "scroll">>, <<"tap", "tap">>, <<"cursor", "cursor">>,
   <<"check", "load", "key", "load", "key">>}

LEMMA PlainHandlersBringNothing ==
  ASSUME NEW calls \in PlainHandlers
  PROVE  Ordered(calls) /\ ~Has(calls, "floatSurface") /\ ~Has(calls, "fullSurface")
<1>0. Calls = {"stopDraw", "hideDisplay", "destroyXvfb", "fullScreen", "fullSurface",
               "windowed", "floatSurface", "check", "tap", "scroll", "cursor", "load",
               "key"}
  BY DEF Calls
<1>1. Ordered(calls)  BY HandlersAreOrdered, EmptyIsOrdered DEF PlainHandlers
<1>2. /\ "stopDraw" \in Calls /\ "destroyXvfb" \in Calls /\ "hideDisplay" \in Calls
      /\ "check" \in Calls /\ "scroll" \in Calls /\ "tap" \in Calls
      /\ "cursor" \in Calls /\ "load" \in Calls /\ "key" \in Calls
  BY <1>0
<1>3. CASE calls = <<>>  BY <1>1, <1>3, EmptyHasNothing
<1>4. CASE calls = <<"stopDraw", "destroyXvfb">>
  <2>1. \A name : Has(calls, name) <=> name \in {"stopDraw", "destroyXvfb"}
    BY <1>2, <1>4, CallsAre2
  <2> QED BY <1>1, <2>1
<1>5. CASE calls = <<"stopDraw", "hideDisplay">>
  <2>1. \A name : Has(calls, name) <=> name \in {"stopDraw", "hideDisplay"}
    BY <1>2, <1>5, CallsAre2
  <2> QED BY <1>1, <2>1
<1>6. CASE calls = <<"check", "scroll", "scroll">>
  <2>1. \A name : Has(calls, name) <=> name \in {"check", "scroll", "scroll"}
    BY <1>2, <1>6, CallsAre3
  <2> QED BY <1>1, <2>1
<1>7. CASE calls = <<"tap", "tap">>
  <2>1. \A name : Has(calls, name) <=> name \in {"tap", "tap"}
    BY <1>2, <1>7, CallsAre2
  <2> QED BY <1>1, <2>1
<1>8. CASE calls = <<"cursor", "cursor">>
  <2>1. \A name : Has(calls, name) <=> name \in {"cursor", "cursor"}
    BY <1>2, <1>8, CallsAre2
  <2> QED BY <1>1, <2>1
<1>9. CASE calls = <<"check", "load", "key", "load", "key">>
  <2>1. \A name : Has(calls, name) <=> name \in {"check", "load", "key", "load", "key"}
    BY <1>2, <1>9, CallsAre5
  <2> QED BY <1>1, <2>1
<1> QED BY <1>3, <1>4, <1>5, <1>6, <1>7, <1>8, <1>9 DEF PlainHandlers

LEMMA EventEffects ==
  ASSUME StartX \/ StopXvfb \/ CloseFloat \/ TouchScreen \/ ConfirmTap \/ InputKey
         \/ CursorControl \/ OpenActivity
  PROVE  /\ ui = <<>> /\ ui' \in PlainHandlers
         /\ surface' = surface /\ jsurface' = jsurface /\ isRunning' = isRunning
         /\ unheard' = unheard
         /\ activity' = activity \/ activity' = "starting"
<1>1. CASE StartX
  BY <1>1 DEF StartX, Handler, Handle, PlainHandlers, natives, history
<1>2. CASE StopXvfb
  BY <1>2 DEF StopXvfb, UserDoes, Handler, Handle, PlainHandlers, natives, history, thread
<1>3. CASE CloseFloat
  BY <1>3 DEF CloseFloat, UserDoes, Handler, Handle, PlainHandlers, natives, history, thread
<1>4. CASE TouchScreen
  BY <1>4 DEF TouchScreen, Touch, UserDoes, Handler, Handle, PlainHandlers, natives, history, thread
<1>5. CASE ConfirmTap
  BY <1>5 DEF ConfirmTap, Handler, Handle, PlainHandlers, natives, history, thread
<1>6. CASE InputKey
  BY <1>6 DEF InputKey, UserDoes, Handler, Handle, PlainHandlers, natives, history, thread
<1>7. CASE CursorControl
  BY <1>7 DEF CursorControl, UserDoes, Handler, Handle, PlainHandlers, natives, history, thread
<1>8. CASE OpenActivity
  BY <1>8 DEF OpenActivity, UserDoes, Handler, Handle, PlainHandlers, natives, history, thread
<1> QED BY <1>1, <1>2, <1>3, <1>4, <1>5, <1>6, <1>7, <1>8

LEMMA SurfaceEventsStep ==
  ASSUME SurfacePart, Events \/ Outside
  PROVE  SurfacePart'
<1>1. late' = late /\ (xdraw' = xdraw \/ (xdraw = "off" /\ xdraw' = "sleep"))
  BY OthersLeaveConnection
<1>2. CASE StartX \/ StopXvfb \/ CloseFloat \/ TouchScreen \/ ConfirmTap \/ InputKey
           \/ CursorControl \/ OpenActivity
  <2>1. /\ ui = <<>> /\ ui' \in PlainHandlers
        /\ surface' = surface /\ jsurface' = jsurface /\ isRunning' = isRunning
        /\ unheard' = unheard
        /\ activity' = activity \/ activity' = "starting"
    BY <1>2, EventEffects
  <2>2. Ordered(ui') /\ ~Has(ui', "floatSurface") /\ ~Has(ui', "fullSurface")
    BY <2>1, PlainHandlersBringNothing
  <2>3. activity' = "unbinding" => activity = "unbinding"  BY <2>1
  <2> QED BY <1>1, <2>1, <2>2, <2>3, SurfaceHandler
<1>3. CASE ServiceConnected
  <2> DEFINE calls == <<"hideDisplay", "fullScreen", "fullSurface", "stopDraw">>
  <2>1. /\ ui = <<>> /\ ui' = calls /\ activity' = "connected"
        /\ surface' = surface /\ jsurface' = jsurface /\ isRunning' = isRunning
        /\ unheard' = unheard
    BY <1>3, Zenon DEF ServiceConnected, ServiceConnectedCalls, Handler, Handle, natives, history, thread
  <2>2. Ordered(calls)  BY HandlersAreOrdered
  <2>3. \A name : Has(calls, name)
          <=> name \in {"hideDisplay", "fullScreen", "fullSurface", "stopDraw"}
    <3>1. /\ "hideDisplay" \in Calls /\ "fullScreen" \in Calls
          /\ "fullSurface" \in Calls /\ "stopDraw" \in Calls
      BY DEF Calls
    <3> QED BY <3>1, CallsAre4
  <2> HIDE DEF calls
  <2>4. ~Has(ui', "floatSurface")  BY <2>1, <2>3
  <2> QED BY <1>1, <2>1, <2>2, <2>4, SurfaceHandler
<1>4. CASE DestroyActivity
  <2> DEFINE calls == <<"stopDraw">>
  <2>1. /\ ui = <<>> /\ ui' = calls
        /\ surface' = (IF surface = "full" THEN "gone" ELSE surface)
    BY <1>4, Zenon DEF DestroyActivity, Handle, Gone
  <2>2. Ordered(calls)  BY HandlersAreOrdered
  <2>3. \A name : Has(calls, name) <=> name = "stopDraw"
    <3>1. "stopDraw" \in Calls  BY DEF Calls
    <3> QED BY <3>1, CallsAre1
  <2> HIDE DEF calls
  <2>4. Excused' /\ ~Has(ui', "fullSurface")  BY <2>1, <2>3 DEF Excused
  <2>5. surface' \in {"float", "gone"}  BY <2>1 DEF SurfacePart
  <2> QED BY <2>1, <2>2, <2>4, <2>5 DEF SurfacePart
<1>5. CASE Unbind
  <2> DEFINE calls == <<"windowed", "floatSurface">>
  <2>1. /\ ui = <<>> /\ ui' = calls /\ activity = "unbinding"
        /\ surface' = surface /\ jsurface' = jsurface /\ isRunning' = isRunning
        /\ unheard' = unheard
    BY <1>5, Zenon DEF Unbind, Handler, Handle, natives, history, thread
  <2>2. Ordered(calls)  BY HandlersAreOrdered
  <2>3. \A name : Has(calls, name) <=> name \in {"windowed", "floatSurface"}
    <3>1. "windowed" \in Calls /\ "floatSurface" \in Calls  BY DEF Calls
    <3> QED BY <3>1, CallsAre2
  <2> HIDE DEF calls
  <2>4. ~Has(ui', "fullSurface")  BY <2>1, <2>3
  <2>5. FloatReturns /\ ~Has(ui, "stopDraw")
    BY <2>1, EmptyHasNothing DEF FloatReturns
  <2> QED BY <1>1, <2>1, <2>2, <2>4, <2>5, SurfaceKept
<1>6. CASE Outside
  <2>1. /\ ui' = ui /\ surface' = surface /\ jsurface' = jsurface
        /\ isRunning' = isRunning /\ unheard' = unheard /\ activity' = activity
    BY <1>6, Zenon DEF Outside, ServerStarts, ServerDies, ClientsComeOrLeave,
                       OutsideKeeps, natives, thread, mode, main, history
  <2>2. FloatReturns' => FloatReturns  BY <2>1 DEF FloatReturns
  <2> QED BY <1>1, <2>1, <2>2, SurfaceKept DEF SurfacePart
<1> QED BY <1>2, <1>3, <1>4, <1>5, <1>6, Zenon DEF Events

LEMMA SurfaceXdrawStep ==
  ASSUME SurfacePart, Xdraw
  PROVE  SurfacePart'
<1>0. surface' = surface /\ ui' = ui /\ activity' = activity /\ unheard' = unheard
  BY XdrawKeeps
<1>1. ASSUME jsurface' = jsurface, late' = late, GoesOn' => GoesOn
      PROVE  SurfacePart'
  <2>1. Excused => Excused'  BY <1>0, <1>1 DEF Excused
  <2>2. FloatReturns' => FloatReturns  BY <1>0 DEF FloatReturns
  <2> QED BY <1>0, <1>1, <2>1, <2>2 DEF SurfacePart
<1>2. CASE CallStartx
  <2>1. jsurface' = surface /\ late' = (surface = "gone")
    BY <1>2, Zenon DEF CallStartx
  <2>2. surface = "gone" => Excused'  BY <2>1, Zenon DEF Excused
  <2>3. FloatReturns' => FloatReturns  BY <1>0 DEF FloatReturns
  <2> QED BY <1>0, <2>1, <2>2, <2>3 DEF SurfacePart
<1>3. CASE OpenDisplay \/ Announce \/ UpdateFloatDisplay \/ Forget
  <2>1. jsurface' = jsurface /\ late' = late
    BY <1>3, Zenon DEF OpenDisplay, Announce, UpdateFloatDisplay, Forget, ForgetThen, history
  <2>2. xdraw' \in {"sleep", "init", "start", "show", "end"}
    BY <1>3 DEF OpenDisplay, Announce, UpdateFloatDisplay, Forget, ForgetThen, Goto
  <2>3. ~GoesOn'  BY <2>2 DEF GoesOn, InLoop
  <2> QED BY <2>1, <2>3, <1>1
<1>4. CASE HideDisplay \/ Finish
  <2>1. jsurface' = jsurface /\ late' = late
    BY <1>4, Zenon DEF HideDisplay, Hide, Finish, FinishSetting, history
  <2>2. xdraw' \in {"hidden", "sleep"}
    BY <1>4 DEF HideDisplay, Hide, Finish, FinishSetting, Goto
  <2>3. ~GoesOn'  BY <2>2 DEF GoesOn, InLoop
  <2> QED BY <2>1, <2>3, <1>1
<1>5. CASE ClientsAtInit
  <2>1. jsurface' = jsurface /\ late' = late /\ xdraw = "init"
        /\ xdraw' = IF open' THEN "ready" ELSE IF InLoop THEN "forgetEnd" ELSE "forget"
    BY <1>5, Zenon DEF ClientsAtInit, QueryTree, Goto
  <2>2. ~GoesOn'  BY <2>1 DEF GoesOn, InLoop
  <2> QED BY <2>1, <2>2, <1>1
<1>6. CASE ClientsAtFrame \/ Loop \/ Frame \/ Run
  <2>1. jsurface' = jsurface /\ late' = late
    BY <1>6, Zenon DEF ClientsAtFrame, QueryTree, Loop, LoopWhile, Frame, Run, history
  <2>2. \/ xdraw = "running"
        \/ InLoop /\ isRunning' = isRunning /\ xdraw' # "running"
    <3>1. CASE ClientsAtFrame
      <4>1. xdraw = "query" /\ isRunning' = isRunning
            /\ xdraw' = IF open' THEN "grab" ELSE IF InLoop THEN "forgetEnd" ELSE "forget"
        BY <3>1, Zenon DEF ClientsAtFrame, QueryTree, Goto
      <4> QED BY <4>1 DEF InLoop
    <3>2. CASE Loop \/ Frame
      <4>1. xdraw \in {"loop", "grab"} /\ isRunning' = isRunning
            /\ xdraw' \in {"query", "end", "loop"}
        BY <3>2 DEF Loop, LoopWhile, Frame, Goto, natives
      <4> QED BY <4>1 DEF InLoop
    <3>3. CASE Run  BY <3>3, Zenon DEF Run
    <3> QED BY <1>6, <3>1, <3>2, <3>3
  <2>3. GoesOn' => GoesOn  BY <2>2 DEF GoesOn
  <2> QED BY <2>1, <2>3, <1>1
<1> QED BY <1>2, <1>3, <1>4, <1>5, <1>6, Zenon DEF Xdraw

-----------------------------------------------------------------------------
(* The touches. *)

\* Where Xdraw is while touches are accepted.
Accepting == {"show", "start", "running", "loop", "query", "grab", "forgetEnd", "end",
              "hidden"}

LEMMA TouchXdrawStep ==
  ASSUME ConnectionPart, TouchPart, Xdraw
  PROVE  TouchPart'
<1>0. /\ ui' = ui /\ tap' = tap
      /\ Touching' = Touching
      /\ Touching => tap \/ ui # <<>>
  BY XdrawKeeps, EmptyHasNothing DEF Touching
<1>1. /\ isStarting => xdraw \in Accepting
      /\ xdraw = "forgetEnd" => lastLeft
      /\ ~lastLeft /\ (xdraw \in {"end", "hidden"} \/ Touching) => mdisplay # NULL /\ open
      /\ death \in {"tap", "scroll"} => lastLeft
  BY DEF TouchPart, Accepting
<1>2. ASSUME isStarting' => xdraw' \in Accepting,
             xdraw' = "forgetEnd" => lastLeft',
             ~lastLeft' /\ (xdraw' \in {"end", "hidden"} \/ Touching)
               => mdisplay' # NULL /\ open',
             death' \in {"tap", "scroll"} => lastLeft'
      PROVE  TouchPart'
  BY <1>0, <1>2 DEF TouchPart, Accepting
<1>3. CASE OpenDisplay
  <2>1. /\ xdraw = "sleep" /\ isStarting' = isStarting /\ lastLeft' = lastLeft
        /\ death' = death /\ open' = (mdisplay' # NULL)
        /\ mdisplay' = IF mdisplay = NULL THEN server ELSE mdisplay
        /\ xdraw' = IF mdisplay' = NULL THEN "sleep" ELSE "init"
    BY <1>3, Zenon DEF OpenDisplay, Goto, history
  <2>2. ~isStarting  BY <1>1, <2>1 DEF Accepting
  <2>3. mdisplay # NULL => mdisplay' # NULL /\ open'  BY <2>1
  <2>4. xdraw' \in {"sleep", "init"}  BY <2>1
  <2> QED BY <1>1, <1>2, <2>1, <2>2, <2>3, <2>4
<1>4. ASSUME NEW place \in {"init", "query"}, NEW next \in {"ready", "grab"},
             QueryTree(place, next), place = "query" => next = "grab"
      PROVE  TouchPart'
  <2>1. /\ xdraw = place /\ isStarting' = isStarting /\ mdisplay' = mdisplay
        /\ death' = (IF mdisplay = server THEN "no" ELSE "server gone")
        /\ xdraw' = IF open' THEN next ELSE IF InLoop THEN "forgetEnd" ELSE "forget"
        /\ lastLeft' = (lastLeft \/ (~open' /\ (InLoop \/ tap \/ ui # <<>>)))
    BY <1>4, Zenon DEF QueryTree, Goto
  <2>2. mdisplay' # NULL  BY <2>1 DEF ConnectionPart, Connected
  <2>3. death' \notin {"tap", "scroll"}  BY <2>1
  <2>4. isStarting' => xdraw' \in Accepting
    BY <1>1, <1>4, <2>1 DEF Accepting, InLoop
  <2>5. xdraw' = "forgetEnd" => lastLeft'  BY <1>4, <2>1
  <2>6. xdraw' \notin {"end", "hidden"}  BY <1>4, <2>1
  <2>7. Touching /\ ~lastLeft' => open'  BY <1>0, <2>1
  <2> QED BY <1>2, <2>2, <2>3, <2>4, <2>5, <2>6, <2>7
<1>5. CASE Forget
  <2>1. /\ isStarting' = isStarting /\ lastLeft' = lastLeft /\ death' = death
        /\ xdraw \in {"forget", "forgetEnd"}
        /\ xdraw' = IF xdraw = "forget" THEN "sleep" ELSE "end"
    BY <1>5, Zenon DEF Forget, ForgetThen, Goto, history
  <2>2. ~open  BY <2>1 DEF ConnectionPart
  <2>3. isStarting => xdraw = "forgetEnd"  BY <1>1, <2>1 DEF Accepting
  <2>4. Touching => lastLeft  BY <1>1, <2>2
  <2> QED BY <1>1, <1>2, <2>1, <2>3, <2>4 DEF Accepting
<1>6. CASE Announce \/ UpdateFloatDisplay \/ CallStartx \/ Run \/ Loop \/ Frame
  <2>1. /\ mdisplay' = mdisplay /\ open' = open /\ lastLeft' = lastLeft
        /\ xdraw \in Connected
    BY <1>6, Zenon DEF Announce, UpdateFloatDisplay, CallStartx, Run, Loop, LoopWhile,
                       Frame, natives, history, Connected
  <2>2. mdisplay' # NULL /\ open'  BY <2>1 DEF ConnectionPart
  <2>3. death' = death \/ death' \in {"no", "server gone"}
    BY <1>6 DEF Announce, UpdateFloatDisplay, CallStartx, Run, Loop, LoopWhile, Frame
  <2>4. CASE Announce
    <3>1. xdraw = "ready" /\ xdraw' = IF isStarting THEN "sleep"
                                      ELSE IF isFulllScreen THEN "start" ELSE "show"
      BY <2>4, Zenon DEF Announce, Goto
    <3>2. xdraw' \in {"start", "show"}  BY <1>1, <3>1 DEF Accepting
    <3> QED BY <1>1, <1>2, <2>1, <2>2, <2>3, <3>2 DEF Accepting
  <2>5. CASE ~Announce
    <3>1. xdraw' \in {"start", "running", "loop", "query", "end"}
      BY <1>6, <2>5 DEF UpdateFloatDisplay, CallStartx, Run, Loop, LoopWhile, Frame, Goto
    <3> QED BY <1>1, <1>2, <2>1, <2>2, <2>3, <3>1 DEF Accepting
  <2> QED BY <2>4, <2>5
<1>7. CASE HideDisplay
  <2>1. /\ xdraw = "end" /\ xdraw' = "hidden" /\ mdisplay' = mdisplay /\ open' = open
        /\ lastLeft' = lastLeft /\ death' = death
    BY <1>7, Zenon DEF HideDisplay, Hide, Goto, natives, history
  <2> QED BY <1>1, <1>2, <2>1 DEF Accepting
<1>8. CASE Finish
  <2>1. /\ xdraw' = "sleep" /\ ~isStarting' /\ mdisplay' = mdisplay /\ open' = open
        /\ lastLeft' = lastLeft /\ death' = death
    BY <1>8, Zenon DEF Finish, FinishSetting, Goto, natives, history
  <2> QED BY <1>1, <1>2, <2>1
<1>9. CASE ClientsAtInit  BY <1>9, <1>4 DEF ClientsAtInit
<1>10. CASE ClientsAtFrame  BY <1>10, <1>4 DEF ClientsAtFrame
<1> QED BY <1>3, <1>5, <1>6, <1>7, <1>8, <1>9, <1>10, Zenon DEF Xdraw

LEMMA PairsWithoutTouch ==
  ASSUME NEW a \in Calls, NEW b \in Calls, {a, b} \cap {"tap", "scroll"} = {}
  PROVE  ~Has(<<a, b>>, "tap") /\ ~Has(<<a, b>>, "scroll")
<1> DEFINE calls == <<a, b>>
<1>1. \A name : Has(calls, name) <=> name \in {a, b}  BY CallsAre2
<1> HIDE DEF calls
<1>2. ~Has(calls, "tap") /\ ~Has(calls, "scroll")  BY <1>1
<1> QED BY <1>2 DEF calls

\* Nobody but an accepted touch brings a touch.
LEMMA TouchesAreAccepted ==
  ASSUME Main \/ Events \/ Outside, ui \in Seq(Calls)
  PROVE  Touching' => Touching \/ isStarting
<1>1. CASE RunPosted \/ Outside
  <2>1. ui' = ui /\ tap' = tap
    BY <1>1, Zenon DEF RunPosted, MainKeeps, Outside, ServerStarts, ServerDies,
                       ClientsComeOrLeave, OutsideKeeps, main
  <2> QED BY <2>1 DEF Touching
<1>2. CASE Main /\ ~RunPosted
  <2>1. ui # <<>> /\ tap' = tap /\ (ui' = <<>> \/ ui' = Tail(ui))
    <3>1. CASE StopDraw \/ PostHide \/ ReturnIfNull
      BY <3>1, Zenon DEF StopDraw, PostHide, ReturnIfNull, Call, MainKeeps
    <3>2. CASE SetFullScreen \/ SetWindowed \/ SetSurface \/ ResetSurface
      BY <3>2, Zenon DEF SetFullScreen, SetWindowed, SetSurface, ResetSurface, Switch, Call, MainKeeps
    <3>3. CASE DestroyXvfb \/ Load \/ UseInKey
      BY <3>3, Zenon DEF DestroyXvfb, Load, UseInKey, Call, MainKeeps
    <3>4. CASE UseInTap \/ UseInScroll \/ UseInCursor
      BY <3>4, Zenon DEF UseInTap, UseInScroll, UseInCursor, Use, Call, MainKeeps
    <3> QED BY <1>2, <3>1, <3>2, <3>3, <3>4, Zenon DEF Main
  <2>2. \A name : Has(ui, name) <=> Head(ui) = name \/ Has(Tail(ui), name)
    BY <2>1, TailHas
  <2>3. \A name : Has(ui', name) => Has(ui, name)  BY <2>1, <2>2, EmptyHasNothing
  <2> QED BY <2>1, <2>3 DEF Touching
<1>3. CASE TouchScreen
  BY <1>3, Zenon DEF TouchScreen, Touch
<1>4. CASE ConfirmTap
  BY <1>4, Zenon DEF ConfirmTap, Touching
<1>5. CASE Events /\ ~TouchScreen /\ ~ConfirmTap
  <2>1. /\ tap' = tap
        /\ ui' \in {<<>>, <<"stopDraw", "destroyXvfb">>, <<"stopDraw", "hideDisplay">>,
                    <<"check", "load", "key", "load", "key">>, <<"cursor", "cursor">>,
                    <<"hideDisplay", "fullScreen", "fullSurface", "stopDraw">>,
                    <<"stopDraw">>, <<"windowed", "floatSurface">>}
    <3>1. CASE StartX  BY <3>1, Zenon DEF StartX, Handler, Handle
    <3>2. CASE StopXvfb  BY <3>2, Zenon DEF StopXvfb, UserDoes, Handler, Handle
    <3>3. CASE CloseFloat  BY <3>3, Zenon DEF CloseFloat, UserDoes, Handler, Handle
    <3>4. CASE InputKey  BY <3>4, Zenon DEF InputKey, UserDoes, Handler, Handle
    <3>5. CASE CursorControl  BY <3>5, Zenon DEF CursorControl, UserDoes, Handler, Handle
    <3>6. CASE OpenActivity  BY <3>6, Zenon DEF OpenActivity, UserDoes, Handler, Handle
    <3>7. CASE ServiceConnected
      BY <3>7, Zenon DEF ServiceConnected, ServiceConnectedCalls, Handler, Handle
    <3>8. CASE DestroyActivity  BY <3>8, Zenon DEF DestroyActivity, Handle
    <3>9. CASE Unbind  BY <3>9, Zenon DEF Unbind, Handler, Handle
    <3> QED BY <1>5, <3>1, <3>2, <3>3, <3>4, <3>5, <3>6, <3>7, <3>8, <3>9, Zenon DEF Events
  <2>2. /\ "stopDraw" \in Calls /\ "destroyXvfb" \in Calls /\ "hideDisplay" \in Calls
        /\ "check" \in Calls /\ "load" \in Calls /\ "key" \in Calls /\ "cursor" \in Calls
        /\ "fullScreen" \in Calls /\ "fullSurface" \in Calls /\ "windowed" \in Calls
        /\ "floatSurface" \in Calls
    BY DEF Calls
  <2>3. /\ ~Has(<<"stopDraw", "destroyXvfb">>, "tap")
        /\ ~Has(<<"stopDraw", "destroyXvfb">>, "scroll")
        /\ ~Has(<<"stopDraw", "hideDisplay">>, "tap")
        /\ ~Has(<<"stopDraw", "hideDisplay">>, "scroll")
        /\ ~Has(<<"cursor", "cursor">>, "tap") /\ ~Has(<<"cursor", "cursor">>, "scroll")
        /\ ~Has(<<"windowed", "floatSurface">>, "tap")
        /\ ~Has(<<"windowed", "floatSurface">>, "scroll")
    <3>1. ~Has(<<"stopDraw", "destroyXvfb">>, "tap")
          /\ ~Has(<<"stopDraw", "destroyXvfb">>, "scroll")  BY <2>2, PairsWithoutTouch
    <3>2. ~Has(<<"stopDraw", "hideDisplay">>, "tap")
          /\ ~Has(<<"stopDraw", "hideDisplay">>, "scroll")  BY <2>2, PairsWithoutTouch
    <3>3. ~Has(<<"cursor", "cursor">>, "tap")
          /\ ~Has(<<"cursor", "cursor">>, "scroll")  BY <2>2, PairsWithoutTouch
    <3>4. ~Has(<<"windowed", "floatSurface">>, "tap")
          /\ ~Has(<<"windowed", "floatSurface">>, "scroll")  BY <2>2, PairsWithoutTouch
    <3> QED BY <3>1, <3>2, <3>3, <3>4, Zenon
  <2>4. /\ ~Has(<<"check", "load", "key", "load", "key">>, "tap")
        /\ ~Has(<<"check", "load", "key", "load", "key">>, "scroll")
    <3> DEFINE calls == <<"check", "load", "key", "load", "key">>
    <3>1. \A name : Has(calls, name) <=> name \in {"check", "load", "key", "load", "key"}
      BY <2>2, CallsAre5
    <3> HIDE DEF calls
    <3>2. ~Has(calls, "tap") /\ ~Has(calls, "scroll")  BY <3>1
    <3> QED BY <3>2 DEF calls
  <2>5. /\ ~Has(<<"hideDisplay", "fullScreen", "fullSurface", "stopDraw">>, "tap")
        /\ ~Has(<<"hideDisplay", "fullScreen", "fullSurface", "stopDraw">>, "scroll")
    BY <2>2, CallsAre4
  <2>6. ~Has(<<"stopDraw">>, "tap") /\ ~Has(<<"stopDraw">>, "scroll")
    BY <2>2, CallsAre1
  <2>7. ~Has(ui', "tap") /\ ~Has(ui', "scroll")
    BY <2>1, <2>3, <2>4, <2>5, <2>6, EmptyHasNothing
  <2> QED BY <2>1, <2>7 DEF Touching
<1> QED BY <1>1, <1>2, <1>3, <1>4, <1>5

\* A call of Xlib that ends the process is one that was waiting.
LEMMA CrashesWereCalled ==
  ASSUME Main \/ Events \/ Outside
  PROVE  \/ death' = death
         \/ \E name \in {"tap", "scroll", "cursor"} : Use(name)
         \/ death' \in {"key", "no", "server gone"}
<1>1. CASE UseInTap \/ UseInScroll \/ UseInCursor
  BY <1>1 DEF UseInTap, UseInScroll, UseInCursor
<1>2. CASE UseInKey
  BY <1>2 DEF UseInKey
<1>3. CASE StopDraw \/ PostHide \/ RunPosted \/ ReturnIfNull \/ Load \/ DestroyXvfb
  BY <1>3, Zenon DEF StopDraw, PostHide, RunPosted, ReturnIfNull, Load, DestroyXvfb
<1>4. CASE SetFullScreen \/ SetWindowed \/ SetSurface \/ ResetSurface
  BY <1>4, Zenon DEF SetFullScreen, SetWindowed, SetSurface, ResetSurface, Switch
<1>5. CASE StartX \/ StopXvfb \/ CloseFloat \/ TouchScreen
  BY <1>5, Zenon DEF StartX, StopXvfb, CloseFloat, TouchScreen, Touch, UserDoes, Handler, Handle
<1>6. CASE ConfirmTap \/ InputKey \/ CursorControl \/ OpenActivity
  BY <1>6, Zenon DEF ConfirmTap, InputKey, CursorControl, OpenActivity, UserDoes, Handler, Handle
<1>7. CASE ServiceConnected \/ Unbind \/ DestroyActivity
  BY <1>7, Zenon DEF ServiceConnected, ServiceConnectedCalls, Unbind, DestroyActivity, Handler, Handle
<1>8. CASE Outside
  BY <1>8, Zenon DEF Outside, ServerStarts, ServerDies, ClientsComeOrLeave, OutsideKeeps
<1> QED BY <1>1, <1>2, <1>3, <1>4, <1>5, <1>6, <1>7, <1>8, Zenon DEF Main, Events

LEMMA TouchOthersStep ==
  ASSUME ConnectionPart, TouchPart, ui \in Seq(Calls), Main \/ Events \/ Outside
  PROVE  TouchPart'
<1>0. /\ mdisplay' = mdisplay /\ open' = open /\ isStarting' = isStarting
      /\ xdraw' = xdraw \/ (xdraw = "off" /\ xdraw' = "sleep")
      /\ lastLeft' = lastLeft
  BY OthersLeaveConnection
<1>1. Touching' => Touching \/ isStarting  BY TouchesAreAccepted
<1>2. ~lastLeft /\ (Touching \/ isStarting) => mdisplay # NULL /\ open
  BY DEF TouchPart, ConnectionPart, Connected
<1>3. death' \in {"tap", "scroll"} => lastLeft
  <2>1. CASE death' = death  BY <2>1 DEF TouchPart
  <2>2. ASSUME NEW name \in {"tap", "scroll", "cursor"}, Use(name)
        PROVE  death' \in {"tap", "scroll"} => lastLeft
    <3>1. /\ ui # <<>> /\ Head(ui) = name
          /\ death' \in IF mdisplay = NULL THEN {name}
                        ELSE IF ~open THEN {name, "no"}
                        ELSE IF mdisplay # server THEN {"server gone"} ELSE {"no"}
      BY <2>2, Zenon DEF Use, Call
    <3>2. Has(ui, name)  BY <3>1, TailHas
    <3>3. name \in {"tap", "scroll"} => Touching  BY <3>2 DEF Touching
    <3>4. CASE mdisplay # NULL /\ open  BY <3>1, <3>4
    <3>5. CASE ~(mdisplay # NULL /\ open)
      <4>1. death' \in {name, "no"}  BY <3>1, <3>5
      <4> QED BY <1>2, <3>3, <3>5, <4>1
    <3> QED BY <3>4, <3>5
  <2>3. CASE death' \in {"key", "no", "server gone"}  BY <2>3
  <2> QED BY <2>1, <2>2, <2>3, CrashesWereCalled
<1>4. /\ isStarting' => xdraw' \in Accepting
      /\ xdraw' = "forgetEnd" => lastLeft'
      /\ xdraw' \in {"end", "hidden"} => xdraw = xdraw'
  BY <1>0 DEF TouchPart, Accepting
<1>5. ~lastLeft' /\ (xdraw' \in {"end", "hidden"} \/ Touching') => mdisplay' # NULL /\ open'
  BY <1>0, <1>1, <1>2, <1>4 DEF TouchPart
<1>6. death' \in {"tap", "scroll"} => lastLeft'  BY <1>0, <1>3
<1> QED BY <1>4, <1>5, <1>6 DEF TouchPart, Accepting

-----------------------------------------------------------------------------
(* The theorems. *)

LEMMA InitHolds == Init => DisplayInvariant
<1> SUFFICES ASSUME Init  PROVE DisplayInvariant  OBVIOUS
<1>1. /\ mdisplay = NULL /\ open = FALSE /\ xdraw = "off" /\ isStarting = FALSE
      /\ jsurface = "float" /\ surface = "float" /\ looper = <<>> /\ shown = FALSE
      /\ ui = <<>> /\ tap = FALSE /\ activity = "none" /\ death = "no"
  BY Zenon DEF Init
<1>2. TypeOK  BY <1>1 DEF TypeOK, Places
<1>3. ConnectionPart  BY <1>1 DEF ConnectionPart, Connected
<1>4. FloatPart  BY <1>1 DEF FloatPart, Showing
<1>5. SurfacePart
  <2>1. ~GoesOn  BY <1>1 DEF GoesOn, InLoop
  <2> QED BY <1>1, <2>1, EmptyIsOrdered, EmptyHasNothing DEF SurfacePart
<1>6. TouchPart  BY <1>1, EmptyHasNothing DEF TouchPart, Touching
<1> QED BY <1>2, <1>3, <1>4, <1>5, <1>6 DEF DisplayInvariant

LEMMA NextKeeps ==
  ASSUME DisplayInvariant, Next
  PROVE  DisplayInvariant'
<1>1. ConnectionPart' /\ (xdraw \in Places)'  BY ConnectionStep
<1>2. FloatPart' /\ (looper \in Seq({"show", "hide"}))'  BY FloatStep
<1>3. SurfacePart'
  <2>1. SurfacePart  BY DEF DisplayInvariant
  <2> QED BY <2>1, SurfaceXdrawStep, SurfaceMainStep, SurfaceEventsStep, Zenon DEF Next
<1>4. TouchPart'
  <2>1. ConnectionPart /\ TouchPart /\ ui \in Seq(Calls)
    BY DEF DisplayInvariant, SurfacePart, Ordered
  <2> QED BY <2>1, TouchXdrawStep, TouchOthersStep, Zenon DEF Next
<1> QED BY <1>1, <1>2, <1>3, <1>4, Zenon DEF DisplayInvariant, TypeOK

LEMMA StutterKeeps ==
  ASSUME DisplayInvariant, UNCHANGED vars
  PROVE  DisplayInvariant'
<1>1. /\ xdraw' = xdraw /\ looper' = looper /\ mdisplay' = mdisplay /\ open' = open
      /\ shown' = shown /\ ui' = ui /\ surface' = surface /\ jsurface' = jsurface
      /\ activity' = activity /\ isRunning' = isRunning /\ unheard' = unheard
      /\ late' = late /\ isStarting' = isStarting /\ lastLeft' = lastLeft /\ tap' = tap
      /\ death' = death
  BY Zenon DEF vars, natives, thread, mode, main, world, history
<1>2. TypeOK' /\ ConnectionPart'
  BY <1>1, Zenon DEF DisplayInvariant, TypeOK, ConnectionPart
<1>3. FloatPart'  BY <1>1, Zenon DEF DisplayInvariant, FloatPart, Showing
<1>4. SurfacePart'
  <2>1. GoesOn' = GoesOn /\ Excused' = Excused /\ FloatReturns' = FloatReturns
    BY <1>1, Zenon DEF GoesOn, InLoop, Excused, FloatReturns
  <2> QED BY <1>1, <2>1, Zenon DEF DisplayInvariant, SurfacePart
<1>5. TouchPart'
  <2>1. Touching' = Touching  BY <1>1, Zenon DEF Touching
  <2> QED BY <1>1, <2>1, Zenon DEF DisplayInvariant, TouchPart
<1> QED BY <1>2, <1>3, <1>4, <1>5, Zenon DEF DisplayInvariant

\* The invariant holds: whatever the order in which Xdraw, the main thread's
\* handlers, the X server and its clients take their steps.
THEOREM DisplayHolds == Spec => []DisplayInvariant
<1>1. Init => DisplayInvariant  BY InitHolds
<1>2. DisplayInvariant /\ [Next]_vars => DisplayInvariant'  BY NextKeeps, StutterKeeps
<1> QED BY <1>1, <1>2, PTL DEF Spec

\* startx() and its frames work on an open connection: of all that runs beside
\* Xdraw nothing closes mdisplay or sets it to NULL.
THEOREM ConnectionIsOpen == Spec => []DrawsOnOpenConnection
<1>1. DisplayInvariant => DrawsOnOpenConnection
  BY DEF DisplayInvariant, ConnectionPart, Connected, DrawsOnOpenConnection, Drawing, InLoop
<1> QED BY <1>1, DisplayHolds, PTL

\* A drawing that goes on is on the service's surface, but for the two windows
\* StaleSurfaceNeedsRace names: there are no others.
THEOREM SurfacesFollow == Spec => []StaleSurfaceNeedsRace
<1>1. ASSUME DisplayInvariant  PROVE StaleSurfaceNeedsRace
  <2>1. SUFFICES ASSUME InLoop, isRunning, ui = <<>>, jsurface # surface
                 PROVE  unheard \/ late
    BY DEF StaleSurfaceNeedsRace
  <2>2. Excused  BY <1>1, <2>1 DEF DisplayInvariant, SurfacePart, GoesOn
  <2>3. ~Has(ui, "stopDraw")  BY <2>1, EmptyHasNothing
  <2> QED BY <2>2, <2>3 DEF Excused
<1> QED BY <1>1, DisplayHolds, PTL

\* The floating view is hidden once all that was posted for it has run: a "show"
\* is never the last of them.
THEOREM FloatViewRests == Spec => []FloatIsHiddenAtRest
<1>1. DisplayInvariant => FloatIsHiddenAtRest
  BY DEF DisplayInvariant, FloatPart, Showing, FloatIsHiddenAtRest
<1> QED BY <1>1, DisplayHolds, PTL

\* A touch crashes only after the last client has left at a bad time: with a
\* client throughout, isStarting is guard enough for screenTouch.
THEOREM TouchesFindConnection == Spec => []TouchCrashNeedsLastClient
<1>1. DisplayInvariant => TouchCrashNeedsLastClient
  BY DEF DisplayInvariant, TouchPart, TouchCrashNeedsLastClient
<1> QED BY <1>1, DisplayHolds, PTL
=============================================================================
