------------------------------ MODULE Clipboard ------------------------------
(***************************************************************************)
(* Typing a string into an X client: inputString() in input.c starts a     *)
(* thread that runs copy() of clipboard.c, which owns the selection for a  *)
(* second and answers who asks for it, and presses the middle button at    *)
(* once, so that the client asks.                                          *)
(*                                                                         *)
(*   inputString(k): copy thread k; click k --> client asks the owner      *)
(*   copy(k): window, owner, { event from the connection's queue: answer } *)
(*            until the deadline, then the window is destroyed             *)
(*                                                                         *)
(* All copy threads read the one queue of the connection mdisplay, and     *)
(* answer for each other.  The drawing thread closes that connection when  *)
(* XQueryTree() shows no window: a copy's window counts as one.  The X     *)
(* server and its clients are external.                                    *)
(***************************************************************************)
EXTENDS Naturals, Sequences

CONSTANTS
  MaxInputs,   \* bound: strings that are typed
  MaxRivals    \* bound: times that another client takes the selection

ASSUME BoundsAssumption == MaxInputs \in Nat /\ MaxRivals \in Nat

VARIABLES
  mdisplay,    \* whether the connection is open; NULL otherwise
  drawer,      \* the drawing thread: "idle", or "closing" after XQueryTree()
  inputs,      \* the strings typed so far: 1..inputs
  pressing,    \* whether inputString() has still to press the button
  copyPc,      \* where each string's copy thread is
  expired,     \* whether its deadline has passed
  windows,     \* the copy threads' windows
  queue,       \* the connection's events: "request", "clear"
  owner,       \* of the selection: a copy thread, Rival, or Nobody
  rivals,      \* how often another client has taken the selection
  clients,     \* whether clients have windows
  clicks,      \* clicks that the client has not seen yet
  crashed,     \* Xlib was called on NULL or on a closed connection
  robbed,      \* history: copies whose event another copy has taken
  slipped      \* history: copies whose window came after the XQueryTree()

server == <<windows, owner, clients>>
copies == <<copyPc, expired, robbed, slipped>>
clipVars == <<mdisplay, drawer, inputs, pressing, queue, rivals, clicks, crashed, server, copies>>

Nobody == 0
Rival == MaxInputs + 1
Texts == 1..MaxInputs

Goto(k, place) == copyPc' = [copyPc EXCEPT ![k] = place]
At(k, place) == ~crashed /\ copyPc[k] = place
Owning == {"own", "check", "loop", "next", "free"}
Active(k) == copyPc[k] \in Owning \cup {"start"}
-----------------------------------------------------------------------------
(* inputString().                                                             *)

InputString ==
  /\ ~crashed /\ ~pressing /\ mdisplay /\ inputs < MaxInputs
  /\ inputs' = inputs + 1
  /\ pressing' = TRUE
  /\ Goto(inputs', "start")
  /\ UNCHANGED <<mdisplay, drawer, queue, rivals, clicks, crashed, server, expired, robbed, slipped>>

\* buttonpress(mdisplay, 2) and buttonrelease(), whatever the thread has done.
PressButton ==
  /\ ~crashed /\ pressing
  /\ pressing' = FALSE
  /\ crashed' = ~mdisplay
  /\ clicks' = IF mdisplay /\ clients THEN clicks + 1 ELSE clicks
  /\ UNCHANGED <<mdisplay, drawer, inputs, queue, rivals, server, copies>>
-----------------------------------------------------------------------------
(* copy().                                                                    *)

CreateWindow(k) ==
  /\ At(k, "start")
  /\ crashed' = ~mdisplay
  /\ windows' = IF mdisplay THEN windows \cup {k} ELSE windows
  /\ slipped' = IF drawer = "closing" THEN slipped \cup {k} ELSE slipped
  /\ Goto(k, IF mdisplay THEN "own" ELSE "start")
  /\ UNCHANGED <<mdisplay, drawer, inputs, pressing, queue, owner, rivals, clients, clicks, expired, robbed>>

\* XSetSelectionOwner(), and XGetSelectionOwner() some time later.
SetOwner(k) ==
  /\ At(k, "own")
  /\ crashed' = ~mdisplay
  /\ owner' = k
  /\ Goto(k, "check")
  /\ UNCHANGED <<mdisplay, drawer, inputs, pressing, queue, windows, rivals, clients, clicks, expired, robbed, slipped>>
CheckOwner(k) ==
  /\ At(k, "check")
  /\ crashed' = ~mdisplay
  /\ Goto(k, IF owner = k THEN "loop" ELSE "left")
  /\ UNCHANGED <<mdisplay, drawer, inputs, pressing, queue, server, rivals, clicks, expired, robbed, slipped>>

\* while (time(NULL) <= end) with XPending().
LoopPending(k, pending) ==
  /\ At(k, "loop")
  /\ crashed' = ~mdisplay
  /\ expired[k] \/ pending
  /\ Goto(k, IF expired[k] THEN "free" ELSE "next")
  /\ UNCHANGED <<mdisplay, drawer, inputs, pressing, queue, server, rivals, clicks, expired, robbed, slipped>>
LoopUnasked(k) == LoopPending(k, TRUE)
Loop(k) == LoopPending(k, queue # <<>> \/ ~mdisplay)

\* XNextEvent(), which blocks while there is no event, and the answer.  Whoever
\* has seen this event in XPending(), too, will find it gone.
NextEvent(k) ==
  /\ At(k, "next") /\ (queue # <<>> \/ ~mdisplay)
  /\ crashed' = ~mdisplay
  /\ queue' = IF mdisplay THEN Tail(queue) ELSE queue
  /\ robbed' = robbed \cup {j \in Texts \ {k} : copyPc[j] = "next" /\ queue' = <<>>}
  /\ Goto(k, "loop")
  /\ UNCHANGED <<mdisplay, drawer, inputs, pressing, server, rivals, clicks, expired, slipped>>

\* free(text) and XDestroyWindow(): the selection has no owner any more.
FreeLeaving(k, left) ==
  /\ At(k, "free")
  /\ crashed' = ~mdisplay
  /\ windows' = left
  /\ owner' = IF owner \in left \cup {Rival} THEN owner ELSE Nobody
  /\ Goto(k, "done")
  /\ UNCHANGED <<mdisplay, drawer, inputs, pressing, queue, rivals, clients, clicks, expired, robbed, slipped>>
FreeOnlyText(k) == FreeLeaving(k, windows)
Free(k) == FreeLeaving(k, windows \ {k})

\* The second that the text stays is over.
Expire(k) ==
  /\ ~crashed /\ Active(k) /\ ~expired[k]
  /\ expired' = [expired EXCEPT ![k] = TRUE]
  /\ UNCHANGED <<mdisplay, drawer, inputs, pressing, queue, rivals, clicks, crashed, server, copyPc, robbed, slipped>>

Copy(k) ==
  \/ CreateWindow(k) \/ SetOwner(k) \/ CheckOwner(k) \/ Loop(k) \/ NextEvent(k) \/ Free(k)
-----------------------------------------------------------------------------
(* The clients: one asks for the selection when it is clicked, another one    *)
(* takes it, and they leave.                                                  *)

ClientAsks ==
  /\ ~crashed /\ mdisplay /\ clients /\ clicks > 0
  /\ clicks' = clicks - 1
  /\ queue' = IF owner \in Texts THEN Append(queue, "request") ELSE queue
  /\ UNCHANGED <<mdisplay, drawer, inputs, pressing, rivals, crashed, server, copies>>
RivalTakes ==
  /\ ~crashed /\ mdisplay /\ clients /\ rivals < MaxRivals
  /\ rivals' = rivals + 1
  /\ queue' = IF owner \in Texts THEN Append(queue, "clear") ELSE queue
  /\ owner' = Rival
  /\ UNCHANGED <<mdisplay, drawer, inputs, pressing, clicks, crashed, windows, clients, copies>>
ClientsLeave ==
  /\ ~crashed /\ clients
  /\ clients' = FALSE /\ clicks' = 0
  /\ owner' = IF owner = Rival THEN Nobody ELSE owner
  /\ UNCHANGED <<mdisplay, drawer, inputs, pressing, queue, rivals, crashed, windows, copies>>
-----------------------------------------------------------------------------
(* The drawing thread: checkClientOnline().                                   *)

QueryTreeSeeing(children) ==
  /\ ~crashed /\ mdisplay /\ drawer = "idle" /\ ~children
  /\ drawer' = "closing"
  /\ UNCHANGED <<mdisplay, inputs, pressing, queue, rivals, clicks, crashed, server, copies>>
QueryTreeOfClients == QueryTreeSeeing(clients)
QueryTree == QueryTreeSeeing(clients \/ windows # {})
CloseDisplay ==
  /\ ~crashed /\ drawer = "closing"
  /\ drawer' = "idle"
  /\ mdisplay' = FALSE /\ queue' = <<>>
  /\ windows' = {} /\ owner' = Nobody
  /\ UNCHANGED <<inputs, pressing, rivals, clicks, crashed, clients, copies>>
-----------------------------------------------------------------------------
ClipInit ==
  /\ mdisplay = TRUE /\ drawer = "idle"
  /\ inputs = 0 /\ pressing = FALSE
  /\ copyPc = [k \in Texts |-> "none"] /\ expired = [k \in Texts |-> FALSE]
  /\ windows = {} /\ queue = <<>> /\ owner = Nobody /\ rivals = 0
  /\ clients = TRUE /\ clicks = 0
  /\ crashed = FALSE /\ robbed = {} /\ slipped = {}

ClipNext ==
  \/ InputString \/ PressButton \/ ClientAsks \/ RivalTakes \/ ClientsLeave
  \/ QueryTree \/ CloseDisplay
  \/ \E k \in Texts : Copy(k) \/ Expire(k)

ClipSpec == ClipInit /\ [][ClipNext]_clipVars

\* Every thread goes on, time passes, and the drawing thread looks again and again.
ClipFairSpec ==
  /\ ClipSpec
  /\ WF_clipVars(PressButton) /\ WF_clipVars(QueryTree) /\ WF_clipVars(CloseDisplay)
  /\ \A k \in Texts : WF_clipVars(Copy(k)) /\ WF_clipVars(Expire(k))
-----------------------------------------------------------------------------
(* Properties. *)

\* From the creation of its window to its end, a copy uses the connection without
\* asking whether it is still there: its own window keeps the drawing thread from
\* closing it, unless the window slips in between XQueryTree() and XCloseDisplay().
WindowKeepsConnection ==
  \A k \in Texts : copyPc[k] \in Owning /\ k \notin slipped => mdisplay

\* A copy thread ends, although it shares the queue, unless another one takes the
\* event that it has seen in XPending(): then it may wait for ever.
CopiesEnd ==
  \A k \in Texts :
    copyPc[k] = "start" ~> (copyPc[k] \in {"done", "left"} \/ k \in robbed \/ crashed)

\* When the last client has left, the drawing thread closes the connection, unless
\* there is a copy thread that was robbed, or that has left without destroying its
\* window because a rival was faster.
ConnectionIsClosedAtLast ==
  ~clients ~> (~mdisplay \/ crashed \/ \E k \in Texts : k \in robbed \/ copyPc[k] = "left")

\* clipboard.c:18: "seconds_active states the number of seconds the text will stay
\* on the clipboard".  It does not hold when two copy threads share the queue.
TextLeavesInTime ==
  \A k \in Texts : (owner = k /\ expired[k]) ~> (owner # k \/ crashed)
=============================================================================
