----------------------------- MODULE ViewerPipe -----------------------------
(***************************************************************************)
(* The relay of one device's screen to the viewers watching it: fanout and *)
(* _ViewerPipe of server/app/manager.py, each viewer's queue and sending   *)
(* task, and the request for a keyframe that goes back to the device.      *)
(*                                                                         *)
(* Everything here runs on one event loop.  fanout and offer await         *)
(* nothing, so one frame is handed to every viewer in one step; a viewer's *)
(* task awaits between taking an item from its queue and having sent it.   *)
(* Time is counted in ticks; an age stops growing once no comparison in    *)
(* the code can tell it from a greater one.                                *)
(***************************************************************************)
EXTENDS Integers, Sequences, FiniteSets

CONSTANTS
  Viewers,    \* dashboard sockets
  None,       \* a viewer's task is not sending
  CatchUp,    \* CATCH_UP, LAG_LIMIT, MAX_FRAMES, MAX_BYTES of _ViewerPipe
  LagLimit,
  MaxFrames,
  MaxBytes,
  AskGap,     \* an agent is asked for a keyframe at most once in this time
  AskAgain,   \* a viewer still waiting after this time asks again
  Size,       \* bytes of a frame, by its kind
  MaxItems,   \* bound: items in a queue, for a frame to arrive
  MaxStale,   \* bound: frames left in the socket of a replaced connection
  MaxLost     \* bound: keyframe requests the capture loop overlooks

Video == {"key", "delta", "still"}
Control == {"json", "clip"}
Standalone == {"key", "still"}     \* decodable with nothing before it

ASSUME LimitsAssumption ==
  /\ {CatchUp, LagLimit, AskGap, AskAgain} \subseteq Nat
  /\ CatchUp < LagLimit /\ LagLimit < AskAgain /\ AskGap < AskAgain
  /\ MaxFrames \in Nat \ {0}
  /\ MaxBytes \in Nat \ {0}
  /\ Size \in [Video -> Nat \ {0}]
  /\ {MaxItems, MaxStale, MaxLost} \subseteq Nat
ASSUME NoneAssumption == None \notin Video \cup Control

VARIABLES
  pipe,      \* pipe[v]: the _ViewerPipe of v
  subs,      \* the screen subscribers of the agent's connection
  keyAge,    \* time since a keyframe was asked of the agent (key_asked)
  online,    \* the agent has a connection
  capture,   \* what the agent's capture loop sends next
  asked,     \* the keyframe request on its way to the agent, or with it
  stale,     \* frames unread in the socket of a replaced connection
  lost       \* keyframe requests overlooked so far

vars == <<pipe, subs, keyAge, online, capture, asked, stale, lost>>

OldAge == AskAgain + 1     \* older than any limit
Older(age) == IF age < OldAge THEN age + 1 ELSE age

\* tail and garbled are history: whether the stream put together for the
\* viewer (sent and queued) reaches the last frame that arrived for it, and
\* whether a delta was ever put into it that does not follow what is there.
FreshPipe ==
  [items |-> <<>>, frames |-> 0, bytes |-> 0, waiting |-> FALSE,
   wants |-> FALSE, asked |-> OldAge, sending |-> None, dead |-> FALSE,
   tail |-> "new", garbled |-> FALSE]

ClosedPipe == [FreshPipe EXCEPT !.dead = TRUE]

Init ==
  /\ pipe = [v \in Viewers |-> ClosedPipe]
  /\ subs = {}
  /\ keyAge = OldAge
  /\ online = TRUE
  /\ capture = "off"
  /\ asked = "no"
  /\ stale = 0
  /\ lost = 0

-----------------------------------------------------------------------------
(* One pipe.                                                               *)

IsVideo(item) == item.kind \in Video
IsControl(item) == item.kind \in Control

\* The items but the frames, in order.
ControlOnly(items) ==
  LET kept[n \in 0 .. Len(items)] ==
        IF n = 0 THEN <<>>
        ELSE IF IsControl(items[n]) THEN Append(kept[n - 1], items[n]) ELSE kept[n - 1]
  IN  kept[Len(items)]

\* _put
Put(p, kind) == [p EXCEPT !.items = Append(@, [kind |-> kind, age |-> 0])]

\* How long the oldest queued frame has waited (_oldest).
Lag(p) ==
  LET frames == SelectSeq(p.items, IsVideo)
  IN  IF frames = <<>> THEN 0 ELSE Head(frames).age

\* History: the viewer's stream no longer reaches the last frame; a frame is
\* added to it; the last frame is not of the device's current connection.
Cut(p) == [p EXCEPT !.tail = "cut"]
Extended(p, kind) ==
  [p EXCEPT !.tail = IF kind = "delta" THEN @ ELSE "whole",
            !.garbled = @ \/ (kind = "delta" /\ p.tail = "cut")]
Mixed(p) == IF p.tail = "whole" THEN [p EXCEPT !.tail = "mixed"] ELSE p

\* Mutants of Purged: the counters are not reset; the queue is cleared.
PurgedUncounted(p) == Cut([p EXCEPT !.items = ControlOnly(@)])
PurgedWhole(p) == Cut([p EXCEPT !.items = <<>>, !.frames = 0, !.bytes = 0])

\* _purge: the frames go, everything else stays in order.
Purged(p) ==
  Cut([p EXCEPT !.items = ControlOnly(@), !.frames = 0, !.bytes = 0])

\* A frame joins the queue; one that stands alone ends the wait.
PutFrame(p, kind) ==
  LET counted == [p EXCEPT !.waiting = @ /\ kind = "delta",
                           !.frames = @ + 1, !.bytes = @ + Size[kind]]
  IN  Extended(Put(counted, kind), kind)

\* Mutant of SetAside: the viewer asks for a keyframe without waiting for it.
AskOnly(p) == Cut([p EXCEPT !.wants = TRUE])

\* The delta at hand is dropped, and what follows until a keyframe.
SetAside(p) == Cut([p EXCEPT !.waiting = TRUE, !.wants = TRUE])

\* Mutant of StillUnanswered: once asked is enough.
NeverAgain(p) == FALSE

\* The keyframe asked for has been long in coming.
StillUnanswered(p) == p.asked > AskAgain

\* Mutant of Behind: what matters is the clock alone.
BehindByClock(p) == Lag(p) > LagLimit

Behind(p) == Lag(p) > LagLimit \/ p.frames >= MaxFrames \/ p.bytes >= MaxBytes

\* offer
Offer(p, kind) ==
  LET told == Put(p, "json") IN      \* {"type": "behind"}
  CASE kind \in Control -> Put(p, kind)
    [] kind = "delta" /\ p.waiting ->
         Cut([p EXCEPT !.wants = @ \/ StillUnanswered(p)])
    [] kind = "delta" /\ ~p.waiting ->
         IF Behind(p) THEN SetAside(told) ELSE PutFrame(p, kind)
    [] kind \in Standalone ->
         PutFrame(IF Lag(p) > CatchUp THEN Purged(p)
                  ELSE IF Behind(p) THEN Purged(told) ELSE p, kind)

-----------------------------------------------------------------------------
(* The agent's connection hands over what it received.                     *)

Live == {v \in subs : ~pipe[v].dead}

OfferedAll(kind) ==
  [v \in Viewers |-> IF v \in Live THEN Offer(pipe[v], kind) ELSE pipe[v]]

\* fanout: dead pipes are dropped, the others are offered the message, and
\* then whoever waits for a keyframe asks for one, at most once in AskGap.
\* before is what has become of the requests made so far.
Fanout(offered, before) ==
  LET asking == {v \in Live : offered[v].wants}
      mayAsk == asking # {} /\ keyAge >= AskGap
  IN
  /\ subs' = Live
  /\ pipe' = [v \in Viewers |->
       IF v \notin asking THEN offered[v]
       ELSE [offered[v] EXCEPT !.wants = FALSE,
                               !.asked = IF mayAsk THEN 0 ELSE @]]
  /\ keyAge' = IF mayAsk THEN 0 ELSE keyAge
  /\ asked' = IF mayAsk /\ before = "no" THEN "sent" ELSE before

RoomFor(n) == \A v \in Live : Len(pipe[v].items) + n <= MaxItems

\* A reply to the viewers that is not a picture: an error, the codec, text
\* copied on the device.
ControlArrives(kind) ==
  /\ online
  /\ RoomFor(2)
  /\ Fanout(OfferedAll(kind), asked)
  /\ UNCHANGED <<online, capture, stale, lost>>

\* The capture loop's next frame.  The first of an H.264 capture is a
\* keyframe, as is the one after a request; the encoder makes others of its
\* own accord.  (A frame that is set aside needs no room.)
FrameArrives(kind) ==
  /\ online
  /\ RoomFor(1)
  /\ \/ capture = "first" /\ kind = "key"
     \/ capture = "h264" /\ kind = "key"
     \/ capture = "h264" /\ kind = "delta" /\ asked # "received"
     \/ capture = "jpeg" /\ kind = "still"
  /\ capture' = IF capture = "first" THEN "h264" ELSE capture
  /\ Fanout(OfferedAll(kind), IF asked = "received" THEN "no" ELSE asked)
  /\ UNCHANGED <<online, stale, lost>>

\* What the replaced connection's handler still reads goes to the viewers of
\* the device's new connection: fanout looks the device up, not its own
\* connection.  It is no part of their stream.
StaleFrameArrives(kind) ==
  LET offered == OfferedAll(kind) IN
  /\ online
  /\ stale > 0
  /\ RoomFor(1)
  /\ stale' = stale - 1
  /\ Fanout([v \in Viewers |-> Mixed(offered[v])], asked)
  /\ UNCHANGED <<online, capture, lost>>

\* _ask_keyframe reaches the agent, which has its capture loop make the next
\* frame a keyframe.
AskArrives ==
  /\ asked = "sent"
  /\ asked' = IF capture = "off" THEN "no" ELSE "received"
  /\ UNCHANGED <<pipe, subs, keyAge, online, capture, stale, lost>>

\* The capture loop clears want_key after a test that found it not yet set:
\* the request is overlooked.
AskOverlooked ==
  /\ asked = "received"
  /\ lost < MaxLost
  /\ lost' = lost + 1
  /\ asked' = "no"
  /\ UNCHANGED <<pipe, subs, keyAge, online, capture, stale>>

\* screen_start and screen_stop, and a capture that ends by itself.
CaptureChanges(next) ==
  /\ online
  /\ capture # next
  /\ capture' = next
  /\ asked' = IF asked = "received" THEN "no" ELSE asked
  /\ UNCHANGED <<pipe, subs, keyAge, online, stale, lost>>

\* register and unregister: the viewers of the connection that went are
\* closed (_release_viewers), and the new one starts without any.
Released == [v \in Viewers |-> IF v \in subs THEN ClosedPipe ELSE pipe[v]]

AgentConnects(unread) ==
  /\ online' = TRUE
  /\ stale' = IF online THEN unread ELSE stale
  /\ pipe' = Released
  /\ subs' = {}
  /\ keyAge' = OldAge
  /\ capture' = "off"
  /\ asked' = "no"
  /\ UNCHANGED lost

AgentLeaves ==
  /\ online
  /\ online' = FALSE
  /\ pipe' = Released
  /\ subs' = {}
  /\ capture' = "off"
  /\ asked' = "no"
  /\ keyAge' = OldAge
  /\ UNCHANGED <<stale, lost>>

-----------------------------------------------------------------------------
(* A viewer.                                                               *)

\* subscribe
Join(v) ==
  /\ online
  /\ v \notin subs
  /\ subs' = subs \cup {v}
  /\ pipe' = [pipe EXCEPT ![v] = FreshPipe]
  /\ UNCHANGED <<keyAge, online, capture, asked, stale, lost>>

\* unsubscribe
Leave(v) ==
  /\ v \in subs
  /\ subs' = subs \ {v}
  /\ pipe' = [pipe EXCEPT ![v] = ClosedPipe]
  /\ UNCHANGED <<keyAge, online, capture, asked, stale, lost>>

\* _run: an item leaves the queue, and the counts, before it is sent.
Take(v) ==
  LET p == pipe[v]
      kind == Head(p.items).kind
      bytes == IF kind \in Video THEN Size[kind] ELSE 0
  IN
  /\ ~p.dead
  /\ p.sending = None
  /\ p.items # <<>>
  /\ pipe' = [pipe EXCEPT ![v] =
       [p EXCEPT !.items = Tail(@), !.sending = kind,
                 !.frames = IF kind \in Video THEN @ - 1 ELSE @,
                 !.bytes = @ - bytes]]
  /\ UNCHANGED <<subs, keyAge, online, capture, asked, stale, lost>>

Sent(v) ==
  /\ pipe[v].sending # None
  /\ pipe' = [pipe EXCEPT ![v].sending = None]
  /\ UNCHANGED <<subs, keyAge, online, capture, asked, stale, lost>>

\* The send raises: the task ends, and fanout drops the pipe in time.
SendFails(v) ==
  /\ pipe[v].sending # None
  /\ pipe' = [pipe EXCEPT ![v] = [@ EXCEPT !.sending = None, !.dead = TRUE]]
  /\ UNCHANGED <<subs, keyAge, online, capture, asked, stale, lost>>

\* Only frames are ever asked how long they have waited.
Aged(items) ==
  [i \in DOMAIN items |->
     IF IsVideo(items[i]) /\ items[i].age <= LagLimit
     THEN [items[i] EXCEPT !.age = @ + 1] ELSE items[i]]

Tick ==
  /\ keyAge' = Older(keyAge)
  /\ pipe' = [v \in Viewers |->
       [pipe[v] EXCEPT !.asked = Older(@), !.items = Aged(@)]]
  /\ UNCHANGED <<subs, online, capture, asked, stale, lost>>

-----------------------------------------------------------------------------
Next ==
  \/ \E kind \in Control : ControlArrives(kind)
  \/ \E kind \in Video : FrameArrives(kind)
  \/ \E kind \in Video : StaleFrameArrives(kind)
  \/ AskArrives
  \/ AskOverlooked
  \/ \E next \in {"first", "jpeg", "off"} : CaptureChanges(next)
  \/ \E unread \in 0 .. MaxStale : AgentConnects(unread)
  \/ AgentLeaves
  \/ \E v \in Viewers : Join(v) \/ Leave(v) \/ Take(v) \/ Sent(v) \/ SendFails(v)
  \/ Tick

Spec == Init /\ [][Next]_vars

\* The frame that the capture loop cannot but send: a keyframe only when it is
\* the first or was asked for, so that no one relies on those that the encoder
\* makes of its own accord.
FrameDue(kind) ==
  /\ kind = "key" => capture = "first" \/ asked = "received"
  /\ FrameArrives(kind)

\* Time passes, the capture loop sends a frame every tick of its own clock
\* (a still screen is encoded again), a request reaches the agent, and a
\* viewer's socket takes what it is sent or fails.
Fairness ==
  /\ WF_vars(Tick)
  /\ WF_vars(\E kind \in Video : FrameDue(kind))
  /\ WF_vars(AskArrives)
  /\ \A v \in Viewers : WF_vars(Take(v)) /\ WF_vars(Sent(v) \/ SendFails(v))

FairSpec == Spec /\ Fairness

-----------------------------------------------------------------------------
(* Properties.                                                             *)

Item == [kind : Video \cup Control, age : 0 .. LagLimit + 1]
Pipe ==
  [items : Seq(Item), frames : Int, bytes : Int, waiting : BOOLEAN,
   wants : BOOLEAN, asked : 0 .. OldAge,
   sending : Video \cup Control \cup {None}, dead : BOOLEAN,
   tail : {"new", "whole", "mixed", "cut"}, garbled : BOOLEAN]

\* Every variable keeps its type, and only pipes of subscribers are alive.
TypeOK ==
  /\ pipe \in [Viewers -> Pipe]
  /\ subs \subseteq Viewers
  /\ keyAge \in 0 .. OldAge
  /\ online \in BOOLEAN
  /\ capture \in {"off", "first", "h264", "jpeg"}
  /\ asked \in {"no", "sent", "received"}
  /\ stale \in 0 .. MaxStale
  /\ lost \in 0 .. MaxLost
  /\ ~online => subs = {}
  /\ \A v \in Viewers \ subs : pipe[v].dead

Queued(items, kind) == Cardinality({n \in 1 .. Len(items) : items[n].kind = kind})

\* The counts a pipe keeps are those of the frames in its queue, though they
\* are taken down before the send and the queue may be purged during it.
CountsMatch ==
  \A v \in Viewers :
    LET p == pipe[v]
        OfKind(kind) == Queued(p.items, kind)
    IN  ~p.dead =>
          /\ p.frames = OfKind("key") + OfKind("delta") + OfKind("still")
          /\ p.bytes = Size["key"] * OfKind("key") + Size["delta"] * OfKind("delta")
                       + Size["still"] * OfKind("still")

\* A viewer that does not receive costs the server a bounded number of frames
\* and bytes: one frame past the limits at most.
QueueBounded ==
  \A v \in Viewers :
    /\ pipe[v].frames <= MaxFrames
    /\ \E kind \in Video : pipe[v].bytes < MaxBytes + Size[kind]

\* Once a viewer's stream has been cut - by a purge or by a frame that was set
\* aside - no delta enters it before a frame that stands alone: what is queued
\* "follows on from a keyframe, so it decodes" (offer).  (It is silent on the
\* frames that a replaced connection adds: those follow nothing.)
Decodable == \A v \in subs : ~pipe[v].garbled

\* Clipboard text and control messages are never thrown away and keep their
\* order: a live queue loses one only by sending it.
ControlNeverDropped ==
  [][\A v \in subs \cap subs' :
       \/ Take(v)
       \/ LET before == ControlOnly(pipe[v].items)
              after == ControlOnly(pipe'[v].items)
          IN  Len(after) >= Len(before) /\ SubSeq(after, 1, Len(before)) = before]_vars

\* A viewer that waits for a keyframe gets one as long as the device keeps
\* capturing, even when its request falls within AskGap of an earlier one, or
\* is overlooked on the device.
WaitingViewerIsServed ==
  \A v \in Viewers :
    pipe[v].waiting ~> \/ ~pipe[v].waiting
                       \/ pipe[v].dead
                       \/ capture = "off"

\* The queue is kept by hand, on every put, take and purge, while a send is
\* under way: its counts stay exact, it stays within its limits, and its control
\* messages stay in it.
QueueIsKept == [](CountsMatch /\ QueueBounded) /\ ControlNeverDropped
=============================================================================
