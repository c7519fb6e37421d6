--------------------------- MODULE ScreenSession ---------------------------
(***************************************************************************)
(* One device's screen sessions: the viewers' handlers on the server       *)
(* (_bridge_ws), the session the agent has (Agent._screen_start,           *)
(* ScreenSession), the thread that relays the frames of a helper process   *)
(* (_win_bridge), and the helper's own threads: capture, sender, input     *)
(* reader and the banner for the person at the device.  The session, its   *)
(* thread and its helper are three parties that learn of an end from each  *)
(* other only, through a flag and a loopback socket.                       *)
(*                                                                         *)
(* What the frames hold, and their way from the agent's connection to the  *)
(* viewers, is ViewerPipe: here they are counted.  A message from the      *)
(* server is handled in the step that sends it (the agent handles them in  *)
(* order, one at a time; one that is lost with the connection is one that  *)
(* was not sent), and input crosses the loopback socket at once.           *)
(* ViewerPipeProofs extends this module together with ViewerPipe, so the   *)
(* two share no name.                                                      *)
(***************************************************************************)
EXTENDS Naturals

CONSTANTS
  Watchers,       \* the dashboard's screen sockets
  Shots,         \* those that take one still (?purpose=screenshot)
  Waiting,       \* frames between capture and relay: the sender's queue and the socket
  MaxSessions,   \* bound: captures started
  Nothing

ASSUME ShotsAreViewers == Shots \subseteq Watchers
ASSUME BoundsArePositive == {Waiting, MaxSessions} \subseteq Nat \ {0}

Ids == 1..MaxSessions

VARIABLES
  platform,   \* "Windows", where a helper captures, or "other"
  connected,     \* the agent's connection stands
  watching,   \* viewers whose handler receives
  leaving,    \* viewers whose socket is closed and whose handler has yet to end
  current,    \* Agent.screen
  used,       \* sessions made so far
  session,    \* every ScreenSession made, with its relaying thread
  helper      \* and its helper process

screenVars == <<platform, connected, watching, leaving, current, used, session, helper>>
viewing == <<connected, watching, leaving>>
atAgent == <<platform, current, used>>

Unused == [purpose |-> Nothing, stop |-> FALSE, sock |-> "none", bridge |-> "none",
           told |-> FALSE, late |-> 0]
NoHelper == [run |-> "none", stop |-> FALSE, capture |-> FALSE, banner |-> "none", frames |-> 0]

ScreenTypeOK ==
  /\ platform \in {"Windows", "other"} /\ connected \in BOOLEAN
  /\ watching \subseteq Watchers /\ leaving \subseteq Watchers \ watching
  /\ used \in 0..MaxSessions /\ current \in (1..used) \cup {Nothing}
  /\ session \in [Ids -> [purpose : {Nothing, "control", "screenshot"}, stop : BOOLEAN,
                          sock : {"none", "open", "closed"},
                          bridge : {"none", "launching", "listening", "receiving", "sending",
                                    "telling", "direct", "done"},
                          told : BOOLEAN, late : Nat]]
  /\ helper \in [Ids -> [run : {"none", "starting", "up", "ended"}, stop : BOOLEAN,
                         capture : BOOLEAN, frames : 0..Waiting,
                         banner : {"none", "shown", "hidden", "gone"}]]

ScreenInit ==
  /\ platform \in {"Windows", "other"} /\ connected = TRUE
  /\ watching = {} /\ leaving = {}
  /\ current = Nothing /\ used = 0
  /\ session = [s \in Ids |-> Unused] /\ helper = [s \in Ids |-> NoHelper]

----------------------------------------------------------------------------
(* The agent's handlers.                                                   *)

Stopped(x) ==
  [x EXCEPT !.stop = TRUE, !.sock = IF @ = "open" THEN "closed" ELSE @,
            !.bridge = IF @ = "direct" THEN "done" ELSE @]

SessionsStopped == IF current = Nothing THEN session ELSE [session EXCEPT ![current] = Stopped(@)]

\* On Windows a thread is started, to relay what a helper captures.
Begins(able) ==
  IF ~able THEN "done" ELSE IF platform = "Windows" THEN "launching" ELSE "direct"

\* A start replaces the session there is.  Without what it needs to capture the new one
\* is given up at once, and the viewers are told.
ScreenStart(purpose) ==
  /\ used < MaxSessions /\ used' = used + 1
  /\ \E able \in BOOLEAN :
       /\ current' = IF able THEN used' ELSE Nothing
       /\ session' = [SessionsStopped EXCEPT ![used'] =
                        [Unused EXCEPT !.purpose = purpose, !.bridge = Begins(able), !.told = ~able]]
  /\ UNCHANGED <<platform, helper>>

ScreenStop ==
  /\ session' = SessionsStopped /\ current' = Nothing
  /\ UNCHANGED <<platform, used, helper>>

----------------------------------------------------------------------------
(* The viewers and their handlers on the server.                           *)

\* The server starts the capture for a still; the other viewers send their own start.
Open(v) ==
  /\ connected /\ v \notin watching \cup leaving
  /\ watching' = watching \cup {v} /\ UNCHANGED <<connected, leaving>>
  /\ IF v \in Shots THEN ScreenStart("screenshot") ELSE UNCHANGED <<atAgent, session, helper>>

\* On opening, and again for another quality or a JPEG stream.
StartCapture(v) ==
  /\ v \in watching \ Shots
  /\ ScreenStart("control") /\ UNCHANGED viewing

\* The handler's end stops the capture, on whatever connection the device has by then.
HandlerEnds == IF connected THEN ScreenStop ELSE UNCHANGED <<atAgent, session, helper>>

Close(v) ==
  /\ v \in watching
  /\ watching' = watching \ {v} /\ UNCHANGED <<connected, leaving>>
  /\ HandlerEnds

Finish(v) ==
  /\ v \in leaving
  /\ leaving' = leaving \ {v} /\ UNCHANGED <<connected, watching>>
  /\ HandlerEnds

\* A lost connection closes its viewers' sockets, and leaves the agent's session alone.
Lose ==
  /\ connected /\ connected' = FALSE
  /\ watching' = {} /\ leaving' = leaving \cup watching
  /\ UNCHANGED <<atAgent, session, helper>>

Reconnect ==
  /\ ~connected /\ connected' = TRUE
  /\ UNCHANGED <<watching, leaving, atAgent, session, helper>>

\* Elsewhere than on Windows the agent captures by itself, until it is stopped or fails.
DirectFails(s) ==
  /\ session[s].bridge = "direct"
  /\ session' = [session EXCEPT ![s].bridge = "done", ![s].told = TRUE]
  /\ UNCHANGED <<viewing, atAgent, helper>>

----------------------------------------------------------------------------
(* The thread that launches the helper and relays its frames.  Between a   *)
(* look at the flag and what follows it, the agent may stop the session.   *)

\* Mutant of Ending: said of a session that was stopped, too.
EndingAlways(s) == "telling"

\* The thread has nothing more to relay: it says so, unless the session was stopped.
Ending(s) == IF session[s].stop THEN "done" ELSE "telling"

\* It goes on as long as the session is not stopped.
Relaying(s) == IF session[s].stop THEN "done" ELSE "receiving"

Goes(s, to) == session' = [session EXCEPT ![s].bridge = to]

\* Something of session s is handed to the agent's loop: late if the session is stopped.
HandsOver(s, to, told) ==
  session' = [session EXCEPT ![s].bridge = to, ![s].told = @ \/ told,
                             ![s].late = IF session[s].stop THEN @ + 1 ELSE @]

\* As the system in the session on the console, and otherwise as the user signed in there.
ConsoleHelper(console, works) == console /\ works
UserHelper(console, signedIn) == console /\ signedIn

\* Mutant of Launch: a helper that could not be launched is not said.
LaunchUnsaid(s) ==
  /\ session[s].bridge = "launching"
  /\ \E console, works, signedIn \in BOOLEAN :
       IF ConsoleHelper(console, works) \/ UserHelper(console, signedIn)
       THEN /\ Goes(s, "listening")
            /\ helper' = [helper EXCEPT ![s].run = "starting"]
       ELSE Goes(s, "done") /\ UNCHANGED helper

Launch(s) ==
  /\ session[s].bridge = "launching"
  /\ \E console, works, signedIn \in BOOLEAN :
       IF ConsoleHelper(console, works) \/ UserHelper(console, signedIn)
       THEN /\ Goes(s, "listening")
            /\ helper' = [helper EXCEPT ![s].run = "starting"]
       ELSE Goes(s, Ending(s)) /\ UNCHANGED helper

HelperUp(banner) == [NoHelper EXCEPT !.run = "up", !.capture = TRUE, !.banner = banner]

\* The helper connects and says its token.  One for control gives its main thread to the
\* banner, which waits without a window where there is nothing to show one with.  If the
\* session was stopped before it had this socket, nothing is relayed, and the socket is
\* closed with the last reference to it.
Accept(s) ==
  /\ session[s].bridge = "listening" /\ helper[s].run = "starting"
  /\ session' = [session EXCEPT ![s].bridge = Relaying(s),
                                ![s].sock = IF session[s].stop THEN "closed" ELSE "open"]
  /\ \E banner \in IF session[s].purpose = "control" THEN {"shown", "hidden"} ELSE {"none"} :
       helper' = [helper EXCEPT ![s] = HelperUp(banner)]

\* It does not in time, or ends before it has said its token; one that comes late finds
\* nobody listening.
NeverConnects(s) ==
  /\ session[s].bridge = "listening"
  /\ Goes(s, Ending(s))
  /\ helper' = [helper EXCEPT ![s].run = "ended"]

\* A frame is there, if only just before the socket was closed, and handed to the loop.
Receive(s) ==
  /\ session[s].bridge = "receiving" /\ helper[s].frames > 0
  /\ HandsOver(s, "sending", FALSE)
  /\ helper' = [helper EXCEPT ![s].frames = @ - 1]

\* The helper's end, the agent's own close, or thirty seconds without a frame: all the same.
ReceivesNothing(s) ==
  /\ session[s].bridge = "receiving"
  /\ session[s].sock = "closed" \/ helper[s].frames = 0
  /\ Goes(s, Ending(s))
  /\ UNCHANGED helper

\* The frame goes out, or the connection is lost or slow for fifteen seconds.
FrameGoes(s) ==
  /\ session[s].bridge = "sending"
  /\ \/ connected /\ Goes(s, Relaying(s))
     \/ Goes(s, Ending(s))
  /\ UNCHANGED helper

Tell(s) == session[s].bridge = "telling" /\ HandsOver(s, "done", TRUE) /\ UNCHANGED helper

Bridge(s) ==
  /\ \/ Launch(s) \/ Accept(s) \/ NeverConnects(s)
     \/ Receive(s) \/ ReceivesNothing(s) \/ FrameGoes(s) \/ Tell(s)
  /\ UNCHANGED <<viewing, atAgent>>

----------------------------------------------------------------------------
(* The helper process.  Its threads share one event, stop, and every one   *)
(* of them that ends sets it.                                              *)

HelperAlone == UNCHANGED <<viewing, atAgent, session>>

Becomes(s, h) == helper' = [helper EXCEPT ![s] = h]

\* One tick: the newest grab, encoded and queued for the sender.
Capture(s) ==
  /\ helper[s].capture /\ ~helper[s].stop /\ helper[s].frames < Waiting
  /\ Becomes(s, [helper[s] EXCEPT !.frames = @ + 1])

\* The loop's end closes the helper's socket.
CaptureStops(s) ==
  /\ helper[s].capture /\ helper[s].stop
  /\ Becomes(s, [helper[s] EXCEPT !.capture = FALSE])

\* Grabbing has failed two hundred times in a row, or encoding a hundred times.
CaptureGivesUp(s) ==
  /\ helper[s].capture /\ ~helper[s].stop
  /\ Becomes(s, [helper[s] EXCEPT !.capture = FALSE, !.stop = TRUE])

\* The agent's end of the socket is closed: the reader of input finds nothing more to
\* read, and the sender cannot send.
ReaderEnds(s) ==
  /\ helper[s].run = "up" /\ ~helper[s].stop /\ session[s].sock = "closed"
  /\ Becomes(s, [helper[s] EXCEPT !.stop = TRUE])

SenderFails(s) ==
  /\ helper[s].run = "up" /\ ~helper[s].stop /\ session[s].sock = "closed"
  /\ helper[s].frames > 0
  /\ Becomes(s, [helper[s] EXCEPT !.stop = TRUE, !.frames = @ - 1])

\* The banner's window goes by itself (the desktop is switched), and is shown again if
\* it can be: that must not end the session.
BannerLost(s) ==
  /\ helper[s].banner = "shown" /\ ~helper[s].stop
  /\ Becomes(s, [helper[s] EXCEPT !.banner = "hidden"])

BannerBack(s) ==
  /\ helper[s].banner = "hidden" /\ ~helper[s].stop
  /\ Becomes(s, [helper[s] EXCEPT !.banner = "shown"])

\* Mutant of BannerCloses: a window that is up does not look at the event.
BannerClosesUnseen(s) ==
  /\ helper[s].banner = "hidden" /\ helper[s].stop
  /\ Becomes(s, [helper[s] EXCEPT !.banner = "gone"])

BannerCloses(s) ==
  /\ helper[s].banner \in {"shown", "hidden"} /\ helper[s].stop
  /\ Becomes(s, [helper[s] EXCEPT !.banner = "gone"])

\* The person at the device ends the session.
Disconnect(s) ==
  helper[s].banner = "shown" /\ Becomes(s, [helper[s] EXCEPT !.banner = "gone", !.stop = TRUE])

\* The main thread is done: with the banner, or with the capture where there is none.
Exit(s) ==
  /\ helper[s].run = "up"
  /\ IF session[s].purpose = "control" THEN helper[s].banner = "gone" ELSE ~helper[s].capture
  /\ Becomes(s, [NoHelper EXCEPT !.run = "ended", !.frames = helper[s].frames])

\* The user signs out, or the process crashes.
HelperDies(s) ==
  /\ helper[s].run = "up"
  /\ Becomes(s, [NoHelper EXCEPT !.run = "ended", !.frames = helper[s].frames])

HelperStep(s) ==
  /\ \/ Capture(s) \/ CaptureStops(s) \/ CaptureGivesUp(s)
     \/ ReaderEnds(s) \/ SenderFails(s)
     \/ BannerLost(s) \/ BannerBack(s) \/ BannerCloses(s) \/ Disconnect(s)
     \/ Exit(s) \/ HelperDies(s)
  /\ HelperAlone

----------------------------------------------------------------------------

ScreenNext ==
  \/ \E v \in Watchers : Open(v) \/ StartCapture(v) \/ Close(v) \/ Finish(v)
  \/ Lose \/ Reconnect
  \/ \E s \in Ids : DirectFails(s) \/ Bridge(s) \/ HelperStep(s)

\* A thread that can go on does; nobody need close a viewer or click Disconnect, and
\* nothing need fail.
ScreenFairness ==
  \A s \in Ids :
    /\ WF_screenVars(Bridge(s))
    /\ WF_screenVars(HelperAlone /\ CaptureStops(s))
    /\ WF_screenVars(HelperAlone /\ ReaderEnds(s))
    /\ WF_screenVars(HelperAlone /\ BannerCloses(s))
    /\ WF_screenVars(HelperAlone /\ Exit(s))

ScreenSpec == ScreenInit /\ [][ScreenNext]_screenVars /\ ScreenFairness

----------------------------------------------------------------------------
(* Properties.                                                             *)

\* Once a session is stopped, by another start or a stop, its thread hands the agent at
\* most one thing more: the frame, or the words, it was at when the flag was set.  A new
\* session's viewers do not see the old one's pictures go on, nor read that it has ended.
ReplacedIsSilent == \A s \in Ids : session[s].late <= 1

\* The helper of a stopped session ends, with its banner, wherever the launch, the
\* connection or the relay stood when it was stopped: no process goes on capturing, and
\* no banner stays up, for a session that is over.
StoppedHelpersEnd ==
  \A s \in Ids : <>[](session[s].stop => helper[s].run \in {"none", "ended"})

\* A session that is over without having been stopped (Disconnect, a capture that gives
\* up, a helper that never comes, a connection too slow) has told the viewers.
EndIsTold == \A s \in Ids : session[s].bridge = "done" => session[s].told \/ session[s].stop

\* However a session ends, by a stop, a replacement or by itself, its viewers are told
\* what they need and nothing that belongs to another session.
SessionEndsCleanly == ReplacedIsSilent /\ EndIsTold
=============================================================================
