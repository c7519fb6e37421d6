-------------------------- MODULE ViewerPipeProofs --------------------------
(***************************************************************************)
(* What holds of the relay for any number of viewers and any limits.  The  *)
(* bound on what a viewer's queue holds, and that the stream it is sent    *)
(* decodes, rest only on what a pipe notes about its queue, so the first   *)
(* part leaves the contents untyped.  The second part is about them: that  *)
(* the counts are exact and that no message is lost.  The third is about   *)
(* where the frames come from: the screen sessions (ScreenSession), for    *)
(* any number of viewers and of sessions.                                  *)
(***************************************************************************)
EXTENDS ViewerPipe, ScreenSession, FiniteSetTheorems, WellFoundedInduction, TLAPS

\* A record with the fields of a pipe.
Shaped(p) ==
  p \in [items : {p.items}, frames : Int, bytes : Int, waiting : BOOLEAN,
         wants : BOOLEAN, asked : {p.asked}, sending : {p.sending},
         dead : BOOLEAN, tail : {"new", "whole", "mixed", "cut"}, garbled : BOOLEAN]

Counted(p) ==
  /\ p.frames <= MaxFrames
  /\ \E kind \in Video : p.bytes < MaxBytes + Size[kind]

Sound(p) ==
  /\ ~p.garbled
  /\ p.tail = "cut" => p.waiting

\* The inductive invariant.  A viewer whose stream has been cut is waiting for
\* a keyframe.
PipeInv ==
  /\ pipe = [v \in Viewers |-> pipe[v]]
  /\ stale \in 0 .. MaxStale
  /\ \A v \in Viewers :
       /\ Shaped(pipe[v])
       /\ Counted(pipe[v])
       /\ Sound(pipe[v])

-----------------------------------------------------------------------------
(* The shape of a pipe.                                                    *)

LEMMA Update ==
  ASSUME NEW p, Shaped(p)
  PROVE  /\ \A x : Shaped([p EXCEPT !.items = x])
         /\ \A x \in Int : Shaped([p EXCEPT !.frames = x])
         /\ \A x \in Int : Shaped([p EXCEPT !.bytes = x])
         /\ \A x \in BOOLEAN : Shaped([p EXCEPT !.waiting = x])
         /\ \A x \in BOOLEAN : Shaped([p EXCEPT !.wants = x])
         /\ \A x : Shaped([p EXCEPT !.asked = x])
         /\ \A x : Shaped([p EXCEPT !.sending = x])
         /\ \A x \in BOOLEAN : Shaped([p EXCEPT !.dead = x])
         /\ \A x \in {"new", "whole", "mixed", "cut"} : Shaped([p EXCEPT !.tail = x])
         /\ \A x \in BOOLEAN : Shaped([p EXCEPT !.garbled = x])
<1>1. \A x : Shaped([p EXCEPT !.items = x])  BY DEF Shaped
<1>2. \A x \in Int : Shaped([p EXCEPT !.frames = x])  BY DEF Shaped
<1>3. \A x \in Int : Shaped([p EXCEPT !.bytes = x])  BY DEF Shaped
<1>4. \A x \in BOOLEAN : Shaped([p EXCEPT !.waiting = x])  BY DEF Shaped
<1>5. \A x \in BOOLEAN : Shaped([p EXCEPT !.wants = x])  BY DEF Shaped
<1>6. \A x : Shaped([p EXCEPT !.asked = x])  BY DEF Shaped
<1>7. \A x : Shaped([p EXCEPT !.sending = x])  BY DEF Shaped
<1>8. \A x \in BOOLEAN : Shaped([p EXCEPT !.dead = x])  BY DEF Shaped
<1>9. \A x \in {"new", "whole", "mixed", "cut"} : Shaped([p EXCEPT !.tail = x])
  BY DEF Shaped
<1>10. \A x \in BOOLEAN : Shaped([p EXCEPT !.garbled = x])  BY DEF Shaped
<1> QED  BY <1>1, <1>2, <1>3, <1>4, <1>5, <1>6, <1>7, <1>8, <1>9, <1>10

LEMMA CutShape ==
  ASSUME NEW p, Shaped(p)
  PROVE  /\ Shaped(Cut(p))
         /\ Cut(p).frames = p.frames /\ Cut(p).bytes = p.bytes
         /\ Cut(p).waiting = p.waiting /\ Cut(p).tail = "cut"
         /\ Cut(p).garbled = p.garbled
BY DEF Shaped, Cut

\* A frame of a replaced connection leaves its mark in the history alone.
LEMMA MixedKeeps ==
  ASSUME NEW p, Shaped(p), Counted(p), Sound(p)
  PROVE  Shaped(Mixed(p)) /\ Counted(Mixed(p)) /\ Sound(Mixed(p))
<1>1. CASE p.tail # "whole"
  BY <1>1 DEF Mixed
<1>2. CASE p.tail = "whole"
  <2>1. Mixed(p) = [p EXCEPT !.tail = "mixed"]
    BY <1>2 DEF Mixed
  <2>2. Shaped(Mixed(p))
    BY <2>1, Update
  <2>3. /\ Mixed(p).frames = p.frames /\ Mixed(p).bytes = p.bytes
        /\ Mixed(p).garbled = p.garbled /\ Mixed(p).tail = "mixed"
    BY <2>1 DEF Shaped
  <2> QED  BY <2>2, <2>3 DEF Counted, Sound
<1> QED  BY <1>1, <1>2

LEMMA PutShape ==
  ASSUME NEW p, Shaped(p), NEW kind
  PROVE  LET q == Put(p, kind) IN
         /\ Shaped(q)
         /\ q.frames = p.frames /\ q.bytes = p.bytes
         /\ q.waiting = p.waiting /\ q.tail = p.tail /\ q.garbled = p.garbled
<1>1. Shaped(Put(p, kind))
  BY Update DEF Put
<1> QED  BY <1>1 DEF Shaped, Put

LEMMA PurgedShape ==
  ASSUME NEW p, Shaped(p)
  PROVE  LET q == Purged(p) IN
         /\ Shaped(q)
         /\ q.frames = 0 /\ q.bytes = 0
         /\ q.waiting = p.waiting /\ q.tail = "cut" /\ q.garbled = p.garbled
<1> DEFINE a == [p EXCEPT !.items = ControlOnly(@)]
           b == [a EXCEPT !.frames = 0]
           c == [b EXCEPT !.bytes = 0]
<1>0. 0 \in Int  OBVIOUS
<1>1. Shaped(a)  BY Update
<1> HIDE DEF a
<1>2. Shaped(b)  BY <1>0, <1>1, Update
<1> HIDE DEF b
<1>3. Shaped(c)  BY <1>0, <1>2, Update
<1>4. /\ c.frames = 0 /\ c.bytes = 0
      /\ c.waiting = p.waiting /\ c.garbled = p.garbled
  BY DEF Shaped, a, b
<1>5. Purged(p) = Cut(c)  BY DEF Purged, a, b
<1> HIDE DEF c
<1> QED  BY <1>3, <1>4, <1>5, CutShape

LEMMA PutFrameShape ==
  ASSUME NEW p, Shaped(p), NEW kind \in Video
  PROVE  LET q == PutFrame(p, kind) IN
         /\ Shaped(q)
         /\ q.frames = p.frames + 1
         /\ q.bytes = p.bytes + Size[kind]
         /\ q.waiting = (p.waiting /\ kind = "delta")
         /\ q.tail = IF kind = "delta" THEN p.tail ELSE "whole"
         /\ q.garbled = (p.garbled \/ (kind = "delta" /\ p.tail = "cut"))
<1> DEFINE a == [p EXCEPT !.waiting = @ /\ kind = "delta"]
           b == [a EXCEPT !.frames = @ + 1]
           c == [b EXCEPT !.bytes = @ + Size[kind]]
           d == Put(c, kind)
           e == [d EXCEPT !.tail = IF kind = "delta" THEN @ ELSE "whole"]
           f == [e EXCEPT !.garbled = @ \/ (kind = "delta" /\ d.tail = "cut")]
<1>0. Size[kind] \in Int  BY LimitsAssumption
<1>1. Shaped(a)
  <2>1. (p.waiting /\ kind = "delta") \in BOOLEAN  BY DEF Shaped
  <2> QED  BY <2>1, Update
<1> HIDE DEF a
<1>2. Shaped(b)
  <2>1. a.frames + 1 \in Int  BY <1>1 DEF Shaped
  <2> QED  BY <1>1, <2>1, Update
<1> HIDE DEF b
<1>3. Shaped(c)
  <2>1. b.bytes + Size[kind] \in Int  BY <1>0, <1>2 DEF Shaped
  <2> QED  BY <1>2, <2>1, Update
<1>4. /\ c.frames = p.frames + 1 /\ c.bytes = p.bytes + Size[kind]
      /\ c.waiting = (p.waiting /\ kind = "delta")
      /\ c.tail = p.tail /\ c.garbled = p.garbled
  BY DEF Shaped, a, b
<1>5. PutFrame(p, kind) = f  BY DEF PutFrame, Extended, a, b
<1> HIDE DEF c
<1>6. /\ Shaped(d)
      /\ d.frames = c.frames /\ d.bytes = c.bytes
      /\ d.waiting = c.waiting /\ d.tail = c.tail /\ d.garbled = c.garbled
  BY <1>3, PutShape
<1> HIDE DEF d
<1>7. Shaped(e)
  <2>1. (IF kind = "delta" THEN d.tail ELSE "whole") \in {"new", "whole", "mixed", "cut"}
    BY <1>6 DEF Shaped
  <2> QED  BY <1>6, <2>1, Update
<1> HIDE DEF e
<1>8. Shaped(f)
  <2>1. (e.garbled \/ (kind = "delta" /\ d.tail = "cut")) \in BOOLEAN
    BY <1>7 DEF Shaped
  <2> QED  BY <1>7, <2>1, Update
<1>9. /\ f.frames = d.frames /\ f.bytes = d.bytes /\ f.waiting = d.waiting
      /\ f.tail = IF kind = "delta" THEN d.tail ELSE "whole"
      /\ f.garbled = (d.garbled \/ (kind = "delta" /\ d.tail = "cut"))
  BY <1>6 DEF Shaped, e
<1> HIDE DEF f
<1> QED  BY <1>4, <1>5, <1>6, <1>8, <1>9

-----------------------------------------------------------------------------
(* What is offered to a pipe.                                              *)

\* A frame added below the limits leaves the counts within them.
LEMMA PutFrameCounted ==
  ASSUME NEW p, Shaped(p), NEW kind \in Video,
         p.frames < MaxFrames, p.bytes < MaxBytes
  PROVE  Counted(PutFrame(p, kind))
<1>1. /\ p.frames \in Int /\ p.bytes \in Int
      /\ Size[kind] \in Nat /\ MaxFrames \in Nat /\ MaxBytes \in Nat
  BY LimitsAssumption DEF Shaped
<1>2. /\ PutFrame(p, kind).frames = p.frames + 1
      /\ PutFrame(p, kind).bytes = p.bytes + Size[kind]
  BY PutFrameShape
<1>3. p.frames + 1 <= MaxFrames /\ p.bytes + Size[kind] < MaxBytes + Size[kind]
  BY <1>1
<1> QED  BY <1>2, <1>3 DEF Counted

\* An offer keeps a pipe's counts within the limits, whatever is offered, and
\* its stream sound: a frame is only added below the limits or to an emptied
\* queue, and a delta only by a pipe that is not waiting.
LEMMA OfferKeeps ==
  ASSUME NEW p, Shaped(p), Counted(p), NEW kind \in Video \cup Control
  PROVE  /\ Shaped(Offer(p, kind))
         /\ Counted(Offer(p, kind))
         /\ Sound(p) => Sound(Offer(p, kind))
<1> DEFINE q == Offer(p, kind)
           told == Put(p, "json")
<1>1. /\ Shaped(told)
      /\ Counted(told)
      /\ told.waiting = p.waiting
  BY PutShape DEF Counted, Sound
<1>2. CASE kind \in Control
  <2>1. q = Put(p, kind)
    BY <1>2 DEF Offer, Video, Control, Standalone
  <2> QED  BY <2>1, PutShape DEF Counted, Sound
<1>3. CASE kind = "delta" /\ p.waiting
  <2> DEFINE a == [p EXCEPT !.wants = @ \/ StillUnanswered(p)]
  <2>1. q = Cut(a)
    BY <1>3 DEF Offer, Video, Control, Standalone
  <2>2. (p.wants \/ StillUnanswered(p)) \in BOOLEAN
    BY DEF StillUnanswered
  <2>3. Shaped(a)
    BY <2>2, Update
  <2>4. /\ a.frames = p.frames /\ a.bytes = p.bytes
        /\ a.waiting = p.waiting /\ a.garbled = p.garbled
    <3>1. p.wants \in BOOLEAN  BY DEF Shaped
    <3> QED  BY <2>2 DEF Shaped
  <2> HIDE DEF a
  <2> QED  BY <1>3, <2>1, <2>3, <2>4, CutShape DEF Counted, Sound
<1>4. CASE kind = "delta" /\ ~p.waiting /\ Behind(p)
  <2> DEFINE a == [told EXCEPT !.waiting = TRUE]
             b == [a EXCEPT !.wants = TRUE]
  <2>1. q = Cut(b)
    BY <1>4 DEF Offer, SetAside, Video, Control, Standalone
  <2>2. /\ told.frames = p.frames /\ told.bytes = p.bytes
        /\ told.garbled = p.garbled
    BY PutShape
  <2> HIDE DEF told
  <2>3. Shaped(a)
    <3>1. TRUE \in BOOLEAN /\ Shaped(told)  BY <1>1
    <3>2. \A x \in BOOLEAN : Shaped([told EXCEPT !.waiting = x])
      BY <3>1, Update
    <3> QED  BY <3>1, <3>2
  <2>4. /\ a.frames = told.frames /\ a.bytes = told.bytes
        /\ a.waiting = TRUE /\ a.garbled = told.garbled
    BY <1>1 DEF Shaped
  <2> HIDE DEF a
  <2>5. Shaped(b)
    BY <2>3, Update
  <2>6. /\ b.frames = a.frames /\ b.bytes = a.bytes
        /\ b.waiting = a.waiting /\ b.garbled = a.garbled
    BY <2>3 DEF Shaped
  <2> HIDE DEF b
  <2> QED  BY <2>1, <2>2, <2>4, <2>5, <2>6, CutShape DEF Counted, Sound
<1>5. CASE kind = "delta" /\ ~p.waiting /\ ~Behind(p)
  <2>1. q = PutFrame(p, kind)
    BY <1>5 DEF Offer, Video, Control, Standalone
  <2>2. p.frames < MaxFrames /\ p.bytes < MaxBytes
    BY <1>5, LimitsAssumption DEF Behind, Shaped
  <2>3. kind \in Video
    BY <1>5 DEF Video
  <2>4. Shaped(q) /\ Counted(q)
    BY <2>1, <2>2, <2>3, PutFrameShape, PutFrameCounted
  <2>5. /\ q.waiting = (p.waiting /\ kind = "delta")
        /\ q.tail = p.tail
        /\ q.garbled = (p.garbled \/ p.tail = "cut")
    BY <1>5, <2>1, <2>3, PutFrameShape
  <2>6. Sound(p) => Sound(q)
    BY <1>5, <2>5 DEF Sound
  <2> QED  BY <2>4, <2>6
<1>6. CASE kind \in Standalone
  <2> DEFINE r == IF Lag(p) > CatchUp THEN Purged(p)
                  ELSE IF Behind(p) THEN Purged(told) ELSE p
  <2>1. q = PutFrame(r, kind)
    BY <1>6 DEF Offer, Video, Control, Standalone
  <2>2. kind \in Video /\ kind # "delta"
    BY <1>6 DEF Standalone, Video
  <2>3. /\ Shaped(r) /\ r.frames < MaxFrames /\ r.bytes < MaxBytes
        /\ r.garbled = p.garbled
    <3>1. 0 < MaxFrames /\ 0 < MaxBytes
      BY LimitsAssumption
    <3>2. CASE Lag(p) > CatchUp
      BY <3>1, <3>2, PurgedShape
    <3>3. CASE ~(Lag(p) > CatchUp) /\ Behind(p)
      BY <3>1, <3>3, <1>1, PutShape, PurgedShape
    <3>4. CASE ~(Lag(p) > CatchUp) /\ ~Behind(p)
      BY <3>4, LimitsAssumption DEF Behind, Shaped
    <3> QED  BY <3>2, <3>3, <3>4
  <2> HIDE DEF r
  <2>4. Shaped(q) /\ Counted(q)
    BY <2>1, <2>2, <2>3, PutFrameShape, PutFrameCounted
  <2>5. q.tail = "whole" /\ q.garbled = r.garbled
    <3>1. /\ q.tail = IF kind = "delta" THEN r.tail ELSE "whole"
          /\ q.garbled = (r.garbled \/ (kind = "delta" /\ r.tail = "cut"))
      BY <2>1, <2>2, <2>3, PutFrameShape
    <3>2. r.garbled \in BOOLEAN
      BY <2>3 DEF Shaped
    <3> QED  BY <2>2, <3>1, <3>2
  <2>6. Sound(p) => Sound(q)
    BY <2>3, <2>5 DEF Sound
  <2> QED  BY <2>4, <2>6
<1> QED
  BY <1>2, <1>3, <1>4, <1>5, <1>6 DEF Video, Control, Standalone, Shaped

-----------------------------------------------------------------------------
(* The steps.                                                              *)

\* fanout changes a pipe by the offer, and by what it notes of the asking.
LEMMA FanoutKeeps ==
  ASSUME NEW offered, NEW before, Fanout(offered, before),
         NEW v \in Viewers,
         Shaped(offered[v]), Counted(offered[v])
  PROVE  /\ Shaped(pipe'[v])
         /\ Counted(pipe'[v])
         /\ Sound(offered[v]) => Sound(pipe'[v])
<1> DEFINE o == offered[v]
<1>1. CASE pipe'[v] = o
  BY <1>1
<1>2. ASSUME NEW age,
             pipe'[v] = [o EXCEPT !.wants = FALSE, !.asked = age]
      PROVE  /\ Shaped(pipe'[v])
             /\ Counted(pipe'[v])
             /\ Sound(o) => Sound(pipe'[v])
  <2> DEFINE a == [o EXCEPT !.wants = FALSE]
             b == [a EXCEPT !.asked = age]
  <2> HIDE DEF o
  <2>1. Shaped(a)
    <3>1. FALSE \in BOOLEAN /\ Shaped(o)  BY DEF o
    <3>2. \A x \in BOOLEAN : Shaped([o EXCEPT !.wants = x])
      BY <3>1, Update
    <3> QED  BY <3>1, <3>2
  <2>2. /\ a.frames = o.frames /\ a.bytes = o.bytes /\ a.tail = o.tail
        /\ a.waiting = o.waiting /\ a.garbled = o.garbled
    BY DEF Shaped, o
  <2> HIDE DEF a
  <2>3. Shaped(b)
    BY <2>1, Update
  <2>4. /\ b.frames = a.frames /\ b.bytes = a.bytes /\ b.tail = a.tail
        /\ b.waiting = a.waiting /\ b.garbled = a.garbled
    BY <2>1 DEF Shaped
  <2>5. pipe'[v] = b
    BY <1>2 DEF a
  <2> HIDE DEF b
  <2> QED  BY <2>2, <2>3, <2>4, <2>5 DEF Counted, Sound, o
<1>3. \/ pipe'[v] = o
      \/ \E age : pipe'[v] = [o EXCEPT !.wants = FALSE, !.asked = age]
  BY DEF Fanout
<1> QED  BY <1>1, <1>2, <1>3

\* A new pipe, and one that has been closed.
LEMMA EmptyPipes ==
  \A p \in {FreshPipe, ClosedPipe} : Shaped(p) /\ Counted(p) /\ Sound(p)
<1>1. /\ Shaped(FreshPipe)
      /\ FreshPipe.frames = 0 /\ FreshPipe.bytes = 0
      /\ FreshPipe.tail = "new" /\ FreshPipe.garbled = FALSE
  BY DEF Shaped, FreshPipe
<1>2. /\ Shaped(ClosedPipe)
      /\ ClosedPipe.frames = 0 /\ ClosedPipe.bytes = 0
      /\ ClosedPipe.tail = "new" /\ ClosedPipe.garbled = FALSE
  <2>1. TRUE \in BOOLEAN
    OBVIOUS
  <2>2. Shaped(ClosedPipe)
    BY <1>1, <2>1, Update DEF ClosedPipe
  <2> QED  BY <1>1, <2>2 DEF Shaped, ClosedPipe
<1>3. "key" \in Video /\ 0 < MaxBytes + Size["key"] /\ 0 <= MaxFrames
  <2>1. "key" \in Video /\ Size["key"] \in Nat
    BY LimitsAssumption DEF Video
  <2> QED  BY <2>1, LimitsAssumption
<1> QED  BY <1>1, <1>2, <1>3 DEF Counted, Sound

LEMMA InitPipeInv == Init => PipeInv
<1> SUFFICES ASSUME Init PROVE PipeInv
  OBVIOUS
<1>1. pipe = [v \in Viewers |-> ClosedPipe]
  BY DEF Init
<1>2. stale \in 0 .. MaxStale
  BY LimitsAssumption DEF Init
<1> QED  BY <1>1, <1>2, EmptyPipes DEF PipeInv

\* A message reaches the viewers of the device's own connection.
LEMMA ArrivalKeeps ==
  ASSUME PipeInv, NEW kind \in Video \cup Control, NEW before,
         Fanout(OfferedAll(kind), before), UNCHANGED stale
  PROVE  PipeInv'
<1>1. \A v \in Viewers :
        /\ Shaped(OfferedAll(kind)[v])
        /\ Counted(OfferedAll(kind)[v])
        /\ Sound(pipe[v]) => Sound(OfferedAll(kind)[v])
  <2> SUFFICES ASSUME NEW v \in Viewers
               PROVE  /\ Shaped(OfferedAll(kind)[v])
                      /\ Counted(OfferedAll(kind)[v])
                      /\ Sound(pipe[v]) => Sound(OfferedAll(kind)[v])
    OBVIOUS
  <2>1. Shaped(pipe[v]) /\ Counted(pipe[v])
    BY DEF PipeInv
  <2>2. OfferedAll(kind)[v] = pipe[v] \/ OfferedAll(kind)[v] = Offer(pipe[v], kind)
    BY DEF OfferedAll
  <2> QED  BY <2>1, <2>2, OfferKeeps
<1>2. \A v \in Viewers :
        /\ Shaped(pipe'[v])
        /\ Counted(pipe'[v])
        /\ Sound(OfferedAll(kind)[v]) => Sound(pipe'[v])
  BY <1>1, FanoutKeeps
<1>3. pipe' = [v \in Viewers |-> pipe'[v]]
  BY DEF Fanout
<1> QED  BY <1>1, <1>2, <1>3 DEF PipeInv, Shaped, Counted, Sound

LEMMA StaleKeeps ==
  ASSUME PipeInv, NEW kind \in Video, StaleFrameArrives(kind)
  PROVE  PipeInv'
<1> DEFINE offered == OfferedAll(kind)
           mixed == [v \in Viewers |-> Mixed(offered[v])]
<1>1. /\ Fanout(mixed, asked)
      /\ stale' \in 0 .. MaxStale
  BY LimitsAssumption DEF StaleFrameArrives, PipeInv
<1>2. ASSUME NEW v \in Viewers
      PROVE  Shaped(mixed[v]) /\ Counted(mixed[v]) /\ Sound(mixed[v])
  <2>1. Shaped(pipe[v]) /\ Counted(pipe[v]) /\ Sound(pipe[v])
    BY DEF PipeInv
  <2>2. offered[v] = pipe[v] \/ offered[v] = Offer(pipe[v], kind)
    BY DEF OfferedAll
  <2>3. Shaped(offered[v]) /\ Counted(offered[v]) /\ Sound(offered[v])
    BY <2>1, <2>2, OfferKeeps
  <2>4. mixed[v] = Mixed(offered[v])
    OBVIOUS
  <2> HIDE DEF offered, mixed
  <2> QED  BY <2>3, <2>4, MixedKeeps
<1> HIDE DEF mixed
<1>3. \A v \in Viewers : Shaped(pipe'[v]) /\ Counted(pipe'[v]) /\ Sound(pipe'[v])
  BY <1>1, <1>2, FanoutKeeps
<1>4. pipe' = [v \in Viewers |-> pipe'[v]]
  BY <1>1 DEF Fanout
<1> QED  BY <1>1, <1>3, <1>4 DEF PipeInv, Shaped, Counted, Sound

\* A viewer's own step touches its pipe alone.
LEMMA OnePipe ==
  ASSUME PipeInv, NEW v \in Viewers, NEW p, pipe' = [pipe EXCEPT ![v] = p],
         UNCHANGED stale,
         Shaped(p), Counted(p), Sound(pipe[v]) => Sound(p)
  PROVE  PipeInv'
<1>1. pipe' = [w \in Viewers |-> pipe'[w]]
  BY DEF PipeInv
<1>2. ASSUME NEW w \in Viewers
      PROVE  /\ Shaped(pipe'[w])
             /\ Counted(pipe'[w])
             /\ Sound(pipe'[w])
  <2>1. CASE w = v
    <3>1. pipe'[w] = p
      BY <2>1 DEF PipeInv
    <3> QED  BY <2>1, <3>1 DEF PipeInv
  <2>2. CASE w # v
    <3>1. pipe'[w] = pipe[w]
      BY <2>2 DEF PipeInv
    <3> QED  BY <3>1 DEF PipeInv
  <2> QED  BY <2>1, <2>2
<1> QED  BY <1>1, <1>2 DEF PipeInv, Shaped, Counted, Sound

\* Taking an item lowers the counts or leaves them.
LEMMA TakeKeeps ==
  ASSUME PipeInv, NEW v \in Viewers, Take(v)
  PROVE  PipeInv'
<1> DEFINE p == pipe[v]
           kind == Head(p.items).kind
           bytes == IF kind \in Video THEN Size[kind] ELSE 0
           frames == IF kind \in Video THEN p.frames - 1 ELSE p.frames
           a == [p EXCEPT !.items = Tail(@)]
           b == [a EXCEPT !.sending = kind]
           c == [b EXCEPT !.frames = frames]
           d == [c EXCEPT !.bytes = @ - bytes]
<1>1. Shaped(p) /\ Counted(p)
  BY DEF PipeInv
<1>2. pipe' = [pipe EXCEPT ![v] = d] /\ UNCHANGED stale
  <2>1. d = [p EXCEPT !.items = Tail(@), !.sending = kind,
                      !.frames = IF kind \in Video THEN @ - 1 ELSE @,
                      !.bytes = @ - bytes]
    BY <1>1 DEF Shaped
  <2> QED  BY <2>1 DEF Take
<1>3. bytes \in Nat
  BY LimitsAssumption
<1> HIDE DEF kind, bytes
<1>4. frames \in Int /\ frames <= MaxFrames
  BY <1>1, LimitsAssumption DEF Shaped, Counted
<1> HIDE DEF p, frames
<1>5. Shaped(a) /\ a.bytes = p.bytes /\ a.waiting = p.waiting
      /\ a.tail = p.tail /\ a.garbled = p.garbled
  <2>1. Shaped(a)  BY <1>1, Update
  <2> QED  BY <1>1, <2>1 DEF Shaped
<1> HIDE DEF a
<1>6. Shaped(b) /\ b.bytes = a.bytes /\ b.waiting = a.waiting
      /\ b.tail = a.tail /\ b.garbled = a.garbled
  <2>1. Shaped(b)  BY <1>5, Update
  <2> QED  BY <1>5, <2>1 DEF Shaped
<1> HIDE DEF b
<1>7. Shaped(c) /\ c.frames = frames /\ c.bytes = b.bytes
      /\ c.waiting = b.waiting /\ c.tail = b.tail /\ c.garbled = b.garbled
  <2>1. Shaped(c)  BY <1>4, <1>6, Update
  <2> QED  BY <1>6, <2>1 DEF Shaped
<1> HIDE DEF c
<1>8. Shaped(d) /\ d.frames = c.frames /\ d.bytes = c.bytes - bytes
      /\ d.waiting = c.waiting /\ d.tail = c.tail /\ d.garbled = c.garbled
  <2>1. c.bytes - bytes \in Int  BY <1>3, <1>7 DEF Shaped
  <2>2. Shaped(d)  BY <1>7, <2>1, Update
  <2> QED  BY <1>7, <2>2 DEF Shaped
<1> HIDE DEF d
<1>9. Counted(d)
  <2>1. PICK k \in Video : p.bytes < MaxBytes + Size[k]
    BY <1>1 DEF Counted
  <2>2. p.bytes \in Int /\ Size[k] \in Int /\ MaxBytes \in Int
    BY <1>1, LimitsAssumption DEF Shaped
  <2>3. d.bytes < MaxBytes + Size[k]
    BY <1>3, <1>5, <1>6, <1>7, <1>8, <2>1, <2>2
  <2> QED  BY <1>4, <1>7, <1>8, <2>3 DEF Counted
<1>10. Sound(p) => Sound(d)
  BY <1>5, <1>6, <1>7, <1>8 DEF Sound
<1> QED  BY <1>2, <1>8, <1>9, <1>10, OnePipe DEF p

\* The end of a send, one way or the other.
LEMMA SendEnds ==
  ASSUME PipeInv, NEW v \in Viewers, Sent(v) \/ SendFails(v)
  PROVE  PipeInv'
<1> DEFINE p == pipe[v]
           a == [p EXCEPT !.sending = None]
           b == [a EXCEPT !.dead = TRUE]
<1>1. Shaped(p) /\ Counted(p)
  BY DEF PipeInv
<1>2. UNCHANGED stale /\ (pipe' = [pipe EXCEPT ![v] = a]
                          \/ pipe' = [pipe EXCEPT ![v] = b])
  BY DEF Sent, SendFails
<1> HIDE DEF p
<1>3. Shaped(a) /\ a.frames = p.frames /\ a.bytes = p.bytes
      /\ a.waiting = p.waiting /\ a.tail = p.tail /\ a.garbled = p.garbled
  <2>1. Shaped(a)  BY <1>1, Update
  <2> QED  BY <1>1, <2>1 DEF Shaped
<1> HIDE DEF a
<1>4. Shaped(b) /\ b.frames = a.frames /\ b.bytes = a.bytes
      /\ b.waiting = a.waiting /\ b.tail = a.tail /\ b.garbled = a.garbled
  <2>0. TRUE \in BOOLEAN  OBVIOUS
  <2>1. Shaped(b)  BY <2>0, <1>3, Update
  <2> QED  BY <1>3, <2>1 DEF Shaped
<1> HIDE DEF b
<1>5. Counted(a) /\ Counted(b) /\ (Sound(p) => Sound(a) /\ Sound(b))
  BY <1>1, <1>3, <1>4 DEF Counted, Sound
<1> QED  BY <1>2, <1>3, <1>4, <1>5, OnePipe DEF p

LEMMA TickKeeps ==
  ASSUME PipeInv, Tick
  PROVE  PipeInv'
<1>1. pipe' = [v \in Viewers |-> pipe'[v]] /\ UNCHANGED stale
  BY DEF Tick
<1>2. ASSUME NEW v \in Viewers
      PROVE  /\ Shaped(pipe'[v])
             /\ Counted(pipe'[v])
             /\ Sound(pipe'[v])
  <2> DEFINE p == pipe[v]
             a == [p EXCEPT !.asked = Older(@)]
             b == [a EXCEPT !.items = Aged(@)]
  <2>1. Shaped(p) /\ Counted(p) /\ Sound(p)
    BY DEF PipeInv
  <2>2. pipe'[v] = b
    BY DEF Tick
  <2> HIDE DEF p
  <2>3. Shaped(a) /\ a.frames = p.frames /\ a.bytes = p.bytes
        /\ a.waiting = p.waiting /\ a.tail = p.tail /\ a.garbled = p.garbled
    <3>1. Shaped(a)  BY <2>1, Update
    <3> QED  BY <2>1, <3>1 DEF Shaped
  <2> HIDE DEF a
  <2>4. Shaped(b) /\ b.frames = a.frames /\ b.bytes = a.bytes
        /\ b.waiting = a.waiting /\ b.tail = a.tail /\ b.garbled = a.garbled
    <3>1. Shaped(b)  BY <2>3, Update
    <3> QED  BY <2>3, <3>1 DEF Shaped
  <2> HIDE DEF b
  <2> QED  BY <2>1, <2>2, <2>3, <2>4 DEF Counted, Sound
<1> QED  BY <1>1, <1>2 DEF PipeInv, Shaped, Counted, Sound

LEMMA NextPipeInv == PipeInv /\ [Next]_vars => PipeInv'
<1> SUFFICES ASSUME PipeInv, [Next]_vars PROVE PipeInv'
  OBVIOUS
<1>1. ASSUME NEW kind \in Control, ControlArrives(kind) PROVE PipeInv'
  BY <1>1, ArrivalKeeps DEF ControlArrives
<1>2. ASSUME NEW kind \in Video, FrameArrives(kind) PROVE PipeInv'
  BY <1>2, ArrivalKeeps DEF FrameArrives
<1>3. ASSUME NEW kind \in Video, StaleFrameArrives(kind) PROVE PipeInv'
  BY <1>3, StaleKeeps
<1>4. CASE UNCHANGED <<pipe, stale>>
  BY <1>4 DEF PipeInv, Shaped, Counted, Sound
<1>5. ASSUME pipe' = Released, stale' \in 0 .. MaxStale PROVE PipeInv'
  <2>1. \A v \in Viewers : pipe'[v] = ClosedPipe \/ pipe'[v] = pipe[v]
    BY <1>5 DEF Released
  <2>2. pipe' = [v \in Viewers |-> pipe'[v]]
    BY <1>5 DEF Released
  <2> QED  BY <1>5, <2>1, <2>2, EmptyPipes DEF PipeInv, Shaped, Counted, Sound
<1>6. ASSUME NEW unread \in 0 .. MaxStale, AgentConnects(unread) PROVE PipeInv'
  BY <1>5, <1>6 DEF AgentConnects, PipeInv
<1>7. CASE AgentLeaves
  BY <1>5, <1>7 DEF AgentLeaves, PipeInv
<1>8. ASSUME NEW v \in Viewers, Join(v) \/ Leave(v) PROVE PipeInv'
  BY <1>8, EmptyPipes, OnePipe DEF Join, Leave
<1>9. ASSUME NEW v \in Viewers, Take(v) PROVE PipeInv'
  BY <1>9, TakeKeeps
<1>10. ASSUME NEW v \in Viewers, Sent(v) \/ SendFails(v) PROVE PipeInv'
  BY <1>10, SendEnds
<1>11. CASE Tick
  BY <1>11, TickKeeps
<1> QED
  BY <1>1, <1>2, <1>3, <1>4, <1>6, <1>7, <1>8, <1>9, <1>10, <1>11
  DEF Next, vars, AskArrives, AskOverlooked, CaptureChanges

\* The limits and the soundness of every viewer's stream hold throughout.
THEOREM PipesKept == Spec => []PipeInv
<1> QED  BY InitPipeInv, NextPipeInv, PTL DEF Spec

\* A viewer that does not receive costs the server no more than the limits
\* and one frame, however many there are and whatever the limits (offer).
THEOREM QueuesBounded == Spec => []QueueBounded
<1>1. PipeInv => QueueBounded
  BY DEF PipeInv, Counted, QueueBounded
<1> QED  BY <1>1, PipesKept, PTL

\* No delta ever enters a stream that has been cut by a purge or by a frame
\* set aside, whatever replaced connections still deliver (offer, _purge).
THEOREM StreamsDecode == Spec => []Decodable
<1>1. PipeInv /\ subs \subseteq Viewers => Decodable
  BY DEF PipeInv, Sound, Decodable
<1>2. Init => subs \subseteq Viewers
  BY DEF Init
<1>3. subs \subseteq Viewers /\ [Next]_vars => (subs \subseteq Viewers)'
  BY DEF Next, vars, ControlArrives, FrameArrives, StaleFrameArrives, Fanout, Live,
     AskArrives, AskOverlooked, CaptureChanges, AgentConnects, AgentLeaves,
     Join, Leave, Take, Sent, SendFails, Tick
<1> QED  BY <1>1, <1>2, <1>3, PipesKept, PTL DEF Spec

-----------------------------------------------------------------------------
(* What is queued.                                                         *)

\* What holds of 0, and of n + 1 if of n, holds of every number up to N.
LEMMA UpTo ==
  ASSUME NEW S, NEW N \in Nat, 0 \in S,
         \A n \in 0 .. N - 1 : n \in S => n + 1 \in S
  PROVE  \A n \in 0 .. N : n \in S
<1> DEFINE R == {ss \in Nat \X Nat : ss[1] < ss[2]}
           T == {n \in 0 .. N : n \notin S}
<1>1. IsWellFoundedOn(R, Nat)
  BY NatLessThanWellFounded DEF OpToRel
<1>2. T \subseteq Nat  OBVIOUS
<1> SUFFICES ASSUME T # {} PROVE FALSE
  OBVIOUS
<1>3. PICK m \in T : \A n \in T : ~(<<n, m>> \in R)
  <2> HIDE DEF R, T
  <2> QED  BY <1>1, <1>2, WFMin
<1>4. m \in 1 .. N  OBVIOUS
<1>5. m - 1 \in 0 .. N - 1 /\ (m - 1) + 1 = m  BY <1>4
<1>6. m - 1 \in T  BY <1>5
<1>7. m - 1 < m /\ m - 1 \in Nat /\ m \in Nat  BY <1>4
<1> QED  BY <1>3, <1>6, <1>7

\* The frames and messages kept of the first n items, for each n up to N.
IsKept(f, items, N) ==
  f = [n \in 0 .. N |->
         IF n = 0 THEN <<>>
         ELSE IF IsControl(items[n]) THEN Append(f[n - 1], items[n]) ELSE f[n - 1]]

Kept(items) == CHOOSE f : IsKept(f, items, Len(items))

LEMMA KeptExists ==
  ASSUME NEW items, NEW N \in Nat
  PROVE  \E f : IsKept(f, items, N)
<1> DEFINE S == {n \in Nat : \E f : IsKept(f, items, n)}
<1>1. 0 \in S
  <2> DEFINE f == [n \in 0 .. 0 |-> <<>>]
  <2>1. IsKept(f, items, 0)  BY DEF IsKept
  <2> HIDE DEF f
  <2> QED  BY <2>1
<1>2. ASSUME NEW m \in Nat, m \in S PROVE m + 1 \in S
  <2>1. PICK f : IsKept(f, items, m)  BY <1>2
  <2> DEFINE g == [n \in 0 .. m + 1 |->
                     IF n # m + 1 THEN f[n]
                     ELSE IF IsControl(items[n]) THEN Append(f[m], items[n]) ELSE f[m]]
  <2>2. \A n \in 0 .. m : g[n] = f[n]  OBVIOUS
  <2>3. \A n \in 0 .. m :
          f[n] = IF n = 0 THEN <<>>
                 ELSE IF IsControl(items[n]) THEN Append(f[n - 1], items[n]) ELSE f[n - 1]
    BY <2>1 DEF IsKept
  <2>4. \A n \in 0 .. m + 1 :
          g[n] = IF n = 0 THEN <<>>
                 ELSE IF IsControl(items[n]) THEN Append(g[n - 1], items[n]) ELSE g[n - 1]
    <3> SUFFICES ASSUME NEW n \in 0 .. m + 1
        PROVE g[n] = IF n = 0 THEN <<>>
                 ELSE IF IsControl(items[n]) THEN Append(g[n - 1], items[n]) ELSE g[n - 1]
      OBVIOUS
    <3>1. CASE n = m + 1
      <4>1. n # 0 /\ n - 1 = m /\ m \in 0 .. m /\ m + 1 \in 0 .. m + 1  BY <3>1
      <4>2. g[n] = IF IsControl(items[n]) THEN Append(f[m], items[n]) ELSE f[m]
        BY <3>1, <4>1
      <4> HIDE DEF g
      <4> QED  BY <2>2, <3>1, <4>1, <4>2
    <3>2. CASE n # m + 1
      <4>1. n \in 0 .. m /\ (n # 0 => n - 1 \in 0 .. m)  BY <3>2
      <4> HIDE DEF g
      <4> QED  BY <2>2, <2>3, <4>1
    <3> QED  BY <3>1, <3>2
  <2>5. g = [n \in 0 .. m + 1 |-> g[n]]  OBVIOUS
  <2> HIDE DEF g
  <2>6. IsKept(g, items, m + 1)
    <3>1. [n \in 0 .. m + 1 |-> g[n]]
            = [n \in 0 .. m + 1 |-> IF n = 0 THEN <<>>
                 ELSE IF IsControl(items[n]) THEN Append(g[n - 1], items[n]) ELSE g[n - 1]]
      BY <2>4, Zenon
    <3> QED  BY <2>5, <3>1 DEF IsKept
  <2> QED  BY <2>6
<1>3. \A n \in 0 .. N - 1 : n \in S => n + 1 \in S
  <2> HIDE DEF S
  <2> QED  BY <1>2
<1>4. N \in S
  <2> HIDE DEF S
  <2> QED  BY <1>1, <1>3, UpTo
<1> QED  BY <1>4

\* What is kept, step by step.
LEMMA KeptSteps ==
  ASSUME NEW items, Len(items) \in Nat
  PROVE  /\ Kept(items)[0] = <<>>
         /\ \A n \in 1 .. Len(items) :
              Kept(items)[n] = IF IsControl(items[n]) THEN Append(Kept(items)[n - 1], items[n])
                               ELSE Kept(items)[n - 1]
         /\ ControlOnly(items) = Kept(items)[Len(items)]
<1>1. IsKept(Kept(items), items, Len(items))
  BY KeptExists DEF Kept
<1>2. ControlOnly(items) = Kept(items)[Len(items)]
  BY Zenon DEF ControlOnly, Kept, IsKept
<1> DEFINE f == Kept(items)
           N == Len(items)
<1> HIDE DEF f, N
<1>3. IsKept(f, items, N)  BY <1>1 DEF f, N
<1>4. \A n \in 0 .. N :
        f[n] = IF n = 0 THEN <<>>
               ELSE IF IsControl(items[n]) THEN Append(f[n - 1], items[n]) ELSE f[n - 1]
  BY <1>3 DEF IsKept
<1>5. N \in Nat  BY DEF N
<1>6. f[0] = <<>> /\ \A n \in 1 .. N :
        f[n] = IF IsControl(items[n]) THEN Append(f[n - 1], items[n]) ELSE f[n - 1]
  BY <1>4, <1>5
<1> QED  BY <1>2, <1>6 DEF f, N

\* Two queues that agree on their messages, as far as the shorter goes.
LEMMA KeptAlike ==
  ASSUME NEW s, NEW t, Len(s) \in Nat, Len(t) \in Nat, Len(s) <= Len(t),
         \A n \in 1 .. Len(s) :
           /\ IsControl(s[n]) <=> IsControl(t[n])
           /\ IsControl(s[n]) => s[n] = t[n]
  PROVE  \A n \in 0 .. Len(s) : Kept(s)[n] = Kept(t)[n]
<1> DEFINE S == {n \in 0 .. Len(s) : Kept(s)[n] = Kept(t)[n]}
<1>1. 0 \in S  BY KeptSteps
<1>2. ASSUME NEW n \in 0 .. Len(s) - 1, n \in S PROVE n + 1 \in S
  <2>1. n + 1 \in 1 .. Len(s) /\ n + 1 \in 1 .. Len(t) /\ (n + 1) - 1 = n
    OBVIOUS
  <2>2. /\ Kept(s)[n + 1] = IF IsControl(s[n + 1]) THEN Append(Kept(s)[n], s[n + 1])
                            ELSE Kept(s)[n]
        /\ Kept(t)[n + 1] = IF IsControl(t[n + 1]) THEN Append(Kept(t)[n], t[n + 1])
                            ELSE Kept(t)[n]
    BY <2>1, KeptSteps
  <2>3. Kept(s)[n] = Kept(t)[n]  BY <1>2
  <2>4. Kept(s)[n + 1] = Kept(t)[n + 1]  BY <2>1, <2>2, <2>3
  <2> QED  BY <2>1, <2>4
<1> HIDE DEF S
<1>3. \A n \in 0 .. Len(s) : n \in S  BY <1>1, <1>2, UpTo
<1> QED  BY <1>3 DEF S

\* The messages are kept in order, whatever is put behind them.
LEMMA ControlOfAppend ==
  ASSUME NEW X, NEW s \in Seq(X), NEW x \in X
  PROVE  ControlOnly(Append(s, x)) =
           IF IsControl(x) THEN Append(ControlOnly(s), x) ELSE ControlOnly(s)
<1> DEFINE t == Append(s, x)
<1>1. /\ Len(s) \in Nat /\ Len(t) = Len(s) + 1 /\ t[Len(s) + 1] = x
      /\ \A n \in 1 .. Len(s) : t[n] = s[n]
  OBVIOUS
<1> HIDE DEF t
<1>2. Kept(s)[Len(s)] = Kept(t)[Len(s)]  BY <1>1, KeptAlike
<1>3. Len(t) \in 1 .. Len(t) /\ Len(t) - 1 = Len(s)  BY <1>1
<1>4. Kept(t)[Len(t)] = IF IsControl(x) THEN Append(Kept(t)[Len(s)], x)
                        ELSE Kept(t)[Len(s)]
  BY <1>1, <1>3, KeptSteps
<1>5. ControlOnly(t) = Kept(t)[Len(t)] /\ ControlOnly(s) = Kept(s)[Len(s)]
  BY <1>1, KeptSteps
<1> QED  BY <1>2, <1>4, <1>5 DEF t

\* A queue with the same messages at the same places keeps the same.
LEMMA ControlAlike ==
  ASSUME NEW s, NEW t, Len(s) \in Nat, Len(t) = Len(s),
         \A n \in 1 .. Len(s) :
           /\ IsControl(s[n]) <=> IsControl(t[n])
           /\ IsControl(s[n]) => s[n] = t[n]
  PROVE  ControlOnly(s) = ControlOnly(t)
<1>1. Kept(s)[Len(s)] = Kept(t)[Len(s)]  BY KeptAlike
<1> QED  BY <1>1, KeptSteps

\* What is kept are messages.
LEMMA ControlIsControl ==
  ASSUME NEW X, NEW s \in Seq(X)
  PROVE  ControlOnly(s) \in Seq({x \in X : IsControl(x)})
<1> DEFINE Y == {x \in X : IsControl(x)}
           S == {n \in 0 .. Len(s) : Kept(s)[n] \in Seq(Y)}
<1>0. Len(s) \in Nat  OBVIOUS
<1>1. 0 \in S
  <2> HIDE DEF Y
  <2>1. <<>> \in Seq(Y)  OBVIOUS
  <2>2. Kept(s)[0] = <<>> /\ 0 \in 0 .. Len(s)  BY <1>0, KeptSteps
  <2> QED  BY <2>1, <2>2
<1>2. ASSUME NEW n \in 0 .. Len(s) - 1, n \in S PROVE n + 1 \in S
  <2>1. n + 1 \in 1 .. Len(s) /\ (n + 1) - 1 = n /\ s[n + 1] \in X
    OBVIOUS
  <2>2. Kept(s)[n + 1] = IF IsControl(s[n + 1]) THEN Append(Kept(s)[n], s[n + 1])
                         ELSE Kept(s)[n]
    BY <1>0, <2>1, KeptSteps
  <2>3. Kept(s)[n] \in Seq(Y)  BY <1>2
  <2>4. IsControl(s[n + 1]) => s[n + 1] \in Y  BY <2>1
  <2> HIDE DEF Y
  <2>5. Kept(s)[n + 1] \in Seq(Y)  BY <2>2, <2>3, <2>4
  <2> QED  BY <2>1, <2>5
<1> HIDE DEF S
<1>3. \A n \in 0 .. Len(s) : n \in S  BY <1>0, <1>1, <1>2, UpTo
<1>4. Len(s) \in S  BY <1>0, <1>3
<1>5. Kept(s)[Len(s)] \in Seq(Y)  BY <1>4 DEF S
<1> QED  BY <1>0, <1>5, KeptSteps

\* Of messages alone all are kept.
LEMMA ControlOfControl ==
  ASSUME NEW X, NEW s \in Seq(X), \A n \in 1 .. Len(s) : IsControl(s[n])
  PROVE  ControlOnly(s) = s
<1> DEFINE S == {n \in 0 .. Len(s) : Kept(s)[n] = SubSeq(s, 1, n)}
<1>0. Len(s) \in Nat  OBVIOUS
<1>1. 0 \in S
  <2>1. SubSeq(s, 1, 0) = <<>>  OBVIOUS
  <2>2. Kept(s)[0] = <<>> /\ 0 \in 0 .. Len(s)  BY <1>0, KeptSteps
  <2>3. Kept(s)[0] = SubSeq(s, 1, 0)  BY <2>1, <2>2
  <2> QED  BY <2>2, <2>3, Zenon
<1>2. ASSUME NEW n \in 0 .. Len(s) - 1, n \in S PROVE n + 1 \in S
  <2>1. n + 1 \in 1 .. Len(s) /\ (n + 1) - 1 = n
    OBVIOUS
  <2>2. Kept(s)[n + 1] = Append(Kept(s)[n], s[n + 1])
    BY <1>0, <2>1, KeptSteps
  <2>3. Kept(s)[n] = SubSeq(s, 1, n)  BY <1>2
  <2>4. Append(SubSeq(s, 1, n), s[n + 1]) = SubSeq(s, 1, n + 1)
    BY <2>1
  <2>5. Kept(s)[n + 1] = SubSeq(s, 1, n + 1)  BY <2>2, <2>3, <2>4
  <2>6. n + 1 \in 0 .. Len(s)  BY <2>1
  <2> QED  BY <2>5, <2>6, Zenon
<1> HIDE DEF S
<1>3. \A n \in 0 .. Len(s) : n \in S  BY <1>0, <1>1, <1>2, UpTo
<1>4. Len(s) \in S  BY <1>0, <1>3
<1>5. Kept(s)[Len(s)] = SubSeq(s, 1, Len(s))  BY <1>4 DEF S
<1>6. SubSeq(s, 1, Len(s)) = s  OBVIOUS
<1> QED  BY <1>0, <1>5, <1>6, KeptSteps

LEMMA ControlTwice ==
  ASSUME NEW X, NEW s \in Seq(X)
  PROVE  ControlOnly(ControlOnly(s)) = ControlOnly(s)
<1> DEFINE Y == {x \in X : IsControl(x)}
           t == ControlOnly(s)
<1>1. t \in Seq(Y)  BY ControlIsControl
<1> HIDE DEF t
<1>2. \A n \in 1 .. Len(t) : IsControl(t[n])
  <2>1. \A n \in 1 .. Len(t) : t[n] \in Y
    <3> HIDE DEF Y
    <3> QED  BY <1>1
  <2> QED  BY <2>1
<1>3. ControlOnly(t) = t
  <2> HIDE DEF Y
  <2> QED  BY <1>1, <1>2, ControlOfControl
<1> QED  BY <1>3 DEF t

-----------------------------------------------------------------------------
(* How many of a kind are queued.                                          *)

LEMMA QueuedType ==
  ASSUME NEW s, Len(s) \in Nat, NEW kind
  PROVE  /\ IsFiniteSet({n \in 1 .. Len(s) : s[n].kind = kind})
         /\ Queued(s, kind) \in Nat
<1> DEFINE S == {n \in 1 .. Len(s) : s[n].kind = kind}
<1>1. IsFiniteSet(1 .. Len(s))  BY FS_Interval
<1>2. S \in SUBSET (1 .. Len(s))  OBVIOUS
<1>3. IsFiniteSet(S)  BY <1>1, <1>2, FS_Subset
<1>4. Cardinality(S) \in Nat  BY <1>3, FS_CardinalityType
<1> QED  BY <1>3, <1>4 DEF Queued

LEMMA QueuedOfAppend ==
  ASSUME NEW X, NEW s \in Seq(X), NEW x \in X, NEW kind
  PROVE  Queued(Append(s, x), kind) =
           IF x.kind = kind THEN Queued(s, kind) + 1 ELSE Queued(s, kind)
<1> DEFINE t == Append(s, x)
           S == {n \in 1 .. Len(s) : s[n].kind = kind}
           T == {n \in 1 .. Len(t) : t[n].kind = kind}
<1>1. /\ Len(s) \in Nat /\ Len(t) = Len(s) + 1 /\ t[Len(s) + 1] = x
      /\ \A n \in 1 .. Len(s) : t[n] = s[n]
  OBVIOUS
<1>2. IsFiniteSet(S)  BY <1>1, QueuedType
<1> HIDE DEF t
<1>3. T = IF x.kind = kind THEN S \cup {Len(s) + 1} ELSE S
  BY <1>1
<1>4. Len(s) + 1 \notin S  BY <1>1
<1> HIDE DEF S, T
<1>5. Cardinality(T) = IF x.kind = kind THEN Cardinality(S) + 1 ELSE Cardinality(S)
  BY <1>2, <1>3, <1>4, FS_AddElement
<1> QED  BY <1>5 DEF Queued, S, T, t

LEMMA QueuedOfTail ==
  ASSUME NEW X, NEW s \in Seq(X), s # <<>>, NEW kind
  PROVE  Queued(Tail(s), kind) =
           IF Head(s).kind = kind THEN Queued(s, kind) - 1 ELSE Queued(s, kind)
<1> DEFINE t == Tail(s)
           S == {n \in 1 .. Len(s) : s[n].kind = kind}
           T == {n \in 1 .. Len(t) : t[n].kind = kind}
           f == [n \in T |-> n + 1]
<1>1. /\ Len(s) \in Nat \ {0} /\ Len(t) = Len(s) - 1 /\ Head(s) = s[1]
      /\ \A n \in 1 .. Len(t) : t[n] = s[n + 1]
  OBVIOUS
<1> HIDE DEF t
<1>2. IsFiniteSet(S) /\ IsFiniteSet(T)
  <2>1. Len(t) \in Nat  BY <1>1
  <2> QED  BY <1>1, <2>1, QueuedType
<1>3. f \in Bijection(T, S \ {1})
  <2>1. \A n \in T : n + 1 \in S \ {1}  BY <1>1
  <2>2. \A m \in S \ {1} : m - 1 \in T /\ (m - 1) + 1 = m  BY <1>1
  <2>3. \A m, n \in T : m + 1 = n + 1 => m = n  BY <1>1
  <2> HIDE DEF S, T
  <2>4. f \in [T -> S \ {1}]  BY <2>1
  <2>5. f \in Injection(T, S \ {1})  BY <2>3, <2>4 DEF Injection, IsInjective
  <2>6. f \in Surjection(T, S \ {1})
    <3>1. \A m \in S \ {1} : \E n \in T : f[n] = m
      <4> SUFFICES ASSUME NEW m \in S \ {1} PROVE \E n \in T : f[n] = m
        OBVIOUS
      <4>1. m - 1 \in T /\ f[m - 1] = m  BY <2>2
      <4> QED  BY <4>1
    <3> QED  BY <2>4, <3>1 DEF Surjection
  <2> QED  BY <2>5, <2>6 DEF Bijection
<1>4. 1 \in S <=> Head(s).kind = kind  BY <1>1
<1> HIDE DEF S, T, f
<1>5. Cardinality(S \ {1}) = Cardinality(T)
  BY <1>2, <1>3, FS_Bijection DEF ExistsBijection
<1>6. Cardinality(S \ {1}) = IF 1 \in S THEN Cardinality(S) - 1 ELSE Cardinality(S)
  BY <1>2, FS_RemoveElement
<1> QED  BY <1>4, <1>5, <1>6 DEF Queued, S, T, t

\* None of what is not there.
LEMMA QueuedNone ==
  ASSUME NEW s, NEW kind, \A n \in 1 .. Len(s) : s[n].kind # kind
  PROVE  Queued(s, kind) = 0
<1>1. {n \in 1 .. Len(s) : s[n].kind = kind} = {}  OBVIOUS
<1> QED  BY <1>1, FS_EmptySet DEF Queued

LEMMA QueuedAlike ==
  ASSUME NEW s, NEW t, Len(t) = Len(s), NEW kind,
         \A n \in 1 .. Len(s) : t[n].kind = s[n].kind
  PROVE  Queued(t, kind) = Queued(s, kind)
<1>1. {n \in 1 .. Len(t) : t[n].kind = kind} = {n \in 1 .. Len(s) : s[n].kind = kind}
  OBVIOUS
<1> QED  BY <1>1 DEF Queued

-----------------------------------------------------------------------------
(* The counts of a queue.                                                  *)

Frames(items) == Queued(items, "key") + Queued(items, "delta") + Queued(items, "still")
Bytes(items) ==
  Size["key"] * Queued(items, "key") + Size["delta"] * Queued(items, "delta")
    + Size["still"] * Queued(items, "still")

LEMMA CountsType ==
  ASSUME NEW s, Len(s) \in Nat
  PROVE  /\ Frames(s) \in Nat /\ Bytes(s) \in Nat
         /\ \A kind \in Video : Queued(s, kind) \in Nat /\ Size[kind] \in Nat
<1>1. \A kind \in Video : Queued(s, kind) \in Nat /\ Size[kind] \in Nat
  BY QueuedType, LimitsAssumption
<1>2. {"key", "delta", "still"} \subseteq Video  BY DEF Video
<1>3. \A a, b \in Nat : a * b \in Nat  OBVIOUS
<1>4. \A kind \in Video : Size[kind] * Queued(s, kind) \in Nat  BY <1>1, <1>3
<1>5. Frames(s) \in Nat  BY <1>1, <1>2 DEF Frames
<1> DEFINE x(kind) == Size[kind] * Queued(s, kind)
<1>6. Bytes(s) = x("key") + x("delta") + x("still")  BY DEF Bytes
<1>7. \A kind \in Video : x(kind) \in Nat  BY <1>4
<1> HIDE DEF x
<1>8. Bytes(s) \in Nat
  <2>1. x("key") \in Nat /\ x("delta") \in Nat /\ x("still") \in Nat  BY <1>2, <1>7
  <2> QED  BY <1>6, <2>1
<1> QED  BY <1>1, <1>5, <1>8

\* One more of a kind, or one less.
LEMMA CountsChange ==
  ASSUME NEW s, NEW t, Len(s) \in Nat, Len(t) \in Nat, NEW kind, NEW d \in {1, -1},
         \A k \in Video : Queued(t, k) = IF k = kind THEN Queued(s, k) + d ELSE Queued(s, k)
  PROVE  /\ Frames(t) = IF kind \in Video THEN Frames(s) + d ELSE Frames(s)
         /\ Bytes(t) = IF kind \in Video THEN Bytes(s) + d * Size[kind] ELSE Bytes(s)
<1> DEFINE x(k) == Size[k] * Queued(s, k)
           y(k) == Size[k] * Queued(t, k)
<1>1. Video = {"key", "delta", "still"}  BY DEF Video
<1>2. \A k \in Video : /\ Queued(s, k) \in Nat /\ Queued(t, k) \in Nat
                       /\ Size[k] \in Nat
  BY CountsType
<1>3. \A k \in Video : x(k) \in Int /\ y(k) \in Int
  BY <1>2
<1>4. \A k \in Video : y(k) = IF k = kind THEN x(k) + d * Size[k] ELSE x(k)
  <2> SUFFICES ASSUME NEW k \in Video
      PROVE  y(k) = IF k = kind THEN x(k) + d * Size[k] ELSE x(k)
    OBVIOUS
  <2>1. CASE k = kind /\ d = 1
    <3>1. Queued(t, k) = Queued(s, k) + 1  BY <2>1
    <3>2. \A a, b \in Nat : a * (b + 1) = a * b + 1 * a  OBVIOUS
    <3> QED  BY <1>2, <2>1, <3>1, <3>2
  <2>2. CASE k = kind /\ d = -1
    <3>1. Queued(t, k) = Queued(s, k) - 1
      <4>1. Queued(t, k) = Queued(s, k) + (-1)  BY <2>2
      <4> QED  BY <1>2, <4>1
    <3>2. \A a, b \in Nat : a * (b - 1) = a * b + (-1) * a  OBVIOUS
    <3> QED  BY <1>2, <2>2, <3>1, <3>2
  <2>3. CASE k # kind  BY <2>3
  <2> QED  BY <2>1, <2>2, <2>3
<1>5. Bytes(s) = x("key") + x("delta") + x("still")
      /\ Bytes(t) = y("key") + y("delta") + y("still")
  BY DEF Bytes
<1>6. \A k \in Video : d * Size[k] \in Int  BY <1>2
<1> HIDE DEF x, y
<1> DEFINE i(k) == Queued(s, k)
           j(k) == Queued(t, k)
<1>7. /\ Frames(s) = i("key") + i("delta") + i("still")
      /\ Frames(t) = j("key") + j("delta") + j("still")
      /\ \A k \in Video : i(k) \in Int /\ j(k) \in Int
      /\ \A k \in Video : j(k) = IF k = kind THEN i(k) + d ELSE i(k)
  BY <1>2 DEF Frames
<1> HIDE DEF i, j
<1>8. /\ "key" \in Video /\ "delta" \in Video /\ "still" \in Video
      /\ "key" # "delta" /\ "key" # "still" /\ "delta" # "still"
  BY <1>1
<1>9. /\ x("key") \in Int /\ x("delta") \in Int /\ x("still") \in Int
      /\ i("key") \in Int /\ i("delta") \in Int /\ i("still") \in Int
  BY <1>3, <1>7, <1>8
<1>10. ASSUME kind \in Video
       PROVE  Bytes(t) = Bytes(s) + d * Size[kind] /\ Frames(t) = Frames(s) + d
  <2> DEFINE e == d * Size[kind]
  <2>1. e \in Int  BY <1>6, <1>10
  <2> HIDE DEF e
  <2>2. /\ \A k \in Video : y(k) = IF k = kind THEN x(k) + e ELSE x(k)
    BY <1>4 DEF e
  <2>3. CASE kind = "key"
    <3>1. y("key") = x("key") + e /\ y("delta") = x("delta") /\ y("still") = x("still")
      BY <1>8, <2>2, <2>3
    <3>2. j("key") = i("key") + d /\ j("delta") = i("delta") /\ j("still") = i("still")
      BY <1>7, <1>8, <2>3
    <3>3. Bytes(t) = Bytes(s) + e  BY <1>5, <1>9, <2>1, <3>1
    <3>4. Frames(t) = Frames(s) + d  BY <1>7, <1>9, <3>2
    <3> QED  BY <3>3, <3>4 DEF e
  <2>4. CASE kind = "delta"
    <3>1. y("key") = x("key") /\ y("delta") = x("delta") + e /\ y("still") = x("still")
      BY <1>8, <2>2, <2>4
    <3>2. j("key") = i("key") /\ j("delta") = i("delta") + d /\ j("still") = i("still")
      BY <1>7, <1>8, <2>4
    <3>3. Bytes(t) = Bytes(s) + e  BY <1>5, <1>9, <2>1, <3>1
    <3>4. Frames(t) = Frames(s) + d  BY <1>7, <1>9, <3>2
    <3> QED  BY <3>3, <3>4 DEF e
  <2>5. CASE kind = "still"
    <3>1. y("key") = x("key") /\ y("delta") = x("delta") /\ y("still") = x("still") + e
      BY <1>8, <2>2, <2>5
    <3>2. j("key") = i("key") /\ j("delta") = i("delta") /\ j("still") = i("still") + d
      BY <1>7, <1>8, <2>5
    <3>3. Bytes(t) = Bytes(s) + e  BY <1>5, <1>9, <2>1, <3>1
    <3>4. Frames(t) = Frames(s) + d  BY <1>7, <1>9, <3>2
    <3> QED  BY <3>3, <3>4 DEF e
  <2> QED  BY <1>1, <1>10, <2>3, <2>4, <2>5
<1>11. ASSUME kind \notin Video
       PROVE  Bytes(t) = Bytes(s) /\ Frames(t) = Frames(s)
  <2>1. y("key") = x("key") /\ y("delta") = x("delta") /\ y("still") = x("still")
    BY <1>4, <1>8, <1>11
  <2>2. j("key") = i("key") /\ j("delta") = i("delta") /\ j("still") = i("still")
    BY <1>7, <1>8, <1>11
  <2> QED  BY <1>5, <1>7, <2>1, <2>2
<1> QED  BY <1>10, <1>11

LEMMA CountsOfAppend ==
  ASSUME NEW s \in Seq(Item), NEW x \in Item
  PROVE  LET t == Append(s, x) IN
         /\ t \in Seq(Item)
         /\ Frames(t) = IF x.kind \in Video THEN Frames(s) + 1 ELSE Frames(s)
         /\ Bytes(t) = IF x.kind \in Video THEN Bytes(s) + Size[x.kind] ELSE Bytes(s)
<1> DEFINE t == Append(s, x)
<1>1. t \in Seq(Item) /\ Len(s) \in Nat /\ Len(t) \in Nat  OBVIOUS
<1>2. \A k \in Video :
        Queued(t, k) = IF k = x.kind THEN Queued(s, k) + 1 ELSE Queued(s, k)
  BY QueuedOfAppend
<1> HIDE DEF t
<1>3. /\ Frames(t) = IF x.kind \in Video THEN Frames(s) + 1 ELSE Frames(s)
      /\ Bytes(t) = IF x.kind \in Video THEN Bytes(s) + 1 * Size[x.kind] ELSE Bytes(s)
  BY <1>1, <1>2, CountsChange
<1>4. x.kind \in Video => 1 * Size[x.kind] = Size[x.kind]  BY LimitsAssumption
<1> QED  BY <1>1, <1>3, <1>4 DEF t

LEMMA CountsOfTail ==
  ASSUME NEW s \in Seq(Item), s # <<>>
  PROVE  LET t == Tail(s)  kind == Head(s).kind IN
         /\ t \in Seq(Item)
         /\ Frames(t) = IF kind \in Video THEN Frames(s) - 1 ELSE Frames(s)
         /\ Bytes(t) = IF kind \in Video THEN Bytes(s) - Size[kind] ELSE Bytes(s)
<1> DEFINE t == Tail(s)
           kind == Head(s).kind
<1>1. t \in Seq(Item) /\ Len(s) \in Nat /\ Len(t) \in Nat  OBVIOUS
<1>2. \A k \in Video :
        Queued(t, k) = IF k = kind THEN Queued(s, k) - 1 ELSE Queued(s, k)
  BY QueuedOfTail
<1>3. \A k \in Video : Queued(s, k) \in Nat  BY <1>1, CountsType
<1> HIDE DEF t, kind
<1>4. \A k \in Video :
        Queued(t, k) = IF k = kind THEN Queued(s, k) + (-1) ELSE Queued(s, k)
  BY <1>2, <1>3
<1>5. /\ Frames(t) = IF kind \in Video THEN Frames(s) + (-1) ELSE Frames(s)
      /\ Bytes(t) = IF kind \in Video THEN Bytes(s) + (-1) * Size[kind] ELSE Bytes(s)
  BY <1>1, <1>4, CountsChange
<1>6. /\ Frames(s) \in Nat /\ Bytes(s) \in Nat
      /\ kind \in Video => Size[kind] \in Nat
  BY <1>1, CountsType
<1>7. /\ Frames(s) + (-1) = Frames(s) - 1
      /\ kind \in Video => Bytes(s) + (-1) * Size[kind] = Bytes(s) - Size[kind]
  BY <1>6
<1> QED  BY <1>1, <1>5, <1>7 DEF t, kind

\* Messages alone count for nothing.
LEMMA CountsOfControl ==
  ASSUME NEW s \in Seq(Item)
  PROVE  LET t == ControlOnly(s) IN
         t \in Seq(Item) /\ Frames(t) = 0 /\ Bytes(t) = 0
<1> DEFINE t == ControlOnly(s)
           Y == {x \in Item : IsControl(x)}
<1>1. t \in Seq(Y)  BY ControlIsControl
<1> HIDE DEF t
<1>2. t \in Seq(Item)
  <2>1. Y \subseteq Item  OBVIOUS
  <2> HIDE DEF Y
  <2> QED  BY <1>1, <2>1
<1>3. \A n \in 1 .. Len(t) : t[n].kind \notin Video
  <2>1. \A n \in 1 .. Len(t) : t[n] \in Y
    <3> HIDE DEF Y
    <3> QED  BY <1>1
  <2> QED  BY <2>1 DEF IsControl, Control, Video
<1>4. \A k \in Video : Queued(t, k) = 0  BY <1>3, QueuedNone
<1>5. \A k \in Video : Size[k] \in Nat  BY LimitsAssumption
<1>6. "key" \in Video /\ "delta" \in Video /\ "still" \in Video  BY DEF Video
<1>7. Frames(t) = 0 /\ Bytes(t) = 0
  BY <1>4, <1>5, <1>6 DEF Frames, Bytes
<1> QED  BY <1>2, <1>7 DEF t

LEMMA CountsAlike ==
  ASSUME NEW s, NEW t, Len(t) = Len(s), \A n \in 1 .. Len(s) : t[n].kind = s[n].kind
  PROVE  Frames(t) = Frames(s) /\ Bytes(t) = Bytes(s)
BY QueuedAlike DEF Frames, Bytes

-----------------------------------------------------------------------------
(* What a step of a pipe does to its queue.                                *)

\* What only the viewer's own task and the requests for keyframes touch.
Others(q, p) == q.asked = p.asked /\ q.sending = p.sending /\ q.dead = p.dead

\* The counts are those of the queue.
Filled(p) ==
  /\ p.items \in Seq(Item)
  /\ p.frames = Frames(p.items)
  /\ p.bytes = Bytes(p.items)

\* The messages queued before are still queued, with one more at most.
Follows(q, p) ==
  LET after == ControlOnly(q.items)
      before == ControlOnly(p.items)
  IN  after = before \/ \E x : after = Append(before, x)

New(kind) == [kind |-> kind, age |-> 0]

LEMMA NewItem ==
  ASSUME NEW kind \in Video \cup Control
  PROVE  New(kind) \in Item /\ New(kind).kind = kind
<1>1. 0 \in 0 .. LagLimit + 1  BY LimitsAssumption
<1> QED  BY <1>1 DEF New, Item

LEMMA PutEffect ==
  ASSUME NEW p, Shaped(p), NEW kind
  PROVE  LET q == Put(p, kind) IN q.items = Append(p.items, New(kind)) /\ Others(q, p)
BY DEF Shaped, Put, New, Others

LEMMA CutEffect ==
  ASSUME NEW p, Shaped(p)
  PROVE  Cut(p).items = p.items /\ Others(Cut(p), p)
BY DEF Shaped, Cut, Others

LEMMA MixedEffect ==
  ASSUME NEW p, Shaped(p)
  PROVE  LET q == Mixed(p) IN
         q.items = p.items /\ q.frames = p.frames /\ q.bytes = p.bytes /\ Others(q, p)
BY DEF Shaped, Mixed, Others

LEMMA PurgedEffect ==
  ASSUME NEW p, Shaped(p)
  PROVE  Purged(p).items = ControlOnly(p.items) /\ Others(Purged(p), p)
<1> DEFINE t == ControlOnly(p.items)
<1>1. Purged(p) = [p EXCEPT !.items = t, !.frames = 0, !.bytes = 0, !.tail = "cut"]
  BY DEF Purged, Cut, Shaped
<1> HIDE DEF t
<1> QED  BY <1>1 DEF Shaped, Others, t

LEMMA PutFrameEffect ==
  ASSUME NEW p, Shaped(p), NEW kind
  PROVE  LET q == PutFrame(p, kind) IN q.items = Append(p.items, New(kind)) /\ Others(q, p)
<1> DEFINE c == [p EXCEPT !.waiting = @ /\ kind = "delta", !.frames = @ + 1,
                          !.bytes = @ + Size[kind]]
           d == Put(c, kind)
<1>1. c.items = p.items /\ c.asked = p.asked /\ c.sending = p.sending /\ c.dead = p.dead
  BY DEF Shaped
<1>2. d.items = Append(c.items, New(kind)) /\ Others(d, c)
  BY DEF Shaped, Put, New, Others
<1>3. PutFrame(p, kind).items = d.items /\ Others(PutFrame(p, kind), d)
  BY DEF PutFrame, Extended, Others, Put, Shaped
<1> HIDE DEF c, d
<1> QED  BY <1>1, <1>2, <1>3 DEF Others

LEMMA PutFills ==
  ASSUME NEW p, Shaped(p), Filled(p), NEW kind \in Control
  PROVE  LET q == Put(p, kind) IN
         /\ Filled(q)
         /\ ControlOnly(q.items) = Append(ControlOnly(p.items), New(kind))
<1> DEFINE q == Put(p, kind)
<1>1. /\ New(kind) \in Item /\ New(kind).kind \notin Video /\ IsControl(New(kind))
  BY NewItem DEF IsControl, Control, Video
<1>2. q.items = Append(p.items, New(kind)) /\ q.frames = p.frames /\ q.bytes = p.bytes
  BY PutEffect, PutShape
<1> HIDE DEF q
<1>3. Filled(q)  BY <1>1, <1>2, CountsOfAppend DEF Filled
<1>4. ControlOnly(q.items) = Append(ControlOnly(p.items), New(kind))
  BY <1>1, <1>2, ControlOfAppend DEF Filled
<1> QED  BY <1>3, <1>4 DEF q

LEMMA PutFrameFills ==
  ASSUME NEW p, Shaped(p), Filled(p), NEW kind \in Video
  PROVE  LET q == PutFrame(p, kind) IN
         Filled(q) /\ ControlOnly(q.items) = ControlOnly(p.items)
<1> DEFINE q == PutFrame(p, kind)
<1>1. /\ New(kind) \in Item /\ New(kind).kind = kind /\ ~IsControl(New(kind))
  BY NewItem DEF IsControl, Control, Video
<1>2. /\ q.items = Append(p.items, New(kind))
      /\ q.frames = p.frames + 1 /\ q.bytes = p.bytes + Size[kind]
  BY PutFrameEffect, PutFrameShape
<1> HIDE DEF q
<1>3. Filled(q)  BY <1>1, <1>2, CountsOfAppend DEF Filled
<1>4. ControlOnly(q.items) = ControlOnly(p.items)
  BY <1>1, <1>2, ControlOfAppend DEF Filled
<1> QED  BY <1>3, <1>4 DEF q

LEMMA PurgedFills ==
  ASSUME NEW p, Shaped(p), Filled(p)
  PROVE  LET q == Purged(p) IN
         Filled(q) /\ ControlOnly(q.items) = ControlOnly(p.items)
<1> DEFINE q == Purged(p)
<1>1. q.items = ControlOnly(p.items) /\ q.frames = 0 /\ q.bytes = 0
  BY PurgedEffect, PurgedShape
<1> HIDE DEF q
<1>2. Filled(q)  BY <1>1, CountsOfControl DEF Filled
<1>3. ControlOnly(q.items) = ControlOnly(p.items)
  BY <1>1, ControlTwice DEF Filled
<1> QED  BY <1>2, <1>3 DEF q

\* Whatever is offered, the counts stay those of the queue, and of its messages
\* none goes.
LEMMA OfferFills ==
  ASSUME NEW p, Shaped(p), Filled(p), NEW kind \in Video \cup Control
  PROVE  LET q == Offer(p, kind) IN Filled(q) /\ Others(q, p) /\ Follows(q, p)
<1> DEFINE q == Offer(p, kind)
           told == Put(p, "json")
<1>0. "json" \in Control  BY DEF Control
<1>1. /\ Shaped(told) /\ Filled(told) /\ Others(told, p)
      /\ ControlOnly(told.items) = Append(ControlOnly(p.items), New("json"))
      /\ told.frames = p.frames /\ told.bytes = p.bytes
  BY <1>0, PutShape, PutEffect, PutFills
<1>2. CASE kind \in Control
  <2>1. q = Put(p, kind)
    BY <1>2 DEF Offer, Video, Control, Standalone
  <2> QED  BY <1>2, <2>1, PutEffect, PutFills DEF Follows
<1>3. CASE kind = "delta" /\ p.waiting
  <2> DEFINE a == [p EXCEPT !.wants = @ \/ StillUnanswered(p)]
  <2>1. q = Cut(a)
    BY <1>3 DEF Offer, Video, Control, Standalone
  <2>2. Shaped(a)
    <3>1. (p.wants \/ StillUnanswered(p)) \in BOOLEAN
      BY DEF StillUnanswered
    <3> QED  BY <3>1, Update
  <2>3. /\ a.items = p.items /\ a.frames = p.frames /\ a.bytes = p.bytes
        /\ Others(a, p)
    BY DEF Shaped, Others
  <2> HIDE DEF a
  <2>4. /\ q.items = p.items /\ q.frames = p.frames /\ q.bytes = p.bytes
        /\ Others(q, p)
    BY <2>1, <2>2, <2>3, CutEffect, CutShape DEF Others
  <2> HIDE DEF q
  <2> QED  BY <2>4 DEF Filled, Follows, q
<1>4. CASE kind = "delta" /\ ~p.waiting /\ Behind(p)
  <2>1. q = SetAside(told)
    BY <1>4 DEF Offer, Video, Control, Standalone
  <2> HIDE DEF told
  <2>2. /\ SetAside(told).items = told.items /\ SetAside(told).frames = told.frames
        /\ SetAside(told).bytes = told.bytes /\ Others(SetAside(told), told)
    BY <1>1 DEF SetAside, Cut, Shaped, Others
  <2>3. /\ q.items = told.items /\ q.frames = told.frames /\ q.bytes = told.bytes
        /\ Others(q, p)
    BY <1>1, <2>1, <2>2 DEF Others
  <2> HIDE DEF q
  <2> QED  BY <1>1, <2>3 DEF Filled, Follows, q
<1>5. CASE kind = "delta" /\ ~p.waiting /\ ~Behind(p)
  <2>1. q = PutFrame(p, kind) /\ kind \in Video
    BY <1>5 DEF Offer, Video, Control, Standalone
  <2> QED  BY <2>1, PutFrameEffect, PutFrameFills DEF Follows
<1>6. CASE kind \in Standalone
  <2> DEFINE r == IF Lag(p) > CatchUp THEN Purged(p)
                  ELSE IF Behind(p) THEN Purged(told) ELSE p
  <2>1. q = PutFrame(r, kind) /\ kind \in Video
    BY <1>6 DEF Offer, Video, Control, Standalone
  <2>2. Shaped(r) /\ Filled(r) /\ Others(r, p) /\ Follows(r, p)
    <3>1. CASE Lag(p) > CatchUp
      <4>1. r = Purged(p)  BY <3>1
      <4> HIDE DEF r
      <4> QED  BY <4>1, PurgedShape, PurgedEffect, PurgedFills DEF Follows
    <3>2. CASE ~(Lag(p) > CatchUp) /\ Behind(p)
      <4>1. r = Purged(told)  BY <3>2
      <4> HIDE DEF r, told
      <4>2. Shaped(r) /\ Others(r, told)
            /\ Filled(r) /\ ControlOnly(r.items) = ControlOnly(told.items)
        BY <1>1, <4>1, PurgedShape, PurgedEffect, PurgedFills
      <4> QED  BY <1>1, <4>2 DEF Follows, Others
    <3>3. CASE ~(Lag(p) > CatchUp) /\ ~Behind(p)
      <4>1. r = p  BY <3>3
      <4> QED  BY <4>1 DEF Follows, Others
    <3> QED  BY <3>1, <3>2, <3>3
  <2> HIDE DEF r, q
  <2>3. Others(q, r) /\ Filled(q) /\ ControlOnly(q.items) = ControlOnly(r.items)
    BY <2>1, <2>2, PutFrameEffect, PutFrameFills
  <2> QED  BY <2>2, <2>3 DEF Follows, Others, q
<1> HIDE DEF q
<1>7. p.waiting \in BOOLEAN  BY DEF Shaped
<1>8. kind \in Control \/ kind = "delta" \/ kind \in Standalone
  BY DEF Video, Standalone
<1>9. Filled(q) /\ Others(q, p) /\ Follows(q, p)
  BY <1>2, <1>3, <1>4, <1>5, <1>6, <1>7, <1>8 DEF q
<1> QED  BY <1>9 DEF q
-----------------------------------------------------------------------------
(* Every step keeps the counts and the messages.                           *)

Timed(p) ==
  /\ p.asked \in 0 .. OldAge
  /\ p.sending \in Video \cup Control \cup {None}

\* The inductive invariant of the queues, and what else is typed.
QueueInv ==
  /\ PipeInv
  /\ \A v \in Viewers : Filled(pipe[v]) /\ Timed(pipe[v])

\* The connection and its viewers.
Wired ==
  /\ subs \subseteq Viewers
  /\ keyAge \in 0 .. OldAge
  /\ online \in BOOLEAN
  /\ capture \in {"off", "first", "h264", "jpeg"}
  /\ asked \in {"no", "sent", "received"}
  /\ lost \in 0 .. MaxLost
  /\ ~online => subs = {}

RelayInv ==
  /\ Wired
  /\ \A v \in Viewers \ subs : pipe[v].dead

LEMMA Ages ==
  /\ OldAge \in Nat /\ 0 \in 0 .. OldAge /\ OldAge \in 0 .. OldAge
  /\ \A age \in 0 .. OldAge : Older(age) \in 0 .. OldAge
<1>1. OldAge \in Nat  BY LimitsAssumption DEF OldAge
<1> HIDE DEF OldAge
<1> QED  BY <1>1 DEF Older

\* A new pipe, and one that has been closed.
LEMMA EmptyFilled ==
  \A p \in {FreshPipe, ClosedPipe} : Filled(p) /\ Timed(p)
<1> DEFINE s == <<>>
<1>1. s \in Seq(Item) /\ Len(s) = 0  OBVIOUS
<1>2. ControlOnly(s) = s
  <2>1. \A n \in 1 .. Len(s) : IsControl(s[n])  BY <1>1
  <2> HIDE DEF s
  <2> QED  BY <1>1, <2>1, ControlOfControl
<1> HIDE DEF s
<1>3. Frames(s) = 0 /\ Bytes(s) = 0  BY <1>1, <1>2, CountsOfControl
<1>4. \A p \in {FreshPipe, ClosedPipe} :
        /\ p.items = s /\ p.frames = 0 /\ p.bytes = 0
        /\ p.asked = OldAge /\ p.sending = None
  BY DEF FreshPipe, ClosedPipe, s
<1> QED  BY <1>1, <1>3, <1>4, Ages DEF Filled, Timed

\* fanout notes of the asking do not touch the queue.
LEMMA FanoutFills ==
  ASSUME NEW offered, NEW before, Fanout(offered, before),
         NEW v \in Viewers,
         Shaped(offered[v]), Filled(offered[v]), Timed(offered[v])
  PROVE  /\ Filled(pipe'[v]) /\ Timed(pipe'[v])
         /\ pipe'[v].items = offered[v].items /\ pipe'[v].dead = offered[v].dead
<1> DEFINE o == offered[v]
<1>1. \/ pipe'[v] = o
      \/ pipe'[v] = [o EXCEPT !.wants = FALSE, !.asked = 0]
      \/ pipe'[v] = [o EXCEPT !.wants = FALSE, !.asked = o.asked]
  BY DEF Fanout
<1> HIDE DEF o
<1>2. \A q : \/ q = o
             \/ q = [o EXCEPT !.wants = FALSE, !.asked = 0]
             \/ q = [o EXCEPT !.wants = FALSE, !.asked = o.asked]
        => /\ q.items = o.items /\ q.frames = o.frames /\ q.bytes = o.bytes
           /\ q.asked \in {0, o.asked} /\ q.sending = o.sending /\ q.dead = o.dead
  BY DEF Shaped, o
<1>3. /\ pipe'[v].items = o.items /\ pipe'[v].frames = o.frames
      /\ pipe'[v].bytes = o.bytes /\ pipe'[v].asked \in {0, o.asked}
      /\ pipe'[v].sending = o.sending /\ pipe'[v].dead = o.dead
  BY <1>1, <1>2
<1> QED  BY <1>3, Ages DEF Filled, Timed, o

\* Something arrives, over the device's connection or a replaced one.
LEMMA ArrivalFills ==
  ASSUME QueueInv, NEW kind \in Video \cup Control, NEW before, NEW offered,
         \/ offered = OfferedAll(kind)
         \/ offered = [v \in Viewers |-> Mixed(OfferedAll(kind)[v])],
         Fanout(offered, before), NEW v \in Viewers
  PROVE  /\ Filled(pipe'[v]) /\ Timed(pipe'[v])
         /\ Follows(pipe'[v], pipe[v])
         /\ pipe'[v].dead = pipe[v].dead
<1> DEFINE p == pipe[v]
           o == OfferedAll(kind)[v]
           m == offered[v]
<1>1. Shaped(p) /\ Counted(p) /\ Filled(p) /\ Timed(p)
  BY DEF QueueInv, PipeInv
<1>2. o = p \/ o = Offer(p, kind)
  BY DEF OfferedAll
<1>3. m = o \/ m = Mixed(o)
  OBVIOUS
<1> HIDE DEF p, o, m
<1>4. Follows(p, p) /\ Others(p, p)
  BY DEF Follows, Others
<1>5. Shaped(o) /\ Filled(o) /\ Others(o, p) /\ Follows(o, p)
  BY <1>1, <1>2, <1>4, OfferKeeps, OfferFills
<1>6. /\ Shaped(m) /\ Others(m, p)
      /\ m.items = o.items /\ m.frames = o.frames /\ m.bytes = o.bytes
  <2>1. CASE m = o  BY <1>5, <2>1
  <2>2. CASE m = Mixed(o)
    <3>1. Shaped(m)
      <4>1. CASE o.tail = "whole"
        BY <1>5, <2>2, <4>1, Update DEF Mixed
      <4>2. CASE o.tail # "whole"
        BY <1>5, <2>2, <4>2 DEF Mixed
      <4> QED  BY <4>1, <4>2
    <3> QED  BY <1>5, <2>2, <3>1, MixedEffect DEF Others
  <2> QED  BY <1>3, <2>1, <2>2
<1>7. Filled(m) /\ Timed(m) /\ Follows(m, p)
  BY <1>1, <1>5, <1>6 DEF Filled, Timed, Follows, Others
<1>8. Filled(pipe'[v]) /\ Timed(pipe'[v])
      /\ pipe'[v].items = m.items /\ pipe'[v].dead = m.dead
  BY <1>6, <1>7, FanoutFills DEF m
<1> QED  BY <1>6, <1>7, <1>8 DEF Follows, Others, p

\* The queue of a viewer whose item is taken.
LEMMA TakeFills ==
  ASSUME QueueInv, NEW v \in Viewers, Take(v)
  PROVE  Filled(pipe'[v]) /\ Timed(pipe'[v])
<1> DEFINE p == pipe[v]
           kind == Head(p.items).kind
           q == [p EXCEPT !.items = Tail(@), !.sending = kind,
                          !.frames = IF kind \in Video THEN @ - 1 ELSE @,
                          !.bytes = @ - IF kind \in Video THEN Size[kind] ELSE 0]
<1>1. Shaped(p) /\ Filled(p) /\ Timed(p) /\ p.items # <<>>
  BY DEF QueueInv, PipeInv, Take
<1>2. pipe'[v] = q
  BY DEF Take, QueueInv, PipeInv
<1>3. kind \in Video \cup Control
  <2>1. Head(p.items) \in Item  BY <1>1 DEF Filled
  <2> QED  BY <2>1 DEF Item
<1> HIDE DEF p, kind
<1>4. /\ q.items = Tail(p.items) /\ q.sending = kind /\ q.asked = p.asked
      /\ q.frames = IF kind \in Video THEN p.frames - 1 ELSE p.frames
      /\ q.bytes = p.bytes - IF kind \in Video THEN Size[kind] ELSE 0
  BY <1>1 DEF Shaped
<1> HIDE DEF q
<1>5. p.bytes \in Int  BY <1>1 DEF Shaped
<1>6. /\ Tail(p.items) \in Seq(Item)
      /\ Frames(Tail(p.items)) = IF kind \in Video THEN Frames(p.items) - 1 ELSE Frames(p.items)
      /\ Bytes(Tail(p.items)) = IF kind \in Video THEN Bytes(p.items) - Size[kind]
                                ELSE Bytes(p.items)
  BY <1>1, CountsOfTail DEF Filled, kind
<1> QED  BY <1>1, <1>2, <1>3, <1>4, <1>5, <1>6 DEF Filled, Timed

LEMMA TickFills ==
  ASSUME QueueInv, Tick, NEW v \in Viewers
  PROVE  /\ Filled(pipe'[v]) /\ Timed(pipe'[v])
         /\ Follows(pipe'[v], pipe[v]) /\ pipe'[v].dead = pipe[v].dead
<1> DEFINE p == pipe[v]
           t == Aged(p.items)
           q == [p EXCEPT !.asked = Older(@), !.items = Aged(@)]
<1>1. Shaped(p) /\ Filled(p) /\ Timed(p)
  BY DEF QueueInv, PipeInv
<1>2. pipe'[v] = q
  BY DEF Tick
<1> HIDE DEF p
<1>3. /\ q.items = t /\ q.asked = Older(p.asked) /\ q.sending = p.sending
      /\ q.frames = p.frames /\ q.bytes = p.bytes /\ q.dead = p.dead
  BY <1>1 DEF Shaped
<1> HIDE DEF q
<1> DEFINE s == p.items
<1>4. s \in Seq(Item) /\ Len(s) \in Nat  BY <1>1 DEF Filled
<1> HIDE DEF s
<1> DEFINE e(i) == IF IsVideo(s[i]) /\ s[i].age <= LagLimit
                   THEN [s[i] EXCEPT !.age = @ + 1] ELSE s[i]
<1>5. \A i \in 1 .. Len(s) :
        /\ e(i) \in Item /\ e(i).kind = s[i].kind
        /\ IsControl(s[i]) => e(i) = s[i]
  <2> SUFFICES ASSUME NEW i \in 1 .. Len(s)
      PROVE  /\ e(i) \in Item /\ e(i).kind = s[i].kind
             /\ IsControl(s[i]) => e(i) = s[i]
    OBVIOUS
  <2>1. s[i] \in Item  BY <1>4
  <2>2. s[i].age \in 0 .. LagLimit + 1 /\ LagLimit \in Nat
    BY <2>1, LimitsAssumption DEF Item
  <2>3. s[i].age <= LagLimit => s[i].age + 1 \in 0 .. LagLimit + 1  BY <2>2
  <2> QED  BY <2>1, <2>3 DEF Item, IsControl, IsVideo, Control, Video
<1>6. t = [i \in 1 .. Len(s) |-> e(i)]
  <2>1. DOMAIN s = 1 .. Len(s)  BY <1>4
  <2> QED  BY <2>1 DEF Aged, s
<1> HIDE DEF e, t
<1>7. /\ t \in Seq(Item) /\ Len(t) = Len(s)
      /\ \A i \in 1 .. Len(s) : t[i] = e(i)
  BY <1>4, <1>5, <1>6
<1>8. Frames(t) = Frames(s) /\ Bytes(t) = Bytes(s)
  BY <1>5, <1>7, CountsAlike
<1>9. ControlOnly(t) = ControlOnly(s)
  BY <1>4, <1>5, <1>7, ControlAlike DEF IsControl
<1> QED
  BY <1>1, <1>2, <1>3, <1>7, <1>8, <1>9, Ages DEF Filled, Timed, Follows, s, p
LEMMA QueueSteps ==
  ASSUME QueueInv, [Next]_vars, NEW v \in Viewers
  PROVE  Filled(pipe'[v]) /\ Timed(pipe'[v])
<1>0. Filled(pipe[v]) /\ Timed(pipe[v]) /\ pipe = [w \in Viewers |-> pipe[w]]
      /\ Shaped(pipe[v])
  BY DEF QueueInv, PipeInv
<1>1. ASSUME NEW kind \in Control, ControlArrives(kind)
      PROVE  Filled(pipe'[v]) /\ Timed(pipe'[v])
  BY <1>1, ArrivalFills DEF ControlArrives
<1>2. ASSUME NEW kind \in Video, FrameArrives(kind)
      PROVE  Filled(pipe'[v]) /\ Timed(pipe'[v])
  BY <1>2, ArrivalFills DEF FrameArrives
<1>3. ASSUME NEW kind \in Video, StaleFrameArrives(kind)
      PROVE  Filled(pipe'[v]) /\ Timed(pipe'[v])
  BY <1>3, ArrivalFills DEF StaleFrameArrives
<1>4. CASE pipe' = pipe
  BY <1>0, <1>4
<1>5. CASE pipe' = Released
  <2>1. pipe'[v] = ClosedPipe \/ pipe'[v] = pipe[v]
    BY <1>5 DEF Released
  <2> QED  BY <1>0, <2>1, EmptyFilled
<1>6. ASSUME NEW w \in Viewers, Join(w) \/ Leave(w)
      PROVE  Filled(pipe'[v]) /\ Timed(pipe'[v])
  <2>1. pipe'[v] \in {FreshPipe, ClosedPipe, pipe[v]}
    BY <1>0, <1>6 DEF Join, Leave
  <2> QED  BY <1>0, <2>1, EmptyFilled
<1>7. ASSUME NEW w \in Viewers, Take(w)
      PROVE  Filled(pipe'[v]) /\ Timed(pipe'[v])
  <2>1. CASE w = v  BY <1>7, <2>1, TakeFills
  <2>2. CASE w # v
    <3>1. pipe'[v] = pipe[v]  BY <1>0, <1>7, <2>2 DEF Take
    <3> QED  BY <1>0, <3>1
  <2> QED  BY <2>1, <2>2
<1>8. ASSUME NEW w \in Viewers, Sent(w) \/ SendFails(w)
      PROVE  Filled(pipe'[v]) /\ Timed(pipe'[v])
  <2> DEFINE p == pipe[v]
  <2>1. \/ pipe'[v] = p
        \/ pipe'[v] = [p EXCEPT !.sending = None]
        \/ pipe'[v] = [p EXCEPT !.sending = None, !.dead = TRUE]
    BY <1>0, <1>8 DEF Sent, SendFails
  <2> HIDE DEF p
  <2>2. /\ pipe'[v].items = p.items /\ pipe'[v].frames = p.frames
        /\ pipe'[v].bytes = p.bytes /\ pipe'[v].asked = p.asked
        /\ pipe'[v].sending \in {p.sending, None}
    BY <1>0, <2>1 DEF Shaped, p
  <2> QED  BY <1>0, <2>2 DEF Filled, Timed, p
<1>9. CASE Tick
  BY <1>9, TickFills
<1> QED
  BY <1>1, <1>2, <1>3, <1>4, <1>5, <1>6, <1>7, <1>8, <1>9
  DEF Next, vars, AskArrives, AskOverlooked, CaptureChanges, AgentConnects, AgentLeaves

LEMMA NextQueueInv == QueueInv /\ [Next]_vars => QueueInv'
<1> SUFFICES ASSUME QueueInv, [Next]_vars PROVE QueueInv'
  OBVIOUS
<1>1. PipeInv'  BY NextPipeInv DEF QueueInv
<1>2. \A v \in Viewers : Filled(pipe'[v]) /\ Timed(pipe'[v])  BY QueueSteps
<1> QED  BY <1>1, <1>2 DEF QueueInv, Filled, Timed

\* Of the messages none goes but by being sent.
LEMMA MessagesKept ==
  ASSUME QueueInv, RelayInv, [Next]_vars, NEW v \in subs \cap subs'
  PROVE  Take(v) \/ Follows(pipe'[v], pipe[v])
<1>0. v \in Viewers /\ pipe = [w \in Viewers |-> pipe[w]] /\ Shaped(pipe[v])
  BY DEF QueueInv, PipeInv, RelayInv, Wired
<1>1. ASSUME NEW kind \in Control, ControlArrives(kind)
      PROVE  Follows(pipe'[v], pipe[v])
  BY <1>0, <1>1, ArrivalFills DEF ControlArrives
<1>2. ASSUME NEW kind \in Video, FrameArrives(kind)
      PROVE  Follows(pipe'[v], pipe[v])
  BY <1>0, <1>2, ArrivalFills DEF FrameArrives
<1>3. ASSUME NEW kind \in Video, StaleFrameArrives(kind)
      PROVE  Follows(pipe'[v], pipe[v])
  BY <1>0, <1>3, ArrivalFills DEF StaleFrameArrives
<1>4. ASSUME pipe'[v].items = pipe[v].items
      PROVE  Follows(pipe'[v], pipe[v])
  BY <1>4 DEF Follows
<1>5. ASSUME NEW w \in Viewers, Join(w) \/ Leave(w)
      PROVE  pipe'[v].items = pipe[v].items
  BY <1>0, <1>5 DEF Join, Leave
<1>6. ASSUME NEW w \in Viewers, Take(w), w # v
      PROVE  pipe'[v].items = pipe[v].items
  BY <1>0, <1>6 DEF Take
<1>7. ASSUME NEW w \in Viewers, Sent(w) \/ SendFails(w)
      PROVE  pipe'[v].items = pipe[v].items
  <2> DEFINE p == pipe[v]
  <2>1. \/ pipe'[v] = p
        \/ pipe'[v] = [p EXCEPT !.sending = None]
        \/ pipe'[v] = [p EXCEPT !.sending = None, !.dead = TRUE]
    BY <1>0, <1>7 DEF Sent, SendFails
  <2> HIDE DEF p
  <2> QED  BY <1>0, <2>1 DEF Shaped, p
<1>8. CASE Tick
  BY <1>0, <1>8, TickFills
<1> QED
  BY <1>1, <1>2, <1>3, <1>4, <1>5, <1>6, <1>7, <1>8
  DEF Next, vars, AskArrives, AskOverlooked, CaptureChanges, AgentConnects, AgentLeaves

LEMMA FollowsPrefix ==
  ASSUME NEW p, NEW q, Filled(p), Follows(q, p)
  PROVE  LET before == ControlOnly(p.items)
             after == ControlOnly(q.items)
         IN  Len(after) >= Len(before) /\ SubSeq(after, 1, Len(before)) = before
<1> DEFINE before == ControlOnly(p.items)
           after == ControlOnly(q.items)
           Y == {x \in Item : IsControl(x)}
<1>1. before \in Seq(Y)  BY ControlIsControl DEF Filled
<1>2. after = before \/ \E x : after = Append(before, x)  BY DEF Follows
<1> HIDE DEF before, after, Y
<1>3. ASSUME after = before
      PROVE  Len(after) >= Len(before) /\ SubSeq(after, 1, Len(before)) = before
  <2>1. Len(before) \in Nat /\ SubSeq(before, 1, Len(before)) = before  BY <1>1
  <2> QED  BY <1>3, <2>1
<1>4. ASSUME NEW x, after = Append(before, x)
      PROVE  Len(after) >= Len(before) /\ SubSeq(after, 1, Len(before)) = before
  <2>1. before \in Seq(Y \cup {x}) /\ x \in Y \cup {x}  BY <1>1
  <2>2. /\ after \in Seq(Y \cup {x}) /\ Len(after) = Len(before) + 1 /\ Len(before) \in Nat
        /\ \A n \in 1 .. Len(before) : after[n] = before[n]
    BY <2>1, <1>4
  <2>3. SubSeq(after, 1, Len(before)) = before
    BY <2>1, <2>2
  <2> QED  BY <2>2, <2>3
<1>5. Len(after) >= Len(before) /\ SubSeq(after, 1, Len(before)) = before
  BY <1>2, <1>3, <1>4
<1> QED  BY <1>5 DEF before, after

-----------------------------------------------------------------------------
(* The rest of the state.                                                  *)

LEMMA DeadStay ==
  ASSUME QueueInv, RelayInv, [Next]_vars
  PROVE  \A v \in Viewers \ subs' : pipe'[v].dead
<1> SUFFICES ASSUME NEW v \in Viewers \ subs' PROVE pipe'[v].dead
  OBVIOUS
<1>0. /\ v \in Viewers /\ pipe = [w \in Viewers |-> pipe[w]] /\ Shaped(pipe[v])
      /\ v \notin subs => pipe[v].dead
  BY DEF QueueInv, PipeInv, RelayInv, Wired
<1>1. ASSUME NEW kind \in Video \cup Control, NEW before, NEW offered,
             \/ offered = OfferedAll(kind)
             \/ offered = [w \in Viewers |-> Mixed(OfferedAll(kind)[w])],
             Fanout(offered, before)
      PROVE  pipe'[v].dead
  <2>1. pipe'[v].dead = pipe[v].dead  BY <1>0, <1>1, ArrivalFills
  <2>2. v \in subs => pipe[v].dead  BY <1>0, <1>1 DEF Fanout, Live
  <2> QED  BY <1>0, <2>1, <2>2
<1>2. ASSUME NEW kind \in Control, ControlArrives(kind) PROVE pipe'[v].dead
  BY <1>1, <1>2 DEF ControlArrives
<1>3. ASSUME NEW kind \in Video, FrameArrives(kind) PROVE pipe'[v].dead
  BY <1>1, <1>3 DEF FrameArrives
<1>4. ASSUME NEW kind \in Video, StaleFrameArrives(kind) PROVE pipe'[v].dead
  BY <1>1, <1>4 DEF StaleFrameArrives
<1>5. CASE UNCHANGED <<pipe, subs>>
  BY <1>0, <1>5
<1>6. CASE pipe' = Released
  BY <1>0, <1>6 DEF Released, ClosedPipe, FreshPipe
<1>7. ASSUME NEW w \in Viewers, Join(w) \/ Leave(w) PROVE pipe'[v].dead
  BY <1>0, <1>7 DEF Join, Leave, ClosedPipe, FreshPipe
<1>8. ASSUME NEW w \in Viewers, Take(w) \/ Sent(w) \/ SendFails(w) PROVE pipe'[v].dead
  <2> DEFINE p == pipe[v]
  <2>1. p.dead  BY <1>0, <1>8 DEF Take, Sent, SendFails
  <2>2. \/ pipe'[v] = p
        \/ \E i, s, f, b : pipe'[v] = [p EXCEPT !.items = i, !.sending = s, !.frames = f, !.bytes = b]
        \/ pipe'[v] = [p EXCEPT !.sending = None]
        \/ pipe'[v] = [p EXCEPT !.sending = None, !.dead = TRUE]
    BY <1>0, <1>8 DEF Take, Sent, SendFails
  <2> HIDE DEF p
  <2> QED  BY <1>0, <2>1, <2>2 DEF Shaped, p
<1>9. CASE Tick
  <2>1. pipe'[v].dead = pipe[v].dead /\ subs' = subs  BY <1>0, <1>9, TickFills DEF Tick
  <2> QED  BY <1>0, <2>1
<1> QED
  BY <1>2, <1>3, <1>4, <1>5, <1>6, <1>7, <1>8, <1>9
  DEF Next, vars, AskArrives, AskOverlooked, CaptureChanges, AgentConnects, AgentLeaves

LEMMA NextRelayInv == QueueInv /\ RelayInv /\ [Next]_vars => RelayInv'
<1> SUFFICES ASSUME QueueInv, RelayInv, [Next]_vars PROVE RelayInv'
  OBVIOUS
<1>1. \A v \in Viewers \ subs' : pipe'[v].dead  BY DeadStay
<1>2. Wired  BY DEF RelayInv
<1>3. ASSUME NEW offered, NEW before \in {"no", "sent", "received"},
             Fanout(offered, before), online' = online,
             capture' \in {"off", "first", "h264", "jpeg"}, lost' = lost
      PROVE  Wired'
  BY <1>2, <1>3, Ages DEF Wired, Fanout, Live
<1>4. ASSUME NEW kind \in Control, ControlArrives(kind) PROVE Wired'
  BY <1>2, <1>3, <1>4 DEF Wired, ControlArrives
<1>5. ASSUME NEW kind \in Video, FrameArrives(kind) PROVE Wired'
  BY <1>2, <1>3, <1>5 DEF Wired, FrameArrives
<1>6. ASSUME NEW kind \in Video, StaleFrameArrives(kind) PROVE Wired'
  BY <1>2, <1>3, <1>6 DEF Wired, StaleFrameArrives
<1>7. ASSUME \/ AskArrives
             \/ AskOverlooked
             \/ \E next \in {"first", "jpeg", "off"} : CaptureChanges(next)
      PROVE  Wired'
  BY <1>2, <1>7, LimitsAssumption DEF Wired, AskArrives, AskOverlooked, CaptureChanges
<1>8. ASSUME \/ \E unread \in 0 .. MaxStale : AgentConnects(unread)
             \/ AgentLeaves
      PROVE  Wired'
  BY <1>2, <1>8, Ages DEF Wired, AgentConnects, AgentLeaves
<1>9. ASSUME NEW v \in Viewers, Join(v) \/ Leave(v) \/ Take(v) \/ Sent(v) \/ SendFails(v)
      PROVE  Wired'
  BY <1>2, <1>9 DEF Wired, Join, Leave, Take, Sent, SendFails
<1>10. ASSUME Tick PROVE Wired'
  BY <1>2, <1>10, Ages DEF Wired, Tick
<1>11. ASSUME UNCHANGED vars PROVE Wired'
  BY <1>2, <1>11 DEF Wired, vars
<1>12. Wired'
  BY <1>4, <1>5, <1>6, <1>7, <1>8, <1>9, <1>10, <1>11 DEF Next
<1> QED  BY <1>1, <1>12 DEF RelayInv

LEMMA InitRelayInv == Init => QueueInv /\ RelayInv
<1> SUFFICES ASSUME Init PROVE QueueInv /\ RelayInv
  OBVIOUS
<1>1. \A v \in Viewers : pipe[v] = ClosedPipe /\ ClosedPipe.dead
  BY DEF Init, ClosedPipe, FreshPipe
<1>2. QueueInv  BY <1>1, EmptyFilled, InitPipeInv DEF QueueInv
<1>3. RelayInv  BY <1>1, Ages, LimitsAssumption DEF Init, RelayInv, Wired
<1> QED  BY <1>2, <1>3

\* The inductive invariant holds throughout: beside what the pipes note, their
\* counts are those of their queues.
THEOREM RelayInvariant == Spec => [](QueueInv /\ RelayInv)
<1>1. (QueueInv /\ RelayInv) /\ [Next]_vars => (QueueInv /\ RelayInv)'
  BY NextQueueInv, NextRelayInv
<1> QED  BY <1>1, InitRelayInv, PTL DEF Spec

\* Every variable keeps its type; an agent that is away has no viewers, and only
\* subscribers' pipes are alive (register, unregister, fanout).
THEOREM RelayTyping == Spec => []TypeOK
<1>1. QueueInv /\ RelayInv => TypeOK
  <2> SUFFICES ASSUME QueueInv, RelayInv PROVE TypeOK
    OBVIOUS
  <2>1. \A v \in Viewers : pipe[v] \in Pipe
    BY DEF QueueInv, PipeInv, Shaped, Filled, Timed, Pipe
  <2>2. pipe \in [Viewers -> Pipe]
    BY <2>1 DEF QueueInv, PipeInv
  <2> QED  BY <2>2 DEF QueueInv, PipeInv, RelayInv, Wired, TypeOK
<1> QED  BY <1>1, RelayInvariant, PTL

\* The counts kept by hand stay exact through every put, take and purge, the
\* queue stays within its limits, and its control messages stay in it, in order,
\* until they are sent (offer, _purge, _run).
THEOREM QueueKept == Spec => QueueIsKept
<1>1. QueueInv /\ RelayInv => CountsMatch /\ QueueBounded
  BY DEF QueueInv, PipeInv, Filled, Counted, CountsMatch, QueueBounded, Frames, Bytes
<1> DEFINE A == \A v \in subs \cap subs' :
       \/ Take(v)
       \/ LET before == ControlOnly(pipe[v].items)
              after == ControlOnly(pipe'[v].items)
          IN  Len(after) >= Len(before) /\ SubSeq(after, 1, Len(before)) = before
<1>2. (QueueInv /\ RelayInv) /\ [Next]_vars => A
  <2> SUFFICES ASSUME QueueInv, RelayInv, [Next]_vars, NEW v \in subs \cap subs', ~Take(v)
      PROVE  LET before == ControlOnly(pipe[v].items)
                 after == ControlOnly(pipe'[v].items)
             IN  Len(after) >= Len(before) /\ SubSeq(after, 1, Len(before)) = before
    OBVIOUS
  <2>1. Filled(pipe[v])  BY DEF QueueInv, RelayInv, Wired
  <2>2. Follows(pipe'[v], pipe[v])  BY MessagesKept
  <2> QED  BY <2>1, <2>2, FollowsPrefix
<1>3. ControlNeverDropped <=> [][A]_vars
  BY DEF ControlNeverDropped
<1> HIDE DEF A
<1> QED  BY <1>1, <1>2, <1>3, RelayInvariant, PTL DEF Spec, QueueIsKept

-----------------------------------------------------------------------------
(* The third part: screen sessions.                                        *)

\* What is known of a session's thread: it hands over something late only when
\* the session is stopped, and then it does nothing but end; and it has not
\* ended without a word, or a stop.
SessionSound(x) ==
  /\ x.stop \in BOOLEAN /\ x.late \in 0..1
  /\ x.late = 1 => x.stop /\ x.bridge \in {"sending", "done"}
  /\ x.bridge = "done" => x.told \/ x.stop

SessionFields ==
  [purpose : {Nothing, "control", "screenshot"}, stop : BOOLEAN,
   sock : {"none", "open", "closed"},
   bridge : {"none", "launching", "listening", "receiving", "sending",
             "telling", "direct", "done"},
   told : BOOLEAN, late : Nat]

ScreenInv ==
  /\ ScreenTypeOK
  /\ \A s \in Ids : SessionSound(session[s])

LEMMA SessionsTyped == ScreenTypeOK => session \in [Ids -> SessionFields]
  BY DEF ScreenTypeOK, SessionFields

\* A stop.
LEMMA StoppedIsSound ==
  ASSUME NEW x \in SessionFields, SessionSound(x)
  PROVE  Stopped(x) \in SessionFields /\ SessionSound(Stopped(x))
  BY DEF Stopped, SessionFields, SessionSound

LEMMA SessionsStoppedSound ==
  ASSUME ScreenInv
  PROVE  /\ SessionsStopped \in [Ids -> SessionFields]
         /\ \A s \in Ids : SessionSound(SessionsStopped[s])
<1> USE SessionsTyped DEF ScreenInv, SessionsStopped
<1>1. CASE current = Nothing
  BY <1>1
<1>2. CASE current # Nothing
  <2>1. current \in Ids
    BY <1>2, BoundsArePositive DEF ScreenTypeOK, Ids
  <2>2. Stopped(session[current]) \in SessionFields /\ SessionSound(Stopped(session[current]))
    BY <2>1, StoppedIsSound
  <2> QED  BY <1>2, <2>1, <2>2
<1> QED  BY <1>1, <1>2

\* The handlers' two messages, and the end of a viewer's handler.
LEMMA ScreenStopSound ==
  ASSUME ScreenInv, ScreenStop
  PROVE  /\ session' \in [Ids -> SessionFields]
         /\ \A s \in Ids : SessionSound(session'[s])
         /\ used' = used /\ current' = Nothing /\ platform' = platform /\ helper' = helper
  BY SessionsStoppedSound DEF ScreenStop

LEMMA ScreenStartSound ==
  ASSUME ScreenInv, NEW purpose \in {"control", "screenshot"}, ScreenStart(purpose)
  PROVE  /\ session' \in [Ids -> SessionFields]
         /\ \A s \in Ids : SessionSound(session'[s])
         /\ used' \in 0..MaxSessions /\ current' \in (1..used') \cup {Nothing}
         /\ platform' = platform /\ helper' = helper
<1>1. used' \in Ids /\ used' \in 0..MaxSessions /\ used' \in 1..used'
  BY BoundsArePositive DEF ScreenStart, ScreenInv, ScreenTypeOK, Ids
<1>2. PICK able \in BOOLEAN :
        /\ current' = IF able THEN used' ELSE Nothing
        /\ session' = [SessionsStopped EXCEPT ![used'] =
                         [Unused EXCEPT !.purpose = purpose, !.bridge = Begins(able), !.told = ~able]]
  BY DEF ScreenStart
<1> DEFINE new == [Unused EXCEPT !.purpose = purpose, !.bridge = Begins(able), !.told = ~able]
<1>3. Begins(able) \in {"done", "launching", "direct"} /\ (Begins(able) = "done" <=> ~able)
  BY DEF Begins
<1>4. new \in SessionFields /\ SessionSound(new)
  <2> DEFINE begun(x, bridge, told) ==
               [x EXCEPT !.purpose = purpose, !.bridge = bridge, !.told = told]
  <2>1. ASSUME NEW x \in SessionFields, NEW told \in BOOLEAN,
               NEW bridge \in {"done", "launching", "direct"}
        PROVE  /\ begun(x, bridge, told) \in SessionFields
               /\ begun(x, bridge, told).stop = x.stop
               /\ begun(x, bridge, told).late = x.late
               /\ begun(x, bridge, told).bridge = bridge
               /\ told => begun(x, bridge, told).told
    BY DEF SessionFields
  <2>2. Unused \in SessionFields /\ Unused.stop = FALSE /\ Unused.late = 0
    BY DEF Unused, SessionFields
  <2>3. new = begun(Unused, Begins(able), ~able) /\ (~able) \in BOOLEAN
    OBVIOUS
  <2> HIDE DEF begun, new
  <2>4. new \in SessionFields /\ new.stop = FALSE /\ new.late = 0
    BY <1>3, <2>1, <2>2, <2>3, ZenonT(60)
  <2>5. new.bridge = "done" => new.told
    BY <1>3, <2>1, <2>2, <2>3, ZenonT(60)
  <2> QED  BY <2>4, <2>5 DEF SessionSound, SessionFields
<1> HIDE DEF new
<1>5. session' = [SessionsStopped EXCEPT ![used'] = new]
  BY <1>2 DEF new
<1> QED
  BY <1>1, <1>2, <1>4, <1>5, SessionsStoppedSound DEF ScreenStart

\* The thread: what a step makes of its session.
LEMMA BridgeSound ==
  ASSUME ScreenInv, NEW s \in Ids, Bridge(s)
  PROVE  /\ session' \in [Ids -> SessionFields]
         /\ \A t \in Ids : SessionSound(session'[t])
<1> DEFINE x == session[s]
<1>1. session \in [Ids -> SessionFields] /\ x \in SessionFields /\ SessionSound(x)
  BY SessionsTyped DEF ScreenInv
<1>2. SUFFICES \E y \in SessionFields : SessionSound(y) /\ session' = [session EXCEPT ![s] = y]
  <2>1. PICK y \in SessionFields : SessionSound(y) /\ session' = [session EXCEPT ![s] = y]
    BY <1>2
  <2>2. \A t \in Ids : SessionSound(session[t])
    BY DEF ScreenInv
  <2> QED  BY <1>1, <2>1, <2>2
<1>3. ASSUME NEW to \in {"listening", "receiving", "telling", "done"}, Goes(s, to),
             x.late = 0, to = "done" => x.stop
      PROVE  \E y \in SessionFields : SessionSound(y) /\ session' = [session EXCEPT ![s] = y]
  <2> DEFINE y == [x EXCEPT !.bridge = to]
  <2>1. y \in SessionFields /\ SessionSound(y)
    BY <1>1, <1>3 DEF SessionFields, SessionSound
  <2>2. session' = [session EXCEPT ![s] = y]
    BY <1>1, <1>3 DEF Goes
  <2> QED  BY <2>1, <2>2
<1>4. ASSUME x.bridge \in {"sending", "receiving", "telling", "launching", "listening"},
             Goes(s, "done"), x.stop
      PROVE  \E y \in SessionFields : SessionSound(y) /\ session' = [session EXCEPT ![s] = y]
  <2> DEFINE y == [x EXCEPT !.bridge = "done"]
  <2>1. y \in SessionFields /\ SessionSound(y)
    BY <1>1, <1>4 DEF SessionFields, SessionSound
  <2>2. session' = [session EXCEPT ![s] = y]
    BY <1>1, <1>4 DEF Goes
  <2> QED  BY <2>1, <2>2
<1>5. ASSUME NEW to \in {"sending", "done"}, NEW told \in BOOLEAN, HandsOver(s, to, told),
             x.late = 0, to = "done" => told
      PROVE  \E y \in SessionFields : SessionSound(y) /\ session' = [session EXCEPT ![s] = y]
  <2> DEFINE said == x.told \/ told
             late == IF x.stop THEN x.late + 1 ELSE x.late
             y == [x EXCEPT !.bridge = to, !.told = said, !.late = late]
  <2>1. said \in BOOLEAN /\ (told => said) /\ late \in 0..1 /\ (late = 1 => x.stop)
    BY <1>1, <1>5 DEF SessionFields
  <2>2. session' = [session EXCEPT ![s] = y]
    BY <1>1, <1>5 DEF HandsOver
  <2> HIDE DEF said, late
  <2>3. y \in SessionFields
    <3>1. said \in BOOLEAN /\ late \in Nat
      BY <2>1
    <3> QED  BY <1>1, <1>5, <3>1 DEF SessionFields
  <2>4. y.stop = x.stop /\ y.late = late /\ y.bridge = to /\ y.told = said
    BY <1>1 DEF SessionFields
  <2>5. SessionSound(y)
    BY <1>1, <1>5, <2>1, <2>4 DEF SessionSound
  <2> QED  BY <2>2, <2>3, <2>5
<1>6. x.bridge \notin {"sending", "done"} => x.late = 0
  BY <1>1 DEF SessionSound
<1>7. ~x.stop => x.late = 0
  BY <1>1 DEF SessionSound
<1>8. /\ Ending(s) \in {"telling", "done"} /\ (Ending(s) = "done" <=> x.stop)
      /\ Relaying(s) \in {"receiving", "done"} /\ (Relaying(s) = "done" <=> x.stop)
  BY <1>1 DEF Ending, Relaying
<1>9. CASE Launch(s)
  BY <1>3, <1>6, <1>8, <1>9 DEF Launch
<1>10. CASE Accept(s)
  <2> DEFINE y == [x EXCEPT !.bridge = Relaying(s),
                            !.sock = IF x.stop THEN "closed" ELSE "open"]
  <2>1. x.bridge = "listening"
    BY <1>10 DEF Accept
  <2>2. y \in SessionFields /\ SessionSound(y)
    BY <1>1, <1>8, <2>1 DEF SessionFields, SessionSound
  <2>3. session' = [session EXCEPT ![s] = y]
    BY <1>1, <1>10 DEF Accept
  <2> QED  BY <2>2, <2>3
<1>11. CASE NeverConnects(s)
  BY <1>3, <1>6, <1>8, <1>11 DEF NeverConnects
<1>12. CASE Receive(s)
  BY <1>5, <1>6, <1>12 DEF Receive
<1>13. CASE ReceivesNothing(s)
  BY <1>3, <1>6, <1>8, <1>13 DEF ReceivesNothing
<1>14. CASE FrameGoes(s)
  BY <1>3, <1>4, <1>7, <1>8, <1>14 DEF FrameGoes
<1>15. CASE Tell(s)
  BY <1>5, <1>6, <1>15 DEF Tell
<1> QED  BY <1>9, <1>10, <1>11, <1>12, <1>13, <1>14, <1>15 DEF Bridge

\* The helper: what a step makes of its record.
HelperFields ==
  [run : {"none", "starting", "up", "ended"}, stop : BOOLEAN, capture : BOOLEAN,
   frames : 0..Waiting, banner : {"none", "shown", "hidden", "gone"}]

LEMMA BridgeHelper ==
  ASSUME ScreenInv, NEW s \in Ids, Bridge(s)
  PROVE  helper' \in [Ids -> HelperFields]
<1>1. helper \in [Ids -> HelperFields]
  BY DEF ScreenInv, ScreenTypeOK, HelperFields
<1>2. CASE Launch(s)
  BY <1>1, <1>2 DEF Launch, HelperFields
<1>3. CASE Accept(s)
  <2>1. PICK banner \in {"shown", "hidden", "none"} :
          helper' = [helper EXCEPT ![s] = HelperUp(banner)]
    BY <1>3 DEF Accept
  <2>2. NoHelper \in HelperFields
    BY BoundsArePositive DEF NoHelper, HelperFields
  <2>3. \A h \in HelperFields :
          [h EXCEPT !.run = "up", !.capture = TRUE, !.banner = banner] \in HelperFields
    BY DEF HelperFields
  <2>4. HelperUp(banner) \in HelperFields
    BY <2>2, <2>3, Zenon DEF HelperUp
  <2> QED  BY <1>1, <2>1, <2>4
<1>4. CASE NeverConnects(s)
  BY <1>1, <1>4 DEF NeverConnects, HelperFields
<1>5. CASE Receive(s)
  <2>1. helper[s].frames - 1 \in 0..Waiting
    BY <1>1, <1>5, BoundsArePositive DEF Receive, HelperFields
  <2> QED  BY <1>1, <1>5, <2>1 DEF Receive, HelperFields
<1>6. CASE ReceivesNothing(s) \/ FrameGoes(s) \/ Tell(s)
  BY <1>1, <1>6 DEF ReceivesNothing, FrameGoes, Tell
<1> QED  BY <1>2, <1>3, <1>4, <1>5, <1>6 DEF Bridge

LEMMA HelperStepTyped ==
  ASSUME ScreenInv, NEW s \in Ids, HelperStep(s)
  PROVE  helper' \in [Ids -> HelperFields]
<1> DEFINE h == helper[s]
<1>1. helper \in [Ids -> HelperFields] /\ h \in HelperFields
  BY DEF ScreenInv, ScreenTypeOK, HelperFields
<1>2. SUFFICES \E k \in HelperFields : Becomes(s, k)
  BY <1>1, <1>2 DEF Becomes
<1>3. CASE Capture(s)
  <2>1. h.frames + 1 \in 0..Waiting
    BY <1>1, <1>3, BoundsArePositive DEF Capture, HelperFields
  <2>2. [h EXCEPT !.frames = @ + 1] \in HelperFields
    BY <1>1, <2>1 DEF HelperFields
  <2> QED  BY <1>3, <2>2 DEF Capture
<1>4. CASE CaptureStops(s)
  BY <1>1, <1>4 DEF CaptureStops, HelperFields
<1>5. CASE CaptureGivesUp(s)
  BY <1>1, <1>5 DEF CaptureGivesUp, HelperFields
<1>6. CASE ReaderEnds(s)
  BY <1>1, <1>6 DEF ReaderEnds, HelperFields
<1>7. CASE SenderFails(s)
  <2>1. h.frames - 1 \in 0..Waiting
    BY <1>1, <1>7, BoundsArePositive DEF SenderFails, HelperFields
  <2>2. [h EXCEPT !.stop = TRUE, !.frames = @ - 1] \in HelperFields
    BY <1>1, <2>1 DEF HelperFields
  <2> QED  BY <1>7, <2>2 DEF SenderFails
<1>8. CASE BannerLost(s)
  BY <1>1, <1>8 DEF BannerLost, HelperFields
<1>9. CASE BannerBack(s)
  BY <1>1, <1>9 DEF BannerBack, HelperFields
<1>10. CASE BannerCloses(s)
  BY <1>1, <1>10 DEF BannerCloses, HelperFields
<1>11. CASE Disconnect(s)
  BY <1>1, <1>11 DEF Disconnect, HelperFields
<1>12. CASE Exit(s) \/ HelperDies(s)
  <2>1. [NoHelper EXCEPT !.run = "ended", !.frames = h.frames] \in HelperFields
    BY <1>1 DEF NoHelper, HelperFields
  <2> QED  BY <1>12, <2>1 DEF Exit, HelperDies
<1> QED  BY <1>3, <1>4, <1>5, <1>6, <1>7, <1>8, <1>9, <1>10, <1>11, <1>12 DEF HelperStep

LEMMA ScreenInvInit == ScreenInit => ScreenInv
<1> SUFFICES ASSUME ScreenInit PROVE ScreenInv
  OBVIOUS
<1>1. Unused \in SessionFields /\ SessionSound(Unused)
  BY DEF Unused, SessionFields, SessionSound
<1>2. NoHelper \in HelperFields
  BY BoundsArePositive DEF NoHelper, HelperFields
<1>3. session \in [Ids -> SessionFields] /\ helper \in [Ids -> HelperFields]
  BY <1>1, <1>2 DEF ScreenInit
<1>4. ScreenTypeOK
  BY <1>3, BoundsArePositive DEF ScreenInit, ScreenTypeOK, SessionFields, HelperFields
<1>5. \A s \in Ids : SessionSound(session[s])
  BY <1>1 DEF ScreenInit
<1> QED  BY <1>4, <1>5 DEF ScreenInv

\* The parts of the invariant, put together after a step.
LEMMA ScreenInvParts ==
  ASSUME platform' \in {"Windows", "other"}, connected' \in BOOLEAN,
         watching' \subseteq Watchers, leaving' \subseteq Watchers \ watching',
         used' \in 0..MaxSessions, current' \in (1..used') \cup {Nothing},
         session' \in [Ids -> SessionFields], helper' \in [Ids -> HelperFields],
         \A s \in Ids : SessionSound(session'[s])
  PROVE  ScreenInv'
  BY DEF ScreenInv, ScreenTypeOK, SessionFields, HelperFields, SessionSound, Ids

LEMMA ScreenInvStep == ScreenInv /\ [ScreenNext]_screenVars => ScreenInv'
<1> SUFFICES ASSUME ScreenInv, [ScreenNext]_screenVars PROVE ScreenInv'
  OBVIOUS
<1>1. /\ platform \in {"Windows", "other"} /\ connected \in BOOLEAN
      /\ watching \subseteq Watchers /\ leaving \subseteq Watchers \ watching
      /\ used \in 0..MaxSessions /\ current \in (1..used) \cup {Nothing}
      /\ session \in [Ids -> SessionFields] /\ helper \in [Ids -> HelperFields]
      /\ \A s \in Ids : SessionSound(session[s])
  BY DEF ScreenInv, ScreenTypeOK, SessionFields, HelperFields
<1>2. ASSUME NEW v \in Watchers, Open(v) PROVE ScreenInv'
  <2>1. /\ connected' = connected /\ leaving' = leaving
        /\ watching' = watching \cup {v} /\ v \notin leaving
    BY <1>2 DEF Open
  <2>2. CASE ScreenStart("screenshot")
    BY <1>1, <2>1, <2>2, ScreenStartSound, ScreenInvParts
  <2>3. CASE UNCHANGED <<atAgent, session, helper>>
    BY <1>1, <2>1, <2>3, ScreenInvParts DEF atAgent
  <2> QED  BY <1>2, <2>2, <2>3 DEF Open
<1>3. ASSUME NEW v \in Watchers, StartCapture(v) PROVE ScreenInv'
  BY <1>1, <1>3, ScreenStartSound, ScreenInvParts DEF StartCapture, viewing
<1>4. ASSUME NEW v \in Watchers, Close(v) \/ Finish(v) PROVE ScreenInv'
  <2>1. /\ connected' = connected
        /\ watching' \subseteq Watchers /\ leaving' \subseteq Watchers \ watching'
    BY <1>1, <1>4 DEF Close, Finish
  <2>2. CASE ScreenStop
    BY <1>1, <2>1, <2>2, ScreenStopSound, ScreenInvParts
  <2>3. CASE UNCHANGED <<atAgent, session, helper>>
    BY <1>1, <2>1, <2>3, ScreenInvParts DEF atAgent
  <2> QED  BY <1>4, <2>2, <2>3 DEF Close, Finish, HandlerEnds
<1>5. CASE Lose \/ Reconnect
  BY <1>1, <1>5, ScreenInvParts DEF Lose, Reconnect, atAgent
<1>6. ASSUME NEW s \in Ids, DirectFails(s) PROVE ScreenInv'
  <2> DEFINE y == [session[s] EXCEPT !.bridge = "done", !.told = TRUE]
  <2>1. session' = [session EXCEPT ![s] = y]
    BY <1>1, <1>6 DEF DirectFails
  <2>2. y \in SessionFields /\ SessionSound(y)
    BY <1>1, <1>6 DEF DirectFails, SessionFields, SessionSound
  <2> HIDE DEF y
  <2> QED  BY <1>1, <1>6, <2>1, <2>2, ScreenInvParts DEF DirectFails, viewing, atAgent
<1>7. ASSUME NEW s \in Ids, Bridge(s) PROVE ScreenInv'
  BY <1>1, <1>7, BridgeSound, BridgeHelper, ScreenInvParts DEF Bridge, viewing, atAgent
<1>8. ASSUME NEW s \in Ids, HelperStep(s) PROVE ScreenInv'
  <2>1. helper' \in [Ids -> HelperFields]
    BY <1>8, HelperStepTyped
  <2>2. UNCHANGED <<viewing, atAgent, session>>
    BY <1>8 DEF HelperStep, HelperAlone
  <2> QED  BY <1>1, <2>1, <2>2, ScreenInvParts DEF viewing, atAgent
<1>9. CASE UNCHANGED screenVars
  BY <1>1, <1>9, ScreenInvParts DEF screenVars
<1> QED  BY <1>2, <1>3, <1>4, <1>5, <1>6, <1>7, <1>8, <1>9 DEF ScreenNext

LEMMA SoundIsClean == ScreenInv => SessionEndsCleanly
  BY DEF ScreenInv, SessionSound, SessionEndsCleanly, ReplacedIsSilent, EndIsTold

\* However a screen session ends, its relaying thread hands the agent at most one
\* thing after the stop, and a session that ended by itself has told its viewers:
\* of any number of viewers, sessions and frames that wait.
THEOREM SessionsEndCleanly == ScreenSpec => []SessionEndsCleanly
<1>1. ScreenSpec => []ScreenInv
  BY ScreenInvInit, ScreenInvStep, PTL DEF ScreenSpec
<1> QED  BY <1>1, SoundIsClean, PTL

=============================================================================
