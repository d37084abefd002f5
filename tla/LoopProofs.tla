------------------------------ MODULE LoopProofs ------------------------------
(* The frame loop, for any videos, detector, batch size, keepalive and       *)
(* number of frames.                                                         *)
(*                                                                           *)
(* No frame that passed the gate is lost because what was consumed and what  *)
(* waits always lie side by side on what passed (AlignInv).  A hand is seen  *)
(* in time because the gate never skips keepalive frames in a row: the skips *)
(* are the distance to the frame last passed, and each frame that waits is   *)
(* at most a keepalive older than the one after it (GapInv).                 *)
(*                                                                           *)
(* That batches do not change a judgement is a simulation: the loop that     *)
(* infers each frame at once is always where the batched one will be when    *)
(* the frames that wait have been consumed, and as long as no hand has been  *)
(* seen, or no frame waits, the gates of both agree (Meets).                 *)
(*                                                                           *)
(* That the shelf does not vote needs to know what a vote stands on: every   *)
(* vote has a track of its camera and class, or a detection without a box,   *)
(* to show for itself (AllGrounded); a camera adds to the eye and touches    *)
(* nothing of the other's (Adds); and the tracks of products that lie still  *)
(* have not moved (Resting), because nothing of their class comes within     *)
(* reach of them but from the very same place.                               *)
EXTENDS FrameLoop, FoldFacts

(* The declared shape, but for the eye.                                      *)
Shape ==
    /\ delta \in Delta /\ camera \in Camera
    /\ pc \in {"pull", "infer", "done", "failed"}
    /\ pos \in 0 .. MaxFrames[camera]
    /\ prev \in Scene \cup {NoScene}
    /\ skips \in 0 .. Keepalive - 1
    /\ latch \in Latch
    /\ pending \in Seq([pos : Nat, raw : View]) /\ Len(pending) <= BatchSize
    /\ stopped \in BOOLEAN
    /\ passed \in Seq(Nat) /\ consumed \in Seq(Nat)
    /\ frames \in Seq(Frame)

WaitInv ==
    /\ pc = "infer" => ~stopped /\ pending # <<>>
    /\ pc = "pull" => Len(pending) < BatchSize
    /\ stopped => pending = <<>>

AlignInv ==
    /\ ~stopped => /\ Len(passed) = Len(consumed) + Len(pending)
                   /\ \A j \in 1 .. Len(pending) :
                         pending[j].pos = passed[Len(consumed) + j]
    /\ Len(consumed) <= Len(passed)
    /\ \A i \in 1 .. Len(consumed) : consumed[i] = passed[i]

GapInv ==
    /\ Len(frames) = pos
    /\ prev = NoScene => pos = 0 /\ skips = 0
    /\ prev # NoScene => Len(passed) > 0 /\ pos - 1 - passed[Len(passed)] = skips
    /\ pc = "pull" => \A i \in 1 .. Len(pending) :
          pos - 1 - pending[i].pos <= (Len(pending) - i) * Keepalive + skips

Inv == Shape /\ WaitInv /\ AlignInv /\ GapInv

Wait == [pos : Nat, raw : View]

LEMMA Types ==
    ASSUME Shape
    PROVE  /\ pos \in Nat /\ skips \in Nat /\ skips < Keepalive
           /\ pending \in Seq(Wait) /\ \A i \in 1 .. Len(pending) : pending[i].pos \in Nat
           /\ passed \in Seq(Nat) /\ consumed \in Seq(Nat) /\ frames \in Seq(Frame)
           /\ stopped \in BOOLEAN
<1>1. pending \in Seq(Wait)
    BY DEF Shape, Wait
<1>2. ASSUME NEW i \in 1 .. Len(pending) PROVE pending[i].pos \in Nat
  <2>1. pending[i] \in Wait
      BY <1>1
  <2> QED
      BY <2>1 DEF Wait
<1> QED
    BY <1>1, <1>2, LoopAssumption DEF Shape, LoopAssumption, Camera

(* Multiplication by the keepalive, which the solver knows as a symbol.      *)
LEMMA Times ==
    ASSUME NEW k \in Nat
    PROVE  /\ \A n \in Int : (n + 1) * k = n * k + k
           /\ \A a, b \in Int : a <= b => a * k <= b * k
<1>1. \A n \in Int : (n + 1) * k = n * k + k
    OBVIOUS
<1>2. ASSUME NEW a \in Int, NEW b \in Int, a <= b PROVE a * k <= b * k
  <2>1. b - a \in Nat /\ (b - a) * k \in Nat
      BY <1>2
  <2>2. b * k = a * k + (b - a) * k
      OBVIOUS
  <2> QED
      BY <2>1, <2>2
<1> QED
    BY <1>1, <1>2

(* A pull that is skipped makes a frame one older and the skips one more.    *)
LEMMA Later ==
    \A p, q, room, s \in Int :
        (p - 1) - q <= room + s => ((p + 1) - 1) - q <= room + (s + 1)
OBVIOUS

(* One that passes ends the skips, and there is a keepalive more of room.    *)
LEMMA Renewed ==
    \A p, q, room, s, k \in Int :
        s < k /\ (p - 1) - q <= room + s => ((p + 1) - 1) - q <= (room + k) + 0
OBVIOUS

LEMMA InvInit == Init => Inv
<1> SUFFICES ASSUME Init PROVE Inv
    OBVIOUS
<1> USE LoopAssumption DEF LoopAssumption, Init
<1>1. Shape
  <2>1. latch \in Latch /\ camera \in Camera
      BY DEF Latch, Open, Camera
  <2>2. pos \in 0 .. MaxFrames[camera] /\ skips \in 0 .. Keepalive - 1
      BY <2>1
  <2>3. pending \in Seq([pos : Nat, raw : View]) /\ Len(pending) <= BatchSize
      OBVIOUS
  <2>4. passed \in Seq(Nat) /\ consumed \in Seq(Nat) /\ frames \in Seq(Frame)
      OBVIOUS
  <2> QED
      BY <2>1, <2>2, <2>3, <2>4 DEF Shape
<1>2. WaitInv /\ AlignInv /\ GapInv
    BY DEF WaitInv, AlignInv, GapInv
<1> QED
    BY <1>1, <1>2 DEF Inv
-----------------------------------------------------------------------------
LEMMA PullStep ==
    ASSUME Inv, NEW f \in Frame, Pull(f)
    PROVE  Inv'
<1>1. /\ pc = "pull" /\ ~stopped /\ pos < MaxFrames[camera]
      /\ pos' = pos + 1 /\ frames' = Append(frames, f)
      /\ UNCHANGED <<delta, camera, latch, stopped, eye, consumed, opened>>
    BY DEF Pull
<1>0. Shape /\ WaitInv /\ AlignInv /\ GapInv
    BY DEF Inv
<1>2. Len(pending) < BatchSize /\ Len(frames) = pos
    BY <1>0, <1>1 DEF WaitInv, GapInv
<1>3. /\ Keepalive \in Nat \ {0} /\ BatchSize \in Nat \ {0} /\ MaxFrames[camera] \in Nat
      /\ NoScene \notin Scene
    BY <1>0, LoopAssumption DEF Shape, LoopAssumption
<1>t. /\ pos \in Nat /\ skips \in Nat /\ skips < Keepalive
      /\ pending \in Seq(Wait) /\ \A i \in 1 .. Len(pending) : pending[i].pos \in Nat
      /\ passed \in Seq(Nat) /\ consumed \in Seq(Nat) /\ frames \in Seq(Frame)
    BY <1>0, Types
<1>4. CASE Decide(prev, skips, latch.active, f.scene)
  <2>1. /\ prev' = f.scene /\ skips' = 0
        /\ passed' = Append(passed, pos)
        /\ pending' = Append(pending, [pos |-> pos, raw |-> f.raw])
        /\ pc' = IF Len(pending) + 1 >= BatchSize THEN "infer" ELSE "pull"
      BY <1>4 DEF Pull
  <2>2. f.scene \in Scene /\ f.raw \in View
      BY DEF Frame
  <2>3. /\ passed' \in Seq(Nat) /\ Len(passed') = Len(passed) + 1
        /\ \A i \in 1 .. Len(passed') : passed'[i] = IF i <= Len(passed) THEN passed[i] ELSE pos
      BY <1>t, <2>1
  <2>w. [pos |-> pos, raw |-> f.raw] \in Wait
      BY <1>t, <2>2 DEF Wait
  <2>4. /\ pending' \in Seq(Wait) /\ Len(pending') = Len(pending) + 1
        /\ \A i \in 1 .. Len(pending') :
              pending'[i] = IF i <= Len(pending) THEN pending[i] ELSE [pos |-> pos, raw |-> f.raw]
      BY <1>t, <2>1, <2>w
  <2>5. Shape'
    <3>1. pos' \in 0 .. MaxFrames[camera] /\ skips' \in 0 .. Keepalive - 1
        BY <1>1, <1>3, <1>t, <2>1
    <3>2. pc' \in {"pull", "infer"} /\ frames' \in Seq(Frame) /\ Len(pending') <= BatchSize
        BY <1>1, <1>2, <1>3, <1>t, <2>1, <2>4
    <3> QED
        BY <1>0, <1>1, <2>1, <2>2, <2>3, <2>4, <3>1, <3>2 DEF Shape, Wait
  <2>6. WaitInv'
      BY <1>0, <1>1, <1>2, <1>3, <1>t, <2>1, <2>4 DEF WaitInv
  <2>7. AlignInv'
    <3>1. /\ Len(passed) = Len(consumed) + Len(pending)
          /\ \A j \in 1 .. Len(pending) : pending[j].pos = passed[Len(consumed) + j]
          /\ \A i \in 1 .. Len(consumed) : consumed[i] = passed[i]
        BY <1>0, <1>1 DEF AlignInv
    <3>2. Len(consumed) \in Nat /\ Len(pending) \in Nat /\ Len(passed) \in Nat
        BY <1>t
    <3>3. Len(passed') = Len(consumed) + Len(pending')
        BY <2>3, <2>4, <3>1, <3>2
    <3>4. ASSUME NEW j \in 1 .. Len(pending')
          PROVE  pending'[j].pos = passed'[Len(consumed) + j]
      <4>1. CASE j <= Len(pending)
        <5>1. j \in 1 .. Len(pending) /\ pending'[j] = pending[j]
            BY <2>4, <3>2, <4>1
        <5>2. Len(consumed) + j \in 1 .. Len(passed) /\ Len(consumed) + j \in 1 .. Len(passed')
          <6>1. Len(passed) = Len(consumed) + Len(pending) /\ Len(passed') = Len(passed) + 1
              BY <2>3, <3>1
          <6> QED
              BY <3>2, <5>1, <6>1
        <5>3. passed'[Len(consumed) + j] = passed[Len(consumed) + j]
            BY <2>3, <3>2, <5>2
        <5> QED
            BY <3>1, <5>1, <5>3
      <4>2. CASE j = Len(pending) + 1
        <5>1. pending'[j].pos = pos
            BY <2>4, <3>2, <4>2
        <5>2. Len(consumed) + j = Len(passed) + 1
            BY <3>1, <3>2, <4>2
        <5> QED
            BY <2>3, <3>2, <5>1, <5>2
      <4> QED
          BY <2>4, <3>2, <4>1, <4>2
    <3>5. ASSUME NEW i \in 1 .. Len(consumed)
          PROVE  consumed[i] = passed'[i]
        BY <2>3, <3>1, <3>2
    <3>6. consumed' = consumed /\ Len(consumed) <= Len(passed')
        BY <1>1, <2>3, <3>1, <3>2
    <3> QED
        BY <3>3, <3>4, <3>5, <3>6 DEF AlignInv
  <2>8. GapInv'
    <3>1. Len(frames') = pos'
        BY <1>1, <1>2, <1>t
    <3>2. prev' # NoScene /\ Len(passed') > 0 /\ pos' - 1 - passed'[Len(passed')] = skips'
        BY <1>1, <1>3, <1>t, <2>1, <2>2, <2>3
    <3>3. ASSUME NEW i \in 1 .. Len(pending')
          PROVE  pos' - 1 - pending'[i].pos <= (Len(pending') - i) * Keepalive + skips'
      <4>1. CASE i = Len(pending')
        <5>1. pending'[i] = [pos |-> pos, raw |-> f.raw]
          <6>1. Len(pending) \in Nat /\ ~(Len(pending) + 1 <= Len(pending))
              BY <1>t
          <6> QED
              BY <2>4, <4>1, <6>1
        <5>2. (Len(pending') - i) * Keepalive = 0
            BY <1>3, <1>t, <2>4, <4>1
        <5> QED
            BY <1>1, <1>t, <2>1, <5>1, <5>2
      <4>2. CASE i # Len(pending')
        <5>1. i \in 1 .. Len(pending) /\ pending'[i] = pending[i] /\ pending[i].pos \in Nat
            BY <1>t, <2>4, <4>2
        <5>2. pos - 1 - pending[i].pos <= (Len(pending) - i) * Keepalive + skips
            BY <1>0, <1>1, <5>1 DEF GapInv
        <5>3. (Len(pending') - i) * Keepalive = (Len(pending) - i) * Keepalive + Keepalive
            BY <1>3, <1>t, <2>4, <5>1, Times
        <5>4. (Len(pending) - i) * Keepalive \in Int
            BY <1>3, <1>t, <5>1
        <5> QED
          <6>1. /\ pos \in Int /\ skips \in Int /\ Keepalive \in Int /\ skips < Keepalive
                /\ pending[i].pos \in Int
              BY <1>3, <1>t, <5>1
          <6>2. ((pos + 1) - 1) - pending[i].pos
                    <= ((Len(pending) - i) * Keepalive + Keepalive) + 0
              BY <5>2, <5>4, <6>1, Renewed, Zenon
          <6> QED
              BY <1>1, <2>1, <5>1, <5>3, <6>2, Zenon
      <4> QED
          BY <4>1, <4>2
    <3> QED
        BY <1>3, <3>1, <3>2, <3>3 DEF GapInv
  <2> QED
      BY <2>5, <2>6, <2>7, <2>8 DEF Inv
<1>5. CASE ~Decide(prev, skips, latch.active, f.scene)
  <2>1. skips' = skips + 1 /\ UNCHANGED <<prev, passed, pending, pc>>
      BY <1>5 DEF Pull
  <2>2. prev # NoScene /\ skips + 1 < Keepalive
      BY <1>3, <1>5, <1>t DEF Decide
  <2>3. Shape'
    <3>1. pos' \in 0 .. MaxFrames[camera] /\ skips' \in 0 .. Keepalive - 1
        BY <1>1, <1>3, <1>t, <2>1, <2>2
    <3>2. frames' \in Seq(Frame)
        BY <1>1, <1>t
    <3> QED
        BY <1>0, <1>1, <2>1, <3>1, <3>2 DEF Shape
  <2>4. WaitInv' /\ AlignInv'
      BY <1>0, <1>1, <2>1 DEF WaitInv, AlignInv
  <2>5. GapInv'
    <3>1. ASSUME NEW i \in 1 .. Len(pending)
          PROVE  pos' - 1 - pending[i].pos <= (Len(pending) - i) * Keepalive + skips'
      <4>1. pos - 1 - pending[i].pos <= (Len(pending) - i) * Keepalive + skips
          BY <1>0, <1>1 DEF GapInv
      <4>2. (Len(pending) - i) * Keepalive \in Int /\ pending[i].pos \in Int
        <5>1. Len(pending) - i \in Int /\ Keepalive \in Int
            BY <1>3, <1>t
        <5> QED
            BY <1>t, <5>1
      <4>3. ((pos + 1) - 1) - pending[i].pos <= (Len(pending) - i) * Keepalive + (skips + 1)
        <5>1. pos \in Int /\ skips \in Int
            BY <1>t
        <5> QED
            BY <4>1, <4>2, <5>1, Later, Zenon
      <4> QED
          BY <1>1, <2>1, <4>3
    <3>2. Len(passed) > 0 /\ pos - 1 - passed[Len(passed)] = skips
        BY <1>0, <2>2 DEF GapInv
    <3>3. passed[Len(passed)] \in Nat
        BY <1>t, <3>2
    <3>4. Len(frames') = pos'
        BY <1>1, <1>2, <1>t
    <3>5. ((pos + 1) - 1) - passed[Len(passed)] = skips + 1
        BY <1>t, <3>2, <3>3
    <3>6. prev' # NoScene /\ Len(passed') > 0 /\ pos' - 1 - passed'[Len(passed')] = skips'
        BY <1>1, <2>1, <2>2, <3>2, <3>5, Zenon
    <3> QED
        BY <2>1, <3>1, <3>4, <3>6 DEF GapInv
  <2> QED
      BY <2>3, <2>4, <2>5 DEF Inv
<1> QED
    BY <1>4, <1>5
-----------------------------------------------------------------------------
(* Of what one inference does, the loop relies on this much.                 *)
LEMMA StopOrNot ==
    ASSUME NEW e, NEW d, NEW t, NEW p, NEW n
    PROVE  ShouldStop(e, EarlyAllowed, d, t, p, n) \in BOOLEAN
BY DEF ShouldStop

LEMMA LatchKept ==
    ASSUME NEW l \in Latch, NEW handNow
    PROVE  Updated(l, handNow) \in Latch
<1>1. l.active \in BOOLEAN /\ l.pending \in Int /\ l.since \in Nat /\ ExitConfirm \in Int
    BY LoopAssumption DEF LoopAssumption, Latch
<1>2. CASE handNow
    BY <1>1, <1>2 DEF Latch, Updated
<1>3. CASE ~handNow /\ l.active
  <2>1. (l.pending - 1 > 0) \in BOOLEAN /\ l.pending - 1 \in Int
      BY <1>1
  <2>2. Updated(l, handNow) = [active |-> l.pending - 1 > 0, pending |-> l.pending - 1,
                               since |-> l.since]
      BY <1>3 DEF Updated, Latch
  <2> QED
      BY <1>1, <2>1, <2>2 DEF Latch
<1>4. CASE ~handNow /\ ~l.active
  <2>1. Updated(l, handNow) = [active |-> l.active, pending |-> l.pending,
                               since |-> l.since + 1]
      BY <1>4 DEF Updated, Latch
  <2> QED
      BY <1>1, <2>1 DEF Latch
<1> QED
    BY <1>2, <1>3, <1>4

LEMMA Consumption ==
    ASSUME Shape, NEW at, NEW raw
    PROVE  /\ Consume(Seeing, at, raw).latch \in Latch
           /\ Consume(Seeing, at, raw).stopped \in BOOLEAN
<1> DEFINE applied == Apply(Seeing.eye, Seeing.camera, raw)
           handNow == \E i \in DOMAIN applied.detections : applied.detections[i].hand
           seen    == Observe(applied.eye, Seeing.camera, at, applied.detections)
           voted   == AddFrame(seen.eye, Seeing.camera, applied.detections, seen.tracks,
                               handNow \/ Seeing.latch.active)
           after   == Updated(Seeing.latch, handNow)
           stop    == ShouldStop(voted, EarlyAllowed, delta, Tolerance, Products, after.since)
<1>1. Consume(Seeing, at, raw) = [Seeing EXCEPT !.eye = voted, !.latch = after, !.stopped = stop]
    BY DEF Consume
<1>2. after \in Latch
    BY LatchKept DEF Shape, Seeing
<1>3. stop \in BOOLEAN
    BY StopOrNot
<1> HIDE DEF applied, handNow, seen, voted, after, stop
<1> QED
    BY <1>1, <1>2, <1>3 DEF Seeing

LEMMA InferStep ==
    ASSUME Inv, Infer
    PROVE  Inv'
<1>0. Shape /\ WaitInv /\ AlignInv /\ GapInv
    BY DEF Inv
<1> DEFINE s == Consume(Seeing, Head(pending).pos, Head(pending).raw)
<1>1. /\ pc = "infer"
      /\ latch' = s.latch /\ stopped' = s.stopped
      /\ consumed' = Append(consumed, Head(pending).pos)
      /\ pending' = IF s.stopped THEN <<>> ELSE Tail(pending)
      /\ pc' = IF pending' = <<>> THEN "pull" ELSE "infer"
      /\ UNCHANGED <<delta, camera, pos, prev, skips, passed, frames, opened>>
    BY DEF Infer
<1>2. s.latch \in Latch /\ s.stopped \in BOOLEAN
    BY <1>0, Consumption
<1> HIDE DEF s
<1>t. /\ pos \in Nat /\ skips \in Nat /\ skips < Keepalive
      /\ pending \in Seq(Wait) /\ \A i \in 1 .. Len(pending) : pending[i].pos \in Nat
      /\ passed \in Seq(Nat) /\ consumed \in Seq(Nat) /\ frames \in Seq(Frame)
    BY <1>0, Types
<1>3. ~stopped /\ Len(pending) > 0 /\ Head(pending).pos = pending[1].pos
    BY <1>0, <1>1, <1>t DEF WaitInv
<1>4. pending[1].pos \in Nat
    BY <1>t, <1>3
<1>5. /\ consumed' \in Seq(Nat) /\ Len(consumed') = Len(consumed) + 1
      /\ \A i \in 1 .. Len(consumed') :
            consumed'[i] = IF i <= Len(consumed) THEN consumed[i] ELSE pending[1].pos
    BY <1>1, <1>t, <1>3, <1>4
<1>6. /\ Tail(pending) \in Seq(Wait) /\ Len(Tail(pending)) = Len(pending) - 1
      /\ \A j \in 1 .. Len(Tail(pending)) : Tail(pending)[j] = pending[j + 1]
    BY <1>t, <1>3
<1>7. pending' \in Seq(Wait) /\ Len(pending') <= Len(pending)
    BY <1>1, <1>3, <1>6, <1>t
<1>8. Shape'
  <2>1. Len(pending') <= BatchSize
      BY <1>0, <1>7, <1>t, LoopAssumption DEF Shape, LoopAssumption
  <2>2. pc' \in {"pull", "infer"}
      BY <1>1
  <2> QED
      BY <1>0, <1>1, <1>2, <1>5, <1>7, <2>1, <2>2 DEF Shape, Wait
<1>9. WaitInv'
  <2>1. 0 < BatchSize
      BY LoopAssumption DEF LoopAssumption
  <2>2. Len(<<>>) = 0
      OBVIOUS
  <2> QED
      BY <1>1, <1>2, <2>1, <2>2 DEF WaitInv
<1>10. AlignInv'
  <2>1. /\ Len(passed) = Len(consumed) + Len(pending)
        /\ \A j \in 1 .. Len(pending) : pending[j].pos = passed[Len(consumed) + j]
        /\ \A i \in 1 .. Len(consumed) : consumed[i] = passed[i]
      BY <1>0, <1>3 DEF AlignInv
  <2>2. Len(consumed) \in Nat /\ Len(pending) \in Nat /\ Len(passed) \in Nat
      BY <1>t
  <2>3. Len(passed) = Len(consumed) + Len(pending)
      BY <2>1
  <2>4. pending[1].pos = passed[Len(consumed) + 1]
      BY <1>3, <2>1, <2>2
  <2>5. Len(consumed') <= Len(passed')
      BY <1>1, <1>3, <1>5, <2>2, <2>3
  <2>6. ASSUME NEW i \in 1 .. Len(consumed')
        PROVE  consumed'[i] = passed[i]
    <3>1. CASE i <= Len(consumed)
      <4>1. i \in 1 .. Len(consumed)
          BY <2>2, <3>1
      <4> QED
          BY <1>5, <2>1, <3>1, <4>1
    <3>2. CASE i = Len(consumed) + 1
      <4>1. ~(i <= Len(consumed))
          BY <2>2, <3>2
      <4> QED
          BY <1>5, <2>4, <3>2, <4>1
    <3> QED
        BY <1>5, <2>2, <3>1, <3>2
  <2>7. ASSUME ~stopped'
        PROVE  /\ Len(passed) = Len(consumed') + Len(pending')
               /\ \A j \in 1 .. Len(pending') :
                     pending'[j].pos = passed[Len(consumed') + j]
    <3>1. pending' = Tail(pending)
        BY <1>1, <2>7
    <3>2. Len(passed) = Len(consumed') + Len(pending')
        BY <1>5, <1>6, <2>2, <2>3, <3>1
    <3>3. ASSUME NEW j \in 1 .. Len(pending')
          PROVE  pending'[j].pos = passed[Len(consumed') + j]
      <4>1. j + 1 \in 1 .. Len(pending) /\ pending'[j] = pending[j + 1]
          BY <1>6, <2>2, <3>1
      <4>2. pending[j + 1].pos = passed[Len(consumed) + (j + 1)]
          BY <2>1, <4>1
      <4>3. Len(consumed) + (j + 1) = Len(consumed') + j
          BY <1>5, <2>2
      <4> QED
          BY <4>1, <4>2, <4>3
    <3> QED
        BY <3>2, <3>3
  <2>8. passed' = passed
      BY <1>1
  <2> QED
      BY <2>5, <2>6, <2>7, <2>8 DEF AlignInv
<1>11. GapInv'
  <2>1. pc' = "pull" => Len(pending') = 0
    <3>1. pc' = "pull" => pending' = <<>>
        BY <1>1
    <3> QED
        BY <3>1
  <2>2. /\ Len(frames) = pos
        /\ prev = NoScene => pos = 0 /\ skips = 0
        /\ prev # NoScene => Len(passed) > 0 /\ pos - 1 - passed[Len(passed)] = skips
      BY <1>0 DEF GapInv
  <2> QED
      BY <1>1, <2>1, <2>2 DEF GapInv
<1> QED
    BY <1>8, <1>9, <1>10, <1>11 DEF Inv
-----------------------------------------------------------------------------
LEMMA LastBatchStep ==
    ASSUME Inv, LastBatch
    PROVE  Inv'
<1>1. /\ ~stopped /\ pending # <<>> /\ pc' = "infer"
      /\ UNCHANGED <<delta, camera, pos, prev, skips, latch, pending, stopped, eye,
                     passed, consumed, frames, opened>>
    BY DEF LastBatch
<1>2. Shape'
    BY <1>1 DEF Inv, Shape
<1>3. WaitInv' /\ AlignInv'
    BY <1>1 DEF Inv, WaitInv, AlignInv
<1>4. GapInv'
    BY <1>1 DEF Inv, GapInv
<1> QED
    BY <1>2, <1>3, <1>4 DEF Inv

LEMMA NextCameraStep ==
    ASSUME Inv, NextCamera
    PROVE  Inv'
<1>1. /\ pc = "pull" /\ camera' = "side" /\ pos' = 0
      /\ prev' = NoScene /\ skips' = 0 /\ latch' = Open /\ pending' = <<>>
      /\ passed' = <<>> /\ consumed' = <<>> /\ frames' = <<>>
      /\ UNCHANGED <<delta, pc, stopped, eye>>
    BY DEF NextCamera
<1>2. /\ BatchSize \in Nat \ {0} /\ Keepalive \in Nat \ {0}
      /\ camera' \in Camera /\ MaxFrames[camera'] \in Nat
  <2>1. camera' \in Camera
      BY <1>1 DEF Camera
  <2> QED
      BY <2>1, LoopAssumption DEF LoopAssumption
<1>3. Shape'
  <2>1. pos' \in 0 .. MaxFrames[camera'] /\ skips' \in 0 .. Keepalive - 1
      BY <1>1, <1>2
  <2>2. latch' \in Latch
      BY <1>1 DEF Latch, Open
  <2>3. pending' \in Seq([pos : Nat, raw : View]) /\ Len(pending') <= BatchSize
      BY <1>1, <1>2
  <2>4. passed' \in Seq(Nat) /\ consumed' \in Seq(Nat) /\ frames' \in Seq(Frame)
      BY <1>1
  <2> QED
      BY <1>1, <1>2, <2>1, <2>2, <2>3, <2>4 DEF Inv, Shape
<1>4. Len(<<>>) = 0
    OBVIOUS
<1>5. WaitInv' /\ AlignInv' /\ GapInv'
    BY <1>1, <1>2, <1>4 DEF WaitInv, AlignInv, GapInv
<1> QED
    BY <1>3, <1>5 DEF Inv

(* Steps that only leave the loop.                                           *)
LEMMA LeaveStep ==
    ASSUME Inv, Finish \/ Raises
    PROVE  Inv'
<1>1. /\ pc' \in {"done", "failed"}
      /\ UNCHANGED <<delta, camera, pos, prev, skips, latch, pending, stopped, eye,
                     passed, consumed, frames, opened>>
    BY DEF Finish, Raises
<1>2. Shape'
    BY <1>1 DEF Inv, Shape
<1>3. WaitInv' /\ AlignInv' /\ GapInv'
    BY <1>1 DEF Inv, WaitInv, AlignInv, GapInv
<1> QED
    BY <1>2, <1>3 DEF Inv

LEMMA StutterStep == Inv /\ UNCHANGED vars => Inv'
BY DEF Inv, Shape, WaitInv, AlignInv, GapInv, vars

LEMMA Invariant == Spec => []Inv
<1>1. Inv /\ [Next]_vars => Inv'
  <2>1. ASSUME Inv, Next PROVE Inv'
    <3>1. CASE \E f \in Frame : Pull(f)
        BY <2>1, <3>1, PullStep
    <3>2. CASE Infer
        BY <2>1, <3>2, InferStep
    <3>3. CASE LastBatch
        BY <2>1, <3>3, LastBatchStep
    <3>4. CASE NextCamera
        BY <2>1, <3>4, NextCameraStep
    <3>5. CASE Finish \/ Raises
        BY <2>1, <3>5, LeaveStep
    <3> QED
        BY <2>1, <3>1, <3>2, <3>3, <3>4, <3>5 DEF Next
  <2> QED
      BY <2>1, StutterStep
<1> QED
    BY <1>1, InvInit, PTL DEF Spec
-----------------------------------------------------------------------------
LEMMA NothingLostNow ==
    ASSUME Inv
    PROVE  NothingLost
<1>0. Shape /\ WaitInv /\ AlignInv
    BY DEF Inv
<1>t. /\ pending \in Seq(Wait) /\ \A i \in 1 .. Len(pending) : pending[i].pos \in Nat
      /\ passed \in Seq(Nat) /\ consumed \in Seq(Nat)
    BY <1>0, Types
<1>n. Len(consumed) \in Nat /\ Len(pending) \in Nat /\ Len(passed) \in Nat
    BY <1>t
<1>w. /\ Waiting \in Seq(Nat) /\ Len(Waiting) = Len(pending)
      /\ \A i \in 1 .. Len(pending) : Waiting[i] = pending[i].pos
    BY <1>t, <1>n DEF Waiting
<1>1. ASSUME ~stopped PROVE consumed \o Waiting = passed
  <2> DEFINE both == consumed \o Waiting
  <2>1. /\ both \in Seq(Nat) /\ Len(both) = Len(consumed) + Len(Waiting)
        /\ \A i \in 1 .. Len(consumed) + Len(Waiting) :
              both[i] = IF i <= Len(consumed) THEN consumed[i] ELSE Waiting[i - Len(consumed)]
      BY <1>t, <1>w, ConcatProperties
  <2>2. /\ \A j \in 1 .. Len(pending) : pending[j].pos = passed[Len(consumed) + j]
        /\ \A i \in 1 .. Len(consumed) : consumed[i] = passed[i]
      BY <1>0, <1>1 DEF AlignInv
  <2>3. Len(passed) = Len(consumed) + Len(pending)
      BY <1>0, <1>1 DEF AlignInv
  <2> HIDE DEF both
  <2>4. Len(both) = Len(passed)
      BY <1>w, <2>1, <2>3
  <2>5. ASSUME NEW i \in 1 .. Len(both) PROVE both[i] = passed[i]
    <3>1. CASE i <= Len(consumed)
      <4>1. i \in 1 .. Len(consumed)
          BY <1>n, <2>4, <3>1
      <4> QED
          BY <2>1, <2>2, <3>1, <4>1
    <3>2. CASE ~(i <= Len(consumed))
      <4>1. i - Len(consumed) \in 1 .. Len(pending)
          BY <1>n, <2>3, <2>4, <3>2
      <4>2. both[i] = pending[i - Len(consumed)].pos
          BY <1>w, <2>1, <3>2, <4>1
      <4>3. Len(consumed) + (i - Len(consumed)) = i
          BY <1>n
      <4> QED
          BY <2>2, <4>1, <4>2, <4>3
    <3> QED
        BY <3>1, <3>2
  <2>6. both = passed
      BY <1>t, <2>1, <2>4, <2>5, SeqEqual
  <2> QED
      BY <2>6 DEF both
<1>2. IsPrefix(consumed, passed)
  <2>1. Len(consumed) <= Len(passed) /\ \A i \in 1 .. Len(consumed) : consumed[i] = passed[i]
      BY <1>0 DEF AlignInv
  <2>2. /\ \A i \in 1 .. Len(consumed) : consumed[i] \in Nat
        /\ \A i \in 1 .. Len(consumed) : passed[i] \in Nat
      BY <1>t, <2>1
  <2>3. /\ SubSeq(consumed, 1, Len(consumed)) \in Seq(Nat)
        /\ Len(SubSeq(consumed, 1, Len(consumed)))
               = IF 1 <= Len(consumed) THEN Len(consumed) - 1 + 1 ELSE 0
        /\ \A i \in 1 .. Len(consumed) - 1 + 1 :
              SubSeq(consumed, 1, Len(consumed))[i] = consumed[1 + i - 1]
      BY <1>n, <2>2, SubSeqProperties
  <2>4. /\ SubSeq(passed, 1, Len(consumed)) \in Seq(Nat)
        /\ Len(SubSeq(passed, 1, Len(consumed)))
               = IF 1 <= Len(consumed) THEN Len(consumed) - 1 + 1 ELSE 0
        /\ \A i \in 1 .. Len(consumed) - 1 + 1 :
              SubSeq(passed, 1, Len(consumed))[i] = passed[1 + i - 1]
      BY <1>n, <2>2, SubSeqProperties
  <2>5. Len(SubSeq(consumed, 1, Len(consumed))) = Len(SubSeq(passed, 1, Len(consumed)))
      BY <2>3, <2>4
  <2>6. ASSUME NEW i \in 1 .. Len(SubSeq(consumed, 1, Len(consumed)))
        PROVE  SubSeq(consumed, 1, Len(consumed))[i] = SubSeq(passed, 1, Len(consumed))[i]
    <3>1. i \in 1 .. Len(consumed) /\ i \in 1 .. Len(consumed) - 1 + 1 /\ 1 + i - 1 = i
        BY <1>n, <2>3
    <3> QED
        BY <2>1, <2>3, <2>4, <3>1
  <2>7. SubSeq(consumed, 1, Len(consumed)) = SubSeq(passed, 1, Len(consumed))
      BY <2>3, <2>4, <2>5, <2>6, SeqEqual
  <2> QED
      BY <2>1, <2>7 DEF IsPrefix
<1> QED
    BY <1>0, <1>1, <1>2 DEF NothingLost, WaitInv

(* Until inference is stopped every frame that passed the gate has been      *)
(* consumed or waits, in its place; a stop leaves a prefix of them.          *)
THEOREM EveryFrameConsumed == Spec => []NothingLost
BY Invariant, NothingLostNow, PTL

LEMMA SeenInTimeNow ==
    ASSUME Inv
    PROVE  HandSeenInTime
<1>0. Shape /\ WaitInv /\ GapInv
    BY DEF Inv
<1>t. /\ pos \in Nat /\ skips \in Nat /\ skips < Keepalive
      /\ pending \in Seq(Wait) /\ \A i \in 1 .. Len(pending) : pending[i].pos \in Nat
      /\ passed \in Seq(Nat) /\ frames \in Seq(Frame)
    BY <1>0, Types
<1>k. Keepalive \in Nat \ {0} /\ BatchSize \in Nat \ {0}
    BY LoopAssumption DEF LoopAssumption
<1>1. ASSUME pc = "pull", pending # <<>>
      PROVE  pos - 1 - pending[1].pos < (BatchSize - 1) * Keepalive
  <2>1. Len(pending) \in Nat /\ Len(pending) > 0 /\ Len(pending) < BatchSize
      BY <1>0, <1>1, <1>t DEF WaitInv
  <2>2. 1 \in 1 .. Len(pending) /\ pending[1].pos \in Nat
      BY <1>t, <2>1
  <2>3. pos - 1 - pending[1].pos <= (Len(pending) - 1) * Keepalive + skips
      BY <1>0, <1>1, <2>2 DEF GapInv
  <2>4. Len(pending) - 1 \in Int /\ BatchSize - 2 \in Int /\ Len(pending) - 1 <= BatchSize - 2
      BY <1>k, <2>1
  <2>5. (Len(pending) - 1) * Keepalive <= (BatchSize - 2) * Keepalive
      BY <1>k, <2>4, Times
  <2>6. ((BatchSize - 2) + 1) * Keepalive = (BatchSize - 2) * Keepalive + Keepalive
      BY <1>k, <2>4, Times
  <2>7. (BatchSize - 2) + 1 = BatchSize - 1
      BY <1>k
  <2>8. (BatchSize - 1) * Keepalive = (BatchSize - 2) * Keepalive + Keepalive
      BY <2>6, <2>7
  <2>9. (Len(pending) - 1) * Keepalive \in Int /\ (BatchSize - 2) * Keepalive \in Int
      BY <1>k, <2>4
  <2> QED
      BY <1>k, <1>t, <2>2, <2>3, <2>5, <2>8, <2>9
<1>2. ASSUME frames # <<>>
      PROVE  passed # <<>> /\ pos - 1 - Last(passed) < Keepalive
  <2>1. pos > 0
      BY <1>0, <1>2, <1>t DEF GapInv
  <2>2. Len(passed) > 0 /\ pos - 1 - passed[Len(passed)] = skips
      BY <1>0, <1>t, <2>1 DEF GapInv
  <2> QED
      BY <1>t, <2>2 DEF Last
<1> QED
    BY <1>1, <1>2 DEF HandSeenInTime

(* A hand in a frame that passed the gate is known before the batch and the  *)
(* keepalive are used up, whatever they are; and no frame is further than a  *)
(* keepalive from one that passed.                                           *)
THEOREM SeenInTime == Spec => []HandSeenInTime
BY Invariant, SeenInTimeNow, PTL
-----------------------------------------------------------------------------
(* Nothing is consumed after a stop, so that the votes it was decided on     *)
(* stay those the trigger is judged by.                                      *)
LEMMA StopsOnLead ==
    ASSUME NEW at, NEW raw, Consume(Seeing, at, raw).stopped
    PROVE  Leads(Combine(Consume(Seeing, at, raw).eye), UniqueSolution(Products, delta, Tolerance))
<1> DEFINE applied == Apply(Seeing.eye, Seeing.camera, raw)
           handNow == \E i \in DOMAIN applied.detections : applied.detections[i].hand
           seen    == Observe(applied.eye, Seeing.camera, at, applied.detections)
           voted   == AddFrame(seen.eye, Seeing.camera, applied.detections, seen.tracks,
                               handNow \/ Seeing.latch.active)
           after   == Updated(Seeing.latch, handNow)
           stop    == ShouldStop(voted, EarlyAllowed, delta, Tolerance, Products, after.since)
<1>1. Consume(Seeing, at, raw) = [Seeing EXCEPT !.eye = voted, !.latch = after, !.stopped = stop]
    BY DEF Consume
<1>2. stop => Leads(Combine(voted), UniqueSolution(Products, delta, Tolerance))
    BY DEF ShouldStop
<1> HIDE DEF applied, handNow, seen, voted, after, stop
<1>3. Consume(Seeing, at, raw).eye = voted /\ Consume(Seeing, at, raw).stopped = stop
    BY <1>1 DEF Seeing
<1> QED
    BY <1>2, <1>3

LEMMA StopStep == Inv /\ StopIsFinal /\ [Next]_vars => StopIsFinal'
<1> SUFFICES ASSUME Inv, StopIsFinal, [Next]_vars, stopped'
             PROVE  Leads(Combine(eye'), UniqueSolution(Products, delta', Tolerance))
    BY DEF StopIsFinal
<1>1. delta' = delta
    BY DEF Next, Pull, Infer, LastBatch, NextCamera, Finish, Raises, vars
<1>2. CASE Infer
  <2> DEFINE s == Consume(Seeing, Head(pending).pos, Head(pending).raw)
  <2>1. eye' = s.eye /\ s.stopped
      BY <1>2 DEF Infer
  <2> QED
      BY <1>1, <2>1, StopsOnLead
<1>3. CASE UNCHANGED <<eye, stopped>>
    BY <1>1, <1>3 DEF StopIsFinal
<1> QED
    BY <1>2, <1>3 DEF Next, Pull, LastBatch, NextCamera, Finish, Raises, vars

(* The leader of the vote that stops the inference early explains the        *)
(* weight, alone of all products, and is still the leader when the trigger   *)
(* is judged, for any frames, votes and batches (should_stop).               *)
THEOREM StopsForGood == Spec => []StopIsFinal
<1>1. Init => StopIsFinal
    BY DEF Init, StopIsFinal
<1> QED
    BY <1>1, Invariant, StopStep, PTL DEF Spec
-----------------------------------------------------------------------------
(* What one inference makes of the eye, the latch and the decision to stop.  *)
Outcome(dl, e, c, l, at, raw) ==
    LET applied == Apply(e, c, raw)
        handNow == \E i \in DOMAIN applied.detections : applied.detections[i].hand
        seen    == Observe(applied.eye, c, at, applied.detections)
        voted   == AddFrame(seen.eye, c, applied.detections, seen.tracks, handNow \/ l.active)
        after   == Updated(l, handNow)
    IN  [eye |-> voted, latch |-> after,
         stopped |-> ShouldStop(voted, EarlyAllowed, dl, Tolerance, Products, after.since)]

Struck(s, e, l, st) == [s EXCEPT !.eye = e, !.latch = l, !.stopped = st]

ConsumeBy(dl, s, at, raw) ==
    LET o == Outcome(dl, s.eye, s.camera, s.latch, at, raw)
    IN  Struck(s, o.eye, o.latch, o.stopped)

LEMMA ConsumeIs ==
    ASSUME NEW s, NEW at, NEW raw
    PROVE  Consume(s, at, raw) = ConsumeBy(delta, s, at, raw)
<1> DEFINE applied == Apply(s.eye, s.camera, raw)
           handNow == \E i \in DOMAIN applied.detections : applied.detections[i].hand
           seen    == Observe(applied.eye, s.camera, at, applied.detections)
           voted   == AddFrame(seen.eye, s.camera, applied.detections, seen.tracks,
                               handNow \/ s.latch.active)
           after   == Updated(s.latch, handNow)
           stop    == ShouldStop(voted, EarlyAllowed, delta, Tolerance, Products, after.since)
<1>1. Consume(s, at, raw) = [s EXCEPT !.eye = voted, !.latch = after, !.stopped = stop]
    BY DEF Consume
<1>2. Outcome(delta, s.eye, s.camera, s.latch, at, raw)
          = [eye |-> voted, latch |-> after, stopped |-> stop]
    BY DEF Outcome
<1> HIDE DEF applied, handNow, seen, voted, after, stop
<1> QED
    BY <1>1, <1>2 DEF ConsumeBy, Struck
-----------------------------------------------------------------------------
(* The elements of an answer that the filters keep.                          *)
SureHands(c)        == {d \in Detection : d.hand /\ (HandFloor[c] = 0 \/ d.conf >= HandFloor[c])}
Visible(c, history) == {d \in Detection : ~d.hand /\ InSight(c, history, d)}
Kept(c, history, raw) == Filtered(raw, LAMBDA d : ~d.hand /\ InSight(c, history, d))

LEMMA HandsAre ==
    ASSUME NEW c, NEW raw \in Seq(Detection)
    PROVE  Hands(c, raw) = Those(raw, SureHands(c))
<1> DEFINE A(g) == [u \in SUBSET DOMAIN raw |->
                       IF u = {} THEN <<>>
                       ELSE IF raw[Max(u)].hand
                               /\ (HandFloor[c] = 0 \/ raw[Max(u)].conf >= HandFloor[c])
                            THEN Append(g[u \ {Max(u)}], raw[Max(u)])
                       ELSE g[u \ {Max(u)}]]
           B(g) == [u \in SUBSET DOMAIN raw |->
                       IF u = {} THEN <<>>
                       ELSE IF raw[Max(u)] \in SureHands(c)
                            THEN Append(g[u \ {Max(u)}], raw[Max(u)])
                       ELSE g[u \ {Max(u)}]]
<1>1. \A k \in DOMAIN raw : raw[k] \in SureHands(c)
          <=> raw[k].hand /\ (HandFloor[c] = 0 \/ raw[k].conf >= HandFloor[c])
    BY DEF SureHands
<1>2. \A u \in SUBSET DOMAIN raw : u # {} => Max(u) \in u
  <2>1. DOMAIN raw = 1 .. Len(raw) /\ Len(raw) \in Nat
      OBVIOUS
  <2> QED
      BY <2>1, LastOf
<1>3. \A u \in SUBSET DOMAIN raw : u # {} =>
          (raw[Max(u)] \in SureHands(c)
           <=> raw[Max(u)].hand /\ (HandFloor[c] = 0 \/ raw[Max(u)].conf >= HandFloor[c]))
    BY <1>1, <1>2
<1>4. ASSUME NEW g PROVE A(g) = B(g)
    BY <1>3
<1>5. Hands(c, raw) = (CHOOSE g : g = A(g))[DOMAIN raw]
    BY DEF Hands, Filtered, FoldLeft, MapThenFoldSet
<1>6. Those(raw, SureHands(c)) = (CHOOSE g : g = B(g))[DOMAIN raw]
    BY DEF Those, Filtered, FoldLeft, MapThenFoldSet
<1>7. (CHOOSE g : g = A(g)) = (CHOOSE g : g = B(g))
  <2> HIDE DEF A, B
  <2> QED
      BY <1>4
<1> HIDE DEF A, B
<1> QED
    BY <1>5, <1>6, <1>7

LEMMA KeptAre ==
    ASSUME NEW c, NEW history, NEW raw \in Seq(Detection)
    PROVE  Kept(c, history, raw) = Those(raw, Visible(c, history))
<1> DEFINE A(g) == [u \in SUBSET DOMAIN raw |->
                       IF u = {} THEN <<>>
                       ELSE IF ~raw[Max(u)].hand /\ InSight(c, history, raw[Max(u)])
                            THEN Append(g[u \ {Max(u)}], raw[Max(u)])
                       ELSE g[u \ {Max(u)}]]
           B(g) == [u \in SUBSET DOMAIN raw |->
                       IF u = {} THEN <<>>
                       ELSE IF raw[Max(u)] \in Visible(c, history)
                            THEN Append(g[u \ {Max(u)}], raw[Max(u)])
                       ELSE g[u \ {Max(u)}]]
<1>1. \A k \in DOMAIN raw : raw[k] \in Visible(c, history)
          <=> ~raw[k].hand /\ InSight(c, history, raw[k])
    BY DEF Visible
<1>2. \A u \in SUBSET DOMAIN raw : u # {} => Max(u) \in u
  <2>1. DOMAIN raw = 1 .. Len(raw) /\ Len(raw) \in Nat
      OBVIOUS
  <2> QED
      BY <2>1, LastOf
<1>3. \A u \in SUBSET DOMAIN raw : u # {} =>
          (raw[Max(u)] \in Visible(c, history)
           <=> ~raw[Max(u)].hand /\ InSight(c, history, raw[Max(u)]))
    BY <1>1, <1>2
<1>4. ASSUME NEW g PROVE A(g) = B(g)
    BY <1>3
<1>5. Kept(c, history, raw) = (CHOOSE g : g = A(g))[DOMAIN raw]
    BY DEF Kept, Filtered, FoldLeft, MapThenFoldSet
<1>6. Those(raw, Visible(c, history)) = (CHOOSE g : g = B(g))[DOMAIN raw]
    BY DEF Those, Filtered, FoldLeft, MapThenFoldSet
<1>7. (CHOOSE g : g = A(g)) = (CHOOSE g : g = B(g))
  <2> HIDE DEF A, B
  <2> QED
      BY <1>4
<1> HIDE DEF A, B
<1> QED
    BY <1>5, <1>6, <1>7

(* f has the frame counts of e.                                              *)
Keeps(e, f) == "gate" \in DOMAIN f /\ f.gate = e.gate

LEMMA Detected ==
    ASSUME NEW e, "gate" \in DOMAIN e, NEW c, NEW raw \in Seq(Detection)
    PROVE  /\ Keeps(e, Apply(e, c, raw).eye)
           /\ Apply(e, c, raw).detections \in Seq(Detection)
           /\ Hands(c, raw) = <<>> =>
                 \A i \in DOMAIN Apply(e, c, raw).detections :
                     ~Apply(e, c, raw).detections[i].hand
<1> DEFINE hands   == Hands(c, raw)
           history == Remember(e.hands[c], hands)
           kept    == Kept(c, history, raw)
<1>1. Apply(e, c, raw) = [eye |-> [e EXCEPT !.hands[c] = history], detections |-> hands \o kept]
    BY DEF Apply, Kept
<1>2. hands \in Seq(Detection)
  <2>1. hands = Those(raw, SureHands(c))
      BY HandsAre
  <2> QED
      BY <2>1, FilteredFrom
<1>3. kept = Those(raw, Visible(c, history))
    BY KeptAre
<1> HIDE DEF hands, history, kept
<1>4. kept \in Seq(Detection) /\ TakenFrom(kept, Len(raw), raw, Visible(c, history))
    BY <1>3, FilteredFrom
<1>5. \A i \in 1 .. Len(kept) : ~kept[i].hand
  <2>1. PICK m \in [1 .. Len(kept) -> 1 .. Len(raw)] :
            Rises(m, 1 .. Len(kept)) /\ Copies(m, kept, raw, Visible(c, history))
      BY <1>4 DEF TakenFrom
  <2> QED
      BY <2>1 DEF Copies, Visible
<1>6. hands \o kept \in Seq(Detection)
    BY <1>2, <1>4
<1>7. hands = <<>> => hands \o kept = kept /\ DOMAIN kept = 1 .. Len(kept)
    BY <1>4
<1>8. Keeps(e, [e EXCEPT !.hands[c] = history])
    BY DEF Keeps
<1>9. hands = <<>> => \A i \in DOMAIN (hands \o kept) : ~(hands \o kept)[i].hand
    BY <1>5, <1>7
<1> QED
    BY <1>1, <1>6, <1>8, <1>9 DEF hands
-----------------------------------------------------------------------------
(* The loops over the detections of a frame, over their votes and over the   *)
(* frames of a camera, a turn at a time; together, for a lemma cannot be     *)
(* about any operator.                                                       *)
Joined(c, frame, at, acc, d) ==
    LET one == ObserveOne(acc.eye, c, frame, at, d)
    IN  [eye |-> one.eye, tracks |-> Append(acc.tracks, one.track)]

Marked(s, pv, sk, co) == [s EXCEPT !.prev = pv, !.skips = sk, !.consumed = co]

PlainBy(dl, video, s, i) ==
    IF s.stopped THEN s
    ELSE IF ~Decide(s.prev, s.skips, s.latch.active, video[i].scene)
         THEN [s EXCEPT !.skips = @ + 1]
         ELSE ConsumeBy(dl, Marked(s, video[i].scene, 0, Append(s.consumed, i - 1)),
                        i - 1, video[i].raw)

Cast(c, d, tag, votes) ==
    IF d.hand \/ d.conf < EntryConf[c] THEN votes
    ELSE Append(votes, [camera |-> c, cls |-> d.cls, conf |-> d.conf, track |-> tag])

Turn(w, acc, k) ==
    IF w.of = "frame" THEN Joined(w.camera, w.frame, w.at, acc, w.list[k])
    ELSE IF w.of = "vote" THEN Cast(w.camera, w.list[k], w.tags[k], acc)
    ELSE PlainBy(w.delta, w.list, acc, k)

Turns(g, n, w, base) ==
    g = [s \in SUBSET (1 .. n) |->
            IF s = {} THEN base ELSE Turn(w, g[s \ {Max(s)}], Max(s))]

LEMMA TurnsExist ==
    ASSUME NEW n \in Nat, NEW w, NEW base
    PROVE  \E g : Turns(g, n, w, base)
<1> DEFINE good == {k \in 0 .. n : \E g : Turns(g, k, w, base)}
<1>1. 0 \in good
  <2>1. \A s \in SUBSET (1 .. 0) : s = {}
      OBVIOUS
  <2>2. Turns([s \in SUBSET (1 .. 0) |-> base], 0, w, base)
      BY <2>1 DEF Turns
  <2> QED
      BY <2>2
<1>2. ASSUME NEW k \in 1 .. n, k - 1 \in good PROVE k \in good
  <2>1. PICK g : Turns(g, k - 1, w, base)
      BY <1>2
  <2> DEFINE h == [s \in SUBSET (1 .. k) |->
                      IF k \in s THEN Turn(w, g[s \ {k}], k) ELSE g[s]]
  <2>2. \A s \in SUBSET (1 .. k - 1) :
            g[s] = IF s = {} THEN base ELSE Turn(w, g[s \ {Max(s)}], Max(s))
      BY <2>1 DEF Turns
  <2>3. \A s \in SUBSET (1 .. k - 1) : s \in SUBSET (1 .. k) /\ k \notin s /\ h[s] = g[s]
      OBVIOUS
  <2>4. ASSUME NEW s \in SUBSET (1 .. k)
        PROVE  h[s] = IF s = {} THEN base ELSE Turn(w, h[s \ {Max(s)}], Max(s))
    <3>1. CASE k \in s
      <4>1. Max(s) = k
        <5>1. \A x \in s : x \in Int /\ x <= k
            BY <2>4
        <5>2. IsFiniteSet(s)
          <6>1. IsFiniteSet(1 .. k)
              BY FS_Interval
          <6> QED
              BY <6>1, FS_Subset
        <5>3. s \in SUBSET Int
            BY <5>1
        <5>4. Max(s) \in s /\ \A x \in s : x <= Max(s)
            BY <3>1, <5>2, <5>3, MaxIs
        <5>5. Max(s) <= k /\ k <= Max(s) /\ Max(s) \in Int /\ k \in Int
            BY <3>1, <5>1, <5>4
        <5> QED
            BY <5>5
      <4>2. s \ {k} \in SUBSET (1 .. k - 1)
          OBVIOUS
      <4>3. h[s] = Turn(w, g[s \ {k}], k)
          BY <3>1
      <4>4. h[s \ {k}] = g[s \ {k}]
          BY <2>3, <4>2
      <4> HIDE DEF h
      <4> QED
          BY <3>1, <4>1, <4>3, <4>4
    <3>2. CASE k \notin s
      <4>0. \A x \in s : x \in 1 .. k - 1
        <5>1. \A x \in s : x \in 1 .. k /\ x # k
            BY <3>2
        <5> QED
            BY <5>1
      <4>1. s \in SUBSET (1 .. k - 1) /\ s \ {Max(s)} \in SUBSET (1 .. k - 1)
          BY <4>0
      <4>2. h[s] = g[s] /\ h[s \ {Max(s)}] = g[s \ {Max(s)}]
          BY <2>3, <4>1
      <4> HIDE DEF h
      <4> QED
          BY <2>2, <4>1, <4>2
    <3> QED
        BY <3>1, <3>2
  <2>5. Turns(h, k, w, base)
      BY <2>4 DEF Turns
  <2> HIDE DEF h
  <2> QED
      BY <2>5
<1>3. \A k \in 0 .. n : k \in good
  <2> HIDE DEF good
  <2> QED
      BY <1>1, <1>2, Upward
<1>4. n \in 0 .. n
    OBVIOUS
<1> QED
    BY <1>3, <1>4

(* The intermediate results, from base on.                                   *)
Course(t, n, w, base) == t[0] = base /\ \A k \in 1 .. n : t[k] = Turn(w, t[k - 1], k)
Fold(n, w, base)      == (CHOOSE g : Turns(g, n, w, base))[1 .. n]

LEMMA FoldCourse ==
    ASSUME NEW n \in Nat, NEW w, NEW base
    PROVE  \E t : Course(t, n, w, base) /\ t[n] = Fold(n, w, base)
<1> DEFINE g == CHOOSE g : Turns(g, n, w, base)
           t == [k \in 0 .. n |-> g[1 .. k]]
<1>1. Turns(g, n, w, base)
    BY TurnsExist
<1> HIDE DEF g
<1>2. \A s \in SUBSET (1 .. n) :
          g[s] = IF s = {} THEN base ELSE Turn(w, g[s \ {Max(s)}], Max(s))
    BY <1>1 DEF Turns
<1>3. t[0] = base
  <2>1. 1 .. 0 = {}
      OBVIOUS
  <2> QED
      BY <1>2, <2>1
<1>4. ASSUME NEW k \in 1 .. n PROVE t[k] = Turn(w, t[k - 1], k)
  <2>1. Max(1 .. k) = k /\ (1 .. k) \ {Max(1 .. k)} = 1 .. k - 1
      BY LastOf
  <2>2. 1 .. k \in SUBSET (1 .. n) /\ k \in 1 .. k /\ k \in 0 .. n /\ k - 1 \in 0 .. n
      OBVIOUS
  <2>3. g[1 .. k] = Turn(w, g[1 .. k - 1], k)
      BY <1>2, <2>1, <2>2
  <2> QED
      BY <2>2, <2>3
<1>5. t[n] = Fold(n, w, base)
    BY DEF Fold, g
<1>6. Course(t, n, w, base)
  <2> HIDE DEF t
  <2> QED
      BY <1>3, <1>4 DEF Course
<1> HIDE DEF t
<1> QED
    BY <1>5, <1>6

(* Two courses of the same turns are the same.                               *)
LEMMA SameCourse ==
    ASSUME NEW n \in Nat, NEW w, NEW base, NEW t, NEW u,
           Course(t, n, w, base), Course(u, n, w, base)
    PROVE  t[n] = u[n]
<1> DEFINE good == {k \in 0 .. n : t[k] = u[k]}
<1>1. 0 \in good
    BY DEF Course
<1>2. ASSUME NEW k \in 1 .. n, k - 1 \in good PROVE k \in good
    BY <1>2 DEF Course
<1>3. \A k \in 0 .. n : k \in good
  <2> HIDE DEF good
  <2> QED
      BY <1>1, <1>2, Upward
<1> QED
    BY <1>3
-----------------------------------------------------------------------------
(* The folds of the model are such loops.                                    *)
Looks(c, frame, at, detections) ==
    [of |-> "frame", camera |-> c, frame |-> frame, at |-> at, list |-> detections]
Watches(dl, video) == [of |-> "video", delta |-> dl, list |-> video]
Ballots(c, detections, tags) ==
    [of |-> "vote", camera |-> c, list |-> detections, tags |-> tags]

LEMMA ObserveIs ==
    ASSUME NEW e, NEW c, NEW at, NEW detections \in Seq(Detection)
    PROVE  Observe(e, c, at, detections)
               = Fold(Len(detections), Looks(c, e.frame[c] + 1, at, detections),
                      [eye |-> [e EXCEPT !.frame[c] = e.frame[c] + 1], tracks |-> <<>>])
<1> DEFINE n     == Len(detections)
           frame == e.frame[c] + 1
           base  == [eye |-> [e EXCEPT !.frame[c] = e.frame[c] + 1], tracks |-> <<>>]
           w     == Looks(c, frame, at, detections)
           A(g)  == [s \in SUBSET (1 .. n) |->
                        IF s = {} THEN base
                        ELSE Joined(c, frame, at, g[s \ {Max(s)}], detections[Max(s)])]
           B(g)  == [s \in SUBSET (1 .. n) |->
                        IF s = {} THEN base ELSE Turn(w, g[s \ {Max(s)}], Max(s))]
<1>1. DOMAIN detections = 1 .. n
    OBVIOUS
<1>2. Observe(e, c, at, detections) = (CHOOSE g : g = A(g))[1 .. n]
    BY <1>1 DEF Observe, FoldLeft, MapThenFoldSet, Joined
<1>3. Fold(n, w, base) = (CHOOSE g : g = B(g))[1 .. n]
    BY DEF Fold, Turns
<1>4. \A acc, k : Turn(w, acc, k) = Joined(c, frame, at, acc, detections[k])
    BY DEF Turn, Looks
<1>5. ASSUME NEW g PROVE A(g) = B(g)
  <2> HIDE DEF w, base, frame, n
  <2> QED
      BY <1>4
<1>6. (CHOOSE g : g = A(g)) = (CHOOSE g : g = B(g))
  <2> HIDE DEF A, B
  <2> QED
      BY <1>5
<1> HIDE DEF A, B
<1> QED
    BY <1>2, <1>3, <1>6

LEMMA PlainIs ==
    ASSUME frames \in Seq(Frame)
    PROVE  Plain = Fold(Len(frames), Watches(delta, frames),
                        [eye |-> opened.eye, camera |-> camera, latch |-> Open,
                         stopped |-> opened.stopped, prev |-> NoScene, skips |-> 0,
                         consumed |-> <<>>])
<1> DEFINE n     == Len(frames)
           base  == [eye |-> opened.eye, camera |-> camera, latch |-> Open,
                     stopped |-> opened.stopped, prev |-> NoScene, skips |-> 0,
                     consumed |-> <<>>]
           w     == Watches(delta, frames)
           order == [i \in 1 .. n |-> i]
           A(g)  == [s \in SUBSET (1 .. n) |->
                        IF s = {} THEN base
                        ELSE PlainStep(g[s \ {Max(s)}], order[Max(s)])]
           B(g)  == [s \in SUBSET (1 .. n) |->
                        IF s = {} THEN base ELSE Turn(w, g[s \ {Max(s)}], Max(s))]
<1>1. n \in Nat /\ DOMAIN order = 1 .. n
    OBVIOUS
<1>2. Plain = (CHOOSE g : g = A(g))[1 .. n]
    BY <1>1 DEF Plain, FoldLeft, MapThenFoldSet
<1>3. Fold(n, w, base) = (CHOOSE g : g = B(g))[1 .. n]
    BY DEF Fold, Turns
<1>4. \A acc, k : Turn(w, acc, k) = PlainStep(acc, k)
    BY ConsumeIs DEF Turn, Watches, PlainBy, PlainStep, Marked
<1>5. \A s \in SUBSET (1 .. n) : s # {} => order[Max(s)] = Max(s)
    BY <1>1, LastOf
<1>6. ASSUME NEW g PROVE A(g) = B(g)
  <2> HIDE DEF w, base, order, n
  <2> QED
      BY <1>4, <1>5
<1>7. (CHOOSE g : g = A(g)) = (CHOOSE g : g = B(g))
  <2> HIDE DEF A, B
  <2> QED
      BY <1>6
<1> HIDE DEF A, B
<1> QED
    BY <1>2, <1>3, <1>7
-----------------------------------------------------------------------------
LEMMA OneKeeps ==
    ASSUME NEW e, "gate" \in DOMAIN e, NEW c, NEW frame, NEW at, NEW d
    PROVE  Keeps(e, ObserveOne(e, c, frame, at, d).eye)
<1> DEFINE joins == Joins(e, c, frame, d)
           t     == IF joins = {} THEN Len(e.tracks) + 1 ELSE Nearest(e, joins, d)
           old   == IF joins = {} THEN Append(e.tracks, Begin(c, d)) ELSE e.tracks
           new   == [old EXCEPT ![t] = Moved(old[t], frame, at, d)]
           most  == [e.maxPos EXCEPT ![c] = Larger(e.maxPos[c], at)]
           seen  == e.exempt \cup {<<c, d.cls>>}
<1>1. CASE d.hand
    BY <1>1 DEF ObserveOne, Keeps
<1>2. CASE ~d.hand /\ ~d.box
  <2>1. ObserveOne(e, c, frame, at, d).eye = [e EXCEPT !.exempt = seen]
      BY <1>2 DEF ObserveOne
  <2> HIDE DEF seen
  <2> QED
      BY <2>1 DEF Keeps
<1>3. CASE ~d.hand /\ d.box
  <2>1. ObserveOne(e, c, frame, at, d).eye = [e EXCEPT !.tracks = new, !.maxPos = most]
      BY <1>3 DEF ObserveOne
  <2> HIDE DEF new, most
  <2> QED
      BY <2>1 DEF Keeps
<1> QED
    BY <1>1, <1>2, <1>3

LEMMA ObserveKeeps ==
    ASSUME NEW e, "gate" \in DOMAIN e, NEW c, NEW at, NEW detections \in Seq(Detection)
    PROVE  Keeps(e, Observe(e, c, at, detections).eye)
<1> DEFINE n    == Len(detections)
           w    == Looks(c, e.frame[c] + 1, at, detections)
           from == [e EXCEPT !.frame[c] = e.frame[c] + 1]
           base == [eye |-> from, tracks |-> <<>>]
<1>1. n \in Nat
    OBVIOUS
<1>2. Observe(e, c, at, detections) = Fold(n, w, base)
    BY ObserveIs
<1>3. Keeps(e, base.eye)
    BY DEF Keeps
<1>4. ASSUME NEW acc, NEW k, Keeps(e, acc.eye) PROVE Keeps(e, Turn(w, acc, k).eye)
  <2> DEFINE one == ObserveOne(acc.eye, c, e.frame[c] + 1, at, detections[k])
  <2>1. Turn(w, acc, k).eye = one.eye
      BY DEF Turn, Looks, Joined
  <2>2. Keeps(acc.eye, one.eye)
      BY <1>4, OneKeeps DEF Keeps
  <2> HIDE DEF one
  <2> QED
      BY <1>4, <2>1, <2>2 DEF Keeps
<1> HIDE DEF n, w, base
<1>5. PICK t : Course(t, n, w, base) /\ t[n] = Fold(n, w, base)
    BY <1>1, FoldCourse
<1> DEFINE good == {k \in 0 .. n : Keeps(e, t[k].eye)}
<1>6. 0 \in good
    BY <1>1, <1>3, <1>5 DEF Course
<1>7. ASSUME NEW k \in 1 .. n, k - 1 \in good PROVE k \in good
  <2>1. t[k] = Turn(w, t[k - 1], k) /\ k \in 0 .. n
      BY <1>1, <1>5 DEF Course
  <2> QED
      BY <1>4, <1>7, <2>1
<1>8. \A k \in 0 .. n : k \in good
  <2> HIDE DEF good
  <2> QED
      BY <1>1, <1>6, <1>7, Upward
<1> QED
    BY <1>1, <1>2, <1>5, <1>8

(* f is e with a vote more of camera c.                                      *)
Bumps(e, f, c) == "gate" \in DOMAIN f /\ f.gate = [e.gate EXCEPT ![c] = e.gate[c] + 1]

LEMMA VoteCounts ==
    ASSUME NEW e, "gate" \in DOMAIN e, NEW c, NEW detections, NEW tracks, NEW handAbout
    PROVE  Bumps(e, AddFrame(e, c, detections, tracks, handAbout), c)
<1> DEFINE hand   == [e.inHand EXCEPT ![c] = e.inHand[c] + (IF handAbout THEN 1 ELSE 0)]
           votes  == AddFrame(e, c, detections, tracks, handAbout).votes
           gate   == [e.gate EXCEPT ![c] = e.gate[c] + 1]
<1>1. DOMAIN AddFrame(e, c, detections, tracks, handAbout) = DOMAIN e
    BY DEF AddFrame
<1>2. AddFrame(e, c, detections, tracks, handAbout).gate = gate
    BY DEF AddFrame
<1> QED
    BY <1>1, <1>2 DEF Bumps

(* An inferred frame is a vote more for its camera, and a frame without a    *)
(* hand leaves a latch that is open open.                                    *)
LEMMA OutcomeIs ==
    ASSUME NEW dl, NEW e, "gate" \in DOMAIN e, NEW c, NEW l \in Latch, NEW at, NEW raw \in View
    PROVE  /\ Bumps(e, Outcome(dl, e, c, l, at, raw).eye, c)
           /\ Outcome(dl, e, c, l, at, raw).latch \in Latch
           /\ Hands(c, raw) = <<>> /\ ~l.active => ~Outcome(dl, e, c, l, at, raw).latch.active
<1> DEFINE applied == Apply(e, c, raw)
           handNow == \E i \in DOMAIN applied.detections : applied.detections[i].hand
           seen    == Observe(applied.eye, c, at, applied.detections)
           about   == handNow \/ l.active
           voted   == AddFrame(seen.eye, c, applied.detections, seen.tracks, about)
           after   == Updated(l, handNow)
           stop    == ShouldStop(voted, EarlyAllowed, dl, Tolerance, Products, after.since)
<1>0. raw \in Seq(Detection)
    BY LoopAssumption DEF LoopAssumption
<1>1. Outcome(dl, e, c, l, at, raw) = [eye |-> voted, latch |-> after, stopped |-> stop]
    BY DEF Outcome
<1>2. /\ Keeps(e, applied.eye)
      /\ applied.detections \in Seq(Detection)
      /\ Hands(c, raw) = <<>> => ~handNow
    BY <1>0, Detected
<1> HIDE DEF applied
<1>3. Keeps(applied.eye, seen.eye)
    BY <1>2, ObserveKeeps DEF Keeps
<1> HIDE DEF seen, handNow, about
<1>4. Bumps(seen.eye, voted, c)
  <2>1. "gate" \in DOMAIN seen.eye
      BY <1>3 DEF Keeps
  <2> HIDE DEF about
  <2> QED
      BY <2>1, VoteCounts
<1> HIDE DEF voted
<1>5. after \in Latch
    BY LatchKept
<1>6. ~handNow /\ ~l.active => ~after.active
    BY DEF Updated, Latch
<1> HIDE DEF after, stop
<1>7. Bumps(e, voted, c)
    BY <1>2, <1>3, <1>4 DEF Keeps, Bumps
<1> QED
    BY <1>1, <1>2, <1>5, <1>6, <1>7
-----------------------------------------------------------------------------
CountInv ==
    /\ "gate" \in DOMAIN eye /\ eye.gate \in [Camera -> Nat]
    /\ opened.eye.gate \in [Camera -> Nat]
    /\ eye.gate[camera] = opened.eye.gate[camera] + Len(consumed)

LEMMA InferIs ==
    ASSUME Shape, WaitInv, Infer
    PROVE  /\ pending[1] \in Wait /\ Len(pending) > 0 /\ ~stopped
           /\ eye' = Outcome(delta, eye, camera, latch, pending[1].pos, pending[1].raw).eye
           /\ latch' = Outcome(delta, eye, camera, latch, pending[1].pos, pending[1].raw).latch
           /\ stopped' = Outcome(delta, eye, camera, latch, pending[1].pos, pending[1].raw).stopped
           /\ consumed' = Append(consumed, pending[1].pos)
           /\ pending' = IF stopped' THEN <<>> ELSE Tail(pending)
           /\ UNCHANGED <<delta, camera, pos, prev, skips, passed, frames, opened>>
<1>1. pending \in Seq(Wait)
    BY Types
<1>2. pending # <<>> /\ ~stopped
    BY DEF Infer, WaitInv
<1>3. Len(pending) > 0 /\ pending[1] \in Wait /\ Head(pending) = pending[1]
    BY <1>1, <1>2
<1> DEFINE o == Outcome(delta, eye, camera, latch, pending[1].pos, pending[1].raw)
           s == Consume(Seeing, pending[1].pos, pending[1].raw)
<1>4. s.eye = o.eye /\ s.latch = o.latch /\ s.stopped = o.stopped
  <2>1. s = ConsumeBy(delta, Seeing, pending[1].pos, pending[1].raw)
      BY ConsumeIs
  <2> QED
      BY <2>1 DEF ConsumeBy, Struck, Seeing
<1>5. /\ eye' = s.eye /\ latch' = s.latch /\ stopped' = s.stopped
      /\ consumed' = Append(consumed, pending[1].pos)
      /\ pending' = IF s.stopped THEN <<>> ELSE Tail(pending)
      /\ UNCHANGED <<delta, camera, pos, prev, skips, passed, frames, opened>>
    BY <1>3 DEF Infer
<1> HIDE DEF o, s
<1> QED
    BY <1>2, <1>3, <1>4, <1>5 DEF o

LEMMA CountStep == Inv /\ CountInv /\ [Next]_vars => CountInv'
<1> SUFFICES ASSUME Inv, CountInv, [Next]_vars PROVE CountInv'
    OBVIOUS
<1>0. Shape /\ WaitInv /\ consumed \in Seq(Nat) /\ camera \in Camera
    BY Types DEF Inv, Shape
<1>1. CASE Infer
  <2> DEFINE o == Outcome(delta, eye, camera, latch, pending[1].pos, pending[1].raw)
  <2>1. /\ pending[1] \in Wait /\ eye' = o.eye /\ consumed' = Append(consumed, pending[1].pos)
        /\ camera' = camera /\ opened' = opened
      BY <1>0, <1>1, InferIs
  <2>2. pending[1].pos \in Nat /\ pending[1].raw \in View /\ latch \in Latch
      BY <1>0, <2>1 DEF Wait, Shape
  <2>3. "gate" \in DOMAIN o.eye /\ o.eye.gate = [eye.gate EXCEPT ![camera] = eye.gate[camera] + 1]
      BY <2>2, OutcomeIs DEF CountInv, Bumps
  <2> HIDE DEF o
  <2>4. Len(consumed') = Len(consumed) + 1 /\ Len(consumed) \in Nat
      BY <1>0, <2>1, <2>2
  <2>5. eye'.gate \in [Camera -> Nat] /\ eye'.gate[camera] = eye.gate[camera] + 1
      BY <1>0, <2>1, <2>3 DEF CountInv
  <2>6. opened.eye.gate[camera] \in Nat /\ eye.gate[camera] = opened.eye.gate[camera] + Len(consumed)
      BY <1>0 DEF CountInv
  <2>7. eye.gate[camera] + 1 = opened.eye.gate[camera] + Len(consumed')
      BY <2>4, <2>6
  <2> QED
      BY <2>1, <2>3, <2>5, <2>7 DEF CountInv
<1>2. CASE NextCamera
  <2>1. /\ eye' = eye /\ camera' = "side" /\ consumed' = <<>>
        /\ opened' = [eye |-> eye, stopped |-> stopped]
      BY <1>2 DEF NextCamera
  <2>2. camera' \in Camera /\ eye.gate[camera'] \in Nat /\ Len(consumed') = 0
      BY <2>1 DEF CountInv, Camera
  <2> QED
      BY <2>1, <2>2 DEF CountInv
<1>3. CASE UNCHANGED <<eye, camera, opened, consumed>>
    BY <1>3 DEF CountInv
<1> QED
    BY <1>1, <1>2, <1>3 DEF Next, Pull, LastBatch, Finish, Raises, vars

LEMMA CountInit == Init => CountInv
<1> SUFFICES ASSUME Init PROVE CountInv
    OBVIOUS
<1>1. eye.gate = [c \in Camera |-> 0] /\ "gate" \in DOMAIN eye
    BY DEF Init, Unseen
<1>2. opened.eye = eye /\ camera \in Camera /\ Len(consumed) = 0
    BY DEF Init, Camera
<1> QED
    BY <1>1, <1>2 DEF CountInv

(* No vote is lost or counted twice: whatever the batches, each frame that   *)
(* passed the gate is consumed or waits in its place, and the vote of its    *)
(* camera counts as many frames as were consumed.                            *)
THEOREM FramesVote == Spec => []EveryPassedFrameVotes
<1>1. Inv /\ CountInv => EveryPassedFrameVotes
    BY NothingLostNow DEF CountInv, EveryPassedFrameVotes
<1> QED
    BY <1>1, CountInit, Invariant, CountStep, PTL DEF Spec
-----------------------------------------------------------------------------
(* The state of the loop without batches, and what both loops share of it.   *)
Loop(e, c, l, st, pv, sk, co) ==
    [eye |-> e, camera |-> c, latch |-> l, stopped |-> st, prev |-> pv, skips |-> sk,
     consumed |-> co]
Whole(s) == s = Loop(s.eye, s.camera, s.latch, s.stopped, s.prev, s.skips, s.consumed)
Run(e, l, st, co) == [eye |-> e, latch |-> l, stopped |-> st, consumed |-> co]
Shared(s) == Run(s.eye, s.latch, s.stopped, s.consumed)
Begun == Loop(opened.eye, camera, Open, opened.stopped, NoScene, 0, <<>>)
Now   == Run(eye, latch, stopped, consumed)

(* The consumption of a frame that waits, unless a stop came before.         *)
Drained(dl, c, r, w) ==
    IF r.stopped THEN r
    ELSE LET o == Outcome(dl, r.eye, c, r.latch, w.pos, w.raw)
         IN  Run(o.eye, o.latch, o.stopped, Append(r.consumed, w.pos))

Drains(d, dl, c, queue, r) ==
    d[0] = r /\ \A k \in 1 .. Len(queue) : d[k] = Drained(dl, c, d[k - 1], queue[k])

(* Records, changed a field at a time.                                       *)
LEMMA LoopExcept ==
    ASSUME NEW e, NEW c, NEW l, NEW st, NEW pv, NEW sk, NEW co
    PROVE  /\ \A x, y, z :
                 Marked(Loop(e, c, l, st, pv, sk, co), x, y, z)
                     = Loop(e, c, l, st, x, y, z)
           /\ \A x, y, z :
                 Struck(Loop(e, c, l, st, pv, sk, co), x, y, z)
                     = Loop(x, c, y, z, pv, sk, co)
<1>1. \A r, x, y, z : Marked(r, x, y, z)
                          = [[[r EXCEPT !.prev = x] EXCEPT !.skips = y] EXCEPT !.consumed = z]
    BY DEF Marked
<1>2. \A r, x, y, z : Struck(r, x, y, z)
                          = [[[r EXCEPT !.eye = x] EXCEPT !.latch = y] EXCEPT !.stopped = z]
    BY DEF Struck
<1>3. ASSUME NEW x, NEW y, NEW z
      PROVE  Marked(Loop(e, c, l, st, pv, sk, co), x, y, z)
                 = Loop(e, c, l, st, x, y, z)
  <2>1. [Loop(e, c, l, st, pv, sk, co) EXCEPT !.prev = x] = Loop(e, c, l, st, x, sk, co)
      BY DEF Loop
  <2>2. [Loop(e, c, l, st, x, sk, co) EXCEPT !.skips = y] = Loop(e, c, l, st, x, y, co)
      BY DEF Loop
  <2>3. [Loop(e, c, l, st, x, y, co) EXCEPT !.consumed = z] = Loop(e, c, l, st, x, y, z)
      BY DEF Loop
  <2> QED
      BY <1>1, <2>1, <2>2, <2>3
<1>4. ASSUME NEW x, NEW y, NEW z
      PROVE  Struck(Loop(e, c, l, st, pv, sk, co), x, y, z)
                 = Loop(x, c, y, z, pv, sk, co)
  <2>1. [Loop(e, c, l, st, pv, sk, co) EXCEPT !.eye = x] = Loop(x, c, l, st, pv, sk, co)
      BY DEF Loop
  <2>2. [Loop(x, c, l, st, pv, sk, co) EXCEPT !.latch = y] = Loop(x, c, y, st, pv, sk, co)
      BY DEF Loop
  <2>3. [Loop(x, c, y, st, pv, sk, co) EXCEPT !.stopped = z] = Loop(x, c, y, z, pv, sk, co)
      BY DEF Loop
  <2> QED
      BY <1>2, <2>1, <2>2, <2>3
<1> QED
    BY <1>3, <1>4

(* A turn of the loop without batches, on the frame the other one passes.    *)
LEMMA TurnSkips ==
    ASSUME NEW dl, NEW video, NEW s, NEW i, Whole(s),
           ~Decide(s.prev, s.skips, s.latch.active, video[i].scene), ~s.stopped
    PROVE  PlainBy(dl, video, s, i)
               = Loop(s.eye, s.camera, s.latch, s.stopped, s.prev, s.skips + 1, s.consumed)
BY DEF PlainBy, Whole, Loop

LEMMA TurnConsumes ==
    ASSUME NEW dl, NEW video, NEW s, NEW i, Whole(s),
           Decide(s.prev, s.skips, s.latch.active, video[i].scene), ~s.stopped
    PROVE  LET o == Outcome(dl, s.eye, s.camera, s.latch, i - 1, video[i].raw)
           IN  PlainBy(dl, video, s, i)
                   = Loop(o.eye, s.camera, o.latch, o.stopped, video[i].scene, 0,
                          Append(s.consumed, i - 1))
<1> DEFINE o == Outcome(dl, s.eye, s.camera, s.latch, i - 1, video[i].raw)
           q == Loop(s.eye, s.camera, s.latch, s.stopped, video[i].scene, 0,
                     Append(s.consumed, i - 1))
<1>1. Marked(s, video[i].scene, 0, Append(s.consumed, i - 1)) = q
    BY LoopExcept DEF Whole
<1>2. PlainBy(dl, video, s, i) = ConsumeBy(dl, q, i - 1, video[i].raw)
    BY <1>1 DEF PlainBy
<1>3. q.eye = s.eye /\ q.camera = s.camera /\ q.latch = s.latch
    BY DEF Loop
<1>4. ConsumeBy(dl, q, i - 1, video[i].raw)
          = Struck(q, o.eye, o.latch, o.stopped)
    BY <1>3 DEF ConsumeBy
<1> HIDE DEF o
<1>5. Struck(q, o.eye, o.latch, o.stopped)
          = Loop(o.eye, s.camera, o.latch, o.stopped, video[i].scene, 0, Append(s.consumed, i - 1))
    BY LoopExcept
<1> QED
    BY <1>2, <1>4, <1>5 DEF o

LEMMA StoppedStays ==
    ASSUME NEW d, NEW dl, NEW c, NEW queue, NEW r, Len(queue) \in Nat, Drains(d, dl, c, queue, r),
           NEW j \in 0 .. Len(queue), d[j].stopped
    PROVE  d[Len(queue)] = d[j]
<1> DEFINE n == Len(queue)
           good == {k \in 0 .. n : k >= j => d[k] = d[j]}
<1>1. 0 \in good
    OBVIOUS
<1>2. ASSUME NEW k \in 1 .. n, k - 1 \in good PROVE k \in good
  <2>1. d[k] = Drained(dl, c, d[k - 1], queue[k])
      BY DEF Drains
  <2>2. CASE k - 1 >= j
    <3>1. d[k - 1] = d[j]
        BY <1>2, <2>2
    <3> QED
        BY <2>1, <3>1 DEF Drained
  <2>3. CASE ~(k - 1 >= j)
    <3>1. k >= j => k = j
        BY <2>3
    <3> QED
        BY <3>1
  <2> QED
      BY <2>2, <2>3
<1>3. \A k \in 0 .. n : k \in good
  <2> HIDE DEF good
  <2> QED
      BY <1>1, <1>2, Upward
<1> QED
    BY <1>3

(* Consuming the first frame that waits leaves the others to be consumed.    *)
LEMMA DrainsOn ==
    ASSUME NEW d, NEW dl, NEW c, NEW queue \in Seq(Wait), Len(queue) > 0, NEW r,
           Drains(d, dl, c, queue, r)
    PROVE  \E f : Drains(f, dl, c, Tail(queue), d[1]) /\ f[Len(Tail(queue))] = d[Len(queue)]
<1> DEFINE n == Len(queue) - 1
           f == [k \in 0 .. n |-> d[k + 1]]
<1>1. /\ Len(queue) \in Nat /\ Len(Tail(queue)) = n /\ n \in Nat
      /\ \A k \in 1 .. n : Tail(queue)[k] = queue[k + 1]
    OBVIOUS
<1>2. ASSUME NEW k \in 1 .. n PROVE f[k] = Drained(dl, c, f[k - 1], Tail(queue)[k])
  <2>1. /\ k \in 0 .. n /\ k - 1 \in 0 .. n /\ k + 1 \in 1 .. Len(queue)
        /\ (k - 1) + 1 = k /\ (k + 1) - 1 = k
      BY <1>1
  <2>2. d[k + 1] = Drained(dl, c, d[k], queue[k + 1])
      BY <2>1 DEF Drains
  <2>3. f[k] = d[k + 1] /\ f[k - 1] = d[k]
      BY <2>1
  <2> QED
      BY <1>1, <2>2, <2>3
<1>3. f[0] = d[1] /\ f[n] = d[n + 1] /\ n + 1 = Len(queue)
    BY <1>1
<1> HIDE DEF f
<1>4. Drains(f, dl, c, Tail(queue), d[1])
    BY <1>1, <1>2, <1>3 DEF Drains
<1> QED
    BY <1>1, <1>3, <1>4

LEMMA DrainsMore ==
    ASSUME NEW d, NEW dl, NEW c, NEW queue \in Seq(Wait), NEW r, NEW w \in Wait,
           Drains(d, dl, c, queue, r)
    PROVE  \E f : /\ Drains(f, dl, c, Append(queue, w), r)
                  /\ f[Len(queue) + 1] = Drained(dl, c, d[Len(queue)], w)
<1> DEFINE n == Len(queue)
           last == Drained(dl, c, d[n], w)
           f == [k \in 0 .. n + 1 |-> IF k = n + 1 THEN last ELSE d[k]]
<1>1. /\ n \in Nat /\ Len(Append(queue, w)) = n + 1
      /\ \A k \in 1 .. n : Append(queue, w)[k] = queue[k]
      /\ Append(queue, w)[n + 1] = w
    OBVIOUS
<1> HIDE DEF last
<1>2. \A k \in 0 .. n : k \in 0 .. n + 1 /\ k # n + 1 /\ f[k] = d[k]
    BY <1>1
<1>3. n + 1 \in 0 .. n + 1 /\ f[n + 1] = last /\ n \in 0 .. n /\ 0 \in 0 .. n
    BY <1>1
<1> HIDE DEF f
<1>4. ASSUME NEW k \in 1 .. n + 1 PROVE f[k] = Drained(dl, c, f[k - 1], Append(queue, w)[k])
  <2>1. CASE k = n + 1
    <3>1. k - 1 = n
        BY <1>1, <2>1
    <3> QED
        BY <1>1, <1>2, <1>3, <2>1, <3>1 DEF last
  <2>2. CASE k # n + 1
    <3>1. k \in 1 .. n /\ k \in 0 .. n /\ k - 1 \in 0 .. n
        BY <1>1, <2>2
    <3>2. d[k] = Drained(dl, c, d[k - 1], queue[k])
        BY <3>1 DEF Drains
    <3> QED
        BY <1>1, <1>2, <3>1, <3>2
  <2> QED
      BY <2>1, <2>2
<1>5. f[0] = r
    BY <1>2, <1>3 DEF Drains
<1>6. Drains(f, dl, c, Append(queue, w), r)
    BY <1>1, <1>4, <1>5 DEF Drains
<1> QED
    BY <1>3, <1>6 DEF last

(* A frame more is a turn more, the others stay as they are.                 *)
LEMMA CourseMore ==
    ASSUME NEW p, NEW dl, NEW video \in Seq(Frame), NEW base, NEW f \in Frame,
           Course(p, Len(video), Watches(dl, video), base)
    PROVE  \E q : /\ Course(q, Len(video) + 1, Watches(dl, Append(video, f)), base)
                  /\ q[Len(video) + 1]
                         = PlainBy(dl, Append(video, f), p[Len(video)], Len(video) + 1)
<1> DEFINE n == Len(video)
           more == Append(video, f)
           last == PlainBy(dl, more, p[n], n + 1)
           q == [k \in 0 .. n + 1 |-> IF k = n + 1 THEN last ELSE p[k]]
<1>1. n \in Nat /\ \A k \in 1 .. n : more[k] = video[k]
    OBVIOUS
<1> HIDE DEF last
<1>2. \A k \in 0 .. n : k \in 0 .. n + 1 /\ k # n + 1 /\ q[k] = p[k]
    BY <1>1
<1>3. n + 1 \in 0 .. n + 1 /\ q[n + 1] = last /\ n \in 0 .. n /\ 0 \in 0 .. n
    BY <1>1
<1> HIDE DEF q, n, more
<1>4. \A s, k : Turn(Watches(dl, more), s, k) = PlainBy(dl, more, s, k)
    BY DEF Turn, Watches
<1>5. ASSUME NEW k \in 1 .. n, NEW s
      PROVE  Turn(Watches(dl, video), s, k) = PlainBy(dl, more, s, k)
  <2>1. Turn(Watches(dl, video), s, k) = PlainBy(dl, video, s, k)
      BY DEF Turn, Watches
  <2> QED
      BY <1>1, <2>1 DEF PlainBy
<1>6. ASSUME NEW k \in 1 .. n + 1 PROVE q[k] = Turn(Watches(dl, more), q[k - 1], k)
  <2>1. CASE k = n + 1
    <3>1. k - 1 = n
        BY <1>1, <2>1
    <3> QED
        BY <1>2, <1>3, <1>4, <2>1, <3>1 DEF last
  <2>2. CASE k # n + 1
    <3>1. k \in 1 .. n /\ k \in 0 .. n /\ k - 1 \in 0 .. n
        BY <1>1, <2>2
    <3>2. p[k] = Turn(Watches(dl, video), p[k - 1], k)
        BY <3>1 DEF Course, n
    <3> QED
        BY <1>2, <1>4, <1>5, <3>1, <3>2
  <2> QED
      BY <2>1, <2>2
<1>7. q[0] = base
    BY <1>2, <1>3 DEF Course
<1>8. Course(q, n + 1, Watches(dl, more), base)
    BY <1>6, <1>7 DEF Course
<1> QED
    BY <1>3, <1>8 DEF last, n, more
-----------------------------------------------------------------------------
(* Both loops meet: the loop without batches, p over the frames so far, is   *)
(* where the batched one will be when d has consumed what waits; and as long *)
(* as neither is stopped their gates agree on the next frame.                *)
Ahead(p) == p[Len(frames)]

SameGate(s, pv, sk) == ~s.stopped => s.prev = pv /\ s.skips = sk

Meets(p, d) ==
    /\ Course(p, Len(frames), Watches(delta, frames), Begun)
    /\ Drains(d, delta, camera, pending, Now)
    /\ Whole(Ahead(p)) /\ Ahead(p).camera = camera /\ Ahead(p).latch \in Latch
    /\ "gate" \in DOMAIN Ahead(p).eye
    /\ Shared(Ahead(p)) = d[Len(pending)]
    /\ SameGate(Ahead(p), prev, skips)
    /\ HandFree => ~latch.active /\ ~Ahead(p).latch.active
    /\ HandFree => \A i \in 1 .. Len(pending) : Hands(camera, pending[i].raw) = <<>>

MeetInv == HandFree \/ BatchSize = 1 => \E p, d : Meets(p, d)

(* At the start of a camera nothing is seen and nothing waits.               *)
AtStart ==
    /\ frames = <<>> /\ pending = <<>> /\ consumed = <<>>
    /\ latch = Open /\ prev = NoScene /\ skips = 0
    /\ opened.eye = eye /\ opened.stopped = stopped /\ "gate" \in DOMAIN eye

LEMMA MeetsAtStart == AtStart => \E p, d : Meets(p, d)
<1> SUFFICES ASSUME AtStart PROVE \E p, d : Meets(p, d)
    OBVIOUS
<1> USE DEF AtStart
<1> DEFINE p == [k \in 0 .. 0 |-> Begun]
           d == [k \in 0 .. 0 |-> Now]
<1>1. p[0] = Begun /\ d[0] = Now
    OBVIOUS
<1> HIDE DEF p, d
<1>2. Len(frames) = 0 /\ Len(pending) = 0 /\ 1 .. 0 = {}
    OBVIOUS
<1>3. Course(p, Len(frames), Watches(delta, frames), Begun)
    BY <1>1, <1>2 DEF Course
<1>4. Drains(d, delta, camera, pending, Now)
    BY <1>1, <1>2 DEF Drains
<1>5. /\ Begun.eye = eye /\ Begun.camera = camera /\ Begun.latch = Open /\ Begun.stopped = stopped
      /\ Begun.prev = NoScene /\ Begun.skips = 0 /\ Begun.consumed = <<>>
    BY DEF Begun, Loop
<1>6. Whole(Begun)
    BY <1>5 DEF Whole, Begun
<1>7. Shared(Begun) = Now
    BY <1>5 DEF Shared, Now
<1>8. Open \in Latch /\ ~Open.active
    BY DEF Open, Latch
<1>9. SameGate(Begun, prev, skips)
    BY <1>5 DEF SameGate
<1>10. Meets(p, d)
    BY <1>1, <1>2, <1>3, <1>4, <1>5, <1>6, <1>7, <1>8, <1>9 DEF Meets, Ahead
<1> QED
    BY <1>10

LEMMA MeetsAtNextStart == AtStart' => (\E p, d : Meets(p, d))'
BY MeetsAtStart, PTL

LEMMA MeetsWhilePulling ==
    ASSUME Inv, NEW f \in Frame, Pull(f), HandFree' \/ BatchSize = 1,
           NEW p, NEW d, Meets(p, d)
    PROVE  \E q, e : Meets(q, e)'
<1> DEFINE n == Len(frames)
           m == Len(pending)
           s == Ahead(p)
           w == [pos |-> pos, raw |-> f.raw]
           t == PlainBy(delta, frames', s, n + 1)
<1>t. /\ Shape /\ WaitInv /\ GapInv /\ pos \in Nat /\ pending \in Seq(Wait)
      /\ frames \in Seq(Frame) /\ consumed \in Seq(Nat)
    BY Types DEF Inv
<1>1. /\ pc = "pull" /\ ~stopped /\ frames' = Append(frames, f)
      /\ UNCHANGED <<delta, camera, latch, stopped, eye, consumed, opened>>
    BY DEF Pull
<1>2. n \in Nat /\ m \in Nat /\ n = pos
    BY <1>t DEF GapInv
<1>3. Len(frames') = n + 1 /\ frames'[n + 1] = f /\ \A k \in 1 .. n : frames'[k] = frames[k]
    BY <1>1, <1>t
<1>4. f.scene \in Scene /\ f.raw \in View /\ w \in Wait
    BY <1>t DEF Frame, Wait
<1>5. HandFree' => HandFree /\ Hands(camera, f.raw) = <<>>
  <2>1. DOMAIN frames' = 1 .. n + 1 /\ DOMAIN frames = 1 .. n /\ n + 1 \in 1 .. n + 1
        /\ \A k \in 1 .. n : k \in 1 .. n + 1
      BY <1>1, <1>2, <1>3, <1>t
  <2>2. camera' = camera
      BY <1>1
  <2> QED
      BY <1>3, <2>1, <2>2 DEF HandFree
<1>6. Begun' = Begun /\ Now' = Now
    BY <1>1 DEF Begun, Now
<1>7. PICK q : /\ Course(q, n + 1, Watches(delta, frames'), Begun)
               /\ q[n + 1] = t
  <2>1. Course(p, n, Watches(delta, frames), Begun)
      BY DEF Meets
  <2> QED
      BY <1>1, <1>t, <2>1, CourseMore DEF Ahead
<1>8. /\ Whole(s) /\ s.camera = camera /\ s.latch \in Latch /\ "gate" \in DOMAIN s.eye
      /\ Shared(s) = d[m] /\ SameGate(s, prev, skips)
      /\ HandFree => ~latch.active /\ ~s.latch.active
      /\ Drains(d, delta, camera, pending, Now)
      /\ HandFree => \A i \in 1 .. m : Hands(camera, pending[i].raw) = <<>>
    BY DEF Meets
<1>9. Ahead(q)' = t
    BY <1>3, <1>7 DEF Ahead
<1>10. Course(q, Len(frames'), Watches(delta', frames'), Begun')
    BY <1>1, <1>3, <1>6, <1>7
<1> HIDE DEF t, s, w
<1>11. ~s.stopped => (Decide(s.prev, s.skips, s.latch.active, f.scene)
                      <=> Decide(prev, skips, latch.active, f.scene))
  <2>1. CASE HandFree'
    <3>1. ~latch.active /\ ~s.latch.active
        BY <1>5, <1>8, <2>1
    <3> QED
        BY <1>8, <3>1 DEF SameGate, Decide
  <2>2. CASE BatchSize = 1
    <3>1. m = 0
        BY <1>1, <1>2, <1>t, <2>2 DEF WaitInv
    <3>2. Shared(s) = Now
        BY <1>8, <3>1 DEF Drains
    <3>3. s.latch = latch
        BY <3>2 DEF Shared, Now, Run
    <3> QED
        BY <1>8, <3>3 DEF SameGate, Decide
  <2> QED
      BY <2>1, <2>2
<1>12. CASE Decide(prev, skips, latch.active, f.scene)
  <2>1. prev' = f.scene /\ skips' = 0 /\ pending' = Append(pending, w)
      BY <1>12 DEF Pull, w
  <2>2. /\ Len(pending') = m + 1 /\ pending'[m + 1] = w
        /\ \A i \in 1 .. m : pending'[i] = pending[i]
      BY <1>4, <1>t, <2>1
  <2>3. PICK e : /\ Drains(e, delta, camera, pending', Now)
                 /\ e[m + 1] = Drained(delta, camera, d[m], w)
    <3>1. w \in Wait /\ pending \in Seq(Wait) /\ Drains(d, delta, camera, pending, Now)
        BY <1>4, <1>8, <1>t
    <3> QED
        BY <2>1, <3>1, DrainsMore
  <2>4. d[m].stopped = s.stopped /\ d[m].eye = s.eye /\ d[m].latch = s.latch
        /\ d[m].consumed = s.consumed
      BY <1>8 DEF Shared, Run
  <2>5. HandFree' => \A i \in 1 .. Len(pending') : Hands(camera', pending'[i].raw) = <<>>
    <3>1. w.raw = f.raw
        BY DEF w
    <3>2. \A i \in 1 .. m + 1 : i \in 1 .. m \/ i = m + 1
        BY <1>2
    <3> QED
        BY <1>1, <1>5, <1>8, <2>2, <3>1, <3>2
  <2>6. CASE s.stopped
    <3>1. t = s
        BY <2>6 DEF t, PlainBy
    <3>2. e[m + 1] = d[m]
        BY <2>3, <2>4, <2>6 DEF Drained
    <3>3. HandFree' => ~latch'.active /\ ~t.latch.active
        BY <1>1, <1>5, <1>8, <3>1
    <3>4. SameGate(t, prev', skips')
        BY <2>6, <3>1 DEF SameGate
    <3>5. Meets(q, e)'
        BY <1>1, <1>6, <1>8, <1>9, <1>10, <2>2, <2>3, <2>5, <3>1, <3>2, <3>3, <3>4 DEF Meets
    <3> QED
        BY <3>5
  <2>7. CASE ~s.stopped
    <3> DEFINE o == Outcome(delta, s.eye, camera, s.latch, pos, f.raw)
    <3>1. (n + 1) - 1 = pos
        BY <1>2
    <3>2. t = Loop(o.eye, camera, o.latch, o.stopped, f.scene, 0, Append(s.consumed, pos))
      <4>1. Decide(s.prev, s.skips, s.latch.active, frames'[n + 1].scene)
          BY <1>3, <1>11, <1>12, <2>7
      <4>2. t = Loop(Outcome(delta, s.eye, s.camera, s.latch, (n + 1) - 1, frames'[n + 1].raw).eye,
                     s.camera,
                     Outcome(delta, s.eye, s.camera, s.latch, (n + 1) - 1, frames'[n + 1].raw).latch,
                     Outcome(delta, s.eye, s.camera, s.latch, (n + 1) - 1, frames'[n + 1].raw).stopped,
                     frames'[n + 1].scene, 0, Append(s.consumed, (n + 1) - 1))
          BY <1>8, <2>7, <4>1, TurnConsumes DEF t
      <4> QED
          BY <1>3, <1>8, <3>1, <4>2
    <3>3. e[m + 1] = Run(o.eye, o.latch, o.stopped, Append(s.consumed, pos))
      <4>1. w.pos = pos /\ w.raw = f.raw
          BY DEF w
      <4> QED
          BY <2>3, <2>4, <2>7, <4>1 DEF Drained
    <3>4. /\ "gate" \in DOMAIN o.eye /\ o.latch \in Latch
          /\ Hands(camera, f.raw) = <<>> /\ ~s.latch.active => ~o.latch.active
        BY <1>4, <1>8, OutcomeIs DEF Bumps
    <3> HIDE DEF o
    <3>5. /\ t.eye = o.eye /\ t.camera = camera /\ t.latch = o.latch /\ t.stopped = o.stopped
          /\ t.prev = f.scene /\ t.skips = 0 /\ t.consumed = Append(s.consumed, pos)
        BY <3>2 DEF Loop
    <3>6. Whole(t) /\ Shared(t) = e[m + 1]
        BY <3>2, <3>3, <3>5 DEF Whole, Shared
    <3>7. HandFree' => ~latch'.active /\ ~t.latch.active
        BY <1>1, <1>5, <1>8, <3>4, <3>5
    <3>8. SameGate(t, prev', skips')
        BY <2>1, <3>5 DEF SameGate
    <3>9. Meets(q, e)'
        BY <1>1, <1>6, <1>9, <1>10, <2>2, <2>3, <2>5, <3>4, <3>5, <3>6, <3>7, <3>8 DEF Meets
    <3> QED
        BY <3>9
  <2> QED
      BY <2>6, <2>7
<1>13. CASE ~Decide(prev, skips, latch.active, f.scene)
  <2>1. skips' = skips + 1 /\ prev' = prev /\ pending' = pending
      BY <1>13 DEF Pull
  <2>2. HandFree' => \A i \in 1 .. Len(pending') : Hands(camera', pending'[i].raw) = <<>>
      BY <1>1, <1>5, <1>8, <2>1
  <2>3. /\ t.eye = s.eye /\ t.camera = s.camera /\ t.latch = s.latch /\ t.stopped = s.stopped
        /\ t.consumed = s.consumed /\ Whole(t)
        /\ ~s.stopped => t.prev = s.prev /\ t.skips = s.skips + 1
    <3>1. CASE s.stopped
      <4>1. t = s
          BY <3>1 DEF t, PlainBy
      <4> QED
          BY <1>8, <3>1, <4>1
    <3>2. CASE ~s.stopped
      <4>1. t = Loop(s.eye, s.camera, s.latch, s.stopped, s.prev, s.skips + 1, s.consumed)
        <5>1. ~Decide(s.prev, s.skips, s.latch.active, frames'[n + 1].scene)
            BY <1>3, <1>11, <1>13, <3>2
        <5> QED
            BY <1>8, <3>2, <5>1, TurnSkips DEF t
      <4>2. /\ t.eye = s.eye /\ t.camera = s.camera /\ t.latch = s.latch /\ t.stopped = s.stopped
            /\ t.consumed = s.consumed /\ t.prev = s.prev /\ t.skips = s.skips + 1
          BY <4>1 DEF Loop
      <4>3. Whole(t)
          BY <4>1, <4>2 DEF Whole
      <4> QED
          BY <4>2, <4>3
    <3> QED
        BY <3>1, <3>2
  <2>4. Shared(t) = d[m]
      BY <1>8, <2>3 DEF Shared
  <2>5. HandFree' => ~latch'.active /\ ~t.latch.active
      BY <1>1, <1>5, <1>8, <2>3
  <2>6. SameGate(t, prev', skips')
      BY <1>8, <2>1, <2>3 DEF SameGate
  <2>7. Meets(q, d)'
      BY <1>1, <1>6, <1>8, <1>9, <1>10, <2>1, <2>2, <2>3, <2>4, <2>5, <2>6 DEF Meets
  <2> QED
      BY <2>7
<1> QED
    BY <1>12, <1>13
-----------------------------------------------------------------------------
LEMMA MeetsWhileInferring ==
    ASSUME Inv, Infer, HandFree' \/ BatchSize = 1, "gate" \in DOMAIN eye,
           NEW p, NEW d, Meets(p, d)
    PROVE  \E e : Meets(p, e)'
<1> DEFINE m == Len(pending)
           s == Ahead(p)
           w == pending[1]
           o == Outcome(delta, eye, camera, latch, w.pos, w.raw)
<1>t. /\ Shape /\ WaitInv /\ pending \in Seq(Wait) /\ consumed \in Seq(Nat)
    BY Types DEF Inv
<1>1. /\ w \in Wait /\ m > 0 /\ ~stopped
      /\ eye' = o.eye /\ latch' = o.latch /\ stopped' = o.stopped
      /\ consumed' = Append(consumed, w.pos)
      /\ pending' = IF stopped' THEN <<>> ELSE Tail(pending)
      /\ UNCHANGED <<delta, camera, pos, prev, skips, passed, frames, opened>>
    BY <1>t, InferIs
<1>2. HandFree' <=> HandFree
    BY <1>1 DEF HandFree
<1>3. /\ Course(p, Len(frames), Watches(delta, frames), Begun)
      /\ Drains(d, delta, camera, pending, Now)
      /\ Whole(s) /\ s.camera = camera /\ s.latch \in Latch /\ "gate" \in DOMAIN s.eye
      /\ Shared(s) = d[m] /\ SameGate(s, prev, skips)
      /\ HandFree => ~latch.active /\ ~s.latch.active
      /\ HandFree => \A i \in 1 .. m : Hands(camera, pending[i].raw) = <<>>
    BY DEF Meets
<1>4. Begun' = Begun /\ Ahead(p)' = s
    BY <1>1 DEF Begun, Ahead
<1>5. d[1] = Now'
  <2>1. 1 \in 1 .. m /\ 1 - 1 = 0
      BY <1>1, <1>t
  <2>2. d[0] = Now /\ d[1] = Drained(delta, camera, d[0], w)
      BY <1>3, <2>1 DEF Drains
  <2>3. Now.eye = eye /\ Now.latch = latch /\ ~Now.stopped /\ Now.consumed = consumed
      BY <1>1 DEF Now, Run
  <2>4. d[1] = Run(o.eye, o.latch, o.stopped, Append(consumed, w.pos))
      BY <2>2, <2>3 DEF Drained
  <2> HIDE DEF o
  <2> QED
      BY <1>1, <2>4 DEF Now
<1>6. HandFree => ~latch'.active
  <2>1. w.raw \in View /\ latch \in Latch
      BY <1>1, <1>t DEF Wait, Shape
  <2>2. Hands(camera, w.raw) = <<>> /\ ~latch.active => ~o.latch.active
      BY <2>1, OutcomeIs
  <2>3. 1 \in 1 .. m
      BY <1>1, <1>t
  <2> HIDE DEF o
  <2> QED
      BY <1>1, <1>3, <2>2, <2>3
<1> HIDE DEF o, s
<1>7. CASE stopped'
  <2>1. pending' = <<>> /\ Len(pending') = 0
      BY <1>1, <1>7
  <2>2. d[1].stopped
      BY <1>5, <1>7 DEF Now, Run
  <2>3. d[m] = d[1]
    <3>1. m \in Nat /\ 1 \in 0 .. m
        BY <1>1, <1>t
    <3> QED
        BY <1>3, <2>2, <3>1, StoppedStays
  <2> DEFINE e == [k \in 0 .. 0 |-> d[1]]
  <2>4. e[0] = d[1]
      OBVIOUS
  <2> HIDE DEF e
  <2>5. Drains(e, delta', camera', pending', Now')
      BY <1>5, <2>1, <2>4 DEF Drains
  <2>6. PICK f : f = e
      OBVIOUS
  <2>7. Meets(p, f)'
    <3>1. \A i \in 1 .. Len(pending') : FALSE
        BY <2>1
    <3>2. Shared(s) = f[Len(pending')]
        BY <1>3, <2>1, <2>3, <2>4, <2>6
    <3>3. SameGate(s, prev', skips') /\ (HandFree' => ~latch'.active /\ ~s.latch.active)
        BY <1>1, <1>2, <1>3, <1>6
    <3> QED
        BY <1>1, <1>3, <1>4, <2>5, <2>6, <3>1, <3>2, <3>3 DEF Meets
  <2> QED
      BY <2>7
<1>8. CASE ~stopped'
  <2>1. /\ pending' = Tail(pending) /\ Len(pending') = m - 1
        /\ \A i \in 1 .. m - 1 : pending'[i] = pending[i + 1] /\ i + 1 \in 1 .. m
      BY <1>1, <1>8, <1>t
  <2>2. PICK e : Drains(e, delta, camera, Tail(pending), d[1]) /\ e[Len(Tail(pending))] = d[m]
    <3>1. Len(pending) > 0
        BY <1>1
    <3> QED
        BY <1>3, <1>t, <3>1, DrainsOn
  <2>3. Drains(e, delta', camera', pending', Now')
      BY <1>1, <1>5, <2>1, <2>2
  <2>4. Shared(s) = e[Len(pending')]
      BY <1>3, <2>1, <2>2
  <2>5. HandFree' => \A i \in 1 .. Len(pending') : Hands(camera', pending'[i].raw) = <<>>
      BY <1>1, <1>2, <1>3, <2>1
  <2>6. SameGate(s, prev', skips') /\ (HandFree' => ~latch'.active /\ ~s.latch.active)
      BY <1>1, <1>2, <1>3, <1>6
  <2>7. Meets(p, e)'
      BY <1>1, <1>3, <1>4, <2>3, <2>4, <2>5, <2>6 DEF Meets
  <2> QED
      BY <2>7
<1> QED
    BY <1>7, <1>8

LEMMA MeetStep == Inv /\ CountInv /\ MeetInv /\ [Next]_vars => MeetInv'
<1> SUFFICES ASSUME Inv, CountInv, MeetInv, [Next]_vars, HandFree' \/ BatchSize = 1
             PROVE  \E p, d : Meets(p, d)'
    BY DEF MeetInv
<1>1. CASE \E f \in Frame : Pull(f)
  <2>1. PICK f \in Frame : Pull(f)
      BY <1>1
  <2>2. HandFree \/ BatchSize = 1
    <3>1. HandFree' => HandFree
      <4>1. frames' = Append(frames, f) /\ camera' = camera
          BY <2>1 DEF Pull
      <4>2. frames \in Seq(Frame)
          BY Types DEF Inv
      <4>3. \A k \in DOMAIN frames : k \in DOMAIN frames' /\ frames'[k] = frames[k]
          BY <4>1, <4>2
      <4> QED
          BY <4>1, <4>3 DEF HandFree
    <3> QED
        BY <3>1
  <2>3. PICK p, d : Meets(p, d)
      BY <2>2 DEF MeetInv
  <2> QED
      BY <2>1, <2>3, MeetsWhilePulling
<1>2. CASE Infer
  <2>1. HandFree' <=> HandFree
      BY <1>2 DEF Infer, HandFree
  <2>2. PICK p, d : Meets(p, d)
      BY <2>1 DEF MeetInv
  <2> QED
      BY <1>2, <2>2, MeetsWhileInferring DEF CountInv
<1>3. CASE NextCamera
  <2>1. /\ frames' = <<>> /\ pending' = <<>> /\ consumed' = <<>> /\ latch' = Open
        /\ prev' = NoScene /\ skips' = 0 /\ eye' = eye /\ stopped' = stopped
        /\ opened'.eye = eye /\ opened'.stopped = stopped
      BY <1>3 DEF NextCamera
  <2>2. "gate" \in DOMAIN eye'
      BY <2>1 DEF CountInv
  <2>3. (\E p, d : Meets(p, d))'
      BY <2>1, <2>2, MeetsAtNextStart DEF AtStart
  <2> QED
      BY <2>3
<1>4. CASE UNCHANGED <<delta, camera, prev, skips, latch, pending, stopped, eye, consumed,
                       frames, opened>>
  <2>1. HandFree' <=> HandFree
      BY <1>4 DEF HandFree
  <2>2. PICK p, d : Meets(p, d)
      BY <2>1 DEF MeetInv
  <2>3. Now' = Now /\ Begun' = Begun /\ Ahead(p)' = Ahead(p)
      BY <1>4 DEF Now, Begun, Ahead
  <2>4. Meets(p, d)'
      BY <1>4, <2>1, <2>2, <2>3 DEF Meets
  <2> QED
      BY <2>4
<1> QED
    BY <1>1, <1>2, <1>3, <1>4 DEF Next, LastBatch, Finish, Raises, vars

LEMMA MeetsWhenDone == Inv /\ MeetInv => BatchesLikeFrames
<1> SUFFICES ASSUME Inv, MeetInv, pending = <<>>, HandFree \/ BatchSize = 1
             PROVE  consumed = Plain.consumed /\ eye = Plain.eye /\ stopped = Plain.stopped
    BY DEF BatchesLikeFrames
<1> DEFINE n == Len(frames)
<1>1. frames \in Seq(Frame) /\ n \in Nat
    BY Types DEF Inv
<1>2. PICK p, d : Meets(p, d)
    BY DEF MeetInv
<1>3. Plain = Fold(n, Watches(delta, frames), Begun)
    BY <1>1, PlainIs DEF Begun, Loop
<1>4. PICK q : Course(q, n, Watches(delta, frames), Begun) /\ q[n] = Plain
    BY <1>1, <1>3, FoldCourse
<1>5. Plain = p[n]
  <2>1. Course(p, n, Watches(delta, frames), Begun)
      BY <1>2 DEF Meets
  <2> QED
      BY <1>1, <1>4, <2>1, SameCourse
<1>6. Shared(p[n]) = Now
  <2>1. Len(pending) = 0
      OBVIOUS
  <2> QED
      BY <1>2, <2>1 DEF Meets, Ahead, Drains
<1> QED
    BY <1>5, <1>6 DEF Shared, Now, Run

(* Batches do not change a judgement: with batches of one, or while no hand  *)
(* is in the pictures, the loop that infers frames a batch at a time ends    *)
(* with the eye, the frames consumed and the stop of the loop that infers    *)
(* each at once, for any size of the batch, keepalive and video.             *)
THEOREM BatchesAgree == Spec => []BatchesLikeFrames
<1>1. Init => CountInv
    BY CountInit
<1>2. Init => MeetInv
  <2> SUFFICES ASSUME Init PROVE \E p, d : Meets(p, d)
      BY DEF MeetInv
  <2>1. "gate" \in DOMAIN eye
      BY <1>1 DEF CountInv
  <2> QED
      BY <2>1, MeetsAtStart DEF Init, AtStart
<1> QED
    BY <1>1, <1>2, Invariant, CountStep, MeetStep, MeetsWhenDone, PTL DEF Spec
-----------------------------------------------------------------------------
(* The eye, typed, and what an inference adds to it.                         *)
LEMMA AbsNat == \A n \in Int : Abs(n) \in Nat /\ Abs(n - n) = 0
BY DEF Abs

(* An observation moves a track and leaves whose it is.                      *)
SameOwner(t, u) == u.camera = t.camera /\ u.cls = t.cls

Marks(cam, k, x, from, p, far, sz, n, m, h, hp) ==
    [camera |-> cam, cls |-> k, at |-> x, first |-> from, path |-> p, disp |-> far,
     sizes |-> sz, n |-> n, matched |-> m, head |-> h, headPath |-> hp]

Remarked(r, p, far, x, sz, n, m, h, hp) ==
    [r EXCEPT !.path = p, !.disp = far, !.at = x, !.sizes = sz, !.n = n, !.matched = m,
              !.head = h, !.headPath = hp]

LEMMA MarksExcept ==
    ASSUME NEW cam, NEW k, NEW x, NEW from, NEW p, NEW far, NEW sz, NEW n, NEW m, NEW h, NEW hp,
           NEW y, NEW q, NEW fq, NEW sq, NEW nq, NEW mq, NEW hq, NEW gq
    PROVE  Remarked(Marks(cam, k, x, from, p, far, sz, n, m, h, hp), q, fq, y, sq, nq, mq, hq, gq)
               = Marks(cam, k, y, from, q, fq, sq, nq, mq, hq, gq)
<1> DEFINE First(r)  == [[[[r EXCEPT !.path = q] EXCEPT !.disp = fq] EXCEPT !.at = y]
                          EXCEPT !.sizes = sq]
           Second(r) == [[[[r EXCEPT !.n = nq] EXCEPT !.matched = mq] EXCEPT !.head = hq]
                          EXCEPT !.headPath = gq]
<1>1. \A r : Remarked(r, q, fq, y, sq, nq, mq, hq, gq) = Second(First(r))
    BY DEF Remarked
<1>2. [Marks(cam, k, x, from, p, far, sz, n, m, h, hp) EXCEPT !.path = q]
          = Marks(cam, k, x, from, q, far, sz, n, m, h, hp)
    BY DEF Marks
<1>3. [Marks(cam, k, x, from, q, far, sz, n, m, h, hp) EXCEPT !.disp = fq]
          = Marks(cam, k, x, from, q, fq, sz, n, m, h, hp)
    BY DEF Marks
<1>4. [Marks(cam, k, x, from, q, fq, sz, n, m, h, hp) EXCEPT !.at = y]
          = Marks(cam, k, y, from, q, fq, sz, n, m, h, hp)
    BY DEF Marks
<1>5. [Marks(cam, k, y, from, q, fq, sz, n, m, h, hp) EXCEPT !.sizes = sq]
          = Marks(cam, k, y, from, q, fq, sq, n, m, h, hp)
    BY DEF Marks
<1>6. [Marks(cam, k, y, from, q, fq, sq, n, m, h, hp) EXCEPT !.n = nq]
          = Marks(cam, k, y, from, q, fq, sq, nq, m, h, hp)
    BY DEF Marks
<1>7. [Marks(cam, k, y, from, q, fq, sq, nq, m, h, hp) EXCEPT !.matched = mq]
          = Marks(cam, k, y, from, q, fq, sq, nq, mq, h, hp)
    BY DEF Marks
<1>8. [Marks(cam, k, y, from, q, fq, sq, nq, mq, h, hp) EXCEPT !.head = hq]
          = Marks(cam, k, y, from, q, fq, sq, nq, mq, hq, hp)
    BY DEF Marks
<1>9. [Marks(cam, k, y, from, q, fq, sq, nq, mq, hq, hp) EXCEPT !.headPath = gq]
          = Marks(cam, k, y, from, q, fq, sq, nq, mq, hq, gq)
    BY DEF Marks
<1>10. First(Marks(cam, k, x, from, p, far, sz, n, m, h, hp))
          = Marks(cam, k, y, from, q, fq, sq, n, m, h, hp)
    BY <1>2, <1>3, <1>4, <1>5
<1>11. Second(Marks(cam, k, y, from, q, fq, sq, n, m, h, hp))
          = Marks(cam, k, y, from, q, fq, sq, nq, mq, hq, gq)
    BY <1>6, <1>7, <1>8, <1>9
<1> HIDE DEF First, Second
<1> QED
    BY <1>1, <1>10, <1>11

LEMMA MovedIs ==
    ASSUME NEW t \in Track, NEW frame \in Nat, NEW at \in Nat, NEW d \in Detection
    PROVE  /\ Moved(t, frame, at, d) \in Track /\ SameOwner(t, Moved(t, frame, at, d))
           /\ Moved(t, frame, at, d).at = d.x /\ Moved(t, frame, at, d).first = t.first
           /\ Moved(t, frame, at, d).path = t.path + Abs(d.x - t.at)
           /\ Moved(t, frame, at, d).disp = Larger(t.disp, Abs(d.x - t.first))
<1> DEFINE step == Abs(d.x - t.at)
           far  == Abs(d.x - t.first)
           head == IF at < HeadFrames THEN 1 ELSE 0
<1>1. /\ t.camera \in Camera /\ t.cls \in Nat /\ t.at \in Int /\ t.first \in Int
      /\ t.path \in Nat /\ t.disp \in Nat /\ t.sizes \in Nat /\ t.n \in Nat
      /\ t.matched \in Nat /\ t.head \in Nat /\ t.headPath \in Nat
    BY DEF Track
<1>2. d.x \in Int /\ d.size \in Nat
    BY DEF Detection
<1>3. step \in Nat /\ far \in Nat
  <2>1. d.x - t.at \in Int /\ d.x - t.first \in Int
      BY <1>1, <1>2
  <2> QED
      BY <2>1, AbsNat
<1>4. head \in Nat /\ head * step \in Nat
  <2>1. head = 0 \/ head = 1
      OBVIOUS
  <2> HIDE DEF head, step
  <2> QED
      BY <1>3, <2>1
<1>5. Larger(t.disp, far) \in Nat
    BY <1>1, <1>3 DEF Larger
<1>6. Moved(t, frame, at, d)
          = Remarked(t, t.path + step, Larger(t.disp, far), d.x, t.sizes + d.size, t.n + 1,
                     frame, t.head + head, t.headPath + head * step)
    BY DEF Moved, Remarked
<1>7. t = Marks(t.camera, t.cls, t.at, t.first, t.path, t.disp, t.sizes, t.n, t.matched,
                t.head, t.headPath)
    BY DEF Track, Marks
<1>8. /\ t.path + step \in Nat /\ t.sizes + d.size \in Nat /\ t.n + 1 \in Nat
      /\ t.head + head \in Nat /\ t.headPath + head * step \in Nat
  <2> HIDE DEF head, step
  <2> DEFINE both == head * step
  <2>1. both \in Nat
      BY <1>4
  <2> HIDE DEF both
  <2>2. t.headPath + both \in Nat
      BY <1>1, <2>1
  <2> QED
      BY <1>1, <1>2, <1>3, <1>4, <2>2 DEF both
<1> HIDE DEF step, far, head
<1> DEFINE p1 == t.path + step
           p2 == Larger(t.disp, far)
           p3 == t.sizes + d.size
           p4 == t.n + 1
           p5 == t.head + head
           p6 == t.headPath + head * step
<1>9. p1 \in Nat /\ p2 \in Nat /\ p3 \in Nat /\ p4 \in Nat /\ p5 \in Nat /\ p6 \in Nat
    BY <1>5, <1>8
<1>10. Moved(t, frame, at, d)
          = Marks(t.camera, t.cls, d.x, t.first, p1, p2, p3, p4, frame, p5, p6)
  <2>1. Moved(t, frame, at, d) = Remarked(t, p1, p2, d.x, p3, p4, frame, p5, p6)
      BY <1>6 DEF p1, p2, p3, p4, p5, p6
  <2> HIDE DEF p1, p2, p3, p4, p5, p6
  <2> QED
      BY <1>7, <2>1, MarksExcept
<1> HIDE DEF p1, p2, p3, p4, p5, p6
<1>11. Moved(t, frame, at, d) \in Track
    BY <1>1, <1>2, <1>9, <1>10 DEF Track, Marks
<1>12. /\ SameOwner(t, Moved(t, frame, at, d))
       /\ Moved(t, frame, at, d).at = d.x /\ Moved(t, frame, at, d).first = t.first
       /\ Moved(t, frame, at, d).path = p1 /\ Moved(t, frame, at, d).disp = p2
    BY <1>10 DEF SameOwner, Marks
<1> QED
    BY <1>11, <1>12 DEF p1, p2, step, far

LEMMA BeginIs ==
    ASSUME NEW c \in Camera, NEW d \in Detection
    PROVE  Begin(c, d) \in Track /\ Begin(c, d).camera = c /\ Begin(c, d).cls = d.cls
           /\ Begin(c, d).at = d.x /\ Begin(c, d).first = d.x
           /\ Begin(c, d).path = 0 /\ Begin(c, d).disp = 0
BY DEF Begin, Track, Detection

(* Among the tracks a detection may join there is a nearest.                 *)
LEMMA NearestJoins ==
    ASSUME NEW e, e.tracks \in Seq(Track), NEW d \in Detection,
           NEW joins \in SUBSET (DOMAIN e.tracks), joins # {}
    PROVE  Nearest(e, joins, d) \in joins
<1> DEFINE far == [t \in joins |-> Abs(d.x - e.tracks[t].at)]
           R == {q \in joins \X joins : far[q[1]] < far[q[2]]
                                        \/ (far[q[1]] = far[q[2]] /\ q[1] <= q[2])}
<1>1. \A t \in joins : t \in Nat /\ far[t] \in Int
  <2> SUFFICES ASSUME NEW t \in joins PROVE t \in Nat /\ far[t] \in Int
      OBVIOUS
  <2>1. t \in 1 .. Len(e.tracks) /\ e.tracks[t] \in Track
      OBVIOUS
  <2>2. d.x \in Int /\ e.tracks[t].at \in Int
      BY <2>1 DEF Track, Detection
  <2>3. d.x - e.tracks[t].at \in Int
      BY <2>2
  <2> QED
      BY <2>1, <2>3, AbsNat
<1>2. IsFiniteSet(joins)
  <2>1. joins \subseteq 1 .. Len(e.tracks) /\ IsFiniteSet(1 .. Len(e.tracks))
      BY FS_Interval
  <2> QED
      BY <2>1, FS_Subset
<1> HIDE DEF far
<1>3. Orders(R, joins)
    BY <1>1 DEF Orders
<1>4. PICK t \in joins : \A u \in joins \ {t} : <<t, u>> \in R
  <2> HIDE DEF R
  <2> QED
      BY <1>2, <1>3, FirstExists
<1>5. ASSUME NEW u \in joins PROVE far[t] < far[u] \/ (far[t] = far[u] /\ t <= u)
  <2>1. CASE u = t
      BY <1>1, <2>1
  <2>2. CASE u # t
    <3>1. <<t, u>> \in R
        BY <1>4, <2>2
    <3> QED
        BY <3>1
  <2> QED
      BY <2>1, <2>2
<1>6. \A u \in joins :
          LET dt == Abs(d.x - e.tracks[t].at)
              du == Abs(d.x - e.tracks[u].at)
          IN  dt < du \/ (dt = du /\ t <= u)
    BY <1>5 DEF far
<1> QED
    BY <1>6 DEF Nearest
-----------------------------------------------------------------------------
(* A vote stands on a track of its camera and class, or on a detection       *)
(* without a box.                                                            *)
Grounds(e, c, k, t) ==
    IF t = 0 THEN <<c, k>> \in e.exempt
    ELSE t \in DOMAIN e.tracks /\ e.tracks[t].camera = c /\ e.tracks[t].cls = k

AllGrounded(e) ==
    \A i \in DOMAIN e.votes : Grounds(e, e.votes[i].camera, e.votes[i].cls, e.votes[i].track)

(* From e to f nothing is taken back, and what is new, or a track that has   *)
(* moved, is camera c's.                                                     *)
TracksAdded(e, f, c) ==
    /\ \A t \in DOMAIN e.tracks : t \in DOMAIN f.tracks /\ SameOwner(e.tracks[t], f.tracks[t])
    /\ \A t \in DOMAIN f.tracks :
          f.tracks[t].camera = c \/ (t \in DOMAIN e.tracks /\ f.tracks[t] = e.tracks[t])

VotesAdded(e, f, c) ==
    /\ \A i \in DOMAIN e.votes : i \in DOMAIN f.votes /\ f.votes[i] = e.votes[i]
    /\ \A i \in DOMAIN f.votes : i \in DOMAIN e.votes \/ f.votes[i].camera = c

Adds(e, f, c) ==
    /\ TracksAdded(e, f, c) /\ VotesAdded(e, f, c)
    /\ e.exempt \subseteq f.exempt /\ \A p \in f.exempt : p \in e.exempt \/ p[1] = c
    /\ \A o \in Camera \ {c} : f.maxPos[o] = e.maxPos[o]

LEMMA AddsSame ==
    ASSUME NEW e, NEW f, NEW c, f.tracks = e.tracks, f.votes = e.votes,
           f.exempt = e.exempt, f.maxPos = e.maxPos
    PROVE  Adds(e, f, c)
<1>1. TracksAdded(e, f, c)
    BY DEF TracksAdded, SameOwner
<1>2. VotesAdded(e, f, c)
    BY DEF VotesAdded
<1> QED
    BY <1>1, <1>2 DEF Adds

LEMMA AddsTwice ==
    ASSUME NEW e, NEW f, NEW g, NEW c, Adds(e, f, c), Adds(f, g, c)
    PROVE  Adds(e, g, c)
<1>1. TracksAdded(e, g, c)
    BY DEF Adds, TracksAdded, SameOwner
<1>2. VotesAdded(e, g, c)
    BY DEF Adds, VotesAdded
<1>3. /\ e.exempt \subseteq g.exempt /\ \A p \in g.exempt : p \in e.exempt \/ p[1] = c
      /\ \A o \in Camera \ {c} : g.maxPos[o] = e.maxPos[o]
    BY DEF Adds
<1> QED
    BY <1>1, <1>2, <1>3 DEF Adds

LEMMA GroundsOn ==
    ASSUME NEW e, NEW f, NEW c, Adds(e, f, c)
    PROVE  \A o, k, t : Grounds(e, o, k, t) => Grounds(f, o, k, t)
BY DEF Adds, TracksAdded, SameOwner, Grounds

(* The places where products of a class were seen, and their tracks, lie     *)
(* still.                                                                    *)
Still(S, k) ==
    \A d, e \in S : d.cls = k /\ e.cls = k =>
        d.box /\ (d.x = e.x \/ 2 * Abs(d.x - e.x) > 3 * MaxJump)

Rests(t, S, k) ==
    /\ t.path = 0 /\ t.disp = 0 /\ t.first = t.at
    /\ \E d \in S : d.cls = k /\ d.x = t.at

Resting(e, c, S, k) ==
    /\ <<c, k>> \notin e.exempt
    /\ \A t \in DOMAIN e.tracks :
          e.tracks[t].camera = c /\ e.tracks[t].cls = k => Rests(e.tracks[t], S, k)

LEMMA EyeFields ==
    ASSUME NEW e \in Eye
    PROVE  /\ e.hands \in [Camera -> Seq(Detection)] /\ e.tracks \in Seq(Track)
           /\ e.frame \in [Camera -> Nat] /\ e.maxPos \in [Camera -> Int]
           /\ e.exempt \in SUBSET (Camera \X Nat) /\ e.votes \in Seq(Vote)
           /\ e.gate \in [Camera -> Nat] /\ e.inHand \in [Camera -> Nat]
           /\ "gate" \in DOMAIN e
BY DEF Eye

Looked(e, ts, mp) == [e EXCEPT !.tracks = ts, !.maxPos = mp]
Spared(e, x)      == [e EXCEPT !.exempt = x]

LEMMA LookedIs ==
    ASSUME NEW e \in Eye, NEW ts \in Seq(Track), NEW mp \in [Camera -> Int]
    PROVE  /\ Looked(e, ts, mp) \in Eye
           /\ Looked(e, ts, mp).tracks = ts /\ Looked(e, ts, mp).maxPos = mp
           /\ Looked(e, ts, mp).votes = e.votes /\ Looked(e, ts, mp).exempt = e.exempt
<1> DEFINE f == [e EXCEPT !.tracks = ts]
           g == [f EXCEPT !.maxPos = mp]
<1>1. Looked(e, ts, mp) = g
    BY DEF Looked
<1>2. f \in Eye /\ f.tracks = ts /\ f.votes = e.votes /\ f.exempt = e.exempt
    BY DEF Eye
<1> HIDE DEF f
<1>3. g \in Eye /\ g.maxPos = mp /\ g.tracks = f.tracks /\ g.votes = f.votes
      /\ g.exempt = f.exempt
    BY <1>2 DEF Eye
<1> HIDE DEF g
<1> QED
    BY <1>1, <1>2, <1>3

LEMMA SparedIs ==
    ASSUME NEW e \in Eye, NEW x \in SUBSET (Camera \X Nat)
    PROVE  /\ Spared(e, x) \in Eye /\ Spared(e, x).exempt = x
           /\ Spared(e, x).tracks = e.tracks /\ Spared(e, x).maxPos = e.maxPos
           /\ Spared(e, x).votes = e.votes
BY DEF Spared, Eye

(* The track an observation joins or begins, before it has moved.            *)
Before(e, c, frame, d) ==
    IF Joins(e, c, frame, d) = {} THEN Append(e.tracks, Begin(c, d)) ELSE e.tracks
Place(e, c, frame, d) ==
    IF Joins(e, c, frame, d) = {} THEN Len(e.tracks) + 1 ELSE Nearest(e, Joins(e, c, frame, d), d)
After(e, c, frame, at, d) ==
    [Before(e, c, frame, d) EXCEPT
        ![Place(e, c, frame, d)] =
            Moved(Before(e, c, frame, d)[Place(e, c, frame, d)], frame, at, d)]

IsBefore(e, c, frame, d, old, t) ==
    /\ old \in Seq(Track) /\ t \in DOMAIN old /\ t \in Nat \ {0}
    /\ old[t].camera = c /\ old[t].cls = d.cls
    /\ \A u \in DOMAIN e.tracks : u \in DOMAIN old /\ old[u] = e.tracks[u]
    /\ \A u \in DOMAIN old : u \in DOMAIN e.tracks \/ u = t
    /\ \/ old[t] = Begin(c, d)
       \/ t \in DOMAIN e.tracks /\ t \in Joins(e, c, frame, d)

IsAfter(old, new, t, m) ==
    /\ new \in Seq(Track) /\ DOMAIN new = DOMAIN old /\ new[t] = m
    /\ SameOwner(old[t], new[t])
    /\ \A u \in DOMAIN old : u # t => new[u] = old[u]

LEMMA BeforeIs ==
    ASSUME NEW e \in Eye, NEW c \in Camera, NEW frame, NEW d \in Detection
    PROVE  IsBefore(e, c, frame, d, Before(e, c, frame, d), Place(e, c, frame, d))
<1> DEFINE joins == Joins(e, c, frame, d)
           old   == Before(e, c, frame, d)
           t     == Place(e, c, frame, d)
<1>1. e.tracks \in Seq(Track)
    BY EyeFields
<1>2. joins \in SUBSET (DOMAIN e.tracks)
      /\ \A u \in joins : e.tracks[u].camera = c /\ e.tracks[u].cls = d.cls
    BY DEF Joins
<1>3. CASE joins = {}
  <2>1. old = Append(e.tracks, Begin(c, d)) /\ t = Len(e.tracks) + 1
      BY <1>3 DEF Before, Place
  <2>2. Begin(c, d) \in Track /\ Begin(c, d).camera = c /\ Begin(c, d).cls = d.cls
      BY BeginIs
  <2> HIDE DEF old, t, joins
  <2>3. /\ old \in Seq(Track) /\ Len(old) = Len(e.tracks) + 1 /\ old[t] = Begin(c, d)
        /\ \A u \in 1 .. Len(e.tracks) : old[u] = e.tracks[u]
      BY <1>1, <2>1, <2>2
  <2> QED
      BY <1>1, <2>1, <2>2, <2>3 DEF old, t, IsBefore
<1>4. CASE joins # {}
  <2>1. old = e.tracks /\ t = Nearest(e, joins, d)
      BY <1>4 DEF Before, Place
  <2> HIDE DEF old, t, joins
  <2>2. t \in joins
      BY <1>1, <1>2, <1>4, <2>1, NearestJoins
  <2>3. t \in DOMAIN e.tracks /\ old[t].camera = c /\ old[t].cls = d.cls
      BY <1>2, <2>1, <2>2
  <2>4. t \in Nat \ {0}
      BY <1>1, <2>3
  <2> QED
      BY <1>1, <2>1, <2>2, <2>3, <2>4 DEF old, t, joins, IsBefore
<1> QED
    BY <1>3, <1>4

LEMMA AfterIs ==
    ASSUME NEW e \in Eye, NEW c \in Camera, NEW frame \in Nat, NEW at \in Nat,
           NEW d \in Detection
    PROVE  IsAfter(Before(e, c, frame, d), After(e, c, frame, at, d), Place(e, c, frame, d),
                   Moved(Before(e, c, frame, d)[Place(e, c, frame, d)], frame, at, d))
<1> DEFINE old == Before(e, c, frame, d)
           new == After(e, c, frame, at, d)
           t   == Place(e, c, frame, d)
           m   == Moved(old[t], frame, at, d)
<1>1. old \in Seq(Track) /\ t \in DOMAIN old
    BY BeforeIs DEF IsBefore
<1>2. new = [old EXCEPT ![t] = m]
    BY DEF After
<1> HIDE DEF old, new, t, m
<1>3. old[t] \in Track
    BY <1>1
<1>4. m \in Track /\ SameOwner(old[t], m)
    BY <1>3, MovedIs DEF m
<1>5. IsAfter(old, new, t, m)
    BY <1>1, <1>2, <1>4 DEF IsAfter
<1> QED
    BY <1>5 DEF old, new, t, m

Furthest(e, c, at) == [e.maxPos EXCEPT ![c] = Larger(e.maxPos[c], at)]
WithBox(e, c, frame, at, d) == Looked(e, After(e, c, frame, at, d), Furthest(e, c, at))
Unboxed(e, c, d)            == Spared(e, e.exempt \cup {<<c, d.cls>>})

LEMMA OneHand ==
    ASSUME NEW e, NEW c, NEW frame, NEW at, NEW d, d.hand
    PROVE  /\ ObserveOne(e, c, frame, at, d).eye = e
           /\ ObserveOne(e, c, frame, at, d).track = 0
BY DEF ObserveOne

LEMMA OneUnboxed ==
    ASSUME NEW e, NEW c, NEW frame, NEW at, NEW d, ~d.hand, ~d.box
    PROVE  /\ ObserveOne(e, c, frame, at, d).eye = Unboxed(e, c, d)
           /\ ObserveOne(e, c, frame, at, d).track = 0
BY DEF ObserveOne, Unboxed, Spared

LEMMA OneBoxed ==
    ASSUME NEW e, NEW c, NEW frame, NEW at, NEW d, ~d.hand, d.box
    PROVE  /\ ObserveOne(e, c, frame, at, d).eye = WithBox(e, c, frame, at, d)
           /\ ObserveOne(e, c, frame, at, d).track = Place(e, c, frame, d)
<1> DEFINE t    == Place(e, c, frame, d)
           eyes == WithBox(e, c, frame, at, d)
<1>1. ObserveOne(e, c, frame, at, d) = [eye |-> eyes, track |-> t]
    BY DEF ObserveOne, WithBox, Looked, After, Before, Place, Furthest
<1> HIDE DEF t, eyes
<1>2. ObserveOne(e, c, frame, at, d).eye = eyes /\ ObserveOne(e, c, frame, at, d).track = t
    BY <1>1
<1> QED
    BY <1>2 DEF t, eyes

LEMMA UnboxedIs ==
    ASSUME NEW e \in Eye, NEW c \in Camera, NEW d \in Detection
    PROVE  /\ Unboxed(e, c, d) \in Eye
           /\ Unboxed(e, c, d).exempt = e.exempt \cup {<<c, d.cls>>}
           /\ Unboxed(e, c, d).tracks = e.tracks /\ Unboxed(e, c, d).maxPos = e.maxPos
           /\ Unboxed(e, c, d).votes = e.votes
<1>1. e.exempt \cup {<<c, d.cls>>} \in SUBSET (Camera \X Nat)
    BY EyeFields DEF Detection
<1> QED
    BY <1>1, SparedIs DEF Unboxed

LEMMA BoxedIs ==
    ASSUME NEW e \in Eye, NEW c \in Camera, NEW frame \in Nat, NEW at \in Nat,
           NEW d \in Detection
    PROVE  /\ WithBox(e, c, frame, at, d) \in Eye
           /\ WithBox(e, c, frame, at, d).tracks = After(e, c, frame, at, d)
           /\ WithBox(e, c, frame, at, d).votes = e.votes
           /\ WithBox(e, c, frame, at, d).exempt = e.exempt
           /\ \A o \in Camera \ {c} : WithBox(e, c, frame, at, d).maxPos[o] = e.maxPos[o]
<1> DEFINE ts == After(e, c, frame, at, d)
           mp == Furthest(e, c, at)
<1>1. ts \in Seq(Track)
    BY AfterIs DEF IsAfter
<1>2. mp \in [Camera -> Int] /\ \A o \in Camera \ {c} : mp[o] = e.maxPos[o]
  <2>1. e.maxPos \in [Camera -> Int]
      BY EyeFields
  <2>2. Larger(e.maxPos[c], at) \in Int
    <3>1. e.maxPos[c] \in Int
        BY <2>1
    <3> QED
        BY <3>1 DEF Larger
  <2> QED
      BY <2>1, <2>2 DEF Furthest
<1> HIDE DEF ts, mp
<1>3. /\ Looked(e, ts, mp) \in Eye /\ Looked(e, ts, mp).tracks = ts
      /\ Looked(e, ts, mp).maxPos = mp /\ Looked(e, ts, mp).votes = e.votes
      /\ Looked(e, ts, mp).exempt = e.exempt
    BY <1>1, <1>2, LookedIs
<1>4. WithBox(e, c, frame, at, d) = Looked(e, ts, mp)
    BY DEF WithBox, ts, mp
<1> HIDE DEF ts, mp
<1>5. After(e, c, frame, at, d) = ts
    BY DEF ts
<1> QED
    BY <1>2, <1>3, <1>4, <1>5

Attributes(e, c, d, one) ==
    /\ one.eye \in Eye /\ one.track \in Nat /\ one.eye.votes = e.votes
    /\ Adds(e, one.eye, c)
    /\ d.hand \/ Grounds(one.eye, c, d.cls, one.track)

(* One detection: the eye stays an eye, adds to what it was, and knows why   *)
(* a vote for the detection would count.                                     *)
LEMMA OneAdds ==
    ASSUME NEW e \in Eye, NEW c \in Camera, NEW frame \in Nat, NEW at \in Nat,
           NEW d \in Detection
    PROVE  Attributes(e, c, d, ObserveOne(e, c, frame, at, d))
<1> DEFINE one == ObserveOne(e, c, frame, at, d)
<1>1. CASE d.hand
  <2>1. one.eye = e /\ one.track = 0
      BY <1>1, OneHand
  <2>2. Adds(e, e, c)
      BY AddsSame
  <2>3. e.votes = e.votes /\ 0 \in Nat
      OBVIOUS
  <2> HIDE DEF one
  <2>4. Attributes(e, c, d, one)
      BY <1>1, <2>1, <2>2, <2>3 DEF Attributes
  <2> QED
      BY <2>4 DEF one
<1>2. CASE ~d.hand /\ ~d.box
  <2> DEFINE f == Unboxed(e, c, d)
  <2>1. one.eye = f /\ one.track = 0
      BY <1>2, OneUnboxed
  <2>2. /\ f \in Eye /\ f.exempt = e.exempt \cup {<<c, d.cls>>} /\ f.tracks = e.tracks
        /\ f.maxPos = e.maxPos /\ f.votes = e.votes
      BY UnboxedIs
  <2> HIDE DEF f
  <2>3. TracksAdded(e, f, c) /\ VotesAdded(e, f, c)
      BY <2>2 DEF TracksAdded, VotesAdded, SameOwner
  <2>4. e.exempt \subseteq f.exempt /\ \A p \in f.exempt : p \in e.exempt \/ p[1] = c
      BY <2>2
  <2>5. Adds(e, f, c)
      BY <2>2, <2>3, <2>4 DEF Adds
  <2>6. Grounds(f, c, d.cls, 0)
      BY <2>2 DEF Grounds
  <2> HIDE DEF one
  <2>7. /\ one.eye \in Eye /\ one.track \in Nat /\ one.eye.votes = e.votes
        /\ Adds(e, one.eye, c) /\ Grounds(one.eye, c, d.cls, one.track)
      BY <2>1, <2>2, <2>5, <2>6
  <2>8. Attributes(e, c, d, one)
      BY <2>7 DEF Attributes
  <2> QED
      BY <2>8 DEF one
<1>3. CASE ~d.hand /\ d.box
  <2> DEFINE ts  == After(e, c, frame, at, d)
             t   == Place(e, c, frame, d)
             old == Before(e, c, frame, d)
             m   == Moved(old[t], frame, at, d)
             f   == WithBox(e, c, frame, at, d)
  <2>1. one.eye = f /\ one.track = t
      BY <1>3, OneBoxed
  <2>2. IsBefore(e, c, frame, d, old, t) /\ IsAfter(old, ts, t, m)
      BY BeforeIs, AfterIs
  <2>3. /\ f \in Eye /\ f.tracks = ts /\ f.votes = e.votes /\ f.exempt = e.exempt
        /\ \A o \in Camera \ {c} : f.maxPos[o] = e.maxPos[o]
      BY BoxedIs
  <2> HIDE DEF f, ts, m, t, old
  <2>4. TracksAdded(e, f, c)
    <3>1. ASSUME NEW u \in DOMAIN e.tracks
          PROVE  u \in DOMAIN f.tracks /\ SameOwner(e.tracks[u], f.tracks[u])
        BY <2>2, <2>3 DEF SameOwner, IsBefore, IsAfter
    <3>2. ASSUME NEW u \in DOMAIN f.tracks
          PROVE  f.tracks[u].camera = c \/ (u \in DOMAIN e.tracks /\ f.tracks[u] = e.tracks[u])
        BY <2>2, <2>3 DEF SameOwner, IsBefore, IsAfter
    <3> QED
        BY <3>1, <3>2 DEF TracksAdded
  <2>5. Adds(e, f, c)
      BY <2>3, <2>4 DEF Adds, VotesAdded
  <2>6. Grounds(f, c, d.cls, t) /\ t \in Nat
      BY <2>2, <2>3 DEF Grounds, IsBefore, IsAfter, SameOwner
  <2> HIDE DEF one
  <2>7. /\ one.eye \in Eye /\ one.track \in Nat /\ one.eye.votes = e.votes
        /\ Adds(e, one.eye, c) /\ Grounds(one.eye, c, d.cls, one.track)
      BY <2>1, <2>3, <2>5, <2>6
  <2>8. Attributes(e, c, d, one)
      BY <2>7 DEF Attributes
  <2> QED
      BY <2>8 DEF one
<1> QED
    BY <1>1, <1>2, <1>3 DEF one

(* A sighting in reach of a track that lies still, is where the track is.    *)
LEMMA SamePlace ==
    ASSUME NEW t \in Track, NEW d \in Detection, NEW S \in SUBSET Detection, d \in S,
           MaxJump \in Nat, Still(S, d.cls), Rests(t, S, d.cls), NEW gap,
           2 * Abs(d.x - t.at) <= Reach(gap)
    PROVE  t.at = d.x
<1>1. PICK s \in S : s.cls = d.cls /\ s.x = t.at
    BY DEF Rests
<1> DEFINE far == Abs(d.x - s.x)
           r   == Reach(gap)
<1>2. far \in Int
  <2>1. s.x \in Int /\ d.x \in Int
      BY DEF Detection
  <2>2. d.x - s.x \in Int
      BY <2>1
  <2> QED
      BY <2>2, AbsNat
<1>3. r \in {2 * MaxJump, 3 * MaxJump} /\ 2 * far <= r
    BY <1>1 DEF Reach
<1>4. far > 0 \/ d.x = s.x
    BY DEF Abs, Detection
<1>5. ~(2 * far > 3 * MaxJump)
  <2> HIDE DEF far, r
  <2> QED
      BY <1>2, <1>3
<1>6. d.x = s.x
    BY <1>1, <1>5 DEF Still
<1> QED
    BY <1>1, <1>6

(* A detection joins a track of its class only in its own place, when all of *)
(* the class lie still, and so does not move it.                             *)
LEMMA OneRests ==
    ASSUME NEW e \in Eye, NEW c \in Camera, NEW frame \in Nat, NEW at \in Nat,
           NEW d \in Detection, NEW S \in SUBSET Detection, d.hand \/ d \in S,
           NEW k, MaxJump \in Nat, Still(S, k), Resting(e, c, S, k)
    PROVE  Resting(ObserveOne(e, c, frame, at, d).eye, c, S, k)
<1> DEFINE one == ObserveOne(e, c, frame, at, d)
<1>1. CASE d.hand
  <2>1. one.eye = e
      BY <1>1, OneHand
  <2> QED
      BY <2>1
<1>2. CASE ~d.hand /\ ~d.box
  <2> DEFINE f == Unboxed(e, c, d)
  <2>1. one.eye = f
      BY <1>2, OneUnboxed
  <2>2. f.exempt = e.exempt \cup {<<c, d.cls>>} /\ f.tracks = e.tracks
      BY UnboxedIs
  <2>3. d.cls # k
      BY <1>2 DEF Still
  <2> HIDE DEF f
  <2>4. <<c, k>> \notin f.exempt
      BY <2>2, <2>3 DEF Resting
  <2>5. Resting(f, c, S, k)
      BY <2>2, <2>4 DEF Resting
  <2> QED
      BY <2>1, <2>5
<1>3. CASE ~d.hand /\ d.box
  <2> DEFINE ts  == After(e, c, frame, at, d)
             t   == Place(e, c, frame, d)
             old == Before(e, c, frame, d)
             m   == Moved(old[t], frame, at, d)
             f   == WithBox(e, c, frame, at, d)
  <2>1. one.eye = f
      BY <1>3, OneBoxed
  <2>2. IsBefore(e, c, frame, d, old, t) /\ IsAfter(old, ts, t, m)
      BY BeforeIs, AfterIs
  <2>3. f.tracks = ts /\ f.exempt = e.exempt
      BY BoxedIs
  <2> HIDE DEF f, ts, t, old
  <2>4. old[t] \in Track
      BY <2>2 DEF IsBefore
  <2>5. /\ m.at = d.x /\ m.first = old[t].first
        /\ m.path = old[t].path + Abs(d.x - old[t].at)
        /\ m.disp = Larger(old[t].disp, Abs(d.x - old[t].first))
      BY <2>4, MovedIs
  <2> HIDE DEF m
  <2>6. ASSUME d.cls = k PROVE Rests(m, S, k)
    <3>1. d \in S
        BY <1>3
    <3>2. old[t].path = 0 /\ old[t].disp = 0 /\ old[t].first = old[t].at /\ old[t].at = d.x
      <4>1. CASE old[t] = Begin(c, d)
          BY <4>1, BeginIs
      <4>2. CASE t \in DOMAIN e.tracks /\ t \in Joins(e, c, frame, d)
        <5>1. old[t] = e.tracks[t] /\ e.tracks[t].camera = c /\ e.tracks[t].cls = k
            BY <2>2, <2>6, <4>2 DEF IsBefore
        <5>2. Rests(old[t], S, d.cls)
            BY <2>6, <4>2, <5>1 DEF Resting
        <5>3. 2 * Abs(d.x - old[t].at) <= Reach(frame - old[t].matched)
            BY <4>2, <5>1 DEF Joins
        <5>4. old[t].at = d.x
            BY <2>4, <2>6, <3>1, <5>2, <5>3, SamePlace
        <5> QED
            BY <5>2, <5>4 DEF Rests
      <4> QED
          BY <2>2, <4>1, <4>2 DEF IsBefore
    <3>3. Abs(d.x - old[t].at) = 0 /\ Abs(d.x - old[t].first) = 0
      <4>1. Abs(d.x - d.x) = 0
          BY AbsNat DEF Detection
      <4> QED
          BY <3>2, <4>1
    <3>4. m.path = 0 /\ m.disp = 0 /\ m.first = d.x
        BY <2>5, <3>2, <3>3 DEF Larger
    <3> QED
        BY <2>5, <2>6, <3>1, <3>4 DEF Rests
  <2>7. ASSUME NEW u \in DOMAIN ts, ts[u].camera = c, ts[u].cls = k
        PROVE  Rests(ts[u], S, k)
    <3>1. CASE u = t
      <4>1. d.cls = k
          BY <2>2, <2>7, <3>1 DEF IsBefore, IsAfter, SameOwner
      <4> QED
          BY <2>2, <2>6, <3>1, <4>1 DEF IsAfter
    <3>2. CASE u # t
      <4>1. u \in DOMAIN e.tracks /\ ts[u] = e.tracks[u]
          BY <2>2, <3>2 DEF IsBefore, IsAfter
      <4> QED
          BY <2>7, <4>1 DEF Resting
    <3> QED
        BY <3>1, <3>2
  <2>8. Resting(f, c, S, k)
      BY <2>3, <2>7 DEF Resting
  <2> QED
      BY <2>1, <2>8
<1> QED
    BY <1>1, <1>2, <1>3
-----------------------------------------------------------------------------
(* Every vote that a frame may cast has its ground.                          *)
Tagged(e, c, detections, tags, n) ==
    /\ tags \in Seq(Nat) /\ Len(tags) = n
    /\ \A i \in 1 .. n : detections[i].hand \/ Grounds(e, c, detections[i].cls, tags[i])

Shows(detections, S) == \A i \in DOMAIN detections : detections[i].hand \/ detections[i] \in S

(* What lies still for e does for f.                                         *)
StaysAtRest(e, f, c, S) ==
    MaxJump \in Nat => \A k : Still(S, k) /\ Resting(e, c, S, k) => Resting(f, c, S, k)

Tracked(e, c, detections, S, acc, n) ==
    /\ acc.eye \in Eye /\ acc.eye.votes = e.votes /\ Adds(e, acc.eye, c)
    /\ Tagged(acc.eye, c, detections, acc.tracks, n)
    /\ StaysAtRest(e, acc.eye, c, S)

LEMMA JoinedTracks ==
    ASSUME NEW e \in Eye, NEW c \in Camera, NEW frame \in Nat, NEW at \in Nat,
           NEW detections \in Seq(Detection), NEW S \in SUBSET Detection, Shows(detections, S),
           NEW n \in 1 .. Len(detections), NEW acc,
           Tracked(e, c, detections, S, acc, n - 1)
    PROVE  Tracked(e, c, detections, S, Joined(c, frame, at, acc, detections[n]), n)
<1> DEFINE d   == detections[n]
           one == ObserveOne(acc.eye, c, frame, at, d)
           f   == one.eye
           new == one.track
           old == acc.tracks
           tags == Append(old, new)
<1>1. d \in Detection /\ (d.hand \/ d \in S) /\ n \in Nat /\ n - 1 \in Nat
    BY DEF Shows
<1>2. acc.eye \in Eye
    BY DEF Tracked
<1>3. /\ f \in Eye /\ new \in Nat /\ f.votes = acc.eye.votes /\ Adds(acc.eye, f, c)
      /\ d.hand \/ Grounds(f, c, d.cls, new)
  <2> HIDE DEF d
  <2>1. Attributes(acc.eye, c, d, one)
      BY <1>1, <1>2, OneAdds
  <2> QED
      BY <2>1 DEF Attributes
<1>4. \A k : MaxJump \in Nat /\ Still(S, k) /\ Resting(acc.eye, c, S, k) => Resting(f, c, S, k)
    BY <1>1, <1>2, OneRests
<1>5. Joined(c, frame, at, acc, d) = [eye |-> f, tracks |-> tags]
    BY DEF Joined
<1> HIDE DEF d, one, f, new
<1>6. Adds(e, f, c) /\ f.votes = e.votes
    BY <1>3, AddsTwice DEF Tracked
<1>7. Tagged(f, c, detections, tags, n)
  <2>1. old \in Seq(Nat) /\ Len(old) = n - 1
      BY DEF Tracked, Tagged
  <2>2. tags \in Seq(Nat) /\ Len(tags) = n /\ tags[n] = new
        /\ \A i \in 1 .. n - 1 : tags[i] = old[i]
      BY <1>1, <1>3, <2>1
  <2> HIDE DEF tags, old
  <2>3. ASSUME NEW i \in 1 .. n - 1
        PROVE  detections[i].hand \/ Grounds(f, c, detections[i].cls, tags[i])
    <3>1. detections[i].hand \/ Grounds(acc.eye, c, detections[i].cls, old[i])
        BY DEF Tracked, Tagged, old
    <3> QED
        BY <1>3, <2>2, <3>1, GroundsOn
  <2>4. detections[n].hand \/ Grounds(f, c, detections[n].cls, tags[n])
      BY <1>3, <2>2 DEF d
  <2>5. \A i \in 1 .. n : i \in 1 .. n - 1 \/ i = n
      BY <1>1
  <2> QED
      BY <2>2, <2>3, <2>4, <2>5 DEF Tagged
<1>8. StaysAtRest(e, f, c, S)
    BY <1>4 DEF Tracked, StaysAtRest
<1> HIDE DEF tags
<1>9. Joined(c, frame, at, acc, d).eye = f /\ Joined(c, frame, at, acc, d).tracks = tags
    BY <1>5
<1>10. Tracked(e, c, detections, S, Joined(c, frame, at, acc, d), n)
    BY <1>3, <1>6, <1>7, <1>8, <1>9 DEF Tracked
<1> QED
    BY <1>10 DEF d

Sat(e, c) == [e EXCEPT !.frame[c] = e.frame[c] + 1]

LEMMA SatIs ==
    ASSUME NEW e \in Eye, NEW c \in Camera
    PROVE  /\ Sat(e, c) \in Eye /\ Sat(e, c).tracks = e.tracks /\ Sat(e, c).votes = e.votes
           /\ Sat(e, c).exempt = e.exempt /\ Sat(e, c).maxPos = e.maxPos
           /\ e.frame[c] + 1 \in Nat
<1> DEFINE new == [e.frame EXCEPT ![c] = e.frame[c] + 1]
<1>1. e.frame \in [Camera -> Nat]
    BY EyeFields
<1>2. e.frame[c] + 1 \in Nat /\ new \in [Camera -> Nat]
    BY <1>1
<1>3. Sat(e, c) = [e EXCEPT !.frame = new]
    BY DEF Sat
<1> HIDE DEF new
<1> QED
    BY <1>2, <1>3 DEF Eye

LEMMA ObserveTracks ==
    ASSUME NEW e \in Eye, NEW c \in Camera, NEW at \in Nat,
           NEW detections \in Seq(Detection), NEW S \in SUBSET Detection, Shows(detections, S)
    PROVE  Tracked(e, c, detections, S, Observe(e, c, at, detections), Len(detections))
<1> DEFINE n     == Len(detections)
           frame == e.frame[c] + 1
           w     == Looks(c, frame, at, detections)
           base  == [eye |-> Sat(e, c), tracks |-> <<>>]
<1>1. n \in Nat /\ frame \in Nat
    BY SatIs
<1>2. Observe(e, c, at, detections) = Fold(n, w, base)
    BY ObserveIs DEF Sat
<1>3. Tracked(e, c, detections, S, base, 0)
  <2>1. base.eye = Sat(e, c) /\ base.tracks = <<>>
      OBVIOUS
  <2> HIDE DEF base
  <2>2. /\ base.eye \in Eye /\ base.eye.tracks = e.tracks /\ base.eye.votes = e.votes
        /\ base.eye.exempt = e.exempt /\ base.eye.maxPos = e.maxPos
      BY <2>1, SatIs
  <2>3. Adds(e, base.eye, c)
      BY <2>2, AddsSame
  <2>4. Tagged(base.eye, c, detections, base.tracks, 0)
      BY <2>1 DEF Tagged
  <2>5. StaysAtRest(e, base.eye, c, S)
      BY <2>2 DEF StaysAtRest, Resting
  <2> QED
      BY <2>2, <2>3, <2>4, <2>5 DEF Tracked
<1>4. \A acc, k : Turn(w, acc, k) = Joined(c, frame, at, acc, detections[k])
    BY DEF Turn, Looks
<1> HIDE DEF frame, w, base
<1>5. PICK t : Course(t, n, w, base) /\ t[n] = Fold(n, w, base)
    BY <1>1, FoldCourse
<1> DEFINE good == {k \in 0 .. n : Tracked(e, c, detections, S, t[k], k)}
<1>6. 0 \in good
    BY <1>1, <1>3, <1>5 DEF Course
<1>7. ASSUME NEW k \in 1 .. n, k - 1 \in good PROVE k \in good
  <2>1. t[k] = Joined(c, frame, at, t[k - 1], detections[k]) /\ k \in 0 .. n
      BY <1>1, <1>4, <1>5 DEF Course
  <2>2. Tracked(e, c, detections, S, t[k - 1], k - 1)
      BY <1>7
  <2>3. Tracked(e, c, detections, S, Joined(c, frame, at, t[k - 1], detections[k]), k)
      BY <1>1, <2>2, JoinedTracks
  <2> QED
      BY <2>1, <2>3
<1>8. \A k \in 0 .. n : k \in good
  <2> HIDE DEF good
  <2> QED
      BY <1>1, <1>6, <1>7, Upward
<1>9. n \in good
    BY <1>1, <1>8
<1> QED
    BY <1>2, <1>5, <1>9
-----------------------------------------------------------------------------
(* The votes of a frame, cast one after the other.                           *)
LEMMA VotesAre ==
    ASSUME NEW e, "votes" \in DOMAIN e, NEW c, NEW detections \in Seq(Detection), NEW tags,
           NEW handAbout
    PROVE  AddFrame(e, c, detections, tags, handAbout).votes
               = Fold(Len(detections), Ballots(c, detections, tags), e.votes)
<1> DEFINE n     == Len(detections)
           base  == e.votes
           w     == Ballots(c, detections, tags)
           order == [i \in 1 .. n |-> i]
           A(g)  == [s \in SUBSET (1 .. n) |->
                        IF s = {} THEN base
                        ELSE Cast(c, detections[order[Max(s)]], tags[order[Max(s)]], g[s \ {Max(s)}])]
           B(g)  == [s \in SUBSET (1 .. n) |->
                        IF s = {} THEN base ELSE Turn(w, g[s \ {Max(s)}], Max(s))]
<1>1. n \in Nat /\ DOMAIN order = 1 .. n
    OBVIOUS
<1>2. AddFrame(e, c, detections, tags, handAbout).votes = (CHOOSE g : g = A(g))[1 .. n]
    BY <1>1 DEF AddFrame, FoldLeft, MapThenFoldSet, Cast
<1>3. Fold(n, w, base) = (CHOOSE g : g = B(g))[1 .. n]
    BY DEF Fold, Turns
<1>4. \A acc, k : Turn(w, acc, k) = Cast(c, detections[k], tags[k], acc)
    BY DEF Turn, Ballots
<1>5. \A s \in SUBSET (1 .. n) : s # {} => order[Max(s)] = Max(s)
    BY <1>1, LastOf
<1>6. ASSUME NEW g PROVE A(g) = B(g)
  <2> HIDE DEF w, base, order, n
  <2> QED
      BY <1>4, <1>5
<1>7. (CHOOSE g : g = A(g)) = (CHOOSE g : g = B(g))
  <2> HIDE DEF A, B
  <2> QED
      BY <1>6
<1> HIDE DEF A, B
<1> QED
    BY <1>2, <1>3, <1>7

(* votes continue e's, by votes of camera c that have their ground.          *)
Continues(e, c, votes) ==
    /\ votes \in Seq(Vote)
    /\ \A i \in DOMAIN e.votes : i \in DOMAIN votes /\ votes[i] = e.votes[i]
    /\ \A i \in DOMAIN votes :
          \/ i \in DOMAIN e.votes
          \/ votes[i].camera = c /\ Grounds(e, c, votes[i].cls, votes[i].track)

LEMMA CastContinues ==
    ASSUME NEW e \in Eye, NEW c \in Camera, NEW d \in Detection, NEW tag \in Nat,
           d.hand \/ Grounds(e, c, d.cls, tag), NEW votes, Continues(e, c, votes)
    PROVE  Continues(e, c, Cast(c, d, tag, votes))
<1> DEFINE v    == [camera |-> c, cls |-> d.cls, conf |-> d.conf, track |-> tag]
           more == Append(votes, v)
<1>1. v \in Vote /\ v.camera = c /\ v.cls = d.cls /\ v.track = tag
    BY DEF Vote, Detection
<1>2. Cast(c, d, tag, votes) = IF d.hand \/ d.conf < EntryConf[c] THEN votes ELSE more
    BY DEF Cast
<1> HIDE DEF v
<1>3. votes \in Seq(Vote)
    BY DEF Continues
<1>4. /\ more \in Seq(Vote) /\ more[Len(votes) + 1] = v
      /\ DOMAIN more = 1 .. Len(votes) + 1 /\ DOMAIN votes = 1 .. Len(votes)
      /\ Len(votes) \in Nat
      /\ \A i \in 1 .. Len(votes) : more[i] = votes[i]
    BY <1>1, <1>3
<1> HIDE DEF more
<1>5. ASSUME ~d.hand PROVE Continues(e, c, more)
  <2>1. ASSUME NEW i \in DOMAIN more
        PROVE  \/ i \in DOMAIN e.votes
               \/ more[i].camera = c /\ Grounds(e, c, more[i].cls, more[i].track)
    <3>1. CASE i \in DOMAIN votes
      <4>1. more[i] = votes[i]
          BY <1>4, <3>1
      <4> QED
          BY <3>1, <4>1 DEF Continues
    <3>2. CASE i \notin DOMAIN votes
      <4>1. i = Len(votes) + 1
          BY <1>4, <3>2
      <4> QED
          BY <1>1, <1>4, <1>5, <4>1
    <3> QED
        BY <3>1, <3>2
  <2>2. \A i \in DOMAIN e.votes : i \in DOMAIN more /\ more[i] = e.votes[i]
    <3>1. \A i \in DOMAIN votes : i \in DOMAIN more /\ more[i] = votes[i]
        BY <1>4
    <3> QED
        BY <3>1 DEF Continues
  <2> QED
      BY <1>4, <2>1, <2>2 DEF Continues
<1> QED
    BY <1>2, <1>5

LEMMA VotesContinue ==
    ASSUME NEW e \in Eye, NEW c \in Camera, NEW detections \in Seq(Detection), NEW tags,
           Tagged(e, c, detections, tags, Len(detections)), NEW handAbout
    PROVE  Continues(e, c, AddFrame(e, c, detections, tags, handAbout).votes)
<1> DEFINE n == Len(detections)
           w == Ballots(c, detections, tags)
<1>1. n \in Nat /\ e.votes \in Seq(Vote) /\ "votes" \in DOMAIN e
    BY EyeFields DEF Eye
<1>2. AddFrame(e, c, detections, tags, handAbout).votes = Fold(n, w, e.votes)
    BY <1>1, VotesAre
<1>3. Continues(e, c, e.votes)
    BY <1>1 DEF Continues
<1>4. \A acc, k : Turn(w, acc, k) = Cast(c, detections[k], tags[k], acc)
    BY DEF Turn, Ballots
<1> HIDE DEF w
<1>5. PICK t : Course(t, n, w, e.votes) /\ t[n] = Fold(n, w, e.votes)
    BY <1>1, FoldCourse
<1> DEFINE good == {k \in 0 .. n : Continues(e, c, t[k])}
<1>6. 0 \in good
    BY <1>1, <1>3, <1>5 DEF Course
<1>7. ASSUME NEW k \in 1 .. n, k - 1 \in good PROVE k \in good
  <2>1. t[k] = Cast(c, detections[k], tags[k], t[k - 1]) /\ k \in 0 .. n
      BY <1>1, <1>4, <1>5 DEF Course
  <2>2. detections[k] \in Detection
      BY <1>1
  <2>3. tags[k] \in Nat
      BY <1>1 DEF Tagged
  <2>4. detections[k].hand \/ Grounds(e, c, detections[k].cls, tags[k])
      BY DEF Tagged
  <2>5. Continues(e, c, Cast(c, detections[k], tags[k], t[k - 1]))
      BY <1>7, <2>2, <2>3, <2>4, CastContinues
  <2> QED
      BY <2>1, <2>5
<1>8. \A k \in 0 .. n : k \in good
  <2> HIDE DEF good
  <2> QED
      BY <1>1, <1>6, <1>7, Upward
<1>9. n \in good
    BY <1>1, <1>8
<1> QED
    BY <1>2, <1>5, <1>9

Polled(e, gate, hand, votes) == [e EXCEPT !.gate = gate, !.inHand = hand, !.votes = votes]

LEMMA PolledIs ==
    ASSUME NEW e \in Eye, NEW gate \in [Camera -> Nat], NEW hand \in [Camera -> Nat],
           NEW votes \in Seq(Vote)
    PROVE  /\ Polled(e, gate, hand, votes) \in Eye
           /\ Polled(e, gate, hand, votes).votes = votes
           /\ Polled(e, gate, hand, votes).tracks = e.tracks
           /\ Polled(e, gate, hand, votes).exempt = e.exempt
           /\ Polled(e, gate, hand, votes).maxPos = e.maxPos
<1> DEFINE f == [e EXCEPT !.gate = gate]
           g == [f EXCEPT !.inHand = hand]
           h == [g EXCEPT !.votes = votes]
<1>1. Polled(e, gate, hand, votes) = h
    BY DEF Polled
<1>2. f \in Eye /\ f.tracks = e.tracks /\ f.exempt = e.exempt /\ f.maxPos = e.maxPos
    BY DEF Eye
<1> HIDE DEF f
<1>3. g \in Eye /\ g.tracks = e.tracks /\ g.exempt = e.exempt /\ g.maxPos = e.maxPos
    BY <1>2 DEF Eye
<1> HIDE DEF g
<1>4. h \in Eye /\ h.tracks = e.tracks /\ h.exempt = e.exempt /\ h.maxPos = e.maxPos
      /\ h.votes = votes
    BY <1>3 DEF Eye
<1> HIDE DEF h
<1> QED
    BY <1>1, <1>4

LEMMA FrameAdds ==
    ASSUME NEW e \in Eye, NEW c \in Camera, NEW detections \in Seq(Detection), NEW tags,
           Tagged(e, c, detections, tags, Len(detections)), NEW handAbout
    PROVE  /\ AddFrame(e, c, detections, tags, handAbout) \in Eye
           /\ Continues(e, c, AddFrame(e, c, detections, tags, handAbout).votes)
           /\ AddFrame(e, c, detections, tags, handAbout).tracks = e.tracks
           /\ AddFrame(e, c, detections, tags, handAbout).exempt = e.exempt
           /\ AddFrame(e, c, detections, tags, handAbout).maxPos = e.maxPos
<1> DEFINE f     == AddFrame(e, c, detections, tags, handAbout)
           gate  == [e.gate EXCEPT ![c] = e.gate[c] + 1]
           hand  == [e.inHand EXCEPT ![c] = e.inHand[c] + (IF handAbout THEN 1 ELSE 0)]
           votes == f.votes
<1>1. f = Polled(e, gate, hand, votes)
  <2> DEFINE Turned(v, i) ==
                IF detections[i].hand \/ detections[i].conf < EntryConf[c] THEN v
                ELSE Append(v, [camera |-> c, cls |-> detections[i].cls,
                                conf |-> detections[i].conf, track |-> tags[i]])
             cast == FoldLeft(Turned, e.votes, [i \in 1 .. Len(detections) |-> i])
  <2>1. f = Polled(e, gate, hand, cast)
      BY DEF AddFrame, Polled
  <2> HIDE DEF f, gate, hand, cast
  <2>2. f.votes = cast
    <3>1. Polled(e, gate, hand, cast).votes = cast
      <4> DEFINE x == [e EXCEPT !.gate = gate]
                 y == [x EXCEPT !.inHand = hand]
                 z == [y EXCEPT !.votes = cast]
      <4>1. Polled(e, gate, hand, cast) = z
          BY DEF Polled
      <4>2. "votes" \in DOMAIN e
          BY DEF Eye
      <4>3. "votes" \in DOMAIN x
          BY <4>2
      <4> HIDE DEF x
      <4>4. "votes" \in DOMAIN y
          BY <4>3
      <4> HIDE DEF y
      <4>5. z.votes = cast
          BY <4>4
      <4> QED
          BY <4>1, <4>5
    <3> QED
        BY <2>1, <3>1
  <2> QED
      BY <2>1, <2>2
<1>2. Continues(e, c, votes)
    BY VotesContinue
<1>3. gate \in [Camera -> Nat] /\ hand \in [Camera -> Nat]
    BY EyeFields
<1> HIDE DEF f, gate, hand
<1>4. votes \in Seq(Vote)
    BY <1>2 DEF Continues
<1>5. /\ f \in Eye /\ f.tracks = e.tracks /\ f.exempt = e.exempt /\ f.maxPos = e.maxPos
  <2> HIDE DEF votes
  <2> QED
      BY <1>1, <1>3, <1>4, PolledIs
<1>6. Continues(e, c, f.votes)
    BY <1>2
<1> QED
    BY <1>5, <1>6 DEF f
-----------------------------------------------------------------------------
(* What the filters keep, and what they remember.                            *)
Boxed == {d \in Detection : d.box}
Seen(hands) == Filtered(hands, LAMBDA d : d.box)

LEMMA SeenAre ==
    ASSUME NEW hands \in Seq(Detection)
    PROVE  Seen(hands) = Those(hands, Boxed)
<1> DEFINE A(g) == [u \in SUBSET DOMAIN hands |->
                       IF u = {} THEN <<>>
                       ELSE IF hands[Max(u)].box THEN Append(g[u \ {Max(u)}], hands[Max(u)])
                       ELSE g[u \ {Max(u)}]]
           B(g) == [u \in SUBSET DOMAIN hands |->
                       IF u = {} THEN <<>>
                       ELSE IF hands[Max(u)] \in Boxed
                            THEN Append(g[u \ {Max(u)}], hands[Max(u)])
                       ELSE g[u \ {Max(u)}]]
<1>1. \A k \in DOMAIN hands : hands[k] \in Boxed <=> hands[k].box
    BY DEF Boxed
<1>2. \A u \in SUBSET DOMAIN hands : u # {} => Max(u) \in u
  <2>1. DOMAIN hands = 1 .. Len(hands) /\ Len(hands) \in Nat
      OBVIOUS
  <2> QED
      BY <2>1, LastOf
<1>3. \A u \in SUBSET DOMAIN hands : u # {} => (hands[Max(u)] \in Boxed <=> hands[Max(u)].box)
    BY <1>1, <1>2
<1>4. ASSUME NEW g PROVE A(g) = B(g)
    BY <1>3
<1>5. Seen(hands) = (CHOOSE g : g = A(g))[DOMAIN hands]
    BY DEF Seen, Filtered, FoldLeft, MapThenFoldSet
<1>6. Those(hands, Boxed) = (CHOOSE g : g = B(g))[DOMAIN hands]
    BY DEF Those, Filtered, FoldLeft, MapThenFoldSet
<1>7. (CHOOSE g : g = A(g)) = (CHOOSE g : g = B(g))
  <2> HIDE DEF A, B
  <2> QED
      BY <1>4
<1> HIDE DEF A, B
<1> QED
    BY <1>5, <1>6, <1>7

LEMMA RememberIs ==
    ASSUME NEW history \in Seq(Detection), NEW hands \in Seq(Detection)
    PROVE  Remember(history, hands) \in Seq(Detection)
<1> DEFINE all  == history \o Seen(hands)
           from == Larger(1, Len(all) - HandHistory + 1)
<1>1. Remember(history, hands) = SubSeq(all, from, Len(all))
    BY DEF Remember, Seen
<1>2. Seen(hands) \in Seq(Detection)
    BY SeenAre, FilteredFrom
<1>3. all \in Seq(Detection)
    BY <1>2
<1> HIDE DEF all
<1>4. Len(all) \in Nat /\ from \in Int /\ from >= 1
    BY <1>3 DEF Larger, HandHistory
<1>5. \A i \in from .. Len(all) : all[i] \in Detection
    BY <1>3, <1>4
<1>6. SubSeq(all, from, Len(all)) \in Seq(Detection)
    BY <1>4, <1>5, SubSeqProperties
<1> QED
    BY <1>1, <1>6

LEMMA FiltersShow ==
    ASSUME NEW e \in Eye, NEW c \in Camera, NEW raw \in Seq(Detection),
           NEW S, Shows(raw, S)
    PROVE  /\ Apply(e, c, raw).eye \in Eye
           /\ Apply(e, c, raw).eye.tracks = e.tracks /\ Apply(e, c, raw).eye.votes = e.votes
           /\ Apply(e, c, raw).eye.exempt = e.exempt /\ Apply(e, c, raw).eye.maxPos = e.maxPos
           /\ Apply(e, c, raw).detections \in Seq(Detection)
           /\ Shows(Apply(e, c, raw).detections, S)
<1> DEFINE hands   == Hands(c, raw)
           history == Remember(e.hands[c], hands)
           kept    == Kept(c, history, raw)
           places  == [e.hands EXCEPT ![c] = history]
           f       == [e EXCEPT !.hands = places]
           all     == hands \o kept
<1>1. Apply(e, c, raw) = [eye |-> f, detections |-> all]
    BY DEF Apply, Kept
<1>2. hands = Those(raw, SureHands(c))
    BY HandsAre
<1>3. kept = Those(raw, Visible(c, history))
    BY KeptAre
<1>4. hands \in Seq(Detection) /\ TakenFrom(hands, Len(raw), raw, SureHands(c))
    BY <1>2, FilteredFrom
<1>5. e.hands \in [Camera -> Seq(Detection)]
    BY EyeFields
<1>6. history \in Seq(Detection)
  <2>1. e.hands[c] \in Seq(Detection)
      BY <1>5
  <2> QED
      BY <1>4, <2>1, RememberIs
<1> HIDE DEF hands, history, kept
<1>7. kept \in Seq(Detection) /\ TakenFrom(kept, Len(raw), raw, Visible(c, history))
    BY <1>3, FilteredFrom
<1>8. places \in [Camera -> Seq(Detection)]
    BY <1>5, <1>6
<1> HIDE DEF places
<1>9. f \in Eye /\ f.tracks = e.tracks /\ f.votes = e.votes /\ f.exempt = e.exempt
      /\ f.maxPos = e.maxPos
    BY <1>8 DEF Eye
<1>10. \A i \in DOMAIN hands : hands[i].hand
  <2>1. PICK m \in [1 .. Len(hands) -> 1 .. Len(raw)] :
            Rises(m, 1 .. Len(hands)) /\ Copies(m, hands, raw, SureHands(c))
      BY <1>4 DEF TakenFrom
  <2> QED
      BY <1>4, <2>1 DEF Copies, SureHands
<1>11. \A i \in DOMAIN kept : kept[i].hand \/ kept[i] \in S
  <2>1. PICK m \in [1 .. Len(kept) -> 1 .. Len(raw)] :
            Rises(m, 1 .. Len(kept)) /\ Copies(m, kept, raw, Visible(c, history))
      BY <1>7 DEF TakenFrom
  <2> SUFFICES ASSUME NEW i \in DOMAIN kept PROVE kept[i].hand \/ kept[i] \in S
      OBVIOUS
  <2>2. i \in 1 .. Len(kept)
      BY <1>7
  <2>3. m[i] \in DOMAIN raw /\ kept[i] = raw[m[i]]
      BY <2>1, <2>2 DEF Copies
  <2> QED
      BY <2>3 DEF Shows
<1>12. /\ all \in Seq(Detection) /\ Len(all) = Len(hands) + Len(kept)
       /\ \A i \in 1 .. Len(hands) + Len(kept) :
             all[i] = IF i <= Len(hands) THEN hands[i] ELSE kept[i - Len(hands)]
    BY <1>4, <1>7, ConcatProperties
<1> HIDE DEF all, f
<1>13. Shows(all, S)
  <2> SUFFICES ASSUME NEW i \in DOMAIN all PROVE all[i].hand \/ all[i] \in S
      BY DEF Shows
  <2>1. i \in 1 .. Len(hands) + Len(kept) /\ Len(hands) \in Nat /\ Len(kept) \in Nat
      BY <1>4, <1>7, <1>12
  <2>2. CASE i <= Len(hands)
    <3>1. i \in DOMAIN hands /\ all[i] = hands[i]
        BY <1>4, <1>12, <2>1, <2>2
    <3> QED
        BY <1>10, <3>1
  <2>3. CASE ~(i <= Len(hands))
    <3>1. i - Len(hands) \in 1 .. Len(kept) /\ all[i] = kept[i - Len(hands)]
        BY <1>12, <2>1, <2>3
    <3>2. i - Len(hands) \in DOMAIN kept
        BY <1>7, <3>1
    <3> QED
        BY <1>11, <3>1, <3>2
  <2> QED
      BY <2>2, <2>3
<1>14. Apply(e, c, raw).eye = f /\ Apply(e, c, raw).detections = all
    BY <1>1
<1> QED
    BY <1>9, <1>12, <1>13, <1>14
-----------------------------------------------------------------------------
(* After a frame: what Outcome does to the eye.                              *)
Sees(e, f, c, S) ==
    /\ f \in Eye /\ Adds(e, f, c)
    /\ AllGrounded(e) => AllGrounded(f)
    /\ StaysAtRest(e, f, c, S)

SameButHands(e, f) ==
    /\ f \in Eye /\ f.tracks = e.tracks /\ f.votes = e.votes
    /\ f.exempt = e.exempt /\ f.maxPos = e.maxPos

LEMMA FramesAdd ==
    ASSUME NEW e \in Eye, NEW a, SameButHands(e, a), NEW c, NEW b \in Eye, Adds(a, b, c),
           b.votes = a.votes, NEW S, StaysAtRest(a, b, c, S),
           NEW f \in Eye, Continues(b, c, f.votes), f.tracks = b.tracks,
           f.exempt = b.exempt, f.maxPos = b.maxPos
    PROVE  Sees(e, f, c, S)
<1>1. Adds(e, a, c)
    BY AddsSame DEF SameButHands
<1>2. Adds(b, f, c)
  <2>1. TracksAdded(b, f, c)
      BY DEF TracksAdded, SameOwner
  <2>2. VotesAdded(b, f, c)
      BY DEF VotesAdded, Continues
  <2> QED
      BY <2>1, <2>2 DEF Adds
<1>3. Adds(e, b, c)
    BY <1>1, AddsTwice
<1>4. Adds(e, f, c)
    BY <1>2, <1>3, AddsTwice
<1>5. ASSUME AllGrounded(e) PROVE AllGrounded(f)
  <2> SUFFICES ASSUME NEW i \in DOMAIN f.votes
               PROVE  Grounds(f, f.votes[i].camera, f.votes[i].cls, f.votes[i].track)
      BY DEF AllGrounded
  <2>1. CASE i \in DOMAIN b.votes
    <3>1. f.votes[i] = e.votes[i] /\ i \in DOMAIN e.votes
        BY <2>1 DEF Continues, SameButHands
    <3>2. Grounds(e, f.votes[i].camera, f.votes[i].cls, f.votes[i].track)
        BY <1>5, <3>1 DEF AllGrounded
    <3> QED
        BY <1>4, <3>2, GroundsOn
  <2>2. CASE i \notin DOMAIN b.votes
    <3>1. Grounds(b, f.votes[i].camera, f.votes[i].cls, f.votes[i].track)
        BY <2>2 DEF Continues
    <3> QED
        BY <1>2, <3>1, GroundsOn
  <2> QED
      BY <2>1, <2>2
<1>6. StaysAtRest(e, f, c, S)
    BY DEF StaysAtRest, Resting, SameButHands
<1> QED
    BY <1>4, <1>5, <1>6 DEF Sees

LEMMA OutcomeSees ==
    ASSUME NEW dl, NEW e \in Eye, NEW c \in Camera, NEW l, NEW at \in Nat, NEW raw \in View,
           NEW S \in SUBSET Detection, Shows(raw, S)
    PROVE  Sees(e, Outcome(dl, e, c, l, at, raw).eye, c, S)
<1> DEFINE applied == Apply(e, c, raw)
           all     == applied.detections
           handNow == \E i \in DOMAIN applied.detections : applied.detections[i].hand
           seen    == Observe(applied.eye, c, at, applied.detections)
           about   == handNow \/ l.active
           voted   == AddFrame(seen.eye, c, applied.detections, seen.tracks, about)
           after   == Updated(l, handNow)
           stop    == ShouldStop(voted, EarlyAllowed, dl, Tolerance, Products, after.since)
<1>0. raw \in Seq(Detection)
    BY LoopAssumption DEF LoopAssumption
<1>1. Outcome(dl, e, c, l, at, raw) = [eye |-> voted, latch |-> after, stopped |-> stop]
    BY DEF Outcome
<1>2. SameButHands(e, applied.eye) /\ applied.detections \in Seq(Detection)
      /\ Shows(applied.detections, S)
    BY <1>0, FiltersShow DEF SameButHands
<1>3. applied.eye \in Eye
    BY <1>2 DEF SameButHands
<1> HIDE DEF applied
<1>4. Tracked(applied.eye, c, applied.detections, S, seen, Len(applied.detections))
    BY <1>2, <1>3, ObserveTracks
<1> HIDE DEF seen, handNow, about, after, stop
<1>5. /\ seen.eye \in Eye /\ Adds(applied.eye, seen.eye, c)
      /\ seen.eye.votes = applied.eye.votes
      /\ StaysAtRest(applied.eye, seen.eye, c, S)
      /\ Tagged(seen.eye, c, applied.detections, seen.tracks, Len(applied.detections))
    BY <1>4 DEF Tracked
<1>6. /\ voted \in Eye /\ Continues(seen.eye, c, voted.votes)
      /\ voted.tracks = seen.eye.tracks /\ voted.exempt = seen.eye.exempt
      /\ voted.maxPos = seen.eye.maxPos
    BY <1>2, <1>5, FrameAdds
<1> HIDE DEF voted
<1>7. Sees(e, voted, c, S)
    BY <1>2, <1>5, <1>6, FramesAdd
<1> QED
    BY <1>1, <1>7
-----------------------------------------------------------------------------
(* The products seen in a list of frames.                                    *)
Sightings(video) ==
    {d \in Detection : ~d.hand /\ \E i \in DOMAIN video : \E m \in DOMAIN video[i].raw :
                                      d = video[i].raw[m]}

Shelf(e, o, c, waiting, video) ==
    /\ e \in Eye /\ o \in [eye : Eye, stopped : BOOLEAN]
    /\ AllGrounded(e) /\ AllGrounded(o.eye) /\ Adds(o.eye, e, c)
    /\ c = "top" => o.eye = Unseen
    /\ \A j \in DOMAIN waiting : \E i \in DOMAIN video : waiting[j].raw = video[i].raw
    /\ MaxJump \in Nat =>
          \A k : Still(Sightings(video), k) => Resting(e, c, Sightings(video), k)

ShelfInv == Shelf(eye, opened, camera, pending, frames)

LEMMA UnseenIs == Unseen \in Eye /\ AllGrounded(Unseen)
<1>1. Unseen \in Eye
    BY DEF Unseen, Eye, Camera
<1>2. Unseen.votes = <<>>
    BY DEF Unseen
<1> QED
    BY <1>1, <1>2 DEF AllGrounded

LEMMA AddsNothing == \A e, c : Adds(e, e, c)
BY AddsSame

LEMMA ShelfInit == Init => ShelfInv
<1> SUFFICES ASSUME Init PROVE ShelfInv
    OBVIOUS
<1>1. /\ eye = Unseen /\ opened = [eye |-> Unseen, stopped |-> FALSE]
      /\ pending = <<>> /\ frames = <<>>
    BY DEF Init
<1>2. Unseen.tracks = <<>> /\ Unseen.exempt = {}
    BY DEF Unseen
<1>3. \A c, S, k : Resting(Unseen, c, S, k)
    BY <1>2 DEF Resting
<1>4. opened.eye = Unseen /\ opened \in [eye : Eye, stopped : BOOLEAN]
    BY <1>1, UnseenIs
<1> QED
    BY <1>1, <1>3, <1>4, UnseenIs, AddsNothing DEF ShelfInv, Shelf

LEMMA StillWider ==
    ASSUME NEW S, NEW T, S \subseteq T, NEW k, Still(T, k)
    PROVE  Still(S, k) /\ \A e, c : Resting(e, c, S, k) => Resting(e, c, T, k)
<1>1. Still(S, k)
    BY DEF Still
<1>2. \A t : Rests(t, S, k) => Rests(t, T, k)
    BY DEF Rests
<1> QED
    BY <1>1, <1>2 DEF Resting

LEMMA ShelfPull ==
    ASSUME NEW e, NEW o, NEW c, NEW waiting \in Seq(Wait), NEW video \in Seq(Frame),
           Shelf(e, o, c, waiting, video), NEW f \in Frame, NEW at,
           NEW later \in {waiting, Append(waiting, [pos |-> at, raw |-> f.raw])}
    PROVE  Shelf(e, o, c, later, Append(video, f))
<1> DEFINE more == Append(video, f)
           S == Sightings(video)
           T == Sightings(more)
<1>1. /\ DOMAIN more = 1 .. Len(video) + 1 /\ more[Len(video) + 1] = f
      /\ \A i \in DOMAIN video : i \in DOMAIN more /\ more[i] = video[i]
      /\ Len(video) \in Nat
    OBVIOUS
<1> HIDE DEF more
<1>2. S \subseteq T
    BY <1>1 DEF Sightings
<1>3. \A j \in DOMAIN later : \E i \in DOMAIN more : later[j].raw = more[i].raw
  <2>1. \A j \in DOMAIN waiting : \E i \in DOMAIN more : waiting[j].raw = more[i].raw
      BY <1>1 DEF Shelf
  <2>2. Len(video) + 1 \in DOMAIN more
      BY <1>1
  <2> DEFINE w == [pos |-> at, raw |-> f.raw]
  <2>3. w.raw = more[Len(video) + 1].raw
      BY <1>1
  <2> HIDE DEF w
  <2>4. CASE later = Append(waiting, w)
    <3> SUFFICES ASSUME NEW j \in DOMAIN later
                 PROVE  \E i \in DOMAIN more : later[j].raw = more[i].raw
        OBVIOUS
    <3>1. \/ j \in DOMAIN waiting /\ later[j] = waiting[j]
          \/ later[j] = w
        BY <2>4
    <3> QED
        BY <2>1, <2>2, <2>3, <3>1
  <2> QED
      BY <2>1, <2>4 DEF w
<1>4. ASSUME MaxJump \in Nat, NEW k, Still(T, k) PROVE Resting(e, c, T, k)
  <2> HIDE DEF S, T
  <2>1. Still(S, k) /\ (Resting(e, c, S, k) => Resting(e, c, T, k))
      BY <1>2, <1>4, StillWider
  <2> QED
      BY <1>4, <2>1 DEF Shelf, S
<1> HIDE DEF T
<1>5. MaxJump \in Nat => \A k : Still(T, k) => Resting(e, c, T, k)
    BY <1>4
<1> QED
    BY <1>3, <1>5 DEF Shelf, more, T

LEMMA ShelfSees ==
    ASSUME NEW e, NEW o, NEW c \in Camera, NEW waiting \in Seq(Wait), NEW video \in Seq(Frame),
           Shelf(e, o, c, waiting, video), Len(waiting) > 0, NEW dl, NEW l,
           NEW later \in {<<>>, Tail(waiting)}
    PROVE  Shelf(Outcome(dl, e, c, l, waiting[1].pos, waiting[1].raw).eye, o, c, later, video)
<1> DEFINE f == Outcome(dl, e, c, l, waiting[1].pos, waiting[1].raw).eye
           S == Sightings(video)
<1>1. waiting[1] \in Wait
    OBVIOUS
<1>2. waiting[1].pos \in Nat /\ waiting[1].raw \in View
    BY <1>1 DEF Wait
<1>3. waiting[1].raw \in Seq(Detection)
    BY <1>2, LoopAssumption DEF LoopAssumption
<1>4. Shows(waiting[1].raw, S)
  <2>1. PICK i \in DOMAIN video : waiting[1].raw = video[i].raw
      BY DEF Shelf
  <2>2. \A m \in DOMAIN waiting[1].raw : waiting[1].raw[m] \in Detection
      BY <1>3
  <2> QED
      BY <2>1, <2>2 DEF Shows, Sightings
<1>5. S \in SUBSET Detection
    BY DEF Sightings
<1>6. e \in Eye
    BY DEF Shelf
<1>7. Sees(e, f, c, S)
  <2> HIDE DEF S
  <2> QED
      BY <1>2, <1>4, <1>5, <1>6, OutcomeSees
<1>8. \A j \in DOMAIN later : \E i \in DOMAIN video : later[j].raw = video[i].raw
  <2>1. \A j \in DOMAIN later : j + 1 \in DOMAIN waiting /\ later[j] = waiting[j + 1]
      OBVIOUS
  <2> QED
      BY <2>1 DEF Shelf
<1> HIDE DEF f
<1>9. Adds(o.eye, f, c)
    BY <1>7, AddsTwice DEF Shelf, Sees
<1>10. MaxJump \in Nat => \A k : Still(S, k) => Resting(f, c, S, k)
    BY <1>7 DEF Shelf, Sees, StaysAtRest
<1>11. f \in Eye /\ AllGrounded(f)
    BY <1>7 DEF Shelf, Sees
<1>12. Shelf(f, o, c, later, video)
    BY <1>8, <1>9, <1>10, <1>11 DEF Shelf
<1> QED
    BY <1>12 DEF f

LEMMA ShelfTurns ==
    ASSUME NEW e, NEW o, NEW waiting, NEW video, Shelf(e, o, "top", waiting, video),
           NEW st \in BOOLEAN
    PROVE  Shelf(e, [eye |-> e, stopped |-> st], "side", <<>>, <<>>)
<1> DEFINE p == [eye |-> e, stopped |-> st]
           S == Sightings(<<>>)
<1>1. p.eye = e /\ p \in [eye : Eye, stopped : BOOLEAN] /\ e \in Eye
    BY DEF Shelf
<1> HIDE DEF p
<1>2. Adds(Unseen, e, "top")
    BY DEF Shelf
<1>3. Unseen.tracks = <<>> /\ Unseen.exempt = {}
    BY DEF Unseen
<1>4. \A t \in DOMAIN e.tracks : e.tracks[t].camera = "top"
    BY <1>2, <1>3 DEF Adds, TracksAdded
<1>5. \A q \in e.exempt : q[1] = "top"
    BY <1>2, <1>3 DEF Adds
<1>6. \A k : Resting(e, "side", S, k)
  <2>1. \A k : <<"side", k>>[1] = "side"
      OBVIOUS
  <2> QED
      BY <1>4, <1>5, <2>1 DEF Resting
<1>7. Adds(p.eye, e, "side")
    BY <1>1, AddsNothing
<1>8. Shelf(e, p, "side", <<>>, <<>>)
    BY <1>1, <1>6, <1>7 DEF Shelf
<1> QED
    BY <1>8 DEF p

LEMMA ShelfStep == Inv /\ ShelfInv /\ [Next]_vars => ShelfInv'
<1> SUFFICES ASSUME Inv, ShelfInv, [Next]_vars PROVE ShelfInv'
    OBVIOUS
<1>1. Shelf(eye, opened, camera, pending, frames)
    BY DEF ShelfInv
<1>2. pending \in Seq(Wait) /\ camera \in Camera /\ frames \in Seq(Frame) /\ stopped \in BOOLEAN
    BY Types DEF Inv, Shape
<1>3. ASSUME NEW f \in Frame, Pull(f) PROVE ShelfInv'
  <2>1. UNCHANGED <<eye, opened, camera>> /\ frames' = Append(frames, f)
      BY <1>3 DEF Pull
  <2>2. pending' \in {pending, Append(pending, [pos |-> pos, raw |-> f.raw])}
      BY <1>3 DEF Pull
  <2>3. Shelf(eye, opened, camera, pending', Append(frames, f))
      BY <1>1, <1>2, <2>2, ShelfPull
  <2> QED
      BY <2>1, <2>3 DEF ShelfInv
<1>4. CASE Infer
  <2> DEFINE o == Outcome(delta, eye, camera, latch, pending[1].pos, pending[1].raw)
  <2>1. /\ Len(pending) > 0 /\ eye' = o.eye
        /\ pending' = IF stopped' THEN <<>> ELSE Tail(pending)
        /\ UNCHANGED <<camera, frames, opened>>
      BY <1>4, InferIs DEF Inv
  <2>2. pending' \in {<<>>, Tail(pending)}
      BY <2>1
  <2>3. Shelf(o.eye, opened, camera, pending', frames)
      BY <1>1, <1>2, <2>1, <2>2, ShelfSees
  <2> QED
      BY <2>1, <2>3 DEF ShelfInv
<1>5. CASE NextCamera
  <2>1. /\ camera = "top" /\ camera' = "side" /\ eye' = eye /\ pending' = <<>> /\ frames' = <<>>
        /\ opened' = [eye |-> eye, stopped |-> stopped]
      BY <1>5 DEF NextCamera
  <2>2. Shelf(eye, [eye |-> eye, stopped |-> stopped], "side", <<>>, <<>>)
      BY <1>1, <1>2, <2>1, ShelfTurns
  <2> QED
      BY <2>1, <2>2 DEF ShelfInv
<1>6. CASE UNCHANGED <<eye, opened, camera, pending, frames>>
    BY <1>6 DEF ShelfInv
<1>7. CASE LastBatch
    BY <1>6, <1>7 DEF LastBatch
<1>8. CASE Finish
    BY <1>6, <1>8 DEF Finish
<1>9. CASE Raises
    BY <1>6, <1>9 DEF Raises
<1>10. CASE UNCHANGED vars
    BY <1>6, <1>10 DEF vars
<1> QED
    BY <1>3, <1>4, <1>5, <1>7, <1>8, <1>9, <1>10 DEF Next

LEMMA ShelfHolds == Spec => []ShelfInv
<1>1. Spec => []Inv
    BY Invariant
<1> QED
    BY <1>1, ShelfInit, ShelfStep, PTL DEF Spec
-----------------------------------------------------------------------------
(* The votes of a camera for a class that count.                             *)
Counted(e, c, k) == {v \in Vote : v.camera = c /\ v.cls = k /\ Counts(e, v)}

LEMMA EffectiveAre ==
    ASSUME NEW e, e.votes \in Seq(Vote), NEW c, NEW k
    PROVE  Effective(e, c, k) = Those(e.votes, Counted(e, c, k))
<1> DEFINE all  == e.votes
           A(g) == [u \in SUBSET DOMAIN all |->
                       IF u = {} THEN <<>>
                       ELSE IF all[Max(u)].camera = c /\ all[Max(u)].cls = k
                               /\ Counts(e, all[Max(u)])
                            THEN Append(g[u \ {Max(u)}], all[Max(u)])
                       ELSE g[u \ {Max(u)}]]
           B(g) == [u \in SUBSET DOMAIN all |->
                       IF u = {} THEN <<>>
                       ELSE IF all[Max(u)] \in Counted(e, c, k)
                            THEN Append(g[u \ {Max(u)}], all[Max(u)])
                       ELSE g[u \ {Max(u)}]]
<1>1. \A i \in DOMAIN all : all[i] \in Counted(e, c, k)
          <=> all[i].camera = c /\ all[i].cls = k /\ Counts(e, all[i])
    BY DEF Counted
<1>2. \A u \in SUBSET DOMAIN all : u # {} => Max(u) \in u
  <2>1. DOMAIN all = 1 .. Len(all) /\ Len(all) \in Nat
      OBVIOUS
  <2> QED
      BY <2>1, LastOf
<1>3. \A u \in SUBSET DOMAIN all : u # {} =>
          (all[Max(u)] \in Counted(e, c, k)
           <=> all[Max(u)].camera = c /\ all[Max(u)].cls = k /\ Counts(e, all[Max(u)]))
    BY <1>1, <1>2
<1>4. ASSUME NEW g PROVE A(g) = B(g)
    BY <1>3
<1>5. Effective(e, c, k) = (CHOOSE g : g = A(g))[DOMAIN all]
    BY DEF Effective, Filtered, FoldLeft, MapThenFoldSet
<1>6. Those(all, Counted(e, c, k)) = (CHOOSE g : g = B(g))[DOMAIN all]
    BY DEF Those, Filtered, FoldLeft, MapThenFoldSet
<1>7. (CHOOSE g : g = A(g)) = (CHOOSE g : g = B(g))
  <2> HIDE DEF A, B
  <2> QED
      BY <1>4
<1> HIDE DEF A, B
<1> QED
    BY <1>5, <1>6, <1>7

(* A vote for the class counts.                                              *)
Voices(e, k) == \E i \in DOMAIN e.votes : e.votes[i].cls = k /\ Counts(e, e.votes[i])

LEMMA VoicesCount ==
    ASSUME NEW e, e.votes \in Seq(Vote), NEW k
    PROVE  VoteCount(e, k) > 0 <=> Voices(e, k)
<1> DEFINE of(c) == Those(e.votes, Counted(e, c, k))
<1>1. \A c : of(c) \in Seq(Vote) /\ TakenFrom(of(c), Len(e.votes), e.votes, Counted(e, c, k))
    BY FilteredFrom
<1>2. \A c : \A j \in DOMAIN e.votes : e.votes[j] \in Counted(e, c, k) =>
          \E i \in DOMAIN of(c) : of(c)[i] = e.votes[j]
    BY FilteredAll
<1>3. VoteCount(e, k) = Len(of("top")) + Len(of("side"))
  <2> HIDE DEF of
  <2>1. \A c : Effective(e, c, k) = of(c)
      BY EffectiveAre DEF of
  <2> QED
      BY <2>1 DEF VoteCount
<1>4. \A c : Len(of(c)) \in Nat /\ DOMAIN of(c) = 1 .. Len(of(c))
    BY <1>1
<1>5. ASSUME NEW c, Len(of(c)) > 0 PROVE Voices(e, k)
  <2>1. PICK m \in [1 .. Len(of(c)) -> 1 .. Len(e.votes)] :
            Rises(m, 1 .. Len(of(c))) /\ Copies(m, of(c), e.votes, Counted(e, c, k))
      BY <1>1 DEF TakenFrom
  <2> HIDE DEF of
  <2>2. 1 \in 1 .. Len(of(c))
      BY <1>4, <1>5
  <2>3. m[1] \in DOMAIN e.votes
      BY <2>2
  <2>4. e.votes[m[1]] \in Counted(e, c, k)
      BY <2>1, <2>2 DEF Copies
  <2> QED
      BY <2>3, <2>4 DEF Counted, Voices
<1>6. ASSUME Voices(e, k) PROVE \E c \in {"top", "side"} : Len(of(c)) > 0
  <2>1. PICK j \in DOMAIN e.votes : e.votes[j].cls = k /\ Counts(e, e.votes[j])
      BY <1>6 DEF Voices
  <2>2. e.votes[j] \in Vote
      BY <2>1
  <2>3. e.votes[j].camera \in {"top", "side"}
      BY <2>2 DEF Vote, Camera
  <2>4. e.votes[j] \in Counted(e, e.votes[j].camera, k)
      BY <2>1, <2>2 DEF Counted
  <2>5. PICK i \in DOMAIN of(e.votes[j].camera) : of(e.votes[j].camera)[i] = e.votes[j]
      BY <1>2, <2>4
  <2> HIDE DEF of
  <2> QED
      BY <1>4, <2>3, <2>5
<1> HIDE DEF of
<1> QED
    BY <1>3, <1>4, <1>5, <1>6

(* Where only movement counts, a vote for a product at rest does not.        *)
LEMMA RestNeverCounts ==
    ASSUME MovementCounts, NEW e, NEW c, NEW v, NEW S, Resting(e, c, S, v.cls),
           v.camera = c, Grounds(e, c, v.cls, v.track)
    PROVE  ~Counts(e, v)
<1>1. v.track # 0
    BY DEF Grounds, Resting
<1>2. v.track \in DOMAIN e.tracks /\ Rests(e.tracks[v.track], S, v.cls)
    BY <1>1 DEF Grounds, Resting
<1>3. e.tracks[v.track].path = 0 /\ e.tracks[v.track].disp = 0
    BY <1>2 DEF Rests
<1>4. ~Passes(e.tracks[v.track])
    BY <1>3 DEF Passes, Larger, MovementCounts
<1> QED
    BY <1>1, <1>4 DEF Counts, TrackQualifies, MovementCounts

(* What camera c adds changes nothing for a vote of the other that counts.   *)
LEMMA OtherCounts ==
    ASSUME MovementCounts, NEW e, NEW f, NEW c, Adds(e, f, c), NEW v,
           v.camera \in Camera, v.camera # c, Grounds(e, v.camera, v.cls, v.track), Counts(f, v)
    PROVE  Counts(e, v)
<1>1. CASE v.track = 0
    BY <1>1 DEF Grounds, Counts, ClassMotion
<1>2. CASE v.track # 0
  <2> DEFINE t == v.track
  <2>1. t \in DOMAIN e.tracks /\ e.tracks[t].camera = v.camera
      BY <1>2 DEF Grounds
  <2>2. t \in DOMAIN f.tracks /\ f.tracks[t].camera = v.camera
      BY <2>1 DEF Adds, TracksAdded, SameOwner
  <2>3. f.tracks[t] = e.tracks[t]
      BY <2>2 DEF Adds, TracksAdded
  <2>4. f.maxPos[v.camera] = e.maxPos[v.camera]
      BY DEF Adds
  <2>5. TrackHeld(e, t) <=> TrackHeld(f, t)
      BY <2>1, <2>3, <2>4 DEF TrackHeld
  <2>6. TrackQualifies(f, t) => TrackQualifies(e, t)
      BY <2>3 DEF TrackQualifies, MovementCounts
  <2> QED
      BY <1>2, <2>5, <2>6 DEF Counts, MovementCounts
<1> QED
    BY <1>1, <1>2

LEMMA ShelfVotesBefore ==
    ASSUME MovementCounts, NEW e, NEW o, NEW c \in Camera, NEW waiting, NEW video,
           Shelf(e, o, c, waiting, video), NEW k, Still(Sightings(video), k), Voices(e, k)
    PROVE  Voices(o.eye, k)
<1>1. PICK i \in DOMAIN e.votes : e.votes[i].cls = k /\ Counts(e, e.votes[i])
    BY DEF Voices
<1> DEFINE v == e.votes[i]
<1>2. v \in Vote
  <2>1. e.votes \in Seq(Vote)
      BY DEF Shelf, Eye
  <2> QED
      BY <1>1, <2>1
<1>3. v.camera \in Camera
    BY <1>2 DEF Vote
<1>4. Grounds(e, v.camera, v.cls, v.track)
    BY <1>1 DEF Shelf, AllGrounded
<1>5. Resting(e, c, Sightings(video), v.cls)
    BY <1>1 DEF Shelf, MovementCounts
<1>6. v.camera # c
  <2> HIDE DEF v
  <2> SUFFICES ASSUME v.camera = c PROVE FALSE
      OBVIOUS
  <2>1. ~Counts(e, v)
      BY <1>4, <1>5, RestNeverCounts
  <2> QED
      BY <1>1, <2>1 DEF v
<1>7. i \in DOMAIN o.eye.votes /\ o.eye.votes[i] = v
    BY <1>1, <1>6 DEF Shelf, Adds, VotesAdded
<1>8. Grounds(o.eye, v.camera, v.cls, v.track)
    BY <1>7 DEF Shelf, AllGrounded
<1>9. Counts(o.eye, v)
  <2>1. Counts(e, v) /\ Adds(o.eye, e, c)
      BY <1>1 DEF Shelf
  <2> HIDE DEF v
  <2> QED
      BY <1>3, <1>6, <1>8, <2>1, OtherCounts
<1> QED
    BY <1>1, <1>7, <1>9 DEF Voices

LEMMA StillSightings == \A k : LiesStill(k) => Still(Sightings(frames), k)
<1> SUFFICES ASSUME NEW k, LiesStill(k), NEW d \in Sightings(frames), NEW e \in Sightings(frames),
                    d.cls = k, e.cls = k
             PROVE  d.box /\ (d.x = e.x \/ 2 * Abs(d.x - e.x) > 3 * MaxJump)
    BY DEF Still
<1>1. PICK i \in DOMAIN frames : \E m \in DOMAIN frames[i].raw : d = frames[i].raw[m]
    BY DEF Sightings
<1>2. PICK m \in DOMAIN frames[i].raw : d = frames[i].raw[m]
    BY <1>1
<1>3. PICK j \in DOMAIN frames : \E n \in DOMAIN frames[j].raw : e = frames[j].raw[n]
    BY DEF Sightings
<1>4. PICK n \in DOMAIN frames[j].raw : e = frames[j].raw[n]
    BY <1>3
<1>5. ~d.hand /\ ~e.hand
    BY DEF Sightings
<1> QED
    BY <1>2, <1>4, <1>5 DEF LiesStill

LEMMA ShelfNow == Shape /\ ShelfInv => ShelfHasNoVote
<1> SUFFICES ASSUME Shape, ShelfInv, MovementCounts, NEW c \in Combine(eye), LiesStill(c.cls)
             PROVE  VoteCount(opened.eye, c.cls) > 0
    BY DEF ShelfHasNoVote
<1>1. Shelf(eye, opened, camera, pending, frames) /\ camera \in Camera
    BY DEF ShelfInv, Shape
<1>2. eye.votes \in Seq(Vote) /\ opened.eye.votes \in Seq(Vote)
    BY <1>1 DEF Shelf, Eye
<1>3. VoteCount(eye, c.cls) > 0
  <2>1. PICK cls \in Voted(eye) : VoteCount(eye, cls) > 0 /\ c = Candidate(eye, cls)
      BY DEF Combine
  <2>2. c.cls = cls
      BY <2>1 DEF Candidate
  <2> QED
      BY <2>1, <2>2
<1> DEFINE k == c.cls
<1> HIDE DEF k
<1>4. Voices(eye, k)
    BY <1>2, <1>3, VoicesCount DEF k
<1>5. Still(Sightings(frames), k)
    BY StillSightings DEF k
<1>6. Voices(opened.eye, k)
    BY <1>1, <1>4, <1>5, ShelfVotesBefore
<1> QED
    BY <1>2, <1>6, VoicesCount DEF k

(* The shelf does not vote, whatever the videos and however the frames are   *)
(* skipped, batched and stopped: if only movement counts, a class that has   *)
(* only lain still for this camera is a candidate (Combine) by votes of the  *)
(* camera before it, or not at all.                                          *)
THEOREM ShelfNeverVotes == Spec => []ShelfHasNoVote
BY ShelfHolds, Invariant, ShelfNow, PTL DEF Inv

(* The frame loop keeps its state of the declared shape: the gate, the       *)
(* latch, the batch, and what filters, tracks and votes leave in the eye.    *)
THEOREM LoopTyped == Spec => []TypeOK
<1>1. Inv /\ ShelfInv => TypeOK
    BY DEF Inv, Shape, ShelfInv, Shelf, TypeOK
<1> QED
    BY <1>1, ShelfHolds, Invariant, PTL

(* The cameras are witnesses apart: what a camera adds to the eye leaves the *)
(* tracks, votes and exemptions that the camera before it has left as they   *)
(* were, and every vote stands on a track of its own camera and class, or on *)
(* a detection without a box.                                                *)
THEOREM CamerasApart == Spec => [](AllGrounded(eye) /\ Adds(opened.eye, eye, camera))
<1>1. ShelfInv => AllGrounded(eye) /\ Adds(opened.eye, eye, camera)
    BY DEF ShelfInv, Shelf
<1> QED
    BY <1>1, ShelfHolds, PTL
-----------------------------------------------------------------------------
(* The confidences of votes have a greatest.                                 *)
LEMMA BestIs ==
    ASSUME NEW votes \in Seq(Vote), votes # <<>>
    PROVE  Best(votes) \in Nat
<1> DEFINE n == Len(votes)
           f == [i \in 1 .. n |-> votes[i].conf]
           S == {f[i] : i \in 1 .. n}
<1>1. n \in Nat /\ DOMAIN votes = 1 .. n /\ 1 \in 1 .. n
    OBVIOUS
<1>2. \A i \in 1 .. n : votes[i].conf \in Nat
  <2>1. \A i \in 1 .. n : votes[i] \in Vote
      OBVIOUS
  <2> QED
      BY <2>1 DEF Vote
<1>3. Best(votes) = MaxOf(S)
  <2>1. {votes[i].conf : i \in DOMAIN votes} = S
      BY <1>1
  <2> QED
      BY <2>1 DEF Best
<1>4. S \in SUBSET Nat /\ S # {}
    BY <1>1, <1>2
<1>5. IsFiniteSet(S)
  <2>1. IsFiniteSet(1 .. n)
      BY <1>1, FS_Interval
  <2>2. f \in Surjection(1 .. n, S)
      BY DEF Surjection
  <2> HIDE DEF f, S
  <2> QED
      BY <2>1, <2>2, FS_Surjection
<1> HIDE DEF S
<1>6. Max(S) \in S /\ \A m \in S : m <= Max(S)
    BY <1>4, <1>5, MaxIs
<1>7. MaxOf(S) \in S
    BY <1>6 DEF MaxOf
<1> QED
    BY <1>3, <1>4, <1>7

IsConfidence(c) == c \in 0 .. 10000

LEMMA ConfidenceIs ==
    ASSUME NEW top \in Seq(Vote), NEW side \in Seq(Vote), top # <<>> \/ side # <<>>
    PROVE  IsConfidence(WeightedConfidence(top, side))
<1> DEFINE t == Best(top)
           s == Best(side)
           w == IF top # <<>> /\ side # <<>>
                THEN t * TopWeight + s * SideWeight + (IF t < s THEN t ELSE s) * CommonBonus
                ELSE IF top # <<>> THEN t * TopWeight ELSE s * SideWeight
<1>1. (top # <<>> => t \in Nat) /\ (side # <<>> => s \in Nat)
    BY BestIs
<1>2. WeightedConfidence(top, side) = IF w > 10000 THEN 10000 ELSE w
    BY DEF WeightedConfidence
<1> HIDE DEF t, s
<1>3. w \in Nat
    BY <1>1 DEF TopWeight, SideWeight, CommonBonus
<1> HIDE DEF w
<1> QED
    BY <1>2, <1>3 DEF IsConfidence

(* What TriggerJudgment takes for granted of the candidates it is given.     *)
FitCandidate(c) == c.cls \in Nat /\ c.votes \in Nat \ {0} /\ IsConfidence(c.conf)

FitCandidates(candidates) ==
    /\ \A c \in candidates : FitCandidate(c)
    /\ \A c, d \in candidates : c.cls = d.cls => c = d

LEMMA CombineFits ==
    ASSUME NEW e \in Eye
    PROVE  FitCandidates(Combine(e))
<1>0. e.votes \in Seq(Vote)
    BY EyeFields DEF Eye
<1>1. ASSUME NEW c \in Combine(e)
      PROVE  c = Candidate(e, c.cls) /\ FitCandidate(c)
  <2>1. PICK cls \in Voted(e) : VoteCount(e, cls) > 0 /\ c = Candidate(e, cls)
      BY DEF Combine
  <2> DEFINE top == Effective(e, "top", cls)
             side == Effective(e, "side", cls)
  <2>2. c.cls = cls /\ c.votes = VoteCount(e, cls) /\ c.conf = WeightedConfidence(top, side)
      BY <2>1 DEF Candidate
  <2>3. cls \in Nat
    <3>1. PICK i \in DOMAIN e.votes : cls = e.votes[i].cls
        BY DEF Voted
    <3>2. e.votes[i] \in Vote
        BY <1>0, <3>1
    <3> QED
        BY <3>1, <3>2 DEF Vote
  <2>4. top \in Seq(Vote) /\ side \in Seq(Vote)
      BY <1>0, EffectiveAre, FilteredFrom
  <2>5. VoteCount(e, cls) = Len(top) + Len(side)
      BY DEF VoteCount
  <2> HIDE DEF top, side
  <2>6. VoteCount(e, cls) \in Nat /\ (top # <<>> \/ side # <<>>)
      BY <2>1, <2>4, <2>5
  <2>7. IsConfidence(WeightedConfidence(top, side))
      BY <2>4, <2>6, ConfidenceIs
  <2> QED
      BY <2>1, <2>2, <2>3, <2>6, <2>7 DEF FitCandidate
<1>2. \A c, d \in Combine(e) : c.cls = d.cls => c = d
    BY <1>1
<1> QED
    BY <1>1, <1>2 DEF FitCandidates

(* What the frame loop hands to the judgement is what the judgement asks for *)
(* (combine, and the candidates of JudgmentContext): each class once, with   *)
(* at least one vote that counts and a confidence of at most 100 percent,    *)
(* at every moment and so also when a stop ends the loop early.              *)
THEOREM CandidatesFit == Spec => []FitCandidates(Combine(eye))
<1>1. ShelfInv => FitCandidates(Combine(eye))
    BY CombineFits DEF ShelfInv, Shelf
<1> QED
    BY <1>1, ShelfHolds, PTL
=============================================================================
