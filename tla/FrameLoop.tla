------------------------------ MODULE FrameLoop ------------------------------
(* The frame loop of a trigger (service/pipeline.py, _run_vision) with the   *)
(* motion gate and the hand latch (frames/motion_gate.py).  The frames of    *)
(* the top camera, then those of the side camera, are pulled one at a time;  *)
(* the gate passes or skips each; a frame that passes waits until a batch is *)
(* full, and then the frames of the batch are consumed in turn: filtered,    *)
(* tracked, voted, shown to the latch and to the early terminator, which may *)
(* stop all further inference.  A batch of one is the loop without batches.  *)
(*                                                                           *)
(* Where frames come from (a list, a decoder, PrefetchFrames) makes no       *)
(* difference here beyond that a source may raise.  Of a picture only the    *)
(* scene the gate compares and the detector's answer for it are kept.        *)
EXTENDS Perception

CONSTANTS
    Scene,          \* down-scaled pictures: two differ by more than the threshold
    View,           \* what the detector may answer for a frame
    MaxFrames,      \* bound: frames of each camera
    BatchSize,      \* batch_size
    Keepalive,      \* motion_gate_keepalive
    ExitConfirm,    \* exit_confirm_frames
    EarlyAllowed,   \* early termination on, and allowed by the profile
    Delta,          \* weight changes of the trigger
    Products,       \* the products on sale
    Tolerance       \* tolerance_grams

NoScene == "none"   \* _prev before the first frame

ASSUME LoopAssumption ==
    /\ MaxFrames \in [Camera -> Nat]
    /\ BatchSize \in Nat \ {0}
    /\ Keepalive \in Nat \ {0}
    /\ ExitConfirm \in Nat \ {0}
    /\ NoScene \notin Scene
    /\ View \subseteq Seq(Detection)

VARIABLES
    delta,      \* the weight change of this trigger
    camera,     \* the camera whose frames are pulled
    pc,         \* "pull", "infer" (a batch is being consumed), "done", "failed"
    pos,        \* number of frames pulled of this camera, skipped ones included
    prev,       \* gate: the scene last passed
    skips,      \* gate: consecutive skips
    latch,      \* hand latch: active, pending, frames_since_exit
    pending,    \* frames that passed and wait for inference
    stopped,    \* inference is over
    eye,        \* filters, evidence and votes
    passed,     \* history: positions that passed the gate
    consumed,   \* history: positions consumed
    frames,     \* history: the frames of this camera
    opened      \* history: eye and stopped when this camera began

vars == <<delta, camera, pc, pos, prev, skips, latch, pending, stopped, eye,
          passed, consumed, frames, opened>>

Frame == [scene : Scene, raw : View]
Latch == [active : BOOLEAN, pending : Int, since : Nat]
Open  == [active |-> FALSE, pending |-> 0, since |-> 0]

(* The state is of the declared shape.                                       *)
TypeOK ==
    /\ delta \in Delta /\ camera \in Camera
    /\ pc \in {"pull", "infer", "done", "failed"}
    /\ pos \in 0 .. MaxFrames[camera]
    /\ prev \in Scene \cup {NoScene}
    /\ skips \in 0 .. Keepalive - 1
    /\ latch \in Latch
    /\ pending \in Seq([pos : Nat, raw : View]) /\ Len(pending) <= BatchSize
    /\ stopped \in BOOLEAN
    /\ eye \in Eye /\ opened \in [eye : Eye, stopped : BOOLEAN]
    /\ passed \in Seq(Nat) /\ consumed \in Seq(Nat)
    /\ frames \in Seq(Frame)

Init ==
    /\ delta \in Delta
    /\ camera = "top" /\ pc = "pull" /\ pos = 0
    /\ prev = NoScene /\ skips = 0 /\ latch = Open
    /\ pending = <<>> /\ stopped = FALSE /\ eye = Unseen
    /\ passed = <<>> /\ consumed = <<>> /\ frames = <<>>
    /\ opened = [eye |-> Unseen, stopped |-> FALSE]
-----------------------------------------------------------------------------
(* HandLatch.update_after_inference                                          *)
Updated(l, handNow) ==
    IF handNow THEN [active |-> TRUE, pending |-> ExitConfirm, since |-> 0]
    ELSE IF l.active
         THEN [l EXCEPT !.pending = @ - 1, !.active = l.pending - 1 > 0]
         ELSE [l EXCEPT !.since = @ + 1]

(* Mutant: the keepalive counts one skip too many.                           *)
DecideLate(previous, skipped, active, scene) ==
    previous = NoScene \/ active \/ scene # previous \/ skipped >= Keepalive

(* MotionGate._decide: the first frame, a hand about, a change since the     *)
(* frame last passed, or enough skips in a row.                              *)
Decide(previous, skipped, active, scene) ==
    previous = NoScene \/ active \/ scene # previous \/ skipped + 1 >= Keepalive

(* consume: one inferred frame; the latch is that before this frame.         *)
Consume(s, at, raw) ==
    LET applied == Apply(s.eye, s.camera, raw)
        handNow == \E i \in DOMAIN applied.detections : applied.detections[i].hand
        seen    == Observe(applied.eye, s.camera, at, applied.detections)
        voted   == AddFrame(seen.eye, s.camera, applied.detections, seen.tracks,
                            handNow \/ s.latch.active)
        after   == Updated(s.latch, handNow)
    IN  [s EXCEPT !.eye = voted, !.latch = after,
                  !.stopped = ShouldStop(voted, EarlyAllowed, delta, Tolerance, Products,
                                         after.since)]

Seeing == [eye |-> eye, camera |-> camera, latch |-> latch, stopped |-> stopped]

(* The loop pulls a frame and the gate decides; once stopped it breaks.      *)
Pull(f) ==
    /\ pc = "pull" /\ ~stopped /\ pos < MaxFrames[camera]
    /\ pos' = pos + 1
    /\ frames' = Append(frames, f)
    /\ IF Decide(prev, skips, latch.active, f.scene)
       THEN /\ prev' = f.scene /\ skips' = 0
            /\ passed' = Append(passed, pos)
            /\ pending' = Append(pending, [pos |-> pos, raw |-> f.raw])
            /\ pc' = IF Len(pending) + 1 >= BatchSize THEN "infer" ELSE "pull"
       ELSE /\ skips' = skips + 1
            /\ UNCHANGED <<prev, passed, pending, pc>>
    /\ UNCHANGED <<delta, camera, latch, stopped, eye, consumed, opened>>

(* Mutant: after a stop the rest of the batch is consumed all the same.      *)
InferOn ==
    /\ pc = "infer"
    /\ LET s == Consume(Seeing, Head(pending).pos, Head(pending).raw) IN
       /\ eye' = s.eye /\ latch' = s.latch /\ stopped' = (stopped \/ s.stopped)
       /\ consumed' = Append(consumed, Head(pending).pos)
       /\ pending' = Tail(pending)
       /\ pc' = IF pending' = <<>> THEN "pull" ELSE "infer"
    /\ UNCHANGED <<delta, camera, pos, prev, skips, passed, frames, opened>>

(* flush_pending: one frame of the batch; a stop discards the others.        *)
Infer ==
    /\ pc = "infer"
    /\ LET s == Consume(Seeing, Head(pending).pos, Head(pending).raw) IN
       /\ eye' = s.eye /\ latch' = s.latch /\ stopped' = s.stopped
       /\ consumed' = Append(consumed, Head(pending).pos)
       /\ pending' = IF s.stopped THEN <<>> ELSE Tail(pending)
       /\ pc' = IF pending' = <<>> THEN "pull" ELSE "infer"
    /\ UNCHANGED <<delta, camera, pos, prev, skips, passed, frames, opened>>

(* Mutant: the frames that do not fill a batch are forgotten.                *)
LastBatchLost ==
    /\ pc = "pull" /\ ~stopped /\ pending # <<>>
    /\ pending' = <<>>
    /\ UNCHANGED <<delta, camera, pc, pos, prev, skips, latch, stopped, eye,
                   passed, consumed, frames, opened>>

(* The stream ends with frames still waiting.                                *)
LastBatch ==
    /\ pc = "pull" /\ ~stopped /\ pending # <<>>
    /\ pc' = "infer"
    /\ UNCHANGED <<delta, camera, pos, prev, skips, latch, pending, stopped, eye,
                   passed, consumed, frames, opened>>

(* Mutant: one count of positions for both cameras.                          *)
NextCameraSamePos ==
    /\ pc = "pull" /\ camera = "top" /\ (pending = <<>> \/ stopped)
    /\ camera' = "side"
    /\ prev' = NoScene /\ skips' = 0 /\ latch' = Open /\ pending' = <<>>
    /\ passed' = <<>> /\ consumed' = <<>> /\ frames' = <<>>
    /\ opened' = [eye |-> eye, stopped |-> stopped]
    /\ UNCHANGED <<delta, pc, pos, stopped, eye>>

(* The camera is done: the next one starts with a gate and latch of its own, *)
(* but the votes and a stop stay.                                            *)
NextCamera ==
    /\ pc = "pull" /\ camera = "top" /\ (pending = <<>> \/ stopped)
    /\ camera' = "side" /\ pos' = 0
    /\ prev' = NoScene /\ skips' = 0 /\ latch' = Open /\ pending' = <<>>
    /\ passed' = <<>> /\ consumed' = <<>> /\ frames' = <<>>
    /\ opened' = [eye |-> eye, stopped |-> stopped]
    /\ UNCHANGED <<delta, pc, stopped, eye>>

Finish ==
    /\ pc = "pull" /\ camera = "side" /\ (pending = <<>> \/ stopped)
    /\ pc' = "done"
    /\ UNCHANGED <<delta, camera, pos, prev, skips, latch, pending, stopped, eye,
                   passed, consumed, frames, opened>>

(* A source that raises fails the trigger, after a stop as well: the next    *)
(* frame is pulled before the loop breaks.  So does a detector that raises,  *)
(* or answers a batch with more or fewer results than frames.                *)
Raises ==
    /\ pc \in {"pull", "infer"}
    /\ pc' = "failed"
    /\ UNCHANGED <<delta, camera, pos, prev, skips, latch, pending, stopped, eye,
                   passed, consumed, frames, opened>>

Next ==
    \/ \E f \in Frame : Pull(f)
    \/ Infer \/ LastBatch \/ NextCamera \/ Finish \/ Raises

Spec == Init /\ [][Next]_vars
-----------------------------------------------------------------------------
Waiting == [i \in 1 .. Len(pending) |-> pending[i].pos]

(* Until a stop, what has been consumed and what waits is what passed the    *)
(* gate, in order; after a stop, nothing more is consumed.                   *)
NothingLost ==
    /\ ~stopped => consumed \o Waiting = passed
    /\ stopped => IsPrefix(consumed, passed) /\ pending = <<>>

(* Batching neither loses nor reorders a vote (flush_pending): nothing that  *)
(* passed the gate is lost, and the frames the vote counts are those that    *)
(* were consumed.                                                            *)
EveryPassedFrameVotes ==
    /\ NothingLost
    /\ eye.gate[camera] = opened.eye.gate[camera] + Len(consumed)

(* I16 with batches (MotionGate, the batch_size comment of TriggerPipeline): *)
(* the keepalive bounds the delay.  A frame waits for inference while fewer  *)
(* than (BatchSize - 1) * Keepalive later ones are pulled, so a hand in it   *)
(* is known to the gate by then; and what is skipped was never the last      *)
(* word: the camera's last keepalive frames hold one that passed.            *)
HandSeenInTime ==
    /\ pc = "pull" /\ pending # <<>> =>
        pos - 1 - pending[1].pos < (BatchSize - 1) * Keepalive
    /\ frames # <<>> => passed # <<>> /\ pos - 1 - Last(passed) < Keepalive

(* The loop without batches, over the frames of the camera so far.           *)
PlainStep(s, i) ==
    IF s.stopped THEN s
    ELSE IF ~Decide(s.prev, s.skips, s.latch.active, frames[i].scene)
         THEN [s EXCEPT !.skips = @ + 1]
         ELSE Consume([s EXCEPT !.prev = frames[i].scene, !.skips = 0,
                                !.consumed = Append(@, i - 1)],
                      i - 1, frames[i].raw)

Plain ==
    FoldLeft(PlainStep,
             [eye |-> opened.eye, camera |-> camera, latch |-> Open,
              stopped |-> opened.stopped, prev |-> NoScene, skips |-> 0,
              consumed |-> <<>>],
             [i \in 1 .. Len(frames) |-> i])

HandFree == \A i \in DOMAIN frames : Hands(camera, frames[i].raw) = <<>>

(* Batches do not change a judgement (consume: the condition under which     *)
(* batching was accepted): while no hand has been seen, or with batches of   *)
(* one, the votes, the frames consumed and the stop are those of the loop    *)
(* that infers each frame at once.  A hand makes the batched gate skip       *)
(* frames the other would not.                                               *)
BatchesLikeFrames ==
    pc = "pull" /\ pending = <<>> /\ (HandFree \/ BatchSize = 1) =>
        /\ consumed = Plain.consumed
        /\ eye = Plain.eye
        /\ stopped = Plain.stopped

(* An early stop is not overtaken (should_stop, with flush_pending and the   *)
(* cameras' order): the votes it was decided on are those the trigger is     *)
(* judged by, so what leads them explains the weight, as nothing else does.  *)
StopIsFinal ==
    stopped => Leads(Combine(eye), UniqueSolution(Products, delta, Tolerance))

(* What lies on the shelf: the camera sees products of this class in a box,  *)
(* and each where it, or one out of reach of its track, has been before.     *)
LiesStill(cls) ==
    \A i, j \in DOMAIN frames :
        \A m \in DOMAIN frames[i].raw, n \in DOMAIN frames[j].raw :
            LET d == frames[i].raw[m]
                e == frames[j].raw[n]
            IN  ~d.hand /\ ~e.hand /\ d.cls = cls /\ e.cls = cls =>
                    d.box /\ (d.x = e.x \/ 2 * Abs(d.x - e.x) > 3 * MaxJump)

(* Only movement counts: the evidence is used, has a floor, and makes no     *)
(* exception for tracks too short to be measured.                            *)
MovementCounts == EvidenceOn /\ ~ExemptUnmeasured /\ FloorPx \in Nat \ {0} /\ MaxJump \in Nat

(* The shelf does not vote (track_qualifies): whatever moved past it, a      *)
(* product that has only lain still for this camera is a candidate by votes  *)
(* of the camera before, or not at all.                                      *)
ShelfHasNoVote ==
    MovementCounts => \A c \in Combine(eye) :
        LiesStill(c.cls) => VoteCount(opened.eye, c.cls) > 0
=============================================================================
