------------------------------ MODULE Perception ------------------------------
(* What the service sees in the frames of a trigger: the detection filters   *)
(* (perception/filters.py), the tracks that tell a moved product from one on *)
(* the shelf (perception/motion_evidence.py), the votes (perception/         *)
(* voting.py) and the predicate that ends inference early                    *)
(* (perception/early_termination.py), as a data type: a record and an        *)
(* operator for each method.                                                 *)
(*                                                                           *)
(* Boxes lie on a line: a box is its centre and size in whole pixels, so     *)
(* that distances are exact.  The vertical regions of interest, which the    *)
(* default leaves off, need a second coordinate and are left out, as are the *)
(* tubes and summaries, which only diagnostics read.  Confidences and ratios *)
(* are percentages; "weighted" is scaled by 100 * 100.                       *)
EXTENDS Integers, Sequences, Lists

CONSTANTS
    EntryConf,          \* per camera: least confidence that votes
    HandFloor,          \* per camera: least confidence of a hand
    SideMaxX,           \* side_roi_max_center_x
    HandMargin,         \* hand_margin_px
    FloorPx,            \* floor_px: least movement of a moved product
    MaxJump,            \* max_jump_px
    ReassocWindow,      \* reassoc_window, in inferred frames
    HeadFrames,         \* head_frames: length of the pre-roll's head
    HeldMinHead,        \* held_min_head
    HeldMinStream,      \* held_min_stream
    MeasurableMinObs,   \* measurable_min_obs
    EvidenceOn,         \* motion_evidence_enabled
    ExemptUnmeasured,   \* unmeasurable_policy = "exempt"
    HeldDemotion,       \* held_demotion = "active"
    HandWindow,         \* ratio_denominator = "hand_window"
    MinLead, LeadMargin, HandExit   \* EarlyTerminationConfig

HandHistory  == 30      \* hand_history_frames
TopWeight    == 60
SideWeight   == 40
CommonBonus  == 20
MinVoteRatio == 5
MinVotes     == 3
MinShare     == 10      \* min_vote_share, percent of the leader's votes
ConfFloor    == 0
MaxItems     == 6       \* StrictWeightMatcher.max_items

Camera == {"top", "side"}

(* An answer of the detector; without a box nothing is known of its place.   *)
Detection == [hand : BOOLEAN, cls : Nat, conf : Nat, x : Int, size : Nat, box : BOOLEAN]

Abs(n) == IF n < 0 THEN -n ELSE n
Larger(a, b) == IF a < b THEN b ELSE a
MaxOf(S) == CHOOSE m \in S : \A n \in S : n <= m

Track == [camera : Camera, cls : Nat, at : Int, first : Int, path : Nat, disp : Nat,
          sizes : Nat, n : Nat, matched : Nat, head : Nat, headPath : Nat]
Vote  == [camera : Camera, cls : Nat, conf : Nat, track : Nat]
Eye   == [hands : [Camera -> Seq(Detection)], tracks : Seq(Track), frame : [Camera -> Nat],
          maxPos : [Camera -> Int], exempt : SUBSET (Camera \X Nat), votes : Seq(Vote),
          gate : [Camera -> Nat], inHand : [Camera -> Nat]]

(* Everything perception keeps for one trigger (reset_trigger_state, and the *)
(* ensemble and evidence made afresh by _run_vision).  A vote of track 0 has *)
(* none.                                                                     *)
Unseen ==
    [hands   |-> [c \in Camera |-> <<>>],   \* where hands were, newest last
     tracks  |-> <<>>,
     frame   |-> [c \in Camera |-> 0],      \* frames observed
     maxPos  |-> [c \in Camera |-> -1],
     exempt  |-> {},                        \* camera and class without a box
     votes   |-> <<>>,
     gate    |-> [c \in Camera |-> 0],      \* frames that voted
     inHand  |-> [c \in Camera |-> 0]]      \* those with a hand about
-----------------------------------------------------------------------------
(* filters.apply: hands that are sure enough are kept and remembered; then   *)
(* products outside the side region, or away from where hands have been, go. *)
Hands(camera, raw) ==
    Filtered(raw, LAMBDA d : d.hand /\ (HandFloor[camera] = 0 \/ d.conf >= HandFloor[camera]))

Remember(history, hands) ==
    LET all == history \o Filtered(hands, LAMBDA d : d.box)
    IN  SubSeq(all, Larger(1, Len(all) - HandHistory + 1), Len(all))

Near(d, hand) == 2 * Abs(d.x - hand.x) <= d.size + hand.size + 2 * HandMargin

InSight(camera, history, d) ==
    \/ ~d.box
    \/ /\ camera = "side" => d.x < SideMaxX
       /\ history = <<>> \/ \E i \in DOMAIN history : Near(d, history[i])

Apply(eye, camera, raw) ==
    LET hands   == Hands(camera, raw)
        history == Remember(eye.hands[camera], hands)
    IN  [eye        |-> [eye EXCEPT !.hands[camera] = history],
         detections |-> hands \o Filtered(raw, LAMBDA d :
                            ~d.hand /\ InSight(camera, history, d))]
-----------------------------------------------------------------------------
(* motion_evidence.observe: each product is joined to the nearest track of   *)
(* its camera and class within reach that this frame has not used, or begins *)
(* one.  A track that was lost for a few frames has a longer reach.          *)
Reach(gap) ==   \* twice the radius
    IF 1 < gap /\ gap <= ReassocWindow THEN 3 * MaxJump ELSE 2 * MaxJump

(* Mutant: tracks are joined whatever their class.                           *)
JoinsAny(eye, camera, frame, d) ==
    {t \in DOMAIN eye.tracks :
        LET track == eye.tracks[t] IN
        /\ track.camera = camera
        /\ frame # track.matched
        /\ 2 * Abs(d.x - track.at) <= Reach(frame - track.matched)}

Joins(eye, camera, frame, d) ==
    {t \in DOMAIN eye.tracks :
        LET track == eye.tracks[t]
            gap   == frame - track.matched
        IN  /\ track.camera = camera /\ track.cls = d.cls
            /\ gap # 0
            /\ 2 * Abs(d.x - track.at) <= Reach(gap)}

Nearest(eye, joins, d) ==
    CHOOSE t \in joins : \A u \in joins :
        LET dt == Abs(d.x - eye.tracks[t].at)
            du == Abs(d.x - eye.tracks[u].at)
        IN  dt < du \/ (dt = du /\ t <= u)

Begin(camera, d) ==
    [camera |-> camera, cls |-> d.cls, at |-> d.x, first |-> d.x, path |-> 0, disp |-> 0,
     sizes |-> 0, n |-> 0, matched |-> 0, head |-> 0, headPath |-> 0]

Moved(track, frame, pos, d) ==
    LET step == Abs(d.x - track.at)
        head == IF pos < HeadFrames THEN 1 ELSE 0
    IN  [track EXCEPT !.path = @ + step, !.disp = Larger(@, Abs(d.x - track.first)),
                      !.at = d.x, !.sizes = @ + d.size, !.n = @ + 1, !.matched = frame,
                      !.head = @ + head, !.headPath = @ + head * step]

(* One detection: the track it belongs to, and the tracks after it.          *)
ObserveOne(eye, camera, frame, pos, d) ==
    IF d.hand THEN [eye |-> eye, track |-> 0]
    ELSE IF ~d.box
         THEN [eye |-> [eye EXCEPT !.exempt = @ \cup {<<camera, d.cls>>}], track |-> 0]
         ELSE LET joins == Joins(eye, camera, frame, d)
                  t     == IF joins = {} THEN Len(eye.tracks) + 1
                           ELSE Nearest(eye, joins, d)
                  old   == IF joins = {} THEN Append(eye.tracks, Begin(camera, d))
                           ELSE eye.tracks
              IN  [eye   |-> [eye EXCEPT
                                 !.tracks = [old EXCEPT ![t] = Moved(@, frame, pos, d)],
                                 !.maxPos[camera] = Larger(@, pos)],
                   track |-> t]

Observe(eye, camera, pos, detections) ==
    LET frame == eye.frame[camera] + 1
        Join(acc, d) ==
            LET one == ObserveOne(acc.eye, camera, frame, pos, d)
            IN  [eye |-> one.eye, tracks |-> Append(acc.tracks, one.track)]
    IN  FoldLeft(Join, [eye |-> [eye EXCEPT !.frame[camera] = frame], tracks |-> <<>>],
                 detections)
-----------------------------------------------------------------------------
(* A track has moved if its path or its displacement reaches the floor, or a *)
(* tenth of the mean size of its boxes.                                      *)
Passes(track) ==
    LET far == Larger(track.path, track.disp)
    IN  far >= FloorPx /\ 10 * track.n * far >= track.sizes

Unmeasurable(eye, camera, cls) ==
    LET mine == {t \in DOMAIN eye.tracks :
                    eye.tracks[t].camera = camera /\ eye.tracks[t].cls = cls}
    IN  mine # {} /\ \A t \in mine : eye.tracks[t].n < MeasurableMinObs

TrackQualifies(eye, t) ==
    LET track == eye.tracks[t] IN
    \/ Passes(track)
    \/ /\ ExemptUnmeasured
       /\ track.n < MeasurableMinObs
       /\ Unmeasurable(eye, track.camera, track.cls)

(* Carried in: seen, and moving, from the head of the pre-roll on.           *)
TrackHeld(eye, t) ==
    LET track == eye.tracks[t] IN
    /\ track.head >= HeldMinHead
    /\ track.headPath >= FloorPx
    /\ eye.maxPos[track.camera] + 1 >= HeldMinStream

ClassMotion(eye, camera, cls) ==
    LET mine == {t \in DOMAIN eye.tracks :
                    eye.tracks[t].camera = camera /\ eye.tracks[t].cls = cls}
    IN  \/ <<camera, cls>> \in eye.exempt
        \/ mine = {}
        \/ \E t \in mine : Passes(eye.tracks[t])
        \/ ExemptUnmeasured /\ Unmeasurable(eye, camera, cls)
-----------------------------------------------------------------------------
(* voting.add_frame, called for inferred frames only.                        *)
AddFrame(eye, camera, detections, tracks, handAbout) ==
    LET Cast(votes, i) ==
            LET d == detections[i] IN
            IF d.hand \/ d.conf < EntryConf[camera] THEN votes
            ELSE Append(votes, [camera |-> camera, cls |-> d.cls, conf |-> d.conf,
                                track |-> tracks[i]])
    IN  [eye EXCEPT !.gate[camera] = @ + 1,
                    !.inHand[camera] = @ + (IF handAbout THEN 1 ELSE 0),
                    !.votes = FoldLeft(Cast, @, [i \in 1 .. Len(detections) |-> i])]

Counts(eye, v) ==
    \/ ~EvidenceOn
    \/ IF v.track = 0 THEN ClassMotion(eye, v.camera, v.cls)
       ELSE TrackQualifies(eye, v.track) /\ ~(HeldDemotion /\ TrackHeld(eye, v.track))

Effective(eye, camera, cls) ==
    Filtered(eye.votes, LAMBDA v : v.camera = camera /\ v.cls = cls /\ Counts(eye, v))

Voted(eye) == {eye.votes[i].cls : i \in DOMAIN eye.votes}

VoteCount(eye, cls) == Len(Effective(eye, "top", cls)) + Len(Effective(eye, "side", cls))

TopVotes(eye) == MaxOf({0} \cup {VoteCount(eye, c) : c \in Voted(eye)})

Denominator(eye) ==
    LET Of(c) == IF HandWindow /\ eye.inHand[c] > 0 THEN eye.inHand[c] ELSE eye.gate[c]
    IN  Larger(1, Of("top") + Of("side"))

Best(votes) == MaxOf({votes[i].conf : i \in DOMAIN votes})

WeightedConfidence(top, side) ==
    LET t == Best(top)
        s == Best(side)
        w == IF top # <<>> /\ side # <<>>
             THEN t * TopWeight + s * SideWeight + (IF t < s THEN t ELSE s) * CommonBonus
             ELSE IF top # <<>> THEN t * TopWeight ELSE s * SideWeight
    IN  IF w > 10000 THEN 10000 ELSE w

Candidate(eye, cls) ==
    [cls   |-> cls, votes |-> VoteCount(eye, cls),
     conf  |-> WeightedConfidence(Effective(eye, "top", cls), Effective(eye, "side", cls))]

(* combine: the classes with enough votes, absolutely or by ratio, and not   *)
(* too few beside the leader's.                                              *)
Combine(eye) ==
    {Candidate(eye, cls) : cls \in {c \in Voted(eye) :
        LET n == VoteCount(eye, c) IN
        /\ n > 0
        /\ 100 * n >= MinVoteRatio * Denominator(eye) \/ n >= MinVotes
        /\ 100 * n >= MinShare * TopVotes(eye)
        /\ Candidate(eye, c).conf >= ConfFloor}}
-----------------------------------------------------------------------------
(* early_termination._unique_solution: the one product of the stock a number *)
(* of whose pieces explains the weight; -1 when there is none, or several.   *)
Explains(p, delta, tolerance) ==
    \E n \in 1 .. MaxItems :
        n <= p.stock /\ p.weight > 0 /\ Abs(Abs(delta) - n * p.weight) <= tolerance

UniqueSolution(products, delta, tolerance) ==
    LET fits == {p \in products : Explains(p, delta, tolerance)}
    IN  IF \E p \in fits : fits = {p} THEN (CHOOSE p \in fits : TRUE).cls ELSE -1

(* should_stop: not on returns, not before the hand has been gone a while,   *)
(* and only when the leader of the vote is the unique solution.              *)
Leads(candidates, cls) ==
    \E c \in candidates :
        /\ c.cls = cls /\ c.votes >= MinLead /\ c.votes >= LeadMargin
        /\ \A d \in candidates \ {c} : c.votes - d.votes >= LeadMargin

(* Mutant: any leader will do.                                               *)
ShouldStopOnLead(eye, allowed, delta, tolerance, products, sinceExit) ==
    /\ allowed
    /\ delta < 0
    /\ sinceExit >= HandExit
    /\ UniqueSolution(products, delta, tolerance) # -1
    /\ \E cls \in Voted(eye) : Leads(Combine(eye), cls)

ShouldStop(eye, allowed, delta, tolerance, products, sinceExit) ==
    /\ allowed
    /\ delta < 0
    /\ sinceExit >= HandExit
    /\ LET unique == UniqueSolution(products, delta, tolerance)
       IN  unique # -1 /\ Leads(Combine(eye), unique)
=============================================================================
