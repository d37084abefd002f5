----------------------------- MODULE SessionReview -----------------------------
(* The second look a CLOSE takes at a session's judgements before it adds    *)
(* them up.  What one trigger cannot know is there now: a product seen in    *)
(* several zones that no weight ever confirmed is a ghost (a print on a      *)
(* shirt; ledger/ghost_ledger.py), and a product judged in one zone may have *)
(* been seen in the video of another (ledger/cross_zone.py).  Such           *)
(* candidates lose half of their votes and confidence, and the events they   *)
(* belong to are judged again, without inference.                            *)
(*                                                                           *)
(* An event of the log has a zone, the times of its weight changes in        *)
(* seconds, its recording (0 when unknown), and what its trigger left: the   *)
(* weight, what was seen and the verdict, merged where there were trays.     *)
EXTENDS Trays

CONSTANTS
    Sessions,       \* what may happen in a session: triggers not judged yet
    ProfileOf,      \* the profile of each zone
    Products,       \* the products on sale
    GhostMode,      \* modes: "off", "shadow", "active"
    CrossZone       \* enabled

(* What a trigger is given; ok says that nothing is going to raise.          *)
TriggerType ==
    [zone : DOMAIN ProfileOf, at : (SUBSET Int) \ {{}}, video : Nat, ok : BOOLEAN,
     trays : Seq(TrayType), visionOnly : BOOLEAN, candidates : Seq(CandidateType)]

ASSUME ReviewAssumption ==
    /\ \A zone \in DOMAIN ProfileOf :
          ProfileOf[zone] \in ProfileType /\ ProfileOf[zone].tolerance >= NearestGrams
    /\ Products \in Seq(ProductType)
    /\ \A session \in Sessions :
          /\ session \in Seq(TriggerType)
          /\ \A k \in DOMAIN session : Distinct(session[k].candidates)

MinZones  == 2      \* GhostLedgerConfig
VoteFloor == 3
Reach     == 5      \* replay_s + epsilon_s, and trigger_s + epsilon_s
SureEnough == 3500  \* source_conf_min
FitMargin == 5      \* _SELF_FIT_MARGIN_G
MaxCount  == 6

VARIABLES
    came,       \* the log of the session
    haunted,    \* the events after the first pass, as far as it has got
    out,        \* the events after the second
    mode        \* of the first pass

reviewVars == <<came, haunted, out, mode>>

Halved(e, classes) ==   \* _penalize_candidates
    [k \in DOMAIN e.candidates |->
        LET c == e.candidates[k]
        IN  IF c.cls \in classes THEN [c EXCEPT !.conf = @ \div 2, !.votes = @ \div 2] ELSE c]

ContextOf(e, candidates) ==
    [profile |-> ProfileOf[e.zone], delta |-> e.delta, segments |-> e.segments,
     candidates |-> candidates, products |-> Products, visionOnly |-> FALSE]

ClassOf(p)     == Products[p].cls
Billed(e)      == {ClassOf(p) : p \in DOMAIN e.verdict.bill}
SeenIn(e)      == {e.candidates[k].cls : k \in DOMAIN e.candidates}
Reviewable(e)  == e.ok /\ e.delta < 0 /\ e.candidates # <<>>
SameBill(v, w) == v.bill = w.bill
Decided(v)     == v.status = "complete" /\ v.bill # Empty
-----------------------------------------------------------------------------
(* When one event was in the picture of another.                             *)
InWindow(e, other) == {t \in other.at : Min(e.at) - Reach <= t /\ t <= Max(e.at) + Reach}
Overlap(e, f)      == InWindow(e, f) # {} /\ InWindow(f, e) # {}
-----------------------------------------------------------------------------
(* The ghosts of a session.  Events that share a recording or a moment, even *)
(* through others, are one episode.                                          *)
SameScene(e, f) == (e.video # 0 /\ e.video = f.video) \/ Overlap(e, f)

(* Mutant: not through others.                                               *)
OneEpisodeDirectly(events, i, j) == i = j \/ SameScene(events[i], events[j])

OneEpisode(events, i, j) ==
    \A S \in SUBSET DOMAIN events :
        i \in S /\ (\A k \in S, l \in DOMAIN events \ S : ~SameScene(events[k], events[l]))
            => j \in S

WeightBacked(events) ==
    UNION {Billed(events[k]) : k \in {j \in DOMAIN events :
        /\ events[j].ok /\ events[j].verdict.status = "complete"
        /\ events[j].verdict.reason \notin Refitted}}

Ghosts(events) ==
    LET taken == Filtered(events, LAMBDA e : e.ok /\ e.delta < 0)
        Sightings(c) == {k \in DOMAIN taken :
                            \E i \in DOMAIN taken[k].candidates :
                                /\ taken[k].candidates[i].cls = c
                                /\ taken[k].candidates[i].votes >= VoteFloor}
    IN  {c \in UNION {SeenIn(taken[k]) : k \in DOMAIN taken} :
            /\ c > 0 /\ c \notin WeightBacked(events)
            /\ Cardinality({taken[k].zone : k \in Sightings(c)}) >= MinZones
            /\ \E i, j \in Sightings(c) : ~OneEpisode(taken, i, j)}

(* What the first pass makes of an event.                                    *)
Adopted(e, halved, found, again) ==
    IF Billed(e) \cap found # {} /\ Decided(again) /\ ~SameBill(again, e.verdict)
    THEN [halved EXCEPT !.verdict = again]
    ELSE halved

Exorcised(e, ghosts) ==
    LET found  == SeenIn(e) \cap ghosts
        halved == Halved(e, found)
    IN  IF ~Reviewable(e) \/ found = {} THEN e
        ELSE Adopted(e, [e EXCEPT !.candidates = halved], found,
                     Judge(ContextOf(e, halved)))
-----------------------------------------------------------------------------
(* The second pass.  What other zones were charged for, surely enough, while *)
(* this one was recorded.                                                    *)
Sources(e, events) ==
    UNION {Billed(events[k]) : k \in {j \in DOMAIN events :
        /\ events[j].zone # e.zone /\ events[j].ok
        /\ InWindow(e, events[j]) # {}
        /\ events[j].verdict.conf >= SureEnough}}

(* How far the bill is from the weight, if weights are on record.            *)
Comparable(e) == \A p \in DOMAIN e.verdict.bill : Products[p].weight > 0
Misfit(e)     == Distance(Size(e.delta), Weight(ContextOf(e, <<>>), e.verdict.bill))

Alternatives(e, cls) ==
    {w \in Stocked(ContextOf(e, <<>>)) \X (1 .. MaxCount) :
        /\ ClassOf(w[1]) \in SeenIn(e) \ {cls}
        /\ Products[w[1]].weight > 0 /\ w[2] <= Products[w[1]].stock}

FitOf(e, w) == Distance(Size(e.delta), w[2] * Products[w[1]].weight)

(* _self_fit_prefers_alternative                                             *)
Unfit(e, cls) ==
    /\ Cardinality(DOMAIN e.verdict.bill) = 1 /\ Comparable(e)
    /\ \E w \in Alternatives(e, cls) : FitOf(e, w) + FitMargin <= Misfit(e)

(* Two zones that were judged the same product in one scene would each take  *)
(* it from the other: the one the weight speaks for keeps it, or both.       *)
(* Mutant: the better fit keeps it, so that in a tie nobody does.            *)
KeepsBetter(e, f, cls) == Misfit(e) < Misfit(f)

Keeps(e, f, cls) ==
    IF Unfit(e, cls) # Unfit(f, cls) THEN Unfit(f, cls)
    ELSE ~Comparable(e) \/ ~Comparable(f) \/ Misfit(e) <= Misfit(f)

Rivals(e, f, cls) ==
    /\ e.zone # f.zone /\ e.ok /\ f.ok
    /\ e.verdict.conf >= SureEnough /\ f.verdict.conf >= SureEnough
    /\ cls > 0 /\ cls \in Billed(e) \cap Billed(f)
    /\ Overlap(e, f)

Exempt(zone, cls, events) ==
    \E i, j \in DOMAIN events :
        /\ events[i].zone = zone
        /\ Rivals(events[i], events[j], cls) /\ Keeps(events[i], events[j], cls)

(* _weight_ambiguous                                                         *)
Ambiguous(e) ==
    LET gate == IF ProfileOf[e.zone].discriminative THEN ProfileOf[e.zone].tolerance
                ELSE ProfileOf[e.zone].gate
    IN  Cardinality({w[1] : w \in {v \in Alternatives(e, 0) : FitOf(e, v) <= gate}}) >= 2

(* A judgement that is not complete takes nothing away but products another  *)
(* zone accounts for, from a bill that was not complete either.              *)
(* Mutant: it replaces the bill.                                             *)
PrunedAnyway(e, again, penalized) == [e EXCEPT !.verdict = again]

Pruned(e, again, penalized) ==
    LET left == [p \in {q \in DOMAIN e.verdict.bill : ClassOf(q) \notin penalized} |->
                    e.verdict.bill[p]]
    IN  IF \/ e.verdict.status # "partial" \/ left = e.verdict.bill
           \/ again.bill # Empty /\ SameBill(again, e.verdict)
        THEN e
        ELSE IF left # Empty THEN [e EXCEPT !.verdict.bill = left]
        ELSE [e EXCEPT !.verdict =
                 NoDetection("cross_zone_contaminated_partial_suppressed")]

(* _repass_event                                                             *)
Repassed(e, again, penalized) ==
    IF ~Decided(again) THEN Pruned(e, again, penalized)
    ELSE IF SameBill(again, e.verdict) THEN e
    ELSE [e EXCEPT !.verdict = again]

Reviewed(e, events) ==
    LET penalized == {c \in SeenIn(e) \cap Sources(e, events) :
                         c > 0 /\ ~Exempt(e.zone, c, events)}
    IN  IF \/ ~Reviewable(e) \/ penalized = {}
           \/ e.verdict.status = "complete" /\ ~Ambiguous(e)
        THEN e
        ELSE Repassed(e, Judge(ContextOf(e, Halved(e, penalized))), penalized)
-----------------------------------------------------------------------------
(* The event a trigger leaves in the log.                                    *)
LeftBy(t) ==
    IF t.ok
    THEN Outcome(Zone(ProfileOf[t.zone], Products, t.candidates, t.trays, t.visionOnly), t.trays)
    ELSE Failure

Logged(t) ==
    Value({[zone |-> t.zone, at |-> t.at, video |-> t.video, ok |-> t.ok,
            delta |-> left.delta, segments |-> left.segments,
            candidates |-> left.candidates, verdict |-> left.verdict] : left \in {LeftBy(t)}})

ReviewInit ==
    /\ \E session \in Sessions : came = [k \in DOMAIN session |-> Logged(session[k])]
    /\ mode \in GhostMode
    /\ haunted = <<>> /\ out = <<>>

(* apply_ghost_demotion: event by event, the ghosts fixed beforehand.  In    *)
(* shadow mode it only takes notes.                                          *)
Exorcise ==
    /\ Len(haunted) < Len(came)
    /\ LET e == came[Len(haunted) + 1]
       IN  haunted' = Append(haunted, IF mode = "active" /\ Products # <<>>
                                      THEN Exorcised(e, Ghosts(came)) ELSE e)
    /\ UNCHANGED <<came, out, mode>>

(* What the second pass compares an event with.  Mutant: with what it has    *)
(* already changed.                                                          *)
LogChanging == out \o SubSeq(haunted, Len(out) + 1, Len(haunted))
Log         == haunted

(* apply_cross_zone_penalty                                                  *)
Penalize ==
    /\ Len(haunted) = Len(came) /\ Len(out) < Len(came)
    /\ LET e == haunted[Len(out) + 1]
       IN  out' = Append(out, IF CrossZone /\ Products # <<>> THEN Reviewed(e, Log) ELSE e)
    /\ UNCHANGED <<came, haunted, mode>>

ReviewNext == Exorcise \/ Penalize

ReviewSpec == ReviewInit /\ [][ReviewNext]_reviewVars

Done == Len(out) = Len(came)
-----------------------------------------------------------------------------
(* What is reviewed is the session: events keep their place, their weight    *)
(* and what could have been seen.  A review charges for nothing beyond the   *)
(* stock: of a product it leaves what the trigger charged (the merge of the  *)
(* trays has no regard to the stock), or no more pieces than there are.      *)
ReviewTypeOK ==
    /\ mode \in GhostMode
    /\ Len(out) <= Len(haunted) /\ Len(haunted) <= Len(came)
    /\ \A k \in DOMAIN out :
          /\ out[k].zone = came[k].zone /\ out[k].delta = came[k].delta
          /\ SeenIn(out[k]) = SeenIn(came[k])
          /\ \A p \in DOMAIN out[k].verdict.bill :
                \/ out[k].verdict.bill[p] = Count(came[k].verdict.bill, p)
                \/ out[k].verdict.bill[p] \in 1 .. Products[p].stock

(* R2 (cross_zone.py, gate 6; ghost_ledger.py, "adoptable"): a review never  *)
(* leaves an event worse than it was.  A bill changes only to one that       *)
(* explains the whole weight, or, if it did not explain it, by losing        *)
(* products that another zone is charged for after the first pass.           *)
ReviewImproves ==
    \A k \in DOMAIN out :
        LET before == came[k].verdict
            after  == out[k].verdict
        IN  \/ after.bill = before.bill /\ after.status = before.status
            \/ /\ after.status = "complete"
               /\ Distance(Size(came[k].delta), Weight(ContextOf(came[k], <<>>), after.bill))
                      <= Allowed(ContextOf(came[k], <<>>), Pieces(after.bill))
            \/ /\ before.status = "partial"
               /\ \A p \in DOMAIN after.bill : Count(before.bill, p) = after.bill[p]
               /\ \A p \in DOMAIN before.bill \ DOMAIN after.bill :
                     \E j \in DOMAIN came :
                         came[j].zone # came[k].zone /\ ClassOf(p) \in Billed(haunted[j])

(* _mutual_exemptions ("the invariant against mutual extinction"): a product *)
(* that two zones were charged for in one scene is still charged in one of   *)
(* them when both have been reviewed, if nothing else they saw was charged   *)
(* elsewhere.                                                                *)
SharedSurvives ==
    Done => \A i, j \in DOMAIN out : \A cls \in Billed(haunted[i]) :
        /\ Rivals(haunted[i], haunted[j], cls)
        /\ \A k \in {i, j} : SeenIn(haunted[k]) \cap Sources(haunted[k], haunted) = {cls}
        => cls \in Billed(out[i]) \cup Billed(out[j])

(* The events of a session have no order (triggers of several zones arrive   *)
(* late and out of order): two that differ only in their zone and recording  *)
(* are charged the same, whichever is reviewed first.                        *)
Mirror(i, j) ==
    /\ came[i] = [came[j] EXCEPT !.zone = came[i].zone, !.video = came[i].video]
    /\ ProfileOf[came[i].zone] = ProfileOf[came[j].zone]
    /\ \A k \in DOMAIN came \ {i, j} : came[k].zone \notin {came[i].zone, came[j].zone}

EventsHaveNoOrder ==
    Done => \A i, j \in DOMAIN out : Mirror(i, j) => out[i].verdict = out[j].verdict

(* A product of one scene is no ghost (_episode_ids, issue 22): what was     *)
(* seen only by zones that recorded one and the same removal keeps its votes *)
(* and its confidence, however many zones there were.                        *)
SightingsOf(c) == {k \in DOMAIN came : c \in SeenIn(came[k])}

OneSceneIsNoEvidence ==
    \A c \in UNION {SeenIn(came[k]) : k \in DOMAIN came} :
        (\E h \in DOMAIN came : /\ came[h].ok /\ came[h].delta < 0
                                /\ \A k \in SightingsOf(c) : Overlap(came[h], came[k]))
        => \A k \in DOMAIN haunted : \A i \in DOMAIN came[k].candidates :
               came[k].candidates[i].cls = c =>
                   haunted[k].candidates[i] = came[k].candidates[i]
=============================================================================
