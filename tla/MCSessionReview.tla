--------------------------- MODULE MCSessionReview ---------------------------
(* Small instances of SessionReview: zones 1 and 2 are refrigerated, zones 3 *)
(* and 4 freezers; three products, two of them of nearly the same weight.    *)
EXTENDS SessionReview

Product(c, w, s) == [cls |-> c, weight |-> w, stock |-> s]
Candidate(c, f, v) == [cls |-> c, conf |-> f, votes |-> v]

Profiles == <<Refrigerator, Refrigerator, Freezer, Freezer>>
OnSale   == <<Product(1, 100, 2), Product(2, 104, 1), Product(3, 208, 2)>>

Tray(d) == [delta |-> d, segments |-> <<d>>]

Trigger(z, at, video, list, candidates) ==
    [zone |-> z, at |-> at, video |-> video, ok |-> TRUE, trays |-> list,
     visionOnly |-> FALSE, candidates |-> candidates]

Event(z, at, video, delta, candidates) == Trigger(z, at, video, <<Tray(delta)>>, candidates)

Pair(c, d, f)   == <<Candidate(c, f, 8), Candidate(d, 72, 4)>>
Triple(f, g, h) == <<Candidate(3, f, 8), Candidate(1, g, 5), Candidate(2, h, 3)>>
Crowd           == <<Candidate(2, 72, 8), Candidate(3, 72, 4), Candidate(1, 72, 3)>>
One(c, v)       == <<Candidate(c, 72, v)>>
Pairs == {<<1, 2>>, <<1, 3>>, <<2, 3>>}
Seens == {Pair(p[1], p[2], f) : p \in Pairs, f \in {40, 96}}
         \cup {One(1, 2), One(1, 8), One(2, 8), <<Candidate(1, 72, 8), Candidate(2, 72, 2)>>}
         \cup {Triple(40, 72, 72), Triple(96, 72, 40), Triple(40, 40, 72)}

Events(z, at, video) ==
    {Event(z, at, video, d, s) : d \in {-102, -118, -206}, s \in Seens}
    \cup {Event(z, at, video, 100, One(1, 8))}

(* Two trays: bills above the stock, which a review may change or leave; in  *)
(* the freezer a refit among them.  A trigger that raises, one that cannot   *)
(* trust its load cells, one with too small a change.                        *)
Several(z, at, video) ==
    {Trigger(z, at, video, list, s) :
        list \in {<<Tray(-107), Tray(-107)>>, <<Tray(-206), Tray(-206)>>,
                  <<Tray(-102), Tray(-206)>>, <<Tray(-118), Tray(-206)>>},
        s \in {One(2, 8), Pair(1, 3, 96), Pair(3, 2, 40), Crowd, Triple(40, 72, 72)}}
Odd(z, at, video) ==
    {[Event(z, at, video, -102, One(1, 8)) EXCEPT !.ok = FALSE],
     [Event(z, at, video, -102, One(1, 8)) EXCEPT !.visionOnly = TRUE],
     Event(z, at, video, -3, One(1, 8))}

(* Two triggers: at once, one within the other's window, apart, apart but in *)
(* one recording.  Three: a chain of scenes, a scene of its own, twins.      *)
Near(z)  == Events(z, {10}, 2) \cup Events(z, {14, 30}, 0)
Apart(z) == {Event(z, {40}, video, d, s) : video \in {0, 1}, d \in {-102, -118},
                s \in {Pair(1, 2, 96), Pair(2, 3, 40), One(1, 8), One(1, 2)}}
Few(z, at) == {Event(z, {at}, 0, d, s) : d \in {-102, -118},
                                         s \in {Pair(1, 2, 96), Pair(2, 3, 40), One(1, 8)}}
Twins(y, z, x) == {<<e, [e EXCEPT !.zone = z], g>> : e \in Events(y, {10}, 0),
                                                    g \in Events(x, {12}, 0)}
Logs == Twins(1, 2, 3) \cup Twins(3, 4, 1)
        \cup {<<e, f>> : e \in Events(1, {10}, 1), f \in Near(2) \cup Near(4) \cup Apart(2)}
        \cup {<<e, f>> : e \in Events(3, {10}, 1), f \in Near(4) \cup Apart(4)}
        \cup {<<e, f>> : e \in Several(1, {10}, 1) \cup Several(3, {10}, 1) \cup Odd(1, {10}, 1),
                         f \in Several(2, {10}, 2) \cup Several(4, {14, 30}, 0)
                              \cup Events(2, {10}, 2) \cup Apart(4)}
        \cup {<<e, f, g>> : e \in Few(1, 10), f \in Few(4, 14),
                             g \in Few(2, 18) \cup Few(3, 40) \cup Few(1, 40)}
Modes == {"shadow", "active"}
=============================================================================
