----------------------------- MODULE MCFrameLoop -----------------------------
(* A small instance of FrameLoop: product 1 lies at 0 and at 100, product    *)
(* 2 is taken from 30 by way of 60, a hand may be in the picture.            *)
EXTENDS FrameLoop

Seen(c, x)  == [hand |-> FALSE, cls |-> c, conf |-> 80, x |-> x, size |-> 20, box |-> TRUE]
Faint(c, x) == [Seen(c, x) EXCEPT !.conf = 50]
HandAt(x)   == [hand |-> TRUE, cls |-> 0, conf |-> 80, x |-> x, size |-> 20, box |-> TRUE]

Views ==
    {<<>>, <<Seen(1, 0), Seen(1, 100), Faint(2, 30)>>, <<Seen(2, 60)>>,
     <<Seen(1, 0), Seen(2, 60), HandAt(40)>>}

SomeFrames == [c \in Camera |-> IF c = "top" THEN 4 ELSE 2]
Floor70    == [c \in Camera |-> 70]
NoFloor    == [c \in Camera |-> 0]
Stock      == {[cls |-> 1, weight |-> 100, stock |-> 2],
               [cls |-> 2, weight |-> 250, stock |-> 2]}
Deltas     == {-250, -100}
=============================================================================
