------------------------- MODULE MCTriggerJudgment -------------------------
(* A small instance of TriggerJudgment: two products of nearly the same     *)
(* weight and a heavy one; two of one weight and one of no known class; none.*)
EXTENDS TriggerJudgment

Product(c, w, s) == [cls |-> c, weight |-> w, stock |-> s]
Candidate(c, f, v) == [cls |-> c, conf |-> f, votes |-> v]
Event(d, s) == [delta |-> d, segments |-> s]

Both == {Refrigerator, Freezer}
Shops == {<<Product(1, 100, 2), Product(2, 110, 3), Product(3, 220, 1)>>,
          <<Product(1, 100, 1), Product(2, 100, 2), Product(-1, 205, 2)>>, <<>>}

Of(c)   == {Candidate(c, f, v) : f \in {30, 70, 96}, v \in {2, 10}}
Seens   == {<<>>, <<Candidate(5, 96, 10)>>}
           \cup {<<a>> : a \in Of(1) \cup Of(3)}
           \cup {<<a, b>> : a \in Of(1), b \in Of(2)}
           \cup {<<a, b>> : a \in Of(2), b \in Of(3)}
           \cup {<<Candidate(1, f, 2), b, Candidate(3, 70, 10)>> : f \in {30, 96}, b \in Of(2)}

One     == {Event(-100, <<-100>>), Event(-108, <<-108>>), Event(-130, <<-100>>),
            Event(-205, <<-100, -105>>), Event(-212, <<-212>>), Event(-220, <<-110, -108>>),
            Event(-60, <<>>), Event(-3, <<>>), Event(-320, <<-220, -100>>)}
Few     == {Event(-100, <<-100>>), Event(-120, <<-120>>), Event(-130, <<-100>>),
            Event(-220, <<-220>>), Event(100, <<100>>)}
SomeEvents == {<<>>} \cup {<<e>> : e \in One} \cup {<<e, f>> : e, f \in Few}
              \cup {<<Event(-100, <<-100>>), e, e>> : e \in Few}
-----------------------------------------------------------------------------
(* What the settlement's documentation claims and the merge does not keep.   *)

(* docs/03-judgment-and-settlement.md:330: a removal adds the products       *)
(* judged, a return is matched by weight and deducted.  Then a trigger that  *)
(* counts as a removal would be charged for what its lighter trays were      *)
(* judged, and for nothing that came back.                                   *)
ReturnsAreNotCharged ==
    pc = "done" /\ ctx.delta < 0 /\ Len(verdicts) = Len(trays) =>
        \A p \in DOMAIN result.bill :
            result.bill[p] <= Sum([k \in DOMAIN trays |->
                IF trays[k].delta < 0 THEN Count(verdicts[k].verdict.bill, p) ELSE 0])
=============================================================================
