---------------------------- MODULE FrameStream ----------------------------
(***************************************************************************)
(* What a camera stream promises the inference loop, prefetched or not:    *)
(* the frames of its source one by one in their order, then the end of     *)
(* the stream or the source's exception; the loop may close it before.     *)
(* This is iteration over the source itself, the behaviour that            *)
(* frames/prefetch.py says it keeps.                                       *)
(***************************************************************************)
EXTENDS Naturals, Sequences

CONSTANT MaxFrames

VARIABLES
    total,      \* frames the source has: they are numbered 1 .. total
    raises,     \* after them the source raises instead of ending
    given,      \* frames handed to the loop
    result      \* how the stream ended for the loop

vars == <<total, raises, given, result>>

Init ==
    /\ total \in 0 .. MaxFrames /\ raises \in BOOLEAN
    /\ given = <<>>
    /\ result = "open"

Give ==
    /\ result = "open" /\ Len(given) < total
    /\ given' = Append(given, Len(given) + 1)
    /\ UNCHANGED <<total, raises, result>>

End ==
    /\ result = "open" /\ Len(given) = total
    /\ result' = IF raises THEN "raised" ELSE "exhausted"
    /\ UNCHANGED <<total, raises, given>>

Close ==
    /\ result = "open"
    /\ result' = "closed"
    /\ UNCHANGED <<total, raises, given>>

Next == Give \/ End \/ Close

Spec == Init /\ [][Next]_vars
=============================================================================
