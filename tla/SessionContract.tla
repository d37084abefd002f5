-------------------------- MODULE SessionContract --------------------------
(***************************************************************************)
(* What a door session promises whoever is charged for it, with nothing of *)
(* how the service keeps the promise: no clock, queue, worker, barrier or  *)
(* log.  Sessions follow one another; while one is open, and even after,   *)
(* triggers are accepted for it; it ends paid or as an error, and is never *)
(* paid twice.  The bill of a trusted session has every trigger accepted   *)
(* by then, but those of the zones where one could not be judged.          *)
(*                                                                         *)
(* The promise is the one of docs/02 and of the invariants I11, I13 and    *)
(* I17 the code cites; SessionClose is checked against it.                 *)
(***************************************************************************)
EXTENDS Integers, Sequences

CONSTANTS Zone, BlockPayment

VARIABLES
    session,    \* number of the latest session
    open,       \* it can still be paid
    trusted,    \* it began with no work of an earlier one under way
    accepted,   \* all triggers accepted, in order: their session and zone
    paid        \* the bills, in order: the session and the triggers charged

vars == <<session, open, trusted, accepted, paid>>

Init ==
    /\ session = 0 /\ open = FALSE /\ trusted = TRUE
    /\ accepted = <<>> /\ paid = <<>>

Begin ==
    /\ ~open
    /\ session' = session + 1
    /\ open' = TRUE
    /\ trusted' \in BOOLEAN
    /\ UNCHANGED <<accepted, paid>>

Accept ==
    /\ \E z \in Zone : accepted' = Append(accepted, [ses |-> session, zone |-> z])
    /\ UNCHANGED <<session, open, trusted, paid>>

Own == {j \in DOMAIN accepted : accepted[j].ses = session}

(* Some of the triggers may have failed: their zones are not charged, and  *)
(* under BlockPayment there can then be no payment at all.                 *)
RightBills ==
    { {j \in Own : ~\E k \in bad : accepted[k].zone = accepted[j].zone} :
        bad \in IF BlockPayment THEN {{}} ELSE SUBSET Own }

Pay ==
    /\ open
    /\ open' = FALSE
    /\ \E bill \in IF trusted THEN RightBills ELSE SUBSET Own :
          paid' = Append(paid, [ses |-> session, billed |-> bill])
    /\ UNCHANGED <<session, trusted, accepted>>

Fail ==
    /\ open
    /\ open' = FALSE
    /\ UNCHANGED <<session, trusted, accepted, paid>>

Next == Begin \/ Accept \/ Pay \/ Fail

Spec == Init /\ [][Next]_vars
=============================================================================
