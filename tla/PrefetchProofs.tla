--------------------------- MODULE PrefetchProofs ---------------------------
(***************************************************************************)
(* PrefetchFrames keeps the order of its source, leaves at most one item   *)
(* behind, and implements FrameStream, for every depth of the queue and    *)
(* every length of the source.                                             *)
(*                                                                         *)
(* The inductive invariant adds to TypeOK and Pipeline where the two       *)
(* threads stand: what the producer holds (ProducerInv), what the consumer *)
(* has been told (ConsumerInv), and that the put which may still follow a  *)
(* stop is counted with what is in the queue (LeftInv).                    *)
(***************************************************************************)
EXTENDS PrefetchFrames, TLAPS

ProducerInv ==
    /\ pc = "pull" => sourceOpen
    /\ pc = "ended" => ~sourceOpen
    /\ pc \in {"check", "put"} =>
          hand = (IF sourceOpen THEN pulled ELSE Sentinel) /\ (sourceOpen => pulled > 0)
    /\ ~stop /\ (pc = "close" \/ ~sourceOpen) => pulled = total /\ error = raises

ConsumerInv ==
    /\ stop <=> result # "open"
    /\ cpc = "getting" => ~stop
    /\ cpc \in {"draining", "joining"} => stop

LeftInv == (stop /\ cpc \in {"idle", "joining"}) => Len(queue) + InPut <= 1

Inv == TypeOK /\ Pipeline /\ ProducerInv /\ ConsumerInv /\ LeftInv

LEMMA InvInit == Init => Inv
<1> SUFFICES ASSUME Init PROVE Inv
    OBVIOUS
<1> USE PrefetchAssumption DEF PrefetchAssumption, Init, Sentinel
<1>1. TypeOK
  <2>1. queue \in Seq(0 .. total) /\ Len(queue) <= Depth /\ given \in Seq(1 .. total)
      OBVIOUS
  <2>2. 0 \in 0 .. total
      OBVIOUS
  <2> QED
      BY <2>1, <2>2 DEF TypeOK
<1>2. Pipeline
    BY DEF Pipeline, Held
<1>3. ProducerInv /\ ConsumerInv /\ LeftInv
    BY DEF ProducerInv, ConsumerInv, LeftInv, InPut
<1> QED
    BY <1>1, <1>2, <1>3 DEF Inv

-----------------------------------------------------------------------------
(* The producer's steps, one invariant at a time.                          *)
LEMMA PullStep == Inv /\ Pull => Inv'
<1> SUFFICES ASSUME Inv, Pull PROVE Inv'
    OBVIOUS
<1> USE DEF Pull, source, consumer
<1>1. TypeOK'
  <2>1. pulled' \in 0 .. total /\ hand' \in 0 .. total
      BY PrefetchAssumption DEF Inv, TypeOK, PrefetchAssumption
  <2>2. error' \in BOOLEAN
      BY DEF Inv, TypeOK
  <2>3. pc' \in {"pull", "check", "put", "close", "ended"} /\ queue' = queue /\ total' = total
      OBVIOUS
  <2>4. UNCHANGED <<raises, sourceOpen, stop, cpc, given, result>>
      OBVIOUS
  <2> HIDE DEF Pull
  <2> QED
      BY <2>1, <2>2, <2>3, <2>4 DEF Inv, TypeOK
<1>2. Pipeline'
  <2>1. pc # "ended" /\ pc' # "ended" /\ UNCHANGED <<given, queue, stop>>
      OBVIOUS
  <2>2. Len(given) \in Nat /\ Len(queue) \in Nat /\ pulled \in Nat
      BY PrefetchAssumption DEF Inv, TypeOK, PrefetchAssumption
  <2>3. Held = 0 /\ Held' = pulled' - pulled
      BY <2>2 DEF Held, Inv, ProducerInv
  <2>4. pulled' \in Nat
      BY <2>2
  <2> HIDE DEF Pull
  <2> QED
      BY <2>1, <2>2, <2>3, <2>4 DEF Inv, Pipeline
<1>3. ProducerInv'
    BY DEF Inv, TypeOK, ProducerInv, Sentinel
<1>4. ConsumerInv' /\ LeftInv'
    BY DEF Inv, ConsumerInv, LeftInv, InPut
<1> QED
    BY <1>1, <1>2, <1>3, <1>4 DEF Inv

LEMMA CloseSourceStep == Inv /\ CloseSource => Inv'
<1> SUFFICES ASSUME Inv, CloseSource PROVE Inv'
    OBVIOUS
<1> USE DEF CloseSource, source, consumer
<1>1. TypeOK'
  <2>1. hand' \in 0 .. total' /\ pc' \in {"pull", "check", "put", "close", "ended"}
      BY PrefetchAssumption DEF Inv, TypeOK, PrefetchAssumption, Sentinel
  <2> QED
      BY <2>1 DEF Inv, TypeOK
<1>2. Pipeline'
    BY DEF Inv, TypeOK, Pipeline, ProducerInv, Held, Sentinel
<1>3. ProducerInv'
    BY DEF Inv, TypeOK, ProducerInv, Sentinel
<1>4. ConsumerInv' /\ LeftInv'
    BY DEF Inv, ConsumerInv, LeftInv, InPut
<1> QED
    BY <1>1, <1>2, <1>3, <1>4 DEF Inv

LEMMA CheckStopStep == Inv /\ CheckStop => Inv'
<1> SUFFICES ASSUME Inv, CheckStop PROVE Inv'
    OBVIOUS
<1> USE DEF CheckStop, source, consumer
<1>1. TypeOK'
    BY DEF Inv, TypeOK
<1>2. Pipeline'
    BY DEF Inv, TypeOK, Pipeline, ProducerInv, Held, Sentinel
<1>3. ProducerInv'
    BY DEF Inv, TypeOK, ProducerInv, Sentinel
<1>4. ConsumerInv' /\ LeftInv'
    BY DEF Inv, TypeOK, ConsumerInv, LeftInv, InPut
<1> QED
    BY <1>1, <1>2, <1>3, <1>4 DEF Inv

LEMMA PutStep == Inv /\ Put => Inv'
<1> SUFFICES ASSUME Inv, Put PROVE Inv'
    OBVIOUS
<1> USE DEF Put, source, consumer
<1>1. TypeOK'
    BY PrefetchAssumption DEF Inv, TypeOK, PrefetchAssumption
<1>2. Len(queue') = Len(queue) + 1
    BY DEF Inv, TypeOK
<1>3. \A i \in 1 .. Len(queue') :
          queue'[i] = IF i = Len(queue') THEN hand ELSE queue[i]
    BY <1>2 DEF Inv, TypeOK
<1>4. Pipeline'
    BY <1>1, <1>2, <1>3 DEF Inv, TypeOK, Pipeline, ProducerInv, Held, Sentinel
<1>5. ProducerInv'
    BY DEF Inv, TypeOK, ProducerInv, Sentinel
<1>6. ConsumerInv' /\ LeftInv'
    BY <1>2 DEF Inv, TypeOK, ConsumerInv, LeftInv, InPut
<1> QED
    BY <1>1, <1>4, <1>5, <1>6 DEF Inv

LEMMA PutTimesOutStep == Inv /\ PutTimesOut => Inv'
<1> SUFFICES ASSUME Inv, PutTimesOut PROVE Inv'
    OBVIOUS
<1> USE DEF PutTimesOut, source, consumer
<1>1. TypeOK'
    BY DEF Inv, TypeOK
<1>2. Pipeline'
    BY DEF Inv, TypeOK, Pipeline, Held
<1>3. ProducerInv'
    BY DEF Inv, ProducerInv
<1>4. ConsumerInv' /\ LeftInv'
    BY DEF Inv, TypeOK, ConsumerInv, LeftInv, InPut
<1> QED
    BY <1>1, <1>2, <1>3, <1>4 DEF Inv

-----------------------------------------------------------------------------
(* What is taken from the head of the queue.                               *)
LEMMA HeadAndTail ==
    ASSUME TypeOK, queue # <<>>
    PROVE  /\ Len(queue) >= 1 /\ Head(queue) = queue[1] /\ Head(queue) \in 0 .. total
           /\ Tail(queue) \in Seq(0 .. total) /\ Len(Tail(queue)) = Len(queue) - 1
           /\ \A i \in 1 .. Len(Tail(queue)) : Tail(queue)[i] = queue[i + 1]
BY DEF TypeOK

LEMMA HeadItem ==
    ASSUME Pipeline, ~stop, Len(queue) \in Nat, Len(queue) >= 1
    PROVE  queue[1] = IF 1 = Len(queue) /\ pc = "ended" THEN Sentinel ELSE Len(given) + 1
<1>1. 1 \in 1 .. Len(queue)
    OBVIOUS
<1> QED
    BY <1>1 DEF Pipeline

LEMMA GetFrameStep == Inv /\ GetFrame => Inv'
<1> SUFFICES ASSUME Inv, GetFrame PROVE Inv'
    OBVIOUS
<1> USE DEF GetFrame, source, producer
<1>0. /\ Len(queue) >= 1 /\ Head(queue) = queue[1] /\ Head(queue) \in 0 .. total
      /\ queue' \in Seq(0 .. total) /\ Len(queue') = Len(queue) - 1
      /\ \A i \in 1 .. Len(queue') : queue'[i] = queue[i + 1]
    BY HeadAndTail DEF Inv
<1>1. Head(queue) \in 1 .. total
    BY <1>0 DEF Inv, TypeOK, Sentinel
<1>2. ~stop
    BY DEF Inv, ConsumerInv
<1>3. Head(queue) = Len(given) + 1 /\ ~(Len(queue) = 1 /\ pc = "ended")
  <2>1. queue[1] = IF 1 = Len(queue) /\ pc = "ended" THEN Sentinel ELSE Len(given) + 1
      BY <1>0, <1>2, HeadItem DEF Inv
  <2> QED
      BY <1>0, <1>1, <2>1 DEF Sentinel
<1>4. TypeOK'
    BY <1>0, <1>1, PrefetchAssumption DEF Inv, TypeOK, PrefetchAssumption
<1>5. Len(given') = Len(given) + 1
      /\ \A i \in 1 .. Len(given') : given'[i] = i
  <2>1. given \in Seq(1 .. total) /\ \A i \in 1 .. Len(given) : given[i] = i
      BY DEF Inv, TypeOK, Pipeline
  <2>2. given' = Append(given, Len(given) + 1) /\ Len(given) + 1 \in 1 .. total
      BY <1>1, <1>3
  <2> QED
      BY <2>1, <2>2
<1>6. Pipeline'
  <2>1. \A i \in 1 .. Len(queue') :
           queue'[i] = IF i = Len(queue') /\ pc = "ended" THEN Sentinel
                                                         ELSE Len(given') + i
    <3> SUFFICES ASSUME NEW i \in 1 .. Len(queue')
                 PROVE  queue'[i] = IF i = Len(queue') /\ pc = "ended" THEN Sentinel
                                                                   ELSE Len(given') + i
        OBVIOUS
    <3>1. Len(given) \in Nat /\ Len(queue) \in Nat
        BY DEF Inv, TypeOK
    <3>2. i \in Nat /\ i + 1 \in 1 .. Len(queue)
        BY <1>0, <3>1
    <3>3. queue[i + 1] = IF i + 1 = Len(queue) /\ pc = "ended" THEN Sentinel
                                                        ELSE Len(given) + (i + 1)
        BY <1>2, <3>2 DEF Inv, Pipeline
    <3>4. (i = Len(queue') <=> i + 1 = Len(queue)) /\ queue'[i] = queue[i + 1]
        BY <1>0, <3>1, <3>2
    <3>5. Len(given') + i = Len(given) + (i + 1)
        BY <1>5, <3>1, <3>2
    <3> QED
        BY <3>3, <3>4, <3>5
  <2>2. Len(given') + Len(queue') = Len(given) + Len(queue)
      BY <1>0, <1>1, <1>5 DEF Inv, TypeOK
  <2>3. pc = "ended" => Len(queue') >= 1
      BY <1>0, <1>1, <1>3 DEF Inv, TypeOK
  <2>4. queue' \in Seq(0 .. total) /\ (pc = "ended" => queue' # <<>>)
      BY <1>0, <2>3
  <2>5. Held' = Held /\ pulled' = pulled /\ total' = total /\ pc' = pc /\ stop' = stop
      BY DEF Held
  <2> QED
      BY <1>2, <1>5, <2>1, <2>2, <2>4, <2>5 DEF Inv, Pipeline
<1>7. ProducerInv'
    BY DEF Inv, ProducerInv
<1>8. ConsumerInv' /\ LeftInv'
    BY <1>2 DEF Inv, ConsumerInv, LeftInv
<1> QED
    BY <1>4, <1>6, <1>7, <1>8 DEF Inv

(* The sentinel is the last item, and the producer has ended.              *)
LEMMA AtSentinel ==
    ASSUME Inv, GetSentinel
    PROVE  ~stop /\ pc = "ended" /\ Len(queue) = 1 /\ Len(given) = total
<1>1. ~stop
    BY DEF Inv, ConsumerInv, GetSentinel
<1>2. Len(queue) >= 1 /\ queue[1] = Sentinel
    BY HeadAndTail DEF Inv, GetSentinel
<1>3. Len(queue) = 1 /\ pc = "ended"
  <2>1. Len(queue) \in Nat /\ Len(given) \in Nat
      BY DEF Inv, TypeOK
  <2>2. queue[1] = IF 1 = Len(queue) /\ pc = "ended" THEN Sentinel ELSE Len(given) + 1
      BY <1>1, <1>2, <2>1, HeadItem DEF Inv
  <2> QED
      BY <1>2, <2>1, <2>2 DEF Sentinel
<1> QED
    BY <1>1, <1>3 DEF Inv, TypeOK, Pipeline

LEMMA GetSentinelStep == Inv /\ GetSentinel => Inv'
<1> SUFFICES ASSUME Inv, GetSentinel PROVE Inv'
    OBVIOUS
<1> USE DEF GetSentinel, source, producer
<1>0. Len(queue) = 1 /\ pc = "ended"
    BY AtSentinel
<1>1. queue' \in Seq(0 .. total) /\ Len(queue') = 0
    BY <1>0, HeadAndTail DEF Inv
<1>2. TypeOK'
  <2>1. Len(queue') <= Depth
      BY <1>1, PrefetchAssumption DEF PrefetchAssumption
  <2>2. result' \in {"open", "exhausted", "raised", "closed"}
      OBVIOUS
  <2> QED
      BY <1>1, <2>1, <2>2 DEF Inv, TypeOK
<1>3. Pipeline' /\ ProducerInv' /\ ConsumerInv'
    BY DEF Inv, Pipeline, ProducerInv, ConsumerInv
<1>4. LeftInv'
    BY <1>0, <1>1 DEF LeftInv, InPut
<1> QED
    BY <1>2, <1>3, <1>4 DEF Inv

LEMMA AskStep == Inv /\ Ask => Inv'
BY DEF Inv, Ask, source, producer, TypeOK, Pipeline, Held, ProducerInv, ConsumerInv,
       LeftInv, InPut

LEMMA CloseStep == Inv /\ Close => Inv'
<1> SUFFICES ASSUME Inv, Close PROVE Inv'
    OBVIOUS
<1> USE DEF Close, source, producer
<1>1. TypeOK'
    BY DEF Inv, TypeOK
<1>2. Pipeline' /\ ProducerInv' /\ ConsumerInv' /\ LeftInv'
    BY DEF Inv, Pipeline, ProducerInv, ConsumerInv, LeftInv
<1> QED
    BY <1>1, <1>2 DEF Inv

LEMMA DrainStep == Inv /\ Drain => Inv'
<1> SUFFICES ASSUME Inv, Drain PROVE Inv'
    OBVIOUS
<1> USE DEF Drain, source, producer
<1>1. stop
    BY DEF Inv, ConsumerInv
<1>2. CASE queue # <<>> /\ queue' = Tail(queue) /\ UNCHANGED cpc
  <2>1. TypeOK'
      BY <1>2, HeadAndTail, PrefetchAssumption DEF Inv, TypeOK, PrefetchAssumption
  <2>2. Pipeline' /\ ProducerInv' /\ ConsumerInv' /\ LeftInv'
      BY <1>1, <1>2 DEF Inv, Pipeline, ProducerInv, ConsumerInv, LeftInv
  <2> QED
      BY <2>1, <2>2 DEF Inv
<1>3. CASE queue = <<>> /\ cpc' = "joining" /\ UNCHANGED queue
  <2>1. TypeOK'
      BY <1>3 DEF Inv, TypeOK
  <2>2. Pipeline' /\ ProducerInv' /\ ConsumerInv'
      BY <1>1, <1>3 DEF Inv, Pipeline, ProducerInv, ConsumerInv
  <2>3. LeftInv'
      BY <1>3 DEF LeftInv, InPut
  <2> QED
      BY <2>1, <2>2, <2>3 DEF Inv
<1> QED
    BY <1>2, <1>3

LEMMA JoinStep == Inv /\ Join => Inv'
<1> SUFFICES ASSUME Inv, Join PROVE Inv'
    OBVIOUS
<1> USE DEF Join, source, producer
<1>1. TypeOK'
    BY DEF Inv, TypeOK
<1>2. Pipeline' /\ ProducerInv' /\ ConsumerInv' /\ LeftInv'
    BY DEF Inv, Pipeline, Held, ProducerInv, ConsumerInv, LeftInv, InPut
<1> QED
    BY <1>1, <1>2 DEF Inv

LEMMA InvNext == Inv /\ [Next]_vars => Inv'
<1> SUFFICES ASSUME Inv, [Next]_vars PROVE Inv'
    OBVIOUS
<1>1. CASE UNCHANGED vars
    BY <1>1 DEF Inv, vars, source, producer, consumer, TypeOK, Pipeline, Held,
                ProducerInv, ConsumerInv, LeftInv, InPut
<1> QED
    BY <1>1, PullStep, CloseSourceStep, CheckStopStep, PutStep, PutTimesOutStep, AskStep,
       GetFrameStep, GetSentinelStep, CloseStep, DrainStep, JoinStep
       DEF Next, Producer, Consumer

LEMMA Invariance == Spec => []Inv
BY InvInit, InvNext, PTL DEF Spec

-----------------------------------------------------------------------------
(* The queue never exceeds its bound and the two program counters keep in  *)
(* step with what each thread holds (queue.Queue(maxsize), _pump).         *)
THEOREM Typed == Spec => []TypeOK
<1>1. Inv => TypeOK
    BY DEF Inv
<1> QED
    BY <1>1, Invariance, PTL

(* Every frame reaches the loop once and in order (_put, _pump, __next__). *)
THEOREM InOrder == Spec => []Pipeline
<1>1. Inv => Pipeline
    BY DEF Inv
<1> QED
    BY <1>1, Invariance, PTL

(* A closed stream holds at most one frame's memory in its queue (close).  *)
THEOREM LeavesLittle == Spec => []LittleLeftBehind
<1>1. Inv => LittleLeftBehind
    BY DEF Inv, TypeOK, LeftInv, LittleLeftBehind, InPut
<1> QED
    BY <1>1, Invariance, PTL

(* Prefetching is invisible to the loop: the frames, the end and the       *)
(* exception are those of the source (the contract of frames/prefetch.py). *)
THEOREM Transparent == Spec => KeepsStream
<1>1. Init => Contract!Init
    BY DEF Init, Contract!Init
<1>2. Inv /\ [Next]_vars => [Contract!Next]_(Contract!vars)
  <2> SUFFICES ASSUME Inv, [Next]_vars PROVE [Contract!Next]_(Contract!vars)
      OBVIOUS
  <2> USE DEF Contract!vars, source, producer, consumer
  <2>1. CASE GetFrame
    <3>1. ~stop /\ result = "open"
        BY <2>1 DEF Inv, ConsumerInv, GetFrame
    <3>2. Head(queue) = Len(given) + 1 /\ Len(given) < total
        BY <2>1, <3>1, HeadAndTail DEF Inv, TypeOK, Pipeline, GetFrame, Sentinel
    <3> QED
        BY <2>1, <3>1, <3>2 DEF GetFrame, Contract!Next, Contract!Give
  <2>2. CASE GetSentinel
    <3>1. result = "open" /\ Len(given) = total /\ error = raises
        BY <2>2, AtSentinel DEF Inv, ConsumerInv, ProducerInv
    <3> QED
        BY <2>2, <3>1 DEF GetSentinel, Contract!Next, Contract!End
  <2>3. CASE Close
      BY <2>3 DEF Close, Contract!Next, Contract!Close
  <2>4. CASE Pull \/ CloseSource \/ CheckStop \/ Put \/ PutTimesOut
      BY <2>4 DEF Pull, CloseSource, CheckStop, Put, PutTimesOut
  <2>5. CASE Ask \/ Drain \/ Join
      BY <2>5 DEF Ask, Drain, Join
  <2>6. CASE UNCHANGED vars
      BY <2>6 DEF vars
  <2> QED
      BY <2>1, <2>2, <2>3, <2>4, <2>5, <2>6 DEF Next, Producer, Consumer
<1> QED
    BY <1>1, <1>2, Invariance, PTL DEF Spec, KeepsStream, Contract!Spec
=============================================================================
