-------------------------- MODULE SessionCloseProofs --------------------------
(***************************************************************************)
(* Proofs about SessionClose for every set of zones and every bound:       *)
(* types, the balance of the barrier's counters, the completeness and      *)
(* uniqueness of the payments, the signals of the close, and the contract  *)
(* that all of it keeps.                                                   *)
(***************************************************************************)
EXTENDS SessionClose, FiniteSetTheorems, TLAPS

(* The operations of the barrier yield barriers.                           *)
LEMMA NewBarrierType == NewBarrier \in Barrier
BY DEF NewBarrier, Barrier

LEMMA CountingType ==
    ASSUME NEW b \in Barrier, NEW z \in Zone
    PROVE  /\ NotifyEnqueued(b, z) \in Barrier
           /\ NotifyProcessed(b, z) \in Barrier
<1>1. /\ [b.enqueued  EXCEPT ![z] = @ + 1] \in [Zone -> Nat]
      /\ [b.processed EXCEPT ![z] = @ + 1] \in [Zone -> Nat]
  BY DEF Barrier
<1>2. NotifyEnqueued(b, z) \in Barrier
  BY <1>1 DEF NotifyEnqueued, Barrier
<1>3. NotifyProcessed(b, z) \in Barrier
  BY <1>1 DEF NotifyProcessed, Barrier
<1> QED BY <1>2, <1>3

(* What one notification adds to the counters of a zone.                   *)
LEMMA NotifyCounts ==
    ASSUME NEW b \in Barrier, NEW z0 \in Zone, NEW z \in Zone
    PROVE  /\ NotifyEnqueued(b, z0).enqueued[z] = b.enqueued[z] + IF z = z0 THEN 1 ELSE 0
           /\ NotifyEnqueued(b, z0).processed = b.processed
           /\ NotifyProcessed(b, z0).processed[z] = b.processed[z] + IF z = z0 THEN 1 ELSE 0
           /\ NotifyProcessed(b, z0).enqueued = b.enqueued
BY DEF NotifyEnqueued, NotifyProcessed, Barrier

LEMMA NoteSeqType ==
    ASSUME NEW b \in Barrier, NEW z \in Zone, NEW n \in Int
    PROVE  NoteSeq(b, z, n) \in Barrier
BY DEF NoteSeq, Barrier

LEMMA SignalType ==
    ASSUME NEW b \in Barrier, NEW w, NEW x,
           \A k \in DOMAIN w : w[k] \in Int, \A z \in DOMAIN x : x[z] \in Nat
    PROVE  /\ SetCloseWatermark(b, w) \in Barrier
           /\ SetExpectedCounts(b, x) \in Barrier
<1>1. SetCloseWatermark(b, w) \in Barrier
  BY DEF SetCloseWatermark, Barrier
<1>2. SetExpectedCounts(b, x) \in Barrier
  BY DEF SetExpectedCounts, Barrier
<1> QED BY <1>1, <1>2

(* Neither signal touches what has arrived or been judged.                 *)
LEMMA SignalsKeepCounters ==
    ASSUME NEW b \in Barrier, NEW w, NEW x
    PROVE  /\ SetCloseWatermark(b, w).enqueued = b.enqueued
           /\ SetCloseWatermark(b, w).processed = b.processed
           /\ SetExpectedCounts(b, x).enqueued = b.enqueued
           /\ SetExpectedCounts(b, x).processed = b.processed
           /\ SetCloseWatermark(b, w).lastSeq = b.lastSeq
           /\ SetExpectedCounts(b, x).lastSeq = b.lastSeq
BY DEF SetCloseWatermark, SetExpectedCounts, Barrier

(* A settlement of logged jobs is a settlement.                            *)
LEMMA SettleType ==
    ASSUME NEW J \in SUBSET JobId
    PROVE  Settle(J) \in Settlement
BY DEF Settle, ErrorFree, Settlement

LEMMA SettlementOfType ==
    ASSUME TypeOK
    PROVE  SettlementOf(ses) \in Settlement
<1>1. events[ses] \in SUBSET JobId /\ settled[ses] \in Settlement \cup {NotSettled}
  BY DEF TypeOK
<1> QED BY <1>1, SettleType DEF SettlementOf

LEMMA PaymentForType ==
    ASSUME TypeOK, NEW b \in Barrier, NEW via \in {"CLOSE", "POLL"}
    PROVE  PaymentFor(b, via) \in Payment
<1>1. /\ ses \in SessionId
      /\ SettlementOf(ses).billed \in SUBSET JobId
      /\ Len(jobs) \in 0 .. MaxJobs
      /\ (\A z \in Zone : carried[z] = 0) \in BOOLEAN
      /\ b.expected \in [Zone -> Nat]
      /\ b.watermark \in [Key -> Int]
  BY SettlementOfType, ConstantsAssumption DEF TypeOK, Settlement, Barrier
<1> QED BY <1>1 DEF PaymentFor, Payment

LEMMA OutstandingFinite ==
    ASSUME TypeOK, NEW z \in Zone
    PROVE  /\ IsFiniteSet(OutstandingIn(z))
           /\ Cardinality(OutstandingIn(z)) \in Nat
<1>1. Len(jobs) \in Int
  BY DEF TypeOK
<1>2. IsFiniteSet(1 .. Len(jobs))
  BY <1>1, FS_Interval
<1>3. OutstandingIn(z) \in SUBSET (1 .. Len(jobs))
  BY DEF OutstandingIn, Outstanding
<1> QED BY <1>2, <1>3, FS_Subset, FS_CardinalityType

(* A poll leaves what it does not assign, and assigns well.                *)
LEMMA PollType ==
    ASSUME TypeOK, NEW b \in Barrier, NEW w \in BOOLEAN, NEW c \in Age,
           NEW via \in {"CLOSE", "POLL"}, Poll(b, w, c, via)
    PROVE  /\ door' \in {"idle", "active", "pending_close", "error"}
           /\ settled' \in [SessionId -> Settlement \cup {NotSettled}]
           /\ payments' \in Seq(Payment)
<1>1. CASE Waits(b, w, c)
  BY <1>1 DEF Waits, TypeOK
<1>2. CASE TimesOut(b, c)
  BY <1>2 DEF TimesOut, TypeOK
<1>3. CASE Settles(b, w, c, via)
  <2>1. SettlementOf(ses) \in Settlement
    BY SettlementOfType
  <2>2. settled' \in [SessionId -> Settlement \cup {NotSettled}]
    BY <1>3, <2>1 DEF Settles, TypeOK
  <2>3. PaymentFor(b, via) \in Payment
    BY PaymentForType
  <2>5. payments' = payments \/ payments' = Append(payments, PaymentFor(b, via))
    BY <1>3 DEF Settles
  <2>6. payments' \in Seq(Payment)
    <3>1. payments \in Seq(Payment)
      BY DEF TypeOK
    <3>2. Append(payments, PaymentFor(b, via)) \in Seq(Payment)
      BY <2>3, <3>1
    <3> QED BY <2>5, <3>1, <3>2
  <2>7. door' \in {"idle", "error"}
    BY <1>3 DEF Settles
  <2> QED BY <2>2, <2>6, <2>7
<1> QED BY <1>1, <1>2, <1>3 DEF Poll

-----------------------------------------------------------------------------
(*                            Type correctness                             *)

LEMMA TypeInit == Init => TypeOK
<1> SUFFICES ASSUME Init PROVE TypeOK
  OBVIOUS
<1>1. /\ 0 \in SessionId /\ Horizon \in Age /\ 0 \in Age
  BY ConstantsAssumption DEF SessionId, Age, Horizon
<1>2. barrier \in Barrier
  BY NewBarrierType DEF Init
<1>3. jobs \in Seq(Job) /\ Len(jobs) = 0 /\ payments \in Seq(Payment)
  BY DEF Init
<1> QED BY <1>1, <1>2, <1>3, ConstantsAssumption DEF Init, TypeOK

LEMMA JobAt ==
    ASSUME TypeOK, NEW j \in 1 .. Len(jobs)
    PROVE  j \in JobId /\ jobs[j].ses \in SessionId /\ jobs[j].zone \in Zone
<1>1. jobs \in Seq(Job) /\ Len(jobs) \in Nat /\ Len(jobs) <= MaxJobs
  BY DEF TypeOK
<1>2. jobs[j] \in Job
  BY <1>1
<1> QED BY <1>1, <1>2, ConstantsAssumption DEF Job, JobId

LEMMA WorkersJob ==
    ASSUME TypeOK, busy
    PROVE  popped \in 1 .. Len(jobs) /\ jobs[popped].zone \in Zone
<1>1. popped \in 1 .. Len(jobs)
  BY DEF TypeOK
<1> QED BY <1>1, JobAt

LEMMA RecordType ==
    ASSUME TypeOK, NEW j \in 1 .. Len(jobs), NEW ok \in BOOLEAN, Record(j, ok)
    PROVE  /\ events' \in [SessionId -> SUBSET JobId]
           /\ failed' \subseteq JobId /\ rejected' \subseteq JobId
           /\ settled' = settled
<1>1. j \in JobId /\ jobs[j].ses \in SessionId
  BY JobAt
<1>2. failed' \subseteq JobId /\ settled' = settled
  BY <1>1 DEF Record, TypeOK
<1>3. events' \in [SessionId -> SUBSET JobId] /\ rejected' \subseteq JobId
  <2>1. CASE settled[jobs[j].ses] # NotSettled
    BY <1>1, <2>1 DEF Record, TypeOK
  <2>2. CASE settled[jobs[j].ses] = NotSettled
    <3>1. /\ events' = [events EXCEPT ![jobs[j].ses] = @ \cup {j}]
          /\ rejected' = rejected
      BY <2>2 DEF Record
    <3>2. events[jobs[j].ses] \cup {j} \in SUBSET JobId
      BY <1>1 DEF TypeOK
    <3> QED BY <1>1, <3>1, <3>2 DEF TypeOK
  <2> QED BY <2>1, <2>2
<1> QED BY <1>2, <1>3

LEMMA TypeNext == TypeOK /\ [Next]_vars => TypeOK'
<1> SUFFICES ASSUME TypeOK, [Next]_vars PROVE TypeOK'
  OBVIOUS
<1> USE DEF gatewayVars, workerVars, ledgerVars, historyVars
<1>0. /\ 0 \in Age /\ Horizon \in Age /\ Horizon \in Nat
      /\ \A a \in Age : Older(a) \in Age
  BY ConstantsAssumption DEF Age, Horizon, Older
<1>1. CASE OpenNewSession
  <2>1. ses' \in SessionId
    BY <1>1, ConstantsAssumption DEF OpenNewSession, TypeOK, SessionId
  <2>2. barrier' \in Barrier
    BY <1>1, NewBarrierType DEF OpenNewSession
  <2>3. /\ events' \in [SessionId -> SUBSET JobId]
        /\ settled' \in [SessionId -> Settlement \cup {NotSettled}]
    BY <1>1 DEF OpenNewSession, TypeOK
  <2>4. carried' \in [Zone -> Nat] /\ leaked' \in [Zone -> Nat]
    BY <1>1, OutstandingFinite DEF OpenNewSession
  <2> QED BY <1>0, <1>1, <2>1, <2>2, <2>3, <2>4 DEF OpenNewSession, TypeOK
<1>2. CASE Reopen
  BY <1>2 DEF Reopen, TypeOK
<1>3. ASSUME NEW wm \in Watermarks, NEW ex \in Expectations, Close(wm, ex)
      PROVE  TypeOK'
  <2> DEFINE b1 == IF DOMAIN wm # {} THEN SetCloseWatermark(barrier, wm) ELSE barrier
             b2 == IF DOMAIN ex # {} THEN SetExpectedCounts(b1, ex) ELSE b1
  <2>1. b1 \in Barrier /\ b2 \in Barrier
    BY SignalType, ConstantsAssumption DEF TypeOK
  <2>2. watermarkSet' \in BOOLEAN /\ closeAge' = 0 /\ barrier' = b2
    BY <1>3 DEF Close
  <2>3. Poll(b2, watermarkSet', 0, "CLOSE")
    BY <1>3 DEF Close
  <2> HIDE DEF b1, b2
  <2>4. /\ door' \in {"idle", "active", "pending_close", "error"}
        /\ settled' \in [SessionId -> Settlement \cup {NotSettled}]
        /\ payments' \in Seq(Payment)
    BY <1>0, <2>1, <2>2, <2>3, PollType
  <2> QED BY <1>0, <1>3, <2>1, <2>2, <2>4 DEF Close, TypeOK
<1>4. ASSUME NEW via \in {"CLOSE", "POLL"}, PollClosing(via)
      PROVE  TypeOK'
  <2>1. Poll(barrier, watermarkSet, closeAge, via)
    BY <1>4 DEF PollClosing
  <2>2. /\ door' \in {"idle", "active", "pending_close", "error"}
        /\ settled' \in [SessionId -> Settlement \cup {NotSettled}]
        /\ payments' \in Seq(Payment)
    BY <2>1, PollType DEF TypeOK
  <2> QED BY <1>4, <2>2 DEF PollClosing, TypeOK
<1>5. ASSUME NEW z \in Zone, NEW seq \in Seqs, Trigger(z, seq)
      PROVE  TypeOK'
  <2> DEFINE job == [ses |-> ses, zone |-> z, seq |-> seq]
  <2>1. seq \in Int
    BY ConstantsAssumption
  <2>2. barrier' \in Barrier
    BY <1>5, <2>1, NoteSeqType, CountingType DEF Trigger, TypeOK
  <2>3. job \in Job /\ jobs \in Seq(Job)
    BY DEF TypeOK, Job
  <2>4. jobs' = Append(jobs, job) /\ Len(jobs) < MaxJobs
    BY <1>5 DEF Trigger
  <2> HIDE DEF job
  <2>5. jobs' \in Seq(Job) /\ Len(jobs') = Len(jobs) + 1 /\ Len(jobs) \in Nat
    BY <2>3, <2>4
  <2>6. Len(jobs') <= MaxJobs /\ popped' \in 0 .. Len(jobs')
    BY <1>5, <2>4, <2>5, ConstantsAssumption DEF Trigger, TypeOK
  <2> QED BY <1>0, <1>5, <2>2, <2>5, <2>6 DEF Trigger, TypeOK
<1>6. CASE WorkerPop
  <2>1. popped' \in 0 .. Len(jobs') /\ popped' > 0
    BY <1>6 DEF WorkerPop, TypeOK
  <2> QED BY <1>6, <2>1 DEF WorkerPop, TypeOK
<1>7. ASSUME NEW ok \in BOOLEAN, WorkerCommit(ok)
      PROVE  TypeOK'
  <2>1. popped \in 1 .. Len(jobs) /\ jobs[popped].zone \in Zone
    BY <1>7, WorkersJob DEF WorkerCommit
  <2>2. barrier' \in Barrier
    BY <1>7, <2>1, CountingType DEF WorkerCommit, TypeOK
  <2>3. /\ events' \in [SessionId -> SUBSET JobId]
        /\ failed' \subseteq JobId /\ rejected' \subseteq JobId /\ settled' = settled
    BY <1>7, <2>1, RecordType DEF WorkerCommit
  <2> QED BY <1>0, <1>7, <2>2, <2>3 DEF WorkerCommit, TypeOK
<1>8. ASSUME NEW ok \in BOOLEAN, WorkerJournalFails(ok)
      PROVE  TypeOK'
  <2>1. popped \in 1 .. Len(jobs) /\ jobs[popped].zone \in Zone
    BY <1>8, WorkersJob DEF WorkerJournalFails
  <2>2. leaked' \in [Zone -> Nat]
    BY <1>8, <2>1 DEF WorkerJournalFails, TypeOK
  <2>3. /\ events' \in [SessionId -> SUBSET JobId]
        /\ failed' \subseteq JobId /\ rejected' \subseteq JobId /\ settled' = settled
    BY <1>8, <2>1, RecordType DEF WorkerJournalFails
  <2> QED BY <1>8, <2>2, <2>3 DEF WorkerJournalFails, TypeOK
<1>9. CASE Tick
  BY <1>0, <1>9 DEF Tick, TypeOK
<1>10. CASE UNCHANGED vars
  BY <1>10 DEF vars, TypeOK
<1> QED
  BY <1>1, <1>2, <1>3, <1>4, <1>5, <1>6, <1>7, <1>8, <1>9, <1>10
  DEF Next, Worker, RepeatClose, NullPoll

(* The service never leaves the states the types describe: in particular   *)
(* the worker never takes from an empty queue, and ages stay within their  *)
(* saturation point.                                                       *)
THEOREM TypeCorrect == Spec => []TypeOK
BY TypeInit, TypeNext, PTL DEF Spec

-----------------------------------------------------------------------------
(*                     The balance of the barrier                          *)

(* What each kind of step does to the work outstanding in a zone.          *)
LEMMA OutstandingKept ==
    ASSUME UNCHANGED workerVars, NEW z \in Zone
    PROVE  OutstandingIn(z)' = OutstandingIn(z)
BY DEF workerVars, OutstandingIn, Outstanding

LEMMA OutstandingAfterTrigger ==
    ASSUME TypeOK, NEW z0 \in Zone, NEW seq \in Seqs, Trigger(z0, seq), NEW z \in Zone
    PROVE  /\ Cardinality(OutstandingIn(z)')
                = Cardinality(OutstandingIn(z)) + IF z = z0 THEN 1 ELSE 0
<1> DEFINE n == Len(jobs) + 1
           job == [ses |-> ses, zone |-> z0, seq |-> seq]
<1>1. /\ jobs' = Append(jobs, job) /\ popped' = popped /\ busy' = busy
      /\ jobs \in Seq(Job) /\ Len(jobs) \in Nat /\ popped \in 0 .. Len(jobs)
  BY DEF Trigger, TypeOK
<1>2. job.zone = z0
  OBVIOUS
<1> HIDE DEF job
<1>3. /\ Len(jobs') = n /\ jobs'[n].zone = z0
      /\ \A j \in 1 .. Len(jobs) : jobs'[j] = jobs[j]
  BY <1>1, <1>2
<1>4. OutstandingIn(z)' = IF z = z0 THEN OutstandingIn(z) \cup {n} ELSE OutstandingIn(z)
  BY <1>1, <1>3 DEF OutstandingIn, Outstanding
<1>5. n \notin OutstandingIn(z) /\ IsFiniteSet(OutstandingIn(z))
      /\ Cardinality(OutstandingIn(z)) \in Nat
  BY <1>1, OutstandingFinite DEF OutstandingIn, Outstanding
<1>6. Cardinality(OutstandingIn(z) \cup {n}) = Cardinality(OutstandingIn(z)) + 1
  BY <1>5, FS_AddElement
<1>7. CASE z = z0
  BY <1>4, <1>6, <1>7
<1>8. CASE z # z0
  <2>1. OutstandingIn(z)' = OutstandingIn(z)
    BY <1>4, <1>8
  <2> QED BY <1>5, <1>8, <2>1
<1> QED BY <1>7, <1>8

LEMMA OutstandingAfterPop ==
    ASSUME TypeOK, WorkerPop, NEW z \in Zone
    PROVE  OutstandingIn(z)' = OutstandingIn(z)
<1>1. /\ ~busy /\ popped < Len(jobs) /\ popped' = popped + 1 /\ busy' = TRUE /\ jobs' = jobs
      /\ popped \in 0 .. Len(jobs) /\ Len(jobs) \in Nat
  BY DEF WorkerPop, TypeOK
<1> QED BY <1>1 DEF OutstandingIn, Outstanding

LEMMA OutstandingAfterDone ==
    ASSUME TypeOK, busy, busy' = FALSE, UNCHANGED <<jobs, popped>>, NEW z \in Zone
    PROVE  Cardinality(OutstandingIn(z)')
             = Cardinality(OutstandingIn(z)) - IF z = jobs[popped].zone THEN 1 ELSE 0
<1>1. popped \in 1 .. Len(jobs) /\ Len(jobs) \in Nat
  BY WorkersJob DEF TypeOK
<1>2. OutstandingIn(z)' = OutstandingIn(z) \ {popped}
  BY <1>1 DEF OutstandingIn, Outstanding
<1>3. popped \in OutstandingIn(z) <=> z = jobs[popped].zone
  BY <1>1 DEF OutstandingIn, Outstanding
<1>4. IsFiniteSet(OutstandingIn(z)) /\ Cardinality(OutstandingIn(z)) \in Nat
  BY OutstandingFinite
<1>5. Cardinality(OutstandingIn(z) \ {popped})
        = IF popped \in OutstandingIn(z) THEN Cardinality(OutstandingIn(z)) - 1
                                         ELSE Cardinality(OutstandingIn(z))
  BY <1>4, FS_RemoveElement
<1>6. Cardinality(OutstandingIn(z)') = Cardinality(OutstandingIn(z) \ {popped})
  BY <1>2
<1> QED BY <1>3, <1>4, <1>5, <1>6

LEMMA AccountingInit == Init => BarrierAccounting
<1> SUFFICES ASSUME Init, NEW z \in Zone
             PROVE  barrier.enqueued[z] + carried[z]
                      = barrier.processed[z] + Cardinality(OutstandingIn(z)) + leaked[z]
  BY DEF BarrierAccounting
<1>1. Len(jobs) = 0 /\ OutstandingIn(z) = {}
  BY DEF Init, OutstandingIn, Outstanding
<1>2. barrier.enqueued[z] = 0 /\ barrier.processed[z] = 0 /\ carried[z] = 0 /\ leaked[z] = 0
  BY DEF Init, NewBarrier
<1> QED BY <1>1, <1>2, FS_EmptySet

LEMMA AccountingNext == TypeOK /\ BarrierAccounting /\ [Next]_vars => BarrierAccounting'
<1> SUFFICES ASSUME TypeOK, BarrierAccounting, [Next]_vars, NEW z \in Zone
             PROVE  (barrier.enqueued[z] + carried[z]
                      = barrier.processed[z] + Cardinality(OutstandingIn(z)) + leaked[z])'
  BY DEF BarrierAccounting
<1> USE DEF gatewayVars, workerVars, historyVars
<1>0. /\ barrier.enqueued[z] + carried[z]
           = barrier.processed[z] + Cardinality(OutstandingIn(z)) + leaked[z]
      /\ barrier.enqueued[z] \in Nat /\ barrier.processed[z] \in Nat
      /\ carried[z] \in Nat /\ leaked[z] \in Nat
      /\ Cardinality(OutstandingIn(z)) \in Nat
      /\ barrier \in Barrier
  BY OutstandingFinite DEF BarrierAccounting, TypeOK, Barrier
<1>1. CASE OpenNewSession
  <2>1. OutstandingIn(z)' = OutstandingIn(z)
    BY <1>1, OutstandingKept DEF OpenNewSession
  <2>2. /\ barrier'.enqueued[z] = 0 /\ barrier'.processed[z] = 0
        /\ carried'[z] = Cardinality(OutstandingIn(z)) /\ leaked'[z] = 0
    BY <1>1 DEF OpenNewSession, NewBarrier
  <2> QED BY <1>0, <2>1, <2>2
<1>2. ASSUME UNCHANGED <<workerVars, carried, leaked>>,
             barrier'.enqueued = barrier.enqueued, barrier'.processed = barrier.processed
      PROVE  (barrier.enqueued[z] + carried[z]
               = barrier.processed[z] + Cardinality(OutstandingIn(z)) + leaked[z])'
  <2>1. OutstandingIn(z)' = OutstandingIn(z)
    BY <1>2, OutstandingKept
  <2> QED BY <1>0, <1>2, <2>1
<1>3. ASSUME NEW wm \in Watermarks, NEW ex \in Expectations, Close(wm, ex)
      PROVE  (barrier.enqueued[z] + carried[z]
               = barrier.processed[z] + Cardinality(OutstandingIn(z)) + leaked[z])'
  <2> DEFINE b1 == IF DOMAIN wm # {} THEN SetCloseWatermark(barrier, wm) ELSE barrier
             b2 == IF DOMAIN ex # {} THEN SetExpectedCounts(b1, ex) ELSE b1
  <2>1. b1 \in Barrier /\ b1.enqueued = barrier.enqueued /\ b1.processed = barrier.processed
    BY <1>0, SignalType, SignalsKeepCounters, ConstantsAssumption
  <2>2. barrier' = b2 /\ UNCHANGED <<workerVars, carried, leaked>>
    BY <1>3 DEF Close
  <2> HIDE DEF b1
  <2>3. barrier'.enqueued = barrier.enqueued /\ barrier'.processed = barrier.processed
    BY <2>1, <2>2, SignalsKeepCounters
  <2> QED BY <1>2, <2>2, <2>3
<1>4. ASSUME NEW z0 \in Zone, NEW seq \in Seqs, Trigger(z0, seq)
      PROVE  (barrier.enqueued[z] + carried[z]
               = barrier.processed[z] + Cardinality(OutstandingIn(z)) + leaked[z])'
  <2>1. /\ barrier'.enqueued[z] = barrier.enqueued[z] + IF z = z0 THEN 1 ELSE 0
        /\ barrier'.processed[z] = barrier.processed[z]
        /\ carried' = carried /\ leaked' = leaked
    <3> DEFINE b1 == IF seq = -1 THEN barrier ELSE NoteSeq(barrier, z0, seq)
    <3>1. seq \in Int
      BY ConstantsAssumption
    <3>2. b1 \in Barrier
      BY <1>0, <3>1, NoteSeqType
    <3>3. b1.enqueued = barrier.enqueued /\ b1.processed = barrier.processed
      BY <1>0 DEF NoteSeq, Barrier
    <3>4. barrier' = NotifyEnqueued(b1, z0) /\ carried' = carried /\ leaked' = leaked
      BY <1>4 DEF Trigger
    <3> HIDE DEF b1
    <3> QED BY <3>2, <3>3, <3>4, NotifyCounts
  <2>2. Cardinality(OutstandingIn(z)')
          = Cardinality(OutstandingIn(z)) + IF z = z0 THEN 1 ELSE 0
    BY <1>4, OutstandingAfterTrigger
  <2> QED BY <1>0, <2>1, <2>2
<1>5. CASE WorkerPop
  <2>1. OutstandingIn(z)' = OutstandingIn(z)
    BY <1>5, OutstandingAfterPop
  <2>2. barrier' = barrier /\ carried' = carried /\ leaked' = leaked
    BY <1>5 DEF WorkerPop
  <2> QED BY <1>0, <2>1, <2>2
<1>6. ASSUME NEW ok \in BOOLEAN, WorkerCommit(ok)
      PROVE  (barrier.enqueued[z] + carried[z]
               = barrier.processed[z] + Cardinality(OutstandingIn(z)) + leaked[z])'
  <2>1. /\ barrier'.processed[z]
             = barrier.processed[z] + IF z = jobs[popped].zone THEN 1 ELSE 0
        /\ barrier'.enqueued[z] = barrier.enqueued[z]
        /\ carried' = carried /\ leaked' = leaked
    <3>1. barrier' = NotifyProcessed(barrier, jobs[popped].zone)
          /\ jobs[popped].zone \in Zone /\ carried' = carried /\ leaked' = leaked
      BY <1>6, WorkersJob DEF WorkerCommit
    <3> QED BY <1>0, <3>1, NotifyCounts
  <2>2. Cardinality(OutstandingIn(z)')
          = Cardinality(OutstandingIn(z)) - IF z = jobs[popped].zone THEN 1 ELSE 0
    BY <1>6, OutstandingAfterDone DEF WorkerCommit
  <2> QED BY <1>0, <2>1, <2>2
<1>7. ASSUME NEW ok \in BOOLEAN, WorkerJournalFails(ok)
      PROVE  (barrier.enqueued[z] + carried[z]
               = barrier.processed[z] + Cardinality(OutstandingIn(z)) + leaked[z])'
  <2>1. /\ leaked'[z] = leaked[z] + IF z = jobs[popped].zone THEN 1 ELSE 0
        /\ barrier' = barrier /\ carried' = carried
    BY <1>7 DEF WorkerJournalFails, TypeOK
  <2>2. Cardinality(OutstandingIn(z)')
          = Cardinality(OutstandingIn(z)) - IF z = jobs[popped].zone THEN 1 ELSE 0
    BY <1>7, OutstandingAfterDone DEF WorkerJournalFails
  <2> QED BY <1>0, <2>1, <2>2
<1>8. CASE Reopen
  BY <1>2, <1>8 DEF Reopen
<1>9. ASSUME NEW via, PollClosing(via)
      PROVE  UNCHANGED <<workerVars, carried, leaked>> /\ barrier' = barrier
  BY <1>9 DEF PollClosing
<1>10. CASE Tick
  BY <1>2, <1>10 DEF Tick
<1>11. CASE UNCHANGED vars
  BY <1>2, <1>11 DEF vars
<1> QED
  BY <1>1, <1>2, <1>3, <1>4, <1>5, <1>6, <1>7, <1>8, <1>9, <1>10, <1>11
  DEF Next, Worker, RepeatClose, NullPoll

(* The balance of the barrier holds for any number of zones, triggers and  *)
(* sessions.                                                               *)
THEOREM Accounting == Spec => []BarrierAccounting
<1>1. TypeOK /\ BarrierAccounting /\ [Next]_vars => BarrierAccounting'
  BY AccountingNext
<1> QED BY <1>1, AccountingInit, TypeCorrect, PTL DEF Spec

-----------------------------------------------------------------------------
(*                     What a step does to jobs and bills                  *)

(* Jobs keep their number, session and zone; only outstanding jobs can     *)
(* still turn out to have failed; what is done stays done.                 *)
JobsGrow == Len(jobs) <= Len(jobs') /\ \A j \in 1 .. Len(jobs) : jobs'[j] = jobs[j]

WorkProceeds ==
    /\ failed \subseteq failed' /\ failed' \subseteq failed \cup Outstanding
    /\ \A j \in 1 .. Len(jobs) : j \in Outstanding' => j \in Outstanding

(* A payment is made by a live session whose barrier, with the signals of  *)
(* the close, is satisfied; and it ends that session.                      *)
PaysNow ==
    \E b \in Barrier, via \in {"CLOSE", "POLL"} :
        /\ b.enqueued = barrier.enqueued /\ b.processed = barrier.processed
        /\ b.lastSeq = barrier.lastSeq
        /\ ~QueuePending(b) /\ ~SeqGap(b) /\ ~AwaitingTriggers(b)
        /\ SettlementOf(ses).outcome = "payable"
        /\ payments' = Append(payments, PaymentFor(b, via))
        /\ Live /\ ~Live'
        /\ UNCHANGED <<ses, workerVars, events, failed, carried>>

LEMMA JobsGrowByAppend ==
    ASSUME TypeOK, NEW job, jobs' = Append(jobs, job)
    PROVE  JobsGrow /\ Len(jobs') = Len(jobs) + 1 /\ jobs'[Len(jobs) + 1] = job
<1>1. jobs \in Seq(Job) /\ Len(jobs) \in Nat
  BY DEF TypeOK
<1> QED BY <1>1 DEF JobsGrow

LEMMA WorkStep == TypeOK /\ [Next]_vars => JobsGrow /\ WorkProceeds
<1> SUFFICES ASSUME TypeOK, [Next]_vars PROVE JobsGrow /\ WorkProceeds
  OBVIOUS
<1> USE DEF workerVars, ledgerVars
<1>0. Len(jobs) \in Nat /\ popped \in 0 .. Len(jobs)
  BY DEF TypeOK
<1>1. ASSUME UNCHANGED <<workerVars, failed>>
      PROVE  JobsGrow /\ WorkProceeds
  BY <1>0, <1>1 DEF JobsGrow, WorkProceeds, Outstanding
<1>2. CASE OpenNewSession
  BY <1>1, <1>2 DEF OpenNewSession
<1>3. CASE Reopen
  BY <1>1, <1>3 DEF Reopen
<1>4. ASSUME NEW wm, NEW ex, Close(wm, ex)
      PROVE  JobsGrow /\ WorkProceeds
  BY <1>1, <1>4 DEF Close
<1>5. ASSUME NEW via, PollClosing(via)
      PROVE  JobsGrow /\ WorkProceeds
  BY <1>1, <1>5 DEF PollClosing
<1>6. ASSUME NEW z \in Zone, NEW seq \in Seqs, Trigger(z, seq)
      PROVE  JobsGrow /\ WorkProceeds
  <2>1. JobsGrow /\ Len(jobs') = Len(jobs) + 1
    BY <1>6, JobsGrowByAppend DEF Trigger
  <2>2. WorkProceeds
    BY <1>0, <1>6, <2>1 DEF Trigger, WorkProceeds, Outstanding
  <2> QED BY <2>1, <2>2
<1>7. CASE WorkerPop
  BY <1>0, <1>7 DEF WorkerPop, JobsGrow, WorkProceeds, Outstanding
<1>8. ASSUME NEW ok \in BOOLEAN, busy, busy' = FALSE, UNCHANGED <<jobs, popped>>,
             Record(popped, ok)
      PROVE  JobsGrow /\ WorkProceeds
  <2>1. popped \in Outstanding
    BY <1>8, WorkersJob DEF Outstanding
  <2>2. failed \subseteq failed' /\ failed' \subseteq failed \cup {popped}
    BY <1>8 DEF Record
  <2> QED BY <1>0, <1>8, <2>1, <2>2 DEF JobsGrow, WorkProceeds, Outstanding
<1>9. ASSUME NEW ok \in BOOLEAN, WorkerCommit(ok) \/ WorkerJournalFails(ok)
      PROVE  JobsGrow /\ WorkProceeds
  BY <1>8, <1>9 DEF WorkerCommit, WorkerJournalFails
<1>10. CASE Tick
  BY <1>1, <1>10 DEF Tick
<1>11. CASE UNCHANGED vars
  BY <1>1, <1>11 DEF vars
<1> QED
  BY <1>2, <1>3, <1>4, <1>5, <1>6, <1>7, <1>9, <1>10, <1>11
  DEF Next, Worker, RepeatClose, NullPoll

LEMMA PayStep == TypeOK /\ [Next]_vars => payments' = payments \/ PaysNow
<1> SUFFICES ASSUME TypeOK, [Next]_vars PROVE payments' = payments \/ PaysNow
  OBVIOUS
<1> USE DEF historyVars
<1>1. ASSUME NEW b \in Barrier, NEW w, NEW c, NEW via \in {"CLOSE", "POLL"},
             Poll(b, w, c, via), Live,
             b.enqueued = barrier.enqueued, b.processed = barrier.processed,
             b.lastSeq = barrier.lastSeq,
             UNCHANGED <<ses, workerVars, events, failed, carried>>
      PROVE  payments' = payments \/ PaysNow
  <2>1. CASE Settles(b, w, c, via) /\ payments' # payments
    <3>1. /\ ~QueuePending(b) /\ ~SeqGap(b) /\ ~AwaitingTriggers(b)
          /\ SettlementOf(ses).outcome = "payable"
          /\ payments' = Append(payments, PaymentFor(b, via)) /\ door' = "idle"
      BY <2>1 DEF Settles, Satisfied
    <3> QED BY <1>1, <3>1 DEF PaysNow, Live
  <2> QED BY <1>1, <2>1 DEF Poll, Waits, TimesOut
<1>2. ASSUME NEW wm \in Watermarks, NEW ex \in Expectations, Close(wm, ex)
      PROVE  payments' = payments \/ PaysNow
  <2> DEFINE b1 == IF DOMAIN wm # {} THEN SetCloseWatermark(barrier, wm) ELSE barrier
             b2 == IF DOMAIN ex # {} THEN SetExpectedCounts(b1, ex) ELSE b1
  <2>1. /\ b1 \in Barrier /\ b1.lastSeq = barrier.lastSeq
        /\ b1.enqueued = barrier.enqueued /\ b1.processed = barrier.processed
    BY SignalType, SignalsKeepCounters, ConstantsAssumption DEF TypeOK
  <2> HIDE DEF b1
  <2>2. /\ b2 \in Barrier /\ b2.lastSeq = barrier.lastSeq
        /\ b2.enqueued = barrier.enqueued /\ b2.processed = barrier.processed
    BY <2>1, SignalType, SignalsKeepCounters, ConstantsAssumption
  <2>3. /\ Poll(b2, watermarkSet', 0, "CLOSE") /\ Live
        /\ UNCHANGED <<ses, workerVars, events, failed, carried>>
    BY <1>2 DEF Close, Live, b1
  <2> HIDE DEF b2
  <2> QED BY <1>1, <2>2, <2>3
<1>3. ASSUME NEW via \in {"CLOSE", "POLL"}, PollClosing(via)
      PROVE  payments' = payments \/ PaysNow
  <2>1. /\ Poll(barrier, watermarkSet, closeAge, via) /\ Live
        /\ UNCHANGED <<ses, workerVars, events, failed, carried>>
    BY <1>3 DEF PollClosing, Live
  <2> QED BY <1>1, <2>1 DEF TypeOK
<1>4. ASSUME NEW ok, WorkerCommit(ok) \/ WorkerJournalFails(ok)
      PROVE  payments' = payments
  BY <1>4 DEF WorkerCommit, WorkerJournalFails
<1>5. ASSUME NEW z, NEW seq, Trigger(z, seq)
      PROVE  payments' = payments
  BY <1>5 DEF Trigger
<1>6. OpenNewSession \/ Reopen \/ WorkerPop \/ Tick \/ UNCHANGED vars => payments' = payments
  BY DEF OpenNewSession, Reopen, WorkerPop, Tick, vars
<1> QED
  BY <1>2, <1>3, <1>4, <1>5, <1>6 DEF Next, Worker, RepeatClose, NullPoll

-----------------------------------------------------------------------------
(*                         One payment per session                         *)

(* How the gateway's session and state move when nothing is paid.          *)
LEMMA DoorStep ==
    TypeOK /\ [Next]_vars =>
        \/ ses' = ses + 1 /\ payments' = payments
        \/ ses' = ses /\ (Live' => Live)
<1> SUFFICES ASSUME TypeOK, [Next]_vars
             PROVE  \/ ses' = ses + 1 /\ payments' = payments
                    \/ ses' = ses /\ (Live' => Live)
  OBVIOUS
<1> USE DEF gatewayVars, Live
<1>1. CASE OpenNewSession
  BY <1>1 DEF OpenNewSession
<1>2. CASE Reopen
  BY <1>2 DEF Reopen
<1>3. ASSUME NEW wm, NEW ex, Close(wm, ex)
      PROVE  ses' = ses /\ Live
  BY <1>3 DEF Close
<1>4. ASSUME NEW via, PollClosing(via)
      PROVE  ses' = ses /\ Live
  BY <1>4 DEF PollClosing
<1>5. ASSUME NEW z, NEW seq, Trigger(z, seq)
      PROVE  UNCHANGED <<ses, door>>
  BY <1>5 DEF Trigger
<1>6. ASSUME NEW ok, WorkerCommit(ok) \/ WorkerJournalFails(ok)
      PROVE  UNCHANGED <<ses, door>>
  BY <1>6 DEF WorkerCommit, WorkerJournalFails
<1>7. WorkerPop \/ Tick \/ UNCHANGED vars => UNCHANGED <<ses, door>>
  BY DEF WorkerPop, Tick, vars
<1> QED
  BY <1>1, <1>2, <1>3, <1>4, <1>5, <1>6, <1>7 DEF Next, Worker, RepeatClose, NullPoll

LEMMA PaymentAt ==
    ASSUME TypeOK, NEW i \in DOMAIN payments
    PROVE  payments[i] \in Payment /\ payments[i].ses \in Int /\ ses \in Int
<1>1. payments \in Seq(Payment) /\ ses \in Int
  BY DEF TypeOK, SessionId
<1>2. payments[i] \in Payment
  BY <1>1
<1> QED BY <1>1, <1>2 DEF Payment, SessionId

LEMMA PaidNext == TypeOK /\ PaidInv /\ [Next]_vars => PaidInv'
<1> SUFFICES ASSUME TypeOK, PaidInv, [Next]_vars PROVE PaidInv'
  OBVIOUS
<1>1. CASE payments' = payments
  <2>1. PaidAtMostOnce'
    BY <1>1 DEF PaidInv, PaidAtMostOnce
  <2>2. ASSUME NEW i \in DOMAIN payments
        PROVE  payments[i].ses <= ses' /\ (payments[i].ses = ses' => ~Live')
    <3>1. payments[i].ses <= ses /\ (payments[i].ses = ses => ~Live)
      BY DEF PaidInv
    <3>2. ses' = ses + 1 \/ (ses' = ses /\ (Live' => Live))
      BY DoorStep
    <3> QED BY <3>1, <3>2, PaymentAt
  <2> QED BY <1>1, <2>1, <2>2 DEF PaidInv
<1>2. CASE PaysNow
  <2>1. PICK b \in Barrier, via \in {"CLOSE", "POLL"} :
           /\ payments' = Append(payments, PaymentFor(b, via))
           /\ Live /\ ~Live' /\ ses' = ses
    BY <1>2 DEF PaysNow
  <2> DEFINE n == Len(payments)
  <2>2. payments \in Seq(Payment) /\ n \in Nat
    BY DEF TypeOK
  <2>3. /\ DOMAIN payments' = 1 .. n + 1 /\ DOMAIN payments = 1 .. n
        /\ \A i \in 1 .. n : payments'[i] = payments[i]
        /\ payments'[n + 1].ses = ses
    BY <2>1, <2>2 DEF PaymentFor
  <2>4. ASSUME NEW i \in 1 .. n
        PROVE  payments[i].ses <= ses /\ payments[i].ses # ses
    BY <2>1, <2>3 DEF PaidInv
  <2>5. PaidAtMostOnce'
    BY <2>2, <2>3, <2>4 DEF PaidInv, PaidAtMostOnce
  <2>6. \A i \in DOMAIN payments' :
            payments'[i].ses <= ses' /\ (payments'[i].ses = ses' => ~Live')
    BY <2>1, <2>2, <2>3, <2>4, PaymentAt DEF TypeOK, SessionId
  <2> QED BY <2>5, <2>6 DEF PaidInv
<1> QED BY <1>1, <1>2, PayStep

(* No behaviour of the service charges a session twice.                    *)
THEOREM PaidOnce == Spec => []PaidAtMostOnce
<1>1. Init => PaidInv
  BY DEF Init, PaidInv, PaidAtMostOnce
<1>2. TypeOK /\ PaidInv /\ [Next]_vars => PaidInv'
  BY PaidNext
<1>3. PaidInv => PaidAtMostOnce
  BY DEF PaidInv
<1> QED BY <1>1, <1>2, <1>3, TypeCorrect, PTL DEF Spec

-----------------------------------------------------------------------------
(*                          Complete payments                              *)

(* The jobs a session had accepted at some point do not change afterwards. *)
LEMMA AcceptedKept ==
    ASSUME TypeOK, JobsGrow, NEW s, NEW n \in 0 .. Len(jobs)
    PROVE  AcceptedBy(s, n)' = AcceptedBy(s, n)
<1>1. Len(jobs) \in Nat
  BY DEF TypeOK
<1> QED BY <1>1 DEF AcceptedBy, JobsGrow

LEMMA LogInit == Init => LogInv
<1> SUFFICES ASSUME Init PROVE LogInv
  OBVIOUS
<1>1. Len(jobs) = 0 /\ ~Live
  BY DEF Init, Live
<1> QED BY <1>1 DEF Init, LogInv

(* The log of the session that can be paid, step by step.                  *)
LEMMA LogNext == TypeOK /\ LogInv /\ [Next]_vars => LogInv'
<1> SUFFICES ASSUME TypeOK, LogInv, [Next]_vars PROVE LogInv'
  OBVIOUS
<1> USE DEF gatewayVars, workerVars, ledgerVars
<1>0. /\ jobs \in Seq(Job) /\ Len(jobs) \in Nat /\ ses \in Int /\ ses \in SessionId
      /\ popped \in 0 .. Len(jobs)
      /\ \A j \in 1 .. Len(jobs) : jobs[j].ses <= ses /\ jobs[j].ses \in SessionId
      /\ \A s \in SessionId : s \in Int
  BY JobAt DEF TypeOK, SessionId, LogInv
<1>1. ASSUME UNCHANGED <<workerVars, ses, events, settled>>, Live' => Live
      PROVE  LogInv'
  BY <1>1 DEF LogInv, Outstanding, AcceptedBy
<1>2. CASE OpenNewSession
  <2>1. /\ UNCHANGED workerVars /\ ses' = ses + 1 /\ ses' \in SessionId
        /\ events' = [s \in SessionId |-> IF Kept(s, ses + 1) THEN events[s] ELSE {}]
        /\ settled' = [s \in SessionId |-> IF Kept(s, ses + 1) THEN settled[s] ELSE NotSettled]
    BY <1>0, <1>2, TypeNext DEF OpenNewSession, TypeOK
  <2>2. \A s \in SessionId : s > ses => events'[s] = {} /\ settled'[s] = NotSettled
    BY <2>1 DEF LogInv
  <2>3. \A j \in 1 .. Len(jobs) : jobs[j].ses # ses + 1
    BY <1>0
  <2>4. (AcceptedBy(ses, Len(jobs)))' = {}
    BY <2>1, <2>3 DEF AcceptedBy
  <2>5. events'[ses'] = {} /\ settled'[ses'] = NotSettled
    BY <1>0, <2>1, <2>2
  <2>6. \A s \in SessionId : s > ses' => s > ses
    BY <1>0, <2>1
  <2>7. (\A j \in 1 .. Len(jobs) : jobs[j].ses <= ses)'
    <3>1. \A j \in 1 .. Len(jobs) : jobs[j].ses \in Int /\ jobs[j].ses <= ses + 1
      BY <1>0 DEF SessionId
    <3>2. jobs' = jobs /\ ses' = ses + 1
      BY <2>1
    <3> QED BY <3>1, <3>2
  <2>8. (\A s \in SessionId : s > ses => events[s] = {} /\ settled[s] = NotSettled)'
    BY <2>2, <2>6
  <2>9. (settled[ses] = NotSettled /\ events[ses] = AcceptedBy(ses, Len(jobs)) \ Outstanding)'
    BY <2>4, <2>5
  <2> QED BY <2>7, <2>8, <2>9 DEF LogInv
<1>3. CASE Reopen
  BY <1>1, <1>3 DEF Reopen, Live
<1>4. ASSUME NEW b, NEW w, NEW c, NEW via, Poll(b, w, c, via), Live,
             UNCHANGED <<workerVars, ses, events>>
      PROVE  LogInv'
  <2>1. CASE Waits(b, w, c) \/ TimesOut(b, c)
    BY <1>1, <1>4, <2>1 DEF Waits, TimesOut
  <2>2. CASE Settles(b, w, c, via)
    <3>1. ~Live' /\ settled' = [settled EXCEPT ![ses] = SettlementOf(ses)]
      BY <2>2 DEF Settles, Live
    <3>2. \A s \in SessionId : s > ses => settled'[s] = NotSettled
      BY <1>0, <3>1 DEF LogInv, TypeOK
    <3> QED BY <1>4, <3>1, <3>2 DEF LogInv
  <2> QED BY <1>4, <2>1, <2>2 DEF Poll
<1>5. ASSUME NEW wm, NEW ex, Close(wm, ex)
      PROVE  LogInv'
  BY <1>4, <1>5 DEF Close, Live
<1>6. ASSUME NEW via, PollClosing(via)
      PROVE  LogInv'
  BY <1>4, <1>6 DEF PollClosing, Live
<1>7. ASSUME NEW z \in Zone, NEW seq \in Seqs, Trigger(z, seq)
      PROVE  LogInv'
  <2> DEFINE job == [ses |-> ses, zone |-> z, seq |-> seq]
             n == Len(jobs) + 1
  <2>1. /\ jobs' = Append(jobs, job)
        /\ UNCHANGED <<door, ses, popped, busy, events, settled>>
    BY <1>7 DEF Trigger
  <2>2. job.ses = ses
    OBVIOUS
  <2> HIDE DEF job
  <2>3. /\ JobsGrow /\ Len(jobs') = n /\ jobs'[n].ses = ses
    BY <2>1, <2>2, JobsGrowByAppend
  <2>4. \A j \in 1 .. Len(jobs') : jobs'[j].ses <= ses'
    BY <1>0, <2>1, <2>3 DEF JobsGrow
  <2>5. (AcceptedBy(ses, Len(jobs)) \ Outstanding)' = AcceptedBy(ses, Len(jobs)) \ Outstanding
    BY <1>0, <2>1, <2>3 DEF AcceptedBy, Outstanding, JobsGrow
  <2> QED BY <2>1, <2>4, <2>5 DEF LogInv, Live
<1>8. CASE WorkerPop
  <2>1. Outstanding' = Outstanding
    BY <1>0, <1>8 DEF WorkerPop, Outstanding
  <2> QED BY <1>8, <2>1 DEF WorkerPop, LogInv, Live, AcceptedBy
<1>9. ASSUME NEW ok, Record(popped, ok), busy, busy' = FALSE,
             UNCHANGED <<jobs, popped, ses, door>>
      PROVE  LogInv'
  <2> DEFINE s0 == jobs[popped].ses
  <2>1. popped \in 1 .. Len(jobs) /\ s0 <= ses /\ s0 \in SessionId
    BY <1>0, <1>9, WorkersJob
  <2>2. Outstanding' = Outstanding \ {popped}
    BY <1>0, <1>9, <2>1 DEF Outstanding
  <2>3. settled' = settled
    BY <1>9 DEF Record
  <2>4. \A s \in SessionId : s # s0 => events'[s] = events[s]
    BY <1>9, <2>1 DEF Record, TypeOK
  <2>5. settled[s0] = NotSettled => events'[s0] = events[s0] \cup {popped}
    BY <1>9, <2>1 DEF Record, TypeOK
  <2>6. AcceptedBy(ses, Len(jobs))' = AcceptedBy(ses, Len(jobs))
    BY <1>9 DEF AcceptedBy
  <2>7. popped \in AcceptedBy(ses, Len(jobs)) <=> s0 = ses
    BY <2>1 DEF AcceptedBy
  <2>8. Live => events'[ses] = AcceptedBy(ses, Len(jobs)) \ Outstanding'
    <3>1. CASE s0 = ses
      BY <2>2, <2>5, <2>7, <3>1 DEF LogInv
    <3>2. CASE s0 # ses
      BY <1>0, <2>2, <2>4, <2>7, <3>2 DEF LogInv
    <3> QED BY <3>1, <3>2
  <2>9. \A s \in SessionId : s > ses => events'[s] = {}
    BY <1>0, <2>1, <2>4 DEF LogInv
  <2> QED BY <1>9, <2>3, <2>6, <2>8, <2>9 DEF LogInv, Live
<1>10. ASSUME NEW ok, WorkerCommit(ok) \/ WorkerJournalFails(ok)
       PROVE  LogInv'
  BY <1>9, <1>10 DEF WorkerCommit, WorkerJournalFails
<1>11. CASE Tick
  BY <1>1, <1>11 DEF Tick, Live
<1>12. CASE UNCHANGED vars
  BY <1>1, <1>12 DEF vars, Live
<1> QED
  BY <1>2, <1>3, <1>5, <1>6, <1>7, <1>8, <1>10, <1>11, <1>12
  DEF Next, Worker, RepeatClose, NullPoll

(* A barrier that carries nothing over and counts nothing pending has no   *)
(* work outstanding in any zone: the balance leaves no room for it.        *)
LEMMA QuietMeansDone ==
    ASSUME TypeOK, BarrierAccounting, NEW b,
           b.enqueued = barrier.enqueued, b.processed = barrier.processed,
           ~QueuePending(b), \A z \in Zone : carried[z] = 0
    PROVE  Outstanding = {}
<1>1. ASSUME NEW z \in Zone
      PROVE  OutstandingIn(z) = {}
  <2>1. /\ barrier.enqueued[z] \in Nat /\ barrier.processed[z] \in Nat
        /\ leaked[z] \in Nat /\ Cardinality(OutstandingIn(z)) \in Nat
        /\ IsFiniteSet(OutstandingIn(z))
    BY OutstandingFinite DEF TypeOK, Barrier
  <2>2. barrier.enqueued[z] <= barrier.processed[z]
    BY <2>1 DEF QueuePending
  <2>3. barrier.enqueued[z]
          = barrier.processed[z] + Cardinality(OutstandingIn(z)) + leaked[z]
    BY <2>1 DEF BarrierAccounting
  <2>4. Cardinality(OutstandingIn(z)) = 0
    BY <2>1, <2>2, <2>3
  <2> QED BY <2>1, <2>4, FS_EmptySet
<1>2. \A j \in Outstanding : jobs[j].zone \in Zone
  BY JobAt DEF Outstanding
<1> QED BY <1>1, <1>2 DEF OutstandingIn

(* A complete bill stays complete: the failures of its jobs were known     *)
(* when it was made.                                                       *)
LEMMA CompleteKept ==
    ASSUME TypeOK, JobsGrow, WorkProceeds, NEW p \in Payment, p.upto <= Len(jobs),
           Complete(p), AcceptedBy(p.ses, p.upto) \cap Outstanding = {}
    PROVE  /\ Complete(p)'
           /\ (AcceptedBy(p.ses, p.upto) \cap Outstanding)' = {}
<1> DEFINE A == AcceptedBy(p.ses, p.upto)
<1>1. p.upto \in 0 .. Len(jobs) /\ Len(jobs) \in Nat
  BY DEF TypeOK, Payment
<1>2. A' = A
  BY <1>1, AcceptedKept
<1>3. A \subseteq 1 .. Len(jobs)
  BY <1>1 DEF AcceptedBy
<1>4. A \cap failed' = A \cap failed
  BY DEF WorkProceeds
<1>5. A \cap Outstanding' = {}
  BY <1>3 DEF WorkProceeds
<1>6. \A j \in A : jobs'[j] = jobs[j]
  BY <1>3 DEF JobsGrow
<1> HIDE DEF A
<1>7. ErrorFree(A)' = ErrorFree(A)
  <2>1. ErrorFree(A)' = {j \in A : ~\E k \in A \cap failed' : jobs'[k].zone = jobs'[j].zone}
    BY <1>2 DEF ErrorFree
  <2> QED BY <1>4, <1>6, <2>1 DEF ErrorFree
<1>8. Complete(p)'
  BY <1>2, <1>4, <1>7 DEF Complete, A
<1> QED BY <1>2, <1>5, <1>8 DEF A

LEMMA BillNext ==
    TypeOK /\ BarrierAccounting /\ LogInv /\ BillInv /\ [Next]_vars => BillInv'
<1> SUFFICES ASSUME TypeOK, BarrierAccounting, LogInv, BillInv, [Next]_vars
             PROVE  BillInv'
  OBVIOUS
<1>1. JobsGrow /\ WorkProceeds
  BY WorkStep
<1>2. ASSUME NEW p \in Payment, BillOK(p)
      PROVE  BillOK(p)'
  <2>1. p.upto \in Int /\ Len(jobs) \in Nat /\ Len(jobs') \in Int /\ p.upto <= Len(jobs)
    BY <1>2, TypeNext DEF BillOK, Payment, TypeOK
  <2>2. p.upto <= Len(jobs')
    BY <1>1, <2>1 DEF JobsGrow
  <2>3. p.clean => Complete(p)' /\ (AcceptedBy(p.ses, p.upto) \cap Outstanding)' = {}
    BY <1>1, <1>2, <2>1, CompleteKept DEF BillOK
  <2> QED BY <2>2, <2>3 DEF BillOK
<1>3. ASSUME NEW i \in DOMAIN payments
      PROVE  \E p \in Payment : p = payments[i] /\ BillOK(p)'
  <2>1. PICK p \in Payment : p = payments[i]
    BY PaymentAt
  <2>2. BillOK(p)
    BY <2>1 DEF BillInv
  <2> QED BY <1>2, <2>1, <2>2
<1>4. CASE payments' = payments
  BY <1>3, <1>4 DEF BillInv, BillOK
<1>5. CASE PaysNow
  <2>1. PICK b \in Barrier, via \in {"CLOSE", "POLL"} :
           /\ b.enqueued = barrier.enqueued /\ b.processed = barrier.processed
           /\ ~QueuePending(b) /\ SettlementOf(ses).outcome = "payable"
           /\ payments' = Append(payments, PaymentFor(b, via)) /\ Live
    BY <1>5 DEF PaysNow
  <2>2. PICK p \in Payment : p = PaymentFor(b, via)
    BY PaymentForType
  <2>3. BillOK(p)
    <3>1. p.upto = Len(jobs) /\ p.ses = ses /\ p.billed = SettlementOf(ses).billed
          /\ (p.clean <=> \A z \in Zone : carried[z] = 0)
      BY <2>2 DEF PaymentFor
    <3>2. SUFFICES ASSUME p.clean
                   PROVE  Complete(p) /\ AcceptedBy(p.ses, p.upto) \cap Outstanding = {}
      BY <3>1 DEF BillOK, TypeOK
    <3>3. Outstanding = {}
      BY <2>1, <3>1, <3>2, QuietMeansDone
    <3>4. SettlementOf(ses) = Settle(AcceptedBy(ses, Len(jobs)))
      BY <2>1, <3>3 DEF LogInv, SettlementOf
    <3>5. Complete(p)
      BY <2>1, <3>1, <3>4 DEF Complete, Settle
    <3> QED BY <3>3, <3>5
  <2>4. BillOK(p)'
    BY <1>2, <2>3
  <2> DEFINE n == Len(payments)
  <2>5. payments \in Seq(Payment) /\ n \in Nat
    BY DEF TypeOK
  <2>6. payments' = Append(payments, p)
    BY <2>1, <2>2
  <2>7. /\ DOMAIN payments' = 1 .. n + 1 /\ DOMAIN payments = 1 .. n
        /\ \A i \in 1 .. n : payments'[i] = payments[i]
        /\ payments'[n + 1] = p
    BY <2>5, <2>6
  <2>8. ASSUME NEW i \in DOMAIN payments'
        PROVE  BillOK(payments[i])'
    <3>1. CASE i = n + 1
      BY <2>4, <2>7, <3>1 DEF BillOK
    <3>2. CASE i \in 1 .. n
      BY <1>3, <2>7, <3>2 DEF BillOK
    <3> QED BY <2>5, <2>7, <3>1, <3>2
  <2> QED BY <2>8 DEF BillInv
<1> QED BY <1>4, <1>5, PayStep

(* No session that began with an idle worker is paid for anything but all  *)
(* its accepted triggers -- for any number of zones, triggers, sessions,   *)
(* any timeouts and either error policy.                                   *)
THEOREM CleanBills == Spec => []CleanBillIsComplete
<1>1. Init => BillInv
  BY DEF Init, BillInv
<1>2. TypeOK /\ LogInv /\ [Next]_vars => LogInv'
  BY LogNext
<1>3. TypeOK /\ BarrierAccounting /\ LogInv /\ BillInv /\ [Next]_vars => BillInv'
  BY BillNext
<1>4. BillInv => CleanBillIsComplete
  BY DEF BillInv, BillOK, CleanBillIsComplete
<1> QED BY <1>1, <1>2, <1>3, <1>4, LogInit, TypeCorrect, Accounting, PTL DEF Spec

-----------------------------------------------------------------------------
(*                     The signals of the close                            *)

(* The barrier counts, and keeps the largest number of, just the triggers  *)
(* that the session of the gateway has accepted.                           *)
ArrivedIn(z) == {j \in AcceptedBy(ses, Len(jobs)) : jobs[j].zone = z}

Arrived(b, z) ==
    /\ b.enqueued[z] = Cardinality(ArrivedIn(z))
    /\ b.lastSeq[z] > -1 => \E j \in ArrivedIn(z) : jobs[j].seq >= b.lastSeq[z]

ArrivalInv == \A z \in Zone : Arrived(barrier, z)

LEMMA ArrivedFinite ==
    ASSUME TypeOK, NEW z \in Zone
    PROVE  IsFiniteSet(ArrivedIn(z)) /\ Cardinality(ArrivedIn(z)) \in Nat
<1>1. Len(jobs) \in Int
  BY DEF TypeOK
<1>2. IsFiniteSet(1 .. Len(jobs))
  BY <1>1, FS_Interval
<1>3. ArrivedIn(z) \in SUBSET (1 .. Len(jobs))
  BY DEF ArrivedIn, AcceptedBy
<1> QED BY <1>2, <1>3, FS_Subset, FS_CardinalityType

(* A barrier that nothing has arrived at.                                  *)
LEMMA NothingArrived ==
    ASSUME NEW z \in Zone, ArrivedIn(z) = {}
    PROVE  Arrived(NewBarrier, z)
BY FS_EmptySet DEF Arrived, NewBarrier

LEMMA ArrivalInit == Init => ArrivalInv
<1> SUFFICES ASSUME Init, NEW z \in Zone PROVE Arrived(barrier, z)
  BY DEF ArrivalInv
<1>1. ArrivedIn(z) = {} /\ barrier = NewBarrier
  BY DEF Init, ArrivedIn, AcceptedBy
<1> QED BY <1>1, NothingArrived

LEMMA NoteSeqKeeps ==
    ASSUME NEW b \in Barrier, NEW z0 \in Zone, NEW z \in Zone, NEW n \in Int
    PROVE  /\ NoteSeq(b, z0, n).enqueued = b.enqueued
           /\ \/ NoteSeq(b, z0, n).lastSeq[z] = b.lastSeq[z]
              \/ z = z0 /\ b.lastSeq[z] < n /\ NoteSeq(b, z0, n).lastSeq[z] = n
<1>1. NoteSeq(b, z0, n).enqueued = b.enqueued
  BY DEF NoteSeq, Barrier
<1>2. NoteSeq(b, z0, n).lastSeq
        = [b.lastSeq EXCEPT ![z0] = IF @ < n THEN n ELSE @]
  BY DEF NoteSeq, Barrier
<1>3. b.lastSeq \in [Zone -> Int]
  BY DEF Barrier
<1> QED BY <1>1, <1>2, <1>3

LEMMA ArrivalAfterTrigger ==
    ASSUME TypeOK, NEW z \in Zone, Arrived(barrier, z),
           NEW z0 \in Zone, NEW seq \in Seqs, Trigger(z0, seq)
    PROVE  (Arrived(barrier, z))'
<1> DEFINE n   == Len(jobs) + 1
           job == [ses |-> ses, zone |-> z0, seq |-> seq]
           b1  == IF seq = -1 THEN barrier ELSE NoteSeq(barrier, z0, seq)
<1>1. /\ jobs' = Append(jobs, job) /\ ses' = ses /\ barrier' = NotifyEnqueued(b1, z0)
      /\ Len(jobs) \in Nat /\ seq \in Int /\ barrier \in Barrier
  BY ConstantsAssumption DEF Trigger, TypeOK
<1>2. job.ses = ses /\ job.zone = z0 /\ job.seq = seq
  OBVIOUS
<1> HIDE DEF job
<1>3. JobsGrow /\ Len(jobs') = n /\ jobs'[n] = job
  BY <1>1, JobsGrowByAppend
<1>4. ArrivedIn(z)' = IF z = z0 THEN ArrivedIn(z) \cup {n} ELSE ArrivedIn(z)
  BY <1>1, <1>2, <1>3 DEF ArrivedIn, AcceptedBy, JobsGrow
<1>5. \A j \in ArrivedIn(z) : jobs'[j] = jobs[j]
  BY <1>3 DEF ArrivedIn, AcceptedBy, JobsGrow
<1>6. /\ b1 \in Barrier /\ b1.enqueued = barrier.enqueued
      /\ \/ b1.lastSeq[z] = barrier.lastSeq[z]
         \/ z = z0 /\ barrier.lastSeq[z] < seq /\ b1.lastSeq[z] = seq
  <2>1. CASE seq = -1
    BY <1>1, <2>1
  <2>2. CASE seq # -1
    BY <1>1, <2>2, NoteSeqType, NoteSeqKeeps
  <2> QED BY <2>1, <2>2
<1> HIDE DEF b1
<1>7. /\ barrier'.enqueued[z] = barrier.enqueued[z] + IF z = z0 THEN 1 ELSE 0
      /\ barrier'.lastSeq = b1.lastSeq
  BY <1>1, <1>6, NotifyCounts DEF NotifyEnqueued
<1>8. barrier'.enqueued[z] = Cardinality(ArrivedIn(z)')
  <2>1. IsFiniteSet(ArrivedIn(z)) /\ Cardinality(ArrivedIn(z)) \in Nat
    BY ArrivedFinite
  <2>2. n \notin ArrivedIn(z)
    BY <1>1 DEF ArrivedIn, AcceptedBy
  <2>3. Cardinality(ArrivedIn(z) \cup {n}) = Cardinality(ArrivedIn(z)) + 1
    BY <2>1, <2>2, FS_AddElement
  <2> QED BY <1>4, <1>7, <2>1, <2>3 DEF Arrived
<1>9. ASSUME barrier'.lastSeq[z] > -1
      PROVE  \E j \in ArrivedIn(z)' : jobs'[j].seq >= barrier'.lastSeq[z]
  <2>1. CASE z = z0 /\ b1.lastSeq[z] = seq
    <3>1. n \in ArrivedIn(z)' /\ jobs'[n].seq = seq /\ barrier'.lastSeq[z] = seq
      BY <1>2, <1>3, <1>4, <1>7, <2>1
    <3> QED BY <1>1, <3>1
  <2>2. CASE ~(z = z0 /\ b1.lastSeq[z] = seq)
    <3>1. barrier'.lastSeq[z] = barrier.lastSeq[z]
      BY <1>6, <1>7, <2>2
    <3>2. PICK j \in ArrivedIn(z) : jobs[j].seq >= barrier.lastSeq[z]
      BY <1>9, <3>1 DEF Arrived
    <3>3. j \in ArrivedIn(z)' /\ jobs'[j] = jobs[j]
      BY <1>4, <1>5
    <3> QED BY <3>1, <3>2, <3>3
  <2> QED BY <2>1, <2>2
<1> QED BY <1>8, <1>9 DEF Arrived

LEMMA ArrivalNext == TypeOK /\ LogInv /\ ArrivalInv /\ [Next]_vars => ArrivalInv'
<1> SUFFICES ASSUME TypeOK, LogInv, ArrivalInv, [Next]_vars, NEW z \in Zone
             PROVE  (Arrived(barrier, z))'
  BY DEF ArrivalInv
<1> USE DEF gatewayVars, workerVars
<1>0. Arrived(barrier, z) /\ barrier \in Barrier
  BY DEF ArrivalInv, TypeOK
<1>1. ASSUME UNCHANGED <<ses, jobs>>, barrier'.enqueued = barrier.enqueued,
             barrier'.lastSeq = barrier.lastSeq
      PROVE  (Arrived(barrier, z))'
  BY <1>0, <1>1 DEF Arrived, ArrivedIn, AcceptedBy
<1>2. CASE OpenNewSession
  <2>1. ses' = ses + 1 /\ jobs' = jobs /\ barrier' = NewBarrier /\ ses \in Int
    BY <1>2 DEF OpenNewSession, TypeOK, SessionId
  <2>2. \A j \in 1 .. Len(jobs) : jobs[j].ses # ses + 1
    BY <2>1, JobAt DEF LogInv, SessionId
  <2>3. ArrivedIn(z)' = {}
    BY <2>1, <2>2 DEF ArrivedIn, AcceptedBy
  <2> QED BY <2>1, <2>3, FS_EmptySet DEF Arrived, NewBarrier
<1>3. ASSUME NEW wm \in Watermarks, NEW ex \in Expectations, Close(wm, ex)
      PROVE  (Arrived(barrier, z))'
  <2> DEFINE b1 == IF DOMAIN wm # {} THEN SetCloseWatermark(barrier, wm) ELSE barrier
             b2 == IF DOMAIN ex # {} THEN SetExpectedCounts(b1, ex) ELSE b1
  <2>1. b1 \in Barrier /\ b1.enqueued = barrier.enqueued /\ b1.lastSeq = barrier.lastSeq
    BY <1>0, SignalType, SignalsKeepCounters, ConstantsAssumption
  <2>2. barrier' = b2 /\ UNCHANGED <<ses, jobs>>
    BY <1>3 DEF Close
  <2> HIDE DEF b1
  <2>3. barrier'.enqueued = barrier.enqueued /\ barrier'.lastSeq = barrier.lastSeq
    BY <2>1, <2>2, SignalsKeepCounters
  <2> QED BY <1>1, <2>2, <2>3
<1>4. ASSUME NEW z0 \in Zone, NEW seq \in Seqs, Trigger(z0, seq)
      PROVE  (Arrived(barrier, z))'
  BY <1>0, <1>4, ArrivalAfterTrigger
<1>5. ASSUME NEW ok \in BOOLEAN, WorkerCommit(ok)
      PROVE  (Arrived(barrier, z))'
  BY <1>0, <1>1, <1>5, WorkersJob DEF WorkerCommit, NotifyProcessed, Barrier
<1>6. ASSUME NEW ok \in BOOLEAN, WorkerJournalFails(ok)
      PROVE  (Arrived(barrier, z))'
  BY <1>1, <1>6 DEF WorkerJournalFails
<1>7. ASSUME NEW via, PollClosing(via)
      PROVE  (Arrived(barrier, z))'
  BY <1>1, <1>7 DEF PollClosing
<1>8. CASE Reopen
  BY <1>1, <1>8 DEF Reopen
<1>9. CASE WorkerPop
  BY <1>1, <1>9 DEF WorkerPop
<1>10. CASE Tick
  BY <1>1, <1>10 DEF Tick
<1>11. CASE UNCHANGED vars
  BY <1>1, <1>11 DEF vars
<1> QED
  BY <1>2, <1>3, <1>4, <1>5, <1>6, <1>7, <1>8, <1>9, <1>10, <1>11
  DEF Next, Worker, RepeatClose, NullPoll

(* What SignalsHonoured asks of one payment, and what keeps it: the jobs   *)
(* billed do not change.                                                   *)
Honours(p) ==
    \A z \in Zone :
        /\ Cardinality(BilledIn(p, z)) >= p.expected[z]
        /\ p.watermark[z] > -1 => \E j \in BilledIn(p, z) : jobs[j].seq >= p.watermark[z]

SignalOK(p) == (p.clean /\ BlockPayment) => Honours(p)

LEMMA HonouredKept ==
    ASSUME TypeOK, JobsGrow, NEW p \in Payment, BillOK(p), SignalOK(p)
    PROVE  SignalOK(p)'
<1> SUFFICES ASSUME p.clean, BlockPayment PROVE Honours(p)'
  BY DEF SignalOK
<1>1. p.billed \subseteq 1 .. Len(jobs) /\ Honours(p)
  BY DEF BillOK, Complete, ErrorFree, AcceptedBy, SignalOK
<1>2. \A j \in p.billed : jobs'[j] = jobs[j]
  BY <1>1 DEF JobsGrow
<1>3. \A z : BilledIn(p, z)' = BilledIn(p, z)
  BY <1>2 DEF BilledIn
<1>4. \A z : \A j \in BilledIn(p, z) : jobs'[j] = jobs[j]
  BY <1>2 DEF BilledIn
<1> QED BY <1>1, <1>3, <1>4 DEF Honours

(* The bill just made: complete and free of errors, it is all that arrived *)
(* and was counted, and the barrier was satisfied by that count.           *)
LEMMA NewBillHonours ==
    ASSUME TypeOK, ArrivalInv, NEW b \in Barrier, NEW via,
           b.enqueued = barrier.enqueued, b.lastSeq = barrier.lastSeq,
           ~SeqGap(b), ~AwaitingTriggers(b), BillOK(PaymentFor(b, via))
    PROVE  SignalOK(PaymentFor(b, via))
<1> DEFINE p == PaymentFor(b, via)
<1>1. /\ p.ses = ses /\ p.upto = Len(jobs) /\ p.expected = b.expected
      /\ p.watermark = b.watermark
  BY DEF PaymentFor
<1> HIDE DEF p
<1> SUFFICES ASSUME p.clean, BlockPayment, NEW z \in Zone
             PROVE  /\ Cardinality(BilledIn(p, z)) >= p.expected[z]
                    /\ p.watermark[z] > -1
                         => \E j \in BilledIn(p, z) : jobs[j].seq >= p.watermark[z]
  BY DEF SignalOK, Honours, p
<1>2. Complete(p)
  BY DEF BillOK, p
<1>3. p.billed = AcceptedBy(ses, Len(jobs))
  BY <1>1, <1>2 DEF Complete, ErrorFree
<1>4. BilledIn(p, z) = ArrivedIn(z)
  BY <1>3 DEF BilledIn, ArrivedIn
<1>5. /\ b.enqueued[z] = Cardinality(ArrivedIn(z))
      /\ b.lastSeq[z] > -1 => \E j \in ArrivedIn(z) : jobs[j].seq >= b.lastSeq[z]
  BY DEF ArrivalInv, Arrived
<1>6. /\ b.enqueued[z] \in Nat /\ b.expected[z] \in Nat
      /\ b.lastSeq[z] \in Int /\ b.watermark[z] \in Int
  BY DEF Barrier, Key
<1>7. Cardinality(BilledIn(p, z)) >= p.expected[z]
  BY <1>1, <1>4, <1>5, <1>6 DEF AwaitingTriggers
<1>8. ASSUME p.watermark[z] > -1
      PROVE  \E j \in BilledIn(p, z) : jobs[j].seq >= p.watermark[z]
  <2>1. b.lastSeq[z] >= b.watermark[z]
    BY <1>6 DEF SeqGap, Key
  <2>2. b.lastSeq[z] > -1
    BY <1>1, <1>6, <1>8, <2>1
  <2>3. PICK j \in ArrivedIn(z) : jobs[j].seq >= b.lastSeq[z]
    BY <1>5, <2>2
  <2>4. jobs[j].seq \in Int
    <3>1. jobs \in Seq(Job) /\ j \in 1 .. Len(jobs)
      BY DEF TypeOK, ArrivedIn, AcceptedBy
    <3>2. jobs[j] \in Job
      BY <3>1
    <3>3. jobs[j].seq \in Seqs
      BY <3>2 DEF Job
    <3>4. Seqs \subseteq Int
      BY ConstantsAssumption
    <3> QED BY <3>3, <3>4
  <2> QED BY <1>1, <1>4, <1>6, <2>1, <2>3, <2>4
<1> QED BY <1>7, <1>8

SignalInv == \A i \in DOMAIN payments : SignalOK(payments[i])

LEMMA SignalNext ==
    /\ TypeOK /\ BarrierAccounting /\ LogInv /\ BillInv /\ ArrivalInv /\ SignalInv
    /\ [Next]_vars
    => SignalInv'
<1> SUFFICES ASSUME TypeOK, BarrierAccounting, LogInv, BillInv, ArrivalInv, SignalInv,
                    [Next]_vars
             PROVE  SignalInv'
  OBVIOUS
<1>1. JobsGrow /\ BillInv'
  BY WorkStep, BillNext
<1>2. ASSUME NEW i \in DOMAIN payments
      PROVE  \E p \in Payment : p = payments[i] /\ SignalOK(p)'
  <2>1. PICK p \in Payment : p = payments[i]
    BY PaymentAt
  <2>2. BillOK(p) /\ SignalOK(p)
    BY <2>1 DEF BillInv, SignalInv
  <2> QED BY <1>1, <2>1, <2>2, HonouredKept
<1>3. CASE payments' = payments
  BY <1>2, <1>3 DEF SignalInv, SignalOK, Honours, BilledIn
<1>4. CASE PaysNow
  <2>1. PICK b \in Barrier, via \in {"CLOSE", "POLL"} :
           /\ b.enqueued = barrier.enqueued /\ b.lastSeq = barrier.lastSeq
           /\ ~SeqGap(b) /\ ~AwaitingTriggers(b)
           /\ payments' = Append(payments, PaymentFor(b, via))
    BY <1>4 DEF PaysNow
  <2>2. PICK p \in Payment : p = PaymentFor(b, via)
    BY PaymentForType
  <2> DEFINE n == Len(payments)
  <2>3. payments \in Seq(Payment) /\ n \in Nat
    BY DEF TypeOK
  <2>4. /\ DOMAIN payments' = 1 .. n + 1 /\ DOMAIN payments = 1 .. n
        /\ \A i \in 1 .. n : payments'[i] = payments[i]
        /\ payments'[n + 1] = p
    BY <2>1, <2>2, <2>3
  <2>5. UNCHANGED <<jobs, popped, busy, failed>>
    BY <1>4 DEF PaysNow, workerVars
  <2>6. BillOK(p)' /\ (BillOK(p)' => BillOK(p))
    BY <1>1, <2>3, <2>4, <2>5
    DEF BillInv, BillOK, Complete, AcceptedBy, ErrorFree, Outstanding
  <2>7. SignalOK(p)'
    BY <1>1, <2>1, <2>2, <2>6, NewBillHonours, HonouredKept
  <2>8. ASSUME NEW i \in DOMAIN payments'
        PROVE  SignalOK(payments[i])'
    <3>1. CASE i = n + 1
      BY <2>4, <2>7, <3>1 DEF SignalOK, Honours, BilledIn
    <3>2. CASE i \in 1 .. n
      BY <1>2, <2>4, <3>2 DEF SignalOK, Honours, BilledIn
    <3> QED BY <2>3, <2>4, <3>1, <3>2
  <2> QED BY <2>8 DEF SignalInv
<1> QED BY <1>3, <1>4, PayStep

(* A clean bill has, in each zone, as many triggers as the CLOSE announced *)
(* and one that reaches its watermark (set_expected_counts,                *)
(* set_close_watermark, status, settle) -- for every payload of a CLOSE.   *)
THEOREM SignalsKept == Spec => []SignalsHonoured
<1>1. Init => BillInv /\ SignalInv
  BY DEF Init, BillInv, SignalInv
<1>2. TypeOK /\ LogInv /\ [Next]_vars => LogInv'
  BY LogNext
<1>3. TypeOK /\ BarrierAccounting /\ LogInv /\ BillInv /\ [Next]_vars => BillInv'
  BY BillNext
<1>4. TypeOK /\ LogInv /\ ArrivalInv /\ [Next]_vars => ArrivalInv'
  BY ArrivalNext
<1>5. /\ TypeOK /\ BarrierAccounting /\ LogInv /\ BillInv /\ ArrivalInv /\ SignalInv
      /\ [Next]_vars
      => SignalInv'
  BY SignalNext
<1>6. SignalInv => SignalsHonoured
  BY DEF SignalInv, SignalOK, Honours, SignalsHonoured
<1> QED
  BY <1>1, <1>2, <1>3, <1>4, <1>5, <1>6, LogInit, ArrivalInit, TypeCorrect, Accounting, PTL
  DEF Spec

-----------------------------------------------------------------------------
(*                    What a step of the service never does                *)

(* Only the worker's second section and the pruning of an OPEN change the  *)
(* log: the first refuses what is settled, the second only removes.        *)
LEMMA FrozenStep ==
    ASSUME TypeOK, [Next]_vars, NEW s \in SessionId, settled[s] # NotSettled
    PROVE  events'[s] \subseteq events[s]
<1> USE DEF ledgerVars
<1>1. CASE OpenNewSession
  BY <1>1 DEF OpenNewSession
<1>2. ASSUME NEW ok \in BOOLEAN, Record(popped, ok), busy
      PROVE  events'[s] \subseteq events[s]
  <2>1. CASE settled[jobs[popped].ses] # NotSettled
    BY <1>2, <2>1 DEF Record
  <2>2. CASE settled[jobs[popped].ses] = NotSettled
    <3>1. events' = [events EXCEPT ![jobs[popped].ses] = @ \cup {popped}]
      BY <1>2, <2>2 DEF Record
    <3>2. jobs[popped].ses # s
      BY <2>2
    <3> QED BY <3>1, <3>2 DEF TypeOK
  <2> QED BY <2>1, <2>2
<1>3. ASSUME NEW ok \in BOOLEAN, WorkerCommit(ok) \/ WorkerJournalFails(ok)
      PROVE  events'[s] \subseteq events[s]
  BY <1>2, <1>3 DEF WorkerCommit, WorkerJournalFails
<1>4. ASSUME NEW wm, NEW ex, Close(wm, ex)
      PROVE  events' = events
  BY <1>4 DEF Close
<1>5. ASSUME NEW via, PollClosing(via)
      PROVE  events' = events
  BY <1>5 DEF PollClosing
<1>6. ASSUME NEW z, NEW seq, Trigger(z, seq)
      PROVE  events' = events
  BY <1>6 DEF Trigger
<1>7. Reopen \/ WorkerPop \/ Tick \/ UNCHANGED vars => events' = events
  BY DEF Reopen, WorkerPop, Tick, vars
<1> QED
  BY <1>1, <1>3, <1>4, <1>5, <1>6, <1>7 DEF Next, Worker, RepeatClose, NullPoll

(* The log of a settled session never gains an event (EventLog.append      *)
(* refuses it), for any number of sessions, jobs and prunings.             *)
THEOREM FrozenLog == Spec => SettledLogIsFrozen
<1>1. TypeOK /\ [Next]_vars =>
        [\A s \in SessionId : settled[s] # NotSettled => events'[s] \subseteq events[s]]_vars
  BY FrozenStep
<1> QED BY <1>1, TypeCorrect, PTL DEF Spec, SettledLogIsFrozen

(* A poll that ends a session as an error with work outstanding, nothing   *)
(* carried over, has waited for the stall timeout since both the close and *)
(* the last completed job: by the balance of the counters something is     *)
(* then pending, and pending work selects the longer timeout.              *)
LEMMA PatientPoll ==
    ASSUME TypeOK, BarrierAccounting, NEW via, PollClosing(via), door' = "error",
           Outstanding # {}, \A z \in Zone : carried[z] = 0
    PROVE  closeAge >= StallTimeout /\ progAge >= StallTimeout
<1>1. QueuePending(barrier)
  BY QuietMeansDone
<1>2. ~Satisfied(barrier)
  BY <1>1 DEF Satisfied
<1>3. Expired(barrier, closeAge)
  BY <1>2 DEF PollClosing, Poll, Waits, Settles, TimesOut
<1>4. Least(closeAge, progAge) >= StallTimeout
  BY <1>1, <1>3 DEF Expired
<1>5. closeAge \in Int /\ progAge \in Int /\ StallTimeout \in Int
  BY ConstantsAssumption DEF TypeOK, Age, Horizon
<1> QED BY <1>4, <1>5 DEF Least

LEMMA PatientStep ==
    ASSUME TypeOK, BarrierAccounting, [Next]_vars,
           door = "pending_close", door' = "error",
           Outstanding # {}, \A z \in Zone : carried[z] = 0
    PROVE  closeAge >= StallTimeout /\ progAge >= StallTimeout
<1>1. ASSUME NEW wm, NEW ex
      PROVE  ~Close(wm, ex)
  BY DEF Close
<1>2. ASSUME NEW z, NEW seq
      PROVE  ~Trigger(z, seq)
  BY DEF Trigger
<1>3. ASSUME NEW ok
      PROVE  ~WorkerCommit(ok) /\ ~WorkerJournalFails(ok)
  BY DEF WorkerCommit, WorkerJournalFails, gatewayVars
<1>4. ~OpenNewSession /\ ~Reopen /\ ~WorkerPop /\ ~Tick /\ ~UNCHANGED vars
  BY DEF OpenNewSession, Reopen, WorkerPop, Tick, vars, gatewayVars
<1>5. PollClosing("CLOSE") \/ PollClosing("POLL")
  BY <1>1, <1>2, <1>3, <1>4 DEF Next, Worker, RepeatClose, NullPoll
<1> QED BY <1>5, PatientPoll

(* No session is timed out while the worker still gets through its         *)
(* triggers (poll's choice of timeout), for any timeouts.                  *)
THEOREM Patience == Spec => NoTimeoutWhileWorking
<1>1. TypeOK /\ BarrierAccounting /\ [Next]_vars =>
        [ (door = "pending_close" /\ door' = "error" /\ Outstanding # {}
             /\ \A z \in Zone : carried[z] = 0)
          => closeAge >= StallTimeout /\ progAge >= StallTimeout ]_vars
  BY PatientStep
<1> QED BY <1>1, TypeCorrect, Accounting, PTL DEF Spec, NoTimeoutWhileWorking
-----------------------------------------------------------------------------
(***************************************************************************)
(* SessionClose implements SessionContract, for every value of the         *)
(* constants: each step of the service opens, feeds, pays or fails a       *)
(* session as the contract allows, or does not show.                       *)
(***************************************************************************)

(* The state of the contract, as SessionClose maps it.                     *)
Accepted == [j \in 1 .. Len(jobs) |-> [ses |-> jobs[j].ses, zone |-> jobs[j].zone]]
Paid     == [i \in 1 .. Len(payments) |->
                [ses |-> payments[i].ses, billed |-> payments[i].billed]]
Trusted  == \A z \in Zone : carried[z] = 0

(* A job or a payment more is one element more of the mapped sequence.     *)
LEMMA AcceptedGrows ==
    ASSUME TypeOK, NEW z, NEW seq, jobs' = Append(jobs, [ses |-> ses, zone |-> z, seq |-> seq])
    PROVE  Accepted' = Append(Accepted, [ses |-> ses, zone |-> z])
<1> DEFINE job == [ses |-> ses, zone |-> z, seq |-> seq]
           new == [ses |-> ses, zone |-> z]
           n   == Len(jobs)
<1>1. n \in Nat /\ Len(jobs') = n + 1 /\ jobs'[n + 1] = job
      /\ \A j \in 1 .. n : jobs'[j] = jobs[j]
  BY JobsGrowByAppend DEF TypeOK, JobsGrow
<1>2. Accepted \in Seq({Accepted[j] : j \in 1 .. n}) /\ Len(Accepted) = n
  <2>1. Accepted = [j \in 1 .. n |-> Accepted[j]]
    BY DEF Accepted
  <2> QED BY <1>1, <2>1
<1>3. Append(Accepted, new) = [j \in 1 .. n + 1 |-> IF j = n + 1 THEN new ELSE Accepted[j]]
  BY <1>1, <1>2
<1>4. Accepted' = [j \in 1 .. n + 1 |-> [ses |-> jobs'[j].ses, zone |-> jobs'[j].zone]]
  BY <1>1 DEF Accepted
<1>5. ASSUME NEW j \in 1 .. n + 1
      PROVE  [ses |-> jobs'[j].ses, zone |-> jobs'[j].zone]
               = IF j = n + 1 THEN new ELSE Accepted[j]
  BY <1>1 DEF Accepted
<1> QED BY <1>3, <1>4, <1>5

LEMMA PaidGrows ==
    ASSUME TypeOK, NEW p, payments' = Append(payments, p)
    PROVE  Paid' = Append(Paid, [ses |-> p.ses, billed |-> p.billed])
<1> DEFINE new == [ses |-> p.ses, billed |-> p.billed]
           n   == Len(payments)
<1>1. n \in Nat /\ payments \in Seq(Payment)
  BY DEF TypeOK
<1>2. /\ Len(payments') = n + 1 /\ payments'[n + 1] = p
      /\ \A i \in 1 .. n : payments'[i] = payments[i]
  BY <1>1
<1>3. Paid \in Seq({Paid[i] : i \in 1 .. n}) /\ Len(Paid) = n
  <2>1. Paid = [i \in 1 .. n |-> Paid[i]]
    BY DEF Paid
  <2> QED BY <1>1, <2>1
<1>4. Append(Paid, new) = [i \in 1 .. n + 1 |-> IF i = n + 1 THEN new ELSE Paid[i]]
  BY <1>1, <1>3
<1>5. Paid' = [i \in 1 .. n + 1 |-> [ses |-> payments'[i].ses, billed |-> payments'[i].billed]]
  BY <1>2 DEF Paid
<1>6. ASSUME NEW i \in 1 .. n + 1
      PROVE  [ses |-> payments'[i].ses, billed |-> payments'[i].billed]
               = IF i = n + 1 THEN new ELSE Paid[i]
  BY <1>1, <1>2 DEF Paid
<1> QED BY <1>4, <1>5, <1>6

-----------------------------------------------------------------------------
(* The kinds of step: a session begins, a trigger is accepted, a session   *)
(* is paid, or nothing but the door moves, and it does not open.           *)
QuietStep == UNCHANGED <<ses, jobs, payments, carried>> /\ (Live' => Live)

LEMMA KindsOfStep ==
    ASSUME TypeOK, [Next]_vars
    PROVE  \/ OpenNewSession
           \/ \E z \in Zone, seq \in Seqs : Trigger(z, seq)
           \/ PaysNow
           \/ QuietStep
<1> USE DEF gatewayVars, workerVars, ledgerVars, historyVars, Live, QuietStep
<1>1. payments' = payments \/ PaysNow
  BY PayStep
<1>2. CASE Reopen
  BY <1>2 DEF Reopen
<1>3. ASSUME NEW wm, NEW ex, Close(wm, ex), payments' = payments
      PROVE  QuietStep
  BY <1>3 DEF Close
<1>4. ASSUME NEW via, PollClosing(via), payments' = payments
      PROVE  QuietStep
  BY <1>4 DEF PollClosing
<1>5. ASSUME NEW ok, WorkerCommit(ok) \/ WorkerJournalFails(ok)
      PROVE  QuietStep
  BY <1>5 DEF WorkerCommit, WorkerJournalFails
<1>6. WorkerPop \/ Tick \/ UNCHANGED vars => QuietStep
  BY DEF WorkerPop, Tick, vars
<1> HIDE DEF QuietStep
<1> QED
  BY <1>1, <1>2, <1>3, <1>4, <1>5, <1>6 DEF Next, Worker, RepeatClose, NullPoll

(* The triggers the contract calls the session's own are those the log is  *)
(* kept against.                                                           *)
LEMMA OwnIsAccepted ==
    ASSUME TypeOK
    PROVE  Contract!Own = AcceptedBy(ses, Len(jobs))
<1>1. Len(jobs) \in Nat
  BY DEF TypeOK
<1> QED BY <1>1 DEF Contract!Own, AcceptedBy

(* What is billed when a session is paid: triggers of its own, and the     *)
(* bill of a trusted one is right.                                         *)
LEMMA BillIsRight ==
    ASSUME TypeOK, BarrierAccounting, LogInv, PaysNow
    PROVE  /\ SettlementOf(ses).billed \subseteq Contract!Own
           /\ Trusted => SettlementOf(ses).billed \in Contract!RightBills
<1> DEFINE own  == AcceptedBy(ses, Len(jobs))
           bill == SettlementOf(ses).billed
<1>1. /\ Contract!Own = own /\ Live
      /\ SettlementOf(ses) = Settle(events[ses]) /\ events[ses] = own \ Outstanding
      /\ SettlementOf(ses).outcome = "payable"
  BY OwnIsAccepted DEF PaysNow, LogInv, SettlementOf
<1>2. bill = ErrorFree(events[ses])
  BY <1>1 DEF Settle
<1>3. bill \subseteq own
  BY <1>1, <1>2 DEF ErrorFree
<1>4. ASSUME Trusted
      PROVE  bill \in Contract!RightBills
  <2> DEFINE bad == own \cap failed
  <2>1. Outstanding = {}
    BY <1>4, QuietMeansDone DEF PaysNow, Trusted
  <2>2. events[ses] = own
    BY <1>1, <2>1
  <2>3. bill = {j \in own : ~\E k \in bad : jobs[k].zone = jobs[j].zone}
    BY <1>2, <2>2 DEF ErrorFree
  <2>4. bad \in IF BlockPayment THEN {{}} ELSE SUBSET own
    BY <1>1, <2>2 DEF Settle
  <2>5. \A j \in own : j \in 1 .. Len(jobs)
    BY DEF AcceptedBy, TypeOK
  <2> HIDE DEF own, bad
  <2>6. bill = {j \in own : ~\E k \in bad : Accepted[k].zone = Accepted[j].zone}
    <3>1. bad \subseteq own
      BY DEF bad
    <3>2. \A j \in own : Accepted[j].zone = jobs[j].zone
      BY <2>5 DEF Accepted
    <3> QED BY <2>3, <3>1, <3>2
  <2> HIDE DEF bill
  <2> QED BY <1>1, <2>4, <2>6 DEF Contract!RightBills, Accepted
<1> QED BY <1>1, <1>3, <1>4

LEMMA ContractStep ==
    ASSUME TypeOK, BarrierAccounting, LogInv, [Next]_vars
    PROVE  [Contract!Next]_(Contract!vars)
<1> USE DEF gatewayVars, workerVars, ledgerVars, historyVars
<1>1. CASE OpenNewSession
  <2>1. /\ ~Live /\ Live' /\ ses' = ses + 1 /\ Trusted' \in BOOLEAN
        /\ jobs' = jobs /\ payments' = payments
    BY <1>1 DEF OpenNewSession, Live, Trusted
  <2>2. Contract!Begin
    BY <2>1 DEF Contract!Begin, Live, Trusted
  <2> QED BY <2>2 DEF Contract!Next
<1>2. ASSUME NEW z \in Zone, NEW seq \in Seqs, Trigger(z, seq)
      PROVE  Contract!Next
  <2>1. /\ UNCHANGED <<door, ses, carried, payments>>
        /\ jobs' = Append(jobs, [ses |-> ses, zone |-> z, seq |-> seq])
    BY <1>2 DEF Trigger
  <2>2. Accepted' = Append(Accepted, [ses |-> ses, zone |-> z])
    BY <2>1, AcceptedGrows
  <2>3. Contract!Accept
    BY <2>1, <2>2 DEF Contract!Accept, Accepted
  <2> QED BY <2>3 DEF Contract!Next
<1>3. CASE PaysNow
  <2> DEFINE bill == SettlementOf(ses).billed
  <2>1. PICK b \in Barrier, via \in {"CLOSE", "POLL"} :
           payments' = Append(payments, PaymentFor(b, via))
    BY <1>3 DEF PaysNow
  <2>2. /\ Live /\ ~Live' /\ UNCHANGED <<ses, jobs, carried>>
    BY <1>3 DEF PaysNow
  <2>3. PaymentFor(b, via).ses = ses /\ PaymentFor(b, via).billed = bill
    BY DEF PaymentFor
  <2>4. Paid' = Append(Paid, [ses |-> ses, billed |-> bill])
    BY <2>1, <2>3, PaidGrows
  <2>5. bill \in IF Trusted THEN Contract!RightBills ELSE SUBSET Contract!Own
    BY <1>3, BillIsRight
  <2>6. \E B \in IF Trusted THEN Contract!RightBills ELSE SUBSET Contract!Own :
           Paid' = Append(Paid, [ses |-> ses, billed |-> B])
    <3> HIDE DEF bill
    <3> QED BY <2>4, <2>5
  <2>7. UNCHANGED <<ses, Trusted, Accepted>>
    BY <2>2 DEF Trusted, Accepted
  <2>8. Live' = FALSE
    BY <2>2 DEF Live
  <2>9. Contract!Pay
    BY <2>2, <2>6, <2>7, <2>8, Zenon DEF Contract!Pay, Live, Trusted, Paid, Accepted
  <2> QED BY <2>9 DEF Contract!Next
<1>4. CASE QuietStep /\ (Live <=> Live')
  BY <1>4 DEF QuietStep, Live, Contract!vars
<1>5. CASE QuietStep /\ Live /\ ~Live'
  <2>1. Contract!Fail
    BY <1>5 DEF QuietStep, Live, Contract!Fail
  <2> QED BY <2>1 DEF Contract!Next
<1> QED BY <1>1, <1>2, <1>3, <1>4, <1>5, KindsOfStep DEF QuietStep

(* The service keeps the contract of its sessions: none is paid twice, and *)
(* the bill of a trusted one has every trigger accepted for it, but those  *)
(* of zones that failed (gateway, worker, event log and settler together). *)
THEOREM Implements == Spec => KeepsContract
<1>1. Init => Contract!Init
  BY DEF Init, Contract!Init
<1>2. TypeOK /\ LogInv /\ [Next]_vars => LogInv'
  BY LogNext
<1>3. TypeOK /\ BarrierAccounting /\ LogInv /\ [Next]_vars => [Contract!Next]_(Contract!vars)
  BY ContractStep
<1> QED BY <1>1, <1>2, <1>3, LogInit, TypeCorrect, Accounting, PTL
        DEF Spec, KeepsContract, Contract!Spec
===============================================================================
