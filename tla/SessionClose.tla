---------------------------- MODULE SessionClose ----------------------------
(***************************************************************************)
(* The core of the service: how a door session is opened, collects         *)
(* triggers, closes and is paid.  One module for the objects that share    *)
(* ModelService._lock -- the gateway (gateway/state_machine.py), the       *)
(* serial worker (service/worker.py), the event log (ledger/events.py),    *)
(* the settler's cache (ledger/settler.py) and the two entry points of     *)
(* service/model_service.py -- because their hazards lie in how the three  *)
(* kinds of thread interleave: HTTP threads delivering triggers, HTTP      *)
(* threads delivering OPEN, CLOSE and polls, and the worker thread, which  *)
(* holds no lock while it runs inference.                                  *)
(*                                                                         *)
(* Each action is one critical section of the lock.  Time is kept as the   *)
(* ages of the gateway's three timestamps: clock() - max(s, t) is the      *)
(* smaller of two ages, and an age saturates at Horizon, beyond which no   *)
(* guard can tell it from "never" (the value None of the code).            *)
(*                                                                         *)
(* What a settlement bills is abstracted to the set of jobs whose judged   *)
(* events it adds up; module Settlement models the arithmetic.             *)
(***************************************************************************)
EXTENDS CausalBarrier, Sequences, FiniteSets

CONSTANTS
    MaxSessions,    \* bound: door sessions in a behaviour
    MaxJobs,        \* bound: triggers accepted in a behaviour
    CloseGrace,     \* close_grace_s, in ticks
    CloseTimeout,   \* close_timeout_s, in ticks
    StallTimeout,   \* max(worker_stall_timeout_s, close_timeout_s), in ticks
    KeepSessions,   \* keep_sessions: sessions whose log survives an OPEN
    BlockPayment,   \* error_policy = BLOCK_PAYMENT (else FINALIZE_ERROR_FREE_ZONES)
    Seqs,           \* camera sequence numbers; -1 stands for an absent one
    Watermarks,     \* seq_watermark payloads a CLOSE may carry
    Expectations    \* expected_triggers payloads a CLOSE may carry

ASSUME ConstantsAssumption ==
    /\ MaxSessions \in Nat /\ MaxJobs \in Nat /\ KeepSessions \in Nat \ {0}
    /\ CloseGrace \in Nat /\ CloseTimeout \in Nat /\ StallTimeout \in Nat
    /\ CloseGrace <= StallTimeout /\ CloseTimeout <= StallTimeout
    /\ BlockPayment \in BOOLEAN
    /\ Seqs \subseteq Nat \cup {-1}
    /\ \A w \in Watermarks   : \A k \in DOMAIN w : w[k] \in Int
    /\ \A x \in Expectations : \A z \in DOMAIN x : x[z] \in Nat

SessionId  == 0 .. MaxSessions      \* 0: no session yet ("no-session")
JobId      == 1 .. MaxJobs
Job        == [ses : SessionId, zone : Zone, seq : Seqs]
Horizon    == StallTimeout
Age        == 0 .. Horizon
Settlement == [billed : SUBSET JobId, outcome : {"payable", "blocked"}]
NotSettled == [billed |-> {}, outcome |-> "none"]
Payment    == [ses : SessionId, billed : SUBSET JobId, upto : 0 .. MaxJobs,
               clean : BOOLEAN, expected : [Zone -> Nat], watermark : [Key -> Int],
               via : {"CLOSE", "POLL"}]

VARIABLES
    door,           \* gateway.state
    ses,            \* gateway.session_id; also the service's session counter
    barrier,        \* gateway.barrier
    watermarkSet,   \* gateway._watermark_set
    closeAge,       \* clock() - gateway._close_ts
    enqAge,         \* clock() - gateway._last_enqueue_ts
    progAge,        \* clock() - gateway._progress_ts
    jobs,           \* every job submitted; the queue is its part after popped
    popped,         \* jobs the worker has taken from the queue
    busy,           \* the worker is in pipeline.process with job popped
    events,         \* event_log._events: the jobs recorded for each session
    failed,         \* jobs whose event has status "error"
    rejected,       \* event_log.rejected
    settled,        \* settler._finalized, and with it event_log._finalized
    payments,       \* history: the payment payloads answered so far
    carried,        \* history: jobs outstanding when the barrier was made
    leaked          \* history: jobs done without notify_processed since then

gatewayVars == <<door, ses, barrier, watermarkSet, closeAge, enqAge, progAge>>
workerVars  == <<jobs, popped, busy>>
ledgerVars  == <<events, failed, rejected, settled>>
historyVars == <<payments, carried, leaked>>
vars        == <<gatewayVars, workerVars, ledgerVars, historyVars>>

TypeOK ==
    /\ door \in {"idle", "active", "pending_close", "error"}
    /\ ses \in SessionId
    /\ barrier \in Barrier
    /\ watermarkSet \in BOOLEAN
    /\ closeAge \in Age /\ enqAge \in Age /\ progAge \in Age
    /\ jobs \in Seq(Job) /\ Len(jobs) <= MaxJobs
    /\ popped \in 0 .. Len(jobs)
    /\ busy \in BOOLEAN /\ (busy => popped > 0)
    /\ events \in [SessionId -> SUBSET JobId]
    /\ failed \subseteq JobId /\ rejected \subseteq JobId
    /\ settled \in [SessionId -> Settlement \cup {NotSettled}]
    /\ payments \in Seq(Payment)
    /\ carried \in [Zone -> Nat] /\ leaked \in [Zone -> Nat]

Init ==
    /\ door = "idle" /\ ses = 0
    /\ barrier = NewBarrier /\ watermarkSet = FALSE
    /\ closeAge = Horizon /\ enqAge = Horizon /\ progAge = Horizon
    /\ jobs = <<>> /\ popped = 0 /\ busy = FALSE
    /\ events = [s \in SessionId |-> {}]
    /\ failed = {} /\ rejected = {}
    /\ settled = [s \in SessionId |-> NotSettled]
    /\ payments = <<>>
    /\ carried = [z \in Zone |-> 0] /\ leaked = [z \in Zone |-> 0]

-----------------------------------------------------------------------------
(* Jobs accepted and not yet judged: still queued, or in the worker's hands.*)
Outstanding == {j \in 1 .. Len(jobs) : popped < j \/ (busy /\ j = popped)}
OutstandingIn(z) == {j \in Outstanding : jobs[j].zone = z}

(* The jobs session s had accepted when the first n jobs had been.         *)
AcceptedBy(s, n) == {j \in 1 .. n : j <= Len(jobs) /\ jobs[j].ses = s}

Least(a, b) == IF a < b THEN a ELSE b
Older(age)  == IF age < Horizon THEN age + 1 ELSE age

-----------------------------------------------------------------------------
(* Settlement.  Of the jobs J logged for a session, those in a zone with   *)
(* no error event are billed; any error blocks the payment, or, under the  *)
(* other policy, only a session none of whose zones is free of errors.     *)
ErrorFree(J) == {j \in J : ~\E k \in J \cap failed : jobs[k].zone = jobs[j].zone}

Settle(J) ==
    [ billed  |-> ErrorFree(J),
      outcome |-> IF J \cap failed # {} /\ (BlockPayment \/ ErrorFree(J) = {})
                  THEN "blocked" ELSE "payable" ]

SettlementOf(s) == IF settled[s] # NotSettled THEN settled[s] ELSE Settle(events[s])

-----------------------------------------------------------------------------
(* gateway.poll() in PENDING_CLOSE, for the barrier b, the flag w and the  *)
(* age c of the close it runs with (handle_close polls with its own).      *)
InGrace(w, c) == ~w /\ Least(c, enqAge) < CloseGrace

(* Mutants of Expired: one timeout for everything; no limit on a stall.    *)
ExpiredByClose(b, c)  == c >= CloseTimeout
ExpiredIfQuiet(b, c)  == ~QueuePending(b) /\ c >= CloseTimeout

Expired(b, c) ==
    IF QueuePending(b) THEN Least(c, progAge) >= StallTimeout
                       ELSE c >= CloseTimeout

Waits(b, w, c) ==
    /\ IF Satisfied(b) THEN InGrace(w, c) ELSE ~Expired(b, c)
    /\ door' = "pending_close"
    /\ UNCHANGED <<settled, payments>>

(* The payload of a FINALIZED response: build_payment_payload, and what the *)
(* history keeps with it.                                                  *)
PaymentFor(b, via) ==
    [ ses       |-> ses,
      billed    |-> SettlementOf(ses).billed,
      upto      |-> Len(jobs),
      clean     |-> \A z \in Zone : carried[z] = 0,
      expected  |-> b.expected,
      watermark |-> b.watermark,
      via       |-> via ]

(* Mutant of Settles: the gateway does not return to idle with the payment.*)
SettlesAndStays(b, w, c, via) ==
    /\ Satisfied(b) /\ ~InGrace(w, c)
    /\ settled' = [settled EXCEPT ![ses] = SettlementOf(ses)]
    /\ door' = "pending_close"
    /\ payments' = Append(payments, PaymentFor(b, via))

Settles(b, w, c, via) ==
    /\ Satisfied(b) /\ ~InGrace(w, c)
    /\ settled' = [settled EXCEPT ![ses] = SettlementOf(ses)]
    /\ \/ /\ SettlementOf(ses).outcome = "blocked"
          /\ door' = "error"
          /\ UNCHANGED payments
       \/ /\ SettlementOf(ses).outcome = "payable"
          /\ door' = "idle"
          /\ payments' = Append(payments, PaymentFor(b, via))

TimesOut(b, c) ==
    /\ ~Satisfied(b) /\ Expired(b, c)
    /\ door' = "error"
    /\ UNCHANGED <<settled, payments>>

Poll(b, w, c, via) == Waits(b, w, c) \/ Settles(b, w, c, via) \/ TimesOut(b, c)

-----------------------------------------------------------------------------
(* Sessions are numbered in order, so the recent ones are the last numbers;*)
(* "no-session" is never among them.                                       *)
Kept(s, newest) == s # 0 /\ newest - KeepSessions < s

(* OPEN from IDLE or ERROR starts a session: its number is issued, the log *)
(* and the cache are pruned to the last KeepSessions sessions, and the     *)
(* barrier is replaced -- the queue and the worker are left as they are.   *)
OpenNewSession ==
    /\ door \in {"idle", "error"} /\ ses < MaxSessions
    /\ ses' = ses + 1
    /\ events'  = [s \in SessionId |-> IF Kept(s, ses + 1) THEN events[s] ELSE {}]
    /\ settled' = [s \in SessionId |-> IF Kept(s, ses + 1) THEN settled[s] ELSE NotSettled]
    /\ barrier' = NewBarrier
    /\ closeAge' = Horizon /\ enqAge' = Horizon
    /\ door' = "active"
    /\ carried' = [z \in Zone |-> Cardinality(OutstandingIn(z))]
    /\ leaked' = [z \in Zone |-> 0]
    /\ UNCHANGED <<watermarkSet, progAge, workerVars, failed, rejected, payments>>

(* Mutant of Reopen: an OPEN after the payment goes on with the session.   *)
ReopenEver ==
    /\ door # "error" /\ ses # 0
    /\ door' = "active"
    /\ UNCHANGED <<ses, barrier, watermarkSet, closeAge, enqAge, progAge,
                   workerVars, ledgerVars, historyVars>>

(* OPEN while a session is under way keeps it; while closing, it reopens.  *)
Reopen ==
    /\ door \in {"active", "pending_close"}
    /\ door' = "active"
    /\ UNCHANGED <<ses, barrier, watermarkSet, closeAge, enqAge, progAge,
                   workerVars, ledgerVars, historyVars>>

(* CLOSE of an active session, with the close signals wm and ex: an empty  *)
(* one leaves the barrier's own as it is.                                  *)
Close(wm, ex) ==
    /\ door = "active"
    /\ closeAge' = 0
    /\ watermarkSet' = (DOMAIN wm # {} \/ DOMAIN ex # {})
    /\ LET b1 == IF DOMAIN wm # {} THEN SetCloseWatermark(barrier, wm) ELSE barrier
           b2 == IF DOMAIN ex # {} THEN SetExpectedCounts(b1, ex) ELSE b1
       IN  /\ barrier' = b2
           /\ Poll(b2, watermarkSet', 0, "CLOSE")
    /\ UNCHANGED <<ses, enqAge, progAge, workerVars, events, failed, rejected,
                   carried, leaked>>

(* A repeated CLOSE, or a null poll, of a session that is closing: its own *)
(* close signals are not looked at.                                        *)
PollClosing(via) ==
    /\ door = "pending_close"
    /\ Poll(barrier, watermarkSet, closeAge, via)
    /\ UNCHANGED <<ses, barrier, watermarkSet, closeAge, enqAge, progAge,
                   workerVars, events, failed, rejected, carried, leaked>>

RepeatClose == PollClosing("CLOSE")
NullPoll    == PollClosing("POLL")

-----------------------------------------------------------------------------
(* Mutant of Trigger: submit without notify_enqueued.                      *)
TriggerUncounted(z, seq) ==
    /\ Len(jobs) < MaxJobs
    /\ jobs' = Append(jobs, [ses |-> ses, zone |-> z, seq |-> seq])
    /\ barrier' = IF seq = -1 THEN barrier ELSE NoteSeq(barrier, z, seq)
    /\ enqAge' = 0
    /\ UNCHANGED <<door, ses, watermarkSet, closeAge, progAge, popped, busy,
                   ledgerVars, historyVars>>

(* A trigger that is not a duplicate: it is given the session the gateway  *)
(* holds at that moment, whatever the door's state, and its sequence       *)
(* number and its arrival are credited to the current barrier.             *)
Trigger(z, seq) ==
    /\ Len(jobs) < MaxJobs
    /\ jobs' = Append(jobs, [ses |-> ses, zone |-> z, seq |-> seq])
    /\ barrier' = NotifyEnqueued(IF seq = -1 THEN barrier ELSE NoteSeq(barrier, z, seq), z)
    /\ enqAge' = 0
    /\ UNCHANGED <<door, ses, watermarkSet, closeAge, progAge, popped, busy,
                   ledgerVars, historyVars>>

(* Mutants of WorkerPop: the queue is not tested; the job is credited when *)
(* it is taken, before it is judged.                                       *)
WorkerPopBlindly ==
    /\ ~busy
    /\ popped' = popped + 1
    /\ busy' = TRUE
    /\ UNCHANGED <<gatewayVars, jobs, ledgerVars, historyVars>>

WorkerPopAndCredit ==
    /\ ~busy /\ popped < Len(jobs)
    /\ popped' = popped + 1
    /\ busy' = TRUE
    /\ barrier' = NotifyProcessed(barrier, jobs[popped + 1].zone)
    /\ UNCHANGED <<door, ses, watermarkSet, closeAge, enqAge, progAge, jobs,
                   ledgerVars, historyVars>>

(* drain(): the first critical section takes a job ...                     *)
WorkerPop ==
    /\ ~busy /\ popped < Len(jobs)
    /\ popped' = popped + 1
    /\ busy' = TRUE
    /\ UNCHANGED <<gatewayVars, jobs, ledgerVars, historyVars>>

(* Mutant of Record: finalized sessions are not refused.                   *)
RecordAlways(j, ok) ==
    /\ failed' = IF ok THEN failed ELSE failed \cup {j}
    /\ events' = [events EXCEPT ![jobs[j].ses] = @ \cup {j}]
    /\ UNCHANGED <<rejected, settled>>

(* EventLog.append, with the judged event of job j.                        *)
Record(j, ok) ==
    LET s == jobs[j].ses IN
    /\ failed' = IF ok THEN failed ELSE failed \cup {j}
    /\ IF settled[s] # NotSettled
       THEN rejected' = rejected \cup {j} /\ UNCHANGED events
       ELSE events' = [events EXCEPT ![s] = @ \cup {j}] /\ UNCHANGED rejected
    /\ UNCHANGED settled

(* ... and the second records its outcome and credits the gateway's        *)
(* current barrier, which may be a later session's.                        *)
WorkerCommit(ok) ==
    /\ busy
    /\ busy' = FALSE
    /\ Record(popped, ok)
    /\ barrier' = NotifyProcessed(barrier, jobs[popped].zone)
    /\ progAge' = 0
    /\ UNCHANGED <<door, ses, watermarkSet, closeAge, enqAge, jobs, popped, historyVars>>

(* journal.append raises between the two: the event is recorded, the job   *)
(* is never credited, and the thread's loop goes on with the next one.     *)
WorkerJournalFails(ok) ==
    /\ busy
    /\ busy' = FALSE
    /\ Record(popped, ok)
    /\ leaked' = [leaked EXCEPT ![jobs[popped].zone] = @ + 1]
    /\ UNCHANGED <<gatewayVars, jobs, popped, payments, carried>>

(* The monotonic clock.                                                    *)
Tick ==
    /\ closeAge' = Older(closeAge)
    /\ enqAge'   = Older(enqAge)
    /\ progAge'  = Older(progAge)
    /\ UNCHANGED <<door, ses, barrier, watermarkSet, workerVars, ledgerVars, historyVars>>

Worker == WorkerPop \/ \E ok \in BOOLEAN : WorkerCommit(ok) \/ WorkerJournalFails(ok)

Next ==
    \/ OpenNewSession
    \/ Reopen
    \/ \E wm \in Watermarks, ex \in Expectations : Close(wm, ex)
    \/ RepeatClose
    \/ NullPoll
    \/ \E z \in Zone, seq \in Seqs : Trigger(z, seq)
    \/ Worker
    \/ Tick

Spec == Init /\ [][Next]_vars

(* The clock runs and the edge keeps polling (the device client polls      *)
(* every ten seconds); the worker thread may die, so it is not assumed.    *)
EdgeFairness == WF_vars(Tick) /\ WF_vars(RepeatClose \/ NullPoll)
FairSpec     == Spec /\ EdgeFairness
-----------------------------------------------------------------------------
(*                               Properties                                *)

(* Every trigger the current barrier counts as enqueued and not processed  *)
(* is one the worker still has, or lost to a journal failure, except for   *)
(* the jobs carried over from before the barrier, whose completion it      *)
(* counts though it never counted their arrival.  submit, drain and        *)
(* handle_open together keep this balance.                                 *)
BarrierAccounting ==
    \A z \in Zone : barrier.enqueued[z] + carried[z]
                      = barrier.processed[z] + Cardinality(OutstandingIn(z)) + leaked[z]

(* What a payment must contain: every trigger accepted for the session     *)
(* before it was paid, but for zones in which one of them failed -- and no *)
(* failed one at all under BLOCK_PAYMENT.                                  *)
Complete(p) ==
    LET accepted == AcceptedBy(p.ses, p.upto) IN
    /\ p.billed = ErrorFree(accepted)
    /\ BlockPayment => accepted \cap failed = {}

(* No session that began with an idle worker is paid without one of its    *)
(* triggers, however arrivals, judgements, journal failures, reopenings    *)
(* and polls interleave (poll, CausalBarrier.status, settle).              *)
CleanBillIsComplete ==
    \A i \in DOMAIN payments : payments[i].clean => Complete(payments[i])

(* A session is answered with a payment payload at most once, over all     *)
(* repeated CLOSEs, polls, reopenings and late triggers.                   *)
PaidAtMostOnce ==
    \A i, k \in DOMAIN payments : payments[i].ses = payments[k].ses => i = k

(* The strengthenings that make these two inductive.  While a session can  *)
(* still be paid, its log is exactly what it accepted less what is still   *)
(* outstanding, and it is neither settled nor paid; no session of the      *)
(* future has left a trace; a clean bill leaves nothing of its own undone. *)
Live == door \in {"active", "pending_close"}

LogInv ==
    /\ \A j \in 1 .. Len(jobs) : jobs[j].ses <= ses
    /\ \A s \in SessionId : s > ses => events[s] = {} /\ settled[s] = NotSettled
    /\ Live => /\ settled[ses] = NotSettled
               /\ events[ses] = AcceptedBy(ses, Len(jobs)) \ Outstanding

BillOK(p) ==
    /\ p.upto <= Len(jobs)
    /\ p.clean => Complete(p) /\ AcceptedBy(p.ses, p.upto) \cap Outstanding = {}

BillInv == \A i \in DOMAIN payments : BillOK(payments[i])

PaidInv ==
    /\ PaidAtMostOnce
    /\ \A i \in DOMAIN payments :
          payments[i].ses <= ses /\ (payments[i].ses = ses => ~Live)

(* The two close signals hold of what is billed, not only of what arrived: *)
(* a paid zone has at least the triggers the CLOSE announced and one that  *)
(* reaches its watermark (set_expected_counts, set_close_watermark and     *)
(* status against the log that settle reads).                              *)
BilledIn(p, z) == {j \in p.billed : jobs[j].zone = z}

SignalsHonoured ==
    \A i \in DOMAIN payments : LET p == payments[i] IN
        (p.clean /\ BlockPayment) => \A z \in Zone :
            /\ Cardinality(BilledIn(p, z)) >= p.expected[z]
            /\ p.watermark[z] > -1 => \E j \in BilledIn(p, z) : jobs[j].seq >= p.watermark[z]

(* While its session is retained, the log of a settled session never gains *)
(* an event, so an archived or cached bill keeps matching its log: late    *)
(* results end up in the rejected list (EventLog.append, mark_finalized).  *)
SettledLogIsFrozen ==
    [][ \A s \in SessionId : settled[s] # NotSettled => events'[s] \subseteq events[s] ]_vars

(* A session whose triggers the worker is still getting through is not     *)
(* timed out: with work of its own outstanding and nothing carried over,   *)
(* it becomes an error only StallTimeout after the close and the last      *)
(* completed job (poll's choice between close_timeout and stall_timeout).  *)
NoTimeoutWhileWorking ==
    [][ (door = "pending_close" /\ door' = "error" /\ Outstanding # {}
           /\ \A z \in Zone : carried[z] = 0)
        => closeAge >= StallTimeout /\ progAge >= StallTimeout ]_vars

(* Once the door stays closed, the session does not stay pending: it is    *)
(* paid or becomes an error, whether or not the worker still runs.         *)
ClosedDoorResolves ==
    <>[](door # "active") => <>[](door # "pending_close")

-----------------------------------------------------------------------------
(* The abstract contract, with the state of the service mapped to it: a    *)
(* session is open while the door is active or closing, and trusted when   *)
(* nothing was outstanding as its barrier was made.                        *)
Contract == INSTANCE SessionContract WITH
    session  <- ses,
    open     <- door \in {"active", "pending_close"},
    trusted  <- \A z \in Zone : carried[z] = 0,
    accepted <- [j \in 1 .. Len(jobs) |-> [ses |-> jobs[j].ses, zone |-> jobs[j].zone]],
    paid     <- [i \in 1 .. Len(payments) |->
                    [ses |-> payments[i].ses, billed |-> payments[i].billed]]

(* The service as a whole keeps the contract: each of its steps opens,     *)
(* feeds, pays or fails a session as the contract allows, or is invisible  *)
(* to whoever is charged.                                                  *)
KeepsContract == Contract!Spec
=============================================================================
