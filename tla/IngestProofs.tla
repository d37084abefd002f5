----------------------------- MODULE IngestProofs -----------------------------
(* The registry of deliveries, for any number of deliveries, keys and ticks, *)
(* any time to live and any assignment of keys.                              *)
(*                                                                           *)
(* What is told a duplicate rests on what an entry holds (EntryInv): the     *)
(* time and the key of a delivery that was accepted.  That no late sale is   *)
(* dropped rests on the clean-up (FreshInv): whatever a delivery finds after *)
(* it, from one answered before it began, has not expired.  That a lone      *)
(* delivery is judged once is the other direction (LoneInv): its entry stays *)
(* until the time to live is over, for nobody who may delete it began before *)
(* it was answered.                                                          *)
EXTENDS TriggerIngest, TLAPS

(* What never changes, whoever moves.                                        *)
Steady(d) ==
    /\ pc[d] # "idle" => /\ pc'[d] # "idle"
                         /\ before'[d] = before[d] /\ clock'[d] = clock[d]
    /\ pc[d] \in Ended => pc'[d] = pc[d] /\ told'[d] = told[d]
    /\ Accepted(d) => Accepted(d)' /\ at'[d] = at[d]
    /\ now' >= now

LEMMA StepIsSteady ==
    ASSUME TypeOK, [Next]_vars, NEW d \in Deliveries
    PROVE  Steady(d)
<1> USE DEF Goto, Ended, Accepted, Steady, TypeOK
<1>1. CASE Tick
    BY <1>1 DEF Tick
<1>2. ASSUME NEW e \in Deliveries, Arrive(e) PROVE Steady(d)
    BY <1>2 DEF Arrive
<1>3. ASSUME NEW e \in Deliveries, Scan(e) PROVE Steady(d)
    BY <1>3 DEF Scan
<1>4. ASSUME NEW e \in Deliveries, Delete(e) PROVE Steady(d)
    BY <1>4 DEF Delete
<1>5. ASSUME NEW e \in Deliveries, Test(e) PROVE Steady(d)
    BY <1>5 DEF Test
<1>6. ASSUME NEW e \in Deliveries, New(e) PROVE Steady(d)
    BY <1>6 DEF New
<1>7. ASSUME NEW e \in Deliveries, Submit(e) PROVE Steady(d)
    BY <1>7 DEF Submit
<1>8. CASE UNCHANGED vars
    BY <1>8 DEF vars
<1> QED
    BY <1>1, <1>2, <1>3, <1>4, <1>5, <1>6, <1>7, <1>8 DEF Next, Step
-----------------------------------------------------------------------------
LEMMA TypeInit == Init => TypeOK
BY IngestAssumption DEF Init, TypeOK, IngestAssumption

LEMMA TypeNext == TypeOK /\ [Next]_vars => TypeOK'
<1> SUFFICES ASSUME TypeOK, [Next]_vars PROVE TypeOK'
    OBVIOUS
<1> USE IngestAssumption DEF IngestAssumption, Goto, Running, Ended, Entry
<1>1. CASE Tick
    BY <1>1 DEF Tick, TypeOK
<1>2. ASSUME NEW d \in Deliveries, Arrive(d) PROVE TypeOK'
    BY <1>2 DEF Arrive, TypeOK
<1>3. ASSUME NEW d \in Deliveries, Scan(d) PROVE TypeOK'
  <2>1. Stale(d) \in SUBSET Key
      BY DEF TypeOK, Stale
  <2> QED
      BY <1>3, <2>1 DEF Scan, TypeOK
<1>4. ASSUME NEW d \in Deliveries, Delete(d) PROVE TypeOK'
  <2> PICK k \in expired[d] : /\ expired' = [expired EXCEPT ![d] = @ \ {k}]
                              /\ entries' = entries \/ entries' = Without(k)
      BY <1>4 DEF Delete
  <2>1. DOMAIN entries' \subseteq Key /\ \A j \in DOMAIN entries' : entries'[j] \in Entry
      BY DEF TypeOK, Without
  <2>2. expired' \in [Deliveries -> SUBSET Key]
      BY DEF TypeOK
  <2>3. pc' \in [Deliveries -> {"idle"} \cup Running \cup Ended]
      BY <1>4 DEF Delete, TypeOK
  <2> QED
      BY <1>4, <2>1, <2>2, <2>3 DEF Delete, TypeOK
<1>5. ASSUME NEW d \in Deliveries, Test(d) PROVE TypeOK'
    BY <1>5 DEF Test, TypeOK
<1>6. ASSUME NEW d \in Deliveries, New(d) PROVE TypeOK'
  <2>1. DOMAIN entries' \subseteq Key /\ \A j \in DOMAIN entries' : entries'[j] \in Entry
      BY <1>6 DEF New, TypeOK, Registered
  <2> QED
      BY <1>6, <2>1 DEF New, TypeOK
<1>7. ASSUME NEW d \in Deliveries, Submit(d) PROVE TypeOK'
    BY <1>7 DEF Submit, TypeOK
<1>8. CASE UNCHANGED vars
    BY <1>8 DEF vars, TypeOK
<1> QED
    BY <1>1, <1>2, <1>3, <1>4, <1>5, <1>6, <1>7, <1>8 DEF Next, Step

(* Type correctness of the registry and its threads (service/                *)
(* model_service.py, handle_trigger; ingest/idempotency.py, register).       *)
THEOREM IngestTyped == Spec => []TypeOK
BY TypeInit, TypeNext, PTL DEF Spec
-----------------------------------------------------------------------------
(* An entry holds the time and the key of a delivery that was accepted, and  *)
(* so does the answer to a duplicate.                                        *)
EntryInv ==
    /\ \A k \in DOMAIN entries :
          /\ Accepted(entries[k].id) /\ KeyOf[entries[k].id] = k
          /\ entries[k].ts = clock[entries[k].id]
    /\ DuplicateOfAccepted

LEMMA EntryNext == TypeOK /\ EntryInv /\ [Next]_vars => EntryInv'
<1> SUFFICES ASSUME TypeOK, EntryInv, [Next]_vars PROVE EntryInv'
    OBVIOUS
<1> USE DEF EntryInv
<1>0. \A d \in Deliveries : Steady(d)
    BY StepIsSteady
<1>1. \A k \in DOMAIN entries : entries[k].id \in Deliveries /\ entries[k].ts \in Nat
    BY IngestAssumption DEF TypeOK, Entry, IngestAssumption
<1>2. \A d \in Deliveries : told[d] \in Deliveries
    BY DEF TypeOK
<1>3. \A e \in Deliveries : Accepted(e) =>
          Accepted(e)' /\ clock'[e] = clock[e] /\ told[e] \in Deliveries
    BY <1>0, <1>2 DEF Steady, Accepted
<1>4. ASSUME UNCHANGED <<entries, told>>, \A d \in Deliveries : pc'[d] = "duplicate" => pc[d] = "duplicate"
      PROVE  EntryInv'
    BY <1>1, <1>2, <1>3, <1>4 DEF DuplicateOfAccepted
<1>5. CASE Tick
    BY <1>4, <1>5 DEF Tick
<1>6. ASSUME NEW d \in Deliveries, Arrive(d) PROVE EntryInv'
    BY <1>4, <1>6 DEF Arrive, Goto, TypeOK
<1>7. ASSUME NEW d \in Deliveries, Scan(d) PROVE EntryInv'
    BY <1>4, <1>7 DEF Scan, Goto, TypeOK
<1>8. ASSUME NEW d \in Deliveries, Delete(d) PROVE EntryInv'
  <2>1. /\ DOMAIN entries' \subseteq DOMAIN entries
        /\ \A k \in DOMAIN entries' : entries'[k] = entries[k]
      BY <1>8 DEF Delete, Without
  <2>2. told' = told /\ \A e \in Deliveries : pc'[e] = "duplicate" => pc[e] = "duplicate"
      BY <1>8 DEF Delete, Goto, TypeOK
  <2> QED
      BY <1>1, <1>2, <1>3, <2>1, <2>2 DEF DuplicateOfAccepted
<1>9. ASSUME NEW d \in Deliveries, Test(d) PROVE EntryInv'
  <2>1. entries' = entries
      BY <1>9 DEF Test
  <2>2. ASSUME NEW e \in Deliveries, pc'[e] = "duplicate"
        PROVE  (Accepted(told[e]) /\ KeyOf[told[e]] = KeyOf[e])'
    <3>1. CASE e = d
      <4>1. KeyOf[d] \in DOMAIN entries /\ told'[d] = entries[KeyOf[d]].id
          BY <1>9, <2>2, <3>1 DEF Test, Goto, TypeOK
      <4> QED
          BY <1>1, <1>3, <3>1, <4>1
    <3>2. CASE e # d
      <4>1. pc[e] = "duplicate" /\ told'[e] = told[e]
          BY <1>9, <2>2, <3>2 DEF Test, Goto, TypeOK
      <4> QED
          BY <1>2, <1>3, <4>1 DEF DuplicateOfAccepted
    <3> QED
        BY <3>1, <3>2
  <2> QED
      BY <1>1, <1>3, <2>1, <2>2 DEF DuplicateOfAccepted
<1>10. ASSUME NEW d \in Deliveries, New(d) PROVE EntryInv'
  <2>1. Accepted(d)' /\ clock'[d] = clock[d]
      BY <1>10 DEF New, Goto, TypeOK, Accepted
  <2>2. told' = told /\ \A e \in Deliveries : pc'[e] = "duplicate" => pc[e] = "duplicate"
      BY <1>10 DEF New, Goto, TypeOK
  <2>3. \A k \in DOMAIN entries' :
            IF k = KeyOf[d] THEN entries'[k] = [ts |-> clock[d], id |-> d]
            ELSE k \in DOMAIN entries /\ entries'[k] = entries[k]
      BY <1>10 DEF New, Registered
  <2> QED
      BY <1>1, <1>2, <1>3, <2>1, <2>2, <2>3 DEF DuplicateOfAccepted
<1>11. ASSUME NEW d \in Deliveries, Submit(d) PROVE EntryInv'
    BY <1>4, <1>11 DEF Submit, Goto, TypeOK
<1>12. CASE UNCHANGED vars
    BY <1>4, <1>12 DEF vars
<1> QED
    BY <1>5, <1>6, <1>7, <1>8, <1>9, <1>10, <1>11, <1>12 DEF Next, Step

(* No trigger is lost as a duplicate: the id a duplicate is answered with is *)
(* that of an accepted delivery of the same key (handle_trigger).            *)
THEOREM NoneLostAsDuplicate == Spec => []DuplicateOfAccepted
<1>1. Init => EntryInv
    BY DEF Init, EntryInv, DuplicateOfAccepted
<1>2. EntryInv => DuplicateOfAccepted
    BY DEF EntryInv
<1> QED
    BY <1>1, <1>2, TypeInit, TypeNext, EntryNext, PTL DEF Spec
-----------------------------------------------------------------------------
(* What a delivery finds, after it has looked for what has expired, of those *)
(* answered before it began.                                                 *)
FreshInv ==
    /\ \A d, e \in Deliveries : e \in before[d] => pc[e] \in Ended
    /\ \A d \in Deliveries : pc[d] = "test" => expired[d] = {}
    /\ \A d \in Deliveries : pc[d] \in {"delete", "test"} =>
          \A k \in DOMAIN entries \ expired[d] :
              entries[k].id \in before[d] => clock[d] <= entries[k].ts + TTL
    /\ NotDroppedLate

(* The part about the order of deliveries.                                   *)
LEMMA BeforeNext ==
    ASSUME TypeOK, FreshInv, [Next]_vars, NEW d \in Deliveries, NEW e \in Deliveries
    PROVE  e \in before'[d] => pc'[e] \in Ended
<1>0. Steady(d) /\ Steady(e)
    BY StepIsSteady
<1>1. CASE pc[d] # "idle"
    BY <1>0, <1>1 DEF Steady, FreshInv
<1>2. CASE pc[d] = "idle" /\ before'[d] = before[d]
    BY <1>0, <1>2 DEF Steady, FreshInv
<1>3. CASE before'[d] = {f \in Deliveries : pc[f] \in Ended}
    BY <1>0, <1>3 DEF Steady
<1>4. before'[d] = before[d] \/ before'[d] = {f \in Deliveries : pc[f] \in Ended}
  <2>1. ASSUME NEW f \in Deliveries, Arrive(f)
        PROVE  before'[d] = before[d] \/ before'[d] = {g \in Deliveries : pc[g] \in Ended}
      BY <2>1 DEF Arrive, TypeOK
  <2> QED
      BY <2>1 DEF Next, Step, Tick, Scan, Delete, Test, New, Submit, vars
<1> QED
    BY <1>1, <1>2, <1>3, <1>4

LEMMA FreshNext == TypeOK /\ EntryInv /\ FreshInv /\ [Next]_vars => FreshInv'
<1> SUFFICES ASSUME TypeOK, EntryInv, FreshInv, [Next]_vars PROVE FreshInv'
    OBVIOUS
<1> DEFINE Fresh(d) ==
        /\ pc[d] = "test" => expired[d] = {}
        /\ pc[d] \in {"delete", "test"} =>
              \A k \in DOMAIN entries \ expired[d] :
                  entries[k].id \in before[d] => clock[d] <= entries[k].ts + TTL
        /\ pc[d] = "duplicate" /\ After(d, told[d]) => clock[d] <= clock[told[d]] + TTL
<1>0. \A d \in Deliveries : Steady(d) /\ Fresh(d)
    BY StepIsSteady DEF FreshInv, NotDroppedLate
<1>1. \A d, e \in Deliveries : e \in before[d] => pc[e] \in Ended
    BY DEF FreshInv
<1>2. \A d, e \in Deliveries : e \in before'[d] => pc'[e] \in Ended
    BY BeforeNext
<1>3. SUFFICES \A d \in Deliveries : Fresh(d)'
    BY <1>2, <1>3 DEF FreshInv, NotDroppedLate
<1>4. /\ told \in [Deliveries -> Deliveries]
      /\ \A k \in DOMAIN entries : entries[k].id \in Deliveries
      /\ \A k \in DOMAIN entries : entries[k].ts = clock[entries[k].id]
    BY DEF TypeOK, Entry, EntryInv
<1>5. ASSUME NEW d \in Deliveries, pc'[d] = pc[d], expired'[d] = expired[d],
             \A k \in DOMAIN entries' : entries'[k].id \in before[d] =>
                 k \in DOMAIN entries /\ entries'[k] = entries[k]
      PROVE  Fresh(d)'
  <2>1. CASE pc[d] \in {"delete", "test"}
      BY <1>0, <1>5, <2>1 DEF Steady
  <2>2. CASE pc[d] = "duplicate"
    <3>1. told'[d] = told[d] /\ before'[d] = before[d] /\ clock'[d] = clock[d]
        BY <1>0, <2>2 DEF Steady, Ended
    <3>2. ASSUME told[d] \in before[d] PROVE clock'[told[d]] = clock[told[d]]
      <4>1. told[d] \in Deliveries /\ pc[told[d]] # "idle"
          BY <1>1, <1>4, <3>2 DEF Ended
      <4> QED
          BY <1>0, <4>1 DEF Steady
    <3> QED
        BY <1>0, <1>5, <2>2, <3>1, <3>2 DEF After
  <2>3. CASE pc[d] \notin {"delete", "test", "duplicate"}
      BY <1>5, <2>3
  <2> QED
      BY <2>1, <2>2, <2>3
<1>6. ASSUME UNCHANGED entries, NEW e \in Deliveries, Fresh(e)',
             \A d \in Deliveries \ {e} : pc'[d] = pc[d] /\ expired'[d] = expired[d]
      PROVE  \A d \in Deliveries : Fresh(d)'
    BY <1>5, <1>6
<1>7. CASE Tick
    BY <1>5, <1>7 DEF Tick
<1>8. ASSUME NEW e \in Deliveries, Arrive(e) PROVE \A d \in Deliveries : Fresh(d)'
  <2>1. Fresh(e)'
      BY <1>8 DEF Arrive, Goto, TypeOK
  <2> QED
      BY <1>6, <1>8, <2>1 DEF Arrive, Goto, TypeOK
<1>9. ASSUME NEW e \in Deliveries, Scan(e) PROVE \A d \in Deliveries : Fresh(d)'
  <2>1. CASE pc'[e] = "failed"
      BY <1>6, <1>9, <2>1 DEF Scan, Goto, TypeOK
  <2>2. CASE pc'[e] # "failed"
    <3>1. expired'[e] = Stale(e) /\ (pc'[e] = "test" => Stale(e) = {})
        BY <1>9, <2>2 DEF Scan, Goto, TypeOK
    <3>2. pc'[e] \in {"test", "delete"} /\ UNCHANGED <<entries, before, clock>>
        BY <1>9, <2>2 DEF Scan, Goto, TypeOK
    <3>3. \A k \in DOMAIN entries \ Stale(e) : clock[e] <= entries[k].ts + TTL
      <4>1. clock[e] \in Nat /\ TTL \in Nat /\ \A k \in DOMAIN entries : entries[k].ts \in Nat
          BY IngestAssumption DEF TypeOK, Entry, IngestAssumption
      <4> QED
          BY <4>1 DEF Stale
    <3>4. Fresh(e)'
        BY <3>1, <3>2, <3>3
    <3> QED
        BY <1>6, <1>9, <3>4 DEF Scan, Goto, TypeOK
  <2> QED
      BY <2>1, <2>2
<1>10. ASSUME NEW e \in Deliveries, Delete(e) PROVE \A d \in Deliveries : Fresh(d)'
  <2> PICK k \in expired[e] :
          /\ expired' = [expired EXCEPT ![e] = @ \ {k}]
          /\ IF k \in DOMAIN entries
             THEN /\ Goto(e, "delete", IF expired[e] = {k} THEN "test" ELSE "delete")
                  /\ entries' = Without(k)
             ELSE Goto(e, "delete", "failed") /\ UNCHANGED entries
      BY <1>10 DEF Delete
  <2>1. \A j \in DOMAIN entries' : j \in DOMAIN entries /\ entries'[j] = entries[j]
      BY DEF Without
  <2>2. \A d \in Deliveries \ {e} : Fresh(d)'
      BY <1>5, <2>1 DEF Goto, TypeOK
  <2>3. Fresh(e)'
    <3>1. CASE k \notin DOMAIN entries
        BY <3>1 DEF Goto, TypeOK
    <3>2. CASE k \in DOMAIN entries
      <4>1. pc[e] = "delete" /\ pc'[e] \in {"delete", "test"}
            /\ (pc'[e] = "test" => expired'[e] = {})
          BY <3>2 DEF Goto, TypeOK
      <4>2. \A j \in DOMAIN entries' \ expired'[e] : j \in DOMAIN entries \ expired[e]
          BY <3>2 DEF Without, TypeOK
      <4>3. UNCHANGED <<before, clock>>
          BY <1>10 DEF Delete
      <4> QED
          BY <1>0, <2>1, <4>1, <4>2, <4>3
    <3> QED
        BY <3>1, <3>2
  <2> QED
      BY <2>2, <2>3
<1>11. ASSUME NEW e \in Deliveries, Test(e) PROVE \A d \in Deliveries : Fresh(d)'
  <2>1. pc[e] = "test" /\ pc'[e] \in {"duplicate", "new"} /\ UNCHANGED <<before, clock, expired>>
      BY <1>11 DEF Test, Goto, TypeOK
  <2>2. CASE pc'[e] = "duplicate"
    <3>1. KeyOf[e] \in DOMAIN entries /\ told'[e] = entries[KeyOf[e]].id
        BY <1>11, <2>2 DEF Test, Goto, TypeOK
    <3>2. told'[e] \in before[e] => clock[e] <= clock[told'[e]] + TTL
        BY <1>0, <1>4, <2>1, <3>1
    <3>3. Fresh(e)'
        BY <2>1, <2>2, <3>2 DEF After
    <3> QED
        BY <1>6, <1>11, <3>3 DEF Test, Goto, TypeOK
  <2>3. CASE pc'[e] = "new"
      BY <1>6, <1>11, <2>3 DEF Test, Goto, TypeOK
  <2> QED
      BY <2>1, <2>2, <2>3
<1>12. ASSUME NEW e \in Deliveries, New(e) PROVE \A d \in Deliveries : Fresh(d)'
  <2>1. pc[e] = "new" /\ pc'[e] = "submit"
      BY <1>12 DEF New, Goto, TypeOK
  <2>2. \A d \in Deliveries : e \notin before[d]
      BY <1>1, <2>1 DEF Ended
  <2>3. \A j \in DOMAIN entries' :
            entries'[j].id # e => j \in DOMAIN entries /\ entries'[j] = entries[j]
      BY <1>12 DEF New, Registered
  <2>4. \A d \in Deliveries \ {e} : Fresh(d)'
      BY <1>5, <1>12, <2>2, <2>3 DEF New, Goto, TypeOK
  <2>5. Fresh(e)'
      BY <2>1
  <2> QED
      BY <2>4, <2>5
<1>13. ASSUME NEW e \in Deliveries, Submit(e) PROVE \A d \in Deliveries : Fresh(d)'
    BY <1>6, <1>13 DEF Submit, Goto, TypeOK
<1>14. CASE UNCHANGED vars
    BY <1>5, <1>14 DEF vars
<1> QED
    BY <1>7, <1>8, <1>9, <1>10, <1>11, <1>12, <1>13, <1>14 DEF Next, Step

(* A late sale is not dropped as the retry of an old one (register), for any *)
(* time to live.                                                             *)
THEOREM LateSalesCount == Spec => []NotDroppedLate
<1>1. Init => EntryInv /\ FreshInv
    BY DEF Init, EntryInv, DuplicateOfAccepted, FreshInv, NotDroppedLate
<1>2. FreshInv => NotDroppedLate
    BY DEF FreshInv
<1> QED
    BY <1>1, <1>2, TypeInit, TypeNext, EntryNext, FreshNext, PTL DEF Spec
-----------------------------------------------------------------------------
(* The entry of a lone delivery stays, unharmed, for the time to live.  A    *)
(* delivery that goes on to register the same key after it has come later.   *)
Over(e) == now > clock[e] + TTL

Kept(e) ==
    /\ KeyOf[e] \in DOMAIN entries /\ entries[KeyOf[e]].id = e
    /\ \A g \in Deliveries : pc[g] = "delete" => KeyOf[e] \notin expired[g]

LoneInv ==
    /\ \A d \in Deliveries : clock[d] <= now
    /\ \A e \in Deliveries : Accepted(e) /\ Alone(e) => Over(e) \/ Kept(e)
    /\ \A d, e \in Deliveries :
          pc[d] = "new" /\ KeyOf[d] = KeyOf[e] /\ After(d, e) /\ Accepted(e) /\ Alone(e)
              => Over(e)
    /\ LoneTriggerOnce

(* Nobody becomes alone after the fact, and nothing comes to be after it.    *)
LEMMA AloneBefore ==
    ASSUME TypeOK, [Next]_vars, NEW e \in Deliveries, pc[e] # "idle", Alone(e)'
    PROVE  Alone(e)
<1>1. \A g \in Deliveries : Steady(g)
    BY StepIsSteady
<1> SUFFICES ASSUME NEW g \in Deliveries \ {e}, pc[g] # "idle"
             PROVE  After(g, e) \/ After(e, g)
    BY DEF Alone
<1>2. pc'[g] # "idle" /\ before'[g] = before[g] /\ before'[e] = before[e]
    BY <1>1 DEF Steady
<1> QED
    BY <1>2 DEF Alone, After

(* Whoever runs beside a lone delivery that has just been accepted is idle   *)
(* or done.                                                                  *)
LEMMA AloneRuns ==
    ASSUME FreshInv, NEW e \in Deliveries, pc[e] \in Running, Alone(e),
           NEW g \in Deliveries \ {e}, pc[g] \in Running
    PROVE  FALSE
<1>1. pc[g] # "idle" /\ pc[g] \notin Ended /\ pc[e] \notin Ended
    BY DEF Running, Ended
<1>2. e \notin before[g] /\ g \notin before[e]
    BY <1>1 DEF FreshInv
<1> QED
    BY <1>1, <1>2 DEF Alone, After

(* A step that begins or registers nothing leaves the promise to the lone.   *)
LEMMA LoneKept ==
    ASSUME TypeOK, FreshInv, LoneInv, [Next]_vars,
           \A e \in Deliveries : Accepted(e)' => Accepted(e),
           \A d \in Deliveries : pc'[d] = "new" =>
               pc[d] = "new" \/ (pc[d] = "test" /\ KeyOf[d] \notin DOMAIN entries),
           \A e \in Deliveries : Accepted(e) /\ Alone(e) /\ Kept(e) => Over(e)' \/ Kept(e)',
           \A d \in Deliveries : clock'[d] <= now'
    PROVE  LoneInv'
<1>1. \A g \in Deliveries : Steady(g)
    BY StepIsSteady
<1>2. now \in Nat /\ now' \in Nat /\ TTL \in Nat /\ \A d \in Deliveries : clock[d] \in Nat
    BY TypeNext, IngestAssumption DEF TypeOK, IngestAssumption
<1>3. \A e \in Deliveries : Accepted(e) => clock'[e] = clock[e] /\ (Over(e) => Over(e)')
    BY <1>1, <1>2 DEF Steady, Accepted, Over
<1>4. \A e \in Deliveries : Accepted(e) /\ Alone(e)' => Alone(e)
    BY AloneBefore DEF Accepted
<1>5. \A d, e \in Deliveries : pc[d] # "idle" /\ After(d, e)' => After(d, e)
    BY <1>1 DEF Steady, After
<1>6. \A e \in Deliveries : (Accepted(e) /\ Alone(e))' => (Over(e) \/ Kept(e))'
    BY <1>3, <1>4 DEF LoneInv
<1>7. ASSUME NEW d \in Deliveries, NEW e \in Deliveries, pc'[d] = "new", KeyOf[d] = KeyOf[e],
             (After(d, e) /\ Accepted(e) /\ Alone(e))'
      PROVE  Over(e)'
  <2>1. pc[d] \in {"new", "test"} /\ Accepted(e)
      BY <1>7
  <2>2. After(d, e) /\ Alone(e)
      BY <1>4, <1>5, <1>7, <2>1
  <2>3. Over(e)
    <3>1. CASE pc[d] = "new"
        BY <1>7, <2>1, <2>2, <3>1 DEF LoneInv
    <3>2. CASE KeyOf[d] \notin DOMAIN entries
        BY <1>7, <2>1, <2>2, <3>2 DEF LoneInv, Kept
    <3> QED
        BY <1>7, <3>1, <3>2
  <2> QED
      BY <1>3, <2>1, <2>3
<1>8. ASSUME NEW d \in Deliveries, NEW e \in Deliveries, KeyOf[d] = KeyOf[e],
             (Accepted(d) /\ Accepted(e) /\ After(d, e) /\ Alone(e))'
      PROVE  at'[d] > clock'[e] + TTL
  <2>1. Accepted(d) /\ Accepted(e) /\ at'[d] = at[d]
      BY <1>1, <1>8 DEF Steady
  <2>2. After(d, e) /\ Alone(e)
      BY <1>4, <1>5, <1>8, <2>1 DEF Accepted
  <2> QED
      BY <1>3, <1>8, <2>1, <2>2 DEF LoneInv, LoneTriggerOnce
<1> QED
    BY <1>6, <1>7, <1>8 DEF LoneInv, LoneTriggerOnce

(* A delivery that registers: its own entry is kept if it is alone, and the  *)
(* entry it replaces, if of a lone one, was over.                            *)
LEMMA LoneNew ==
    ASSUME TypeOK, FreshInv, LoneInv, NEW f \in Deliveries, New(f)
    PROVE  LoneInv'
<1>0. [Next]_vars
    BY DEF Next, Step
<1>1. \A g \in Deliveries : Steady(g)
    BY <1>0, StepIsSteady
<1>2. /\ pc[f] = "new" /\ pc' = [pc EXCEPT ![f] = "submit"]
      /\ at' = [at EXCEPT ![f] = now]
      /\ UNCHANGED <<now, clock, expired, before>>
      /\ \A k \in DOMAIN entries : k \in DOMAIN entries'
      /\ KeyOf[f] \in DOMAIN entries' /\ entries'[KeyOf[f]].id = f
      /\ \A k \in DOMAIN entries \ {KeyOf[f]} : entries'[k] = entries[k]
    BY DEF New, Goto, Registered, TypeOK
<1>3. ASSUME NEW d \in Deliveries, After(d, f)' PROVE FALSE
    BY <1>2, <1>3 DEF After, FreshInv, Ended
<1>4. \A e \in Deliveries \ {f} : Accepted(e)' => Accepted(e)
    BY <1>2 DEF Accepted, TypeOK
<1>5. \A e \in Deliveries : pc[e] # "idle" /\ Alone(e)' => Alone(e)
    BY <1>0, AloneBefore
<1>6. \A d, e \in Deliveries : After(d, e)' => After(d, e)
    BY <1>2 DEF After, TypeOK
<1>7. \A e \in Deliveries : Over(e)' <=> Over(e)
    BY <1>2 DEF Over
<1>8. ASSUME NEW e \in Deliveries \ {f}, Accepted(e), Alone(e), KeyOf[f] = KeyOf[e]
      PROVE  Over(e)
  <2>1. After(f, e)
      BY <1>2, <1>8 DEF Alone, After, FreshInv, Ended
  <2> QED
      BY <1>2, <1>8, <2>1 DEF LoneInv
<1>9. ASSUME NEW e \in Deliveries, (Accepted(e) /\ Alone(e))' PROVE (Over(e) \/ Kept(e))'
  <2>1. CASE e = f
    <3>1. Alone(f)
        BY <1>2, <1>5, <1>9, <2>1
    <3>2. \A g \in Deliveries : pc[g] # "delete"
        BY <1>2, <3>1, AloneRuns DEF Running
    <3> QED
        BY <1>2, <2>1, <3>2 DEF Kept, TypeOK
  <2>2. CASE e # f /\ KeyOf[e] = KeyOf[f]
      BY <1>4, <1>5, <1>7, <1>8, <1>9, <2>2 DEF Accepted
  <2>3. CASE e # f /\ KeyOf[e] # KeyOf[f]
    <3>1. Over(e) \/ Kept(e)
        BY <1>4, <1>5, <1>9, <2>3 DEF LoneInv, Accepted
    <3> QED
        BY <1>2, <1>7, <2>3, <3>1 DEF Kept, TypeOK
  <2> QED
      BY <2>1, <2>2, <2>3
<1>10. ASSUME NEW d \in Deliveries, NEW e \in Deliveries, pc'[d] = "new", KeyOf[d] = KeyOf[e],
              (After(d, e) /\ Accepted(e) /\ Alone(e))'
       PROVE  Over(e)'
  <2>1. e # f /\ pc[d] = "new"
      BY <1>2, <1>3, <1>10 DEF TypeOK
  <2> QED
      BY <1>4, <1>5, <1>6, <1>7, <1>10, <2>1 DEF LoneInv, Accepted
<1>11. ASSUME NEW d \in Deliveries, NEW e \in Deliveries, KeyOf[d] = KeyOf[e],
              (Accepted(d) /\ Accepted(e) /\ After(d, e) /\ Alone(e))'
       PROVE  at'[d] > clock'[e] + TTL
  <2>1. e # f /\ Accepted(e) /\ Alone(e) /\ After(d, e)
      BY <1>3, <1>4, <1>5, <1>6, <1>11 DEF Accepted
  <2>2. CASE d = f
      BY <1>2, <1>11, <2>1, <2>2 DEF LoneInv, Over, TypeOK
  <2>3. CASE d # f
      BY <1>2, <1>4, <1>11, <2>1, <2>3 DEF LoneInv, LoneTriggerOnce, TypeOK
  <2> QED
      BY <2>2, <2>3
<1> QED
    BY <1>2, <1>9, <1>10, <1>11 DEF LoneInv, LoneTriggerOnce

LEMMA LoneNext == TypeOK /\ EntryInv /\ FreshInv /\ LoneInv /\ [Next]_vars => LoneInv'
<1> SUFFICES ASSUME TypeOK, EntryInv, FreshInv, LoneInv, [Next]_vars PROVE LoneInv'
    OBVIOUS
<1>0. TypeOK' /\ \A d \in Deliveries : clock[d] <= now
    BY TypeNext DEF LoneInv
<1>1. now \in Nat /\ TTL \in Nat /\ \A d \in Deliveries : clock[d] \in Nat
    BY IngestAssumption DEF TypeOK, IngestAssumption
<1> USE DEF Goto, TypeOK, Accepted, Kept
<1>2. CASE Tick
    BY <1>0, <1>1, <1>2, LoneKept DEF Tick
<1>3. ASSUME NEW d \in Deliveries, Arrive(d) PROVE LoneInv'
    BY <1>0, <1>1, <1>3, LoneKept DEF Arrive
<1>4. ASSUME NEW d \in Deliveries, Scan(d) PROVE LoneInv'
  <2>1. ASSUME NEW e \in Deliveries, Accepted(e), Kept(e), ~Kept(e)' PROVE Over(e)'
    <3>1. KeyOf[e] \in Stale(d)
        BY <1>4, <2>1 DEF Scan
    <3>2. clock[d] > clock[e] + TTL
        BY <2>1, <3>1 DEF Stale, EntryInv
    <3> QED
        BY <1>0, <1>1, <1>4, <3>2 DEF Over, Scan
  <2>2. UNCHANGED <<now, clock>> /\ \A e \in Deliveries : pc'[e] \notin {"new", "submit", "queued"} \/ pc'[e] = pc[e]
      BY <1>4 DEF Scan
  <2> HIDE DEF Kept
  <2> QED
      BY <1>0, <2>1, <2>2, LoneKept
<1>5. ASSUME NEW d \in Deliveries, Delete(d) PROVE LoneInv'
  <2> PICK k \in expired[d] :
          /\ expired' = [expired EXCEPT ![d] = @ \ {k}]
          /\ IF k \in DOMAIN entries
             THEN /\ Goto(d, "delete", IF expired[d] = {k} THEN "test" ELSE "delete")
                  /\ entries' = Without(k)
             ELSE Goto(d, "delete", "failed") /\ UNCHANGED entries
      BY <1>5 DEF Delete
  <2>1. ASSUME NEW e \in Deliveries, Kept(e) PROVE Kept(e)'
      BY <2>1 DEF Without
  <2>2. /\ UNCHANGED <<now, clock>>
        /\ \A e \in Deliveries : pc'[e] \notin {"new", "submit", "queued"} \/ pc'[e] = pc[e]
      BY <1>5 DEF Delete
  <2> HIDE DEF Kept
  <2> QED
      BY <1>0, <2>1, <2>2, LoneKept
<1>6. ASSUME NEW d \in Deliveries, Test(d) PROVE LoneInv'
    BY <1>0, <1>6, LoneKept DEF Test
<1>7. ASSUME NEW d \in Deliveries, New(d) PROVE LoneInv'
    BY <1>7, LoneNew
<1>8. ASSUME NEW d \in Deliveries, Submit(d) PROVE LoneInv'
    BY <1>0, <1>8, LoneKept DEF Submit
<1>9. CASE UNCHANGED vars
    BY <1>0, <1>9, LoneKept DEF vars
<1> QED
    BY <1>2, <1>3, <1>4, <1>5, <1>6, <1>7, <1>8, <1>9 DEF Next, Step

(* One trigger is judged once, if its delivery met no other while it was     *)
(* registered: a later one of the same key is accepted only after the time   *)
(* to live (register), whatever later deliveries do to each other.           *)
THEOREM LoneTriggers == Spec => []LoneTriggerOnce
<1>1. Init => EntryInv /\ FreshInv /\ LoneInv
    BY IngestAssumption DEF Init, EntryInv, DuplicateOfAccepted, FreshInv, NotDroppedLate,
       LoneInv, LoneTriggerOnce, Accepted, IngestAssumption
<1>2. LoneInv => LoneTriggerOnce
    BY DEF LoneInv
<1> QED
    BY <1>1, <1>2, TypeInit, TypeNext, EntryNext, FreshNext, LoneNext, PTL DEF Spec
=============================================================================
