---------------------------- MODULE TriggerIngest ----------------------------
(* handle_trigger before it takes the lock (service/model_service.py) and   *)
(* the registry of deliveries it asks (ingest/idempotency.py).  The HTTP    *)
(* adapter runs each delivery in a thread of its own and nothing here is    *)
(* locked.  CPython switches threads at calls and at jumps, so an action    *)
(* ends at one of these: the call of the clock, the end of the iteration    *)
(* over the dictionary, each deletion, the jump on "key in entries", the    *)
(* lock.  A delivery whose thread raises is answered with an error and is   *)
(* not registered.                                                          *)
(* A trigger id stands for the delivery that was given it.                  *)
EXTENDS Naturals, FiniteSets

CONSTANTS
    Deliveries,     \* the POSTs to /trigger, retries included
    Key,            \* zone and video paths, hashed
    KeyOf,          \* the key of each delivery
    TTL,            \* idempotency_ttl_s
    MaxTime         \* bound of the clock

ASSUME IngestAssumption ==
    /\ KeyOf \in [Deliveries -> Key]
    /\ TTL \in Nat
    /\ MaxTime \in Nat

VARIABLES
    now,        \* the monotonic clock
    entries,    \* _entries: key to time and trigger id
    pc,         \* where each thread is
    clock,      \* its reading of the clock
    size,       \* the dictionary's size when its iteration began
    expired,    \* the keys it still has to delete
    told,       \* the trigger id of its answer
    before,     \* history: for each delivery, those answered before it began
    at          \* history: when each delivery was registered

vars == <<now, entries, pc, clock, size, expired, told, before, at>>

Running == {"scan", "delete", "test", "new", "submit"}
Ended   == {"queued", "duplicate", "failed"}
Entry   == [ts : 0 .. MaxTime, id : Deliveries]

(* The state is of the declared shape.                                      *)
TypeOK ==
    /\ now \in 0 .. MaxTime
    /\ DOMAIN entries \subseteq Key
    /\ \A k \in DOMAIN entries : entries[k] \in Entry
    /\ pc \in [Deliveries -> {"idle"} \cup Running \cup Ended]
    /\ clock \in [Deliveries -> 0 .. MaxTime]
    /\ expired \in [Deliveries -> SUBSET Key]
    /\ told \in [Deliveries -> Deliveries]
    /\ before \in [Deliveries -> SUBSET Deliveries]
    /\ at \in [Deliveries -> 0 .. MaxTime]

Init ==
    /\ now = 0 /\ entries = <<>>
    /\ pc = [d \in Deliveries |-> "idle"]
    /\ clock = [d \in Deliveries |-> 0]
    /\ size = [d \in Deliveries |-> 0]
    /\ expired = [d \in Deliveries |-> {}]
    /\ told = [d \in Deliveries |-> d]
    /\ before = [d \in Deliveries |-> {}]
    /\ at = [d \in Deliveries |-> 0]
-----------------------------------------------------------------------------
Goto(d, from, to) == pc[d] = from /\ pc' = [pc EXCEPT ![d] = to]

(* handle_trigger makes the key and the id; register reads the clock and    *)
(* begins to iterate over the dictionary.                                   *)
Arrive(d) ==
    /\ Goto(d, "idle", "scan")
    /\ before' = [before EXCEPT ![d] = {e \in Deliveries : pc[e] \in Ended}]
    /\ clock' = [clock EXCEPT ![d] = now]
    /\ size' = [size EXCEPT ![d] = Cardinality(DOMAIN entries)]
    /\ UNCHANGED <<now, entries, expired, told, at>>

(* Mutants: an entry expires when the time to live is just reached; the     *)
(* clean-up is dropped.                                                     *)
StaleAtTTL(d) == {k \in DOMAIN entries : clock[d] >= entries[k].ts + TTL}
StaleNever(d) == {}

Stale(d) == {k \in DOMAIN entries : clock[d] > entries[k].ts + TTL}

(* The iteration ends with the list of what has expired, or raises because  *)
(* another thread changed the dictionary's size meanwhile.                  *)
Scan(d) ==
    /\ IF size[d] = Cardinality(DOMAIN entries)
       THEN /\ Goto(d, "scan", IF Stale(d) = {} THEN "test" ELSE "delete")
            /\ expired' = [expired EXCEPT ![d] = Stale(d)]
       ELSE Goto(d, "scan", "failed") /\ UNCHANGED expired
    /\ UNCHANGED <<now, entries, clock, size, told, before, at>>

Without(k) == [j \in DOMAIN entries \ {k} |-> entries[j]]

(* del self._entries[k] for one key of that list.  If another thread has    *)
(* deleted it since, this one raises; if another has deleted it and         *)
(* registered the key again, the new entry is what is deleted.              *)
Delete(d) ==
    \E k \in expired[d] :
        /\ expired' = [expired EXCEPT ![d] = @ \ {k}]
        /\ IF k \in DOMAIN entries
           THEN /\ Goto(d, "delete", IF expired[d] = {k} THEN "test" ELSE "delete")
                /\ entries' = Without(k)
           ELSE Goto(d, "delete", "failed") /\ UNCHANGED entries
        /\ UNCHANGED <<now, clock, size, told, before, at>>

(* if key in self._entries: a duplicate is answered with the id it finds.   *)
Test(d) ==
    /\ IF KeyOf[d] \in DOMAIN entries
       THEN /\ Goto(d, "test", "duplicate")
            /\ told' = [told EXCEPT ![d] = entries[KeyOf[d]].id]
       ELSE Goto(d, "test", "new") /\ UNCHANGED told
    /\ UNCHANGED <<now, entries, clock, size, expired, before, at>>

(* Mutant: an entry holds the time of its expiry.                           *)
RegisteredUntil(d) ==
    [k \in DOMAIN entries \cup {KeyOf[d]} |->
        IF k = KeyOf[d] THEN [ts |-> clock[d] + TTL, id |-> d] ELSE entries[k]]

Registered(d) ==
    [k \in DOMAIN entries \cup {KeyOf[d]} |->
        IF k = KeyOf[d] THEN [ts |-> clock[d], id |-> d] ELSE entries[k]]

(* A new key is entered with the time read at the beginning.                *)
New(d) ==
    /\ Goto(d, "new", "submit")
    /\ entries' = Registered(d)
    /\ at' = [at EXCEPT ![d] = now]
    /\ UNCHANGED <<now, clock, size, expired, told, before>>

(* Mutant: the worker refuses a delivery that is already registered.        *)
Refuse(d) ==
    /\ Goto(d, "submit", "failed")
    /\ UNCHANGED <<now, entries, clock, size, expired, told, before, at>>

(* The critical section: worker.submit.  "queued" is being in the queue.    *)
Submit(d) ==
    /\ Goto(d, "submit", "queued")
    /\ UNCHANGED <<now, entries, clock, size, expired, told, before, at>>

Tick ==
    /\ now < MaxTime
    /\ now' = now + 1
    /\ UNCHANGED <<entries, pc, clock, size, expired, told, before, at>>

Step(d) == Arrive(d) \/ Scan(d) \/ Delete(d) \/ Test(d) \/ New(d) \/ Submit(d)

Next == Tick \/ \E d \in Deliveries : Step(d)

Spec == Init /\ [][Next]_vars
-----------------------------------------------------------------------------
Accepted(d) == pc[d] \in {"submit", "queued"}

(* e was answered before d began; d met no other delivery while it ran.     *)
After(d, e) == pc[d] # "idle" /\ e \in before[d]
Alone(d) == \A e \in Deliveries \ {d} : pc[e] = "idle" \/ After(d, e) \/ After(e, d)

(* One trigger is judged once (register): when a delivery met no other      *)
(* while it was registered, a later one of the same key is accepted only    *)
(* after the time to live, whatever later deliveries do to each other.      *)
LoneTriggerOnce ==
    \A d, e \in Deliveries :
        /\ Accepted(d) /\ Accepted(e) /\ KeyOf[d] = KeyOf[e]
        /\ After(d, e) /\ Alone(e)
        => at[d] > clock[e] + TTL

(* No trigger is lost as a duplicate (handle_trigger): the id in the answer *)
(* is that of a delivery of the same key that is in the queue or about to   *)
(* be put there.                                                            *)
DuplicateOfAccepted ==
    \A d \in Deliveries : pc[d] = "duplicate" =>
        Accepted(told[d]) /\ KeyOf[told[d]] = KeyOf[d]

(* A new sale with the key of an old one is not taken for its retry         *)
(* (register): a delivery is a duplicate of one answered before it only     *)
(* within the time to live, which answering duplicates does not extend.     *)
NotDroppedLate ==
    \A d \in Deliveries :
        pc[d] = "duplicate" /\ After(d, told[d]) => clock[d] <= clock[told[d]] + TTL
=============================================================================
