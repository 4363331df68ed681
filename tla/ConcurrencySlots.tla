-------------------------- MODULE ConcurrencySlots --------------------------
(***************************************************************************)
(* The limits on requests in flight: every gateway request takes a slot of *)
(* its user, then a slot of the account that serves it, and queues for     *)
(* either while none is free (service/concurrency_service.go,              *)
(* handler/gateway_helper.go, handler/gateway_handler.go).  The slots are  *)
(* members of a Redis sorted set scored by the Redis time at which they    *)
(* were taken, the queues are Redis counters                               *)
(* (repository/concurrency_cache.go).                                      *)
(*                                                                         *)
(* The module follows requests of one user on one account.  Every call to  *)
(* Redis is a step of its own and may fail, its effect applied or not; a   *)
(* client may go away; a process may die, and another one start, while     *)
(* requests are at any step.  A member of Processes is one lifetime of a   *)
(* process: the prefix of its request ids is drawn when it starts.         *)
(*                                                                         *)
(* Redis time is kept as ages, so that it needs no bound.                  *)
(***************************************************************************)
EXTENDS Integers, FiniteSets

CONSTANTS
    Requests,      \* gateway requests, each handled once
    Processes,     \* lifetimes of server processes
    Running,       \* the ones that already serve in the initial state
    Limits,        \* what the concurrency of the user and the account may be
    QueueLimit,    \* requests that may queue for a slot
    TTL,           \* ticks after which a slot is taken for abandoned
    MaxLag,        \* bound: ticks between a TIME call and the script it is for
    MaxFaults      \* bound: Redis calls that fail under a live client

Resources == {"user", "account"}

ASSUME SlotsAssumption ==
    /\ IsFiniteSet(Requests)
    /\ Processes # {} /\ Running \subseteq Processes
    /\ Limits \subseteq [Resources -> Nat]
    /\ {QueueLimit, TTL} \subseteq Nat \ {0}
    /\ {MaxLag, MaxFaults} \subseteq Nat

VARIABLES
    limit,   \* the concurrency of the user and the account, 0 for no limit
    req,     \* the handlers of the requests
    slots,   \* the members of the two sorted sets
    age,     \* ticks since the Redis time a request id carries
    wait,    \* the two queue counters
    proc,    \* the processes
    drift,   \* history: whether a queue counter may be too low or too high
    faults   \* bound: failed calls so far

vars == <<limit, req, slots, age, wait, proc, drift, faults>>

(***************************************************************************)
(* A request id is generated for every attempt.  A handler that gets an    *)
(* error for an attempt made from the queue gives up, so that two ids per  *)
(* resource are all that a request can leave in the sets: the one of its   *)
(* first attempt and the one of the queue.                                 *)
(***************************************************************************)
Attempts == {"first", "queue"}
Ids == [req : Requests, of : Resources, try : Attempts]
IdsOf(x) == {i \in Ids : i.of = x}

PCs == {"new", "try", "enqueue", "wait", "won", "lost", "run", "freeUser", "done"}
ProcessStates == {"off", "sweepUser", "dropAccount", "dropUser", "up", "dead"}

(***************************************************************************)
(* Every variable has its type; the counter of a queue never goes below    *)
(* zero, whatever is decremented twice (decrementWaitScript).              *)
(***************************************************************************)
TypeOK ==
    /\ limit \in Limits
    /\ req \in [Requests -> [proc : Processes, pc : PCs, of : Resources,
                             queued : BOOLEAN, gone : BOOLEAN,
                             swept : SUBSET Resources,
                             slot : [Resources -> Attempts \cup {"none"}]]]
    /\ slots \subseteq Ids
    /\ age \in [Ids -> 0..(TTL + MaxLag)]
    /\ wait \in [Resources -> Nat]
    /\ proc \in [Processes -> ProcessStates]
    /\ drift \in [Resources -> SUBSET {"low", "high"}]
    /\ faults \in 0..MaxFaults

\* A handler that holds nothing.
Fresh(pc, p) ==
    [proc |-> p, pc |-> pc, of |-> "user", queued |-> FALSE, gone |-> FALSE,
     swept |-> {}, slot |-> [x \in Resources |-> "none"]]

Init ==
    /\ limit \in Limits
    /\ req = [r \in Requests |-> Fresh("new", CHOOSE p \in Processes : TRUE)]
    /\ slots = {}
    /\ age = [i \in Ids |-> 0]
    /\ wait = [x \in Resources |-> 0]
    /\ proc = [p \in Processes |-> IF p \in Running THEN "up" ELSE "off"]
    /\ drift = [x \in Resources |-> {}]
    /\ faults = 0

-----------------------------------------------------------------------------
(* The scripts.                                                            *)

\* The id of the attempt a handler is making.
Attempt(r) == IF req[r].queued THEN "queue" ELSE "first"
AttemptId(r) == [req |-> r, of |-> req[r].of, try |-> Attempt(r)]

\* The id whose release function a handler holds.
HeldId(r, x) == [req |-> r, of |-> x, try |-> req[r].slot[x]]
Holds(r, x) == req[r].slot[x] # "none"

\* Mutant: the age is compared as if the score were in the future.
ExpiredNever(x, lag) == {i \in slots \cap IdsOf(x) : age[i] > TTL + TTL + MaxLag + lag}

\* Mutant: a slot expires one tick early.
ExpiredEarly(x, lag) == {i \in slots \cap IdsOf(x) : age[i] + 1 >= TTL + lag}

\* ZREMRANGEBYSCORE key -inf (now - ttl), by a caller whose now is lag ticks old.
Expired(x, lag) == {i \in slots \cap IdsOf(x) : age[i] >= TTL + lag}

\* What acquireScript leaves of the set before it counts.
Unexpired(x, lag) == slots \ Expired(x, lag)

\* Mutant: the limit itself is let in.
HasRoomForOneMore(x, lag) ==
    Cardinality(Unexpired(x, lag) \cap IdsOf(x)) <= limit[x]

\* acquireScript: is there a slot left?
HasRoom(x, lag) == Cardinality(Unexpired(x, lag) \cap IdsOf(x)) < limit[x]

\* The set after acquireScript.
AcquireScript(r, lag) ==
    Unexpired(req[r].of, lag)
        \cup (IF HasRoom(req[r].of, lag) THEN {AttemptId(r)} ELSE {})

\* Mutant: the bound is checked on the value before the last increment.
MayQueueOneMore(x) == wait[x] <= QueueLimit

\* incrementWaitScript: may one more request queue?
MayQueue(x) == wait[x] < QueueLimit

\* decrementWaitScript, which never goes below zero.
DecrementWait(x) == [wait EXCEPT ![x] = IF @ > 0 THEN @ - 1 ELSE 0]

-----------------------------------------------------------------------------
(* The handler of a request.                                               *)

\* A call made with the request's context fails freely once the client is gone.
MayFail(r) ==
    \/ req[r].gone /\ UNCHANGED faults
    \/ faults < MaxFaults /\ faults' = faults + 1

Fault == faults < MaxFaults /\ faults' = faults + 1

\* Where a handler goes once it has the slot it asked for ...
Advanced(q) ==
    IF q.of = "user" THEN [q EXCEPT !.of = "account", !.pc = "try"]
    ELSE [q EXCEPT !.pc = "run"]

\* ... and once it has given up on it: the deferred release of the user's slot.
Abandoned(q) ==
    IF q.of = "user" THEN Fresh("done", q.proc) ELSE [q EXCEPT !.pc = "freeUser"]

\* An id whose age still matters: in a set, or with a handler that will release it.
InUse(i) == i \in slots \/ req[i.req].slot[i.of] = i.try

\* No time passes; the age of an id nobody uses is 0.
SameTime == age' = [i \in Ids |-> IF InUse(i)' THEN age[i] ELSE 0]

\* The requests in a queue.
Queued(x) == {r \in Requests : req[r].queued /\ req[r].of = x}

\* How far the counters can be off after a step that makes some of them too low
\* or too high; an empty queue with a counter at zero is exact again.
Drifts(low, high) ==
    drift' = [x \in Resources |->
                 IF wait'[x] = 0 /\ Queued(x)' = {} THEN {}
                 ELSE drift[x] \cup (IF x \in low THEN {"low"} ELSE {})
                               \cup (IF x \in high THEN {"high"} ELSE {})]

Arrive(r, p) ==
    /\ req[r].pc = "new" /\ proc[p] = "up"
    /\ req' = [req EXCEPT ![r] = Fresh("try", p)]
    /\ UNCHANGED <<limit, slots, age, wait, proc, drift, faults>>

\* The ages once an attempt has run whose Redis time was read lag ticks before.
Stamped(r, lag) ==
    age' = [i \in Ids |-> CASE ~InUse(i)' -> 0
                             [] i = AttemptId(r) -> lag
                             [] OTHER -> age[i]]

\* Without a limit there is nothing to take and nothing to release.
AcquireUnlimited(r) ==
    /\ req[r].pc = "try" /\ limit[req[r].of] = 0
    /\ req' = [req EXCEPT ![r] = Advanced(@)]
    /\ UNCHANGED <<limit, slots, age, wait, proc, drift, faults>>

\* An attempt, the first one or one at a beat of the backoff timer: the Redis
\* time, then the acquire script with it.
AcquireSlot(r) ==
    /\ req[r].pc \in {"try", "wait"} /\ limit[req[r].of] > 0
    /\ \E lag \in 0..MaxLag :
           /\ slots' = AcquireScript(r, lag)
           /\ \/ /\ HasRoom(req[r].of, lag)
                 /\ req' = [req EXCEPT ![r] =
                              LET q == [@ EXCEPT !.slot[req[r].of] = Attempt(r)]
                              IN  IF q.queued THEN [q EXCEPT !.pc = "won"]
                                  ELSE Advanced(q)]
              \/ /\ ~HasRoom(req[r].of, lag)
                 /\ req' = [req EXCEPT ![r].pc = IF @ = "wait" THEN @ ELSE "enqueue"]
           /\ Stamped(r, lag)
    /\ UNCHANGED <<limit, wait, proc, drift, faults>>

\* TIME or the script fails, or the answer of the script is lost.  The scheduler
\* takes an error for a busy account, the helper returns it.
AcquireFails(r) ==
    /\ req[r].pc \in {"try", "wait"} /\ limit[req[r].of] > 0
    /\ req' = [req EXCEPT ![r] =
                  IF @.queued THEN [@ EXCEPT !.pc = "lost"]
                  ELSE IF @.of = "account" THEN [@ EXCEPT !.pc = "enqueue"]
                  ELSE Abandoned(@)]
    /\ \/ MayFail(r) /\ UNCHANGED <<slots, age>>
       \/ /\ Fault
          /\ \E lag \in 0..MaxLag : slots' = AcquireScript(r, lag) /\ Stamped(r, lag)
    /\ UNCHANGED <<limit, wait, proc, drift>>

IncrementWaitCount(r) ==
    /\ req[r].pc = "enqueue"
    /\ \/ /\ MayQueue(req[r].of)
          /\ wait' = [wait EXCEPT ![req[r].of] = @ + 1]
          /\ req' = [req EXCEPT ![r].pc = "wait", ![r].queued = TRUE]
       \/ /\ ~MayQueue(req[r].of)
          /\ req' = [req EXCEPT ![r] = Abandoned(@)]
          /\ UNCHANGED wait
    /\ UNCHANGED <<limit, slots, age, proc, drift, faults>>

\* A failed increment lets the request queue, counted or not.
IncrementFails(r) ==
    /\ req[r].pc = "enqueue"
    /\ MayFail(r)
    /\ req' = [req EXCEPT ![r].pc = "wait", ![r].queued = TRUE]
    /\ \/ /\ UNCHANGED wait
          /\ Drifts({req[r].of}, {})
       \/ /\ MayQueue(req[r].of)
          /\ wait' = [wait EXCEPT ![req[r].of] = @ + 1]
          /\ UNCHANGED drift
    /\ UNCHANGED <<limit, slots, age, proc>>

\* The wait times out, the client is gone or a ping cannot be written.
GiveUp(r) ==
    /\ req[r].pc = "wait"
    /\ req' = [req EXCEPT ![r].pc = "lost"]
    /\ UNCHANGED <<limit, slots, age, wait, proc, drift, faults>>

\* Leaving the queue, with a slot or without.
Dequeued(r) ==
    LET q == [req[r] EXCEPT !.queued = FALSE]
    IN  IF q.pc = "won" THEN Advanced(q) ELSE Abandoned(q)

\* Mutant: only a request that gave up is taken out of the count.
DecrementIfLost(r) ==
    /\ req[r].pc \in {"won", "lost"}
    /\ wait' = IF req[r].pc = "lost" THEN DecrementWait(req[r].of) ELSE wait
    /\ req' = [req EXCEPT ![r] = Dequeued(r)]
    /\ Drifts({}, {})
    /\ UNCHANGED <<limit, slots, age, proc, faults>>

DecrementWaitCount(r) ==
    /\ req[r].pc \in {"won", "lost"}
    /\ wait' = DecrementWait(req[r].of)
    /\ req' = [req EXCEPT ![r] = Dequeued(r)]
    /\ Drifts({}, {})
    /\ UNCHANGED <<limit, slots, age, proc, faults>>

\* A failed decrement is only logged.
DecrementFails(r) ==
    /\ req[r].pc \in {"won", "lost"}
    /\ Fault
    /\ req' = [req EXCEPT ![r] = Dequeued(r)]
    /\ UNCHANGED <<limit, slots, age, wait, proc>>
    /\ Drifts({}, {req[r].of})

\* The slot a handler gives back next: the account's when the upstream has
\* answered, the user's when the handler returns.
ReleasedBy(r) == IF req[r].pc = "run" THEN "account" ELSE "user"

\* The handler with that slot given back.
Released(r) ==
    IF req[r].pc = "run"
    THEN [req[r] EXCEPT !.pc = "freeUser", !.slot["account"] = "none"]
    ELSE Fresh("done", req[r].proc)

\* Mutant: a handler waits for a release that the context's callback has done.
ReleaseIfHeld(r) ==
    /\ req[r].pc \in {"run", "freeUser"}
    /\ Holds(r, ReleasedBy(r))
    /\ slots' = slots \ {HeldId(r, ReleasedBy(r))}
    /\ req' = [req EXCEPT ![r] = Released(r)]
    /\ SameTime
    /\ UNCHANGED <<limit, wait, proc, drift, faults>>

\* The end of a request; what the context's callback has released stays released.
ReleaseSlot(r) ==
    /\ req[r].pc \in {"run", "freeUser"}
    /\ slots' = slots \ {HeldId(r, ReleasedBy(r))}
    /\ req' = [req EXCEPT ![r] = Released(r)]
    /\ SameTime
    /\ UNCHANGED <<limit, wait, proc, drift, faults>>

\* A failed release is only logged: the slot stays until it expires.
ReleaseFails(r) ==
    /\ req[r].pc \in {"run", "freeUser"}
    /\ Holds(r, ReleasedBy(r))
    /\ Fault
    /\ req' = [req EXCEPT ![r] = Released(r)]
    /\ UNCHANGED <<limit, slots, age, wait, proc, drift>>

\* The client disconnects: the request's context is done.
ClientGone(r) ==
    /\ req[r].pc \notin {"new", "done"} /\ ~req[r].gone
    /\ req' = [req EXCEPT ![r].gone = TRUE]
    /\ UNCHANGED <<limit, slots, age, wait, proc, drift, faults>>

\* wrapReleaseOnDone: the callback of the context gives a slot back while the
\* handler is still at work.
ReleaseOnDone(r, x) ==
    /\ req[r].gone /\ Holds(r, x)
    /\ \/ x = "user" /\ req[r].of = "account"
       \/ x = "account" /\ req[r].pc = "run"
    /\ slots' = slots \ {HeldId(r, x)}
    /\ req' = [req EXCEPT ![r].slot[x] = "none"]
    /\ SameTime
    /\ UNCHANGED <<limit, wait, proc, drift, faults>>

-----------------------------------------------------------------------------
(* Processes and Redis.                                                    *)

\* A process dies: its handlers stop where they are.
Crash(p) ==
    /\ proc[p] = "up"
    /\ proc' = [proc EXCEPT ![p] = "dead"]
    /\ LET Cut == {r \in Requests : req[r].proc = p /\ req[r].pc \notin {"new", "done"}}
       IN  /\ req' = [r \in Requests |-> IF r \in Cut THEN Fresh("done", p) ELSE req[r]]
           /\ UNCHANGED <<limit, slots, wait, faults>>
           /\ Drifts({}, {x \in Resources : Queued(x) \cap Cut # {}})
    /\ SameTime

\* A process starts.  startupCleanupScript: every member of the accounts' sets,
\* then of the users', without the prefix of the new process goes.
StartupSweep(p, x) ==
    /\ proc[p] = (IF x = "account" THEN "off" ELSE "sweepUser")
    /\ proc' = [proc EXCEPT ![p] = IF x = "account" THEN "sweepUser" ELSE "dropAccount"]
    /\ slots' = {i \in slots : i.of # x \/ req[i.req].proc = p}
    /\ req' = [r \in Requests |->
                  IF Holds(r, x) /\ req[r].proc # p
                  THEN [req[r] EXCEPT !.swept = @ \cup {x}] ELSE req[r]]
    /\ SameTime
    /\ UNCHANGED <<limit, wait, drift, faults>>

\* The queue counters are deleted.
StartupDrop(p, x) ==
    /\ proc[p] = (IF x = "account" THEN "dropAccount" ELSE "dropUser")
    /\ proc' = [proc EXCEPT ![p] = IF x = "account" THEN "dropUser" ELSE "up"]
    /\ wait' = [wait EXCEPT ![x] = 0]
    /\ UNCHANGED <<limit, req, slots, age, faults>>
    /\ Drifts({x}, {})

\* An error ends the cleanup, and the process serves all the same.
StartupFails(p) ==
    /\ proc[p] \in {"off", "sweepUser", "dropAccount", "dropUser"}
    /\ Fault
    /\ proc' = [proc EXCEPT ![p] = "up"]
    /\ UNCHANGED <<limit, req, slots, age, wait, drift>>

\* The periodic worker of a process, one key at a time.
CleanupExpired(p, x) ==
    /\ proc[p] = "up"
    /\ \E lag \in 0..MaxLag :
           /\ Expired(x, lag) # {}
           /\ slots' = slots \ Expired(x, lag)
    /\ UNCHANGED req
    /\ SameTime
    /\ UNCHANGED <<limit, wait, proc, drift, faults>>

\* Redis expires a set TTL ticks after its last member came.
KeyExpires(x) ==
    /\ Expired(x, 0) # {}
    /\ Expired(x, 0) = slots \cap IdsOf(x)
    /\ slots' = slots \ Expired(x, 0)
    /\ UNCHANGED req
    /\ SameTime
    /\ UNCHANGED <<limit, wait, proc, drift, faults>>

\* Redis expires a queue counter after the longest wait: by then the requests it
\* counts have timed out, though they need not have left the queue.
WaitKeyExpires(x) ==
    /\ wait[x] > 0
    /\ \A r \in Queued(x) : req[r].pc = "lost"
    /\ wait' = [wait EXCEPT ![x] = 0]
    /\ UNCHANGED <<limit, req, slots, age, proc, faults>>
    /\ Drifts({x}, {})

Tick ==
    /\ \E i \in Ids : InUse(i) /\ age[i] < TTL + MaxLag
    /\ age' = [i \in Ids |->
                  IF InUse(i) /\ age[i] < TTL + MaxLag THEN age[i] + 1 ELSE age[i]]
    /\ UNCHANGED <<limit, req, slots, wait, proc, drift, faults>>

-----------------------------------------------------------------------------
Handle(r) ==
    \/ AcquireUnlimited(r) \/ AcquireSlot(r) \/ AcquireFails(r)
    \/ IncrementWaitCount(r) \/ IncrementFails(r) \/ GiveUp(r)
    \/ DecrementWaitCount(r) \/ DecrementFails(r)
    \/ ReleaseSlot(r) \/ ReleaseFails(r)

Next ==
    \/ \E r \in Requests : Handle(r) \/ ClientGone(r)
    \/ \E r \in Requests, p \in Processes : Arrive(r, p)
    \/ \E r \in Requests, x \in Resources : ReleaseOnDone(r, x)
    \/ \E p \in Processes : Crash(p) \/ StartupFails(p)
    \/ \E p \in Processes, x \in Resources :
           StartupSweep(p, x) \/ StartupDrop(p, x) \/ CleanupExpired(p, x)
    \/ \E x \in Resources : KeyExpires(x) \/ WaitKeyExpires(x)
    \/ Tick

Spec == Init /\ [][Next]_vars

\* What goes on by itself: handlers, the time of Redis and its expiry of keys.
Progress ==
    \/ \E r \in Requests : Handle(r)
    \/ \E x \in Resources : KeyExpires(x) \/ WaitKeyExpires(x)
    \/ Tick

(***************************************************************************)
(* Something that goes on by itself goes on while anything of it can.  As  *)
(* a request is handled once, no handler can be overtaken for ever, and    *)
(* this is enough.  Nothing is assumed of clients, of processes or of the  *)
(* cleanup worker, which no process need be up to run.                     *)
(***************************************************************************)
FairSpec == Spec /\ WF_vars(Progress)

-----------------------------------------------------------------------------
(* Properties.                                                             *)

(***************************************************************************)
(* A request that holds a slot is counted in the sorted set until its TTL  *)
(* has run from the time it read before the script, unless a starting      *)
(* process of another prefix swept the set: no other request's script, and *)
(* no cleanup whose time was read before, drops it earlier                 *)
(* (acquireScript, cleanupExpiredSlotsScript, redisUnixTime).              *)
(***************************************************************************)
HolderIsCounted ==
    \A r \in Requests, x \in Resources :
        Holds(r, x) /\ age[HeldId(r, x)] < TTL /\ x \notin req[r].swept
            => HeldId(r, x) \in slots

\* The requests at work on a slot: connected, within the TTL and not swept.
Working(x) ==
    {r \in Requests :
        /\ IF x = "user" THEN req[r].of = "account" /\ req[r].pc # "done"
           ELSE req[r].pc = "run"
        /\ ~req[r].gone /\ x \notin req[r].swept
        /\ age[HeldId(r, x)] < TTL}

(***************************************************************************)
(* No more requests of the user are in flight, and no more are forwarded   *)
(* to the account, than the limits say, whatever calls fail and whichever  *)
(* processes die; the exceptions are requests that outlived the TTL, that  *)
(* a starting process swept, or whose client is gone (AcquireUserSlot,     *)
(* AcquireAccountSlot).                                                    *)
(***************************************************************************)
WithinLimit == \A x \in Resources : limit[x] > 0 => Cardinality(Working(x)) <= limit[x]

(***************************************************************************)
(* No more requests queue than the queue takes, unless an increment failed *)
(* and was let through, or the counter was dropped while requests queued   *)
(* (IncrementWaitCount, incrementWaitScript).                              *)
(***************************************************************************)
QueueIsBounded ==
    \A x \in Resources :
        "low" \notin drift[x]
            => Cardinality(Queued(x)) <= QueueLimit

(***************************************************************************)
(* The queue counter counts nobody who has left, so that no request is     *)
(* turned away from a queue with room, unless a decrement failed or a      *)
(* process died with a request in the queue (DecrementWaitCount).          *)
(***************************************************************************)
NobodyCountedInVain ==
    \A x \in Resources :
        "high" \notin drift[x] => wait[x] <= Cardinality(Queued(x))

(***************************************************************************)
(* A request that arrived ends: it is served, refused or timed out, and    *)
(* neither waits for a slot nor for a release for ever                     *)
(* (waitForSlotWithPingTimeout, wrapReleaseOnDone).                        *)
(***************************************************************************)
RequestsEnd == <>[](\A r \in Requests : req[r].pc \in {"new", "done"})

(***************************************************************************)
(* Once no more requests come, every slot and every queue place is free    *)
(* for good, those left behind by dead processes, lost answers and failed  *)
(* releases included (acquireScript's EXPIRE, incrementWaitScript's        *)
(* EXPIRE).                                                                *)
(***************************************************************************)
Drains == <>[](slots = {} /\ \A x \in Resources : wait[x] = 0)
=============================================================================
