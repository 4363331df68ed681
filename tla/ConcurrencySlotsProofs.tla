----------------------- MODULE ConcurrencySlotsProofs ------------------------
(***************************************************************************)
(* The safety properties of ConcurrencySlots, for any number of requests   *)
(* and of processes, any limits, any length of the queue and of the TTL,   *)
(* and any number of failing calls.                                        *)
(***************************************************************************)
EXTENDS ConcurrencySlots, FiniteSetTheorems, TLAPS

\* The state of a handler.
Handlers == [proc : Processes, pc : PCs, of : Resources, queued : BOOLEAN, gone : BOOLEAN,
             swept : SUBSET Resources, slot : [Resources -> Attempts \cup {"none"}]]

\* What a handler holds at each of its steps.  The last two parts are the reason for the
\* limits: a connected handler that has come past a resource with a limit holds a slot of it.
HandlerOK(q) ==
    /\ q.queued <=> q.pc \in {"wait", "won", "lost"}
    /\ q.pc \in {"new", "done"} => q.of = "user" /\ q.slot["user"] = "none"
    /\ q.of = "user" => q.slot["account"] = "none"
    /\ q.pc \in {"try", "enqueue", "wait", "lost"} => q.slot[q.of] = "none"
    /\ q.pc = "won" => q.slot[q.of] # "none"
    /\ q.pc \in {"run", "freeUser"} => q.of = "account"
    /\ limit["user"] > 0 /\ ~q.gone /\ q.of = "account" => q.slot["user"] # "none"
    /\ limit["account"] > 0 /\ ~q.gone /\ q.pc = "run" => q.slot["account"] # "none"

HandlerInv == \A r \in Requests : HandlerOK(req[r])

\* The sets never hold more members than the limits: the script counts before it adds.
SetsInv ==
    /\ IsFiniteSet(slots)
    /\ \A x \in Resources : limit[x] > 0 => Cardinality(slots \cap IdsOf(x)) <= limit[x]

\* The counters respect the limit of the queue, and lag behind it only where they drifted.
QueueInv ==
    \A x \in Resources :
        /\ wait[x] <= QueueLimit
        /\ "low" \notin drift[x] => Cardinality(Queued(x)) <= wait[x]
        /\ "high" \notin drift[x] => wait[x] <= Cardinality(Queued(x))

\* The inductive invariant.
IInv ==
    /\ TypeOK
    /\ HandlerInv
    /\ HolderIsCounted
    /\ SetsInv
    /\ QueueInv

-----------------------------------------------------------------------------
(* Steps of one handler                                                    *)

\* At most the handler of r moves ...
Moves(r) ==
    /\ req' \in [Requests -> Handlers]
    /\ \A s \in Requests \ {r} : req'[s] = req[s]

\* ... and goes on, to the step pc on the resource of, in its queue or not ...
Goes(r, pc, of, queued) ==
    /\ Moves(r)
    /\ req'[r].pc = pc /\ req'[r].of = of /\ req'[r].queued = queued
    /\ req'[r].proc = req[r].proc
    /\ req'[r].gone = req[r].gone
    /\ req'[r].swept = req[r].swept

\* ... or returns.
Ends(r) == Moves(r) /\ req'[r] = Fresh("done", req[r].proc)

\* The step after the slot of a resource.
Beyond(of) == IF of = "user" THEN "try" ELSE "run"

\* A handler that holds nothing is one of the states of a handler.
LEMMA FreshType ==
    ASSUME NEW pc \in PCs, NEW p \in Processes
    PROVE  Fresh(pc, p) \in Handlers
BY DEF Fresh, Handlers, Resources, Attempts

\* A handler that holds nothing has the fields Fresh gives it.
LEMMA FreshFields ==
    ASSUME NEW pc \in PCs, NEW p \in Processes
    PROVE  /\ Fresh(pc, p).proc = p /\ Fresh(pc, p).pc = pc /\ Fresh(pc, p).of = "user"
           /\ Fresh(pc, p).queued = FALSE /\ Fresh(pc, p).gone = FALSE
           /\ Fresh(pc, p).swept = {}
           /\ \A x \in Resources : Fresh(pc, p).slot[x] = "none"
BY DEF Fresh

\* Advanced changes nothing but the step and the resource.
LEMMA AdvancedFields ==
    ASSUME NEW q \in Handlers
    PROVE  /\ Advanced(q) \in Handlers
           /\ Advanced(q).pc = Beyond(q.of) /\ Advanced(q).of = "account"
           /\ Advanced(q).queued = q.queued /\ Advanced(q).proc = q.proc
           /\ Advanced(q).gone = q.gone /\ Advanced(q).swept = q.swept
           /\ Advanced(q).slot = q.slot
<1>1. q.of \in {"user", "account"} /\ {"try", "run"} \subseteq PCs
  BY DEF Handlers, Resources, PCs
<1>2. CASE q.of = "user"
  BY <1>1, <1>2 DEF Advanced, Beyond, Handlers, Resources
<1>3. CASE q.of = "account"
  BY <1>1, <1>3 DEF Advanced, Beyond, Handlers, Resources
<1> QED  BY <1>1, <1>2, <1>3

\* Abandoned ends a handler without slots, or leaves it the release of the user's slot.
LEMMA AbandonedFields ==
    ASSUME NEW q \in Handlers
    PROVE  /\ Abandoned(q) \in Handlers
           /\ q.of = "user" => Abandoned(q) = Fresh("done", q.proc)
           /\ q.of = "account" =>
                 /\ Abandoned(q).pc = "freeUser" /\ Abandoned(q).of = "account"
                 /\ Abandoned(q).queued = q.queued /\ Abandoned(q).proc = q.proc
                 /\ Abandoned(q).gone = q.gone /\ Abandoned(q).swept = q.swept
                 /\ Abandoned(q).slot = q.slot
<1>1. q.of \in {"user", "account"} /\ {"done", "freeUser"} \subseteq PCs /\ q.proc \in Processes
  BY DEF Handlers, Resources, PCs
<1>2. CASE q.of = "user"
  BY <1>1, <1>2, FreshType DEF Abandoned
<1>3. CASE q.of = "account"
  BY <1>1, <1>3 DEF Abandoned, Handlers, Resources
<1> QED  BY <1>1, <1>2, <1>3

\* A step that replaces the state of one handler.
LEMMA MovesTo ==
    ASSUME req \in [Requests -> Handlers], NEW r \in Requests, NEW q \in Handlers,
           req' = [req EXCEPT ![r] = q]
    PROVE  Moves(r) /\ req'[r] = q
BY DEF Moves

\* A handler goes on after the slot it asked for.
LEMMA GoesAdvanced ==
    ASSUME req \in [Requests -> Handlers], NEW r \in Requests, NEW q \in Handlers,
           req' = [req EXCEPT ![r] = Advanced(q)],
           q.proc = req[r].proc, q.gone = req[r].gone, q.swept = req[r].swept
    PROVE  Goes(r, Beyond(q.of), "account", q.queued) /\ req'[r].slot = q.slot
<1>1. Moves(r) /\ req'[r] = Advanced(q)
  BY AdvancedFields, MovesTo
<1> QED
  BY <1>1, AdvancedFields DEF Goes

\* A handler gives up.
LEMMA GoesAbandoned ==
    ASSUME req \in [Requests -> Handlers], NEW r \in Requests, NEW q \in Handlers,
           req' = [req EXCEPT ![r] = Abandoned(q)],
           q.proc = req[r].proc, q.gone = req[r].gone, q.swept = req[r].swept
    PROVE  \/ q.of = "user" /\ Ends(r)
           \/ /\ q.of = "account"
              /\ Goes(r, "freeUser", "account", q.queued) /\ req'[r].slot = q.slot
<1>1. Moves(r) /\ req'[r] = Abandoned(q)
  BY AbandonedFields, MovesTo
<1>2. q.of \in {"user", "account"}
  BY DEF Handlers, Resources
<1> QED
  BY <1>1, <1>2, AbandonedFields DEF Goes, Ends

\* A handler takes another step on the same resource.
LEMMA GoesTo ==
    ASSUME req \in [Requests -> Handlers], NEW r \in Requests, NEW pc \in PCs,
           req' = [req EXCEPT ![r].pc = pc]
    PROVE  Goes(r, pc, req[r].of, req[r].queued) /\ req'[r].slot = req[r].slot
BY DEF Goes, Moves, Handlers

-----------------------------------------------------------------------------
(* What each action does to its handler                                    *)

\* A request arrives at a process.
LEMMA ArriveMoves ==
    ASSUME req \in [Requests -> Handlers], NEW r \in Requests, NEW p \in Processes, Arrive(r, p)
    PROVE  Moves(r) /\ req'[r] = Fresh("try", p) /\ req[r].pc = "new"
<1>1. "try" \in PCs
  BY DEF PCs
<1> QED
  BY <1>1, FreshType, MovesTo DEF Arrive

\* Without a limit the handler goes on with what it has.
LEMMA AcquireUnlimitedMoves ==
    ASSUME req \in [Requests -> Handlers], NEW r \in Requests, AcquireUnlimited(r)
    PROVE  /\ Goes(r, Beyond(req[r].of), "account", req[r].queued)
           /\ req'[r].slot = req[r].slot /\ req[r].pc = "try" /\ limit[req[r].of] = 0
<1>1. req[r] \in Handlers /\ req' = [req EXCEPT ![r] = Advanced(req[r])]
  BY DEF AcquireUnlimited
<1> QED
  BY <1>1, GoesAdvanced DEF AcquireUnlimited

\* A handler that gets a slot goes on with it, or has won it in the queue ...
Gets(r) ==
    /\ req'[r].slot = [req[r].slot EXCEPT ![req[r].of] = Attempt(r)]
    /\ \/ req[r].queued /\ Goes(r, "won", req[r].of, TRUE)
       \/ ~req[r].queued /\ Goes(r, Beyond(req[r].of), "account", FALSE)

\* ... and one that does not queues, or queues on.
Misses(r) ==
    /\ req'[r].slot = req[r].slot
    /\ \/ req[r].pc = "wait" /\ Goes(r, "wait", req[r].of, req[r].queued)
       \/ req[r].pc = "try" /\ Goes(r, "enqueue", req[r].of, req[r].queued)

\* An attempt gets a slot or misses it, as the script found room or not.
LEMMA AcquireSlotMoves ==
    ASSUME req \in [Requests -> Handlers], NEW r \in Requests, AcquireSlot(r)
    PROVE  /\ req[r].pc \in {"try", "wait"} /\ limit[req[r].of] > 0
           /\ \E lag \in 0..MaxLag :
                 /\ slots' = AcquireScript(r, lag) /\ Stamped(r, lag)
                 /\ \/ HasRoom(req[r].of, lag) /\ Gets(r)
                    \/ ~HasRoom(req[r].of, lag) /\ Misses(r)
<1> DEFINE q == [req[r] EXCEPT !.slot[req[r].of] = Attempt(r)]
<1>1. req[r] \in Handlers /\ req[r].of \in Resources /\ req[r].queued \in BOOLEAN
  BY DEF Handlers
<1>2. Attempt(r) \in Attempts
  BY DEF Attempt, Attempts
<1>3. /\ q \in Handlers /\ q.slot = [req[r].slot EXCEPT ![req[r].of] = Attempt(r)]
      /\ q.of = req[r].of /\ q.queued = req[r].queued /\ q.proc = req[r].proc
      /\ q.gone = req[r].gone /\ q.swept = req[r].swept
  BY <1>1, <1>2 DEF Handlers
<1>4. ASSUME req' = [req EXCEPT ![r] =
                        LET c == [@ EXCEPT !.slot[req[r].of] = Attempt(r)]
                        IN  IF c.queued THEN [c EXCEPT !.pc = "won"] ELSE Advanced(c)]
      PROVE  Gets(r)
  <2>1. req' = [req EXCEPT ![r] = IF q.queued THEN [q EXCEPT !.pc = "won"] ELSE Advanced(q)]
    BY <1>4
  <2> HIDE DEF q
  <2>2. CASE req[r].queued
    <3>1. req' = [req EXCEPT ![r] = [q EXCEPT !.pc = "won"]]
      BY <1>3, <2>1, <2>2
    <3>2. /\ [q EXCEPT !.pc = "won"] \in Handlers
          /\ [q EXCEPT !.pc = "won"].pc = "won"
          /\ [q EXCEPT !.pc = "won"].of = q.of
          /\ [q EXCEPT !.pc = "won"].queued = q.queued
          /\ [q EXCEPT !.pc = "won"].proc = q.proc
          /\ [q EXCEPT !.pc = "won"].gone = q.gone
          /\ [q EXCEPT !.pc = "won"].swept = q.swept
          /\ [q EXCEPT !.pc = "won"].slot = q.slot
      BY <1>3 DEF Handlers, PCs
    <3>3. Moves(r) /\ req'[r] = [q EXCEPT !.pc = "won"]
      BY <3>1, <3>2, MovesTo
    <3>4. Goes(r, "won", req[r].of, TRUE)
      BY <1>3, <2>2, <3>2, <3>3 DEF Goes
    <3> QED
      BY <1>3, <2>2, <3>2, <3>3, <3>4 DEF Gets
  <2>3. CASE ~req[r].queued
    <3>1. req' = [req EXCEPT ![r] = Advanced(q)]
      BY <1>3, <2>1, <2>3
    <3>2. Goes(r, Beyond(q.of), "account", q.queued) /\ req'[r].slot = q.slot
      BY <1>3, <3>1, GoesAdvanced
    <3>3. q.queued = FALSE
      BY <1>1, <1>3, <2>3
    <3> QED
      BY <1>3, <2>3, <3>2, <3>3 DEF Gets
  <2> QED  BY <1>1, <2>2, <2>3
<1>5. ASSUME req' = [req EXCEPT ![r].pc = IF @ = "wait" THEN @ ELSE "enqueue"],
             req[r].pc \in {"try", "wait"}
      PROVE  Misses(r)
  <2>1. CASE req[r].pc = "wait"
    <3>1. req' = [req EXCEPT ![r].pc = "wait"] /\ "wait" \in PCs
      BY <1>5, <2>1 DEF PCs
    <3> QED
      BY <2>1, <3>1, GoesTo DEF Misses
  <2>2. CASE req[r].pc = "try"
    <3>1. req' = [req EXCEPT ![r].pc = "enqueue"] /\ "enqueue" \in PCs
      BY <1>5, <2>2 DEF PCs
    <3> QED
      BY <2>2, <3>1, GoesTo DEF Misses
  <2> QED  BY <1>5, <2>1, <2>2
<1> HIDE DEF q
<1> QED
  BY <1>4, <1>5 DEF AcquireSlot

\* An attempt that fails leaves the queue, goes to it or gives up; no slot is held for it.
LEMMA AcquireFailsMoves ==
    ASSUME req \in [Requests -> Handlers], NEW r \in Requests, AcquireFails(r)
    PROVE  /\ req[r].pc \in {"try", "wait"} /\ limit[req[r].of] > 0
           /\ \/ /\ \/ req[r].queued /\ Goes(r, "lost", req[r].of, TRUE)
                    \/ /\ ~req[r].queued /\ req[r].of = "account"
                       /\ Goes(r, "enqueue", req[r].of, FALSE)
                 /\ req'[r].slot = req[r].slot
              \/ ~req[r].queued /\ req[r].of = "user" /\ Ends(r)
<1>1. req[r] \in Handlers /\ req[r].of \in {"user", "account"} /\ req[r].queued \in BOOLEAN
  BY DEF Handlers, Resources
<1>2. /\ req[r].pc \in {"try", "wait"} /\ limit[req[r].of] > 0
      /\ req' = [req EXCEPT ![r] =
                  IF req[r].queued THEN [req[r] EXCEPT !.pc = "lost"]
                  ELSE IF req[r].of = "account" THEN [req[r] EXCEPT !.pc = "enqueue"]
                  ELSE Abandoned(req[r])]
  BY DEF AcquireFails
<1>3. CASE req[r].queued
  <2>1. req' = [req EXCEPT ![r].pc = "lost"] /\ "lost" \in PCs /\ req[r].queued = TRUE
    BY <1>1, <1>2, <1>3 DEF PCs
  <2> QED
    BY <1>2, <1>3, <2>1, GoesTo
<1>4. CASE ~req[r].queued /\ req[r].of = "account"
  <2>1. req' = [req EXCEPT ![r].pc = "enqueue"] /\ "enqueue" \in PCs /\ req[r].queued = FALSE
    BY <1>1, <1>2, <1>4 DEF PCs
  <2> QED
    BY <1>2, <1>4, <2>1, GoesTo
<1>5. CASE ~req[r].queued /\ req[r].of = "user"
  <2>1. req' = [req EXCEPT ![r] = Abandoned(req[r])]
    BY <1>1, <1>2, <1>5
  <2> QED
    BY <1>1, <1>2, <1>5, <2>1, GoesAbandoned
<1> QED  BY <1>1, <1>3, <1>4, <1>5

\* Entering the queue.
LEMMA QueuesMoves ==
    ASSUME req \in [Requests -> Handlers], NEW r \in Requests,
           req' = [req EXCEPT ![r].pc = "wait", ![r].queued = TRUE]
    PROVE  Goes(r, "wait", req[r].of, TRUE) /\ req'[r].slot = req[r].slot
<1>1. "wait" \in PCs
  BY DEF PCs
<1> QED
  BY <1>1 DEF Goes, Moves, Handlers

\* A handler turned away from a full queue, or one that has left it in vain, gives up.
Drops(r) ==
    \/ req[r].of = "user" /\ Ends(r)
    \/ /\ req[r].of = "account"
       /\ Goes(r, "freeUser", "account", FALSE) /\ req'[r].slot = req[r].slot

\* IncrementWaitCount lets a handler queue or turns it away.
LEMMA IncrementMoves ==
    ASSUME req \in [Requests -> Handlers], NEW r \in Requests, IncrementWaitCount(r),
           ~req[r].queued
    PROVE  /\ req[r].pc = "enqueue"
           /\ \/ /\ MayQueue(req[r].of) /\ wait' = [wait EXCEPT ![req[r].of] = @ + 1]
                 /\ Goes(r, "wait", req[r].of, TRUE) /\ req'[r].slot = req[r].slot
              \/ wait' = wait /\ Drops(r)
<1>1. CASE /\ MayQueue(req[r].of) /\ wait' = [wait EXCEPT ![req[r].of] = @ + 1]
           /\ req' = [req EXCEPT ![r].pc = "wait", ![r].queued = TRUE]
  BY <1>1, QueuesMoves DEF IncrementWaitCount
<1>2. CASE req' = [req EXCEPT ![r] = Abandoned(@)] /\ UNCHANGED wait
  <2>1. req[r] \in Handlers /\ req' = [req EXCEPT ![r] = Abandoned(req[r])]
        /\ req[r].queued = FALSE
    BY <1>2 DEF Handlers
  <2>2. \/ req[r].of = "user" /\ Ends(r)
        \/ /\ req[r].of = "account"
           /\ Goes(r, "freeUser", "account", req[r].queued) /\ req'[r].slot = req[r].slot
    BY <2>1, GoesAbandoned
  <2> QED
    BY <1>2, <2>1, <2>2 DEF Drops, IncrementWaitCount
<1> QED  BY <1>1, <1>2 DEF IncrementWaitCount

\* Leaving the queue, to go on with the slot or to give up.
LEMMA DequeuedMoves ==
    ASSUME req \in [Requests -> Handlers], NEW r \in Requests,
           req[r].pc \in {"won", "lost"}, req' = [req EXCEPT ![r] = Dequeued(r)]
    PROVE  \/ /\ req[r].pc = "won" /\ Goes(r, Beyond(req[r].of), "account", FALSE)
              /\ req'[r].slot = req[r].slot
           \/ req[r].pc = "lost" /\ Drops(r)
<1> DEFINE q == [req[r] EXCEPT !.queued = FALSE]
<1>1. /\ q \in Handlers /\ q.slot = req[r].slot /\ q.pc = req[r].pc
      /\ q.of = req[r].of /\ q.queued = FALSE /\ q.proc = req[r].proc
      /\ q.gone = req[r].gone /\ q.swept = req[r].swept
  BY DEF Handlers
<1>2. req' = [req EXCEPT ![r] = IF q.pc = "won" THEN Advanced(q) ELSE Abandoned(q)]
  BY DEF Dequeued
<1> HIDE DEF q
<1>3. CASE req[r].pc = "won"
  <2>1. req' = [req EXCEPT ![r] = Advanced(q)]
    BY <1>1, <1>2, <1>3
  <2>2. Goes(r, Beyond(q.of), "account", q.queued) /\ req'[r].slot = q.slot
    BY <1>1, <2>1, GoesAdvanced
  <2> QED
    BY <1>1, <1>3, <2>2
<1>4. CASE req[r].pc = "lost"
  <2>1. req' = [req EXCEPT ![r] = Abandoned(q)]
    BY <1>1, <1>2, <1>4
  <2>2. \/ q.of = "user" /\ Ends(r)
        \/ /\ q.of = "account"
           /\ Goes(r, "freeUser", "account", q.queued) /\ req'[r].slot = q.slot
    BY <1>1, <2>1, GoesAbandoned
  <2> QED
    BY <1>1, <1>4, <2>2 DEF Drops
<1> QED  BY <1>3, <1>4

\* Giving back the account's slot, or the user's with the end of the handler.
LEMMA ReleasedMoves ==
    ASSUME req \in [Requests -> Handlers], NEW r \in Requests,
           req[r].pc \in {"run", "freeUser"}, req' = [req EXCEPT ![r] = Released(r)]
    PROVE  \/ /\ req[r].pc = "run" /\ ReleasedBy(r) = "account"
              /\ Goes(r, "freeUser", req[r].of, req[r].queued)
              /\ req'[r].slot = [req[r].slot EXCEPT !["account"] = "none"]
           \/ req[r].pc = "freeUser" /\ ReleasedBy(r) = "user" /\ Ends(r)
<1>0. req[r] \in Handlers /\ {"freeUser", "done"} \subseteq PCs
  BY DEF PCs
<1>1. CASE req[r].pc = "run"
  <2> DEFINE q == [req[r] EXCEPT !.pc = "freeUser", !.slot["account"] = "none"]
  <2>1. /\ q \in Handlers /\ q.slot = [req[r].slot EXCEPT !["account"] = "none"]
        /\ q.pc = "freeUser" /\ q.of = req[r].of /\ q.queued = req[r].queued
        /\ q.proc = req[r].proc /\ q.gone = req[r].gone /\ q.swept = req[r].swept
    BY <1>0 DEF Handlers, Resources, Attempts
  <2>2. req' = [req EXCEPT ![r] = q]
    BY <1>1 DEF Released
  <2> HIDE DEF q
  <2>3. Moves(r) /\ req'[r] = q
    BY <2>1, <2>2, MovesTo
  <2> QED
    BY <1>1, <2>1, <2>3 DEF Goes, ReleasedBy
<1>2. CASE req[r].pc = "freeUser"
  <2>1. req' = [req EXCEPT ![r] = Fresh("done", req[r].proc)]
    BY <1>2 DEF Released
  <2>2. Fresh("done", req[r].proc) \in Handlers
    BY <1>0, FreshType DEF Handlers
  <2> QED
    BY <1>2, <2>1, <2>2, MovesTo DEF Ends, ReleasedBy
<1> QED  BY <1>1, <1>2

\* The client goes away.
LEMMA ClientGoneMoves ==
    ASSUME req \in [Requests -> Handlers], NEW r \in Requests, ClientGone(r)
    PROVE  /\ Moves(r) /\ req'[r].gone = TRUE /\ req'[r].slot = req[r].slot
           /\ req'[r].pc = req[r].pc /\ req'[r].of = req[r].of /\ req'[r].proc = req[r].proc
           /\ req'[r].queued = req[r].queued /\ req'[r].swept = req[r].swept
BY DEF ClientGone, Moves, Handlers

\* The callback of the context gives a slot back.
LEMMA OnDoneMoves ==
    ASSUME req \in [Requests -> Handlers], NEW r \in Requests, NEW x \in Resources,
           ReleaseOnDone(r, x)
    PROVE  /\ Goes(r, req[r].pc, req[r].of, req[r].queued)
           /\ req'[r].slot = [req[r].slot EXCEPT ![x] = "none"]
<1> DEFINE q == [req[r] EXCEPT !.slot[x] = "none"]
<1>1. /\ q \in Handlers /\ q.slot = [req[r].slot EXCEPT ![x] = "none"]
      /\ q.pc = req[r].pc /\ q.of = req[r].of /\ q.queued = req[r].queued
      /\ q.proc = req[r].proc /\ q.gone = req[r].gone /\ q.swept = req[r].swept
  BY DEF Handlers, Attempts
<1>2. req' = [req EXCEPT ![r] = q]
  BY DEF ReleaseOnDone
<1> HIDE DEF q
<1>3. Moves(r) /\ req'[r] = q
  BY <1>1, <1>2, MovesTo
<1> QED
  BY <1>1, <1>3 DEF Goes

\* A process dies: its handlers are gone, the others as they were.
LEMMA CrashMoves ==
    ASSUME req \in [Requests -> Handlers], NEW p \in Processes, Crash(p)
    PROVE  /\ req' \in [Requests -> Handlers]
           /\ \A r \in Requests :
                 req'[r] = IF req[r].proc = p /\ req[r].pc \notin {"new", "done"}
                           THEN Fresh("done", p) ELSE req[r]
<1>0. "done" \in PCs
  BY DEF PCs
<1>1. Fresh("done", p) \in Handlers
  BY <1>0, FreshType
<1> QED
  BY <1>1 DEF Crash

\* A starting process sweeps a set: the handlers of the others are marked.
LEMMA SweepMoves ==
    ASSUME req \in [Requests -> Handlers], NEW p \in Processes, NEW x \in Resources,
           StartupSweep(p, x)
    PROVE  /\ req' \in [Requests -> Handlers]
           /\ \A r \in Requests :
                 /\ req'[r].proc = req[r].proc /\ req'[r].pc = req[r].pc
                 /\ req'[r].of = req[r].of /\ req'[r].queued = req[r].queued
                 /\ req'[r].gone = req[r].gone /\ req'[r].slot = req[r].slot
                 /\ req'[r].swept = IF Holds(r, x) /\ req[r].proc # p
                                    THEN req[r].swept \cup {x} ELSE req[r].swept
<1>1. req' = [r \in Requests |-> IF Holds(r, x) /\ req[r].proc # p
                                 THEN [req[r] EXCEPT !.swept = @ \cup {x}] ELSE req[r]]
  BY DEF StartupSweep
<1>2. ASSUME NEW r \in Requests
      PROVE  /\ req'[r] \in Handlers
             /\ req'[r].proc = req[r].proc /\ req'[r].pc = req[r].pc
             /\ req'[r].of = req[r].of /\ req'[r].queued = req[r].queued
             /\ req'[r].gone = req[r].gone /\ req'[r].slot = req[r].slot
             /\ req'[r].swept = IF Holds(r, x) /\ req[r].proc # p
                                THEN req[r].swept \cup {x} ELSE req[r].swept
  <2>1. req[r] \in Handlers
    OBVIOUS
  <2>2. CASE Holds(r, x) /\ req[r].proc # p
    <3>1. req'[r] = [req[r] EXCEPT !.swept = @ \cup {x}]
      BY <1>1, <2>2
    <3> QED
      BY <2>1, <2>2, <3>1 DEF Handlers
  <2>3. CASE ~(Holds(r, x) /\ req[r].proc # p)
    <3>1. req'[r] = req[r]
      BY <1>1, <2>3
    <3> QED
      BY <2>1, <2>3, <3>1
  <2> QED  BY <2>2, <2>3
<1> QED
  BY <1>1, <1>2

-----------------------------------------------------------------------------
(* The handlers                                                            *)

\* If the one handler that moves is right afterwards, all are.
LEMMA OneHandler ==
    ASSUME HandlerInv, NEW r \in Requests, Moves(r), limit' = limit, HandlerOK(req[r])'
    PROVE  HandlerInv'
BY DEF HandlerInv, HandlerOK, Moves

\* A handler that has returned holds nothing.
LEMMA EndsIsOK ==
    ASSUME req \in [Requests -> Handlers], NEW r \in Requests, Ends(r)
    PROVE  /\ HandlerOK(req[r])'
           /\ ~req'[r].queued /\ \A x \in Resources : req'[r].slot[x] = "none"
<1>1. req[r].proc \in Processes /\ "done" \in PCs
  BY DEF Handlers, PCs
<1> DEFINE c == req'[r]
<1>2. /\ c.pc = "done" /\ c.of = "user" /\ c.queued = FALSE /\ c.gone = FALSE
      /\ \A x \in Resources : c.slot[x] = "none"
  BY DEF Ends, Fresh
<1> HIDE DEF c
<1>3. c.slot["user"] = "none" /\ c.slot["account"] = "none"
  BY <1>2 DEF Resources
<1>4. /\ c.queued <=> c.pc \in {"wait", "won", "lost"}
      /\ c.pc \in {"new", "done"} => c.of = "user" /\ c.slot["user"] = "none"
      /\ c.of = "user" => c.slot["account"] = "none"
      /\ c.pc \in {"try", "enqueue", "wait", "lost"} => c.slot[c.of] = "none"
      /\ c.pc = "won" => c.slot[c.of] # "none"
      /\ c.pc \in {"run", "freeUser"} => c.of = "account"
      /\ limit'["user"] > 0 /\ ~c.gone /\ c.of = "account" => c.slot["user"] # "none"
      /\ limit'["account"] > 0 /\ ~c.gone /\ c.pc = "run" => c.slot["account"] # "none"
  BY <1>2, <1>3
<1> QED
  BY <1>2, <1>4 DEF HandlerOK, c

\* A handler that gives up on the account keeps what it has of the user.
LEMMA DropsIsOK ==
    ASSUME req \in [Requests -> Handlers], NEW r \in Requests, HandlerOK(req[r]), Drops(r),
           limit' = limit
    PROVE  HandlerOK(req[r])' /\ Moves(r) /\ ~req'[r].queued
<1>1. CASE req[r].of = "user" /\ Ends(r)
  BY <1>1, EndsIsOK DEF Ends
<1>2. CASE /\ req[r].of = "account"
           /\ Goes(r, "freeUser", "account", FALSE) /\ req'[r].slot = req[r].slot
  BY <1>2 DEF HandlerOK, Goes
<1> QED  BY <1>1, <1>2 DEF Drops

\* Every step keeps the handlers right: what is held at each step, by type and in fact.
LEMMA HandlerStep ==
    ASSUME TypeOK, HandlerInv, [Next]_vars
    PROVE  req' \in [Requests -> Handlers] /\ HandlerInv'
<1>t. req \in [Requests -> Handlers] /\ limit \in [Resources -> Nat]
  BY SlotsAssumption DEF TypeOK, Handlers
<1>l. limit' = limit
  BY DEF Next, vars, Handle, Arrive, AcquireUnlimited, AcquireSlot, AcquireFails,
         IncrementWaitCount, IncrementFails, GiveUp, DecrementWaitCount, DecrementFails,
         ReleaseSlot, ReleaseFails, ClientGone, ReleaseOnDone, Crash, StartupSweep, StartupDrop,
         StartupFails, CleanupExpired, KeyExpires, WaitKeyExpires, Tick
<1>o. \A r \in Requests : /\ HandlerOK(req[r]) /\ req[r] \in Handlers
                           /\ req[r].of \in {"user", "account"}
  BY <1>t DEF HandlerInv, Handlers, Resources
<1>m. ASSUME NEW r \in Requests, Moves(r), HandlerOK(req[r])'
      PROVE  req' \in [Requests -> Handlers] /\ HandlerInv'
  BY <1>l, <1>m, OneHandler DEF Moves
<1>n. ASSUME req' = req
      PROVE  req' \in [Requests -> Handlers] /\ HandlerInv'
  BY <1>t, <1>l, <1>n DEF HandlerInv, HandlerOK
<1>1. ASSUME NEW r \in Requests, NEW p \in Processes, Arrive(r, p)
      PROVE  req' \in [Requests -> Handlers] /\ HandlerInv'
  <2>1. Moves(r) /\ req'[r] = Fresh("try", p)
    BY <1>t, <1>1, ArriveMoves
  <2>2. /\ req'[r].pc = "try" /\ req'[r].of = "user" /\ req'[r].queued = FALSE
        /\ req'[r].slot["user"] = "none" /\ req'[r].slot["account"] = "none"
    BY <2>1 DEF Fresh, Resources
  <2>3. HandlerOK(req[r])'
    BY <2>2 DEF HandlerOK
  <2> QED  BY <1>m, <2>1, <2>3
<1>2. ASSUME NEW r \in Requests, AcquireUnlimited(r)
      PROVE  req' \in [Requests -> Handlers] /\ HandlerInv'
  <2>1. /\ Goes(r, Beyond(req[r].of), "account", req[r].queued)
        /\ req'[r].slot = req[r].slot /\ req[r].pc = "try" /\ limit[req[r].of] = 0
    BY <1>t, <1>2, AcquireUnlimitedMoves
  <2>2. HandlerOK(req[r])'
    BY <1>o, <1>l, <2>1 DEF HandlerOK, Goes, Beyond
  <2> QED  BY <1>m, <2>1, <2>2 DEF Goes
<1>3. ASSUME NEW r \in Requests, AcquireSlot(r)
      PROVE  req' \in [Requests -> Handlers] /\ HandlerInv'
  <2>1. req[r].pc \in {"try", "wait"} /\ (Gets(r) \/ Misses(r))
    BY <1>t, <1>3, AcquireSlotMoves
  <2>2. CASE Gets(r)
    <3>1. Attempt(r) # "none" /\ req[r].slot \in [Resources -> Attempts \cup {"none"}]
      BY <1>o DEF Attempt, Handlers
    <3>2. Moves(r)
      BY <2>2 DEF Gets, Goes
    <3>3. HandlerOK(req[r])'
      BY <1>o, <1>l, <2>1, <2>2, <3>1 DEF HandlerOK, Gets, Goes, Beyond, Resources
    <3> QED  BY <1>m, <3>2, <3>3
  <2>3. CASE Misses(r)
    <3>1. Moves(r)
      BY <2>3 DEF Misses, Goes
    <3>2. HandlerOK(req[r])'
      BY <1>o, <1>l, <2>1, <2>3 DEF HandlerOK, Misses, Goes
    <3> QED  BY <1>m, <3>1, <3>2
  <2> QED  BY <2>1, <2>2, <2>3
<1>4. ASSUME NEW r \in Requests, AcquireFails(r)
      PROVE  req' \in [Requests -> Handlers] /\ HandlerInv'
  <2>1. /\ req[r].pc \in {"try", "wait"}
        /\ \/ /\ \/ req[r].queued /\ Goes(r, "lost", req[r].of, TRUE)
                 \/ ~req[r].queued /\ Goes(r, "enqueue", req[r].of, FALSE)
              /\ req'[r].slot = req[r].slot
           \/ Ends(r)
    BY <1>t, <1>4, AcquireFailsMoves
  <2>2. Moves(r) /\ HandlerOK(req[r])'
    <3>1. CASE Ends(r)
      BY <1>t, <3>1, EndsIsOK DEF Ends
    <3>2. CASE ~Ends(r)
      BY <1>o, <1>l, <2>1, <3>2 DEF HandlerOK, Goes
    <3> QED  BY <3>1, <3>2
  <2> QED  BY <1>m, <2>2
<1>5. ASSUME NEW r \in Requests, IncrementWaitCount(r)
      PROVE  req' \in [Requests -> Handlers] /\ HandlerInv'
  <2>1. ~req[r].queued /\ req[r].pc = "enqueue"
    BY <1>o, <1>5 DEF HandlerOK, IncrementWaitCount
  <2>2. \/ Goes(r, "wait", req[r].of, TRUE) /\ req'[r].slot = req[r].slot
        \/ Drops(r)
    BY <1>t, <1>5, <2>1, IncrementMoves
  <2>3. Moves(r) /\ HandlerOK(req[r])'
    <3>1. CASE Drops(r)
      BY <1>t, <1>l, <1>o, <3>1, DropsIsOK
    <3>2. CASE ~Drops(r)
      BY <1>o, <1>l, <2>1, <2>2, <3>2 DEF HandlerOK, Goes
    <3> QED  BY <3>1, <3>2
  <2> QED  BY <1>m, <2>3
<1>6. ASSUME NEW r \in Requests, IncrementFails(r)
      PROVE  req' \in [Requests -> Handlers] /\ HandlerInv'
  <2>1. Goes(r, "wait", req[r].of, TRUE) /\ req'[r].slot = req[r].slot /\ req[r].pc = "enqueue"
    BY <1>t, <1>6, QueuesMoves DEF IncrementFails
  <2>2. HandlerOK(req[r])'
    BY <1>o, <1>l, <2>1 DEF HandlerOK, Goes
  <2> QED  BY <1>m, <2>1, <2>2 DEF Goes
<1>7. ASSUME NEW r \in Requests, GiveUp(r)
      PROVE  req' \in [Requests -> Handlers] /\ HandlerInv'
  <2>1. /\ Goes(r, "lost", req[r].of, req[r].queued) /\ req'[r].slot = req[r].slot
        /\ req[r].pc = "wait"
    BY <1>t, <1>7, GoesTo DEF GiveUp, PCs
  <2>2. HandlerOK(req[r])'
    BY <1>o, <1>l, <2>1 DEF HandlerOK, Goes
  <2> QED  BY <1>m, <2>1, <2>2 DEF Goes
<1>8. ASSUME NEW r \in Requests, DecrementWaitCount(r) \/ DecrementFails(r)
      PROVE  req' \in [Requests -> Handlers] /\ HandlerInv'
  <2>1. \/ /\ req[r].pc = "won" /\ Goes(r, Beyond(req[r].of), "account", FALSE)
           /\ req'[r].slot = req[r].slot
        \/ req[r].pc = "lost" /\ Drops(r)
    BY <1>t, <1>8, DequeuedMoves DEF DecrementWaitCount, DecrementFails
  <2>2. Moves(r) /\ HandlerOK(req[r])'
    <3>1. CASE Drops(r)
      BY <1>t, <1>l, <1>o, <3>1, DropsIsOK
    <3>2. CASE ~Drops(r)
      BY <1>o, <1>l, <2>1, <3>2 DEF HandlerOK, Goes, Beyond
    <3> QED  BY <3>1, <3>2
  <2> QED  BY <1>m, <2>2
<1>9. ASSUME NEW r \in Requests, ReleaseSlot(r) \/ ReleaseFails(r)
      PROVE  req' \in [Requests -> Handlers] /\ HandlerInv'
  <2>1. \/ /\ req[r].pc = "run" /\ Goes(r, "freeUser", req[r].of, req[r].queued)
           /\ req'[r].slot = [req[r].slot EXCEPT !["account"] = "none"]
        \/ Ends(r)
    BY <1>t, <1>9, ReleasedMoves DEF ReleaseSlot, ReleaseFails
  <2>2. Moves(r) /\ HandlerOK(req[r])'
    <3>1. CASE Ends(r)
      BY <1>t, <3>1, EndsIsOK DEF Ends
    <3>2. CASE ~Ends(r)
      <4>1. req[r].slot \in [Resources -> Attempts \cup {"none"}]
        BY <1>o DEF Handlers
      <4> QED
        BY <1>o, <1>l, <2>1, <3>2, <4>1 DEF HandlerOK, Goes, Resources
    <3> QED  BY <3>1, <3>2
  <2> QED  BY <1>m, <2>2
<1>10. ASSUME NEW r \in Requests, ClientGone(r)
       PROVE  req' \in [Requests -> Handlers] /\ HandlerInv'
  <2>1. /\ Moves(r) /\ req'[r].gone = TRUE /\ req'[r].slot = req[r].slot
        /\ req'[r].pc = req[r].pc /\ req'[r].of = req[r].of
        /\ req'[r].queued = req[r].queued
    BY <1>t, <1>10, ClientGoneMoves
  <2>2. HandlerOK(req[r])'
    BY <1>o, <1>l, <2>1 DEF HandlerOK
  <2> QED  BY <1>m, <2>1, <2>2
<1>11. ASSUME NEW r \in Requests, NEW x \in Resources, ReleaseOnDone(r, x)
       PROVE  req' \in [Requests -> Handlers] /\ HandlerInv'
  <2>1. /\ Goes(r, req[r].pc, req[r].of, req[r].queued)
        /\ req'[r].slot = [req[r].slot EXCEPT ![x] = "none"]
    BY <1>t, <1>11, OnDoneMoves
  <2>2. /\ req[r].gone
        /\ \/ x = "user" /\ req[r].of = "account"
           \/ x = "account" /\ req[r].pc = "run"
    BY <1>11 DEF ReleaseOnDone
  <2>3. req[r].slot \in [Resources -> Attempts \cup {"none"}]
    BY <1>o DEF Handlers
  <2>4. HandlerOK(req[r])'
    BY <1>o, <1>l, <2>1, <2>2, <2>3 DEF HandlerOK, Goes, Resources
  <2> QED  BY <1>m, <2>1, <2>4 DEF Goes
<1>12. ASSUME NEW p \in Processes, Crash(p)
       PROVE  req' \in [Requests -> Handlers] /\ HandlerInv'
  <2>1. /\ req' \in [Requests -> Handlers]
        /\ \A r \in Requests :
              req'[r] = IF req[r].proc = p /\ req[r].pc \notin {"new", "done"}
                        THEN Fresh("done", p) ELSE req[r]
    BY <1>t, <1>12, CrashMoves
  <2>2. /\ Fresh("done", p).pc = "done" /\ Fresh("done", p).of = "user"
        /\ Fresh("done", p).queued = FALSE
        /\ Fresh("done", p).slot["user"] = "none" /\ Fresh("done", p).slot["account"] = "none"
    BY DEF Fresh, Resources
  <2>3. ASSUME NEW r \in Requests
        PROVE  HandlerOK(req[r])'
    <3>1. CASE req'[r] = req[r]
      BY <1>l, <1>o, <3>1 DEF HandlerOK
    <3>2. CASE req'[r] = Fresh("done", p)
      BY <2>2, <3>2 DEF HandlerOK
    <3> QED  BY <2>1, <3>1, <3>2
  <2> QED  BY <2>1, <2>3 DEF HandlerInv
<1>13. ASSUME NEW p \in Processes, NEW x \in Resources, StartupSweep(p, x)
       PROVE  req' \in [Requests -> Handlers] /\ HandlerInv'
  <2>1. /\ req' \in [Requests -> Handlers]
        /\ \A r \in Requests :
              /\ req'[r].proc = req[r].proc /\ req'[r].pc = req[r].pc
              /\ req'[r].of = req[r].of /\ req'[r].queued = req[r].queued
              /\ req'[r].gone = req[r].gone /\ req'[r].slot = req[r].slot
    BY <1>t, <1>13, SweepMoves
  <2>2. ASSUME NEW r \in Requests
        PROVE  HandlerOK(req[r])'
    BY <1>l, <1>o, <2>1 DEF HandlerOK
  <2> QED  BY <2>1, <2>2 DEF HandlerInv
<1>14. CASE \/ UNCHANGED vars \/ Tick
            \/ \E p \in Processes : StartupFails(p)
            \/ \E p \in Processes, x \in Resources : StartupDrop(p, x) \/ CleanupExpired(p, x)
            \/ \E x \in Resources : KeyExpires(x) \/ WaitKeyExpires(x)
  BY <1>n, <1>14 DEF vars, Tick, StartupFails, StartupDrop, CleanupExpired, KeyExpires,
                     WaitKeyExpires
<1> QED
  BY <1>1, <1>2, <1>3, <1>4, <1>5, <1>6, <1>7, <1>8, <1>9, <1>10, <1>11, <1>12, <1>13, <1>14
  DEF Next, Handle

-----------------------------------------------------------------------------
(* The sets                                                                *)

\* The two sorted sets and the ages after a step: nothing is added, or a script ran.
Shrinks == slots' \subseteq slots /\ (age' = age \/ SameTime \/ Tick)
Script(r, lag) == slots' = AcquireScript(r, lag) /\ Stamped(r, lag)

\* Only the acquire script adds a member, and every step treats the ages in one of four ways.
LEMMA SlotsStep ==
    ASSUME [Next]_vars
    PROVE  Shrinks \/ \E r \in Requests, lag \in 0..MaxLag : Script(r, lag)
<1>1. CASE UNCHANGED vars
  BY <1>1 DEF vars, Shrinks
<1>2. CASE \E r \in Requests : Handle(r) \/ ClientGone(r)
  <2>1. PICK r \in Requests : Handle(r) \/ ClientGone(r)
    BY <1>2
  <2>2. CASE AcquireSlot(r) \/ AcquireFails(r)
    BY <2>2 DEF AcquireSlot, AcquireFails, Shrinks, Script
  <2>3. CASE ReleaseSlot(r)
    BY <2>3 DEF ReleaseSlot, Shrinks
  <2> QED
    BY <2>1, <2>2, <2>3 DEF Handle, AcquireUnlimited, IncrementWaitCount, IncrementFails, GiveUp,
       DecrementWaitCount, DecrementFails, ReleaseFails, ClientGone, Shrinks
<1>3. CASE \E r \in Requests, p \in Processes : Arrive(r, p)
  BY <1>3 DEF Arrive, Shrinks
<1>4. CASE \E r \in Requests, x \in Resources : ReleaseOnDone(r, x)
  BY <1>4 DEF ReleaseOnDone, Shrinks
<1>5. CASE \E p \in Processes : Crash(p) \/ StartupFails(p)
  BY <1>5 DEF Crash, StartupFails, Shrinks
<1>6. CASE \E p \in Processes, x \in Resources :
              StartupSweep(p, x) \/ StartupDrop(p, x) \/ CleanupExpired(p, x)
  BY <1>6 DEF StartupSweep, StartupDrop, CleanupExpired, Shrinks
<1>7. CASE \E x \in Resources : KeyExpires(x) \/ WaitKeyExpires(x)
  BY <1>7 DEF KeyExpires, WaitKeyExpires, Shrinks
<1>8. CASE Tick
  BY <1>8 DEF Tick, Shrinks
<1> QED  BY <1>1, <1>2, <1>3, <1>4, <1>5, <1>6, <1>7, <1>8 DEF Next

\* The id of an attempt is one of the resource it asks for.
LEMMA AttemptIdType ==
    ASSUME req \in [Requests -> Handlers], NEW r \in Requests
    PROVE  /\ AttemptId(r) \in Ids /\ AttemptId(r) \in IdsOf(req[r].of)
           /\ AttemptId(r).req = r /\ AttemptId(r).of = req[r].of
           /\ AttemptId(r).try = Attempt(r) /\ Attempt(r) \in Attempts
<1>1. req[r].of \in Resources /\ Attempt(r) \in Attempts
  BY DEF Handlers, Attempt, Attempts
<1> QED
  BY <1>1 DEF AttemptId, Ids, IdsOf

\* The members are ids of the requests, and their ages stay within the bound.
LEMMA SlotsType ==
    ASSUME TypeOK, [Next]_vars
    PROVE  slots' \subseteq Ids /\ age' \in [Ids -> 0..(TTL + MaxLag)]
<1>t. /\ req \in [Requests -> Handlers] /\ slots \subseteq Ids
      /\ age \in [Ids -> 0..(TTL + MaxLag)] /\ TTL \in Nat /\ MaxLag \in Nat
  BY SlotsAssumption DEF TypeOK, Handlers
<1>1. CASE Shrinks
  <2>1. slots' \subseteq Ids
    BY <1>t, <1>1 DEF Shrinks
  <2>2. age' \in [Ids -> 0..(TTL + MaxLag)]
    <3>1. CASE age' = age
      BY <1>t, <3>1
    <3>2. CASE SameTime
      <4>1. 0 \in 0..(TTL + MaxLag)
        BY <1>t
      <4> QED
        BY <1>t, <3>2, <4>1 DEF SameTime
    <3>3. CASE Tick
      <4>1. \A n \in 0..(TTL + MaxLag) : n < TTL + MaxLag => n + 1 \in 0..(TTL + MaxLag)
        BY <1>t
      <4> QED
        BY <1>t, <3>3, <4>1 DEF Tick
    <3> QED  BY <1>1, <3>1, <3>2, <3>3 DEF Shrinks
  <2> QED  BY <2>1, <2>2
<1>2. ASSUME NEW r \in Requests, NEW lag \in 0..MaxLag, Script(r, lag)
      PROVE  slots' \subseteq Ids /\ age' \in [Ids -> 0..(TTL + MaxLag)]
  <2>1. slots' \subseteq Ids
    BY <1>t, <1>2, AttemptIdType DEF Script, AcquireScript, Unexpired
  <2>2. 0 \in 0..(TTL + MaxLag) /\ lag \in 0..(TTL + MaxLag)
    BY <1>t
  <2>3. age' \in [Ids -> 0..(TTL + MaxLag)]
    BY <1>t, <1>2, <2>2 DEF Script, Stamped
  <2> QED  BY <2>1, <2>3
<1> QED  BY <1>1, <1>2, SlotsStep

\* The members of a resource's set that the script keeps are some of those that were there.
LEMMA FewerMembers ==
    ASSUME NEW S, IsFiniteSet(S), NEW T, T \subseteq S, NEW U
    PROVE  /\ IsFiniteSet(T) /\ IsFiniteSet(T \cap U)
           /\ Cardinality(T \cap U) \in Nat /\ Cardinality(S \cap U) \in Nat
           /\ Cardinality(T \cap U) <= Cardinality(S \cap U)
<1>1. IsFiniteSet(T) /\ IsFiniteSet(S \cap U)
  BY FS_Subset
<1>2. (T \cap U) \in SUBSET (S \cap U)
  OBVIOUS
<1> QED
  BY <1>1, <1>2, FS_Subset, FS_CardinalityType

\* No step lets a set grow beyond its limit.
LEMMA SetsStep ==
    ASSUME TypeOK, SetsInv, [Next]_vars, limit' = limit
    PROVE  SetsInv'
<1>t. req \in [Requests -> Handlers] /\ limit \in [Resources -> Nat]
  BY SlotsAssumption DEF TypeOK, Handlers
<1>f. /\ IsFiniteSet(slots)
      /\ \A x \in Resources : limit[x] > 0 => Cardinality(slots \cap IdsOf(x)) <= limit[x]
  BY DEF SetsInv
<1>1. ASSUME slots' \subseteq slots
      PROVE  SetsInv'
  <2>1. IsFiniteSet(slots')
    BY <1>f, <1>1, FS_Subset
  <2>2. ASSUME NEW x \in Resources, limit[x] > 0
        PROVE  Cardinality(slots' \cap IdsOf(x)) <= limit[x]
    <3>1. /\ Cardinality(slots' \cap IdsOf(x)) \in Nat /\ Cardinality(slots \cap IdsOf(x)) \in Nat
          /\ Cardinality(slots' \cap IdsOf(x)) <= Cardinality(slots \cap IdsOf(x))
      BY <1>f, <1>1, FewerMembers
    <3>2. Cardinality(slots \cap IdsOf(x)) <= limit[x] /\ limit[x] \in Nat
      BY <1>f, <1>t, <2>2
    <3> QED  BY <3>1, <3>2
  <2> QED
    BY <2>1, <2>2 DEF SetsInv, IdsOf, Ids
<1>2. ASSUME NEW r \in Requests, NEW lag \in 0..MaxLag, slots' = AcquireScript(r, lag)
      PROVE  SetsInv'
  <2> DEFINE y == req[r].of
             kept == Unexpired(y, lag)
             new == AttemptId(r)
  <2>0. new \in IdsOf(y) /\ new.of = y /\ y \in Resources
    BY <1>t, AttemptIdType DEF Handlers
  <2>1. kept \subseteq slots /\ IsFiniteSet(kept)
    BY <1>f, FS_Subset DEF Unexpired
  <2>2. CASE ~HasRoom(y, lag)
    <3>1. slots' = kept
      BY <1>2, <2>2 DEF AcquireScript
    <3> QED  BY <1>1, <2>1, <3>1
  <2>3. CASE HasRoom(y, lag)
    <3>1. slots' = kept \cup {new}
      BY <1>2, <2>3 DEF AcquireScript
    <3>2. Cardinality(kept \cap IdsOf(y)) < limit[y]
      BY <2>3 DEF HasRoom
    <3> HIDE DEF kept, new, y
    <3>3. IsFiniteSet(slots')
      BY <2>1, <3>1, FS_AddElement
    <3>4. ASSUME NEW x \in Resources, limit[x] > 0
          PROVE  Cardinality(slots' \cap IdsOf(x)) <= limit[x]
      <4>1. /\ IsFiniteSet(kept \cap IdsOf(x))
            /\ Cardinality(kept \cap IdsOf(x)) \in Nat /\ Cardinality(slots \cap IdsOf(x)) \in Nat
            /\ Cardinality(kept \cap IdsOf(x)) <= Cardinality(slots \cap IdsOf(x))
        BY <1>f, <2>1, FewerMembers
      <4>2. Cardinality(slots \cap IdsOf(x)) <= limit[x] /\ limit[x] \in Nat
        BY <1>f, <1>t, <3>4
      <4>3. CASE x = y
        <5>1. slots' \cap IdsOf(x) = (kept \cap IdsOf(x)) \cup {new}
          BY <2>0, <3>1, <4>3
        <5> DEFINE old == kept \cap IdsOf(x)
        <5>2. Cardinality(old \cup {new}) =
                IF new \in old THEN Cardinality(old) ELSE Cardinality(old) + 1
          BY <4>1, FS_AddElement
        <5>3. Cardinality(old) \in Nat /\ Cardinality(old) < limit[x] /\ limit[x] \in Nat
          BY <3>2, <4>1, <4>2, <4>3
        <5> HIDE DEF old
        <5>4. Cardinality(old \cup {new}) <= limit[x]
          BY <5>2, <5>3
        <5> QED
          BY <5>1, <5>4 DEF old
      <4>4. CASE x # y
        <5>1. new \notin IdsOf(x)
          BY <2>0, <4>4 DEF IdsOf
        <5>2. slots' \cap IdsOf(x) = kept \cap IdsOf(x)
          BY <3>1, <5>1
        <5> QED
          BY <4>1, <4>2, <5>2
      <4> QED  BY <4>3, <4>4
    <3> QED
      BY <3>3, <3>4 DEF SetsInv, IdsOf, Ids
  <2> QED  BY <2>2, <2>3
<1> QED  BY <1>1, <1>2, SlotsStep DEF Shrinks, Script

-----------------------------------------------------------------------------
(* Whoever holds a slot is counted                                         *)

\* The id a handler holds, and its parts.
LEMMA HeldIdType ==
    ASSUME req \in [Requests -> Handlers], NEW s \in Requests, NEW x \in Resources, Holds(s, x)
    PROVE  /\ HeldId(s, x) \in Ids /\ HeldId(s, x) \in IdsOf(x)
           /\ HeldId(s, x).req = s /\ HeldId(s, x).of = x
           /\ HeldId(s, x).try = req[s].slot[x]
<1>1. req[s].slot[x] \in Attempts
  BY DEF Holds, Handlers
<1> QED
  BY <1>1 DEF HeldId, Ids, IdsOf

\* One holder and one resource.
Counted(s, x) ==
    Holds(s, x) /\ age[HeldId(s, x)] < TTL /\ x \notin req[s].swept => HeldId(s, x) \in slots

\* A step that gives the slot up, or that leaves a holder its slot, does not set its clock
\* back and removes the slot only from a set it marks as swept, keeps it counted.
LEMMA StaysCounted ==
    ASSUME TypeOK, age' \in [Ids -> 0..(TTL + MaxLag)],
           NEW s \in Requests, NEW x \in Resources, Counted(s, x),
           \/ req'[s].slot[x] = "none"
           \/ /\ req'[s].slot[x] = req[s].slot[x]
              /\ x \in req[s].swept => x \in req'[s].swept
              /\ Holds(s, x) => age'[HeldId(s, x)] >= age[HeldId(s, x)]
              /\ Holds(s, x) /\ HeldId(s, x) \in slots /\ age[HeldId(s, x)] < TTL
                   => HeldId(s, x) \in slots' \/ x \in req'[s].swept
    PROVE  Counted(s, x)'
<1>t. /\ req \in [Requests -> Handlers] /\ age \in [Ids -> 0..(TTL + MaxLag)]
      /\ TTL \in Nat /\ MaxLag \in Nat
  BY SlotsAssumption DEF TypeOK, Handlers
<1>1. CASE req'[s].slot[x] = "none"
  BY <1>1 DEF Counted, Holds
<1>2. CASE req'[s].slot[x] # "none"
  <2> DEFINE i == HeldId(s, x)
  <2>1. req'[s].slot[x] = req[s].slot[x] /\ Holds(s, x)
    BY <1>2 DEF Holds
  <2>2. HeldId(s, x)' = i /\ i \in Ids
    BY <1>t, <2>1, HeldIdType DEF HeldId
  <2>3. age[i] \in Nat /\ age'[i] \in Nat /\ age'[i] >= age[i]
    BY <1>t, <1>2, <2>1, <2>2
  <2>4. ASSUME age'[i] < TTL, x \notin req'[s].swept
        PROVE  i \in slots'
    <3>1. age[i] < TTL /\ x \notin req[s].swept
      BY <1>t, <1>2, <2>3, <2>4
    <3>2. i \in slots
      BY <2>1, <3>1 DEF Counted
    <3> QED
      BY <1>2, <2>1, <2>4, <3>1, <3>2
  <2> HIDE DEF i
  <2> QED
    BY <2>2, <2>4 DEF Counted
<1> QED  BY <1>1, <1>2

\* What is in use after a step keeps its age, unless it is the id of the attempt itself.
LEMMA HeldAge ==
    ASSUME TypeOK, NEW s \in Requests, NEW x \in Resources, Holds(s, x),
           req'[s].slot[x] = req[s].slot[x],
           \/ age' = age \/ SameTime \/ Tick
           \/ \E r \in Requests, lag \in 0..MaxLag : Stamped(r, lag) /\ HeldId(s, x) # AttemptId(r)
    PROVE  age'[HeldId(s, x)] >= age[HeldId(s, x)]
<1>t. /\ req \in [Requests -> Handlers] /\ age \in [Ids -> 0..(TTL + MaxLag)]
      /\ TTL \in Nat /\ MaxLag \in Nat
  BY SlotsAssumption DEF TypeOK, Handlers
<1>0. PICK i : i = HeldId(s, x)
  OBVIOUS
<1>1. i \in Ids /\ i.req = s /\ i.of = x /\ i.try = req[s].slot[x] /\ age[i] \in Nat
  BY <1>t, <1>0, HeldIdType
<1>2. InUse(i)'
  BY <1>1 DEF InUse
<1>3. CASE age' = age
  BY <1>1, <1>3, <1>0
<1>4. CASE SameTime
  <2>1. age'[i] = age[i]
    BY <1>1, <1>2, <1>4 DEF SameTime
  <2> QED  BY <1>1, <2>1, <1>0
<1>5. CASE Tick
  <2>1. age'[i] = age[i] \/ age'[i] = age[i] + 1
    BY <1>1, <1>5 DEF Tick
  <2> QED  BY <1>1, <2>1, <1>0
<1>6. ASSUME NEW r \in Requests, NEW lag \in 0..MaxLag, Stamped(r, lag), i # AttemptId(r)
      PROVE  age'[i] >= age[i]
  <2>1. age'[i] = age[i]
    BY <1>1, <1>2, <1>6 DEF Stamped
  <2> QED  BY <1>1, <2>1
<1> QED
  BY <1>3, <1>4, <1>5, <1>6, <1>0

\* Every step keeps every holder counted.
LEMMA CountedStep ==
    ASSUME TypeOK, HandlerInv, HolderIsCounted, [Next]_vars,
           req' \in [Requests -> Handlers], age' \in [Ids -> 0..(TTL + MaxLag)]
    PROVE  HolderIsCounted'
<1>t. /\ req \in [Requests -> Handlers] /\ age \in [Ids -> 0..(TTL + MaxLag)]
      /\ TTL \in Nat /\ MaxLag \in Nat
  BY SlotsAssumption DEF TypeOK, Handlers
<1>o. \A r \in Requests : /\ HandlerOK(req[r]) /\ req[r] \in Handlers
                           /\ req[r].of \in {"user", "account"}
                           /\ req[r].slot \in [Resources -> Attempts \cup {"none"}]
  BY <1>t DEF HandlerInv, Handlers, Resources
<1>c. \A s \in Requests, x \in Resources : Counted(s, x)
  BY DEF HolderIsCounted, Counted
<1>q. SUFFICES ASSUME NEW s \in Requests, NEW x \in Resources
               PROVE  Counted(s, x)'
  BY DEF HolderIsCounted, Counted
<1> DEFINE i == HeldId(s, x)
<1>e. ASSUME NEW y \in Resources, NEW lag \in 0..MaxLag, Holds(s, x), age[i] < TTL
      PROVE  i \notin Expired(y, lag)
  <2>1. i \in Ids /\ age[i] \in Nat
    BY <1>t, <1>e, HeldIdType
  <2> QED  BY <1>t, <1>e, <2>1 DEF Expired
\* The steps that leave the slots and the ages alone, and the handlers theirs or none.
<1>1. ASSUME slots' = slots, age' = age,
             \/ req'[s].slot[x] = "none"
             \/ req'[s].slot[x] = req[s].slot[x] /\ req'[s].swept = req[s].swept
      PROVE  Counted(s, x)'
  <2>1. Holds(s, x) => age'[i] >= age[i]
    BY <1>t, <1>1, HeldIdType
  <2> QED
    BY <1>c, <1>1, <2>1, StaysCounted
\* The steps of other handlers.
<1>2. ASSUME NEW r \in Requests, Moves(r), r # s, slots' = slots, age' = age
      PROVE  Counted(s, x)'
  BY <1>1, <1>2 DEF Moves
<1>3. ASSUME NEW r \in Requests, NEW p \in Processes, Arrive(r, p)
      PROVE  Counted(s, x)'
  <2>1. Moves(r) /\ req'[r] = Fresh("try", p) /\ slots' = slots /\ age' = age
    BY <1>t, <1>3, ArriveMoves DEF Arrive
  <2>2. CASE r = s
    <3>1. req'[s].slot[x] = "none"
      BY <2>1, <2>2 DEF Fresh
    <3> QED  BY <1>1, <2>1, <3>1
  <2> QED  BY <1>2, <2>1, <2>2
<1>4. ASSUME NEW r \in Requests, Ends(r), slots' = slots, age' = age
      PROVE  Counted(s, x)'
  <2>1. CASE r = s
    <3>1. req'[s].slot[x] = "none"
      BY <1>t, <1>4, <2>1, EndsIsOK
    <3> QED  BY <1>1, <1>4, <3>1
  <2> QED  BY <1>2, <1>4, <2>1 DEF Ends
<1>5. ASSUME NEW r \in Requests, NEW pc, NEW of, NEW queued, Goes(r, pc, of, queued),
             req'[r].slot = req[r].slot, slots' = slots, age' = age
      PROVE  Counted(s, x)'
  <2>1. CASE r = s
    BY <1>1, <1>5, <2>1 DEF Goes
  <2> QED  BY <1>2, <1>5, <2>1 DEF Goes
<1>6. ASSUME NEW r \in Requests,
             \/ AcquireUnlimited(r) \/ IncrementWaitCount(r) \/ IncrementFails(r) \/ GiveUp(r)
             \/ DecrementWaitCount(r) \/ DecrementFails(r)
      PROVE  Counted(s, x)'
  <2>1. slots' = slots /\ age' = age
    BY <1>6 DEF AcquireUnlimited, IncrementWaitCount, IncrementFails, GiveUp, DecrementWaitCount,
                DecrementFails
  <2>2. CASE AcquireUnlimited(r)
    BY <1>t, <1>5, <2>1, <2>2, AcquireUnlimitedMoves
  <2>3. CASE IncrementWaitCount(r)
    <3>1. ~req[r].queued
      BY <1>o, <2>3 DEF HandlerOK, IncrementWaitCount
    <3> QED
      BY <1>t, <1>4, <1>5, <2>1, <2>3, <3>1, IncrementMoves DEF Drops
  <2>4. CASE IncrementFails(r)
    BY <1>t, <1>5, <2>1, <2>4, QueuesMoves DEF IncrementFails
  <2>5. CASE GiveUp(r)
    <3>1. "lost" \in PCs /\ req' = [req EXCEPT ![r].pc = "lost"]
      BY <2>5 DEF GiveUp, PCs
    <3> QED
      BY <1>t, <1>5, <2>1, <3>1, GoesTo
  <2>6. CASE DecrementWaitCount(r) \/ DecrementFails(r)
    <3>1. req[r].pc \in {"won", "lost"} /\ req' = [req EXCEPT ![r] = Dequeued(r)]
      BY <2>6 DEF DecrementWaitCount, DecrementFails
    <3> QED
      BY <1>t, <1>4, <1>5, <2>1, <3>1, DequeuedMoves DEF Drops
  <2> QED  BY <1>6, <2>2, <2>3, <2>4, <2>5, <2>6
\* The acquire script keeps what has not expired, and the attempt's own slot is not held yet.
<1>7. ASSUME NEW r \in Requests, NEW lag \in 0..MaxLag, Script(r, lag), Moves(r),
             req[r].pc \in {"try", "wait"},
             s = r /\ x = req[r].of => req'[s].slot[x] = "none",
             s = r /\ x # req[r].of =>
                \/ req'[s].slot[x] = "none"
                \/ req'[s].slot[x] = req[s].slot[x] /\ req'[s].swept = req[s].swept
      PROVE  Counted(s, x)'
  <2>1. CASE req'[s].slot[x] = "none"
    BY <1>c, <2>1, StaysCounted
  <2>2. CASE req'[s].slot[x] # "none"
    <3>1. req'[s].slot[x] = req[s].slot[x] /\ req'[s].swept = req[s].swept
      BY <1>7, <2>2 DEF Moves
    <3>2. Holds(s, x)
      BY <2>2, <3>1 DEF Holds
    <3>3. i.req = s /\ i.of = x
      BY <1>t, <3>2, HeldIdType
    <3>4. i # AttemptId(r)
      BY <1>t, <1>7, <2>2, <3>3, AttemptIdType
    <3>5. age'[i] >= age[i]
      BY <1>7, <3>1, <3>2, <3>4, HeldAge DEF Script
    <3>6. i \in slots /\ age[i] < TTL => i \in slots'
      BY <1>e, <1>7, <1>o, <3>2 DEF Script, AcquireScript, Unexpired, Resources
    <3> QED
      BY <1>c, <3>1, <3>5, <3>6, StaysCounted
  <2> QED  BY <2>1, <2>2
<1>8. ASSUME NEW r \in Requests, AcquireSlot(r)
      PROVE  Counted(s, x)'
  <2>1. PICK lag \in 0..MaxLag :
           /\ Script(r, lag)
           /\ \/ HasRoom(req[r].of, lag) /\ Gets(r)
              \/ ~HasRoom(req[r].of, lag) /\ Misses(r)
    BY <1>t, <1>8, AcquireSlotMoves DEF Script
  <2>2. req[r].pc \in {"try", "wait"} /\ req[r].of \in Resources
    BY <1>8, <1>o DEF AcquireSlot, Resources
  <2>3. CASE Misses(r)
    <3>1. Moves(r) /\ req'[r].slot = req[r].slot /\ req'[r].swept = req[r].swept
      BY <2>3 DEF Misses, Goes
    <3>2. req[r].slot[req[r].of] = "none"
      BY <1>o, <2>2 DEF HandlerOK
    <3> QED
      BY <1>7, <2>1, <2>2, <3>1, <3>2
  <2>4. CASE HasRoom(req[r].of, lag) /\ Gets(r)
    <3>1. /\ Moves(r) /\ req'[r].slot = [req[r].slot EXCEPT ![req[r].of] = Attempt(r)]
          /\ req'[r].swept = req[r].swept
      BY <2>4 DEF Gets, Goes
    <3>2. CASE s = r /\ x = req[r].of
      <4>1. HeldId(s, x)' = AttemptId(r)
        BY <1>o, <2>2, <3>1, <3>2 DEF HeldId, AttemptId
      <4>2. AttemptId(r) \in slots'
        BY <2>1, <2>4 DEF Script, AcquireScript
      <4> QED
        BY <4>1, <4>2 DEF Counted
    <3>3. CASE ~(s = r /\ x = req[r].of)
      <4>1. s = r /\ x # req[r].of
               => req'[s].slot[x] = req[s].slot[x] /\ req'[s].swept = req[s].swept
        BY <1>o, <3>1
      <4> QED
        BY <1>7, <2>1, <2>2, <3>1, <3>3, <4>1
    <3> QED  BY <3>2, <3>3
  <2> QED  BY <2>1, <2>3, <2>4
<1>9. ASSUME NEW r \in Requests, AcquireFails(r)
      PROVE  Counted(s, x)'
  <2>1. /\ req[r].pc \in {"try", "wait"}
        /\ \/ Ends(r)
           \/ /\ \E pc, of, queued : Goes(r, pc, of, queued)
              /\ req'[r].slot = req[r].slot
    BY <1>t, <1>9, AcquireFailsMoves
  <2>2. CASE slots' = slots /\ age' = age
    BY <1>4, <1>5, <2>1, <2>2
  <2>3. ASSUME NEW lag \in 0..MaxLag, Script(r, lag)
        PROVE  Counted(s, x)'
    <3>1. Moves(r)
      BY <2>1 DEF Ends, Goes
    <3>2. req[r].slot[req[r].of] = "none"
      BY <1>o, <2>1 DEF HandlerOK
    <3>3. CASE Ends(r)
      <4>1. s = r => req'[s].slot[x] = "none"
        BY <1>t, <3>3, EndsIsOK
      <4> QED
        BY <1>7, <2>1, <2>3, <3>1, <4>1
    <3>4. CASE req'[r].slot = req[r].slot /\ req'[r].swept = req[r].swept
      BY <1>7, <2>1, <2>3, <3>1, <3>2, <3>4
    <3> QED  BY <2>1, <3>3, <3>4 DEF Goes
  <2> QED  BY <1>9, <2>2, <2>3 DEF AcquireFails, Script
\* Releases: a handler's own slot goes with its hold on it.
<1>10. ASSUME NEW r \in Requests, NEW y \in Resources, Moves(r), req'[r].slot[y] = "none",
              slots' = slots \ {HeldId(r, y)} \/ slots' = slots, age' = age \/ SameTime,
              s = r /\ x # y => \/ req'[s].slot[x] = "none"
                                \/ req'[s].slot[x] = req[s].slot[x] /\ req'[s].swept = req[s].swept
       PROVE  Counted(s, x)'
  <2>1. CASE req'[s].slot[x] = "none"
    BY <1>c, <2>1, StaysCounted
  <2>2. CASE req'[s].slot[x] # "none"
    <3>1. req'[s].slot[x] = req[s].slot[x] /\ req'[s].swept = req[s].swept
      BY <1>10, <2>2 DEF Moves
    <3>2. Holds(s, x)
      BY <2>2, <3>1 DEF Holds
    <3>3. i # HeldId(r, y)
      <4>1. s # r \/ x # y
        BY <1>10, <2>2
      <4> QED  BY <4>1 DEF HeldId
    <3>4. age'[i] >= age[i]
      BY <1>10, <3>1, <3>2, HeldAge
    <3>5. i \in slots => i \in slots'
      BY <1>10, <3>3
    <3> QED
      BY <1>c, <3>1, <3>4, <3>5, StaysCounted
  <2> QED  BY <2>1, <2>2
<1>11. ASSUME NEW r \in Requests, ReleaseSlot(r) \/ ReleaseFails(r)
       PROVE  Counted(s, x)'
  <2>1. /\ req[r].pc \in {"run", "freeUser"} /\ req' = [req EXCEPT ![r] = Released(r)]
        /\ slots' = slots \ {HeldId(r, ReleasedBy(r))} \/ slots' = slots
        /\ age' = age \/ SameTime
    BY <1>11 DEF ReleaseSlot, ReleaseFails
  <2>2. \/ /\ req[r].pc = "run" /\ ReleasedBy(r) = "account"
           /\ Goes(r, "freeUser", req[r].of, req[r].queued)
           /\ req'[r].slot = [req[r].slot EXCEPT !["account"] = "none"]
        \/ req[r].pc = "freeUser" /\ ReleasedBy(r) = "user" /\ Ends(r)
    BY <1>t, <2>1, ReleasedMoves
  <2>3. CASE Ends(r) /\ ReleasedBy(r) = "user"
    <3>1. Moves(r) /\ \A y \in Resources : req'[r].slot[y] = "none"
      BY <1>t, <2>3, EndsIsOK DEF Ends
    <3>2. "user" \in Resources
      BY DEF Resources
    <3> QED
      BY <1>10, <2>1, <2>3, <3>1, <3>2
  <2>4. CASE /\ ReleasedBy(r) = "account"
             /\ Goes(r, "freeUser", req[r].of, req[r].queued)
             /\ req'[r].slot = [req[r].slot EXCEPT !["account"] = "none"]
    <3>1. Moves(r) /\ req'[r].swept = req[r].swept /\ "account" \in Resources
      BY <2>4 DEF Goes, Resources
    <3>2. /\ req'[r].slot["account"] = "none"
          /\ x # "account" => req'[r].slot[x] = req[r].slot[x]
      BY <1>o, <2>4, <3>1
    <3> QED
      BY <1>10, <2>1, <2>4, <3>1, <3>2
  <2> QED  BY <2>2, <2>3, <2>4
<1>12. ASSUME NEW r \in Requests, NEW y \in Resources, ReleaseOnDone(r, y)
       PROVE  Counted(s, x)'
  <2>1. /\ Moves(r) /\ req'[r].swept = req[r].swept
        /\ req'[r].slot = [req[r].slot EXCEPT ![y] = "none"]
    BY <1>t, <1>12, OnDoneMoves DEF Goes
  <2>2. /\ req'[r].slot[y] = "none"
        /\ x # y => req'[r].slot[x] = req[r].slot[x]
    BY <1>o, <2>1
  <2>3. slots' = slots \ {HeldId(r, y)} /\ SameTime
    BY <1>12 DEF ReleaseOnDone
  <2> QED
    BY <1>10, <2>1, <2>2, <2>3
<1>13. ASSUME NEW r \in Requests, ClientGone(r)
       PROVE  Counted(s, x)'
  <2>1. /\ Moves(r) /\ req'[r].slot = req[r].slot /\ req'[r].swept = req[r].swept
        /\ slots' = slots /\ age' = age
    BY <1>t, <1>13, ClientGoneMoves DEF ClientGone
  <2>2. CASE r = s
    BY <1>1, <2>1, <2>2
  <2> QED  BY <1>2, <2>1, <2>2
<1>14. ASSUME NEW p \in Processes, Crash(p)
       PROVE  Counted(s, x)'
  <2>1. req'[s] = Fresh("done", p) \/ req'[s] = req[s]
    BY <1>t, <1>14, CrashMoves
  <2>2. slots' = slots /\ SameTime
    BY <1>14 DEF Crash
  <2>3. CASE req'[s] = Fresh("done", p)
    <3>1. req'[s].slot[x] = "none"
      BY <2>3 DEF Fresh
    <3> QED  BY <1>c, <3>1, StaysCounted
  <2>4. CASE req'[s] = req[s]
    <3>1. Holds(s, x) => age'[i] >= age[i]
      BY <2>2, <2>4, HeldAge
    <3> QED  BY <1>c, <2>2, <2>4, <3>1, StaysCounted
  <2> QED  BY <2>1, <2>3, <2>4
<1>15. ASSUME NEW p \in Processes, NEW y \in Resources, StartupSweep(p, y)
       PROVE  Counted(s, x)'
  <2>1. /\ req'[s].slot = req[s].slot
        /\ req'[s].swept = IF Holds(s, y) /\ req[s].proc # p
                           THEN req[s].swept \cup {y} ELSE req[s].swept
    BY <1>t, <1>15, SweepMoves
  <2>2. slots' = {j \in slots : j.of # y \/ req[j.req].proc = p} /\ SameTime
    BY <1>15 DEF StartupSweep
  <2>3. Holds(s, x) => age'[i] >= age[i]
    BY <2>1, <2>2, HeldAge
  <2>4. ASSUME Holds(s, x), i \in slots
        PROVE  i \in slots' \/ x \in req'[s].swept
    <3>1. i.req = s /\ i.of = x
      BY <1>t, <2>4, HeldIdType
    <3> HIDE DEF i
    <3> QED
      BY <2>1, <2>2, <2>4, <3>1
  <2> QED
    BY <1>c, <2>1, <2>3, <2>4, StaysCounted
\* What expires is old.
<1>16. ASSUME req' = req, SameTime,
              NEW y \in Resources, NEW lag \in 0..MaxLag, slots' = slots \ Expired(y, lag)
       PROVE  Counted(s, x)'
  <2>1. Holds(s, x) => age'[i] >= age[i]
    BY <1>16, HeldAge
  <2>2. Holds(s, x) /\ i \in slots /\ age[i] < TTL => i \in slots'
    BY <1>16, <1>e
  <2> QED
    BY <1>c, <1>16, <2>1, <2>2, StaysCounted
<1>17. ASSUME NEW p \in Processes, NEW y \in Resources, CleanupExpired(p, y)
       PROVE  Counted(s, x)'
  BY <1>16, <1>17 DEF CleanupExpired
<1>18. ASSUME NEW y \in Resources, KeyExpires(y)
       PROVE  Counted(s, x)'
  <2>1. 0 \in 0..MaxLag
    BY <1>t
  <2> QED  BY <1>16, <1>18, <2>1 DEF KeyExpires
<1>19. CASE Tick
  <2>1. req' = req /\ slots' = slots
    BY <1>19 DEF Tick
  <2>2. Holds(s, x) => age'[i] >= age[i]
    BY <1>19, <2>1, HeldAge
  <2> QED
    BY <1>c, <2>1, <2>2, StaysCounted
<1>20. CASE \/ UNCHANGED vars
            \/ \E p \in Processes : StartupFails(p)
            \/ \E p \in Processes, y \in Resources : StartupDrop(p, y)
            \/ \E y \in Resources : WaitKeyExpires(y)
  BY <1>1, <1>20 DEF vars, StartupFails, StartupDrop, WaitKeyExpires
<1> HIDE DEF i
<1> QED
  BY <1>3, <1>6, <1>8, <1>9, <1>11, <1>12, <1>13, <1>14, <1>15, <1>17, <1>18, <1>19, <1>20
  DEF Next, Handle

-----------------------------------------------------------------------------
(* The queues                                                              *)

\* One queue and its counter.
QueueOK(x) ==
    /\ wait[x] <= QueueLimit
    /\ "low" \notin drift[x] => Cardinality(Queued(x)) <= wait[x]
    /\ "high" \notin drift[x] => wait[x] <= Cardinality(Queued(x))

\* A queue is a finite set of requests.
LEMMA QueueIsFinite ==
    ASSUME NEW x
    PROVE  IsFiniteSet(Queued(x)) /\ Cardinality(Queued(x)) \in Nat
<1>1. Queued(x) \in SUBSET Requests
  BY DEF Queued
<1> QED
  BY <1>1, SlotsAssumption, FS_Subset, FS_CardinalityType

\* A step of one handler puts it into a queue, takes it out or leaves it.
LEMMA QueuedAfter ==
    ASSUME NEW r \in Requests, Moves(r), NEW x \in Resources
    PROVE  Queued(x)' = IF req'[r].queued /\ req'[r].of = x
                        THEN Queued(x) \cup {r} ELSE Queued(x) \ {r}
BY DEF Queued, Moves

\* A handler that neither joins nor leaves a queue.
LEMMA SameQueues ==
    ASSUME NEW r \in Requests, Moves(r), NEW x \in Resources,
           \/ ~req[r].queued /\ ~req'[r].queued
           \/ req[r].queued /\ req'[r].queued /\ req'[r].of = req[r].of
    PROVE  Queued(x)' = Queued(x)
BY DEF Queued, Moves

\* A queue, its counter and its drift stay as they are.
LEMMA CalmQueue ==
    ASSUME NEW x \in Resources, QueueOK(x), Queued(x)' = Queued(x), wait' = wait, drift' = drift
    PROVE  QueueOK(x)'
<1>1. Cardinality(Queued(x))' = Cardinality(Queued(x)')
  OBVIOUS
<1> QED
  BY <1>1 DEF QueueOK

\* A queue that a step with Drifts leaves alone, counter included.
LEMMA OtherQueue ==
    ASSUME NEW x \in Resources, QueueOK(x), Queued(x)' = Queued(x), wait'[x] = wait[x],
           NEW low, NEW high, Drifts(low, high)
    PROVE  QueueOK(x)'
<1>0. QueueLimit \in Nat
  BY SlotsAssumption
<1>1. CASE wait'[x] = 0 /\ Queued(x)' = {}
  BY <1>0, <1>1, FS_EmptySet DEF QueueOK
<1>2. CASE ~(wait'[x] = 0 /\ Queued(x)' = {})
  <2>1. drift[x] \subseteq drift'[x]
    BY <1>2 DEF Drifts
  <2>2. Cardinality(Queued(x)') = Cardinality(Queued(x))
    OBVIOUS
  <2> QED
    BY <2>1, <2>2 DEF QueueOK
<1> QED  BY <1>1, <1>2

\* A request joins a queue and is counted.
LEMMA Joins ==
    ASSUME NEW x \in Resources, QueueOK(x), wait[x] \in Nat, wait[x] < QueueLimit,
           wait'[x] = wait[x] + 1, drift'[x] = drift[x],
           NEW r, r \notin Queued(x), Queued(x)' = Queued(x) \cup {r}
    PROVE  QueueOK(x)'
<1>0. QueueLimit \in Nat /\ Cardinality(Queued(x)) \in Nat
  BY SlotsAssumption, QueueIsFinite
<1>1. Cardinality(Queued(x)') = Cardinality(Queued(x)) + 1
  BY QueueIsFinite, FS_AddElement
<1> QED
  BY <1>0, <1>1 DEF QueueOK

\* A request joins a queue without being counted: the counter is too low.
LEMMA JoinsUncounted ==
    ASSUME NEW x \in Resources, QueueOK(x), wait[x] \in Nat, wait' = wait, Drifts({x}, {}),
           NEW r, r \notin Queued(x), Queued(x)' = Queued(x) \cup {r}
    PROVE  QueueOK(x)'
<1>0. QueueLimit \in Nat /\ Cardinality(Queued(x)) \in Nat
  BY SlotsAssumption, QueueIsFinite
<1>1. Cardinality(Queued(x)') = Cardinality(Queued(x)) + 1
  BY QueueIsFinite, FS_AddElement
<1>2. Queued(x)' # {}
  OBVIOUS
<1>3. drift'[x] = drift[x] \cup {"low"}
  BY <1>2 DEF Drifts
<1> QED
  BY <1>0, <1>1, <1>3 DEF QueueOK

\* A request leaves a queue, and the counter goes down with it or, if the call fails, stays.
LEMMA Leaves ==
    ASSUME NEW x \in Resources, QueueOK(x), wait[x] \in Nat,
           NEW r, r \in Queued(x), Queued(x)' = Queued(x) \ {r},
           \/ wait'[x] = (IF wait[x] > 0 THEN wait[x] - 1 ELSE 0) /\ Drifts({}, {})
           \/ wait'[x] = wait[x] /\ Drifts({}, {x})
    PROVE  QueueOK(x)'
<1>0. QueueLimit \in Nat /\ Cardinality(Queued(x)) \in Nat
  BY SlotsAssumption, QueueIsFinite
<1>1. Cardinality(Queued(x)') = Cardinality(Queued(x)) - 1 /\ Cardinality(Queued(x)') \in Nat
  <2>1. IsFiniteSet(Queued(x) \ {r}) /\ Cardinality(Queued(x) \ {r}) = Cardinality(Queued(x)) - 1
    BY QueueIsFinite, FS_RemoveElement
  <2> QED  BY <2>1, FS_CardinalityType
<1>2. CASE wait'[x] = 0 /\ Queued(x)' = {}
  BY <1>0, <1>2, FS_EmptySet DEF QueueOK
<1>3. CASE ~(wait'[x] = 0 /\ Queued(x)' = {})
  <2>1. \/ wait'[x] = (IF wait[x] > 0 THEN wait[x] - 1 ELSE 0) /\ drift'[x] = drift[x]
        \/ wait'[x] = wait[x] /\ drift'[x] = drift[x] \cup {"high"}
    BY <1>3 DEF Drifts
  <2> QED
    BY <1>0, <1>1, <2>1 DEF QueueOK
<1> QED  BY <1>2, <1>3

\* A counter is deleted: it is too low for whoever is in the queue.
LEMMA Deleted ==
    ASSUME NEW x \in Resources, QueueOK(x), wait'[x] = 0, Queued(x)' = Queued(x), Drifts({x}, {})
    PROVE  QueueOK(x)'
<1>0. QueueLimit \in Nat /\ Cardinality(Queued(x)) \in Nat
  BY SlotsAssumption, QueueIsFinite
<1>1. CASE Queued(x)' = {}
  BY <1>0, <1>1, FS_EmptySet DEF QueueOK
<1>2. CASE Queued(x)' # {}
  <2>1. "low" \in drift'[x]
    BY <1>2 DEF Drifts
  <2>2. Cardinality(Queued(x)') = Cardinality(Queued(x))
    OBVIOUS
  <2> QED
    BY <1>0, <2>1, <2>2 DEF QueueOK
<1> QED  BY <1>1, <1>2

\* Every step keeps the queues and their counters right.
LEMMA QueueStep ==
    ASSUME TypeOK, HandlerInv, QueueInv, [Next]_vars
    PROVE  QueueInv'
<1>t. req \in [Requests -> Handlers] /\ wait \in [Resources -> Nat]
  BY DEF TypeOK, Handlers
<1>o. ASSUME NEW r \in Requests
      PROVE  /\ HandlerOK(req[r]) /\ req[r].of \in Resources
             /\ req[r].queued <=> req[r].pc \in {"wait", "won", "lost"}
  BY <1>t DEF HandlerInv, HandlerOK, Handlers
<1>q. \A x \in Resources : QueueOK(x)
  BY DEF QueueInv, QueueOK
<1>s. SUFFICES ASSUME NEW x \in Resources
               PROVE  QueueOK(x)'
  BY DEF QueueInv, QueueOK
\* Nobody joins or leaves.
<1>1. ASSUME NEW r \in Requests, Moves(r), wait' = wait, drift' = drift,
             \/ ~req[r].queued /\ ~req'[r].queued
             \/ req[r].queued /\ req'[r].queued /\ req'[r].of = req[r].of
      PROVE  QueueOK(x)'
  BY <1>q, <1>1, SameQueues, CalmQueue
<1>2. ASSUME NEW r \in Requests, NEW p \in Processes, Arrive(r, p)
      PROVE  QueueOK(x)'
  <2>1. Moves(r) /\ req'[r] = Fresh("try", p) /\ req[r].pc = "new"
    BY <1>t, <1>2, ArriveMoves
  <2>2. ~req[r].queued /\ ~req'[r].queued
    BY <1>o, <2>1 DEF Fresh
  <2>3. wait' = wait /\ drift' = drift
    BY <1>2 DEF Arrive
  <2> QED  BY <1>1, <2>1, <2>2, <2>3
<1>3. ASSUME NEW r \in Requests, AcquireUnlimited(r)
      PROVE  QueueOK(x)'
  <2>1. Goes(r, Beyond(req[r].of), "account", req[r].queued) /\ req[r].pc = "try"
    BY <1>t, <1>3, AcquireUnlimitedMoves
  <2>2. Moves(r) /\ ~req[r].queued /\ ~req'[r].queued
    BY <1>o, <2>1 DEF Goes
  <2>3. wait' = wait /\ drift' = drift
    BY <1>3 DEF AcquireUnlimited
  <2> QED  BY <1>1, <2>2, <2>3
<1>4. ASSUME NEW r \in Requests, AcquireSlot(r)
      PROVE  QueueOK(x)'
  <2>1. Gets(r) \/ Misses(r)
    BY <1>t, <1>4, AcquireSlotMoves
  <2>2. /\ Moves(r)
        /\ \/ ~req[r].queued /\ ~req'[r].queued
           \/ req[r].queued /\ req'[r].queued /\ req'[r].of = req[r].of
    BY <2>1 DEF Gets, Misses, Goes
  <2>3. wait' = wait /\ drift' = drift
    BY <1>4 DEF AcquireSlot
  <2> QED  BY <1>1, <2>2, <2>3
<1>5. ASSUME NEW r \in Requests, AcquireFails(r)
      PROVE  QueueOK(x)'
  <2>1. \/ req[r].queued /\ Goes(r, "lost", req[r].of, TRUE)
        \/ ~req[r].queued /\ Goes(r, "enqueue", req[r].of, FALSE)
        \/ ~req[r].queued /\ Ends(r)
    BY <1>t, <1>5, AcquireFailsMoves
  <2>2. Ends(r) => ~req'[r].queued
    BY <1>t, EndsIsOK
  <2>3. wait' = wait /\ drift' = drift
    BY <1>5 DEF AcquireFails
  <2> QED  BY <1>1, <2>1, <2>2, <2>3 DEF Goes, Ends
\* The queue a handler joins, and the other one.
<1>6. ASSUME NEW r \in Requests, Goes(r, "wait", req[r].of, TRUE), ~req[r].queued
      PROVE  /\ x = req[r].of => r \notin Queued(x) /\ Queued(x)' = Queued(x) \cup {r}
             /\ x # req[r].of => Queued(x)' = Queued(x)
  <2>1. Moves(r) /\ req'[r].queued /\ req'[r].of = req[r].of
    BY <1>6 DEF Goes
  <2>2. r \notin Queued(x)
    BY <1>6 DEF Queued
  <2> QED
    BY <2>1, <2>2, QueuedAfter
<1>7. ASSUME NEW r \in Requests, Goes(r, "wait", req[r].of, TRUE), ~req[r].queued,
             MayQueue(req[r].of), wait' = [wait EXCEPT ![req[r].of] = @ + 1], drift' = drift
      PROVE  QueueOK(x)'
  <2>1. CASE x = req[r].of
    <3>1. wait[x] \in Nat /\ wait[x] < QueueLimit /\ wait'[x] = wait[x] + 1
      BY <1>t, <1>7, <2>1 DEF MayQueue
    <3>2. r \notin Queued(x) /\ Queued(x)' = Queued(x) \cup {r}
      BY <1>6, <1>7, <2>1
    <3> QED  BY <1>q, <1>7, <3>1, <3>2, Joins
  <2>2. CASE x # req[r].of
    <3>1. wait'[x] = wait[x]
      BY <1>t, <1>7, <2>2
    <3>2. Queued(x)' = Queued(x)
      BY <1>6, <1>7, <2>2
    <3>3. Cardinality(Queued(x)') = Cardinality(Queued(x))
      BY <3>2
    <3> QED  BY <1>q, <1>7, <3>1, <3>3 DEF QueueOK
  <2> QED  BY <2>1, <2>2
<1>8. ASSUME NEW r \in Requests, IncrementWaitCount(r)
      PROVE  QueueOK(x)'
  <2>1. ~req[r].queued
    BY <1>o, <1>8 DEF IncrementWaitCount
  <2>2. \/ /\ MayQueue(req[r].of) /\ wait' = [wait EXCEPT ![req[r].of] = @ + 1]
           /\ Goes(r, "wait", req[r].of, TRUE)
        \/ wait' = wait /\ Drops(r)
    BY <1>t, <1>8, <2>1, IncrementMoves
  <2>3. drift' = drift
    BY <1>8 DEF IncrementWaitCount
  <2>4. CASE wait' = wait /\ Drops(r)
    <3>1. limit' = limit
      BY <1>8 DEF IncrementWaitCount
    <3>2. Moves(r) /\ ~req'[r].queued
      BY <1>o, <1>t, <2>4, <3>1, DropsIsOK
    <3> QED  BY <1>1, <2>1, <2>3, <2>4, <3>2
  <2> QED  BY <1>7, <2>1, <2>2, <2>3, <2>4
<1>9. ASSUME NEW r \in Requests, IncrementFails(r)
      PROVE  QueueOK(x)'
  <2>1. ~req[r].queued /\ req[r].of \in Resources
    BY <1>o, <1>9 DEF IncrementFails
  <2>2. Goes(r, "wait", req[r].of, TRUE)
    BY <1>t, <1>9, QueuesMoves DEF IncrementFails
  <2>3. CASE wait' = wait /\ Drifts({req[r].of}, {})
    <3>1. CASE x = req[r].of
      <4>1. r \notin Queued(x) /\ Queued(x)' = Queued(x) \cup {r} /\ wait[x] \in Nat
        BY <1>t, <1>6, <2>1, <2>2, <3>1
      <4> QED  BY <1>q, <2>3, <3>1, <4>1, JoinsUncounted
    <3>2. CASE x # req[r].of
      BY <1>q, <1>6, <2>1, <2>2, <2>3, <3>2, OtherQueue
    <3> QED  BY <3>1, <3>2
  <2>4. CASE MayQueue(req[r].of) /\ wait' = [wait EXCEPT ![req[r].of] = @ + 1] /\ drift' = drift
    BY <1>7, <2>1, <2>2, <2>4
  <2> QED  BY <1>9, <2>3, <2>4 DEF IncrementFails
<1>10. ASSUME NEW r \in Requests, GiveUp(r)
       PROVE  QueueOK(x)'
  <2>1. Goes(r, "lost", req[r].of, req[r].queued) /\ req[r].pc = "wait"
    BY <1>t, <1>10, GoesTo DEF GiveUp, PCs
  <2>2. wait' = wait /\ drift' = drift
    BY <1>10 DEF GiveUp
  <2> QED  BY <1>1, <2>1, <2>2 DEF Goes
<1>11. ASSUME NEW r \in Requests, DecrementWaitCount(r) \/ DecrementFails(r)
       PROVE  QueueOK(x)'
  <2>1. /\ req[r].pc \in {"won", "lost"} /\ req' = [req EXCEPT ![r] = Dequeued(r)]
        /\ limit' = limit
    BY <1>11 DEF DecrementWaitCount, DecrementFails
  <2>2. \/ Goes(r, Beyond(req[r].of), "account", FALSE)
        \/ Drops(r)
    BY <1>t, <2>1, DequeuedMoves
  <2>3. Moves(r) /\ ~req'[r].queued
    <3>1. CASE Drops(r)
      BY <1>o, <1>t, <2>1, <3>1, DropsIsOK
    <3> QED  BY <2>2, <3>1 DEF Goes
  <2>4. Queued(x)' = Queued(x) \ {r}
    BY <2>3, QueuedAfter
  <2>5. req[r].queued /\ req[r].of \in Resources
    BY <1>o, <2>1
  <2>6. \/ wait' = DecrementWait(req[r].of) /\ Drifts({}, {})
        \/ wait' = wait /\ Drifts({}, {req[r].of})
    BY <1>11 DEF DecrementWaitCount, DecrementFails
  <2>7. CASE x = req[r].of
    <3>1. r \in Queued(x) /\ wait[x] \in Nat
      BY <1>t, <2>5, <2>7 DEF Queued
    <3>2. \/ wait'[x] = (IF wait[x] > 0 THEN wait[x] - 1 ELSE 0) /\ Drifts({}, {})
          \/ wait'[x] = wait[x] /\ Drifts({}, {x})
      BY <1>t, <2>6, <2>7 DEF DecrementWait
    <3> QED  BY <1>q, <2>4, <3>1, <3>2, Leaves
  <2>8. CASE x # req[r].of
    <3>1. Queued(x)' = Queued(x)
      BY <2>4, <2>8 DEF Queued
    <3>2. wait'[x] = wait[x]
      BY <1>t, <2>6, <2>8 DEF DecrementWait
    <3> QED  BY <1>q, <2>6, <3>1, <3>2, OtherQueue
  <2> QED  BY <2>7, <2>8
<1>12. ASSUME NEW r \in Requests, ReleaseSlot(r) \/ ReleaseFails(r)
       PROVE  QueueOK(x)'
  <2>1. req[r].pc \in {"run", "freeUser"} /\ req' = [req EXCEPT ![r] = Released(r)]
    BY <1>12 DEF ReleaseSlot, ReleaseFails
  <2>2. Goes(r, "freeUser", req[r].of, req[r].queued) \/ Ends(r)
    BY <1>t, <2>1, ReleasedMoves
  <2>3. ~req[r].queued
    BY <1>o, <2>1
  <2>4. Moves(r) /\ ~req'[r].queued
    <3>1. CASE Ends(r)
      BY <1>t, <3>1, EndsIsOK DEF Ends
    <3> QED  BY <2>2, <2>3, <3>1 DEF Goes
  <2>5. wait' = wait /\ drift' = drift
    BY <1>12 DEF ReleaseSlot, ReleaseFails
  <2> QED  BY <1>1, <2>3, <2>4, <2>5
<1>13. ASSUME NEW r \in Requests, ClientGone(r)
       PROVE  QueueOK(x)'
  <2>1. Moves(r) /\ req'[r].queued = req[r].queued /\ req'[r].of = req[r].of
    BY <1>t, <1>13, ClientGoneMoves
  <2>2. wait' = wait /\ drift' = drift
    BY <1>13 DEF ClientGone
  <2> QED  BY <1>1, <2>1, <2>2
<1>14. ASSUME NEW r \in Requests, NEW y \in Resources, ReleaseOnDone(r, y)
       PROVE  QueueOK(x)'
  <2>1. Goes(r, req[r].pc, req[r].of, req[r].queued)
    BY <1>t, <1>14, OnDoneMoves
  <2>2. wait' = wait /\ drift' = drift
    BY <1>14 DEF ReleaseOnDone
  <2> QED  BY <1>1, <2>1, <2>2 DEF Goes
\* A crash takes requests out of the queue, and says so.
<1>15. ASSUME NEW p \in Processes, Crash(p)
       PROVE  QueueOK(x)'
  <2> DEFINE Cut == {r \in Requests : req[r].proc = p /\ req[r].pc \notin {"new", "done"}}
             high == {y \in Resources : Queued(y) \cap Cut # {}}
  <2>1. wait' = wait /\ Drifts({}, high)
    BY <1>15 DEF Crash
  <2>2. \A r \in Requests : req'[r] = IF r \in Cut THEN Fresh("done", p) ELSE req[r]
    BY <1>15 DEF Crash
  <2>3. ~Fresh("done", p).queued
    BY DEF Fresh
  <2> HIDE DEF Cut
  <2>4. Queued(x)' = Queued(x) \ Cut
    BY <2>2, <2>3 DEF Queued
  <2>5. CASE Queued(x) \cap Cut = {}
    <3>1. Queued(x)' = Queued(x)
      BY <2>4, <2>5
    <3> HIDE DEF high
    <3> QED  BY <1>q, <2>1, <3>1, OtherQueue
  <2>6. CASE Queued(x) \cap Cut # {}
    <3>1. x \in high
      BY <2>6
    <3> HIDE DEF high
    <3>2. QueueLimit \in Nat /\ wait[x] \in Nat
      BY <1>t, SlotsAssumption
    <3>3. CASE wait'[x] = 0 /\ Queued(x)' = {}
      BY <3>2, <3>3, FS_EmptySet DEF QueueOK
    <3>4. CASE ~(wait'[x] = 0 /\ Queued(x)' = {})
      <4>1. "high" \in drift'[x] /\ drift[x] \subseteq drift'[x]
        BY <2>1, <3>1, <3>4 DEF Drifts
      <4>2. Queued(x) \ Cut \in SUBSET Queued(x)
        OBVIOUS
      <4>3. /\ Cardinality(Queued(x)') <= Cardinality(Queued(x))
            /\ Cardinality(Queued(x)') \in Nat /\ Cardinality(Queued(x)) \in Nat
        BY <2>4, <4>2, QueueIsFinite, FS_Subset, FS_CardinalityType
      <4>4. QueueOK(x)
        BY <1>q
      <4> QED  BY <2>1, <3>2, <4>1, <4>3, <4>4 DEF QueueOK
    <3> QED  BY <3>3, <3>4
  <2> QED  BY <2>5, <2>6
<1>16. ASSUME NEW p \in Processes, NEW y \in Resources, StartupSweep(p, y)
       PROVE  QueueOK(x)'
  <2>1. \A r \in Requests : req'[r].of = req[r].of /\ req'[r].queued = req[r].queued
    BY <1>t, <1>16, SweepMoves
  <2>2. Queued(x)' = Queued(x)
    BY <2>1 DEF Queued
  <2>3. wait' = wait /\ drift' = drift
    BY <1>16 DEF StartupSweep
  <2> QED  BY <1>q, <2>2, <2>3, CalmQueue
\* A deleted counter.
<1>17. ASSUME NEW y \in Resources, wait' = [wait EXCEPT ![y] = 0], req' = req, Drifts({y}, {})
       PROVE  QueueOK(x)'
  <2>1. Queued(x)' = Queued(x)
    BY <1>17 DEF Queued
  <2>2. CASE x = y
    <3>1. wait'[x] = 0
      BY <1>t, <1>17, <2>2
    <3> QED  BY <1>q, <1>17, <2>1, <2>2, <3>1, Deleted
  <2>3. CASE x # y
    <3>1. wait'[x] = wait[x]
      BY <1>t, <1>17, <2>3
    <3> QED  BY <1>q, <1>17, <2>1, <3>1, OtherQueue
  <2> QED  BY <2>2, <2>3
<1>18. CASE \/ \E p \in Processes, y \in Resources : StartupDrop(p, y)
            \/ \E y \in Resources : WaitKeyExpires(y)
  BY <1>17, <1>18 DEF StartupDrop, WaitKeyExpires
<1>19. CASE \/ UNCHANGED vars \/ Tick
            \/ \E p \in Processes : StartupFails(p)
            \/ \E p \in Processes, y \in Resources : CleanupExpired(p, y)
            \/ \E y \in Resources : KeyExpires(y)
  <2>1. req' = req /\ wait' = wait /\ drift' = drift
    BY <1>19 DEF vars, Tick, StartupFails, CleanupExpired, KeyExpires
  <2>2. Queued(x)' = Queued(x)
    BY <2>1 DEF Queued
  <2> QED  BY <1>q, <2>1, <2>2, CalmQueue
<1> QED
  BY <1>2, <1>3, <1>4, <1>5, <1>8, <1>9, <1>10, <1>11, <1>12, <1>13, <1>14,
     <1>15, <1>16, <1>18, <1>19
  DEF Next, Handle

-----------------------------------------------------------------------------
(* The invariant                                                           *)

\* The counters, the processes and the books keep their types, the limits are fixed.
RestOK ==
    /\ limit' = limit
    /\ wait' \in [Resources -> Nat]
    /\ proc' \in [Processes -> ProcessStates]
    /\ drift' \in [Resources -> SUBSET {"low", "high"}]
    /\ faults' \in 0..MaxFaults

\* Every step does so.
LEMMA RestStep ==
    ASSUME TypeOK, [Next]_vars
    PROVE  RestOK
<1>t. /\ wait \in [Resources -> Nat] /\ proc \in [Processes -> ProcessStates]
      /\ drift \in [Resources -> SUBSET {"low", "high"}] /\ faults \in 0..MaxFaults
      /\ MaxFaults \in Nat
  BY SlotsAssumption DEF TypeOK
<1>d. ASSUME NEW low, NEW high, Drifts(low, high)
      PROVE  drift' \in [Resources -> SUBSET {"low", "high"}]
  BY <1>t, <1>d DEF Drifts
<1>f. ASSUME Fault \/ \E r \in Requests : MayFail(r)
      PROVE  faults' \in 0..MaxFaults
  BY <1>t, <1>f DEF Fault, MayFail
<1>w. ASSUME NEW x \in Resources,
             \/ wait' = [wait EXCEPT ![x] = 0]
             \/ wait' = [wait EXCEPT ![x] = @ + 1] \/ wait' = DecrementWait(x)
      PROVE  wait' \in [Resources -> Nat]
  BY <1>t, <1>w DEF DecrementWait
<1>p. ASSUME NEW p \in Processes, NEW where \in ProcessStates, proc' = [proc EXCEPT ![p] = where]
      PROVE  proc' \in [Processes -> ProcessStates]
  BY <1>t, <1>p
<1>s. {"sweepUser", "dropAccount", "dropUser", "up", "dead"} \subseteq ProcessStates
  BY DEF ProcessStates
<1>o. \A r \in Requests : req[r].of \in Resources
  BY DEF TypeOK
<1>1. CASE UNCHANGED vars
  BY <1>t, <1>1 DEF vars, RestOK
<1>2. ASSUME NEW r \in Requests, Handle(r) \/ ClientGone(r)
      PROVE  RestOK
  <2>1. CASE IncrementWaitCount(r)
    BY <1>t, <1>w, <1>o, <2>1 DEF IncrementWaitCount, RestOK
  <2>2. CASE IncrementFails(r)
    <3>1. /\ wait' = wait \/ wait' = [wait EXCEPT ![req[r].of] = @ + 1]
          /\ drift' = drift \/ Drifts({req[r].of}, {})
          /\ MayFail(r) /\ limit' = limit /\ proc' = proc
      BY <2>2 DEF IncrementFails
    <3> QED  BY <1>t, <1>w, <1>d, <1>f, <1>o, <3>1 DEF RestOK
  <2>3. CASE DecrementWaitCount(r)
    BY <1>t, <1>w, <1>d, <1>o, <2>3 DEF DecrementWaitCount, RestOK
  <2>4. CASE DecrementFails(r)
    BY <1>t, <1>d, <1>f, <2>4 DEF DecrementFails, RestOK
  <2>5. CASE AcquireFails(r)
    <3>1. limit' = limit /\ wait' = wait /\ proc' = proc /\ drift' = drift /\ (MayFail(r) \/ Fault)
      BY <2>5 DEF AcquireFails
    <3> QED  BY <1>t, <1>f, <3>1 DEF RestOK
  <2>6. CASE ReleaseFails(r)
    BY <1>t, <1>f, <2>6 DEF ReleaseFails, RestOK
  <2>7. CASE AcquireUnlimited(r) \/ AcquireSlot(r) \/ GiveUp(r) \/ ReleaseSlot(r) \/ ClientGone(r)
    BY <1>t, <2>7 DEF AcquireUnlimited, AcquireSlot, GiveUp, ReleaseSlot, ClientGone, RestOK
  <2> QED  BY <1>2, <2>1, <2>2, <2>3, <2>4, <2>5, <2>6, <2>7 DEF Handle
<1>3. CASE \E r \in Requests, p \in Processes : Arrive(r, p)
  BY <1>t, <1>3 DEF Arrive, RestOK
<1>4. CASE \E r \in Requests, x \in Resources : ReleaseOnDone(r, x)
  BY <1>t, <1>4 DEF ReleaseOnDone, RestOK
<1>5. ASSUME NEW p \in Processes, Crash(p) \/ StartupFails(p)
      PROVE  RestOK
  <2>1. CASE Crash(p)
    BY <1>t, <1>d, <1>p, <1>s, <2>1 DEF Crash, RestOK
  <2>2. CASE StartupFails(p)
    BY <1>t, <1>f, <1>p, <1>s, <2>2 DEF StartupFails, RestOK
  <2> QED  BY <1>5, <2>1, <2>2
<1>6. ASSUME NEW p \in Processes, NEW x \in Resources,
             StartupSweep(p, x) \/ StartupDrop(p, x) \/ CleanupExpired(p, x)
      PROVE  RestOK
  <2>1. CASE StartupSweep(p, x)
    BY <1>t, <1>p, <1>s, <2>1 DEF StartupSweep, RestOK
  <2>2. CASE StartupDrop(p, x)
    BY <1>t, <1>d, <1>p, <1>s, <1>w, <2>2 DEF StartupDrop, RestOK
  <2>3. CASE CleanupExpired(p, x)
    BY <1>t, <2>3 DEF CleanupExpired, RestOK
  <2> QED  BY <1>6, <2>1, <2>2, <2>3
<1>7. ASSUME NEW x \in Resources, KeyExpires(x) \/ WaitKeyExpires(x)
      PROVE  RestOK
  BY <1>t, <1>d, <1>w, <1>7 DEF KeyExpires, WaitKeyExpires, RestOK
<1>8. CASE Tick
  BY <1>t, <1>8 DEF Tick, RestOK
<1> QED  BY <1>1, <1>2, <1>3, <1>4, <1>5, <1>6, <1>7, <1>8 DEF Next

\* The invariant holds at first.
LEMMA InitInv == Init => IInv
<1> SUFFICES ASSUME Init PROVE IInv
  OBVIOUS
<1>1. (CHOOSE p \in Processes : TRUE) \in Processes
  BY SlotsAssumption
<1>2. Fresh("new", CHOOSE p \in Processes : TRUE) \in Handlers
  <2>1. "new" \in PCs
    BY DEF PCs
  <2> QED  BY <1>1, <2>1, FreshType
<1>3. /\ limit \in Limits /\ slots = {} /\ faults = 0
      /\ req = [r \in Requests |-> Fresh("new", CHOOSE p \in Processes : TRUE)]
      /\ age = [i \in Ids |-> 0] /\ wait = [x \in Resources |-> 0]
      /\ proc = [p \in Processes |-> IF p \in Running THEN "up" ELSE "off"]
      /\ drift = [x \in Resources |-> {}]
  BY DEF Init
<1>4. TypeOK
  <2>1. req \in [Requests -> Handlers]
    BY <1>2, <1>3
  <2>2. 0 \in 0..(TTL + MaxLag) /\ 0 \in 0..MaxFaults
    BY SlotsAssumption
  <2>3. age \in [Ids -> 0..(TTL + MaxLag)] /\ faults \in 0..MaxFaults
    BY <1>3, <2>2
  <2>4. /\ slots \subseteq Ids /\ wait \in [Resources -> Nat]
        /\ proc \in [Processes -> ProcessStates]
        /\ drift \in [Resources -> SUBSET {"low", "high"}]
    BY <1>3 DEF ProcessStates
  <2> QED
    BY <1>3, <2>1, <2>3, <2>4 DEF TypeOK, Handlers
<1>5. ASSUME NEW r \in Requests
      PROVE  /\ req[r].pc = "new" /\ req[r].of = "user" /\ req[r].queued = FALSE
             /\ req[r].slot["user"] = "none" /\ req[r].slot["account"] = "none"
  BY <1>3, <1>5 DEF Fresh, Resources
<1>6. HandlerInv
  BY <1>5 DEF HandlerInv, HandlerOK
<1>7. HolderIsCounted
  BY <1>5 DEF HolderIsCounted, Holds, Resources
<1>8. SetsInv
  <2>1. /\ IsFiniteSet(slots)
        /\ \A x \in Resources : slots \cap IdsOf(x) = {} /\ limit[x] \in Nat
    BY <1>3, FS_EmptySet, SlotsAssumption
  <2> QED
    BY <2>1, FS_EmptySet DEF SetsInv
<1>9. QueueInv
  <2>1. \A x \in Resources : Queued(x) = {} /\ wait[x] = 0
    BY <1>3, <1>5 DEF Queued
  <2>2. QueueLimit \in Nat
    BY SlotsAssumption
  <2> QED
    BY <2>1, <2>2, FS_EmptySet DEF QueueInv
<1> QED
  BY <1>4, <1>6, <1>7, <1>8, <1>9 DEF IInv

\* The invariant is inductive.
LEMMA StepInv == IInv /\ [Next]_vars => IInv'
<1> SUFFICES ASSUME IInv, [Next]_vars PROVE IInv'
  OBVIOUS
<1>0. TypeOK /\ HandlerInv /\ HolderIsCounted /\ SetsInv /\ QueueInv
  BY DEF IInv
<1>1. RestOK
  BY <1>0, RestStep
<1>2. req' \in [Requests -> Handlers] /\ HandlerInv'
  BY <1>0, HandlerStep
<1>3. slots' \subseteq Ids /\ age' \in [Ids -> 0..(TTL + MaxLag)]
  BY <1>0, SlotsType
<1>4. TypeOK'
  <2>1. limit' \in Limits
    BY <1>0, <1>1 DEF TypeOK, RestOK
  <2> QED
    BY <1>1, <1>2, <1>3, <2>1 DEF TypeOK, RestOK, Handlers
<1>5. HolderIsCounted'
  BY <1>0, <1>2, <1>3, CountedStep
<1>6. SetsInv'
  BY <1>0, <1>1, SetsStep DEF RestOK
<1>7. QueueInv'
  BY <1>0, QueueStep
<1> QED
  BY <1>2, <1>4, <1>5, <1>6, <1>7 DEF IInv

\* Every reachable state satisfies the inductive invariant.
LEMMA Invariance == Spec => []IInv
BY InitInv, StepInv, PTL DEF Spec

\* The requests at work hold different members of the set, which is within the limit.
LEMMA WorkersAreMembers ==
    ASSUME IInv, NEW x \in Resources, limit[x] > 0
    PROVE  Cardinality(Working(x)) <= limit[x]
<1>t. /\ req \in [Requests -> Handlers] /\ limit \in [Resources -> Nat]
      /\ HandlerInv /\ HolderIsCounted /\ SetsInv
  BY SlotsAssumption DEF IInv, TypeOK, Handlers
<1> DEFINE members == slots \cap IdsOf(x)
           f == [r \in Working(x) |-> HeldId(r, x)]
<1>1. ASSUME NEW r \in Working(x)
      PROVE  HeldId(r, x) \in members /\ HeldId(r, x).req = r
  <2>1. /\ r \in Requests /\ ~req[r].gone /\ x \notin req[r].swept /\ age[HeldId(r, x)] < TTL
        /\ x = "user" => req[r].of = "account"
        /\ x # "user" => req[r].pc = "run"
    BY DEF Working
  <2>2. HandlerOK(req[r]) /\ x \in {"user", "account"}
    BY <1>t, <2>1 DEF HandlerInv, Resources
  <2>3. Holds(r, x)
    BY <2>1, <2>2 DEF HandlerOK, Holds
  <2>4. HeldId(r, x) \in slots
    BY <1>t, <2>1, <2>3 DEF HolderIsCounted
  <2> QED
    BY <1>t, <2>1, <2>3, <2>4, HeldIdType
<1>2. f \in [Working(x) -> members]
  BY <1>1
<1>3. \A r, s \in Working(x) : f[r] = f[s] => r = s
  BY <1>1
<1> HIDE DEF f
<1>4. f \in Injection(Working(x), members)
  BY <1>2, <1>3 DEF Injection, IsInjective
<1>5. IsFiniteSet(members) /\ Cardinality(members) <= limit[x] /\ Cardinality(members) \in Nat
  BY <1>t, FS_Subset, FS_CardinalityType DEF SetsInv
<1> HIDE DEF members
<1>6. /\ IsFiniteSet(Working(x)) /\ Cardinality(Working(x)) <= Cardinality(members)
  BY <1>4, <1>5, FS_Injection
<1>7. Cardinality(Working(x)) \in Nat /\ limit[x] \in Nat
  BY <1>t, <1>6, FS_CardinalityType
<1> QED
  BY <1>5, <1>6, <1>7

-----------------------------------------------------------------------------
(* The theorems                                                            *)

\* Every reachable state has its types; no counter goes below zero, whatever is decremented
\* twice (decrementWaitScript).
THEOREM TypeCorrect == Spec => []TypeOK
<1>1. IInv => TypeOK
  BY DEF IInv
<1> QED  BY <1>1, Invariance, PTL

\* A request that holds a slot is counted in the sorted set until its TTL has run or a starting
\* process swept it, for any lag between reading the time and running a script.
THEOREM HoldersCounted == Spec => []HolderIsCounted
<1>1. IInv => HolderIsCounted
  BY DEF IInv
<1> QED  BY <1>1, Invariance, PTL

\* No more requests are at work than the limits of the user and of the account allow, with
\* both of them limited too, whatever fails and whichever processes die.
THEOREM LimitsHold == Spec => []WithinLimit
<1>1. IInv => WithinLimit
  BY WorkersAreMembers DEF WithinLimit
<1> QED  BY <1>1, Invariance, PTL

\* No more requests queue than the queue takes, unless an increment failed or the counter was
\* dropped.
THEOREM QueueBounded == Spec => []QueueIsBounded
<1>1. IInv => QueueIsBounded
  <2> SUFFICES ASSUME IInv, NEW x \in Resources, "low" \notin drift[x]
               PROVE  Cardinality(Queued(x)) <= QueueLimit
    BY DEF QueueIsBounded
  <2>1. Cardinality(Queued(x)) <= wait[x] /\ wait[x] <= QueueLimit
    BY DEF IInv, QueueInv
  <2>2. Cardinality(Queued(x)) \in Nat /\ wait[x] \in Nat /\ QueueLimit \in Nat
    BY QueueIsFinite, SlotsAssumption DEF IInv, TypeOK
  <2> QED  BY <2>1, <2>2
<1> QED  BY <1>1, Invariance, PTL

\* The queue counter counts nobody who has left, unless a decrement failed or a process died
\* with a request in the queue.
THEOREM NobodyInVain == Spec => []NobodyCountedInVain
<1>1. IInv => NobodyCountedInVain
  BY DEF IInv, QueueInv, NobodyCountedInVain
<1> QED  BY <1>1, Invariance, PTL
=============================================================================
