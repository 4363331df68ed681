------------------------- MODULE TokenRefreshProofs -------------------------
(***************************************************************************)
(* The safety properties of TokenRefresh for every number of workers and   *)
(* processes, of administrators' calls, of credentials and of faults, and  *)
(* for accounts of both kinds.                                             *)
(***************************************************************************)
EXTENDS TokenRefresh, FiniteSetTheorems, TLAPS

\* The worker has used up a refresh token and holds the answer.
Rotating(w) == work[w].pc \in {"reply", "persist"}

\* The administrator's call has credentials to store.
Giving(a) == setup.call[a] \in {"apply", "refresh", "plain"} /\ admin[a].pc \in {"read", "write"}

\* The provider has refused the worker's refresh token.
Refused(w) ==
    \/ work[w].pc \in {"recover", "punish"}
    \/ work[w].pc = "unlock" /\ work[w].then = "punish"

Clear == past.kinds \cap {"degraded", "outlived"} = {}

\* Nobody knows a credential that was not issued.
IssuedInv ==
    /\ provider.live \subseteq 1..provider.issued
    /\ account.cred <= provider.issued
    /\ \A w \in Workers : /\ work[w].snap.cred <= provider.issued
                          /\ work[w].checked <= provider.issued
                          /\ work[w].pc \in {"call", "reply", "persist"} => work[w].snap.cred # 0
    /\ \A a \in Admins : /\ admin[a].seen.cred <= provider.issued
                         /\ admin[a].row.cred <= provider.issued
                         /\ IsManual(a) /\ admin[a].pc \in {"call", "read", "write"}
                                => admin[a].seen.cred # 0
                         /\ admin[a].pc = "write" => admin[a].row.cred # 0
                         /\ admin[a].pc = "call" => IsManual(a)
                         /\ admin[a].pc # "ready" => setup.call[a] \in Calls

\* The provider takes the credential n, and nobody has seen it in the row.
Unseen(n) ==
    /\ n \in provider.live /\ n # account.cred
    /\ \A v \in Workers : work[v].snap.cred # n /\ work[v].checked # n
    /\ \A b \in Admins : admin[b].seen.cred # n /\ admin[b].row.cred # n

\* The answer that a worker holds is the successor of the credential it used, and only the
\* worker has it; so for an administrator's call, which may also hold credentials of a new
\* authorization.
HoldsFresh(w) ==
    /\ Unseen(work[w].new)
    /\ provider.root[work[w].new] = provider.root[work[w].snap.cred]
    /\ \A v \in Workers : Rotating(v) /\ work[v].new = work[w].new => v = w
    /\ \A b \in Admins : Giving(b) => admin[b].new # work[w].new
GivesFresh(a) ==
    /\ Unseen(admin[a].new)
    /\ provider.root[admin[a].new] = IF setup.call[a] = "apply" THEN admin[a].new
                                     ELSE provider.root[admin[a].seen.cred]
    /\ \A b \in Admins : Giving(b) /\ admin[b].new = admin[a].new => b = a
FreshInv ==
    /\ \A w \in Workers : Rotating(w) => HoldsFresh(w)
    /\ \A a \in Admins : Giving(a) => GivesFresh(a)

\* The stored credentials have a version of their own.
Stamped == account.cred \notin past.unstamped /\ "reverted" \notin past.kinds

\* The last stamp is the one in the row, and one stamp stands for one credential, unless an
\* administrator's call has written the row.
VersionInv ==
    /\ account.version <= past.stamps
    /\ \A w \in Workers : work[w].snap.version <= past.stamps
    /\ \A a \in Admins : admin[a].seen.version <= past.stamps /\ admin[a].row.version <= past.stamps
    /\ Stamped => /\ account.version = past.stamps /\ past.stamps > 0
                  /\ \A w \in Workers :
                         work[w].snap.version = past.stamps => work[w].snap.cred = account.cred

\* A worker that is about to cache a token has looked at the version of the row.
CheckedInv ==
    \A w \in Workers : work[w].pc = "set" =>
        \/ "unchecked" \in past.kinds
        \/ /\ work[w].checked # 0
           /\ work[w].checked = account.cred /\ Stamped => work[w].snap.cred = account.cred

\* Who drops the cached token has stored credentials.
DropInv == \A w \in Workers : work[w].pc = "drop" => work[w].then # "punish"

\* A refused credential stays refused, and as long as locked refreshes do not overlap no
\* worker holds its successor.
RefusedInv ==
    /\ \A w \in Workers : Refused(w) =>
           /\ work[w].snap.cred \notin provider.live
           /\ Clear => \A v \in Workers : Rotating(v) => work[v].snap.cred # work[w].snap.cred
    /\ \A a \in Admins : admin[a].pc = "disable" =>
           admin[a].seen.cred \notin provider.live /\ admin[a].seen.cred <= provider.issued

\* An administrator's call will find the account disabled and enable it.
AboutToClear == \E a \in Admins : admin[a].pc \in {"drop", "recover", "clear"}

\* No worker is about to give credentials the provider takes to a disabled Grok account.
DisabledStays ==
    /\ account.cred \notin provider.live \/ AboutToClear
    /\ \A v \in Workers :
           /\ Rotating(v) => work[v].snap.cred # account.cred
           /\ work[v].pc = "call" /\ work[v].snap.cred = account.cred
                  => account.cred \notin provider.live
Excused == past.kinds \cap {"uncleared", "reverted", "blind"} # {}
ErrorInv ==
    setup.grok /\ account.status = "error" /\ Clear /\ ~Excused => DisabledStays

\* Unless a holder outlived its lease, who is in a refresh holds the lock.
LockInv ==
    /\ \A w \in Workers : work[w].late => "outlived" \in past.kinds
    /\ Clear => \A w \in Workers : InRefresh(w) \/ work[w].owns => lock = w /\ work[w].owns

\* The worker that changed the credentials last has yet to replace or drop the cached token.
LastWriter(w) ==
    /\ work[w].new = account.cred /\ work[w].snap.cred = account.cred
    /\ work[w].snap.version = account.version
    /\ \/ work[w].pc \in {"drop", "unlock"} /\ work[w].then \in {"check", "after"}
       \/ work[w].pc \in {"after", "check", "set"}
CacheInv ==
    \/ cache \in {0, account.cred}
    \/ \E w \in Workers : LastWriter(w)
    \/ past.kinds \cap {"uncached", "unchecked", "raced"} # {}
    \/ ~Stamped

IInv ==
    /\ TypeOK /\ IssuedInv /\ FreshInv /\ VersionInv /\ CheckedInv /\ DropInv /\ RefusedInv
    /\ ErrorInv /\ LockInv /\ CacheInv /\ StoredTokenLives /\ ReauthorizationSticks

-----------------------------------------------------------------------------
(* What the steps amount to                                                *)

WorkerStates ==
    [pc : PCs, then : Thens, owns : BOOLEAN, late : BOOLEAN,
     checked : 0..MaxCreds, new : 0..MaxCreds, snap : Snaps]
WorkOK == work \in [Workers -> WorkerStates]
AdminStates == [pc : AdminPCs, seen : Rows, row : Rows, new : 0..MaxCreds]
AdminOK == admin \in [Admins -> AdminStates]

\* A worker that changed the credentials and still has the cache to look after.
Finishing(v) ==
    \/ work[v].pc \in {"drop", "unlock"} /\ work[v].then \in {"check", "after"}
    \/ work[v].pc \in {"after", "check", "set"}

\* A worker that neither uses a refresh token nor stores a credential may forget what it
\* knows, read the row, check its version, or give up; it never gets hold of an answer,
\* and an answer that it drops is on record as lost.
CalmWorker(v) ==
    /\ work'[v].snap \in {work[v].snap, Read, At("idle").snap}
    /\ work'[v].checked \in {0, work[v].checked, account.cred}
    /\ Rotating(v)' => Rotating(v) /\ work'[v].new = work[v].new /\ work'[v].snap = work[v].snap
    /\ Rotating(v) /\ ~Rotating(v)' => work[v].snap.cred \in past'.orphans
    /\ work'[v].pc = "call" => \/ work[v].pc = "call" /\ work'[v].snap = work[v].snap
                               \/ account.status = "active" /\ work'[v].snap = Read
    /\ Refused(v)' => /\ work'[v].snap = work[v].snap
                      /\ \/ Refused(v)
                         \/ work[v].pc = "call" /\ work[v].snap.cred \notin provider.live
    /\ work'[v].pc = "drop" => work[v].pc = "drop" /\ work'[v].then = work[v].then
    /\ work'[v].pc = "set" =>
           \/ "unchecked" \in past'.kinds
           \/ /\ work'[v].snap = work[v].snap
              /\ \/ work[v].pc = "set" /\ work'[v].checked = work[v].checked
                 \/ work'[v].checked = account.cred /\ ~IsStale(v)
    /\ Finishing(v) /\ work[v].new # 0 =>
           \/ Finishing(v)' /\ work'[v].new = work[v].new /\ work'[v].snap = work[v].snap
           \/ IsStale(v)
           \/ cache' \in {0, work[v].snap.cred}
           \/ "uncached" \in past'.kinds

\* The rest of the state during such a step.
CalmRest ==
    /\ UNCHANGED <<setup, provider>>
    /\ account'.cred = account.cred /\ account'.version = account.version
    /\ past'.given = past.given /\ past'.stamps = past.stamps
    /\ past'.unstamped = past.unstamped
    /\ past.orphans \subseteq past'.orphans /\ past.kinds \subseteq past'.kinds
    /\ account'.status = "error" =>
           \/ account.status = "error" \/ "blind" \in past'.kinds
           \/ setup.grok => \E w \in Workers : Refused(w) /\ account.cred = work[w].snap.cred
           \/ /\ ~RotationUnderway
              /\ \E a \in Admins : admin[a].pc = "disable" /\ account.cred = admin[a].seen.cred
    /\ \/ cache' \in {0, cache}
       \/ \E w \in Workers : /\ work[w].pc = "set" /\ cache' = work[w].snap.cred
                             /\ work[w].checked \in {0, account.cred} \/ "raced" \in past'.kinds

\* An administrator's call in such a step may load the account, read the row, be refused,
\* or give up; it gets hold of no answer, an answer that it drops is on record as lost,
\* and it leaves the account disabled only on record.
CalmAdmin(b) ==
    /\ admin'[b].seen \in {admin[b].seen, account, Blank}
    /\ admin'[b].row \in {admin[b].row, account, Blank}
    /\ Giving(b)' => Giving(b) /\ admin'[b].new = admin[b].new /\ admin'[b].seen = admin[b].seen
    /\ HoldsAnswer(b) /\ ~HoldsAnswer(b)' => admin[b].seen.cred \in past'.orphans
    /\ admin'[b].pc = "call" => \/ admin[b].pc = "call" /\ admin'[b].seen = admin[b].seen
                                \/ IsManual(b) /\ admin'[b].seen = account
    /\ admin'[b].pc = "write" => \/ admin[b].pc = "write" /\ admin'[b].row = admin[b].row
                                 \/ admin'[b].row = account
    /\ admin'[b].pc = "disable" =>
           /\ admin'[b].seen = admin[b].seen
           /\ \/ admin[b].pc = "disable"
              \/ admin[b].pc = "call" /\ admin[b].seen.cred \notin provider.live
    /\ admin'[b].pc # "ready" => admin[b].pc # "ready" \/ setup.call[b] \in Calls
    /\ admin[b].pc \in {"drop", "recover", "clear"} =>
           \/ admin'[b].pc \in {"drop", "recover", "clear"}
           \/ account'.status = "active" \/ "uncleared" \in past'.kinds

Calm == /\ CalmRest
        /\ \A v \in Workers : CalmWorker(v)
        /\ \A b \in Admins : CalmAdmin(b)

\* A worker uses a refresh token: its successor is the next credential of the provider.
Uses(w) ==
    /\ UNCHANGED <<setup, account, cache, admin, past, lock>>
    /\ work[w].pc = "call" /\ work[w].snap.cred \in provider.live /\ provider.issued < MaxCreds
    /\ provider'.issued = provider.issued + 1
    /\ provider'.live = (provider.live \ {work[w].snap.cred}) \cup {provider.issued + 1}
    /\ provider'.root = [provider.root EXCEPT ![provider.issued + 1] =
                                              provider.root[work[w].snap.cred]]
    /\ work' = [work EXCEPT ![w].pc = "reply", ![w].new = provider.issued + 1]

\* A worker writes the credential it holds, and knows it or takes the write for failed.
Stores(w) ==
    /\ UNCHANGED <<setup, provider, cache, admin, lock>>
    /\ work[w].pc = "persist" /\ MayWrite(w)
    /\ account'.cred = work[w].new /\ account'.version = past.stamps + 1
    /\ account'.status = account.status
    /\ past'.stamps = past.stamps + 1 /\ past'.given = past.given
    /\ past'.unstamped = past.unstamped
    /\ past.orphans \subseteq past'.orphans /\ past.kinds \subseteq past'.kinds
    /\ \A v \in Workers \ {w} : work'[v] = work[v]
    /\ work'[w].checked = work[w].checked
    /\ work'[w].pc \in {"drop", "unlock"} /\ work'[w].then \in {"check", "after", "idle"}
    /\ \/ /\ work'[w].new = work[w].new /\ Finishing(w)'
          /\ work'[w].snap.cred = work[w].new /\ work'[w].snap.version = past.stamps + 1
       \/ "uncached" \in past'.kinds /\ work'[w].snap = work[w].snap

\* The provider issues the next credential to an administrator's call, for a refresh token
\* that the call used or for a new authorization.
Issues(a) ==
    /\ UNCHANGED <<setup, account, cache, work, past, lock>>
    /\ provider.issued < MaxCreds /\ provider'.issued = provider.issued + 1
    /\ \/ /\ IsManual(a) /\ admin[a].pc = "call" /\ admin[a].seen.cred \in provider.live
          /\ provider'.live = (provider.live \ {admin[a].seen.cred}) \cup {provider.issued + 1}
          /\ provider'.root = [provider.root EXCEPT ![provider.issued + 1] =
                                                    provider.root[admin[a].seen.cred]]
       \/ /\ setup.call[a] = "apply" /\ admin[a].pc = "ready"
          /\ provider'.live = provider.live \cup {provider.issued + 1}
          /\ provider'.root = [provider.root EXCEPT ![provider.issued + 1] = provider.issued + 1]
    /\ admin' = [admin EXCEPT ![a].pc = "read", ![a].new = provider.issued + 1]

\* An administrator's call writes the row with the credentials it has, or an edited row:
\* then it changes nothing of interest, or puts an older row back.
WritesNew(a) ==
    /\ Giving(a) /\ account'.cred = admin[a].new
    /\ account'.version \in {0, admin[a].seen.version}
    /\ past'.given = IF setup.call[a] = "apply" THEN admin[a].new ELSE past.given
    /\ admin[a].new \in past'.unstamped
    /\ IsManual(a) /\ account.cred # admin[a].seen.cred => "overtaken" \in past'.kinds
    /\ account'.status = "error" =>
           admin'[a].pc \in {"drop", "clear"} \/ "uncleared" \in past'.kinds
WritesOld(a) ==
    /\ setup.call[a] = "edit" /\ account'.cred = admin[a].row.cred
    /\ account'.version \in {admin[a].row.version, admin[a].seen.version}
    /\ past'.given = past.given /\ past'.unstamped = past.unstamped
    /\ \/ "reverted" \in past'.kinds
       \/ /\ account'.cred = account.cred /\ account'.version = account.version
          /\ account'.status = account.status
    /\ account'.cred # account.cred => account'.cred \in past'.orphans
Writes(a) ==
    /\ UNCHANGED <<setup, provider, cache, work, lock>>
    /\ admin[a].pc = "write" /\ \A b \in Admins \ {a} : admin'[b] = admin[b]
    /\ admin'[a].pc \in {"drop", "clear", "done", "cool"}
    /\ admin'[a].seen = Blank /\ admin'[a].row = Blank
    /\ past'.stamps = past.stamps
    /\ past.orphans \subseteq past'.orphans /\ past.kinds \subseteq past'.kinds
    /\ WritesNew(a) \/ WritesOld(a)

\* A worker moves: its state after the step, and nobody else's changes.
Moved(w) == WorkOK' /\ \A v \in Workers \ {w} : work'[v] = work[v]
Becomes(w, pc, then, owns, late, checked, new, snap) ==
    /\ Moved(w)
    /\ work'[w].pc = pc /\ work'[w].then = then
    /\ work'[w].owns = owns /\ work'[w].late = late
    /\ work'[w].checked = checked /\ work'[w].new = new /\ work'[w].snap = snap

\* The type invariant, one variable at a time.
LEMMA Types ==
    ASSUME TypeOK
    PROVE  /\ WorkOK /\ AdminOK /\ Read \in Snaps
           /\ account.cred \in 1..MaxCreds /\ cache \in 0..MaxCreds
<1>1. WorkOK /\ AdminOK
  BY DEF TypeOK, WorkOK, WorkerStates, AdminOK, AdminStates
<1>2. /\ account.cred \in Creds /\ account.version \in Nat
      /\ account.strikes \in 0..(Threshold - 1) /\ cache \in 0..MaxCreds
  BY DEF TypeOK
<1> QED
  BY <1>1, <1>2, RefreshAssumption DEF Read, Snaps, Creds

(* The moves of a worker, one lemma per form of update.                    *)

\* A worker gets a new state.
LEMMA Sets ==
    ASSUME WorkOK, NEW w \in Workers, NEW m \in WorkerStates, work' = [work EXCEPT ![w] = m]
    PROVE  Becomes(w, m.pc, m.then, m.owns, m.late, m.checked, m.new, m.snap)
BY DEF WorkOK, Becomes, Moved

\* A worker forgets everything.
LEMMA Resets ==
    ASSUME TypeOK, NEW w \in Workers, NEW pc \in PCs, work' = [work EXCEPT ![w] = At(pc)]
    PROVE  Becomes(w, pc, "idle", FALSE, FALSE, 0, 0, At("idle").snap)
<1>1. At(pc) \in WorkerStates
  BY RefreshAssumption DEF At, WorkerStates, Snaps, Thens
<1> QED
  BY <1>1, Types, Sets DEF At

\* A worker starts with the row it read.
LEMMA Starts ==
    ASSUME TypeOK, NEW w \in Workers, NEW pc \in PCs,
           work' = [work EXCEPT ![w] = [At(pc) EXCEPT !.snap = Read]]
    PROVE  Becomes(w, pc, "idle", FALSE, FALSE, 0, 0, Read)
<1> DEFINE m == [At(pc) EXCEPT !.snap = Read]
<1>1. At(pc) \in WorkerStates
  BY RefreshAssumption DEF At, WorkerStates, Snaps, Thens
<1>2. m \in WorkerStates
  BY <1>1, Types DEF WorkerStates
<1>3. /\ m.pc = pc /\ m.then = "idle" /\ m.owns = FALSE /\ m.late = FALSE
      /\ m.checked = 0 /\ m.new = 0 /\ m.snap = Read
  BY DEF At
<1>4. work' = [work EXCEPT ![w] = m]
  OBVIOUS
<1> HIDE DEF m
<1>5. Becomes(w, m.pc, m.then, m.owns, m.late, m.checked, m.new, m.snap)
  BY <1>2, <1>4, Types, Sets
<1> QED
  BY <1>3, <1>5

\* A worker goes on (To).
LEMMA GoesOn ==
    ASSUME TypeOK, NEW w \in Workers, NEW pc \in PCs,
           work' = [work EXCEPT ![w].pc = pc]
    PROVE  Becomes(w, pc, work[w].then, work[w].owns, work[w].late,
                   work[w].checked, work[w].new, work[w].snap)
<1> DEFINE m == [work[w] EXCEPT !.pc = pc]
<1>1. work[w] \in WorkerStates
  BY Types DEF WorkOK
<1>2. m \in WorkerStates
  BY <1>1 DEF WorkerStates
<1>3. /\ m.pc = pc /\ m.then = work[w].then /\ m.owns = work[w].owns /\ m.late = work[w].late
      /\ m.checked = work[w].checked /\ m.new = work[w].new /\ m.snap = work[w].snap
  BY <1>1 DEF WorkerStates
<1>4. work' = [work EXCEPT ![w] = m]
  OBVIOUS
<1> HIDE DEF m
<1>5. Becomes(w, m.pc, m.then, m.owns, m.late, m.checked, m.new, m.snap)
  BY <1>2, <1>4, Types, Sets
<1> QED
  BY <1>3, <1>5

\* A worker returns from RefreshIfNeeded (Return).
LEMMA Returns ==
    ASSUME TypeOK, NEW w \in Workers, NEW then \in Thens,
           work' = [work EXCEPT ![w].pc = "unlock", ![w].then = then]
    PROVE  Becomes(w, "unlock", then, work[w].owns, work[w].late,
                   work[w].checked, work[w].new, work[w].snap)
<1> DEFINE m == [work[w] EXCEPT !.pc = "unlock", !.then = then]
<1>1. work[w] \in WorkerStates
  BY Types DEF WorkOK
<1>2. m \in WorkerStates
  BY <1>1 DEF WorkerStates, PCs
<1>3. /\ m.pc = "unlock" /\ m.then = then /\ m.owns = work[w].owns /\ m.late = work[w].late
      /\ m.checked = work[w].checked /\ m.new = work[w].new /\ m.snap = work[w].snap
  BY <1>1 DEF WorkerStates
<1>4. work' = [work EXCEPT ![w] = m]
  OBVIOUS
<1> HIDE DEF m
<1>5. Becomes(w, m.pc, m.then, m.owns, m.late, m.checked, m.new, m.snap)
  BY <1>2, <1>4, Types, Sets
<1> QED
  BY <1>3, <1>5

\* A worker returns with the row as it is (ReturnCurrent).
LEMMA ReturnsCurrent ==
    ASSUME TypeOK, NEW w \in Workers, NEW then \in Thens,
           work' = [work EXCEPT ![w].pc = "unlock", ![w].snap = Read, ![w].new = 0, ![w].then = then]
    PROVE  Becomes(w, "unlock", then, work[w].owns, work[w].late,
                   work[w].checked, 0, Read)
<1> DEFINE m == [work[w] EXCEPT !.pc = "unlock", !.snap = Read, !.new = 0, !.then = then]
<1>1. work[w] \in WorkerStates
  BY Types DEF WorkOK
<1>0. 0 \in 0..MaxCreds /\ Read \in Snaps
  BY Types, RefreshAssumption
<1>2. m \in WorkerStates
  BY <1>0, <1>1 DEF WorkerStates, PCs
<1>3. /\ m.pc = "unlock" /\ m.then = then /\ m.owns = work[w].owns /\ m.late = work[w].late
      /\ m.checked = work[w].checked /\ m.new = 0 /\ m.snap = Read
  BY <1>1 DEF WorkerStates
<1>4. work' = [work EXCEPT ![w] = m]
  OBVIOUS
<1> HIDE DEF m
<1>5. Becomes(w, m.pc, m.then, m.owns, m.late, m.checked, m.new, m.snap)
  BY <1>2, <1>4, Types, Sets
<1> QED
  BY <1>3, <1>5

\* A worker returns without the answer it held (RefreshReturns, PersistFails).
LEMMA Loses ==
    ASSUME TypeOK, NEW w \in Workers, NEW then \in Thens,
           work' = [work EXCEPT ![w].pc = "unlock", ![w].new = 0, ![w].then = then]
    PROVE  Becomes(w, "unlock", then, work[w].owns, work[w].late,
                   work[w].checked, 0, work[w].snap)
<1> DEFINE m == [work[w] EXCEPT !.pc = "unlock", !.new = 0, !.then = then]
<1>1. work[w] \in WorkerStates
  BY Types DEF WorkOK
<1>0. 0 \in 0..MaxCreds
  BY RefreshAssumption
<1>2. m \in WorkerStates
  BY <1>0, <1>1 DEF WorkerStates, PCs
<1>3. /\ m.pc = "unlock" /\ m.then = then /\ m.owns = work[w].owns /\ m.late = work[w].late
      /\ m.checked = work[w].checked /\ m.new = 0 /\ m.snap = work[w].snap
  BY <1>1 DEF WorkerStates
<1>4. work' = [work EXCEPT ![w] = m]
  OBVIOUS
<1> HIDE DEF m
<1>5. Becomes(w, m.pc, m.then, m.owns, m.late, m.checked, m.new, m.snap)
  BY <1>2, <1>4, Types, Sets
<1> QED
  BY <1>3, <1>5

\* A worker gets the lock (AcquireRefreshLock).
LEMMA Acquires ==
    ASSUME TypeOK, NEW w \in Workers, NEW pc \in PCs,
           work' = [work EXCEPT ![w].pc = pc, ![w].owns = TRUE]
    PROVE  Becomes(w, pc, work[w].then, TRUE, work[w].late,
                   work[w].checked, work[w].new, work[w].snap)
<1> DEFINE m == [work[w] EXCEPT !.pc = pc, !.owns = TRUE]
<1>1. work[w] \in WorkerStates
  BY Types DEF WorkOK
<1>2. m \in WorkerStates
  BY <1>1 DEF WorkerStates
<1>3. /\ m.pc = pc /\ m.then = work[w].then /\ m.owns = TRUE /\ m.late = work[w].late
      /\ m.checked = work[w].checked /\ m.new = work[w].new /\ m.snap = work[w].snap
  BY <1>1 DEF WorkerStates
<1>4. work' = [work EXCEPT ![w] = m]
  OBVIOUS
<1> HIDE DEF m
<1>5. Becomes(w, m.pc, m.then, m.owns, m.late, m.checked, m.new, m.snap)
  BY <1>2, <1>4, Types, Sets
<1> QED
  BY <1>3, <1>5

\* A worker goes on with the row it reread (RereadAccount).
LEMMA Rereads ==
    ASSUME TypeOK, NEW w \in Workers, 
           work' = [work EXCEPT ![w].pc = "call", ![w].snap = Read]
    PROVE  Becomes(w, "call", work[w].then, work[w].owns, work[w].late,
                   work[w].checked, work[w].new, Read)
<1> DEFINE m == [work[w] EXCEPT !.pc = "call", !.snap = Read]
<1>1. work[w] \in WorkerStates
  BY Types DEF WorkOK
<1>2. m \in WorkerStates
  BY <1>1, Types DEF WorkerStates, PCs
<1>3. /\ m.pc = "call" /\ m.then = work[w].then /\ m.owns = work[w].owns /\ m.late = work[w].late
      /\ m.checked = work[w].checked /\ m.new = work[w].new /\ m.snap = Read
  BY <1>1 DEF WorkerStates
<1>4. work' = [work EXCEPT ![w] = m]
  OBVIOUS
<1> HIDE DEF m
<1>5. Becomes(w, m.pc, m.then, m.owns, m.late, m.checked, m.new, m.snap)
  BY <1>2, <1>4, Types, Sets
<1> QED
  BY <1>3, <1>5

\* A worker gets an answer from the provider (Refresh).
LEMMA GetsAnswer ==
    ASSUME TypeOK, NEW w \in Workers, NEW n \in 0..MaxCreds,
           work' = [work EXCEPT ![w].pc = "reply", ![w].new = n]
    PROVE  Becomes(w, "reply", work[w].then, work[w].owns, work[w].late,
                   work[w].checked, n, work[w].snap)
<1> DEFINE m == [work[w] EXCEPT !.pc = "reply", !.new = n]
<1>1. work[w] \in WorkerStates
  BY Types DEF WorkOK
<1>2. m \in WorkerStates
  BY <1>1 DEF WorkerStates, PCs
<1>3. /\ m.pc = "reply" /\ m.then = work[w].then /\ m.owns = work[w].owns /\ m.late = work[w].late
      /\ m.checked = work[w].checked /\ m.new = n /\ m.snap = work[w].snap
  BY <1>1 DEF WorkerStates
<1>4. work' = [work EXCEPT ![w] = m]
  OBVIOUS
<1> HIDE DEF m
<1>5. Becomes(w, m.pc, m.then, m.owns, m.late, m.checked, m.new, m.snap)
  BY <1>2, <1>4, Types, Sets
<1> QED
  BY <1>3, <1>5

\* A worker has written its credential (PersistCredentials).
LEMMA Saves ==
    ASSUME TypeOK, NEW w \in Workers, NEW pc \in PCs, NEW then \in Thens, NEW snap \in Snaps,
           work' = [work EXCEPT ![w].pc = pc, ![w].then = then, ![w].snap = snap]
    PROVE  Becomes(w, pc, then, work[w].owns, work[w].late,
                   work[w].checked, work[w].new, snap)
<1> DEFINE m == [work[w] EXCEPT !.pc = pc, !.then = then, !.snap = snap]
<1>1. work[w] \in WorkerStates
  BY Types DEF WorkOK
<1>2. m \in WorkerStates
  BY <1>1 DEF WorkerStates
<1>3. /\ m.pc = pc /\ m.then = then /\ m.owns = work[w].owns /\ m.late = work[w].late
      /\ m.checked = work[w].checked /\ m.new = work[w].new /\ m.snap = snap
  BY <1>1 DEF WorkerStates
<1>4. work' = [work EXCEPT ![w] = m]
  OBVIOUS
<1> HIDE DEF m
<1>5. Becomes(w, m.pc, m.then, m.owns, m.late, m.checked, m.new, m.snap)
  BY <1>2, <1>4, Types, Sets
<1> QED
  BY <1>3, <1>5

\* A worker releases the lock (ReleaseRefreshLock).
LEMMA Unlocks ==
    ASSUME TypeOK, NEW w \in Workers, NEW pc \in PCs,
           work' = [work EXCEPT ![w] = [work[w] EXCEPT !.owns = FALSE, !.pc = pc, !.then = "idle"]]
    PROVE  Becomes(w, pc, "idle", FALSE, work[w].late,
                   work[w].checked, work[w].new, work[w].snap)
<1> DEFINE m == [work[w] EXCEPT !.owns = FALSE, !.pc = pc, !.then = "idle"]
<1>1. work[w] \in WorkerStates
  BY Types DEF WorkOK
<1>2. m \in WorkerStates
  BY <1>1 DEF WorkerStates, Thens
<1>3. /\ m.pc = pc /\ m.then = "idle" /\ m.owns = FALSE /\ m.late = work[w].late
      /\ m.checked = work[w].checked /\ m.new = work[w].new /\ m.snap = work[w].snap
  BY <1>1 DEF WorkerStates
<1>4. work' = [work EXCEPT ![w] = m]
  OBVIOUS
<1> HIDE DEF m
<1>5. Becomes(w, m.pc, m.then, m.owns, m.late, m.checked, m.new, m.snap)
  BY <1>2, <1>4, Types, Sets
<1> QED
  BY <1>3, <1>5

\* A worker compares versions (CheckTokenVersion).
LEMMA ChecksVersion ==
    ASSUME TypeOK, NEW w \in Workers, NEW c \in 0..MaxCreds,
           work' = [work EXCEPT ![w].pc = "set", ![w].checked = c]
    PROVE  Becomes(w, "set", work[w].then, work[w].owns, work[w].late,
                   c, work[w].new, work[w].snap)
<1> DEFINE m == [work[w] EXCEPT !.pc = "set", !.checked = c]
<1>1. work[w] \in WorkerStates
  BY Types DEF WorkOK
<1>2. m \in WorkerStates
  BY <1>1 DEF WorkerStates, PCs
<1>3. /\ m.pc = "set" /\ m.then = work[w].then /\ m.owns = work[w].owns /\ m.late = work[w].late
      /\ m.checked = c /\ m.new = work[w].new /\ m.snap = work[w].snap
  BY <1>1 DEF WorkerStates
<1>4. work' = [work EXCEPT ![w] = m]
  OBVIOUS
<1> HIDE DEF m
<1>5. Becomes(w, m.pc, m.then, m.owns, m.late, m.checked, m.new, m.snap)
  BY <1>2, <1>4, Types, Sets
<1> QED
  BY <1>3, <1>5

\* The deadline of a worker passes (Deadline).
LEMMA GetsLate ==
    ASSUME TypeOK, NEW w \in Workers, 
           work' = [work EXCEPT ![w].late = TRUE]
    PROVE  Becomes(w, work[w].pc, work[w].then, work[w].owns, TRUE,
                   work[w].checked, work[w].new, work[w].snap)
<1> DEFINE m == [work[w] EXCEPT !.late = TRUE]
<1>1. work[w] \in WorkerStates
  BY Types DEF WorkOK
<1>2. m \in WorkerStates
  BY <1>1 DEF WorkerStates
<1>3. /\ m.pc = work[w].pc /\ m.then = work[w].then /\ m.owns = work[w].owns /\ m.late = TRUE
      /\ m.checked = work[w].checked /\ m.new = work[w].new /\ m.snap = work[w].snap
  BY <1>1 DEF WorkerStates
<1>4. work' = [work EXCEPT ![w] = m]
  OBVIOUS
<1> HIDE DEF m
<1>5. Becomes(w, m.pc, m.then, m.owns, m.late, m.checked, m.new, m.snap)
  BY <1>2, <1>4, Types, Sets
<1> QED
  BY <1>3, <1>5

-----------------------------------------------------------------------------
(* The steps that neither use nor store a credential                       *)

Pasts ==
    [faults : Nat, kinds : SUBSET Kinds, orphans : SUBSET (0..MaxCreds),
     given : Creds, stamps : Nat, unstamped : SUBSET Creds]
PastGrows ==
    /\ past' \in Pasts
    /\ past'.given = past.given /\ past'.stamps = past.stamps
    /\ past'.unstamped = past.unstamped
    /\ past.orphans \subseteq past'.orphans /\ past.kinds \subseteq past'.kinds

\* Nothing happens to the history.
LEMMA SamePast ==
    ASSUME TypeOK, UNCHANGED past
    PROVE  PastGrows
BY DEF TypeOK, PastGrows, Pasts

\* A fault goes down in the history and nothing is taken from it (Fault).
LEMMA FaultGrows ==
    ASSUME TypeOK, NEW k \in SUBSET Kinds, NEW o \in SUBSET (0..MaxCreds), Fault(k, o)
    PROVE  PastGrows /\ past'.kinds = past.kinds \cup k /\ past'.orphans = past.orphans \cup o
<1>1. past \in Pasts
  BY DEF TypeOK, Pasts
<1>2. past' = [past EXCEPT !.faults = past.faults + 1, !.kinds = past.kinds \cup k,
                            !.orphans = past.orphans \cup o]
  BY DEF Fault
<1>3. past.faults + 1 \in Nat
  BY <1>1 DEF Pasts
<1> QED
  BY <1>1, <1>2, <1>3 DEF PastGrows, Pasts

\* A lost answer goes down in the history.
LEMMA LossGrows ==
    ASSUME TypeOK, NEW o \in SUBSET (0..MaxCreds),
           past' = [past EXCEPT !.orphans = @ \cup o]
    PROVE  PastGrows /\ past'.kinds = past.kinds /\ past'.orphans = past.orphans \cup o
<1>1. past \in Pasts
  BY DEF TypeOK, Pasts
<1> QED
  BY <1>1 DEF PastGrows, Pasts

\* An event that takes the blame from the program goes down in the history.
LEMMA KindGrows ==
    ASSUME TypeOK, NEW k \in SUBSET Kinds,
           past' = [past EXCEPT !.kinds = @ \cup k]
    PROVE  PastGrows /\ past'.kinds = past.kinds \cup k /\ past'.orphans = past.orphans
<1>1. past \in Pasts
  BY DEF TypeOK, Pasts
<1> QED
  BY <1>1 DEF PastGrows, Pasts

\* A worker whose place and memory stay as they are is calm.
LEMMA StillIsCalm ==
    ASSUME NEW v \in Workers,
           work'[v].pc = work[v].pc, work'[v].then = work[v].then, work'[v].new = work[v].new,
           work'[v].checked = work[v].checked, work'[v].snap = work[v].snap
    PROVE  CalmWorker(v)
BY DEF CalmWorker, Rotating, Refused, Finishing

\* So is a call that does not move.
LEMMA StillAdminIsCalm ==
    ASSUME NEW b \in Admins, UNCHANGED setup, admin'[b] = admin[b]
    PROVE  CalmAdmin(b)
BY DEF CalmAdmin, Giving, HoldsAnswer, IsManual

\* A step of one worker that changes neither the row nor the cache.
LEMMA CalmStep ==
    ASSUME TypeOK, NEW w \in Workers, Moved(w), PastGrows, CalmWorker(w),
           lock' \in Workers \cup {None}, UNCHANGED <<setup, account, provider, cache, admin>>
    PROVE  TypeOK' /\ Calm
<1>1. TypeOK'
  BY DEF TypeOK, Moved, WorkOK, WorkerStates, PastGrows, Pasts
<1>2. CalmRest
  BY DEF PastGrows, CalmRest
<1>3. ASSUME NEW v \in Workers
      PROVE  CalmWorker(v)
  BY <1>3, StillIsCalm DEF Moved
<1>4. ASSUME NEW b \in Admins
      PROVE  CalmAdmin(b)
  BY <1>4, StillAdminIsCalm
<1> QED
  BY <1>1, <1>2, <1>3, <1>4 DEF Calm

\* A worker that does not touch the lock stays out of the refresh or in it as it was.
LockQuiet(w) ==
    /\ lock' = lock /\ past.kinds \subseteq past'.kinds
    /\ \A v \in Workers \ {w} : work'[v] = work[v]
    /\ work'[w].late => work[w].late
    /\ InRefresh(w)' \/ work'[w].owns
           => (InRefresh(w) \/ work[w].owns) /\ (work'[w].owns <=> work[w].owns)

\* A background attempt or a request begins.
LEMMA BeginCalm ==
    ASSUME TypeOK, NEW w \in Workers, Begin(w)
    PROVE  TypeOK' /\ Calm /\ LockQuiet(w)
<1> DEFINE pc == IF account.due THEN "lock" ELSE "check"
<1>1. PastGrows
  BY SamePast, FaultGrows DEF Begin, CacheMiss
<1>2. Becomes(w, pc, "idle", FALSE, FALSE, 0, 0, Read)
  BY Starts DEF Begin, PCs
<1>3. pc \in {"lock", "check"}
  OBVIOUS
<1> HIDE DEF pc
<1>4. work[w].pc = "idle"
  BY DEF Begin
<1>5. CalmWorker(w)
  BY <1>2, <1>3, <1>4 DEF Becomes, CalmWorker, Rotating, Refused, Finishing
<1>6. LockQuiet(w)
  BY <1>1, <1>2, <1>3 DEF LockQuiet, Becomes, Moved, InRefresh, PastGrows, Begin
<1>7. lock' \in Workers \cup {None} /\ UNCHANGED <<setup, account, provider, cache, admin>>
  BY DEF Begin, TypeOK
<1> QED
  BY <1>1, <1>2, <1>5, <1>6, <1>7, CalmStep DEF Becomes

\* A worker gives up waiting for the lock.
LEMMA GiveUpCalm ==
    ASSUME TypeOK, NEW w \in Workers, GiveUpWaiting(w)
    PROVE  TypeOK' /\ Calm /\ LockQuiet(w)
<1>1. PastGrows
  BY SamePast DEF GiveUpWaiting
<1>2. Becomes(w, "idle", "idle", FALSE, FALSE, 0, 0, At("idle").snap)
  BY Resets DEF GiveUpWaiting, PCs
<1>3. work[w].pc = "lock"
  BY DEF GiveUpWaiting
<1>4. CalmWorker(w)
  BY <1>2, <1>3 DEF Becomes, CalmWorker, Rotating, Refused, Finishing
<1>5. LockQuiet(w)
  BY <1>1, <1>2, <1>3 DEF LockQuiet, Becomes, Moved, InRefresh, PastGrows, GiveUpWaiting
<1>6. lock' \in Workers \cup {None} /\ UNCHANGED <<setup, account, provider, cache, admin>>
  BY DEF GiveUpWaiting, TypeOK
<1> QED
  BY <1>1, <1>2, <1>4, <1>5, <1>6, CalmStep DEF Becomes

\* A worker in a refresh returns without having used a refresh token.
LEMMA ReturnIsCalm ==
    ASSUME TypeOK, NEW w \in Workers, NEW then \in Thens,
           work[w].pc \in {"reread", "call", "recover"},
           then = "punish" => work[w].pc = "recover", Return(w, then), PastGrows, lock' = lock
    PROVE  Moved(w) /\ CalmWorker(w) /\ LockQuiet(w) /\ Return(w, then)
<1>1. Becomes(w, "unlock", then, work[w].owns, work[w].late,
              work[w].checked, work[w].new, work[w].snap)
  BY Returns DEF Return
<1>2. CalmWorker(w)
  BY <1>1 DEF Becomes, CalmWorker, Rotating, Refused, Finishing
<1>3. LockQuiet(w)
  BY <1>1 DEF LockQuiet, Becomes, Moved, InRefresh, PastGrows
<1> QED
  BY <1>1, <1>2, <1>3 DEF Becomes

\* A worker in a refresh returns with the row as it is; an answer it holds is lost.
LEMMA ReturnCurrentIsCalm ==
    ASSUME TypeOK, NEW w \in Workers,
           work[w].pc \in {"reread", "recover", "persist"},
           work[w].pc = "persist" => work[w].snap.cred \in past'.orphans,
           ReturnCurrent(w), PastGrows, lock' = lock
    PROVE  Moved(w) /\ CalmWorker(w) /\ LockQuiet(w)
<1> DEFINE then == IF IsRequest(w) THEN "check" ELSE "idle"
<1>1. then \in {"check", "idle"} /\ then \in Thens
  BY DEF Thens
<1>2. work' = [work EXCEPT ![w].pc = "unlock", ![w].snap = Read, ![w].new = 0, ![w].then = then]
  BY DEF ReturnCurrent
<1> HIDE DEF then
<1>3. Becomes(w, "unlock", then, work[w].owns, work[w].late, work[w].checked, 0, Read)
  BY <1>1, <1>2, ReturnsCurrent
<1>4. CalmWorker(w)
  BY <1>1, <1>3 DEF Becomes, CalmWorker, Rotating, Refused, Finishing
<1>5. LockQuiet(w)
  BY <1>3 DEF LockQuiet, Becomes, Moved, InRefresh, PastGrows
<1> QED
  BY <1>3, <1>4, <1>5 DEF Becomes

\* A worker in a refresh returns without the answer that it held.
LEMMA LossIsCalm ==
    ASSUME TypeOK, NEW w \in Workers, Rotating(w),
           work[w].snap.cred \in past'.orphans,
           work' = [work EXCEPT ![w].pc = "unlock", ![w].new = 0,
                                ![w].then = IF IsRequest(w) THEN "check" ELSE "idle"],
           PastGrows, lock' = lock
    PROVE  Moved(w) /\ CalmWorker(w) /\ LockQuiet(w)
<1> DEFINE then == IF IsRequest(w) THEN "check" ELSE "idle"
<1>1. then \in {"check", "idle"} /\ then \in Thens
  BY DEF Thens
<1>2. work' = [work EXCEPT ![w].pc = "unlock", ![w].new = 0, ![w].then = then]
  OBVIOUS
<1> HIDE DEF then
<1>3. Becomes(w, "unlock", then, work[w].owns, work[w].late, work[w].checked, 0, work[w].snap)
  BY <1>1, <1>2, Loses
<1>4. CalmWorker(w)
  BY <1>1, <1>3 DEF Becomes, CalmWorker, Rotating, Refused, Finishing
<1>5. LockQuiet(w)
  BY <1>3 DEF LockQuiet, Becomes, Moved, InRefresh, PastGrows, Rotating
<1> QED
  BY <1>3, <1>4, <1>5 DEF Becomes

\* The row is read again under the lock.
LEMMA RereadCalm ==
    ASSUME TypeOK, NEW w \in Workers, RereadAccount(w)
    PROVE  TypeOK' /\ Calm /\ LockQuiet(w)
<1>1. PastGrows
  BY SamePast, FaultGrows DEF RereadAccount
<1>2. /\ lock' = lock /\ lock' \in Workers \cup {None}
      /\ UNCHANGED <<setup, account, provider, cache, admin>>
      /\ work[w].pc = "reread"
  BY DEF RereadAccount, TypeOK
<1>3. \/ account.status = "active" /\ work' = [work EXCEPT ![w].pc = "call", ![w].snap = Read]
      \/ ReturnCurrent(w)
      \/ ReturnError(w)
  BY DEF RereadAccount
<1>4. CASE account.status = "active" /\ work' = [work EXCEPT ![w].pc = "call", ![w].snap = Read]
  <2>1. Becomes(w, "call", work[w].then, work[w].owns, work[w].late,
                work[w].checked, work[w].new, Read)
    BY <1>4, Rereads
  <2>2. CalmWorker(w)
    BY <1>2, <1>4, <2>1 DEF Becomes, CalmWorker, Rotating, Refused, Finishing
  <2>3. LockQuiet(w)
    BY <1>1, <1>2, <2>1 DEF LockQuiet, Becomes, Moved, InRefresh, PastGrows
  <2> QED
    BY <1>1, <1>2, <2>1, <2>2, <2>3, CalmStep DEF Becomes
<1>5. CASE ReturnCurrent(w)
  BY <1>1, <1>2, <1>5, ReturnCurrentIsCalm, CalmStep
<1>6. CASE ReturnError(w)
  BY <1>1, <1>2, <1>6, ReturnIsCalm, CalmStep DEF ReturnError, Thens
<1> QED
  BY <1>3, <1>4, <1>5, <1>6

\* Another refresh token in the row means that somebody else refreshed.
LEMMA RecoverCalm ==
    ASSUME TypeOK, NEW w \in Workers, TryRecoverFromRefreshRace(w)
    PROVE  TypeOK' /\ Calm /\ LockQuiet(w)
<1>1. PastGrows
  BY SamePast, FaultGrows DEF TryRecoverFromRefreshRace
<1>2. /\ lock' = lock /\ lock' \in Workers \cup {None}
      /\ UNCHANGED <<setup, account, provider, cache, admin>>
      /\ work[w].pc = "recover"
  BY DEF TryRecoverFromRefreshRace, TypeOK
<1>3. ReturnCurrent(w) \/ \E then \in Thens : Return(w, then)
  BY DEF TryRecoverFromRefreshRace, ReturnError, Thens
<1>4. CASE ReturnCurrent(w)
  BY <1>1, <1>2, <1>4, ReturnCurrentIsCalm, CalmStep
<1>5. CASE \E then \in Thens : Return(w, then)
  BY <1>1, <1>2, <1>5, ReturnIsCalm, CalmStep
<1> QED
  BY <1>3, <1>4, <1>5

\* What a worker loses is on record as lost.
LEMMA UnsavedType ==
    ASSUME TypeOK, FreshInv, NEW w \in Workers, Rotating(w)
    PROVE  Unsaved(w) \in SUBSET (0..MaxCreds) /\ work[w].snap.cred \in Unsaved(w)
<1>1. work[w].snap.cred \in 0..MaxCreds
  BY Types DEF WorkOK, WorkerStates, Snaps
<1>2. work[w].new \in Creds
  BY DEF FreshInv, HoldsFresh, Unseen, TypeOK
<1> QED
  BY <1>1, <1>2, RefreshAssumption DEF Unsaved, Creds

\* The provider takes a refresh token or refuses it.
LEMMA RefreshStep ==
    ASSUME TypeOK, IssuedInv, NEW w \in Workers, Refresh(w)
    PROVE  TypeOK' /\ (Calm \/ Uses(w)) /\ LockQuiet(w)
<1>1. /\ lock' = lock /\ lock' \in Workers \cup {None}
      /\ UNCHANGED <<setup, account, cache, admin>>
      /\ work[w].pc = "call"
  BY DEF Refresh, TypeOK
<1>2. CASE /\ work[w].snap.cred \in provider.live /\ provider.issued < MaxCreds
           /\ LET n == provider.issued + 1
                  c == work[w].snap.cred
              IN  /\ provider' = [issued |-> n, live |-> (provider.live \ {c}) \cup {n},
                                  root |-> [provider.root EXCEPT ![n] = provider.root[c]]]
                  /\ work' = [work EXCEPT ![w].pc = "reply", ![w].new = n]
           /\ UNCHANGED past
  <2>0. provider.issued \in Creds /\ provider.issued < MaxCreds
    BY <1>2 DEF TypeOK
  <2>1. provider.issued + 1 \in Creds /\ provider.issued + 1 \in 0..MaxCreds
    BY <2>0, RefreshAssumption DEF Creds
  <2>2. Becomes(w, "reply", work[w].then, work[w].owns, work[w].late,
                work[w].checked, provider.issued + 1, work[w].snap)
    BY <1>2, <2>1, GetsAnswer
  <2>3. Uses(w)
    BY <1>1, <1>2 DEF Uses
  <2>4. work[w].snap.cred \in Creds
    BY <1>2 DEF TypeOK
  <2>5. provider' \in [issued : Creds, live : SUBSET Creds, root : [Creds -> Creds]]
    BY <1>2, <2>1, <2>4 DEF TypeOK
  <2>6. TypeOK'
    BY <1>1, <1>2, <2>2, <2>5 DEF Becomes, Moved, TypeOK, WorkOK, WorkerStates
  <2>7. LockQuiet(w)
    BY <1>1, <1>2, <2>2 DEF LockQuiet, Becomes, Moved, InRefresh
  <2> QED
    BY <2>3, <2>6, <2>7
<1>3. CASE /\ work[w].snap.cred \notin provider.live
           /\ To(w, "recover")
           /\ UNCHANGED <<provider, past>>
  <2>1. Becomes(w, "recover", work[w].then, work[w].owns, work[w].late,
                work[w].checked, work[w].new, work[w].snap)
    BY <1>3, GoesOn DEF To, PCs
  <2>2. CalmWorker(w)
    BY <1>1, <1>3, <2>1 DEF Becomes, CalmWorker, Rotating, Refused, Finishing
  <2>3. LockQuiet(w)
    BY <1>1, <1>3, <2>1 DEF LockQuiet, Becomes, Moved, InRefresh
  <2> QED
    BY <1>1, <1>3, <2>1, <2>2, <2>3, SamePast, CalmStep DEF Becomes
<1>4. CASE ReturnError(w) /\ (UNCHANGED past \/ Fault({}, {})) /\ UNCHANGED provider
  <2>1. PastGrows
    BY <1>4, SamePast, FaultGrows
  <2> QED
    BY <1>1, <1>4, <2>1, ReturnIsCalm, CalmStep DEF ReturnError, Thens
<1> QED
  BY <1>2, <1>3, <1>4 DEF Refresh

\* An answer arrives, or is lost.
LEMMA ReplyCalm ==
    ASSUME TypeOK, FreshInv, NEW w \in Workers, RefreshReturns(w)
    PROVE  TypeOK' /\ Calm /\ LockQuiet(w)
<1>1. /\ lock' = lock /\ lock' \in Workers \cup {None}
      /\ UNCHANGED <<setup, account, provider, cache, admin>>
      /\ work[w].pc = "reply" /\ Rotating(w)
  BY DEF RefreshReturns, TypeOK, Rotating
<1>2. CASE To(w, "persist") /\ UNCHANGED past
  <2>1. Becomes(w, "persist", work[w].then, work[w].owns, work[w].late,
                work[w].checked, work[w].new, work[w].snap)
    BY <1>2, GoesOn DEF To, PCs
  <2>2. CalmWorker(w)
    BY <1>1, <2>1 DEF Becomes, CalmWorker, Rotating, Refused, Finishing
  <2>3. LockQuiet(w)
    BY <1>1, <1>2, <2>1 DEF LockQuiet, Becomes, Moved, InRefresh
  <2> QED
    BY <1>1, <1>2, <2>1, <2>2, <2>3, SamePast, CalmStep DEF Becomes
<1>3. CASE /\ past' = [past EXCEPT !.orphans = @ \cup Unsaved(w)] \/ Fault({}, Unsaved(w))
           /\ work' = [work EXCEPT ![w].pc = "unlock", ![w].new = 0,
                                   ![w].then = IF IsRequest(w) THEN "check" ELSE "idle"]
  <2>1. PastGrows /\ work[w].snap.cred \in past'.orphans
    BY <1>1, <1>3, UnsavedType, LossGrows, FaultGrows
  <2> QED
    BY <1>1, <1>3, <2>1, LossIsCalm, CalmStep
<1> QED
  BY <1>2, <1>3 DEF RefreshReturns

\* Credentials are written, or found to have changed.
LEMMA PersistStep ==
    ASSUME TypeOK, FreshInv, NEW w \in Workers, PersistCredentials(w)
    PROVE  TypeOK' /\ (Calm \/ Stores(w)) /\ LockQuiet(w)
<1>1. /\ lock' = lock /\ lock' \in Workers \cup {None}
      /\ UNCHANGED <<setup, provider, cache, admin>>
      /\ work[w].pc = "persist" /\ Rotating(w)
  BY DEF PersistCredentials, TypeOK, Rotating
<1>2. CASE /\ MayWrite(w)
           /\ account' = Saved(w)
           /\ past' = [past EXCEPT !.stamps = @ + 1]
           /\ work' = [work EXCEPT ![w].pc = IF setup.grok THEN "drop" ELSE "unlock",
                                   ![w].then = IF IsRequest(w) THEN "check" ELSE "after",
                                   ![w].snap = Read']
  <2> DEFINE pc == IF setup.grok THEN "drop" ELSE "unlock"
             then == IF IsRequest(w) THEN "check" ELSE "after"
  <2>1. pc \in {"drop", "unlock"} /\ pc \in PCs /\ then \in {"check", "after"} /\ then \in Thens
    BY DEF PCs, Thens
  <2>2. work' = [work EXCEPT ![w].pc = pc, ![w].then = then, ![w].snap = Read']
    BY <1>2
  <2> HIDE DEF pc, then
  <2>3. work[w].new \in Creds
    BY <1>1 DEF FreshInv, HoldsFresh, Unseen, TypeOK
  <2>4. /\ past' \in Pasts /\ past'.stamps = past.stamps + 1 /\ past'.given = past.given
        /\ past'.unstamped = past.unstamped
        /\ past.orphans \subseteq past'.orphans /\ past.kinds \subseteq past'.kinds
        /\ past.stamps + 1 \in Nat
    BY <1>2 DEF TypeOK, Pasts
  <2>5. /\ account' \in [cred : Creds, version : Nat, due : BOOLEAN,
                         status : {"active", "error"}, strikes : 0..(Threshold - 1)]
    BY <1>2, <2>3, <2>4 DEF TypeOK, Saved
  <2>6. /\ account'.cred = work[w].new /\ account'.version = past.stamps + 1
        /\ account'.status = account.status
    BY <1>2 DEF TypeOK, Saved
  <2>7. /\ Read' \in Snaps /\ Read'.cred = account'.cred /\ Read'.version = account'.version
    BY <2>5, RefreshAssumption DEF Read, Snaps, Creds
  <2>8. Becomes(w, pc, then, work[w].owns, work[w].late, work[w].checked, work[w].new, Read')
    BY <2>1, <2>2, <2>7, Saves
  <2>9. TypeOK'
    BY <1>1, <2>4, <2>5, <2>8 DEF Becomes, Moved, TypeOK, WorkOK, WorkerStates, Pasts
  <2>10. LockQuiet(w)
    BY <1>1, <2>1, <2>4, <2>8 DEF LockQuiet, Becomes, Moved, InRefresh
  <2>11. Stores(w)
    BY <1>1, <1>2, <2>1, <2>4, <2>6, <2>7, <2>8 DEF Stores, Becomes, Moved, Finishing
  <2> QED
    BY <2>9, <2>10, <2>11
<1>3. CASE /\ past' = [past EXCEPT !.orphans = @ \cup Unsaved(w)]
           /\ ReturnCurrent(w)
           /\ UNCHANGED account
  <2>1. PastGrows /\ work[w].snap.cred \in past'.orphans
    BY <1>1, <1>3, UnsavedType, LossGrows
  <2> QED
    BY <1>1, <1>3, <2>1, ReturnCurrentIsCalm, CalmStep
<1> QED
  BY <1>2, <1>3 DEF PersistCredentials

\* A write fails that was applied or was not.
LEMMA PersistFailsStep ==
    ASSUME TypeOK, FreshInv, NEW w \in Workers, PersistFails(w)
    PROVE  TypeOK' /\ (Calm \/ Stores(w)) /\ LockQuiet(w)
<1>1. /\ lock' = lock /\ lock' \in Workers \cup {None}
      /\ UNCHANGED <<setup, provider, cache, admin>>
      /\ work[w].pc = "persist" /\ Rotating(w)
      /\ work' = [work EXCEPT ![w].pc = "unlock", ![w].new = 0,
                              ![w].then = IF IsRequest(w) THEN "check" ELSE "idle"]
  BY DEF PersistFails, TypeOK, Rotating
<1>2. CASE /\ MayWrite(w)
           /\ account' = Saved(w)
           /\ \/ past' = [past EXCEPT !.stamps = @ + 1, !.kinds = @ \cup {"uncached"}]
              \/ past' = [past EXCEPT !.stamps = @ + 1, !.kinds = @ \cup {"uncached"},
                                      !.faults = @ + 1]
  <2> DEFINE then == IF IsRequest(w) THEN "check" ELSE "idle"
  <2>1. then \in {"check", "idle"} /\ then \in Thens
    BY DEF Thens
  <2>2. work' = [work EXCEPT ![w].pc = "unlock", ![w].new = 0, ![w].then = then]
    BY <1>1
  <2> HIDE DEF then
  <2>3. work[w].new \in Creds
    BY <1>1 DEF FreshInv, HoldsFresh, Unseen, TypeOK
  <2>4. past \in Pasts
    BY DEF TypeOK, Pasts
  <2>5. past.faults + 1 \in Nat
    BY <2>4 DEF Pasts
  <2>6. /\ past' \in Pasts /\ past'.stamps = past.stamps + 1 /\ past'.given = past.given
        /\ past'.unstamped = past.unstamped
        /\ past.orphans \subseteq past'.orphans /\ past.kinds \subseteq past'.kinds
        /\ past.stamps + 1 \in Nat /\ "uncached" \in past'.kinds
    <3> DEFINE kinds == past.kinds \cup {"uncached"}
    <3>1. /\ past.stamps + 1 \in Nat
          /\ kinds \in SUBSET Kinds /\ past.kinds \subseteq kinds /\ "uncached" \in kinds
      BY <2>4 DEF Pasts, Kinds
    <3>2. \/ past' = [past EXCEPT !.stamps = past.stamps + 1, !.kinds = kinds]
          \/ past' = [past EXCEPT !.stamps = past.stamps + 1, !.kinds = kinds,
                                  !.faults = past.faults + 1]
      BY <1>2
    <3> HIDE DEF kinds
    <3> QED
      BY <2>4, <2>5, <3>1, <3>2 DEF Pasts
  <2>7. /\ account' \in [cred : Creds, version : Nat, due : BOOLEAN,
                         status : {"active", "error"}, strikes : 0..(Threshold - 1)]
    BY <1>2, <2>3, <2>6 DEF TypeOK, Saved
  <2>8. /\ account'.cred = work[w].new /\ account'.version = past.stamps + 1
        /\ account'.status = account.status
    BY <1>2 DEF TypeOK, Saved
  <2>9. Becomes(w, "unlock", then, work[w].owns, work[w].late, work[w].checked, 0, work[w].snap)
    BY <2>1, <2>2, Loses
  <2>10. TypeOK'
    BY <1>1, <2>6, <2>7, <2>9 DEF Becomes, Moved, TypeOK, WorkOK, WorkerStates, Pasts
  <2>11. LockQuiet(w)
    BY <1>1, <2>6, <2>9 DEF LockQuiet, Becomes, Moved, InRefresh
  <2>12. Stores(w)
    BY <1>1, <1>2, <2>1, <2>6, <2>8, <2>9 DEF Stores, Becomes, Moved
  <2> QED
    BY <2>10, <2>11, <2>12
<1>3. CASE /\ past' = [past EXCEPT !.orphans = @ \cup Unsaved(w)] \/ Fault({}, Unsaved(w))
           /\ UNCHANGED account
  <2>1. PastGrows /\ work[w].snap.cred \in past'.orphans
    BY <1>1, <1>3, UnsavedType, LossGrows, FaultGrows
  <2> QED
    BY <1>1, <1>3, <2>1, LossIsCalm, CalmStep
<1> QED
  BY <1>2, <1>3 DEF PersistFails

\* The lock is taken, or found to be held.
LEMMA AcquireCalm ==
    ASSUME TypeOK, NEW w \in Workers, AcquireRefreshLock(w)
    PROVE  /\ TypeOK' /\ Calm
           /\ \/ LockQuiet(w)
              \/ /\ lock = None /\ lock' = w /\ work'[w].owns /\ ~work'[w].late
                 /\ past' = past /\ \A v \in Workers \ {w} : work'[v] = work[v]
<1>1. PastGrows
  BY SamePast, FaultGrows DEF AcquireRefreshLock, CacheMiss
<1>2. /\ lock' \in Workers \cup {None}
      /\ UNCHANGED <<setup, account, provider, cache, admin>>
      /\ work[w].pc = "lock" /\ ~work[w].late
  BY DEF AcquireRefreshLock, TypeOK
<1>3. CASE /\ lock = None
           /\ lock' = w
           /\ work' = [work EXCEPT ![w].pc = "reread", ![w].owns = TRUE]
           /\ UNCHANGED past
  <2>1. Becomes(w, "reread", work[w].then, TRUE, work[w].late,
                work[w].checked, work[w].new, work[w].snap)
    BY <1>3, Acquires DEF PCs
  <2>2. CalmWorker(w)
    BY <1>2, <2>1 DEF Becomes, CalmWorker, Rotating, Refused, Finishing
  <2>3. work'[w].owns /\ ~work'[w].late /\ \A v \in Workers \ {w} : work'[v] = work[v]
    BY <1>2, <2>1 DEF Becomes, Moved
  <2>4. TypeOK' /\ Calm
    BY <1>1, <1>2, <2>1, <2>2, CalmStep DEF Becomes
  <2> QED
    BY <1>3, <2>3, <2>4
<1>4. CASE To(w, "check") /\ UNCHANGED lock
  <2>1. Becomes(w, "check", work[w].then, work[w].owns, work[w].late,
                work[w].checked, work[w].new, work[w].snap)
    BY <1>4, GoesOn DEF To, PCs
  <2>2. CalmWorker(w)
    BY <1>2, <2>1 DEF Becomes, CalmWorker, Rotating, Refused, Finishing
  <2>3. LockQuiet(w)
    BY <1>1, <1>4, <2>1 DEF LockQuiet, Becomes, Moved, InRefresh, PastGrows
  <2> QED
    BY <1>1, <1>2, <2>1, <2>2, <2>3, CalmStep DEF Becomes
<1>5. CASE work' = [work EXCEPT ![w] = At("idle")] /\ UNCHANGED lock
  <2>1. Becomes(w, "idle", "idle", FALSE, FALSE, 0, 0, At("idle").snap)
    BY <1>5, Resets DEF PCs
  <2>2. CalmWorker(w)
    BY <1>2, <2>1 DEF Becomes, CalmWorker, Rotating, Refused, Finishing
  <2>3. LockQuiet(w)
    BY <1>1, <1>5, <2>1 DEF LockQuiet, Becomes, Moved, InRefresh, PastGrows
  <2> QED
    BY <1>1, <1>2, <2>1, <2>2, <2>3, CalmStep DEF Becomes
<1> QED
  BY <1>3, <1>4, <1>5 DEF AcquireRefreshLock

\* Redis cannot be reached, and the refresh goes on without the lock.
LEMMA AcquireFailsCalm ==
    ASSUME TypeOK, NEW w \in Workers, AcquireFails(w)
    PROVE  /\ TypeOK' /\ Calm /\ "degraded" \in past'.kinds /\ past.kinds \subseteq past'.kinds
           /\ \A v \in Workers : work'[v].late <=> work[v].late
<1>1. PastGrows /\ past'.kinds = past.kinds \cup {"degraded"}
  BY FaultGrows DEF AcquireFails, Kinds
<1>2. /\ lock' \in Workers \cup {None}
      /\ UNCHANGED <<setup, account, provider, cache, admin>>
      /\ work[w].pc = "lock"
  BY DEF AcquireFails, TypeOK
<1>3. Becomes(w, "reread", work[w].then, work[w].owns, work[w].late,
              work[w].checked, work[w].new, work[w].snap)
  BY GoesOn DEF AcquireFails, To, PCs
<1>4. CalmWorker(w)
  BY <1>2, <1>3 DEF Becomes, CalmWorker, Rotating, Refused, Finishing
<1>5. TypeOK' /\ Calm
  BY <1>1, <1>2, <1>3, <1>4, CalmStep DEF Becomes
<1>6. \A v \in Workers : work'[v].late <=> work[v].late
  BY <1>3 DEF Becomes, Moved
<1> QED
  BY <1>1, <1>5, <1>6

\* A calm worker and a calm rest make a calm step.
LEMMA CalmTogether ==
    ASSUME NEW w \in Workers, Moved(w), CalmRest, CalmWorker(w), UNCHANGED <<setup, admin>>
    PROVE  Calm
<1>1. ASSUME NEW v \in Workers
      PROVE  CalmWorker(v)
  BY <1>1, StillIsCalm DEF Moved
<1>2. ASSUME NEW b \in Admins
      PROVE  CalmAdmin(b)
  BY <1>2, StillAdminIsCalm
<1> QED
  BY <1>1, <1>2 DEF Calm

\* The cached token of a Grok account is dropped.
LEMMA DropCalm ==
    ASSUME TypeOK, DropInv, NEW w \in Workers, DropAccessToken(w)
    PROVE  TypeOK' /\ Calm /\ LockQuiet(w)
<1>1. /\ cache' = 0 /\ work[w].pc = "drop" /\ 0 \in 0..MaxCreds
      /\ UNCHANGED <<setup, account, provider, lock, admin, past>>
  BY RefreshAssumption DEF DropAccessToken
<1>2. Becomes(w, "unlock", work[w].then, work[w].owns, work[w].late,
              work[w].checked, work[w].new, work[w].snap)
  BY GoesOn DEF DropAccessToken, To, PCs
<1>3. CalmWorker(w)
  <2>1. work[w].then # "punish"
    BY <1>1 DEF DropInv
  <2> QED
    BY <1>1, <1>2, <2>1 DEF Becomes, CalmWorker, Rotating, Refused, Finishing
<1>4. CalmRest
  BY <1>1 DEF CalmRest
<1>5. TypeOK'
  BY <1>1, <1>2 DEF Becomes, Moved, TypeOK, WorkOK, WorkerStates
<1>6. LockQuiet(w)
  BY <1>1, <1>2 DEF LockQuiet, Becomes, Moved, InRefresh
<1> QED
  BY <1>1, <1>2, <1>3, <1>4, <1>5, <1>6, CalmTogether DEF Becomes

\* The lock is released, or cannot be.
LEMMA ReleaseCalm ==
    ASSUME TypeOK, NEW w \in Workers, ReleaseRefreshLock(w)
    PROVE  /\ TypeOK' /\ Calm /\ past.kinds \subseteq past'.kinds
           /\ \/ lock' = lock
              \/ lock' = None /\ work[w].owns
           /\ \A v \in Workers \ {w} : work'[v] = work[v]
           /\ work'[w].late => work[w].late
           /\ ~InRefresh(w)' /\ ~work'[w].owns
<1>1. PastGrows
  BY SamePast, FaultGrows DEF ReleaseRefreshLock
<1>2. /\ UNCHANGED <<setup, account, provider, cache, admin>>
      /\ work[w].pc = "unlock"
      /\ \/ lock' = lock
         \/ lock' = None /\ work[w].owns
  BY DEF ReleaseRefreshLock
<1>3. lock' \in Workers \cup {None}
  BY <1>2 DEF TypeOK
<1>4. CASE work' = [work EXCEPT ![w] = At("idle")]
           /\ (work[w].then = "idle" \/ work[w].then = "punish")
  <2>1. Becomes(w, "idle", "idle", FALSE, FALSE, 0, 0, At("idle").snap)
    BY <1>4, Resets DEF PCs
  <2>2. CalmWorker(w)
    BY <1>2, <1>4, <2>1 DEF Becomes, CalmWorker, Rotating, Refused, Finishing
  <2>3. TypeOK' /\ Calm
    BY <1>1, <1>2, <1>3, <2>1, <2>2, CalmStep DEF Becomes
  <2>4. /\ \A v \in Workers \ {w} : work'[v] = work[v]
        /\ ~work'[w].late /\ ~InRefresh(w)' /\ ~work'[w].owns
    BY <2>1 DEF Becomes, Moved, InRefresh
  <2> QED
    BY <1>1, <1>2, <2>3, <2>4 DEF PastGrows
<1>5. CASE /\ work[w].then # "idle"
           /\ work' = [work EXCEPT ![w] =
                  [work[w] EXCEPT !.owns = FALSE, !.pc = work[w].then, !.then = "idle"]]
  <2>1. work[w].then \in {"check", "punish", "after"}
    <3>1. work[w].then \in Thens
      BY Types DEF WorkOK, WorkerStates
    <3> QED
      BY <1>5, <3>1 DEF Thens
  <2>2. Becomes(w, work[w].then, "idle", FALSE, work[w].late,
                work[w].checked, work[w].new, work[w].snap)
    BY <1>5, <2>1, Unlocks DEF PCs
  <2>3. CalmWorker(w)
    BY <1>2, <2>1, <2>2 DEF Becomes, CalmWorker, Rotating, Refused, Finishing
  <2>4. TypeOK' /\ Calm
    BY <1>1, <1>2, <1>3, <2>2, <2>3, CalmStep DEF Becomes
  <2>5. /\ \A v \in Workers \ {w} : work'[v] = work[v]
        /\ work'[w].late => work[w].late
        /\ ~InRefresh(w)' /\ ~work'[w].owns
    BY <2>1, <2>2 DEF Becomes, Moved, InRefresh
  <2> QED
    BY <1>1, <1>2, <2>4, <2>5 DEF PastGrows
<1>6. work' = [work EXCEPT ![w] =
          IF work[w].then = "idle" \/ (work[w].late /\ work[w].then = "punish") THEN At("idle")
          ELSE [work[w] EXCEPT !.owns = FALSE, !.pc = work[w].then, !.then = "idle"]]
  BY DEF ReleaseRefreshLock
<1> QED
  BY <1>4, <1>5, <1>6

\* A worker ends: it forgets everything, and the cache is looked after if it changed the credentials.
LEMMA EndIsCalm ==
    ASSUME TypeOK, NEW w \in Workers, ~Rotating(w), work' = [work EXCEPT ![w] = At("idle")],
           lock' = lock, past.kinds \subseteq past'.kinds,
           Finishing(w) /\ work[w].new # 0 =>
               IsStale(w) \/ cache' \in {0, work[w].snap.cred} \/ "uncached" \in past'.kinds
    PROVE  Moved(w) /\ CalmWorker(w) /\ LockQuiet(w)
<1>1. Becomes(w, "idle", "idle", FALSE, FALSE, 0, 0, At("idle").snap)
  BY Resets DEF PCs
<1>2. CalmWorker(w)
  BY <1>1 DEF Becomes, CalmWorker, Rotating, Refused, Finishing
<1>3. LockQuiet(w)
  BY <1>1 DEF LockQuiet, Becomes, Moved, InRefresh
<1> QED
  BY <1>1, <1>2, <1>3 DEF Becomes

Accounts ==
    [cred : Creds, version : Nat, due : BOOLEAN,
     status : {"active", "error"}, strikes : 0..(Threshold - 1)]

\* A refused refresh token disables the account or counts against it.
LEMMA NonRetryableCalm ==
    ASSUME TypeOK, NEW w \in Workers, HandleNonRetryable(w)
    PROVE  TypeOK' /\ Calm /\ LockQuiet(w)
<1>1. /\ UNCHANGED <<setup, provider, lock, cache, admin, past>>
      /\ work[w].pc = "punish" /\ ~Rotating(w) /\ ~Finishing(w) /\ Refused(w)
  BY DEF HandleNonRetryable, Rotating, Finishing, Refused
<1>2. account \in Accounts
  BY DEF TypeOK, Accounts
<1>3. ASSUME account' \in Accounts, account'.cred = account.cred,
             account'.version = account.version, Moved(w), CalmWorker(w),
             account'.status = "error" => \/ account.status = "error"
                                          \/ setup.grok => account.cred = work[w].snap.cred
      PROVE  TypeOK' /\ Calm
  <2>1. CalmRest
    BY <1>1, <1>3 DEF CalmRest
  <2>2. TypeOK'
    BY <1>1, <1>3 DEF Moved, TypeOK, WorkOK, WorkerStates, Accounts
  <2> QED
    BY <1>1, <1>3, <2>1, <2>2, CalmTogether
<1>4. CASE /\ ~IsDisabled(w)
           /\ account' = [account EXCEPT !.strikes = work[w].snap.strikes + 1]
           /\ work' = [work EXCEPT ![w] = At("idle")]
  <2>1. work[w].snap.strikes \in 0..(Threshold - 1)
    BY Types DEF WorkOK, WorkerStates, Snaps
  <2>2. ~(work[w].snap.strikes + 1 >= Threshold)
    BY <1>4 DEF IsDisabled
  <2>3. work[w].snap.strikes + 1 \in 0..(Threshold - 1)
    BY <2>1, <2>2, RefreshAssumption
  <2>4. account' \in Accounts /\ account'.cred = account.cred
        /\ account'.version = account.version /\ account'.status = account.status
    BY <1>2, <1>4, <2>3 DEF Accounts
  <2> QED
    BY <1>1, <1>3, <1>4, <2>4, EndIsCalm
<1>5. CASE /\ MaySetError(w)
           /\ account' = [account EXCEPT !.status = "error"]
           /\ To(w, "after")
  <2>1. account' \in Accounts /\ account'.cred = account.cred
        /\ account'.version = account.version
    BY <1>2, <1>5 DEF Accounts
  <2>2. Becomes(w, "after", work[w].then, work[w].owns, work[w].late,
                work[w].checked, work[w].new, work[w].snap)
    BY <1>5, GoesOn DEF To, PCs
  <2>3. CalmWorker(w)
    BY <1>1, <2>2 DEF Becomes, CalmWorker, Rotating, Refused, Finishing
  <2>4. LockQuiet(w)
    BY <1>1, <2>2 DEF LockQuiet, Becomes, Moved, InRefresh
  <2>5. setup.grok => account.cred = work[w].snap.cred
    BY <1>5 DEF MaySetError
  <2> QED
    BY <1>3, <2>1, <2>2, <2>3, <2>4, <2>5 DEF Becomes
<1>6. CASE UNCHANGED account /\ work' = [work EXCEPT ![w] = At("idle")]
  BY <1>1, <1>2, <1>3, <1>6, EndIsCalm
<1> QED
  BY <1>4, <1>5, <1>6 DEF HandleNonRetryable

\* The row of a refused account cannot be written.
LEMMA SetErrorFailsCalm ==
    ASSUME TypeOK, NEW w \in Workers, SetErrorFails(w)
    PROVE  TypeOK' /\ Calm /\ LockQuiet(w)
<1>1. /\ lock' = lock /\ lock' \in Workers \cup {None}
      /\ UNCHANGED <<setup, account, provider, cache, admin>>
      /\ work[w].pc = "punish" /\ ~Rotating(w) /\ ~Finishing(w)
  BY DEF SetErrorFails, Rotating, Finishing, TypeOK
<1>2. PastGrows
  BY FaultGrows DEF SetErrorFails
<1>3. CASE To(w, "after")
  <2>1. Becomes(w, "after", work[w].then, work[w].owns, work[w].late,
                work[w].checked, work[w].new, work[w].snap)
    BY <1>3, GoesOn DEF To, PCs
  <2>2. CalmWorker(w)
    BY <1>1, <2>1 DEF Becomes, CalmWorker, Rotating, Refused, Finishing
  <2>3. LockQuiet(w)
    BY <1>1, <1>2, <2>1 DEF LockQuiet, Becomes, Moved, InRefresh, PastGrows
  <2> QED
    BY <1>1, <1>2, <2>1, <2>2, <2>3, CalmStep DEF Becomes
<1>4. CASE work' = [work EXCEPT ![w] = At("idle")]
  <2>1. past.kinds \subseteq past'.kinds
    BY <1>2 DEF PastGrows
  <2> QED
    BY <1>1, <1>2, <1>4, <2>1, EndIsCalm, CalmStep
<1> QED
  BY <1>3, <1>4 DEF SetErrorFails

\* The strikes are taken back and the cached token goes.
LEMMA InvalidateCalm ==
    ASSUME TypeOK, NEW w \in Workers, InvalidateToken(w)
    PROVE  TypeOK' /\ Calm /\ LockQuiet(w)
<1>1. /\ UNCHANGED <<setup, provider, lock, admin>>
      /\ work[w].pc = "after" /\ ~Rotating(w)
      /\ work' = [work EXCEPT ![w] = At("idle")]
  BY DEF InvalidateToken, Rotating
<1>2. account \in Accounts
  BY DEF TypeOK, Accounts
<1>3. account' = account \/ account' = [account EXCEPT !.strikes = 0]
  BY DEF InvalidateToken
<1>4. 0 \in 0..(Threshold - 1) /\ 0 \in 0..MaxCreds
  BY RefreshAssumption
<1>5. account' \in Accounts /\ account'.cred = account.cred
      /\ account'.version = account.version /\ account'.status = account.status
  BY <1>2, <1>3, <1>4 DEF Accounts
<1>6. \/ cache' = 0 /\ PastGrows
      \/ cache' = cache /\ PastGrows /\ "uncached" \in past'.kinds
  BY SamePast, FaultGrows DEF InvalidateToken, Kinds
<1>7. past.kinds \subseteq past'.kinds
  BY <1>6 DEF PastGrows
<1>8. Moved(w) /\ CalmWorker(w) /\ LockQuiet(w)
  BY <1>1, <1>6, <1>7, EndIsCalm
<1>9. CalmRest
  BY <1>1, <1>5, <1>6 DEF CalmRest, PastGrows
<1>10. TypeOK'
  BY <1>1, <1>4, <1>5, <1>6, <1>8 DEF Moved, TypeOK, WorkOK, WorkerStates, Accounts, PastGrows, Pasts
<1> QED
  BY <1>1, <1>8, <1>9, <1>10, CalmTogether

\* A request compares the version of its token with the row's.
LEMMA CheckCalm ==
    ASSUME TypeOK, NEW w \in Workers, CheckTokenVersion(w)
    PROVE  TypeOK' /\ Calm /\ LockQuiet(w)
<1>1. /\ lock' = lock /\ lock' \in Workers \cup {None}
      /\ UNCHANGED <<setup, account, provider, cache, admin>>
      /\ work[w].pc = "check" /\ ~Rotating(w) /\ Finishing(w)
  BY DEF CheckTokenVersion, Rotating, Finishing, TypeOK
<1>2. CASE IsStale(w) /\ work' = [work EXCEPT ![w] = At("idle")] /\ UNCHANGED past
  <2>1. PastGrows /\ past.kinds \subseteq past'.kinds
    BY <1>2, SamePast
  <2>2. Moved(w) /\ CalmWorker(w) /\ LockQuiet(w)
    BY <1>1, <1>2, <2>1, EndIsCalm
  <2> QED
    BY <1>1, <2>1, <2>2, CalmStep
<1>3. CASE /\ ~IsStale(w) /\ UNCHANGED past
           /\ work' = [work EXCEPT ![w].pc = "set", ![w].checked = account.cred]
  <2>0. account.cred \in 0..MaxCreds
    BY Types
  <2>1. Becomes(w, "set", work[w].then, work[w].owns, work[w].late,
                account.cred, work[w].new, work[w].snap)
    BY <1>3, <2>0, ChecksVersion
  <2>2. CalmWorker(w)
    BY <1>1, <1>3, <2>1 DEF Becomes, CalmWorker, Rotating, Refused, Finishing
  <2>3. LockQuiet(w)
    BY <1>1, <1>3, <2>1 DEF LockQuiet, Becomes, Moved, InRefresh
  <2> QED
    BY <1>1, <1>3, <2>1, <2>2, <2>3, SamePast, CalmStep DEF Becomes
<1>4. CASE Fault({"unchecked"}, {}) /\ To(w, "set")
  <2>0. PastGrows /\ "unchecked" \in past'.kinds
    BY <1>4, FaultGrows DEF Kinds
  <2>1. Becomes(w, "set", work[w].then, work[w].owns, work[w].late,
                work[w].checked, work[w].new, work[w].snap)
    BY <1>4, GoesOn DEF To, PCs
  <2>2. CalmWorker(w)
    BY <1>1, <2>0, <2>1 DEF Becomes, CalmWorker, Rotating, Refused, Finishing
  <2>3. LockQuiet(w)
    BY <1>1, <2>0, <2>1 DEF LockQuiet, Becomes, Moved, InRefresh, PastGrows
  <2> QED
    BY <1>1, <2>0, <2>1, <2>2, <2>3, CalmStep DEF Becomes
<1> QED
  BY <1>2, <1>3, <1>4 DEF CheckTokenVersion

\* A request caches its token.
LEMMA SetCalm ==
    ASSUME TypeOK, NEW w \in Workers, SetAccessToken(w)
    PROVE  TypeOK' /\ Calm /\ LockQuiet(w)
<1> DEFINE kinds == IF work[w].checked \notin {0, account.cred} THEN {"raced"} ELSE {}
<1>1. /\ UNCHANGED <<setup, account, provider, lock, admin>>
      /\ work[w].pc = "set" /\ ~Rotating(w)
      /\ cache' = work[w].snap.cred
      /\ work' = [work EXCEPT ![w] = At("idle")]
  BY DEF SetAccessToken, Rotating
<1>2. PastGrows /\ past'.kinds = past.kinds \cup kinds
  <2>1. kinds \in SUBSET Kinds /\ past' = [past EXCEPT !.kinds = @ \cup kinds]
    BY DEF SetAccessToken, Kinds
  <2> HIDE DEF kinds
  <2> QED
    BY <2>1, KindGrows
<1>3. work[w].checked \in {0, account.cred} \/ "raced" \in past'.kinds
  BY <1>2
<1>4. Moved(w) /\ CalmWorker(w) /\ LockQuiet(w)
  BY <1>1, <1>2, EndIsCalm
<1>5. CalmRest
  BY <1>1, <1>2, <1>3 DEF CalmRest, PastGrows
<1>6. work[w].snap.cred \in 0..MaxCreds
  BY Types DEF WorkOK, WorkerStates, Snaps
<1>7. TypeOK'
  BY <1>1, <1>2, <1>4, <1>6 DEF Moved, TypeOK, WorkOK, WorkerStates, PastGrows, Pasts
<1> QED
  BY <1>1, <1>4, <1>5, <1>7, CalmTogether

\* A request ends without having cached its token.
LEMMA RequestEndsCalm ==
    ASSUME TypeOK, NEW w \in Workers, RequestEnds(w)
    PROVE  TypeOK' /\ Calm /\ LockQuiet(w)
<1> DEFINE kinds == IF work[w].new # 0 THEN {"uncached"} ELSE {}
<1>1. /\ lock' = lock /\ lock' \in Workers \cup {None}
      /\ UNCHANGED <<setup, account, provider, cache, admin>>
      /\ work[w].pc \in {"check", "set"} /\ ~Rotating(w)
      /\ work' = [work EXCEPT ![w] = At("idle")]
  BY DEF RequestEnds, Rotating, TypeOK
<1>2. PastGrows /\ past'.kinds = past.kinds \cup kinds
  <2>1. /\ kinds \in SUBSET Kinds
        /\ past' = [past EXCEPT !.kinds = @ \cup kinds] \/ Fault(kinds, {})
    BY DEF RequestEnds, Kinds
  <2> HIDE DEF kinds
  <2> QED
    BY <2>1, KindGrows, FaultGrows
<1>3. Moved(w) /\ CalmWorker(w) /\ LockQuiet(w)
  BY <1>1, <1>2, EndIsCalm
<1> QED
  BY <1>1, <1>2, <1>3, CalmStep

\* A deadline passes.
LEMMA DeadlineCalm ==
    ASSUME TypeOK, NEW w \in Workers, Deadline(w)
    PROVE  TypeOK' /\ Calm /\ "outlived" \in past'.kinds
<1>1. PastGrows /\ "outlived" \in past'.kinds
  BY FaultGrows DEF Deadline, Kinds
<1>2. Becomes(w, work[w].pc, work[w].then, work[w].owns, TRUE,
              work[w].checked, work[w].new, work[w].snap)
  BY GetsLate DEF Deadline
<1>3. CalmWorker(w)
  BY <1>2, StillIsCalm DEF Becomes
<1>4. lock' \in Workers \cup {None} /\ UNCHANGED <<setup, account, provider, cache, admin>>
  BY DEF Deadline, TypeOK
<1> QED
  BY <1>1, <1>2, <1>3, <1>4, CalmStep DEF Becomes

\* A process dies with all its workers.
LEMMA CrashCalm ==
    ASSUME TypeOK, FreshInv, NEW w \in Workers, Crash(w)
    PROVE  /\ TypeOK' /\ Calm /\ lock' = lock /\ past.kinds \subseteq past'.kinds
           /\ \A v \in Workers : work'[v] \in {work[v], At("idle")}
<1> DEFINE Down == {v \in Workers : setup.home[v] = setup.home[w] /\ work[v].pc # "idle"}
           kinds == IF \E v \in Down : work[v].new # 0 THEN {"uncached"} ELSE {}
           lost == UNION {Unsaved(v) : v \in Down}
<1>1. /\ lock' = lock /\ lock' \in Workers \cup {None}
      /\ UNCHANGED <<setup, account, provider, cache, admin>>
      /\ work' = [v \in Workers |-> IF v \in Down THEN At("idle") ELSE work[v]]
      /\ Fault(kinds, lost)
  BY DEF Crash, TypeOK
<1>2. kinds \in SUBSET Kinds
  BY DEF Kinds
<1>3. lost \in SUBSET (0..MaxCreds)
  <2>1. \A v \in Workers : Unsaved(v) \in SUBSET (0..MaxCreds)
    BY Types DEF Unsaved, WorkOK, WorkerStates, Snaps
  <2> QED
    BY <2>1
<1>4. PastGrows /\ past'.kinds = past.kinds \cup kinds /\ past'.orphans = past.orphans \cup lost
  <2> HIDE DEF kinds, lost
  <2> QED
    BY <1>1, <1>2, <1>3, FaultGrows
<1>5. At("idle") \in WorkerStates
  BY RefreshAssumption DEF At, WorkerStates, Snaps, Thens, PCs
<1>6. WorkOK'
  BY <1>1, <1>5, Types DEF WorkOK
<1>7. ASSUME NEW v \in Workers
      PROVE  CalmWorker(v)
  <2>1. CASE v \notin Down
    BY <1>1, <2>1, StillIsCalm
  <2>2. CASE v \in Down
    <3>1. work'[v] = At("idle")
      BY <1>1, <2>2
    <3>2. work'[v].pc = "idle" /\ work'[v].checked = 0 /\ work'[v].snap = At("idle").snap
      BY <3>1 DEF At
    <3>3. Rotating(v) => work[v].snap.cred \in past'.orphans
      <4>1. ASSUME Rotating(v)
            PROVE  work[v].snap.cred \in Unsaved(v)
        BY <4>1, UnsavedType
      <4> QED
        BY <1>4, <2>2, <4>1
    <3>4. work[v].new # 0 => "uncached" \in past'.kinds
      BY <1>4, <2>2
    <3> QED
      BY <3>2, <3>3, <3>4 DEF CalmWorker, Rotating, Refused, Finishing
  <2> QED
    BY <2>1, <2>2
<1>8. CalmRest
  BY <1>1, <1>4 DEF CalmRest, PastGrows
<1>9. TypeOK'
  BY <1>1, <1>4, <1>6 DEF TypeOK, WorkOK, WorkerStates, PastGrows, Pasts
<1>10. \A v \in Workers : work'[v] \in {work[v], At("idle")}
  BY <1>1
<1>11. Calm
  BY <1>1, <1>7, <1>8, StillAdminIsCalm DEF Calm
<1> QED
  BY <1>1, <1>4, <1>9, <1>10, <1>11 DEF PastGrows

\* A step that no worker takes.
LEMMA CalmElsewhere ==
    ASSUME CalmRest, UNCHANGED <<setup, work, admin>>
    PROVE  Calm
BY StillIsCalm, StillAdminIsCalm DEF Calm

\* The lock's lease ends.
LEMMA LockExpiresCalm ==
    ASSUME TypeOK, LockExpires
    PROVE  /\ TypeOK' /\ Calm /\ past.kinds \subseteq past'.kinds
           /\ work[lock].owns /\ IsRequest(lock) => "outlived" \in past'.kinds
<1> DEFINE kinds == IF work[lock].owns /\ IsRequest(lock) THEN {"outlived"} ELSE {}
<1>1. UNCHANGED <<setup, account, provider, cache, work, admin>> /\ lock' = None
  BY DEF LockExpires
<1>2. PastGrows /\ past'.kinds = past.kinds \cup kinds
  <2>1. kinds \in SUBSET Kinds /\ past' = [past EXCEPT !.kinds = @ \cup kinds]
    BY DEF LockExpires, Kinds
  <2> HIDE DEF kinds
  <2> QED
    BY <2>1, KindGrows
<1>3. CalmRest
  BY <1>1, <1>2 DEF CalmRest, PastGrows
<1>4. TypeOK'
  BY <1>1, <1>2 DEF TypeOK, PastGrows, Pasts
<1> QED
  BY <1>1, <1>2, <1>3, <1>4, CalmElsewhere DEF PastGrows

\* Steps that touch neither the workers nor the lock.
ElsewhereSteps == TokenAges \/ CacheExpires

\* The token ages, or the cache expires.
LEMMA ElsewhereCalm ==
    ASSUME TypeOK, ElsewhereSteps
    PROVE  TypeOK' /\ Calm /\ UNCHANGED <<work, lock>> /\ past.kinds \subseteq past'.kinds
<1>0. account \in Accounts /\ 0 \in 0..MaxCreds
  BY RefreshAssumption DEF TypeOK, Accounts
<1>1. CASE TokenAges
  <2>1. /\ account' \in Accounts /\ account'.cred = account.cred
        /\ account'.version = account.version /\ account'.status = account.status
    BY <1>0, <1>1 DEF TokenAges, Accounts
  <2>2. UNCHANGED <<setup, provider, lock, cache, work, admin, past>>
    BY <1>1 DEF TokenAges
  <2>3. CalmRest
    BY <2>1, <2>2 DEF CalmRest
  <2>4. TypeOK'
    BY <2>1, <2>2 DEF TypeOK, Accounts
  <2> QED
    BY <2>2, <2>3, <2>4, CalmElsewhere
<1>2. CASE CacheExpires
  <2>1. UNCHANGED <<setup, account, provider, lock, work, admin, past>> /\ cache' = 0
    BY <1>2 DEF CacheExpires
  <2>2. CalmRest
    BY <2>1 DEF CalmRest
  <2>3. TypeOK'
    BY <1>0, <2>1 DEF TypeOK
  <2> QED
    BY <2>1, <2>2, <2>3, CalmElsewhere
<1> QED
  BY <1>1, <1>2 DEF ElsewhereSteps

-----------------------------------------------------------------------------
(* The administrators' calls                                               *)

\* A call moves: its state after the step, and no other call's changes.
AdminMoved(a) == AdminOK' /\ \A b \in Admins \ {a} : admin'[b] = admin[b]
AdminBecomes(a, pc, seen, row, new) ==
    /\ AdminMoved(a)
    /\ admin'[a].pc = pc /\ admin'[a].seen = seen
    /\ admin'[a].row = row /\ admin'[a].new = new

\* The account is a row, and so is what a call has before it loads one.
LEMMA RowTypes ==
    ASSUME TypeOK
    PROVE  account \in Accounts /\ account \in Rows /\ Blank \in Rows
<1>1. account \in Accounts
  BY DEF TypeOK, Accounts
<1>2. \A c \in Creds : c \in 0..MaxCreds
  BY RefreshAssumption DEF Creds
<1>3. 0 \in 0..MaxCreds /\ 0 \in 0..(Threshold - 1) /\ 0 \in Nat
  BY RefreshAssumption
<1>4. account \in Rows
  BY <1>1, <1>2 DEF Accounts, Rows
<1>5. Blank \in Rows
  BY <1>3 DEF Blank, Rows
<1> QED
  BY <1>1, <1>4, <1>5

\* A call gets a new state.
LEMMA AdminSets ==
    ASSUME AdminOK, NEW a \in Admins, NEW m \in AdminStates, admin' = [admin EXCEPT ![a] = m]
    PROVE  AdminBecomes(a, m.pc, m.seen, m.row, m.new)
BY DEF AdminOK, AdminBecomes, AdminMoved

\* A call goes on without the rows it read (Leaves).
LEMMA AdminLeaves ==
    ASSUME TypeOK, NEW a \in Admins, NEW pc \in AdminPCs, Leaves(a, pc)
    PROVE  AdminBecomes(a, pc, Blank, Blank, 0)
<1>1. Out(pc) \in AdminStates
  BY RowTypes, RefreshAssumption DEF Out, AdminStates
<1>2. /\ Out(pc).pc = pc /\ Out(pc).seen = Blank /\ Out(pc).row = Blank /\ Out(pc).new = 0
  BY DEF Out
<1> QED
  BY <1>1, <1>2, Types, AdminSets DEF Leaves

\* A call goes on (Goes).
LEMMA AdminGoes ==
    ASSUME TypeOK, NEW a \in Admins, NEW pc \in AdminPCs, Goes(a, pc)
    PROVE  AdminBecomes(a, pc, admin[a].seen, admin[a].row, admin[a].new)
<1> DEFINE m == [admin[a] EXCEPT !.pc = pc]
<1>1. admin[a] \in AdminStates
  BY Types DEF AdminOK
<1>2. /\ m \in AdminStates /\ m.pc = pc /\ m.seen = admin[a].seen
      /\ m.row = admin[a].row /\ m.new = admin[a].new
  BY <1>1 DEF AdminStates
<1>3. admin' = [admin EXCEPT ![a] = m]
  BY DEF Goes
<1> HIDE DEF m
<1>4. AdminBecomes(a, m.pc, m.seen, m.row, m.new)
  BY <1>2, <1>3, Types, AdminSets
<1> QED
  BY <1>2, <1>4

\* A call loads the account (StartLoaded).
LEMMA AdminLoads ==
    ASSUME TypeOK, NEW a \in Admins, NEW pc \in AdminPCs,
           admin' = [admin EXCEPT ![a].pc = pc, ![a].seen = account]
    PROVE  AdminBecomes(a, pc, account, admin[a].row, admin[a].new)
<1> DEFINE m == [admin[a] EXCEPT !.pc = pc, !.seen = account]
<1>1. admin[a] \in AdminStates
  BY Types DEF AdminOK
<1>2. /\ m \in AdminStates /\ m.pc = pc /\ m.seen = account
      /\ m.row = admin[a].row /\ m.new = admin[a].new
  BY <1>1, RowTypes DEF AdminStates
<1>3. admin' = [admin EXCEPT ![a] = m]
  OBVIOUS
<1> HIDE DEF m
<1>4. AdminBecomes(a, m.pc, m.seen, m.row, m.new)
  BY <1>2, <1>3, Types, AdminSets
<1> QED
  BY <1>2, <1>4

\* A call reads the row (ReadRow, RecoverAccountState).
LEMMA AdminReads ==
    ASSUME TypeOK, NEW a \in Admins, NEW pc \in AdminPCs,
           admin' = [admin EXCEPT ![a].pc = pc, ![a].row = account]
    PROVE  AdminBecomes(a, pc, admin[a].seen, account, admin[a].new)
<1> DEFINE m == [admin[a] EXCEPT !.pc = pc, !.row = account]
<1>1. admin[a] \in AdminStates
  BY Types DEF AdminOK
<1>2. /\ m \in AdminStates /\ m.pc = pc /\ m.seen = admin[a].seen
      /\ m.row = account /\ m.new = admin[a].new
  BY <1>1, RowTypes DEF AdminStates
<1>3. admin' = [admin EXCEPT ![a] = m]
  OBVIOUS
<1> HIDE DEF m
<1>4. AdminBecomes(a, m.pc, m.seen, m.row, m.new)
  BY <1>2, <1>3, Types, AdminSets
<1> QED
  BY <1>2, <1>4

\* A call gets credentials from the provider (RefreshByHand, StartApply).
LEMMA AdminGets ==
    ASSUME TypeOK, NEW a \in Admins, NEW n \in 0..MaxCreds,
           admin' = [admin EXCEPT ![a].pc = "read", ![a].new = n]
    PROVE  AdminBecomes(a, "read", admin[a].seen, admin[a].row, n)
<1> DEFINE m == [admin[a] EXCEPT !.pc = "read", !.new = n]
<1>1. admin[a] \in AdminStates
  BY Types DEF AdminOK
<1>2. /\ m \in AdminStates /\ m.pc = "read" /\ m.seen = admin[a].seen
      /\ m.row = admin[a].row /\ m.new = n
  BY <1>1 DEF AdminStates, AdminPCs
<1>3. admin' = [admin EXCEPT ![a] = m]
  OBVIOUS
<1> HIDE DEF m
<1>4. AdminBecomes(a, m.pc, m.seen, m.row, m.new)
  BY <1>2, <1>3, Types, AdminSets
<1> QED
  BY <1>2, <1>4

\* A calm call and a calm rest make a calm step.
LEMMA AdminTogether ==
    ASSUME TypeOK, NEW a \in Admins, AdminMoved(a), CalmAdmin(a), CalmRest, PastGrows,
           account' \in Accounts, cache' \in {0, cache}, UNCHANGED <<setup, provider, lock, work>>
    PROVE  TypeOK' /\ Calm /\ UNCHANGED <<work, lock>> /\ past.kinds \subseteq past'.kinds
<1>1. cache' \in 0..MaxCreds
  BY RefreshAssumption DEF TypeOK
<1>2. TypeOK'
  BY <1>1 DEF TypeOK, AdminMoved, AdminOK, AdminStates, Accounts, PastGrows, Pasts
<1>3. \A v \in Workers : CalmWorker(v)
  BY StillIsCalm
<1>4. ASSUME NEW b \in Admins
      PROVE  CalmAdmin(b)
  BY <1>4, StillAdminIsCalm DEF AdminMoved
<1> QED
  BY <1>2, <1>3, <1>4 DEF Calm, PastGrows

\* A calm call that leaves the row alone.
LEMMA AdminAlone ==
    ASSUME TypeOK, NEW a \in Admins, AdminMoved(a), CalmAdmin(a), PastGrows,
           cache' \in {0, cache}, UNCHANGED <<setup, account, provider, lock, work>>
    PROVE  TypeOK' /\ Calm /\ UNCHANGED <<work, lock>> /\ past.kinds \subseteq past'.kinds
<1>1. CalmRest
  BY DEF CalmRest, PastGrows
<1> QED
  BY <1>1, RowTypes, AdminTogether

\* What a call loses is on record as lost.
LEMMA LostType ==
    ASSUME TypeOK, NEW a \in Admins
    PROVE  Lost(a) \in SUBSET (0..MaxCreds) /\ (HoldsAnswer(a) => admin[a].seen.cred \in Lost(a))
<1>1. admin[a].seen.cred \in 0..MaxCreds
  BY Types DEF AdminOK, AdminStates, Rows
<1> QED
  BY <1>1 DEF Lost

\* A call that has read the row, or stops, holds no answer that is not on record as lost.
LEMMA LeavingIsCalm ==
    ASSUME TypeOK, NEW a \in Admins, NEW pc \in {"unblock", "invalidate", "cool", "done"},
           Leaves(a, pc), admin[a].pc # "ready", UNCHANGED setup,
           HoldsAnswer(a) => admin[a].seen.cred \in past'.orphans,
           admin[a].pc \in {"drop", "recover", "clear"}
               => account'.status = "active" \/ "uncleared" \in past'.kinds
    PROVE  AdminMoved(a) /\ CalmAdmin(a)
<1>1. AdminBecomes(a, pc, Blank, Blank, 0)
  BY AdminLeaves DEF AdminPCs
<1> QED
  BY <1>1 DEF AdminBecomes, CalmAdmin, Giving, HoldsAnswer

\* The place where a call ends after an error.
LEMMA BadEnds ==
    ASSUME NEW a \in Admins, Ends(a) \/ EndsBadly(a)
    PROVE  \E pc \in {"unblock", "invalidate", "cool", "done"} : Leaves(a, pc)
BY DEF Ends, EndsBadly

\* The account is loaded.
LEMMA LoadCalm ==
    ASSUME TypeOK, NEW a \in Admins, StartLoaded(a)
    PROVE  TypeOK' /\ Calm /\ UNCHANGED <<work, lock>> /\ past.kinds \subseteq past'.kinds
<1> DEFINE pc == IF IsManual(a) THEN "call" ELSE "read"
<1>1. /\ UNCHANGED <<setup, account, provider, lock, cache, work, past>>
      /\ admin[a].pc = "ready" /\ setup.call[a] \in {"refresh", "plain", "edit"}
  BY DEF StartLoaded
<1>2. pc \in AdminPCs /\ admin' = [admin EXCEPT ![a].pc = pc, ![a].seen = account]
  BY DEF StartLoaded, AdminPCs
<1>3. \/ pc = "call" /\ IsManual(a)
      \/ pc = "read" /\ setup.call[a] = "edit"
  BY <1>1 DEF IsManual
<1> HIDE DEF pc
<1>4. AdminBecomes(a, pc, account, admin[a].row, admin[a].new)
  BY <1>2, AdminLoads
<1>5. CalmAdmin(a)
  BY <1>1, <1>3, <1>4 DEF AdminBecomes, CalmAdmin, Giving, HoldsAnswer, IsManual, Calls
<1> QED
  BY <1>1, <1>4, <1>5, SamePast, AdminAlone DEF AdminBecomes

\* The provider takes the refresh token of a manual refresh, refuses it or does not answer.
LEMMA ByHandStep ==
    ASSUME TypeOK, IssuedInv, NEW a \in Admins, RefreshByHand(a)
    PROVE  TypeOK' /\ (Calm \/ Issues(a)) /\ UNCHANGED <<work, lock>> /\ past.kinds \subseteq past'.kinds
<1>1. /\ UNCHANGED <<setup, account, lock, cache, work>>
      /\ admin[a].pc = "call" /\ IsManual(a) /\ ~HoldsAnswer(a)
  BY DEF RefreshByHand, IssuedInv, HoldsAnswer
<1>2. CASE /\ admin[a].seen.cred \in provider.live /\ provider.issued < MaxCreds
           /\ LET n == provider.issued + 1
                  c == admin[a].seen.cred
              IN  /\ provider' = [issued |-> n, live |-> (provider.live \ {c}) \cup {n},
                                  root |-> [provider.root EXCEPT ![n] = provider.root[c]]]
                  /\ admin' = [admin EXCEPT ![a].pc = "read", ![a].new = n]
           /\ UNCHANGED past
  <2>0. provider.issued \in Creds /\ provider.issued < MaxCreds
    BY <1>2 DEF TypeOK
  <2>1. provider.issued + 1 \in Creds /\ provider.issued + 1 \in 0..MaxCreds
    BY <2>0, RefreshAssumption DEF Creds
  <2>2. AdminBecomes(a, "read", admin[a].seen, admin[a].row, provider.issued + 1)
    BY <1>2, <2>1, AdminGets
  <2>3. Issues(a)
    BY <1>1, <1>2 DEF Issues
  <2>4. admin[a].seen.cred \in Creds
    BY <1>2 DEF TypeOK
  <2>5. provider' \in [issued : Creds, live : SUBSET Creds, root : [Creds -> Creds]]
    BY <1>2, <2>1, <2>4 DEF TypeOK
  <2>6. TypeOK'
    BY <1>1, <1>2, <2>2, <2>5 DEF AdminBecomes, AdminMoved, TypeOK, AdminOK, AdminStates
  <2> QED
    BY <1>1, <1>2, <2>3, <2>6
<1>3. CASE /\ admin[a].seen.cred \notin provider.live
           /\ IF setup.call[a] = "refresh" THEN Goes(a, "disable") ELSE Ends(a)
           /\ UNCHANGED <<provider, past>>
  <2>1. CASE Goes(a, "disable")
    <3>1. AdminBecomes(a, "disable", admin[a].seen, admin[a].row, admin[a].new)
      BY <2>1, AdminGoes DEF AdminPCs
    <3>2. CalmAdmin(a)
      BY <1>1, <1>3, <3>1 DEF AdminBecomes, CalmAdmin, Giving, HoldsAnswer
    <3> QED
      BY <1>1, <1>3, <3>1, <3>2, SamePast, AdminAlone DEF AdminBecomes
  <2>2. CASE Ends(a)
    BY <1>1, <1>3, <2>2, BadEnds, LeavingIsCalm, SamePast, AdminAlone
  <2> QED
    BY <1>3, <2>1, <2>2
<1>4. CASE Fault({}, {}) /\ EndsBadly(a) /\ UNCHANGED provider
  BY <1>1, <1>4, BadEnds, LeavingIsCalm, FaultGrows, AdminAlone
<1> QED
  BY <1>2, <1>3, <1>4 DEF RefreshByHand

\* New credentials are issued for an authorization.
LEMMA ApplyStep ==
    ASSUME TypeOK, NEW a \in Admins, StartApply(a)
    PROVE  TypeOK' /\ Issues(a) /\ UNCHANGED <<work, lock>> /\ past.kinds \subseteq past'.kinds
<1>1. /\ UNCHANGED <<setup, account, lock, cache, work, past>>
      /\ admin[a].pc = "ready" /\ setup.call[a] = "apply" /\ provider.issued < MaxCreds
      /\ provider' = [issued |-> provider.issued + 1,
                      live |-> provider.live \cup {provider.issued + 1},
                      root |-> [provider.root EXCEPT ![provider.issued + 1] = provider.issued + 1]]
      /\ admin' = [admin EXCEPT ![a].pc = "read", ![a].new = provider.issued + 1]
  BY DEF StartApply
<1>2. provider.issued \in Creds
  BY DEF TypeOK
<1>3. provider.issued + 1 \in Creds /\ provider.issued + 1 \in 0..MaxCreds
  BY <1>1, <1>2, RefreshAssumption DEF Creds
<1>4. AdminBecomes(a, "read", admin[a].seen, admin[a].row, provider.issued + 1)
  BY <1>1, <1>3, AdminGets
<1>5. provider' \in [issued : Creds, live : SUBSET Creds, root : [Creds -> Creds]]
  BY <1>1, <1>3 DEF TypeOK
<1>6. TypeOK'
  BY <1>1, <1>4, <1>5 DEF AdminBecomes, AdminMoved, TypeOK, AdminOK, AdminStates
<1>7. Issues(a)
  BY <1>1 DEF Issues
<1> QED
  BY <1>1, <1>6, <1>7

\* The row is read for the update, or the answer is lost before that.
LEMMA ReadRowCalm ==
    ASSUME TypeOK, NEW a \in Admins, ReadRow(a)
    PROVE  TypeOK' /\ Calm /\ UNCHANGED <<work, lock>> /\ past.kinds \subseteq past'.kinds
<1>1. UNCHANGED <<setup, account, provider, lock, cache, work>> /\ admin[a].pc = "read"
  BY DEF ReadRow
<1>2. CASE admin' = [admin EXCEPT ![a].pc = "write", ![a].row = account] /\ UNCHANGED past
  <2>1. AdminBecomes(a, "write", admin[a].seen, account, admin[a].new)
    BY <1>2, AdminReads DEF AdminPCs
  <2>2. CalmAdmin(a)
    BY <1>1, <2>1 DEF AdminBecomes, CalmAdmin, Giving, HoldsAnswer, IsManual
  <2> QED
    BY <1>1, <1>2, <2>1, <2>2, SamePast, AdminAlone DEF AdminBecomes
<1>3. CASE Fault({}, Lost(a)) /\ EndsBadly(a)
  <2>1. PastGrows /\ (HoldsAnswer(a) => admin[a].seen.cred \in past'.orphans)
    BY <1>3, LostType, FaultGrows
  <2> QED
    BY <1>1, <1>3, <2>1, BadEnds, LeavingIsCalm, AdminAlone
<1> QED
  BY <1>2, <1>3 DEF ReadRow

\* The cached token goes after a manual refresh.
LEMMA DropCachedCalm ==
    ASSUME TypeOK, NEW a \in Admins, DropCached(a)
    PROVE  TypeOK' /\ Calm /\ UNCHANGED <<work, lock>> /\ past.kinds \subseteq past'.kinds
<1>1. UNCHANGED <<setup, account, provider, lock, work>> /\ admin[a].pc = "drop"
  BY DEF DropCached
<1>2. cache' \in {0, cache} /\ PastGrows
  BY SamePast, FaultGrows DEF DropCached, Kinds
<1>3. AdminBecomes(a, "recover", admin[a].seen, admin[a].row, admin[a].new)
  BY AdminGoes DEF DropCached, AdminPCs
<1>4. CalmAdmin(a)
  BY <1>1, <1>3 DEF AdminBecomes, CalmAdmin, Giving, HoldsAnswer
<1> QED
  BY <1>1, <1>2, <1>3, <1>4, AdminAlone DEF AdminBecomes

\* A manual refresh looks for an error to clear.
LEMMA RecoverStateCalm ==
    ASSUME TypeOK, NEW a \in Admins, RecoverAccountState(a)
    PROVE  TypeOK' /\ Calm /\ UNCHANGED <<work, lock>> /\ past.kinds \subseteq past'.kinds
<1>1. UNCHANGED <<setup, account, provider, lock, cache, work>> /\ admin[a].pc = "recover"
  BY DEF RecoverAccountState
<1>2. ASSUME NEW pc \in {"clear", "unblock", "invalidate"},
             account.status = "error" => pc = "clear",
             admin' = [admin EXCEPT ![a].pc = pc, ![a].row = account], UNCHANGED past
      PROVE  TypeOK' /\ Calm
  <2>1. AdminBecomes(a, pc, admin[a].seen, account, admin[a].new)
    BY <1>2, AdminReads DEF AdminPCs
  <2>2. account.status \in {"active", "error"}
    BY DEF TypeOK
  <2>3. CalmAdmin(a)
    BY <1>1, <1>2, <2>1, <2>2 DEF AdminBecomes, CalmAdmin, Giving, HoldsAnswer
  <2> QED
    BY <1>1, <1>2, <2>1, <2>3, SamePast, AdminAlone DEF AdminBecomes
<1>3. CASE Fault({"uncleared"}, {}) /\ EndsBadly(a)
  <2>1. PastGrows /\ "uncleared" \in past'.kinds
    BY <1>3, FaultGrows DEF Kinds
  <2> QED
    BY <1>1, <1>3, <2>1, BadEnds, LeavingIsCalm, AdminAlone DEF HoldsAnswer
<1>4. CASE UNCHANGED past /\
           \E pc \in IF account.status = "error" THEN {"clear"} ELSE Unblocks(a, account) :
               admin' = [admin EXCEPT ![a].pc = pc, ![a].row = account]
  <2>1. \A pc \in IF account.status = "error" THEN {"clear"} ELSE Unblocks(a, account) :
            pc \in {"clear", "unblock", "invalidate"} /\ (account.status = "error" => pc = "clear")
    BY DEF Unblocks
  <2> QED
    BY <1>1, <1>2, <1>4, <2>1
<1> QED
  BY <1>3, <1>4 DEF RecoverAccountState

\* A call enables the account, or fails to.
LEMMA ClearErrorCalm ==
    ASSUME TypeOK, NEW a \in Admins, ClearError(a)
    PROVE  TypeOK' /\ Calm /\ UNCHANGED <<work, lock>> /\ past.kinds \subseteq past'.kinds
<1>1. /\ UNCHANGED <<setup, provider, lock, cache, work>>
      /\ admin[a].pc = "clear" /\ ~HoldsAnswer(a)
  BY DEF ClearError, HoldsAnswer
<1>2. CASE /\ account' = [account EXCEPT !.status = "active"] /\ UNCHANGED past
           /\ \E pc \in Unblocks(a, admin[a].row) : Leaves(a, pc)
  <2>1. /\ account' \in Accounts /\ account'.cred = account.cred
        /\ account'.version = account.version /\ account'.status = "active"
    BY <1>2, RowTypes DEF Accounts
  <2>2. \E pc \in {"unblock", "invalidate", "cool", "done"} : Leaves(a, pc)
    BY <1>2 DEF Unblocks
  <2>3. CalmRest
    BY <1>1, <1>2, <2>1 DEF CalmRest
  <2> QED
    BY <1>1, <1>2, <2>1, <2>2, <2>3, SamePast, LeavingIsCalm, AdminTogether
<1>3. CASE /\ Fault({"uncleared"}, {}) /\ UNCHANGED account
           /\ IF setup.call[a] = "apply" THEN Leaves(a, "invalidate") ELSE EndsBadly(a)
  <2>1. PastGrows /\ "uncleared" \in past'.kinds
    BY <1>3, FaultGrows DEF Kinds
  <2>2. \E pc \in {"unblock", "invalidate", "cool", "done"} : Leaves(a, pc)
    BY <1>3, BadEnds
  <2> QED
    BY <1>1, <1>3, <2>1, <2>2, LeavingIsCalm, AdminAlone
<1> QED
  BY <1>2, <1>3 DEF ClearError

\* A call clears the cooldown, or fails to.
LEMMA UnblockCalm ==
    ASSUME TypeOK, NEW a \in Admins, ClearTempUnschedulable(a)
    PROVE  TypeOK' /\ Calm /\ UNCHANGED <<work, lock>> /\ past.kinds \subseteq past'.kinds
<1>1. /\ UNCHANGED <<setup, provider, lock, cache, work>>
      /\ admin[a].pc = "unblock" /\ ~HoldsAnswer(a)
  BY DEF ClearTempUnschedulable, HoldsAnswer
<1>2. 0 \in 0..(Threshold - 1)
  BY RefreshAssumption
<1>3. account' = account \/ account' = [account EXCEPT !.strikes = 0]
  BY DEF ClearTempUnschedulable
<1>4. /\ account' \in Accounts /\ account'.cred = account.cred
      /\ account'.version = account.version /\ account'.status = account.status
  BY <1>2, <1>3, RowTypes DEF Accounts
<1>5. PastGrows
  BY SamePast, FaultGrows DEF ClearTempUnschedulable
<1>6. \E pc \in {"unblock", "invalidate", "cool", "done"} : Leaves(a, pc)
  BY BadEnds DEF ClearTempUnschedulable
<1>7. CalmRest
  BY <1>1, <1>4, <1>5 DEF CalmRest, PastGrows
<1> QED
  BY <1>1, <1>4, <1>5, <1>6, <1>7, LeavingIsCalm, AdminTogether

\* A call drops the cached token.
LEMMA InvalidateCachedCalm ==
    ASSUME TypeOK, NEW a \in Admins, InvalidateCached(a)
    PROVE  TypeOK' /\ Calm /\ UNCHANGED <<work, lock>> /\ past.kinds \subseteq past'.kinds
<1>1. /\ UNCHANGED <<setup, account, provider, lock, work>>
      /\ admin[a].pc = "invalidate" /\ ~HoldsAnswer(a) /\ Ends(a)
  BY DEF InvalidateCached, HoldsAnswer
<1>2. cache' \in {0, cache} /\ PastGrows
  BY SamePast, FaultGrows DEF InvalidateCached, Kinds
<1> QED
  BY <1>1, <1>2, BadEnds, LeavingIsCalm, AdminAlone

\* A refused manual refresh disables the account, or cannot.
LEMMA DisableCalm ==
    ASSUME TypeOK, NEW a \in Admins, SetAccountError(a)
    PROVE  TypeOK' /\ Calm /\ UNCHANGED <<work, lock>> /\ past.kinds \subseteq past'.kinds
<1> DEFINE kinds == IF account.cred # admin[a].seen.cred \/ RotationUnderway THEN {"blind"} ELSE {}
<1>1. /\ UNCHANGED <<setup, provider, lock, cache, work>>
      /\ admin[a].pc = "disable" /\ ~HoldsAnswer(a) /\ Ends(a)
  BY DEF SetAccountError, HoldsAnswer
<1>2. CASE /\ account' = [account EXCEPT !.status = "error"]
           /\ past' = [past EXCEPT !.kinds = @ \cup kinds]
  <2>1. kinds \in SUBSET Kinds
    BY DEF Kinds
  <2>2. PastGrows /\ past'.kinds = past.kinds \cup kinds
    <3> HIDE DEF kinds
    <3> QED
      BY <1>2, <2>1, KindGrows
  <2>3. account' \in Accounts /\ account'.cred = account.cred /\ account'.version = account.version
    BY <1>2, RowTypes DEF Accounts
  <2>4. \/ "blind" \in past'.kinds
        \/ ~RotationUnderway /\ account.cred = admin[a].seen.cred
    BY <2>2
  <2>5. CalmRest
    BY <1>1, <2>2, <2>3, <2>4 DEF CalmRest, PastGrows
  <2> QED
    BY <1>1, <2>2, <2>3, <2>5, BadEnds, LeavingIsCalm, AdminTogether
<1>3. CASE Fault({}, {}) /\ UNCHANGED account
  BY <1>1, <1>3, FaultGrows, BadEnds, LeavingIsCalm, AdminAlone
<1> QED
  BY <1>2, <1>3 DEF SetAccountError

\* A manual refresh that failed writes its cooldown, or cannot.
LEMMA CoolCalm ==
    ASSUME TypeOK, NEW a \in Admins, SetTempUnschedulable(a)
    PROVE  TypeOK' /\ Calm /\ UNCHANGED <<work, lock>> /\ past.kinds \subseteq past'.kinds
<1>1. /\ UNCHANGED <<setup, provider, lock, cache, work, past>>
      /\ admin[a].pc = "cool" /\ ~HoldsAnswer(a) /\ Ends(a)
  BY DEF SetTempUnschedulable, HoldsAnswer
<1>2. 0 \in 0..(Threshold - 1)
  BY RefreshAssumption
<1>3. /\ account' \in Accounts /\ account'.cred = account.cred
      /\ account'.version = account.version /\ account'.status = account.status
  BY <1>2, RowTypes DEF SetTempUnschedulable, Accounts
<1>4. CalmRest
  BY <1>1, <1>3 DEF CalmRest
<1> QED
  BY <1>1, <1>3, <1>4, SamePast, BadEnds, LeavingIsCalm, AdminTogether

\* A call stops half-way.
LEMMA StopCalm ==
    ASSUME TypeOK, NEW a \in Admins, AdminStops(a)
    PROVE  TypeOK' /\ Calm /\ UNCHANGED <<work, lock>> /\ past.kinds \subseteq past'.kinds
<1> DEFINE kinds == IF admin[a].pc \in {"drop", "recover", "clear"} THEN {"uncleared"} ELSE {}
<1>1. /\ UNCHANGED <<setup, account, provider, lock, cache, work>>
      /\ admin[a].pc # "ready" /\ Ends(a) /\ Fault(kinds, Lost(a))
  BY DEF AdminStops
<1>2. kinds \in SUBSET Kinds
  BY DEF Kinds
<1>3. /\ PastGrows /\ past'.kinds = past.kinds \cup kinds
      /\ HoldsAnswer(a) => admin[a].seen.cred \in past'.orphans
  <2> HIDE DEF kinds
  <2> QED
    BY <1>1, <1>2, LostType, FaultGrows
<1>4. admin[a].pc \in {"drop", "recover", "clear"} => "uncleared" \in past'.kinds
  BY <1>3
<1> QED
  BY <1>1, <1>3, <1>4, BadEnds, LeavingIsCalm, AdminAlone

\* The rows that a call may write.
LEMMA UpdatedRows ==
    ASSUME TypeOK, IssuedInv, FreshInv, NEW a \in Admins, admin[a].pc = "write",
           NEW row \in Updated(a)
    PROVE  /\ row \in Accounts
           /\ \/ /\ setup.call[a] = "apply" /\ row.cred = admin[a].new /\ row.version = 0
              \/ /\ IsManual(a) /\ row.cred = admin[a].new /\ row.version = admin[a].seen.version
              \/ /\ setup.call[a] = "edit" /\ row.cred = admin[a].row.cred
                 /\ row.version \in {admin[a].row.version, admin[a].seen.version}
<1> DEFINE old == [admin[a].row EXCEPT !.strikes = account.strikes]
           seen == admin[a].seen
<1>1. admin[a] \in AdminStates
  BY Types DEF AdminOK
<1>2. admin[a].row \in Rows /\ seen \in Rows /\ account.strikes \in 0..(Threshold - 1)
  BY <1>1 DEF AdminStates, TypeOK
<1>3. admin[a].row.cred \in Creds
  <2>1. admin[a].row.cred \in 0..MaxCreds /\ admin[a].row.cred # 0
    BY <1>2 DEF IssuedInv, Rows
  <2> QED
    BY <2>1, RefreshAssumption DEF Creds
<1>4. old \in Accounts /\ old.cred = admin[a].row.cred /\ old.version = admin[a].row.version
  BY <1>2, <1>3 DEF Rows, Accounts
<1>5. seen.version \in Nat /\ seen.due \in BOOLEAN /\ seen.status \in {"active", "error"}
  BY <1>2 DEF Rows
<1>6. ASSUME setup.call[a] \in {"apply", "refresh", "plain"}
      PROVE  admin[a].new \in Creds
  <2>1. Giving(a)
    BY <1>6 DEF Giving
  <2> QED
    BY <2>1 DEF FreshInv, GivesFresh, Unseen, TypeOK
<1>7. CASE setup.call[a] = "apply"
  <2>1. row = [old EXCEPT !.cred = admin[a].new, !.version = 0, !.due = FALSE]
    BY <1>7 DEF Updated, IsManual
  <2> HIDE DEF old
  <2>2. row \in Accounts /\ row.cred = admin[a].new /\ row.version = 0
    BY <1>4, <1>6, <1>7, <2>1 DEF Accounts
  <2> QED
    BY <1>7, <2>2
<1>8. CASE IsManual(a)
  <2>1. row = [old EXCEPT !.cred = admin[a].new, !.version = seen.version, !.due = FALSE]
    BY <1>8 DEF Updated, IsManual
  <2> HIDE DEF old, seen
  <2>2. setup.call[a] \in {"apply", "refresh", "plain"}
    BY <1>8 DEF IsManual
  <2>3. row \in Accounts /\ row.cred = admin[a].new /\ row.version = seen.version
    BY <1>4, <1>5, <1>6, <2>1, <2>2 DEF Accounts
  <2> QED
    BY <1>8, <2>3 DEF seen
<1>9. CASE setup.call[a] = "edit"
  <2>1. PICK f \in {old, seen}, g \in {old, seen} :
            row = [old EXCEPT !.version = f.version, !.due = f.due, !.status = g.status]
    <3>1. ~IsManual(a) /\ setup.call[a] # "apply"
      BY <1>9 DEF IsManual
    <3>2. row \in {[old EXCEPT !.version = f.version, !.due = f.due, !.status = g.status] :
                       f \in {old, seen}, g \in {old, seen}}
      BY <3>1 DEF Updated
    <3> HIDE DEF old, seen
    <3> QED
      BY <3>2
  <2>2. /\ f.version \in {admin[a].row.version, seen.version}
        /\ f.version \in Nat /\ f.due \in BOOLEAN /\ g.status \in {"active", "error"}
    <3>1. old.version \in Nat /\ old.due \in BOOLEAN /\ old.status \in {"active", "error"}
      BY <1>4 DEF Accounts
    <3> QED
      BY <1>4, <1>5, <3>1
  <2> HIDE DEF old, seen
  <2>3. row \in Accounts /\ row.cred = old.cred /\ row.version = f.version
    BY <1>4, <2>1, <2>2 DEF Accounts
  <2> QED
    BY <1>4, <1>9, <2>2, <2>3 DEF seen
<1>10. setup.call[a] \in Calls
  BY DEF IssuedInv
<1> QED
  BY <1>7, <1>8, <1>9, <1>10 DEF Calls, IsManual

\* What the write of a row does to the history.
LEMMA RecordedRow ==
    ASSUME TypeOK, NEW a \in Admins, NEW row \in Accounts, NEW kinds \in SUBSET Kinds,
           NEW p, p = Recorded(a, row, kinds)
    PROVE  /\ p \in Pasts /\ p.stamps = past.stamps
           /\ p.kinds = past.kinds \cup Damage(a, row) \cup kinds
           /\ past.orphans \subseteq p.orphans
           /\ setup.call[a] = "edit" /\ row.cred # account.cred => row.cred \in p.orphans
           /\ p.given = IF setup.call[a] = "apply" THEN row.cred ELSE past.given
           /\ setup.call[a] # "edit" => row.cred \in p.unstamped
           /\ setup.call[a] = "edit" => p.unstamped = past.unstamped
<1> DEFINE k == past.kinds \cup Damage(a, row) \cup kinds
           o == past.orphans \cup (IF setup.call[a] = "edit" /\ row.cred # account.cred
                                   THEN {row.cred} ELSE {})
           g == IF setup.call[a] = "apply" THEN row.cred ELSE past.given
           u == past.unstamped \cup (IF setup.call[a] = "edit" THEN {} ELSE {row.cred})
<1>1. past \in Pasts
  BY DEF TypeOK, Pasts
<1>2. row.cred \in Creds /\ row.cred \in 0..MaxCreds
  BY RefreshAssumption DEF Accounts, Creds
<1>3. Damage(a, row) \in SUBSET Kinds
  BY DEF Damage, Kinds
<1>4. k \in SUBSET Kinds /\ o \in SUBSET (0..MaxCreds) /\ g \in Creds /\ u \in SUBSET Creds
  <2>1. /\ past.kinds \in SUBSET Kinds /\ past.orphans \in SUBSET (0..MaxCreds)
        /\ past.given \in Creds /\ past.unstamped \in SUBSET Creds
    BY <1>1 DEF Pasts
  <2> QED
    BY <1>2, <1>3, <2>1
<1>5. p = [past EXCEPT !.kinds = k, !.orphans = o, !.given = g, !.unstamped = u]
  BY DEF Recorded
<1>6. /\ past.orphans \subseteq o
      /\ setup.call[a] = "edit" /\ row.cred # account.cred => row.cred \in o
      /\ setup.call[a] # "edit" => row.cred \in u
      /\ setup.call[a] = "edit" => u = past.unstamped
  OBVIOUS
<1> HIDE DEF k, o, g, u
<1>7. /\ p \in Pasts /\ p.stamps = past.stamps /\ p.kinds = k /\ p.orphans = o /\ p.given = g
      /\ p.unstamped = u
  BY <1>1, <1>4, <1>5 DEF Pasts
<1> QED
  BY <1>6, <1>7 DEF k, g

\* A row is written: with the credentials of the call, or as it was read.
LEMMA WriteIs ==
    ASSUME TypeOK, IssuedInv, FreshInv, NEW a \in Admins, admin[a].pc = "write",
           NEW row \in Updated(a), NEW kinds \in SUBSET Kinds, account' = row,
           past'.stamps = Recorded(a, row, kinds).stamps,
           past'.kinds = Recorded(a, row, kinds).kinds,
           past'.orphans = Recorded(a, row, kinds).orphans,
           past'.given = Recorded(a, row, kinds).given,
           past'.unstamped = Recorded(a, row, kinds).unstamped, past'.faults \in Nat, past' \in Pasts,
           NEW pc \in {"drop", "clear", "done", "cool"}, Leaves(a, pc),
           setup.call[a] # "edit" /\ row.status = "error" =>
               pc \in {"drop", "clear"} \/ "uncleared" \in Damage(a, row) \cup kinds,
           UNCHANGED <<setup, provider, lock, cache, work>>
    PROVE  TypeOK' /\ Writes(a)
<1> DEFINE p == Recorded(a, row, kinds)
<1>1. /\ row \in Accounts
      /\ \/ /\ setup.call[a] = "apply" /\ row.cred = admin[a].new /\ row.version = 0
         \/ /\ IsManual(a) /\ row.cred = admin[a].new /\ row.version = admin[a].seen.version
         \/ /\ setup.call[a] = "edit" /\ row.cred = admin[a].row.cred
            /\ row.version \in {admin[a].row.version, admin[a].seen.version}
  BY UpdatedRows
<1>2. /\ p.stamps = past.stamps
      /\ p.kinds = past.kinds \cup Damage(a, row) \cup kinds
      /\ past.orphans \subseteq p.orphans
      /\ setup.call[a] = "edit" /\ row.cred # account.cred => row.cred \in p.orphans
      /\ p.given = IF setup.call[a] = "apply" THEN row.cred ELSE past.given
      /\ setup.call[a] # "edit" => row.cred \in p.unstamped
      /\ setup.call[a] = "edit" => p.unstamped = past.unstamped
  BY <1>1, RecordedRow
<1>3. /\ past'.stamps = p.stamps /\ past'.kinds = p.kinds /\ past'.orphans = p.orphans
      /\ past'.given = p.given /\ past'.unstamped = p.unstamped
  OBVIOUS
<1> HIDE DEF p
<1>4. AdminBecomes(a, pc, Blank, Blank, 0)
  BY AdminLeaves DEF AdminPCs
<1>5. TypeOK'
  BY <1>1, <1>4 DEF AdminBecomes, AdminMoved, TypeOK, AdminOK, AdminStates, Accounts, Pasts
<1>6. CASE setup.call[a] = "edit"
  <2>1. row.cred = admin[a].row.cred /\ row.version \in {admin[a].row.version, admin[a].seen.version}
    BY <1>1, <1>6 DEF IsManual
  <2>2. \/ "reverted" \in Damage(a, row)
        \/ /\ row.cred = account.cred /\ row.version = account.version
           /\ row.status = account.status
    <3>1. \/ "reverted" \in Damage(a, row)
          \/ \A f \in {"cred", "version", "status"} : row[f] = account[f]
      BY <1>6 DEF Damage, IsManual
    <3>2. (\A f \in {"cred", "version", "status"} : row[f] = account[f]) =>
              /\ row.cred = account.cred /\ row.version = account.version
              /\ row.status = account.status
      OBVIOUS
    <3> QED
      BY <3>1, <3>2
  <2>3. WritesOld(a)
    BY <1>2, <1>3, <1>6, <2>1, <2>2 DEF WritesOld
  <2> QED
    BY <1>2, <1>3, <1>4, <1>5, <2>3 DEF Writes, AdminBecomes, AdminMoved
<1>7. CASE setup.call[a] # "edit"
  <2>1. /\ setup.call[a] = "apply" \/ IsManual(a)
        /\ row.version \in {0, admin[a].seen.version} /\ row.cred = admin[a].new
    BY <1>1, <1>7
  <2>2. Giving(a)
    BY <2>1 DEF Giving, IsManual
  <2>3. IsManual(a) /\ account.cred # admin[a].seen.cred => "overtaken" \in Damage(a, row)
    BY <1>7 DEF Damage, IsManual
  <2>4. admin'[a].pc = pc
    BY <1>4 DEF AdminBecomes
  <2>5. WritesNew(a)
    BY <1>2, <1>3, <1>7, <2>1, <2>2, <2>3, <2>4 DEF WritesNew
  <2> QED
    BY <1>2, <1>3, <1>4, <1>5, <2>5 DEF Writes, AdminBecomes, AdminMoved
<1> QED
  BY <1>6, <1>7

\* UpdateAccount writes its row.
LEMMA WriteRowStep ==
    ASSUME TypeOK, IssuedInv, FreshInv, NEW a \in Admins, WriteRow(a)
    PROVE  TypeOK' /\ Writes(a) /\ UNCHANGED <<work, lock>> /\ past.kinds \subseteq past'.kinds
<1> DEFINE pc == CASE setup.call[a] = "apply"   -> "clear"
                   [] setup.call[a] = "refresh" -> "drop"
                   [] OTHER -> "done"
<1>1. /\ UNCHANGED <<setup, provider, lock, cache, work>> /\ admin[a].pc = "write"
      /\ Leaves(a, pc)
  BY DEF WriteRow
<1>2. PICK row \in Updated(a) : account' = row /\ past' = Recorded(a, row, {})
  BY DEF WriteRow
<1>3. /\ pc \in {"drop", "clear", "done", "cool"}
      /\ setup.call[a] \in {"apply", "refresh"} => pc \in {"drop", "clear"}
  OBVIOUS
<1>4. setup.call[a] # "edit" /\ row.status = "error" =>
          setup.call[a] \in {"apply", "refresh"} \/ "uncleared" \in Damage(a, row)
  <2>1. setup.call[a] \in Calls
    BY <1>1 DEF IssuedInv
  <2> QED
    BY <2>1 DEF Calls, Damage, IsManual
<1> HIDE DEF pc
<1>5. row \in Accounts
  BY <1>1, UpdatedRows
<1>6. past' \in Pasts
  BY <1>2, <1>5, RecordedRow
<1>7. past'.faults \in Nat
  BY <1>6 DEF Pasts
<1>8. TypeOK' /\ Writes(a)
  BY <1>1, <1>2, <1>3, <1>4, <1>6, <1>7, WriteIs
<1> QED
  BY <1>1, <1>8 DEF Writes

\* The write fails, and was applied or was not.
LEMMA WriteFailsStep ==
    ASSUME TypeOK, IssuedInv, FreshInv, NEW a \in Admins, WriteFails(a)
    PROVE  TypeOK' /\ (Calm \/ Writes(a)) /\ UNCHANGED <<work, lock>> /\ past.kinds \subseteq past'.kinds
<1>1. /\ UNCHANGED <<setup, provider, lock, cache, work>> /\ admin[a].pc = "write"
      /\ EndsBadly(a)
  BY DEF WriteFails
<1>2. CASE Fault({}, Lost(a)) /\ UNCHANGED account
  <2>1. PastGrows /\ (HoldsAnswer(a) => admin[a].seen.cred \in past'.orphans)
    BY <1>2, LostType, FaultGrows
  <2> QED
    BY <1>1, <1>2, <2>1, BadEnds, LeavingIsCalm, AdminAlone
<1>3. ASSUME NEW row \in Updated(a), account' = row,
             past' = [Recorded(a, row, IF row.status = "error" THEN {"uncleared"} ELSE {})
                         EXCEPT !.faults = @ + 1]
      PROVE  TypeOK' /\ Writes(a)
  <2> DEFINE kinds == IF row.status = "error" THEN {"uncleared"} ELSE {}
             p == Recorded(a, row, kinds)
  <2>1. kinds \in SUBSET Kinds /\ (row.status = "error" => "uncleared" \in kinds)
    BY DEF Kinds
  <2>2. row \in Accounts
    BY <1>1, UpdatedRows
  <2>3. past' = [p EXCEPT !.faults = p.faults + 1]
    BY <1>3
  <2> HIDE DEF kinds
  <2>4. p \in Pasts
    BY <2>1, <2>2, RecordedRow
  <2>5. PICK pc \in {"drop", "clear", "done", "cool"} : Leaves(a, pc)
    BY <1>1 DEF EndsBadly
  <2> HIDE DEF p
  <2>6. /\ past' \in Pasts /\ past'.faults \in Nat
        /\ past'.stamps = p.stamps /\ past'.kinds = p.kinds /\ past'.orphans = p.orphans
        /\ past'.given = p.given /\ past'.unstamped = p.unstamped
    BY <2>3, <2>4 DEF Pasts
  <2> QED
    BY <1>1, <1>3, <2>1, <2>5, <2>6, WriteIs DEF p
<1>4. CASE \E row \in Updated(a) :
              /\ account' = row
              /\ past' = [Recorded(a, row, IF row.status = "error" THEN {"uncleared"} ELSE {})
                             EXCEPT !.faults = @ + 1]
  BY <1>1, <1>3, <1>4 DEF Writes
<1> QED
  BY <1>2, <1>4 DEF WriteFails

(* The invariants over the five kinds of step                              *)

\* What the numbers are.
LEMMA Numbers ==
    ASSUME TypeOK
    PROVE  /\ account.cred \in Nat \ {0} /\ account.version \in Nat /\ past.stamps \in Nat
           /\ provider.issued \in Nat \ {0} /\ provider.live \subseteq Nat \ {0}
           /\ \A w \in Workers : /\ work[w].snap.cred \in Nat /\ work[w].snap.version \in Nat
                                 /\ work[w].checked \in Nat /\ work[w].new \in Nat
           /\ \A a \in Admins : /\ admin[a].seen.cred \in Nat /\ admin[a].seen.version \in Nat
                                /\ admin[a].row.cred \in Nat /\ admin[a].row.version \in Nat
                                /\ admin[a].new \in Nat
           /\ Read.cred = account.cred /\ Read.version = account.version
           /\ At("idle").snap.cred = 0 /\ At("idle").snap.version = 0
           /\ Blank.cred = 0 /\ Blank.version = 0
<1>1. /\ account.cred \in Creds /\ account.version \in Nat /\ past.stamps \in Nat
      /\ provider.issued \in Creds /\ provider.live \subseteq Creds
  BY DEF TypeOK
<1>2. \A w \in Workers : /\ work[w].snap.cred \in 0..MaxCreds /\ work[w].snap.version \in Nat
                         /\ work[w].checked \in 0..MaxCreds /\ work[w].new \in 0..MaxCreds
  BY Types DEF WorkOK, WorkerStates, Snaps
<1>3. /\ Read.cred = account.cred /\ Read.version = account.version
      /\ At("idle").snap.cred = 0 /\ At("idle").snap.version = 0
      /\ Blank.cred = 0 /\ Blank.version = 0
  BY DEF Read, At, Blank
<1>4. \A a \in Admins : /\ admin[a].seen.cred \in 0..MaxCreds /\ admin[a].seen.version \in Nat
                        /\ admin[a].row.cred \in 0..MaxCreds /\ admin[a].row.version \in Nat
                        /\ admin[a].new \in 0..MaxCreds
  BY Types DEF AdminOK, AdminStates, Rows
<1> QED
  BY <1>1, <1>2, <1>3, <1>4, RefreshAssumption DEF Creds

\* A calm step keeps what is known of the credentials.
LEMMA CalmKeepsIssued ==
    ASSUME TypeOK, IssuedInv, Calm
    PROVE  IssuedInv'
<1>1. CalmRest
  BY DEF Calm
<1>2. ASSUME NEW v \in Workers
      PROVE  /\ work'[v].snap.cred <= provider.issued
             /\ work'[v].checked <= provider.issued
             /\ work'[v].pc \in {"call", "reply", "persist"} => work'[v].snap.cred # 0
  <2>1. CalmWorker(v)
    BY DEF Calm
  <2>2. work'[v].snap.cred <= provider.issued /\ work'[v].checked <= provider.issued
    BY <2>1, Numbers DEF IssuedInv, CalmWorker
  <2>3. work'[v].pc = "call" => work'[v].snap.cred # 0
    BY <2>1, Numbers DEF IssuedInv, CalmWorker
  <2>4. Rotating(v)' => work'[v].snap.cred # 0
    BY <2>1, Numbers DEF IssuedInv, CalmWorker, Rotating
  <2> QED
    BY <2>2, <2>3, <2>4 DEF Rotating
<1>3. ASSUME NEW b \in Admins
      PROVE  /\ admin'[b].seen.cred <= provider.issued /\ admin'[b].row.cred <= provider.issued
             /\ IsManual(b)' /\ admin'[b].pc \in {"call", "read", "write"}
                    => admin'[b].seen.cred # 0
             /\ admin'[b].pc = "write" => admin'[b].row.cred # 0
             /\ admin'[b].pc = "call" => IsManual(b)'
             /\ admin'[b].pc # "ready" => setup.call[b] \in Calls
  <2>1. CalmAdmin(b) /\ (IsManual(b)' <=> IsManual(b))
    BY <1>1 DEF Calm, CalmRest, IsManual
  <2>2. admin'[b].seen.cred <= provider.issued /\ admin'[b].row.cred <= provider.issued
    BY <2>1, Numbers DEF IssuedInv, CalmAdmin
  <2>3. admin'[b].pc = "call" => IsManual(b) /\ admin'[b].seen.cred # 0
    BY <2>1, Numbers DEF IssuedInv, CalmAdmin
  <2>4. admin'[b].pc = "write" => admin'[b].row.cred # 0
    BY <2>1, Numbers DEF IssuedInv, CalmAdmin
  <2>5. ASSUME IsManual(b), admin'[b].pc \in {"read", "write"}
        PROVE  admin'[b].seen.cred # 0
    <3>1. Giving(b)'
      BY <1>1, <2>5 DEF Giving, IsManual, CalmRest
    <3>2. Giving(b) /\ admin'[b].seen = admin[b].seen
      BY <2>1, <3>1 DEF CalmAdmin
    <3> QED
      BY <2>5, <3>2 DEF IssuedInv, Giving
  <2>6. admin'[b].pc # "ready" => setup.call[b] \in Calls
    BY <2>1 DEF IssuedInv, CalmAdmin
  <2> QED
    BY <2>1, <2>2, <2>3, <2>4, <2>5, <2>6
<1> QED
  BY <1>1, <1>2, <1>3 DEF CalmRest, IssuedInv

\* A calm step shows nobody a credential that was not in the row.
LEMMA CalmKeepsUnseen ==
    ASSUME TypeOK, Calm, NEW n, Unseen(n)
    PROVE  Unseen(n)'
<1>1. CalmRest
  BY DEF Calm
<1>2. n # 0 /\ n # account.cred /\ n \in provider.live
  BY Numbers DEF Unseen
<1>3. ASSUME NEW v \in Workers
      PROVE  work'[v].snap.cred # n /\ work'[v].checked # n
  BY <1>2, Numbers DEF Unseen, Calm, CalmWorker
<1>4. ASSUME NEW b \in Admins
      PROVE  admin'[b].seen.cred # n /\ admin'[b].row.cred # n
  BY <1>2, Numbers DEF Unseen, Calm, CalmAdmin
<1> QED
  BY <1>1, <1>2, <1>3, <1>4 DEF Unseen, CalmRest

\* A calm step keeps the answers that are held.
LEMMA CalmKeepsFresh ==
    ASSUME TypeOK, FreshInv, Calm
    PROVE  FreshInv'
<1>1. CalmRest
  BY DEF Calm
<1>2. ASSUME NEW w \in Workers, Rotating(w)'
      PROVE  HoldsFresh(w)'
  <2>1. Rotating(w) /\ work'[w].new = work[w].new /\ work'[w].snap = work[w].snap
    BY <1>2 DEF Calm, CalmWorker
  <2>2. HoldsFresh(w)
    BY <2>1 DEF FreshInv
  <2>3. PICK n : n = work[w].new
    OBVIOUS
  <2>4. Unseen(work[w].new)'
    <3>1. Unseen(n)
      BY <2>2, <2>3 DEF HoldsFresh
    <3>2. Unseen(n)'
      BY <3>1, CalmKeepsUnseen
    <3> QED
      BY <2>1, <2>3, <3>2
  <2>5. \A v \in Workers : Rotating(v)' /\ work'[v].new = work'[w].new => v = w
    BY <2>1, <2>2 DEF HoldsFresh, Calm, CalmWorker
  <2>6. \A b \in Admins : Giving(b)' => admin'[b].new # work'[w].new
    BY <2>1, <2>2 DEF HoldsFresh, Calm, CalmAdmin
  <2>7. provider'.root[work'[w].new] = provider'.root[work'[w].snap.cred]
    BY <1>1, <2>1, <2>2 DEF HoldsFresh, CalmRest
  <2> QED
    BY <2>4, <2>5, <2>6, <2>7 DEF HoldsFresh
<1>3. ASSUME NEW a \in Admins, Giving(a)'
      PROVE  GivesFresh(a)'
  <2>1. Giving(a) /\ admin'[a].new = admin[a].new /\ admin'[a].seen = admin[a].seen
    BY <1>3 DEF Calm, CalmAdmin
  <2>2. GivesFresh(a)
    BY <2>1 DEF FreshInv
  <2>3. PICK n : n = admin[a].new
    OBVIOUS
  <2>4. Unseen(admin[a].new)'
    <3>1. Unseen(n)
      BY <2>2, <2>3 DEF GivesFresh
    <3>2. Unseen(n)'
      BY <3>1, CalmKeepsUnseen
    <3> QED
      BY <2>1, <2>3, <3>2
  <2>5. \A b \in Admins : Giving(b)' /\ admin'[b].new = admin'[a].new => b = a
    BY <2>1, <2>2 DEF GivesFresh, Calm, CalmAdmin
  <2> QED
    BY <1>1, <2>1, <2>2, <2>4, <2>5 DEF GivesFresh, CalmRest
<1> QED
  BY <1>2, <1>3 DEF FreshInv

\* A calm step gives nobody else's version to the stored credentials.
LEMMA CalmStamped ==
    ASSUME Calm
    PROVE  Stamped' => Stamped
BY DEF Calm, CalmRest, Stamped

\* A calm step keeps what the versions stand for.
LEMMA CalmKeepsVersion ==
    ASSUME TypeOK, VersionInv, Calm
    PROVE  VersionInv'
<1>1. CalmRest /\ (Stamped' => Stamped)
  BY CalmStamped DEF Calm
<1>2. ASSUME NEW v \in Workers
      PROVE  /\ work'[v].snap.version <= past.stamps
             /\ Stamped /\ work'[v].snap.version = past.stamps => work'[v].snap.cred = account.cred
  BY Numbers DEF Calm, CalmWorker, VersionInv
<1>3. ASSUME NEW b \in Admins
      PROVE  admin'[b].seen.version <= past.stamps /\ admin'[b].row.version <= past.stamps
  BY Numbers DEF Calm, CalmAdmin, VersionInv
<1> QED
  BY <1>1, <1>2, <1>3 DEF CalmRest, VersionInv

\* A calm step keeps what the checks of the version found.
LEMMA CalmKeepsChecked ==
    ASSUME TypeOK, VersionInv, CheckedInv, DropInv, Calm
    PROVE  CheckedInv' /\ DropInv'
<1>1. CalmRest /\ (Stamped' => Stamped)
  BY CalmStamped DEF Calm
<1>2. ASSUME NEW v \in Workers, work'[v].pc = "set", "unchecked" \notin past'.kinds
      PROVE  /\ work'[v].checked # 0
             /\ work'[v].checked = account.cred /\ Stamped => work'[v].snap.cred = account.cred
  <2>1. /\ work'[v].snap = work[v].snap
        /\ \/ work[v].pc = "set" /\ work'[v].checked = work[v].checked
           \/ work'[v].checked = account.cred /\ ~IsStale(v)
    BY <1>2 DEF Calm, CalmWorker
  <2>2. CASE work[v].pc = "set" /\ work'[v].checked = work[v].checked
    BY <1>1, <1>2, <2>1, <2>2 DEF CheckedInv, CalmRest
  <2>3. CASE work'[v].checked = account.cred /\ ~IsStale(v)
    <3>1. Stamped => work[v].snap.version = past.stamps
      BY <2>3, Numbers DEF VersionInv, IsStale
    <3> QED
      BY <2>1, <2>3, <3>1, Numbers DEF VersionInv
  <2> QED
    BY <2>1, <2>2, <2>3
<1>3. CheckedInv'
  BY <1>1, <1>2 DEF CalmRest, CheckedInv
<1>4. DropInv'
  BY DEF Calm, CalmWorker, DropInv
<1> QED
  BY <1>3, <1>4

\* A calm step keeps refused credentials refused.
LEMMA CalmKeepsRefused ==
    ASSUME TypeOK, LockInv, IssuedInv, RefusedInv, Calm
    PROVE  RefusedInv'
<1>1. CalmRest
  BY DEF Calm
<1>2. ASSUME NEW w \in Workers, Refused(w)'
      PROVE  /\ work'[w].snap.cred \notin provider.live
             /\ Clear' => \A v \in Workers : Rotating(v)' => work'[v].snap.cred # work'[w].snap.cred
  <2>1. /\ work'[w].snap = work[w].snap
        /\ \/ Refused(w)
           \/ work[w].pc = "call" /\ work[w].snap.cred \notin provider.live
    BY <1>2 DEF Calm, CalmWorker
  <2>2. work'[w].snap.cred \notin provider.live
    BY <2>1 DEF RefusedInv
  <2>3. Clear' => Clear
    BY <1>1 DEF Clear, CalmRest
  <2>4. ASSUME Clear, NEW v \in Workers, Rotating(v)'
        PROVE  work'[v].snap.cred # work'[w].snap.cred
    <3>1. Rotating(v) /\ work'[v].snap = work[v].snap
      BY <2>4 DEF Calm, CalmWorker
    <3>2. CASE Refused(w)
      BY <2>1, <2>4, <3>1, <3>2 DEF RefusedInv
    <3>3. CASE work[w].pc = "call"
      BY <2>4, <3>1, <3>3 DEF LockInv, InRefresh, Rotating
    <3> QED
      BY <2>1, <3>2, <3>3
  <2> QED
    BY <2>2, <2>3, <2>4
<1>3. ASSUME NEW b \in Admins, admin'[b].pc = "disable"
      PROVE  admin'[b].seen.cred \notin provider.live /\ admin'[b].seen.cred <= provider.issued
  BY <1>3 DEF Calm, CalmAdmin, RefusedInv, IssuedInv
<1> QED
  BY <1>1, <1>2, <1>3 DEF CalmRest, RefusedInv

\* A calm step disables a Grok account only for good reasons.
LEMMA CalmKeepsError ==
    ASSUME TypeOK, RefusedInv, ErrorInv, Calm
    PROVE  ErrorInv'
<1>1. CalmRest
  BY DEF Calm
<1>2. SUFFICES ASSUME setup.grok, account'.status = "error", Clear', ~Excused'
               PROVE  DisabledStays'
  BY <1>1 DEF ErrorInv, CalmRest
<1>3. Clear /\ ~Excused /\ "uncleared" \notin past'.kinds /\ "blind" \notin past'.kinds
  BY <1>1, <1>2 DEF Clear, Excused, CalmRest
<1>4. CASE account.status = "error"
  <2>1. DisabledStays
    BY <1>2, <1>3, <1>4 DEF ErrorInv
  <2>2. account'.cred \notin provider'.live \/ AboutToClear'
    <3>1. ASSUME NEW b \in Admins, admin[b].pc \in {"drop", "recover", "clear"}
          PROVE  admin'[b].pc \in {"drop", "recover", "clear"}
      BY <1>2, <1>3, <3>1 DEF Calm, CalmAdmin
    <3> QED
      BY <1>1, <2>1, <3>1 DEF CalmRest, DisabledStays, AboutToClear
  <2>3. ASSUME NEW v \in Workers
        PROVE  /\ Rotating(v)' => work'[v].snap.cred # account.cred
               /\ work'[v].pc = "call" /\ work'[v].snap.cred = account.cred
                      => account.cred \notin provider.live
    BY <1>4, <2>1 DEF Calm, CalmWorker, DisabledStays
  <2> QED
    BY <1>1, <2>2, <2>3 DEF CalmRest, DisabledStays
<1>5. CASE \E w \in Workers : Refused(w) /\ account.cred = work[w].snap.cred
  <2>1. /\ account.cred \notin provider.live
        /\ \A v \in Workers : Rotating(v) => work[v].snap.cred # account.cred
    BY <1>3, <1>5 DEF RefusedInv
  <2>2. ASSUME NEW v \in Workers
        PROVE  Rotating(v)' => work'[v].snap.cred # account.cred
    BY <2>1 DEF Calm, CalmWorker
  <2> QED
    BY <1>1, <2>1, <2>2 DEF CalmRest, DisabledStays
<1>6. CASE /\ ~RotationUnderway
           /\ \E a \in Admins : admin[a].pc = "disable" /\ account.cred = admin[a].seen.cred
  <2>1. /\ account.cred \notin provider.live
        /\ \A v \in Workers : Rotating(v) => work[v].snap.cred # account.cred
    BY <1>6 DEF RefusedInv, RotationUnderway, Rotating
  <2>2. ASSUME NEW v \in Workers
        PROVE  Rotating(v)' => work'[v].snap.cred # account.cred
    BY <2>1 DEF Calm, CalmWorker
  <2> QED
    BY <1>1, <2>1, <2>2 DEF CalmRest, DisabledStays
<1> QED
  BY <1>1, <1>2, <1>3, <1>4, <1>5, <1>6 DEF CalmRest

\* A calm step leaves the cache current or in the hands of the last writer.
LEMMA CalmKeepsCache ==
    ASSUME TypeOK, CheckedInv, CacheInv, Calm
    PROVE  CacheInv'
<1>1. CalmRest /\ (Stamped' => Stamped)
  BY CalmStamped DEF Calm
<1>2. SUFFICES ASSUME past'.kinds \cap {"uncached", "unchecked", "raced"} = {}, Stamped
               PROVE  cache' \in {0, account.cred} \/ \E w \in Workers : LastWriter(w)'
  BY <1>1 DEF CalmRest, CacheInv
<1>3. past.kinds \cap {"uncached", "unchecked", "raced"} = {}
  BY <1>1, <1>2 DEF CalmRest
<1>4. CASE \E w \in Workers : /\ work[w].pc = "set" /\ cache' = work[w].snap.cred
                              /\ work[w].checked \in {0, account.cred} \/ "raced" \in past'.kinds
  BY <1>2, <1>3, <1>4 DEF CheckedInv
<1>5. CASE cache' \in {0, cache}
  <2>1. CASE cache \in {0, account.cred}
    BY <1>5, <2>1
  <2>2. ASSUME NEW w \in Workers, LastWriter(w)
        PROVE  cache' \in {0, account.cred} \/ LastWriter(w)'
    <3>1. Finishing(w) /\ work[w].new # 0 /\ ~IsStale(w)
      BY <2>2, Numbers DEF LastWriter, Finishing, IsStale
    <3>2. \/ Finishing(w)' /\ work'[w].new = work[w].new /\ work'[w].snap = work[w].snap
          \/ cache' \in {0, work[w].snap.cred}
      BY <1>2, <3>1 DEF Calm, CalmWorker
    <3> QED
      BY <1>1, <2>2, <3>2 DEF LastWriter, Finishing, CalmRest
  <2> QED
    BY <1>2, <1>3, <2>1, <2>2 DEF CacheInv
<1> QED
  BY <1>1, <1>4, <1>5 DEF CalmRest

\* A calm step loses no credential off the record, and takes none from the administrator.
LEMMA CalmKeepsStored ==
    ASSUME TypeOK, StoredTokenLives, ReauthorizationSticks, Calm
    PROVE  StoredTokenLives' /\ ReauthorizationSticks'
<1>1. CalmRest
  BY DEF Calm
<1>2. ReauthorizationSticks'
  BY <1>1 DEF ReauthorizationSticks, CalmRest
<1>3. CASE account.cred \in provider.live \cup past.orphans
  BY <1>1, <1>2, <1>3 DEF StoredTokenLives, CalmRest
<1>4. ASSUME NEW w \in Workers, Rotating(w), work[w].snap.cred = account.cred
      PROVE  StoredTokenLives'
  <2>1. CASE Rotating(w)'
    <3>1. Rotating(w)' /\ work'[w].snap.cred = account'.cred
      BY <1>1, <1>4, <2>1 DEF Calm, CalmWorker, CalmRest
    <3> QED
      BY <3>1 DEF Rotating, StoredTokenLives, RotationUnderway
  <2>2. CASE ~Rotating(w)'
    <3>1. account'.cred \in past'.orphans
      BY <1>1, <1>4, <2>2 DEF Calm, CalmWorker, CalmRest
    <3> QED
      BY <3>1 DEF StoredTokenLives
  <2> QED
    BY <2>1, <2>2
<1>5. ASSUME NEW a \in Admins, HoldsAnswer(a), admin[a].seen.cred = account.cred
      PROVE  StoredTokenLives'
  <2>1. CASE HoldsAnswer(a)'
    <3>1. Giving(a)'
      BY <2>1 DEF HoldsAnswer, IsManual, Giving
    <3>2. admin'[a].seen.cred = account'.cred
      BY <1>1, <1>5, <3>1 DEF Calm, CalmAdmin, CalmRest
    <3> QED
      BY <2>1, <3>2 DEF StoredTokenLives, RotationUnderway
  <2>2. CASE ~HoldsAnswer(a)'
    <3>1. account'.cred \in past'.orphans
      BY <1>1, <1>5, <2>2 DEF Calm, CalmAdmin, CalmRest
    <3> QED
      BY <3>1 DEF StoredTokenLives
  <2> QED
    BY <2>1, <2>2
<1> QED
  BY <1>2, <1>3, <1>4, <1>5 DEF StoredTokenLives, RotationUnderway, Rotating

\* All but the lock, which the kinds of step do not tell apart.
Others ==
    /\ IssuedInv /\ FreshInv /\ VersionInv /\ CheckedInv /\ DropInv /\ RefusedInv /\ ErrorInv
    /\ CacheInv /\ StoredTokenLives /\ ReauthorizationSticks

\* A calm step.
LEMMA CalmKeeps ==
    ASSUME TypeOK, LockInv, Others, Calm
    PROVE  Others'
BY CalmKeepsIssued, CalmKeepsFresh, CalmKeepsVersion, CalmKeepsChecked, CalmKeepsRefused,
   CalmKeepsError, CalmKeepsCache, CalmKeepsStored DEF Others

\* The next credential that the provider issues is new to everybody.
LEMMA NextIsNew ==
    ASSUME TypeOK, IssuedInv, FreshInv, provider.issued < MaxCreds, NEW n, n = provider.issued + 1
    PROVE  /\ n \in Nat \ {0} /\ n > provider.issued /\ n \in Creds /\ n \in 0..MaxCreds
           /\ n # account.cred /\ n \notin provider.live
           /\ \A v \in Workers : work[v].snap.cred # n /\ work[v].checked # n
           /\ \A v \in Workers : Rotating(v) => work[v].new # n
           /\ \A b \in Admins : admin[b].seen.cred # n /\ admin[b].row.cred # n
           /\ \A b \in Admins : Giving(b) => admin[b].new # n
<1>1. provider.issued \in Creds
  BY DEF TypeOK
<1>2. n \in Nat \ {0} /\ n > provider.issued /\ n \in Creds /\ n \in 0..MaxCreds
  BY <1>1, RefreshAssumption DEF Creds
<1>3. \A x \in Nat : x <= provider.issued => x # n
  BY <1>2, Numbers
<1>4. n # account.cred /\ n \notin provider.live
  BY <1>2, <1>3, Numbers DEF IssuedInv
<1>5. \A v \in Workers : work[v].snap.cred # n /\ work[v].checked # n
  BY <1>3, Numbers DEF IssuedInv
<1>6. \A b \in Admins : admin[b].seen.cred # n /\ admin[b].row.cred # n
  BY <1>3, Numbers DEF IssuedInv
<1>7. /\ \A v \in Workers : Rotating(v) => work[v].new # n
      /\ \A b \in Admins : Giving(b) => admin[b].new # n
  BY <1>4 DEF FreshInv, HoldsFresh, GivesFresh, Unseen
<1> QED
  BY <1>2, <1>4, <1>5, <1>6, <1>7

\* The use of a refresh token: the answer is fresh, and whoever the provider refused it
\* refused for another credential.
LEMMA UseKeeps ==
    ASSUME TypeOK, Others, NEW w \in Workers, Uses(w)
    PROVE  Others'
<1>a. PICK n, c : n = provider.issued + 1 /\ c = work[w].snap.cred
  OBVIOUS
<1> USE <1>a
<1>0. /\ IssuedInv /\ FreshInv /\ VersionInv /\ CheckedInv /\ DropInv /\ RefusedInv /\ ErrorInv
      /\ CacheInv /\ StoredTokenLives /\ ReauthorizationSticks
  BY DEF Others
<1>1. /\ UNCHANGED <<setup, account, cache, admin, past>>
      /\ work[w].pc = "call" /\ c \in provider.live /\ provider.issued < MaxCreds
      /\ provider'.issued = n /\ provider'.live = (provider.live \ {c}) \cup {n}
      /\ provider'.root = [provider.root EXCEPT ![n] = provider.root[c]]
  BY DEF Uses
<1>2. /\ n \in Nat \ {0} /\ n > provider.issued /\ n \in Creds /\ n \in 0..MaxCreds
      /\ n # account.cred /\ n \notin provider.live
      /\ \A v \in Workers : work[v].snap.cred # n /\ work[v].checked # n
      /\ \A v \in Workers : Rotating(v) => work[v].new # n
      /\ \A b \in Admins : admin[b].seen.cred # n /\ admin[b].row.cred # n
      /\ \A b \in Admins : Giving(b) => admin[b].new # n
  BY <1>0, <1>1, NextIsNew
<1>3. Becomes(w, "reply", work[w].then, work[w].owns, work[w].late, work[w].checked, n, work[w].snap)
  <2>1. work' = [work EXCEPT ![w].pc = "reply", ![w].new = n]
    BY DEF Uses
  <2> QED
    BY <1>2, <2>1, GetsAnswer
<1>4. /\ provider'.root[n] = provider.root[c]
      /\ \A x : x # n => provider'.root[x] = provider.root[x]
  <2>1. provider.root \in [Creds -> Creds]
    BY DEF TypeOK
  <2> QED
    BY <1>1, <1>2, <2>1
<1>5. /\ work'[w].pc = "reply" /\ work'[w].then = work[w].then /\ work'[w].new = n
      /\ work'[w].checked = work[w].checked
      /\ \A v \in Workers : /\ work'[v].snap = work[v].snap
                            /\ work'[v].checked = work[v].checked
                            /\ v # w => work'[v] = work[v]
  BY <1>3 DEF Becomes, Moved
<1>6. \A b \in Admins : Giving(b)' <=> Giving(b)
  BY <1>1 DEF Giving
<1>7. IssuedInv'
  <2>1. provider'.live \subseteq 1..n
    BY <1>0, <1>1, <1>2, Numbers DEF IssuedInv
  <2>2. /\ account.cred <= n
        /\ \A v \in Workers : work[v].snap.cred <= n /\ work[v].checked <= n
        /\ \A b \in Admins : admin[b].seen.cred <= n /\ admin[b].row.cred <= n
    BY <1>0, <1>2, Numbers DEF IssuedInv
  <2>3. \A v \in Workers : work'[v].pc \in {"call", "reply", "persist"} => work[v].snap.cred # 0
    BY <1>0, <1>1, <1>5 DEF IssuedInv
  <2> QED
    BY <1>0, <1>1, <1>5, <2>1, <2>2, <2>3 DEF IssuedInv, IsManual
<1>8. FreshInv'
  <2>0. ASSUME NEW x, Unseen(x)
        PROVE  Unseen(x)' /\ x # c /\ x # n
    BY <1>1, <1>2, <1>5, <2>0 DEF Unseen
  <2>1. ASSUME NEW v \in Workers, Rotating(v)'
        PROVE  HoldsFresh(v)'
    <3>1. CASE v = w
      <4>1. \A u \in Workers : Rotating(u)' /\ work'[u].new = n => u = w
        BY <1>2, <1>5 DEF Rotating
      <4>2. Unseen(n)'
        BY <1>1, <1>2, <1>5 DEF Unseen
      <4>3. \A b \in Admins : Giving(b)' => admin'[b].new # n
        BY <1>1, <1>2, <1>6
      <4>4. provider'.root[n] = provider'.root[work'[w].snap.cred]
        BY <1>2, <1>4, <1>5
      <4> QED
        BY <1>5, <3>1, <4>1, <4>2, <4>3, <4>4 DEF HoldsFresh
    <3>2. CASE v # w
      <4>1. Rotating(v) /\ HoldsFresh(v) /\ work'[v] = work[v]
        BY <1>0, <1>5, <2>1, <3>2 DEF Rotating, FreshInv
      <4>2. PICK x : x = work[v].new
        OBVIOUS
      <4>3. Unseen(x)' /\ x # n
        BY <2>0, <4>1, <4>2 DEF HoldsFresh
      <4>4. \A u \in Workers : Rotating(u)' /\ work'[u].new = x => u = v
        BY <1>5, <4>1, <4>2, <4>3 DEF HoldsFresh, Rotating
      <4>5. \A b \in Admins : Giving(b)' => admin'[b].new # x
        BY <1>1, <1>6, <4>1, <4>2 DEF HoldsFresh
      <4>6. provider'.root[x] = provider'.root[work'[v].snap.cred]
        BY <1>2, <1>4, <4>1, <4>2, <4>3 DEF HoldsFresh
      <4> QED
        BY <4>1, <4>2, <4>3, <4>4, <4>5, <4>6 DEF HoldsFresh
    <3> QED
      BY <3>1, <3>2
  <2>2. ASSUME NEW b \in Admins, Giving(b)'
        PROVE  GivesFresh(b)'
    <3>1. Giving(b) /\ GivesFresh(b) /\ admin'[b] = admin[b]
      BY <1>0, <1>1, <1>6, <2>2 DEF FreshInv
    <3>2. PICK x : x = admin[b].new
      OBVIOUS
    <3>3. Unseen(x)' /\ x # n
      BY <2>0, <3>1, <3>2 DEF GivesFresh
    <3>4. \A d \in Admins : Giving(d)' /\ admin'[d].new = x => d = b
      BY <1>1, <1>6, <3>1, <3>2 DEF GivesFresh
    <3>5. provider'.root[x] = IF setup.call[b] = "apply" THEN x
                              ELSE provider'.root[admin[b].seen.cred]
      BY <1>2, <1>4, <3>1, <3>2, <3>3 DEF GivesFresh
    <3> QED
      BY <1>1, <3>1, <3>2, <3>3, <3>4, <3>5 DEF GivesFresh
  <2> QED
    BY <2>1, <2>2 DEF FreshInv
<1>9. VersionInv'
  BY <1>0, <1>1, <1>5 DEF VersionInv, Stamped
<1>10. CheckedInv' /\ DropInv'
  BY <1>0, <1>1, <1>5 DEF CheckedInv, DropInv, Stamped
<1>11. RefusedInv'
  <2>1. ASSUME NEW v \in Workers, Refused(v)'
        PROVE  /\ work'[v].snap.cred \notin provider'.live
               /\ Clear' => \A u \in Workers : Rotating(u)' => work'[u].snap.cred # work'[v].snap.cred
    <3>1. v # w /\ Refused(v)
      BY <1>5, <2>1 DEF Refused
    <3>2. work[v].snap.cred \notin provider.live
      BY <1>0, <3>1 DEF RefusedInv
    <3>3. work[v].snap.cred # c
      BY <1>1, <3>2
    <3>4. ASSUME Clear', NEW u \in Workers, Rotating(u)'
          PROVE  work[u].snap.cred # work[v].snap.cred
      BY <1>0, <1>1, <1>5, <3>1, <3>3, <3>4 DEF RefusedInv, Clear, Rotating
    <3> QED
      BY <1>1, <1>2, <1>5, <3>2, <3>4
  <2>2. \A b \in Admins : admin'[b].pc = "disable" =>
            admin'[b].seen.cred \notin provider'.live /\ admin'[b].seen.cred <= provider'.issued
    BY <1>0, <1>1, <1>2, Numbers DEF RefusedInv
  <2> QED
    BY <2>1, <2>2 DEF RefusedInv
<1>12. ErrorInv'
  <2>1. SUFFICES ASSUME DisabledStays
                 PROVE  DisabledStays'
    BY <1>0, <1>1 DEF ErrorInv, Clear, Excused
  <2>2. c # account.cred
    BY <1>1, <2>1 DEF DisabledStays
  <2>3. \A v \in Workers : Rotating(v)' => work[v].snap.cred # account.cred
    BY <1>5, <2>1, <2>2 DEF DisabledStays, Rotating
  <2> QED
    BY <1>1, <1>2, <1>5, <2>1, <2>3 DEF DisabledStays, AboutToClear
<1>13. CacheInv'
  BY <1>0, <1>1, <1>5 DEF CacheInv, LastWriter, Stamped
<1>14. StoredTokenLives'
  <2>1. CASE account.cred = c
    <3>1. work'[w].pc = "reply" /\ work'[w].snap.cred = account'.cred
      BY <1>1, <1>5, <2>1
    <3> QED
      BY <3>1 DEF StoredTokenLives, RotationUnderway
  <2>2. CASE account.cred # c /\ account.cred \in provider.live \cup past.orphans
    BY <1>1, <2>2 DEF StoredTokenLives
  <2>3. CASE RotationUnderway
    <3>1. RotationUnderway'
      BY <1>1, <1>5, <2>3 DEF RotationUnderway, HoldsAnswer, IsManual
    <3> QED
      BY <3>1 DEF StoredTokenLives
  <2> QED
    BY <1>0, <2>1, <2>2, <2>3 DEF StoredTokenLives
<1>15. ReauthorizationSticks'
  BY <1>0, <1>1, <1>2, <1>4 DEF ReauthorizationSticks
<1> QED
  BY <1>7, <1>8, <1>9, <1>10, <1>11, <1>12, <1>13, <1>14, <1>15 DEF Others

\* The storing of an answer: nobody has seen it before, and a Grok account gets it only in
\* place of the credential that was used for it.
LEMMA StoreKeeps ==
    ASSUME TypeOK, Others, NEW w \in Workers, Stores(w)
    PROVE  Others'
<1>0. /\ IssuedInv /\ FreshInv /\ VersionInv /\ CheckedInv /\ DropInv /\ RefusedInv /\ ErrorInv
      /\ CacheInv /\ StoredTokenLives /\ ReauthorizationSticks
  BY DEF Others
<1>1. /\ UNCHANGED <<setup, provider, cache, admin>>
      /\ work[w].pc = "persist" /\ MayWrite(w)
      /\ account'.cred = work[w].new /\ account'.version = past.stamps + 1
      /\ account'.status = account.status
      /\ past'.stamps = past.stamps + 1 /\ past'.given = past.given
      /\ past'.unstamped = past.unstamped
      /\ past.orphans \subseteq past'.orphans /\ past.kinds \subseteq past'.kinds
  BY DEF Stores
<1>2. /\ \A v \in Workers \ {w} : work'[v] = work[v]
      /\ work'[w].checked = work[w].checked
      /\ work'[w].pc \in {"drop", "unlock"} /\ work'[w].then \in {"check", "after", "idle"}
      /\ \/ /\ work'[w].new = work[w].new /\ Finishing(w)'
            /\ work'[w].snap.cred = work[w].new /\ work'[w].snap.version = past.stamps + 1
         \/ "uncached" \in past'.kinds /\ work'[w].snap = work[w].snap
  BY DEF Stores
<1>3. Rotating(w) /\ HoldsFresh(w)
  BY <1>0, <1>1 DEF Rotating, FreshInv
<1>4. /\ work[w].new \in provider.live /\ work[w].new \in Nat /\ work[w].new <= provider.issued
      /\ past.stamps + 1 > past.stamps /\ past.stamps + 1 > 0
      /\ past.stamps + 1 <= past.stamps + 1
      /\ \A x \in Nat : x <= past.stamps => x <= past.stamps + 1 /\ x # past.stamps + 1
  BY <1>0, <1>3, Numbers DEF HoldsFresh, Unseen, IssuedInv
<1>5. IssuedInv'
  BY <1>0, <1>1, <1>2, <1>4 DEF IssuedInv, IsManual
<1>6. FreshInv'
  <2>0. ASSUME NEW x, Unseen(x), x # work[w].new
        PROVE  Unseen(x)'
    <3>1. ASSUME NEW u \in Workers
          PROVE  work'[u].snap.cred # x /\ work'[u].checked # x
      <4>1. CASE u = w
        BY <1>2, <2>0, <4>1 DEF Unseen
      <4>2. CASE u # w
        BY <1>2, <2>0, <4>2 DEF Unseen
      <4> QED
        BY <4>1, <4>2
    <3> QED
      BY <1>1, <2>0, <3>1 DEF Unseen
  <2>1. ASSUME NEW v \in Workers, Rotating(v)'
        PROVE  HoldsFresh(v)'
    <3>1. v # w /\ work'[v] = work[v] /\ Rotating(v)
      BY <1>2, <2>1 DEF Rotating
    <3>2. HoldsFresh(v) /\ work[v].new # work[w].new
      BY <1>0, <1>3, <3>1 DEF FreshInv, HoldsFresh
    <3>3. PICK x : x = work[v].new
      OBVIOUS
    <3>4. Unseen(x)'
      BY <2>0, <3>2, <3>3 DEF HoldsFresh
    <3>5. \A u \in Workers : Rotating(u)' /\ work'[u].new = x => u = v
      BY <1>2, <3>2, <3>3 DEF HoldsFresh, Rotating
    <3>6. \A b \in Admins : Giving(b)' => admin'[b].new # x
      BY <1>1, <3>2, <3>3 DEF HoldsFresh, Giving
    <3> QED
      BY <1>1, <3>1, <3>2, <3>3, <3>4, <3>5, <3>6 DEF HoldsFresh
  <2>2. ASSUME NEW b \in Admins, Giving(b)'
        PROVE  GivesFresh(b)'
    <3>1. Giving(b) /\ admin'[b] = admin[b]
      BY <1>1, <2>2 DEF Giving
    <3>2. GivesFresh(b) /\ admin[b].new # work[w].new
      BY <1>0, <1>3, <3>1 DEF FreshInv, HoldsFresh
    <3>3. PICK x : x = admin[b].new
      OBVIOUS
    <3>4. Unseen(x)'
      BY <2>0, <3>2, <3>3 DEF GivesFresh
    <3>5. \A d \in Admins : Giving(d)' /\ admin'[d].new = x => d = b
      BY <1>1, <3>2, <3>3 DEF GivesFresh, Giving
    <3> QED
      BY <1>1, <3>1, <3>2, <3>3, <3>4, <3>5 DEF GivesFresh
  <2> QED
    BY <2>1, <2>2 DEF FreshInv
<1>7. VersionInv'
  <2>1. ASSUME NEW v \in Workers
        PROVE  /\ work'[v].snap.version <= past.stamps + 1
               /\ work'[v].snap.version = past.stamps + 1 => work'[v].snap.cred = work[w].new
    <3>1. work[v].snap.version \in Nat /\ work[v].snap.version <= past.stamps
      BY <1>0, Numbers DEF VersionInv
    <3>2. CASE v # w \/ work'[v].snap = work[v].snap
      BY <1>2, <1>4, <3>1, <3>2
    <3>3. CASE v = w /\ work'[w].snap.cred = work[w].new /\ work'[w].snap.version = past.stamps + 1
      BY <3>3, Numbers
    <3> QED
      BY <1>2, <3>2, <3>3
  <2>2. \A b \in Admins : /\ admin[b].seen.version <= past.stamps + 1
                           /\ admin[b].row.version <= past.stamps + 1
    BY <1>0, <1>4, Numbers DEF VersionInv
  <2> QED
    BY <1>1, <1>4, <2>1, <2>2 DEF VersionInv
<1>8. CheckedInv' /\ DropInv'
  <2>1. ASSUME NEW v \in Workers, work'[v].pc = "set"
        PROVE  "unchecked" \in past'.kinds \/ (work'[v].checked # 0 /\ work'[v].checked # work[w].new)
    <3>1. v # w /\ work'[v] = work[v] /\ work[v].checked # work[w].new
      BY <1>2, <1>3, <2>1 DEF HoldsFresh, Unseen
    <3> QED
      BY <1>0, <1>1, <2>1, <3>1 DEF CheckedInv
  <2>2. CheckedInv'
    BY <1>1, <2>1 DEF CheckedInv
  <2>3. DropInv'
    BY <1>0, <1>2 DEF DropInv
  <2> QED
    BY <2>2, <2>3
<1>9. RefusedInv'
  <2>1. ASSUME NEW v \in Workers, Refused(v)'
        PROVE  /\ work'[v].snap.cred \notin provider'.live
               /\ Clear' => \A u \in Workers : Rotating(u)' => work'[u].snap.cred # work'[v].snap.cred
    <3>1. v # w /\ work'[v] = work[v] /\ Refused(v)
      BY <1>2, <2>1 DEF Refused
    <3>2. Clear' => Clear
      BY <1>1 DEF Clear
    <3>3. \A u \in Workers : Rotating(u)' => Rotating(u) /\ work'[u] = work[u]
      BY <1>2 DEF Rotating
    <3> QED
      BY <1>0, <1>1, <3>1, <3>2, <3>3 DEF RefusedInv
  <2> QED
    BY <1>0, <1>1, <2>1 DEF RefusedInv
<1>10. ErrorInv'
  <2>1. SUFFICES ASSUME setup.grok, account.status = "error", Clear', ~Excused'
                 PROVE  FALSE
    BY <1>1 DEF ErrorInv
  <2>2. DisabledStays
    BY <1>0, <1>1, <2>1 DEF ErrorInv, Clear, Excused
  <2>3. work[w].snap.cred = account.cred
    BY <1>1, <2>1 DEF MayWrite
  <2> QED
    BY <1>3, <2>2, <2>3 DEF DisabledStays
<1>11. CacheInv'
  <2>1. CASE "uncached" \in past'.kinds
    BY <2>1 DEF CacheInv
  <2>2. CASE /\ work'[w].new = work[w].new /\ Finishing(w)'
             /\ work'[w].snap.cred = work[w].new /\ work'[w].snap.version = past.stamps + 1
    <3>1. LastWriter(w)'
      BY <1>1, <2>2 DEF LastWriter, Finishing
    <3> QED
      BY <3>1 DEF CacheInv
  <2> QED
    BY <1>2, <2>1, <2>2
<1>12. StoredTokenLives'
  BY <1>1, <1>4 DEF StoredTokenLives
<1>13. ReauthorizationSticks'
  <2>1. SUFFICES ASSUME setup.grok, past.kinds \cap {"reverted", "overtaken"} = {}
                 PROVE  provider.root[work[w].new] = past.given
    BY <1>1 DEF ReauthorizationSticks
  <2>2. work[w].snap.cred = account.cred
    BY <1>1, <2>1 DEF MayWrite
  <2> QED
    BY <1>0, <1>3, <2>1, <2>2 DEF HoldsFresh, ReauthorizationSticks
<1> QED
  BY <1>5, <1>6, <1>7, <1>8, <1>9, <1>10, <1>11, <1>12, <1>13 DEF Others

\* Credentials that are issued to a call: nobody else has seen them, and whoever the
\* provider refused it refused for another credential.
LEMMA IssueKeeps ==
    ASSUME TypeOK, Others, NEW a \in Admins, Issues(a)
    PROVE  Others'
<1>a. PICK n, c : n = provider.issued + 1 /\ c = admin[a].seen.cred
  OBVIOUS
<1> USE <1>a
<1>0. /\ IssuedInv /\ FreshInv /\ VersionInv /\ CheckedInv /\ DropInv /\ RefusedInv /\ ErrorInv
      /\ CacheInv /\ StoredTokenLives /\ ReauthorizationSticks
  BY DEF Others
<1>1. /\ UNCHANGED <<setup, account, cache, work, past>>
      /\ provider.issued < MaxCreds /\ provider'.issued = n
  BY DEF Issues
<1>b. \/ IsManual(a) /\ setup.call[a] # "apply" /\ admin[a].pc = "call" /\ c \in provider.live
      \/ ~IsManual(a) /\ setup.call[a] = "apply" /\ admin[a].pc = "ready"
  BY DEF Issues, IsManual
<1>2. /\ n \in Nat \ {0} /\ n > provider.issued /\ n \in Creds /\ n \in 0..MaxCreds
      /\ n # account.cred /\ n \notin provider.live
      /\ \A v \in Workers : work[v].snap.cred # n /\ work[v].checked # n
      /\ \A v \in Workers : Rotating(v) => work[v].new # n
      /\ \A b \in Admins : admin[b].seen.cred # n /\ admin[b].row.cred # n
      /\ \A b \in Admins : Giving(b) => admin[b].new # n
  BY <1>0, <1>1, NextIsNew
<1>3. AdminBecomes(a, "read", admin[a].seen, admin[a].row, n)
  <2>1. admin' = [admin EXCEPT ![a].pc = "read", ![a].new = n]
    BY DEF Issues
  <2> QED
    BY <1>2, <2>1, AdminGets
<1>4. /\ provider'.root[n] = IF setup.call[a] = "apply" THEN n ELSE provider.root[c]
      /\ \A x : x # n => provider'.root[x] = provider.root[x]
      /\ n \in provider'.live /\ provider'.live \subseteq provider.live \cup {n}
      /\ \A x \in provider.live : x # c \/ ~IsManual(a) => x \in provider'.live
  <2>0. provider.root \in [Creds -> Creds]
    BY DEF TypeOK
  <2>1. CASE IsManual(a)
    <3>1. /\ setup.call[a] # "apply" /\ provider'.live = (provider.live \ {c}) \cup {n}
          /\ provider'.root = [provider.root EXCEPT ![n] = provider.root[c]]
      BY <2>1 DEF Issues, IsManual
    <3> QED
      BY <1>2, <2>0, <2>1, <3>1
  <2>2. CASE ~IsManual(a)
    <3>1. /\ setup.call[a] = "apply" /\ provider'.live = provider.live \cup {n}
          /\ provider'.root = [provider.root EXCEPT ![n] = n]
      BY <2>2 DEF Issues
    <3> QED
      BY <1>2, <2>0, <2>2, <3>1
  <2> QED
    BY <2>1, <2>2
<1>5. /\ admin'[a].pc = "read" /\ admin'[a].new = n
      /\ \A b \in Admins : /\ admin'[b].seen = admin[b].seen /\ admin'[b].row = admin[b].row
                           /\ b # a => admin'[b] = admin[b]
  BY <1>3 DEF AdminBecomes, AdminMoved
<1>6. IssuedInv'
  <2>1. provider'.live \subseteq 1..n
    <3>1. \A x \in provider.live : x \in Nat \ {0} /\ x <= provider.issued
      BY <1>0, Numbers DEF IssuedInv
    <3> QED
      BY <1>2, <1>4, <3>1, Numbers
  <2>2. /\ account.cred <= n
        /\ \A v \in Workers : work[v].snap.cred <= n /\ work[v].checked <= n
        /\ \A b \in Admins : admin[b].seen.cred <= n /\ admin[b].row.cred <= n
    BY <1>0, <1>2, Numbers DEF IssuedInv
  <2>3. ASSUME NEW b \in Admins
        PROVE  /\ IsManual(b) /\ admin'[b].pc \in {"call", "read", "write"}
                      => admin'[b].seen.cred # 0
               /\ admin'[b].pc = "write" => admin'[b].row.cred # 0
               /\ admin'[b].pc = "call" => IsManual(b)
               /\ admin'[b].pc # "ready" => setup.call[b] \in Calls
    <3>1. CASE b = a
      <4>1. setup.call[a] \in Calls /\ (IsManual(a) => admin[a].seen.cred # 0)
        BY <1>0, <1>b DEF IssuedInv, Calls
      <4> QED
        BY <1>5, <3>1, <4>1
    <3>2. CASE b # a
      BY <1>0, <1>5, <3>2 DEF IssuedInv
    <3> QED
      BY <3>1, <3>2
  <2>4. \A b \in Admins : IsManual(b)' <=> IsManual(b)
    BY <1>1 DEF IsManual
  <2> QED
    BY <1>0, <1>1, <1>5, <2>1, <2>2, <2>3, <2>4 DEF IssuedInv
<1>7. FreshInv'
  <2>0. ASSUME NEW x, Unseen(x)
        PROVE  Unseen(x)' /\ x # n
    <3>1. x # c /\ x \in provider.live
      BY <2>0 DEF Unseen
    <3> QED
      BY <1>1, <1>2, <1>4, <1>5, <2>0, <3>1 DEF Unseen
  <2>1. ASSUME NEW b \in Admins, b # a
        PROVE  Giving(b)' <=> Giving(b)
    BY <1>1, <1>5, <2>1 DEF Giving
  <2>2. ASSUME NEW v \in Workers, Rotating(v)'
        PROVE  HoldsFresh(v)'
    <3>1. Rotating(v) /\ HoldsFresh(v)
      BY <1>0, <1>1, <2>2 DEF Rotating, FreshInv
    <3>2. PICK x : x = work[v].new
      OBVIOUS
    <3>3. Unseen(x)' /\ x # n
      BY <2>0, <3>1, <3>2 DEF HoldsFresh
    <3>4. \A u \in Workers : Rotating(u)' /\ work'[u].new = x => u = v
      BY <1>1, <3>1, <3>2 DEF HoldsFresh, Rotating
    <3>5. \A b \in Admins : Giving(b)' => admin'[b].new # x
      BY <1>5, <2>1, <3>1, <3>2, <3>3 DEF HoldsFresh
    <3>6. provider'.root[x] = provider'.root[work[v].snap.cred]
      BY <1>2, <1>4, <3>1, <3>2, <3>3 DEF HoldsFresh
    <3> QED
      BY <1>1, <3>2, <3>3, <3>4, <3>5, <3>6 DEF HoldsFresh
  <2>3. ASSUME NEW b \in Admins, Giving(b)'
        PROVE  GivesFresh(b)'
    <3>1. CASE b = a
      <4>1. Unseen(n)'
        BY <1>1, <1>2, <1>4, <1>5 DEF Unseen
      <4>2. \A d \in Admins : Giving(d)' /\ admin'[d].new = n => d = a
        BY <1>2, <1>5, <2>1
      <4>3. provider'.root[n] = IF setup.call[a] = "apply" THEN n
                                ELSE provider'.root[admin[a].seen.cred]
        BY <1>2, <1>4
      <4> QED
        BY <1>1, <1>5, <3>1, <4>1, <4>2, <4>3 DEF GivesFresh
    <3>2. CASE b # a
      <4>1. Giving(b) /\ GivesFresh(b) /\ admin'[b] = admin[b]
        BY <1>0, <1>5, <2>1, <2>3, <3>2 DEF FreshInv
      <4>2. PICK x : x = admin[b].new
        OBVIOUS
      <4>3. Unseen(x)' /\ x # n
        BY <2>0, <4>1, <4>2 DEF GivesFresh
      <4>4. \A d \in Admins : Giving(d)' /\ admin'[d].new = x => d = b
        BY <1>5, <2>1, <4>1, <4>2, <4>3 DEF GivesFresh
      <4>5. provider'.root[x] = IF setup.call[b] = "apply" THEN x
                                ELSE provider'.root[admin[b].seen.cred]
        BY <1>2, <1>4, <4>1, <4>2, <4>3 DEF GivesFresh
      <4> QED
        BY <1>1, <4>1, <4>2, <4>3, <4>4, <4>5 DEF GivesFresh
    <3> QED
      BY <3>1, <3>2
  <2> QED
    BY <2>2, <2>3 DEF FreshInv
<1>8. VersionInv'
  BY <1>0, <1>1, <1>5 DEF VersionInv, Stamped
<1>9. CheckedInv' /\ DropInv'
  BY <1>0, <1>1 DEF CheckedInv, DropInv, Stamped
<1>10. RefusedInv'
  <2>1. ASSUME NEW v \in Workers, Refused(v)'
        PROVE  /\ work'[v].snap.cred \notin provider'.live
               /\ Clear' => \A u \in Workers : Rotating(u)' => work'[u].snap.cred # work'[v].snap.cred
    BY <1>0, <1>1, <1>2, <1>4, <2>1 DEF RefusedInv, Refused, Rotating, Clear
  <2>2. ASSUME NEW b \in Admins, admin'[b].pc = "disable"
        PROVE  admin'[b].seen.cred \notin provider'.live /\ admin'[b].seen.cred <= provider'.issued
    <3>1. b # a /\ admin'[b] = admin[b]
      BY <1>5, <2>2
    <3> QED
      BY <1>0, <1>1, <1>2, <1>4, <2>2, <3>1, Numbers DEF RefusedInv
  <2> QED
    BY <2>1, <2>2 DEF RefusedInv
<1>11. ErrorInv'
  <2>1. SUFFICES ASSUME DisabledStays
                 PROVE  DisabledStays'
    BY <1>0, <1>1 DEF ErrorInv, Clear, Excused
  <2>2. AboutToClear => AboutToClear'
    BY <1>b, <1>5 DEF AboutToClear
  <2>3. account.cred \notin provider.live => account'.cred \notin provider'.live
    BY <1>1, <1>2, <1>4
  <2> QED
    BY <1>1, <2>1, <2>2, <2>3 DEF DisabledStays, Rotating
<1>12. CacheInv'
  BY <1>0, <1>1 DEF CacheInv, LastWriter, Stamped
<1>13. StoredTokenLives'
  <2>1. CASE IsManual(a) /\ account.cred = c
    <3>1. HoldsAnswer(a)' /\ admin'[a].seen.cred = account'.cred
      BY <1>1, <1>5, <2>1 DEF HoldsAnswer, IsManual
    <3> QED
      BY <3>1 DEF StoredTokenLives, RotationUnderway
  <2>2. CASE account.cred \in provider.live /\ (account.cred # c \/ ~IsManual(a))
    <3>1. account.cred \in provider'.live
      BY <1>4, <2>2
    <3> QED
      BY <1>1, <3>1 DEF StoredTokenLives
  <2>3. CASE account.cred \in past.orphans
    BY <1>1, <2>3 DEF StoredTokenLives
  <2>4. CASE RotationUnderway
    <3>1. RotationUnderway'
      BY <1>1, <1>5, <2>4 DEF RotationUnderway, HoldsAnswer, IsManual
    <3> QED
      BY <3>1 DEF StoredTokenLives
  <2> QED
    BY <1>0, <2>1, <2>2, <2>3, <2>4 DEF StoredTokenLives
<1>14. ReauthorizationSticks'
  BY <1>0, <1>1, <1>2, <1>4 DEF ReauthorizationSticks
<1> QED
  BY <1>6, <1>7, <1>8, <1>9, <1>10, <1>11, <1>12, <1>13, <1>14 DEF Others

\* The write of a whole row: with credentials that nobody has seen, or as an edit that
\* changes nothing of interest or is on record.
LEMMA WriteKeeps ==
    ASSUME TypeOK, Others, NEW a \in Admins, Writes(a)
    PROVE  Others'
<1>0. /\ IssuedInv /\ FreshInv /\ VersionInv /\ CheckedInv /\ DropInv /\ RefusedInv /\ ErrorInv
      /\ CacheInv /\ StoredTokenLives /\ ReauthorizationSticks
  BY DEF Others
<1>1. /\ UNCHANGED <<setup, provider, cache, work>>
      /\ admin[a].pc = "write" /\ \A b \in Admins \ {a} : admin'[b] = admin[b]
      /\ admin'[a].pc \in {"drop", "clear", "done", "cool"}
      /\ admin'[a].seen = Blank /\ admin'[a].row = Blank
      /\ past'.stamps = past.stamps
      /\ past.orphans \subseteq past'.orphans /\ past.kinds \subseteq past'.kinds
      /\ WritesNew(a) \/ WritesOld(a)
  BY DEF Writes
<1>2. /\ \A b \in Admins : Giving(b)' => b # a /\ Giving(b)
      /\ \A b \in Admins : IsManual(b)' <=> IsManual(b)
      /\ Clear' => Clear
  BY <1>1 DEF Giving, IsManual, Clear
<1>3. account'.cred \in {admin[a].new, admin[a].row.cred}
  BY <1>1 DEF WritesNew, WritesOld
<1>4. IssuedInv'
  <2>1. account'.cred <= provider.issued
    <3>1. CASE WritesNew(a)
      <4>1. account'.cred \in provider.live
        BY <1>0, <3>1 DEF WritesNew, FreshInv, GivesFresh, Unseen
      <4> QED
        BY <1>0, <4>1, Numbers DEF IssuedInv
    <3>2. CASE WritesOld(a)
      BY <1>0, <3>2 DEF WritesOld, IssuedInv
    <3> QED
      BY <1>1, <3>1, <3>2
  <2>2. ASSUME NEW b \in Admins
        PROVE  /\ admin'[b].seen.cred <= provider.issued /\ admin'[b].row.cred <= provider.issued
               /\ IsManual(b) /\ admin'[b].pc \in {"call", "read", "write"}
                      => admin'[b].seen.cred # 0
               /\ admin'[b].pc = "write" => admin'[b].row.cred # 0
               /\ admin'[b].pc = "call" => IsManual(b)
               /\ admin'[b].pc # "ready" => setup.call[b] \in Calls
    <3>1. CASE b = a
      BY <1>0, <1>1, <3>1, Numbers DEF IssuedInv
    <3>2. CASE b # a
      BY <1>0, <1>1, <3>2 DEF IssuedInv
    <3> QED
      BY <3>1, <3>2
  <2> QED
    BY <1>0, <1>1, <1>2, <2>1, <2>2 DEF IssuedInv
<1>5. FreshInv'
  <2>0. ASSUME NEW x, Unseen(x), WritesNew(a) => x # admin[a].new
        PROVE  Unseen(x)'
    <3>1. x # account'.cred
      BY <1>1, <2>0 DEF Unseen, WritesNew, WritesOld
    <3>2. x # 0
      BY <2>0, Numbers DEF Unseen
    <3>3. ASSUME NEW b \in Admins
          PROVE  admin'[b].seen.cred # x /\ admin'[b].row.cred # x
      BY <1>1, <2>0, <3>2, Numbers DEF Unseen
    <3> QED
      BY <1>1, <2>0, <3>1, <3>3 DEF Unseen
  <2>1. ASSUME NEW v \in Workers, Rotating(v)'
        PROVE  HoldsFresh(v)'
    <3>1. Rotating(v) /\ HoldsFresh(v)
      BY <1>0, <1>1, <2>1 DEF Rotating, FreshInv
    <3>2. PICK x : x = work[v].new
      OBVIOUS
    <3>3. Unseen(x)'
      BY <2>0, <3>1, <3>2 DEF HoldsFresh, WritesNew
    <3>4. \A u \in Workers : Rotating(u)' /\ work'[u].new = x => u = v
      BY <1>1, <3>1, <3>2 DEF HoldsFresh, Rotating
    <3>5. \A b \in Admins : Giving(b)' => admin'[b].new # x
      BY <1>1, <1>2, <3>1, <3>2 DEF HoldsFresh
    <3> QED
      BY <1>1, <3>1, <3>2, <3>3, <3>4, <3>5 DEF HoldsFresh
  <2>2. ASSUME NEW b \in Admins, Giving(b)'
        PROVE  GivesFresh(b)'
    <3>1. b # a /\ Giving(b) /\ GivesFresh(b) /\ admin'[b] = admin[b]
      BY <1>0, <1>1, <1>2, <2>2 DEF FreshInv
    <3>2. PICK x : x = admin[b].new
      OBVIOUS
    <3>3. WritesNew(a) => x # admin[a].new
      BY <3>1, <3>2 DEF WritesNew, GivesFresh
    <3>4. Unseen(x)'
      BY <2>0, <3>1, <3>2, <3>3 DEF GivesFresh
    <3>5. \A d \in Admins : Giving(d)' /\ admin'[d].new = x => d = b
      BY <1>1, <1>2, <3>1, <3>2 DEF GivesFresh
    <3> QED
      BY <1>1, <3>1, <3>2, <3>4, <3>5 DEF GivesFresh
  <2> QED
    BY <2>1, <2>2 DEF FreshInv
<1>6. RefusedInv' /\ DropInv'
  <2>1. \A b \in Admins : admin'[b].pc = "disable" => admin[b].pc = "disable" /\ admin'[b] = admin[b]
    BY <1>1
  <2> QED
    BY <1>0, <1>1, <1>2, <2>1 DEF RefusedInv, Refused, Rotating, DropInv
<1>7. /\ account'.version <= past.stamps
      /\ \A b \in Admins : admin'[b].seen.version <= past.stamps /\ admin'[b].row.version <= past.stamps
  <2>1. account'.version <= past.stamps
    BY <1>0, <1>1, Numbers DEF VersionInv, WritesNew, WritesOld
  <2>2. ASSUME NEW b \in Admins
        PROVE  admin'[b].seen.version <= past.stamps /\ admin'[b].row.version <= past.stamps
    BY <1>0, <1>1, Numbers DEF VersionInv
  <2> QED
    BY <2>1, <2>2
<1>8. CASE WritesNew(a)
  <2>1. /\ Giving(a) /\ account'.cred = admin[a].new /\ GivesFresh(a)
        /\ admin[a].new \in provider.live
    BY <1>0, <1>8 DEF WritesNew, FreshInv, GivesFresh, Unseen
  <2>2. ~Stamped'
    BY <1>8 DEF WritesNew, Stamped
  <2>3. VersionInv'
    BY <1>0, <1>1, <1>7, <2>2 DEF VersionInv
  <2>4. CheckedInv'
    BY <1>0, <1>1, <2>2 DEF CheckedInv
  <2>5. ErrorInv'
    <3>1. SUFFICES ASSUME account'.status = "error", ~Excused'
                   PROVE  DisabledStays'
      BY DEF ErrorInv
    <3>2. AboutToClear'
      BY <1>8, <3>1 DEF WritesNew, Excused, AboutToClear
    <3>3. \A v \in Workers : work'[v].snap.cred # account'.cred
      BY <1>1, <2>1 DEF GivesFresh, Unseen
    <3> QED
      BY <3>2, <3>3 DEF DisabledStays
  <2>6. CacheInv'
    BY <2>2 DEF CacheInv
  <2>7. StoredTokenLives'
    BY <1>1, <2>1 DEF StoredTokenLives
  <2>8. ReauthorizationSticks'
    <3>1. SUFFICES ASSUME setup.grok, past'.kinds \cap {"reverted", "overtaken"} = {}
                   PROVE  provider.root[admin[a].new] = past'.given
      BY <1>1, <2>1 DEF ReauthorizationSticks
    <3>2. CASE setup.call[a] = "apply"
      BY <1>8, <2>1, <3>2 DEF WritesNew, GivesFresh
    <3>3. CASE setup.call[a] # "apply"
      <4>1. account.cred = admin[a].seen.cred /\ past'.given = past.given
        BY <1>8, <2>1, <3>1, <3>3 DEF WritesNew, Giving, IsManual
      <4>2. provider.root[account.cred] = past.given
        BY <1>0, <1>1, <3>1 DEF ReauthorizationSticks
      <4> QED
        BY <2>1, <3>3, <4>1, <4>2 DEF GivesFresh
    <3> QED
      BY <3>2, <3>3
  <2> QED
    BY <1>4, <1>5, <1>6, <2>3, <2>4, <2>5, <2>6, <2>7, <2>8 DEF Others
<1>9. CASE WritesOld(a)
  <2>1. /\ past'.given = past.given /\ past'.unstamped = past.unstamped
        /\ \/ "reverted" \in past'.kinds
           \/ /\ account'.cred = account.cred /\ account'.version = account.version
              /\ account'.status = account.status
        /\ account'.cred # account.cred => account'.cred \in past'.orphans
        /\ ~HoldsAnswer(a)
    BY <1>9 DEF WritesOld, HoldsAnswer, IsManual
  <2>2. Stamped' => /\ Stamped /\ account'.cred = account.cred
                    /\ account'.version = account.version
    BY <1>1, <2>1 DEF Stamped
  <2>3. VersionInv'
    BY <1>0, <1>1, <1>7, <2>2 DEF VersionInv
  <2>4. CheckedInv'
    BY <1>0, <1>1, <2>2 DEF CheckedInv
  <2>5. ErrorInv'
    <3>1. SUFFICES ASSUME setup.grok, account'.status = "error", Clear, ~Excused'
                   PROVE  DisabledStays'
      BY <1>1, <1>2 DEF ErrorInv
    <3>2. ~Excused /\ account'.cred = account.cred /\ account'.status = account.status
      BY <1>1, <2>1, <3>1 DEF Excused
    <3>3. DisabledStays
      BY <1>0, <3>1, <3>2 DEF ErrorInv
    <3>4. AboutToClear => AboutToClear'
      BY <1>1 DEF AboutToClear
    <3> QED
      BY <1>1, <3>2, <3>3, <3>4 DEF DisabledStays, Rotating
  <2>6. CacheInv'
    BY <1>0, <1>1, <2>2 DEF CacheInv, LastWriter
  <2>7. StoredTokenLives'
    <3>1. CASE account'.cred # account.cred
      BY <2>1, <3>1 DEF StoredTokenLives
    <3>2. CASE account'.cred = account.cred /\ account.cred \in provider.live \cup past.orphans
      BY <1>1, <3>2 DEF StoredTokenLives
    <3>3. CASE account'.cred = account.cred /\ RotationUnderway
      <4>1. \A b \in Admins : HoldsAnswer(b) => HoldsAnswer(b)' /\ admin'[b] = admin[b]
        BY <1>1, <2>1 DEF HoldsAnswer, IsManual
      <4>2. RotationUnderway'
        BY <1>1, <3>3, <4>1 DEF RotationUnderway
      <4> QED
        BY <4>2 DEF StoredTokenLives
    <3> QED
      BY <1>0, <3>1, <3>2, <3>3 DEF StoredTokenLives
  <2>8. ReauthorizationSticks'
    BY <1>0, <1>1, <2>1 DEF ReauthorizationSticks
  <2> QED
    BY <1>4, <1>5, <1>6, <2>3, <2>4, <2>5, <2>6, <2>7, <2>8 DEF Others
<1> QED
  BY <1>1, <1>8, <1>9

-----------------------------------------------------------------------------
(* The lock                                                                *)

\* Who neither takes nor gives back the lock changes nothing about who holds it.
LEMMA QuietKeepsLock ==
    ASSUME LockInv, NEW w \in Workers, LockQuiet(w)
    PROVE  LockInv'
<1>1. /\ lock' = lock /\ past.kinds \subseteq past'.kinds
      /\ \A v \in Workers \ {w} : work'[v] = work[v]
      /\ work'[w].late => work[w].late
  BY DEF LockQuiet
<1>2. \A v \in Workers : work'[v].late => "outlived" \in past'.kinds
  BY <1>1 DEF LockInv
<1>3. ASSUME Clear', NEW v \in Workers, InRefresh(v)' \/ work'[v].owns
      PROVE  lock' = v /\ work'[v].owns
  <2>1. Clear
    BY <1>1, <1>3 DEF Clear
  <2>2. CASE v = w
    BY <1>1, <1>3, <2>1, <2>2 DEF LockInv, LockQuiet
  <2>3. CASE v # w
    BY <1>1, <1>3, <2>1, <2>3 DEF LockInv, InRefresh
  <2> QED
    BY <2>2, <2>3
<1> QED
  BY <1>2, <1>3 DEF LockInv

\* The lock is taken when nobody holds it.
LEMMA TakingKeepsLock ==
    ASSUME TypeOK, LockInv, NEW w \in Workers, lock = None, lock' = w, work'[w].owns,
           ~work'[w].late, past' = past, \A v \in Workers \ {w} : work'[v] = work[v]
    PROVE  LockInv'
<1>1. \A v \in Workers : work'[v].late => "outlived" \in past'.kinds
  BY DEF LockInv
<1>2. ASSUME Clear', NEW v \in Workers, v # w
      PROVE  ~(InRefresh(v)' \/ work'[v].owns)
  <2>1. Clear /\ work'[v] = work[v] /\ lock # v
    BY <1>2, RefreshAssumption DEF Clear
  <2> QED
    BY <2>1 DEF LockInv, InRefresh
<1> QED
  BY <1>1, <1>2 DEF LockInv

\* The lock is given back by the one who holds it.
LEMMA ReleaseKeepsLock ==
    ASSUME TypeOK, LockInv, NEW w \in Workers, ReleaseRefreshLock(w)
    PROVE  LockInv'
<1>1. /\ past.kinds \subseteq past'.kinds
      /\ \/ lock' = lock
         \/ lock' = None /\ work[w].owns
      /\ \A v \in Workers \ {w} : work'[v] = work[v]
      /\ work'[w].late => work[w].late
      /\ ~InRefresh(w)' /\ ~work'[w].owns
  BY ReleaseCalm
<1>2. \A v \in Workers : work'[v].late => "outlived" \in past'.kinds
  BY <1>1 DEF LockInv
<1>3. ASSUME Clear', NEW v \in Workers, InRefresh(v)' \/ work'[v].owns
      PROVE  lock' = v /\ work'[v].owns
  <2>1. Clear
    BY <1>1, <1>3 DEF Clear
  <2>2. v # w /\ work'[v] = work[v]
    BY <1>1, <1>3
  <2>3. lock = v /\ work[v].owns
    BY <1>3, <2>1, <2>2 DEF LockInv, InRefresh
  <2>4. ~work[w].owns
    BY <2>1, <2>2, <2>3 DEF LockInv
  <2> QED
    BY <1>1, <2>2, <2>3, <2>4
<1> QED
  BY <1>2, <1>3 DEF LockInv

\* A lease that ends while its holder is in a refresh outlives the lock on record.
LEMMA ExpiryKeepsLock ==
    ASSUME TypeOK, LockInv, LockExpires
    PROVE  LockInv'
<1>1. /\ past.kinds \subseteq past'.kinds /\ work' = work /\ lock \in Workers
      /\ work[lock].owns /\ IsRequest(lock) => "outlived" \in past'.kinds
      /\ ~work[lock].owns \/ work[lock].late \/ IsRequest(lock)
  BY LockExpiresCalm DEF LockExpires, LeaseEnds, TypeOK
<1>2. \A v \in Workers : work'[v].late => "outlived" \in past'.kinds
  BY <1>1 DEF LockInv
<1>3. ASSUME Clear', NEW v \in Workers, InRefresh(v)' \/ work'[v].owns
      PROVE  FALSE
  <2>1. Clear /\ "outlived" \notin past'.kinds
    BY <1>1, <1>3 DEF Clear
  <2>2. lock = v /\ work[v].owns
    BY <1>1, <1>3, <2>1 DEF LockInv, InRefresh
  <2>3. ~work[v].late
    BY <1>1, <1>2, <2>1
  <2> QED
    BY <1>1, <2>1, <2>2, <2>3
<1> QED
  BY <1>2, <1>3 DEF LockInv

\* A process that dies leaves the lock behind.
LEMMA CrashKeepsLock ==
    ASSUME TypeOK, LockInv, FreshInv, NEW w \in Workers, Crash(w)
    PROVE  LockInv'
<1>1. /\ lock' = lock /\ past.kinds \subseteq past'.kinds
      /\ \A v \in Workers : work'[v] \in {work[v], At("idle")}
  BY CrashCalm
<1>2. At("idle").late = FALSE /\ At("idle").owns = FALSE /\ At("idle").pc = "idle"
  BY DEF At
<1>3. ASSUME NEW v \in Workers
      PROVE  work'[v].late => "outlived" \in past'.kinds
  <2>1. CASE work'[v] = work[v]
    BY <1>1, <2>1 DEF LockInv
  <2>2. CASE work'[v] = At("idle")
    BY <1>2, <2>2
  <2> QED
    BY <1>1, <2>1, <2>2
<1>4. ASSUME Clear', NEW v \in Workers, InRefresh(v)' \/ work'[v].owns
      PROVE  lock' = v /\ work'[v].owns
  <2>1. Clear
    BY <1>1, <1>4 DEF Clear
  <2>2. CASE work'[v] = work[v]
    BY <1>1, <1>4, <2>1, <2>2 DEF LockInv, InRefresh
  <2>3. CASE work'[v] = At("idle")
    BY <1>2, <1>4, <2>3 DEF InRefresh
  <2> QED
    BY <1>1, <2>2, <2>3
<1> QED
  BY <1>3, <1>4 DEF LockInv

-----------------------------------------------------------------------------
(* The theorems                                                            *)

\* The initial states.
LEMMA Initially == Init => IInv
<1>1. SUFFICES ASSUME Init PROVE IInv
  OBVIOUS
<1>2. 1 \in Creds /\ 0 \in 0..MaxCreds /\ 0 \in 0..(Threshold - 1)
  BY RefreshAssumption DEF Creds
<1>3. At("idle") \in WorkerStates /\ Out("ready") \in AdminStates
  <2>1. At("idle") \in WorkerStates
    BY RefreshAssumption DEF At, WorkerStates, Snaps, Thens, PCs
  <2>2. Blank \in Rows
    BY <1>2 DEF Blank, Rows
  <2>3. Out("ready") \in AdminStates
    BY <1>2, <2>2 DEF Out, AdminStates, AdminPCs
  <2> QED
    BY <2>1, <2>3
<1>4. /\ account = [cred |-> 1, version |-> 0, due |-> FALSE, status |-> "active", strikes |-> 0]
      /\ provider = [issued |-> 1, live |-> {1}, root |-> [c \in Creds |-> 1]]
      /\ past = [faults |-> 0, kinds |-> {}, orphans |-> {}, given |-> 1, stamps |-> 0,
                 unstamped |-> {1}]
      /\ setup \in Setups /\ lock = None /\ cache = 0
      /\ work = [w \in Workers |-> At("idle")]
      /\ admin = [a \in Admins |-> Out("ready")]
  BY <1>1 DEF Init
<1>5. TypeOK
  <2>1. account \in Accounts
    BY <1>2, <1>4 DEF Accounts
  <2>2. provider \in [issued : Creds, live : SUBSET Creds, root : [Creds -> Creds]]
    BY <1>2, <1>4
  <2>3. past \in Pasts
    BY <1>2, <1>4 DEF Pasts
  <2>4. WorkOK /\ AdminOK
    BY <1>3, <1>4 DEF WorkOK, AdminOK
  <2> QED
    BY <1>2, <1>4, <2>1, <2>2, <2>3, <2>4
       DEF TypeOK, Accounts, Pasts, WorkOK, WorkerStates, AdminOK, AdminStates
<1>6. \A w \in Workers : /\ work[w].pc = "idle" /\ work[w].checked = 0 /\ work[w].snap.cred = 0
                         /\ work[w].snap.version = 0
  BY <1>4 DEF At
<1>7. \A w \in Workers : work[w].owns = FALSE /\ work[w].late = FALSE
  BY <1>4 DEF At
<1>8. \A a \in Admins : /\ admin[a].pc = "ready" /\ admin[a].seen.cred = 0 /\ admin[a].row.cred = 0
                        /\ admin[a].seen.version = 0 /\ admin[a].row.version = 0
  BY <1>4 DEF Out, Blank
<1>9. /\ account.cred = 1 /\ account.version = 0 /\ account.status = "active"
      /\ provider.issued = 1 /\ provider.live = {1} /\ provider.root[1] = 1
      /\ past.stamps = 0 /\ past.given = 1 /\ past.unstamped = {1}
  BY <1>2, <1>4
<1>10. ~Stamped
  BY <1>9 DEF Stamped
<1>11. IssuedInv
  BY <1>6, <1>8, <1>9 DEF IssuedInv
<1>12. FreshInv /\ CheckedInv /\ DropInv /\ RefusedInv
  BY <1>6, <1>8 DEF FreshInv, CheckedInv, DropInv, RefusedInv, Rotating, Refused, Giving
<1>13. VersionInv
  BY <1>6, <1>8, <1>9, <1>10 DEF VersionInv
<1>14. ErrorInv
  BY <1>9 DEF ErrorInv
<1>15. LockInv
  BY <1>6, <1>7 DEF LockInv, InRefresh
<1>16. CacheInv /\ StoredTokenLives /\ ReauthorizationSticks
  BY <1>4, <1>9 DEF CacheInv, StoredTokenLives, ReauthorizationSticks
<1> QED
  BY <1>5, <1>11, <1>12, <1>13, <1>14, <1>15, <1>16 DEF IInv

\* The steps of the workers that do not take or give back the lock.
LEMMA QuietSteps ==
    ASSUME IInv, NEW w \in Workers,
           \/ Begin(w) \/ GiveUpWaiting(w) \/ RereadAccount(w) \/ Refresh(w)
           \/ RefreshReturns(w) \/ TryRecoverFromRefreshRace(w) \/ PersistCredentials(w)
           \/ PersistFails(w) \/ DropAccessToken(w) \/ HandleNonRetryable(w) \/ SetErrorFails(w)
           \/ InvalidateToken(w) \/ CheckTokenVersion(w) \/ SetAccessToken(w) \/ RequestEnds(w)
    PROVE  TypeOK' /\ (Calm \/ Uses(w) \/ Stores(w)) /\ LockQuiet(w)
<1>1. TypeOK /\ FreshInv /\ IssuedInv /\ DropInv
  BY DEF IInv
<1> QED
  BY <1>1, BeginCalm, GiveUpCalm, RereadCalm, RefreshStep, ReplyCalm, RecoverCalm, PersistStep,
     PersistFailsStep, DropCalm, NonRetryableCalm, SetErrorFailsCalm, InvalidateCalm, CheckCalm,
     SetCalm, RequestEndsCalm

\* The steps of the administrators' calls.
AdminSteps(a) == StartApply(a) \/ StartLoaded(a) \/ AdminStep(a) \/ AdminStops(a)

\* Each is calm, gets credentials or writes the row, and none touches the workers or the lock.
LEMMA AdministratorSteps ==
    ASSUME IInv, NEW a \in Admins, AdminSteps(a)
    PROVE  /\ TypeOK' /\ (Calm \/ Issues(a) \/ Writes(a))
           /\ UNCHANGED <<work, lock>> /\ past.kinds \subseteq past'.kinds
<1>1. TypeOK /\ FreshInv /\ IssuedInv
  BY DEF IInv
<1>2. CASE StartApply(a) \/ RefreshByHand(a) \/ WriteRow(a) \/ WriteFails(a)
  BY <1>1, <1>2, ApplyStep, ByHandStep, WriteRowStep, WriteFailsStep
<1>3. CASE \/ StartLoaded(a) \/ ReadRow(a) \/ DropCached(a) \/ RecoverAccountState(a)
           \/ ClearError(a) \/ ClearTempUnschedulable(a)
  BY <1>1, <1>3, LoadCalm, ReadRowCalm, DropCachedCalm, RecoverStateCalm, ClearErrorCalm,
     UnblockCalm
<1>4. CASE InvalidateCached(a) \/ SetAccountError(a) \/ SetTempUnschedulable(a) \/ AdminStops(a)
  BY <1>1, <1>4, InvalidateCachedCalm, DisableCalm, CoolCalm, StopCalm
<1> QED
  BY <1>2, <1>3, <1>4 DEF AdminSteps, AdminStep

\* A deadline is on record; whoever is late is excused.
LEMMA DeadlineKeepsLock ==
    ASSUME "outlived" \in past'.kinds
    PROVE  LockInv'
BY DEF LockInv, Clear

\* Without Redis nothing is claimed about the lock.
LEMMA DegradedKeepsLock ==
    ASSUME LockInv, "degraded" \in past'.kinds, past.kinds \subseteq past'.kinds,
           \A v \in Workers : work'[v].late <=> work[v].late
    PROVE  LockInv'
BY DEF LockInv, Clear

\* Every step keeps the inductive invariant.
LEMMA Invariance == IInv /\ [Next]_vars => IInv'
<1>1. SUFFICES ASSUME IInv, [Next]_vars PROVE IInv'
  OBVIOUS
<1>2. TypeOK /\ LockInv /\ Others /\ FreshInv
  BY <1>1 DEF IInv, Others
<1>3. SUFFICES TypeOK' /\ LockInv' /\ Others'
  BY DEF IInv, Others
<1>4. ASSUME NEW w \in Workers,
             \/ Begin(w) \/ GiveUpWaiting(w) \/ RereadAccount(w) \/ Refresh(w)
             \/ RefreshReturns(w) \/ TryRecoverFromRefreshRace(w) \/ PersistCredentials(w)
             \/ PersistFails(w) \/ DropAccessToken(w) \/ HandleNonRetryable(w) \/ SetErrorFails(w)
             \/ InvalidateToken(w) \/ CheckTokenVersion(w) \/ SetAccessToken(w) \/ RequestEnds(w)
      PROVE  TypeOK' /\ LockInv' /\ Others'
  <2>1. TypeOK' /\ (Calm \/ Uses(w) \/ Stores(w)) /\ LockQuiet(w)
    BY <1>1, <1>4, QuietSteps
  <2> QED
    BY <1>2, <2>1, CalmKeeps, UseKeeps, StoreKeeps, QuietKeepsLock
<1>5. ASSUME NEW w \in Workers, AcquireRefreshLock(w)
      PROVE  TypeOK' /\ LockInv' /\ Others'
  BY <1>2, <1>5, AcquireCalm, CalmKeeps, QuietKeepsLock, TakingKeepsLock
<1>6. ASSUME NEW w \in Workers, AcquireFails(w)
      PROVE  TypeOK' /\ LockInv' /\ Others'
  BY <1>2, <1>6, AcquireFailsCalm, CalmKeeps, DegradedKeepsLock
<1>7. ASSUME NEW w \in Workers, ReleaseRefreshLock(w)
      PROVE  TypeOK' /\ LockInv' /\ Others'
  BY <1>2, <1>7, ReleaseCalm, CalmKeeps, ReleaseKeepsLock
<1>8. ASSUME NEW w \in Workers, Deadline(w)
      PROVE  TypeOK' /\ LockInv' /\ Others'
  BY <1>2, <1>8, DeadlineCalm, CalmKeeps, DeadlineKeepsLock
<1>9. ASSUME NEW w \in Workers, Crash(w)
      PROVE  TypeOK' /\ LockInv' /\ Others'
  BY <1>2, <1>9, CrashCalm, CalmKeeps, CrashKeepsLock
<1>10. CASE LockExpires
  BY <1>2, <1>10, LockExpiresCalm, CalmKeeps, ExpiryKeepsLock
<1>11. CASE ElsewhereSteps
  <2>1. TypeOK' /\ Calm /\ UNCHANGED <<work, lock>> /\ past.kinds \subseteq past'.kinds
    BY <1>2, <1>11, ElsewhereCalm
  <2>2. LockInv'
    BY <1>2, <2>1 DEF LockInv, Clear, InRefresh
  <2> QED
    BY <1>2, <2>1, <2>2, CalmKeeps
<1>12. ASSUME NEW a \in Admins, AdminSteps(a)
      PROVE  TypeOK' /\ LockInv' /\ Others'
  <2>1. /\ TypeOK' /\ (Calm \/ Issues(a) \/ Writes(a))
        /\ UNCHANGED <<work, lock>> /\ past.kinds \subseteq past'.kinds
    BY <1>1, <1>12, AdministratorSteps
  <2>2. LockInv'
    BY <1>2, <2>1 DEF LockInv, Clear, InRefresh
  <2> QED
    BY <1>2, <2>1, <2>2, CalmKeeps, IssueKeeps, WriteKeeps
<1>13. CASE UNCHANGED vars
  <2>1. UNCHANGED <<setup, account, provider, lock, cache, work, admin, past>>
    BY <1>13 DEF vars
  <2>2. CalmRest
    BY <2>1 DEF CalmRest
  <2>3. TypeOK'
    BY <1>2, <2>1 DEF TypeOK
  <2>4. LockInv'
    BY <1>2, <2>1 DEF LockInv, Clear, InRefresh
  <2> QED
    BY <1>2, <2>1, <2>2, <2>3, <2>4, CalmElsewhere, CalmKeeps
<1> QED
  BY <1>1, <1>4, <1>5, <1>6, <1>7, <1>8, <1>9, <1>10, <1>11, <1>12, <1>13
     DEF Next, Step, AdminSteps, ElsewhereSteps

\* The inductive invariant holds in every state of every behaviour.
LEMMA AlwaysIInv == Spec => []IInv
BY Initially, Invariance, PTL DEF Spec

(***************************************************************************)
(* Every variable has its type: no credential is invented, and an account  *)
(* is disabled before its refusals in a row reach the threshold            *)
(* (deferNonRetryableRefreshError).                                        *)
(***************************************************************************)
THEOREM TypeCorrect == Spec => []TypeOK
<1>1. IInv => TypeOK
  BY DEF IInv
<1> QED
  BY <1>1, AlwaysIInv, PTL

(***************************************************************************)
(* Unless the lock could not be taken or a holder outlived its lease, at   *)
(* most one worker is in a locked refresh: who is in it holds the lock     *)
(* (AcquireRefreshLock, clampRefreshAttemptToLockLease).  Calls of         *)
(* administrators take no lock, and none of their steps disturbs this.     *)
(***************************************************************************)
THEOREM OnlyOneRefreshes == Spec => []OneRefreshAtATime
<1>1. ASSUME IInv
      PROVE  OneRefreshAtATime
  <2> DEFINE R == {w \in Workers : work[w].pc \in {"call", "reply", "persist"}}
  <2>1. SUFFICES ASSUME past.kinds \cap {"degraded", "outlived"} = {}
                 PROVE  Cardinality(R) <= 1
    BY DEF OneRefreshAtATime
  <2>2. \A w \in R : lock = w
    BY <1>1, <2>1 DEF IInv, LockInv, Clear, InRefresh
  <2>3. R = {} \/ \E w \in R : R = {w}
    BY <2>2
  <2>4. Cardinality({}) = 0 /\ \A w : Cardinality({w}) = 1
    BY FS_EmptySet, FS_Singleton
  <2> HIDE DEF R
  <2>5. Cardinality(R) \in {0, 1}
    BY <2>3, <2>4
  <2> QED
    BY <2>5
<1> QED
  BY <1>1, AlwaysIInv, PTL

(***************************************************************************)
(* The provider takes the stored refresh token, or its successor is about  *)
(* to be stored or on record as lost, or an edit wrote the used token back *)
(* (RefreshIfNeeded, refreshSingleAccount, UpdateAccount).                 *)
(***************************************************************************)
THEOREM TheStoredTokenLives == Spec => []StoredTokenLives
<1>1. IInv => StoredTokenLives
  BY DEF IInv
<1> QED
  BY <1>1, AlwaysIInv, PTL

(***************************************************************************)
(* No locked refresh that was under way takes a Grok account back to       *)
(* credentials older than the administrator's                              *)
(* (UpdateGrokOAuthCredentialsIfUnchanged); only an edit of a row that has *)
(* changed, and a manual refresh that was overtaken, do.                   *)
(***************************************************************************)
THEOREM TheReauthorizationSticks == Spec => []ReauthorizationSticks
<1>1. IInv => ReauthorizationSticks
  BY DEF IInv
<1> QED
  BY <1>1, AlwaysIInv, PTL

(***************************************************************************)
(* A Grok account is disabled only while the provider refuses its refresh  *)
(* token, unless locked refreshes overlapped, an administrator's call has  *)
(* yet to enable it or failed to, an edit put an old row back, or a manual *)
(* refresh was refused a token that another refresh had used               *)
(* (SetGrokOAuthRefreshErrorIfCredentialsUnchanged, SetAccountError).      *)
(***************************************************************************)
THEOREM TheErrorIsDeserved == Spec => []ErrorIsDeserved
<1>1. IInv => ErrorIsDeserved
  BY DEF IInv, ErrorInv, DisabledStays, Excused, AboutToClear, ErrorIsDeserved, Clear
<1> QED
  BY <1>1, AlwaysIInv, PTL

(***************************************************************************)
(* The cached access token is the stored one, or whoever changed the       *)
(* credentials has yet to look after the cache, except where the cache or  *)
(* the row could not be reached, a check raced with a write, an edit put   *)
(* an old row back, or the stored credentials have no version of their own *)
(* (CheckTokenVersion, InvalidateToken, refreshSingleAccount).             *)
(***************************************************************************)
THEOREM TheCacheIsCurrent == Spec => []CacheIsCurrent
<1>1. ASSUME IInv
      PROVE  CacheIsCurrent
  <2>1. ASSUME NEW w \in Workers, LastWriter(w)
        PROVE  InvalidationUnderway
    <3>1. /\ work[w].new # 0
          /\ work[w].pc \in {"drop", "unlock", "after", "check", "set"}
      BY <1>1, <2>1, Numbers DEF IInv, LastWriter
    <3> QED
      BY <3>1 DEF InvalidationUnderway
  <2> QED
    BY <1>1, <2>1 DEF IInv, CacheInv, Stamped, CacheIsCurrent
<1> QED
  BY <1>1, AlwaysIInv, PTL
=============================================================================
