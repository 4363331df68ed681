---------------------------- MODULE TokenRefresh ----------------------------
(***************************************************************************)
(* The OAuth credentials of one upstream account: the locked refresh       *)
(* (service/oauth_refresh_api.go), the background loop that refreshes what *)
(* is about to expire and disables what no longer can be refreshed         *)
(* (service/token_refresh_service.go), the requests that need an access    *)
(* token and cache it in Redis (service/claude_token_provider.go,          *)
(* service/openai_token_provider.go) and the administrators, who authorize *)
(* the account again, refresh it by hand or edit it                        *)
(* (handler/admin/account_handler.go, service/admin_account.go).  Those    *)
(* take neither the mutex nor the Redis lock, and write the whole row that *)
(* they read earlier.                                                      *)
(*                                                                         *)
(* A credential is a pair of an access token and a refresh token, numbered *)
(* as the provider issues it.  The provider takes a refresh token once and *)
(* issues the next credential for it: whoever loses the answer has lost    *)
(* the account.  Every Redis command, database statement and provider call *)
(* is a step of its own.                                                   *)
(***************************************************************************)
EXTENDS Integers, FiniteSets

CONSTANTS
    Workers,      \* threads of execution that may refresh the account
    Admins,       \* calls of administrators, each made at most once
    None,         \* nobody holds the lock
    Setups,       \* kinds of account, places of the workers and calls of the administrators;
                  \* bound: failing calls, passed deadlines and crashes
    Threshold,    \* tokenRefreshNonRetryableThreshold
    MaxCreds      \* bound: credentials the provider issues

Creds == 1..MaxCreds

\* ApplyOAuthCredentials; refreshSingleAccount; the handlers that refresh and update the
\* account and do no more; an account edit
Calls == {"apply", "refresh", "plain", "edit"}

ASSUME RefreshAssumption ==
    /\ None \notin Workers
    /\ {Threshold, MaxCreds} \subseteq Nat \ {0}
    /\ \A s \in Setups : /\ s.grok \in BOOLEAN /\ s.faults \in Nat
                         /\ s.requests \subseteq Workers
                         /\ s.grok => s.requests = {}
                         /\ DOMAIN s.home = Workers
                         /\ DOMAIN s.call = Admins

VARIABLES
    setup,      \* the kind of account, who refreshes it, serves requests or calls, and where
    account,    \* the row of accounts
    provider,   \* external: credentials issued, and the refresh tokens it takes
    lock,       \* who set the refresh lock in Redis
    cache,      \* the access token in Redis, 0 for none
    work,       \* the workers
    admin,      \* the administrators' calls
    past        \* history: faults, and what can no longer be blamed on the program

vars == <<setup, account, provider, lock, cache, work, admin, past>>

\* A worker at step pc that remembers nothing.
At(pc) == [pc |-> pc, then |-> "idle", owns |-> FALSE, late |-> FALSE, checked |-> 0,
           new |-> 0, snap |-> [cred |-> 0, version |-> 0, strikes |-> 0]]

IsRequest(w) == w \in setup.requests

\* A call of an administrator that has not loaded the account yet, or no longer needs it.
Blank == [cred |-> 0, version |-> 0, due |-> FALSE, status |-> "active", strikes |-> 0]
Out(pc) == [pc |-> pc, seen |-> Blank, row |-> Blank, new |-> 0]

Init ==
    /\ setup \in Setups
    /\ account = [cred |-> 1, version |-> 0, due |-> FALSE, status |-> "active", strikes |-> 0]
    /\ provider = [issued |-> 1, live |-> {1}, root |-> [c \in Creds |-> 1]]
    /\ lock = None
    /\ cache = 0
    /\ work = [w \in Workers |-> At("idle")]
    /\ admin = [a \in Admins |-> Out("ready")]
    /\ past = [faults |-> 0, kinds |-> {}, orphans |-> {}, given |-> 1, stamps |-> 0,
               unstamped |-> {1}]

PCs == {"idle", "lock", "reread", "call", "reply", "recover", "persist", "drop", "unlock",
        "punish", "after", "check", "set"}
Thens == {"idle", "check", "punish", "after"}
Kinds == {"degraded", "outlived", "uncleared", "unchecked", "uncached", "raced",
          "reverted", "overtaken", "blind"}
AdminPCs == {"ready", "call", "read", "write", "drop", "recover", "clear", "unblock",
             "invalidate", "disable", "cool", "done"}
Rows == [cred : 0..MaxCreds, version : Nat, due : BOOLEAN, status : {"active", "error"},
         strikes : 0..(Threshold - 1)]
Snaps == [cred : 0..MaxCreds, version : Nat, strikes : 0..(Threshold - 1)]

\* Every variable has its type; an account is disabled before its refusals in a row
\* reach the threshold (deferNonRetryableRefreshError).
TypeOK ==
    /\ setup \in Setups
    /\ account \in [cred : Creds, version : Nat, due : BOOLEAN,
                    status : {"active", "error"}, strikes : 0..(Threshold - 1)]
    /\ provider \in [issued : Creds, live : SUBSET Creds, root : [Creds -> Creds]]
    /\ lock \in Workers \cup {None}
    /\ cache \in 0..MaxCreds
    /\ work \in [Workers -> [pc : PCs, then : Thens, owns : BOOLEAN, late : BOOLEAN,
                             checked : 0..MaxCreds, new : 0..MaxCreds, snap : Snaps]]
    /\ admin \in [Admins -> [pc : AdminPCs, seen : Rows, row : Rows, new : 0..MaxCreds]]
    /\ past \in [faults : Nat, kinds : SUBSET Kinds, orphans : SUBSET (0..MaxCreds),
                 given : Creds, stamps : Nat, unstamped : SUBSET Creds]

-----------------------------------------------------------------------------
(* Faults, and what a worker remembers.                                    *)

\* A fault, after which `kinds` may have happened and the successor of the
\* credentials in `orphans` is lost.
Fault(kinds, orphans) ==
    /\ past.faults < setup.faults
    /\ past' = [past EXCEPT !.faults = @ + 1, !.kinds = @ \cup kinds,
                            !.orphans = @ \cup orphans]

\* The credential a worker has used up, if it holds the answer for it.
Unsaved(w) == IF work[w].new # 0 THEN {work[w].snap.cred} ELSE {}

Read == [cred |-> account.cred, version |-> account.version, strikes |-> account.strikes]

To(w, pc) == work' = [work EXCEPT ![w].pc = pc]

\* RefreshIfNeeded returns; `then` is what its caller does once the lock is released.
Return(w, then) == work' = [work EXCEPT ![w].pc = "unlock", ![w].then = then]

\* A request goes on with the account it has, a background attempt is over.
ReturnError(w) == Return(w, IF IsRequest(w) THEN "check" ELSE "idle")

\* RefreshIfNeeded returns the account as it is now, not refreshed by this worker.
ReturnCurrent(w) ==
    work' = [work EXCEPT ![w].pc = "unlock", ![w].snap = Read, ![w].new = 0,
                         ![w].then = IF IsRequest(w) THEN "check" ELSE "idle"]

\* The in-process mutex: from the distributed lock's acquisition to its release.
InRefresh(w) == work[w].pc \in {"reread", "call", "reply", "recover", "persist", "drop", "unlock"}
MutexFree(w) ==
    \A v \in Workers \ {w} : setup.home[v] = setup.home[w] => ~InRefresh(v)

-----------------------------------------------------------------------------
(* RefreshIfNeeded.                                                        *)

\* A request finds no token in the cache, or cannot read it.
CacheMiss ==
    \/ cache = 0 /\ UNCHANGED past
    \/ cache # 0 /\ Fault({}, {})

\* A background cycle finds the account among its candidates; a request misses
\* the cache and needs a refresh, or only its own token in the cache.
Begin(w) ==
    /\ work[w].pc = "idle" /\ account.status = "active"
    /\ IF IsRequest(w) THEN CacheMiss
       ELSE w \in setup.background /\ account.due /\ UNCHANGED past
    /\ work' = [work EXCEPT ![w] = [At(IF account.due THEN "lock" ELSE "check")
                                       EXCEPT !.snap = Read]]
    /\ UNCHANGED <<setup, account, provider, lock, cache, admin>>

\* The local mutex, then SET NX.  A background attempt leaves a held lock alone, a
\* request waits for the cache and goes on with what it has.
AcquireRefreshLock(w) ==
    /\ work[w].pc = "lock" /\ MutexFree(w) /\ ~work[w].late
    /\ \/ /\ lock = None
          /\ lock' = w
          /\ work' = [work EXCEPT ![w].pc = "reread", ![w].owns = TRUE]
          /\ UNCHANGED past
       \/ /\ lock # None /\ IsRequest(w)
          /\ CacheMiss
          /\ To(w, "check")
          /\ UNCHANGED lock
       \/ /\ lock # None /\ (IsRequest(w) => cache # 0)
          /\ work' = [work EXCEPT ![w] = At("idle")]
          /\ UNCHANGED <<lock, past>>
    /\ UNCHANGED <<setup, account, provider, cache, admin>>

\* Without Redis the refresh goes on without the lock, set or not.
AcquireFails(w) ==
    /\ work[w].pc = "lock" /\ MutexFree(w) /\ ~work[w].late
    /\ Fault({"degraded"}, {})
    /\ lock' \in {lock, IF lock = None THEN w ELSE lock}
    /\ To(w, "reread")
    /\ UNCHANGED <<setup, account, provider, cache, admin>>

\* A deadline that passes before the lock is there ends the attempt.
GiveUpWaiting(w) ==
    /\ work[w].pc = "lock" /\ work[w].late
    /\ work' = [work EXCEPT ![w] = At("idle")]
    /\ UNCHANGED <<setup, account, provider, lock, cache, admin, past>>

\* The row is read again under the lock; somebody else may have refreshed it.
RereadAccount(w) ==
    /\ work[w].pc = "reread"
    /\ \/ /\ ~work[w].late
          /\ IF account.status = "active" /\ account.due
             THEN work' = [work EXCEPT ![w].pc = "call", ![w].snap = Read]
             ELSE ReturnCurrent(w)
          /\ UNCHANGED past
       \/ work[w].late /\ ReturnError(w) /\ UNCHANGED past
       \/ Fault({}, {}) /\ ReturnError(w)
    /\ UNCHANGED <<setup, account, provider, lock, cache, admin>>

\* external: the provider takes a refresh token, or refuses it with invalid_grant.
Refresh(w) ==
    /\ work[w].pc = "call"
    /\ \/ /\ work[w].snap.cred \in provider.live /\ provider.issued < MaxCreds
          /\ LET n == provider.issued + 1
                 c == work[w].snap.cred
             IN  /\ provider' = [issued |-> n, live |-> (provider.live \ {c}) \cup {n},
                                 root |-> [provider.root EXCEPT ![n] = provider.root[c]]]
                 /\ work' = [work EXCEPT ![w].pc = "reply", ![w].new = n]
          /\ UNCHANGED past
       \/ /\ work[w].snap.cred \notin provider.live
          /\ To(w, "recover")
          /\ UNCHANGED <<provider, past>>
       \/ work[w].late /\ ReturnError(w) /\ UNCHANGED <<provider, past>>
       \/ Fault({}, {}) /\ ReturnError(w) /\ UNCHANGED provider
    /\ UNCHANGED <<setup, account, lock, cache, admin>>

\* Credentials that come after the deadline are not persisted; an answer may get lost.
RefreshReturns(w) ==
    /\ work[w].pc = "reply"
    /\ \/ ~work[w].late /\ To(w, "persist") /\ UNCHANGED past
       \/ /\ IF work[w].late THEN past' = [past EXCEPT !.orphans = @ \cup Unsaved(w)]
             ELSE Fault({}, Unsaved(w))
          /\ work' = [work EXCEPT ![w].pc = "unlock", ![w].new = 0,
                                  ![w].then = IF IsRequest(w) THEN "check" ELSE "idle"]
    /\ UNCHANGED <<setup, account, provider, lock, cache, admin>>

\* tryRecoverFromRefreshRace: another refresh token in the database means that
\* somebody else refreshed.
TryRecoverFromRefreshRace(w) ==
    /\ work[w].pc = "recover"
    /\ \/ /\ ~work[w].late
          /\ IF account.cred # work[w].snap.cred THEN ReturnCurrent(w)
             ELSE Return(w, IF IsRequest(w) THEN "check" ELSE "punish")
          /\ UNCHANGED past
       \/ work[w].late /\ ReturnError(w) /\ UNCHANGED past
       \/ Fault({}, {}) /\ Return(w, IF IsRequest(w) THEN "check" ELSE "punish")
    /\ UNCHANGED <<setup, account, provider, lock, cache, admin>>

\* Mutant: the old refresh token is merged back into the new credentials.
SavedMerged(w) ==
    [account EXCEPT !.version = past.stamps + 1, !.due = FALSE]

\* The row with the new credentials, stamped with a time later than any other stamp.
Saved(w) ==
    [account EXCEPT !.cred = work[w].new, !.version = past.stamps + 1, !.due = FALSE]

\* Mutant: Grok credentials are written like all others.
WriteBlindly(w) == TRUE

\* UpdateGrokOAuthCredentialsIfUnchanged writes only over the document that the
\* refresh was made for, UpdateCredentials over any.
MayWrite(w) ==
    setup.grok => /\ account.cred = work[w].snap.cred
                  /\ account.version = work[w].snap.version

PersistCredentials(w) ==
    /\ work[w].pc = "persist" /\ ~work[w].late
    /\ \/ /\ MayWrite(w)
          /\ account' = Saved(w)
          /\ past' = [past EXCEPT !.stamps = @ + 1]
          /\ work' = [work EXCEPT ![w].pc = IF setup.grok THEN "drop" ELSE "unlock",
                                  ![w].then = IF IsRequest(w) THEN "check" ELSE "after",
                                  ![w].snap = Read']
       \/ /\ ~MayWrite(w)
          /\ past' = [past EXCEPT !.orphans = @ \cup Unsaved(w)]
          /\ ReturnCurrent(w)
          /\ UNCHANGED account
    /\ UNCHANGED <<setup, provider, lock, cache, admin>>

\* An error, or a deadline, of a write that was applied or was not.  The worker takes
\* the rotation for failed, and nobody invalidates the cache.
PersistFails(w) ==
    /\ work[w].pc = "persist"
    /\ \/ /\ MayWrite(w)
          /\ account' = Saved(w)
          /\ IF work[w].late
             THEN past' = [past EXCEPT !.stamps = @ + 1, !.kinds = @ \cup {"uncached"}]
             ELSE /\ past.faults < setup.faults
                  /\ past' = [past EXCEPT !.stamps = @ + 1, !.kinds = @ \cup {"uncached"},
                                          !.faults = @ + 1]
       \/ /\ IF work[w].late THEN past' = [past EXCEPT !.orphans = @ \cup Unsaved(w)]
             ELSE Fault({}, Unsaved(w))
          /\ UNCHANGED account
    /\ work' = [work EXCEPT ![w].pc = "unlock", ![w].new = 0,
                            ![w].then = IF IsRequest(w) THEN "check" ELSE "idle"]
    /\ UNCHANGED <<setup, provider, lock, cache, admin>>

\* Grok: the cached token goes as soon as the credentials are written.
DropAccessToken(w) ==
    /\ work[w].pc = "drop"
    /\ cache' = 0
    /\ To(w, "unlock")
    /\ UNCHANGED <<setup, account, provider, lock, admin, past>>

\* DEL by key, with a context of its own.  A background attempt whose deadline has
\* passed is a timeout, whatever the provider said, unless it saved credentials.
ReleaseRefreshLock(w) ==
    /\ work[w].pc = "unlock"
    /\ \/ lock' = (IF work[w].owns THEN None ELSE lock) /\ UNCHANGED past
       \/ work[w].owns /\ Fault({}, {}) /\ UNCHANGED lock
    /\ work' = [work EXCEPT ![w] =
                   IF @.then = "idle" \/ (@.late /\ @.then = "punish") THEN At("idle")
                   ELSE [@ EXCEPT !.owns = FALSE, !.pc = work[w].then, !.then = "idle"]]
    /\ UNCHANGED <<setup, account, provider, cache, admin>>

-----------------------------------------------------------------------------
(* What the callers do with the result.                                    *)

\* Mutant: the error is written without a look at the credentials in the row.
SetErrorBlindly(w) == account.status = "active"

\* SetGrokOAuthRefreshErrorIfCredentialsUnchanged compares, SetError does not.
MaySetError(w) ==
    setup.grok => /\ account.status = "active"
                  /\ account.cred = work[w].snap.cred
                  /\ account.version = work[w].snap.version

\* A refused refresh token disables a Grok account at once, any other one after
\* Threshold refusals in a row.
IsDisabled(w) == setup.grok \/ work[w].snap.strikes + 1 >= Threshold

\* An account that is not yet disabled cools down.
HandleNonRetryable(w) ==
    /\ work[w].pc = "punish"
    /\ \/ /\ ~IsDisabled(w)
          /\ account' = [account EXCEPT !.strikes = work[w].snap.strikes + 1]
          /\ work' = [work EXCEPT ![w] = At("idle")]
       \/ /\ IsDisabled(w) /\ MaySetError(w)
          /\ account' = [account EXCEPT !.status = "error"]
          /\ To(w, "after")
       \/ /\ IsDisabled(w) /\ ~MaySetError(w)
          /\ work' = [work EXCEPT ![w] = At("idle")]
          /\ UNCHANGED account
    /\ UNCHANGED <<setup, provider, lock, cache, admin, past>>

\* The write fails: the cache is invalidated all the same, except for Grok.
SetErrorFails(w) ==
    /\ work[w].pc = "punish"
    /\ Fault({}, {})
    /\ IF ~setup.grok /\ IsDisabled(w) THEN To(w, "after")
       ELSE work' = [work EXCEPT ![w] = At("idle")]
    /\ UNCHANGED <<setup, account, provider, lock, cache, admin>>

\* postRefreshActions: the strikes go unless their cooldown is over, then the cached
\* token.
InvalidateToken(w) ==
    /\ work[w].pc = "after"
    /\ account' \in {account} \cup
           (IF work[w].new # 0 THEN {[account EXCEPT !.strikes = 0]} ELSE {})
    /\ \/ cache' = 0 /\ UNCHANGED past
       \/ Fault({"uncached"}, {}) /\ UNCHANGED cache
    /\ work' = [work EXCEPT ![w] = At("idle")]
    /\ UNCHANGED <<setup, provider, lock, admin>>

\* Mutant: tokens are cached without a look at the version.
IsNeverStale(w) == FALSE

\* CheckTokenVersion: credentials without a version count as version 0.
IsStale(w) == account.version > work[w].snap.version

\* A stale token is not cached; when the row cannot be read the token is.
CheckTokenVersion(w) ==
    /\ work[w].pc = "check" /\ ~work[w].late
    /\ \/ /\ IF IsStale(w) THEN work' = [work EXCEPT ![w] = At("idle")]
             ELSE work' = [work EXCEPT ![w].pc = "set",
                                       ![w].checked = account.cred]
          /\ UNCHANGED past
       \/ Fault({"unchecked"}, {}) /\ To(w, "set")
    /\ UNCHANGED <<setup, account, provider, lock, cache, admin>>

SetAccessToken(w) ==
    /\ work[w].pc = "set" /\ ~work[w].late
    /\ cache' = work[w].snap.cred
    /\ past' = [past EXCEPT !.kinds = @ \cup (IF work[w].checked \notin {0, account.cred}
                                             THEN {"raced"} ELSE {})]
    /\ work' = [work EXCEPT ![w] = At("idle")]
    /\ UNCHANGED <<setup, account, provider, lock, admin>>

\* The client of a request is gone, or Redis is: the cache is not written, though the
\* refresh may have changed the credentials.
RequestEnds(w) ==
    LET kinds == IF work[w].new # 0 THEN {"uncached"} ELSE {} IN
    /\ work[w].pc \in {"check", "set"}
    /\ \/ work[w].late /\ past' = [past EXCEPT !.kinds = @ \cup kinds]
       \/ work[w].pc = "set" /\ ~work[w].late /\ Fault(kinds, {})
    /\ work' = [work EXCEPT ![w] = At("idle")]
    /\ UNCHANGED <<setup, account, provider, lock, cache, admin>>

-----------------------------------------------------------------------------
(* Time and crashes.                                                       *)

\* The access token is about to expire; bound: the provider can issue another one.
TokenAges ==
    /\ ~account.due /\ provider.issued < MaxCreds
    /\ account' = [account EXCEPT !.due = TRUE]
    /\ UNCHANGED <<setup, provider, lock, cache, work, admin, past>>

CacheExpires ==
    /\ cache # 0
    /\ cache' = 0
    /\ UNCHANGED <<setup, account, provider, lock, work, admin, past>>

\* The deadline of a background attempt passes, or the client of a request leaves.
Deadline(w) ==
    /\ work[w].pc \notin {"idle", "punish", "after"} /\ ~work[w].late
    /\ Fault({"outlived"}, {})
    /\ work' = [work EXCEPT ![w].late = TRUE]
    /\ UNCHANGED <<setup, account, provider, lock, cache, admin>>

\* Mutant: an attempt may take longer than the lock lives.
LeaseMayEnd(w) == TRUE

\* Mutant: the lock is set without a TTL.
LeaseNeverEnds(w) == FALSE

\* The lock's TTL has passed: the holder died or could not release it, or its deadline
\* has passed.  The deadline of a background attempt is shorter than the TTL, a request
\* has none.
LeaseEnds(w) == ~work[w].owns \/ work[w].late \/ IsRequest(w)

LockExpires ==
    /\ lock # None /\ LeaseEnds(lock)
    /\ lock' = None
    /\ past' = [past EXCEPT !.kinds = @ \cup (IF work[lock].owns /\ IsRequest(lock)
                                             THEN {"outlived"} ELSE {})]
    /\ UNCHANGED <<setup, account, provider, cache, work, admin>>

\* A process dies and is started again; what it kept in Redis stays.
Crash(w) ==
    LET Down == {v \in Workers : setup.home[v] = setup.home[w] /\ work[v].pc # "idle"}
    IN  /\ work[w].pc # "idle"
        /\ Fault(IF \E v \in Down : work[v].new # 0 THEN {"uncached"} ELSE {},
                 UNION {Unsaved(v) : v \in Down})
        /\ work' = [v \in Workers |-> IF v \in Down THEN At("idle") ELSE work[v]]
        /\ UNCHANGED <<setup, account, provider, lock, cache, admin>>

-----------------------------------------------------------------------------
(* The administrators' calls.                                              *)

IsManual(a) == setup.call[a] \in {"refresh", "plain"}

\* The administrator's call has used up a refresh token and not stored the answer.
HoldsAnswer(a) == IsManual(a) /\ admin[a].pc \in {"read", "write"}

\* The credential that is lost with the call.
Lost(a) == IF HoldsAnswer(a) THEN {admin[a].seen.cred} ELSE {}

\* Somebody has the successor of the stored credential and will store it.
RotationUnderway ==
    \/ \E w \in Workers : /\ work[w].pc \in {"reply", "persist"}
                          /\ work[w].snap.cred = account.cred
    \/ \E a \in Admins : HoldsAnswer(a) /\ admin[a].seen.cred = account.cred

\* The call goes on to pc, without the rows it has no more use for; it ends.
Goes(a, pc) == admin' = [admin EXCEPT ![a].pc = pc]
Leaves(a, pc) == admin' = [admin EXCEPT ![a] = Out(pc)]
Ends(a) == Leaves(a, "done")

\* persistManualRefreshFailureState after an error that is not the provider's refusal.
EndsBadly(a) ==
    Leaves(a, IF setup.call[a] = "refresh" THEN "cool" ELSE "done")

\* external: the owner of the account authorizes it again, which leaves the credentials
\* that were issued before as they are.
StartApply(a) ==
    /\ admin[a].pc = "ready" /\ setup.call[a] = "apply" /\ provider.issued < MaxCreds
    /\ LET n == provider.issued + 1
       IN  /\ provider' = [issued |-> n, live |-> provider.live \cup {n},
                           root |-> [provider.root EXCEPT ![n] = n]]
           /\ admin' = [admin EXCEPT ![a].pc = "read", ![a].new = n]
    /\ UNCHANGED <<setup, account, lock, cache, work, past>>

\* The account is loaded for a manual refresh, whatever its status, or into the form of
\* an edit.
StartLoaded(a) ==
    /\ admin[a].pc = "ready" /\ setup.call[a] \in {"refresh", "plain", "edit"}
    /\ admin' = [admin EXCEPT ![a].pc = IF IsManual(a) THEN "call" ELSE "read",
                              ![a].seen = account]
    /\ UNCHANGED <<setup, account, provider, lock, cache, work, past>>

\* A manual refresh asks the provider with the refresh token it loaded, without a lock.
RefreshByHand(a) ==
    /\ admin[a].pc = "call"
    /\ \/ /\ admin[a].seen.cred \in provider.live /\ provider.issued < MaxCreds
          /\ LET n == provider.issued + 1
                 c == admin[a].seen.cred
             IN  /\ provider' = [issued |-> n, live |-> (provider.live \ {c}) \cup {n},
                                 root |-> [provider.root EXCEPT ![n] = provider.root[c]]]
                 /\ admin' = [admin EXCEPT ![a].pc = "read", ![a].new = n]
          /\ UNCHANGED past
       \/ /\ admin[a].seen.cred \notin provider.live
          /\ IF setup.call[a] = "refresh" THEN Goes(a, "disable") ELSE Ends(a)
          /\ UNCHANGED <<provider, past>>
       \/ Fault({}, {}) /\ EndsBadly(a) /\ UNCHANGED provider
    /\ UNCHANGED <<setup, account, lock, cache, work>>

\* UpdateAccount reads the row; before that, the provider's answer may have got lost.
ReadRow(a) ==
    /\ admin[a].pc = "read"
    /\ \/ admin' = [admin EXCEPT ![a].pc = "write", ![a].row = account] /\ UNCHANGED past
       \/ Fault({}, Lost(a)) /\ EndsBadly(a)
    /\ UNCHANGED <<setup, account, provider, lock, cache, work>>

\* The rows that UpdateAccount may write: all of the row it read, the strikes not included,
\* with the new tokens and no version, with the new tokens and the version of the tokens
\* they replace, or with what the form of the edit sends back.
Updated(a) ==
    LET row == [admin[a].row EXCEPT !.strikes = account.strikes]
        seen == admin[a].seen
    IN  CASE setup.call[a] = "apply" ->
                 {[row EXCEPT !.cred = admin[a].new, !.version = 0, !.due = FALSE]}
          [] IsManual(a) ->
                 {[row EXCEPT !.cred = admin[a].new, !.version = seen.version, !.due = FALSE]}
          [] OTHER ->
                 {[row EXCEPT !.version = f.version, !.due = f.due, !.status = g.status] :
                      f \in {row, seen}, g \in {row, seen}}

\* What the write of `row` takes from others: an edit puts an older row back, a manual
\* refresh replaces credentials other than the ones it used, or stores its tokens in a row
\* that it leaves disabled.
Damage(a, row) ==
    CASE setup.call[a] = "edit" ->
             IF \A f \in {"cred", "version", "status"} : row[f] = account[f]
             THEN {} ELSE {"reverted"}
      [] IsManual(a) ->
             (IF account.cred # admin[a].seen.cred THEN {"overtaken"} ELSE {})
             \cup (IF setup.call[a] = "plain" /\ row.status = "error" THEN {"uncleared"} ELSE {})
      [] OTHER -> {}

\* The history of that write, after which `kinds` may have happened as well.
Recorded(a, row, kinds) ==
    [past EXCEPT !.kinds = @ \cup Damage(a, row) \cup kinds,
                 !.orphans = @ \cup (IF setup.call[a] = "edit" /\ row.cred # account.cred
                                     THEN {row.cred} ELSE {}),
                 !.given = IF setup.call[a] = "apply" THEN row.cred ELSE @,
                 !.unstamped = @ \cup (IF setup.call[a] = "edit" THEN {} ELSE {row.cred})]

\* UpdateAccount writes the whole row, over whatever is there.
WriteRow(a) ==
    /\ admin[a].pc = "write"
    /\ \E row \in Updated(a) : account' = row /\ past' = Recorded(a, row, {})
    /\ Leaves(a, CASE setup.call[a] = "apply"   -> "clear"
                   [] setup.call[a] = "refresh" -> "drop"
                   [] OTHER -> "done")
    /\ UNCHANGED <<setup, provider, lock, cache, work>>

\* An error of that write, which was applied or was not: the call goes no further.
WriteFails(a) ==
    /\ admin[a].pc = "write"
    /\ past.faults < setup.faults
    /\ \/ \E row \in Updated(a) :
            /\ account' = row
            /\ past' = [Recorded(a, row, IF row.status = "error" THEN {"uncleared"} ELSE {})
                           EXCEPT !.faults = @ + 1]
       \/ Fault({}, Lost(a)) /\ UNCHANGED account
    /\ EndsBadly(a)
    /\ UNCHANGED <<setup, provider, lock, cache, work>>

\* The cached token goes after a manual refresh; an error is only logged.
DropCached(a) ==
    /\ admin[a].pc = "drop"
    /\ \/ cache' = 0 /\ UNCHANGED past
       \/ Fault({"uncached"}, {}) /\ UNCHANGED cache
    /\ Goes(a, "recover")
    /\ UNCHANGED <<setup, account, provider, lock, work>>

\* Whether the call clears the cooldown as well: a manual refresh only where it found one,
\* or a rate limit, which is no part of this model.
Unblocks(a, row) == IF setup.call[a] = "apply" \/ row.strikes > 0 THEN {"unblock"}
                    ELSE {"unblock", "invalidate"}

\* RecoverAccountState reads the row and clears the error it finds.
RecoverAccountState(a) ==
    /\ admin[a].pc = "recover"
    /\ \/ /\ \E pc \in IF account.status = "error" THEN {"clear"} ELSE Unblocks(a, account) :
               admin' = [admin EXCEPT ![a].pc = pc, ![a].row = account]
          /\ UNCHANGED past
       \/ Fault({"uncleared"}, {}) /\ EndsBadly(a)
    /\ UNCHANGED <<setup, account, provider, lock, cache, work>>

\* ClearError, the first statement of ClearAccountError, whose failure
\* ApplyOAuthCredentials only logs.
ClearError(a) ==
    /\ admin[a].pc = "clear"
    /\ \/ /\ account' = [account EXCEPT !.status = "active"]
          /\ \E pc \in Unblocks(a, admin[a].row) : Leaves(a, pc)
          /\ UNCHANGED past
       \/ /\ Fault({"uncleared"}, {})
          /\ IF setup.call[a] = "apply" THEN Leaves(a, "invalidate") ELSE EndsBadly(a)
          /\ UNCHANGED account
    /\ UNCHANGED <<setup, provider, lock, cache, work>>

\* ClearTempUnschedulable, the last statement of ClearAccountError and of ClearRateLimit.
ClearTempUnschedulable(a) ==
    /\ admin[a].pc = "unblock"
    /\ \/ /\ account' = [account EXCEPT !.strikes = 0]
          /\ Leaves(a, "invalidate")
          /\ UNCHANGED past
       \/ /\ Fault({}, {})
          /\ IF setup.call[a] = "apply" THEN Leaves(a, "invalidate") ELSE EndsBadly(a)
          /\ UNCHANGED account
    /\ UNCHANGED <<setup, provider, lock, cache, work>>

InvalidateCached(a) ==
    /\ admin[a].pc = "invalidate"
    /\ \/ cache' = 0 /\ UNCHANGED past
       \/ Fault({"uncached"}, {}) /\ UNCHANGED cache
    /\ Ends(a)
    /\ UNCHANGED <<setup, account, provider, lock, work>>

\* persistManualRefreshFailureState after a refusal: the account is disabled, whatever its
\* credentials are by now.
SetAccountError(a) ==
    /\ admin[a].pc = "disable"
    /\ \/ /\ account' = [account EXCEPT !.status = "error"]
          /\ past' = [past EXCEPT !.kinds = @ \cup
                         (IF account.cred # admin[a].seen.cred \/ RotationUnderway
                          THEN {"blind"} ELSE {})]
       \/ Fault({}, {}) /\ UNCHANGED account
    /\ Ends(a)
    /\ UNCHANGED <<setup, provider, lock, cache, work>>

\* persistManualRefreshFailureState after any other error: a cooldown that is none of the
\* refusals in a row, or that cannot be written.
SetTempUnschedulable(a) ==
    /\ admin[a].pc = "cool"
    /\ account' \in {account, [account EXCEPT !.strikes = 0]}
    /\ Ends(a)
    /\ UNCHANGED <<setup, provider, lock, cache, work, past>>

\* The process of a call dies, or its client leaves.
AdminStops(a) ==
    /\ admin[a].pc \notin {"ready", "done"}
    /\ Fault(IF admin[a].pc \in {"drop", "recover", "clear"} THEN {"uncleared"} ELSE {}, Lost(a))
    /\ Ends(a)
    /\ UNCHANGED <<setup, account, provider, lock, cache, work>>

-----------------------------------------------------------------------------
Step(w) ==
    \/ Begin(w) \/ AcquireRefreshLock(w) \/ AcquireFails(w)
    \/ GiveUpWaiting(w) \/ RereadAccount(w)
    \/ Refresh(w) \/ RefreshReturns(w) \/ TryRecoverFromRefreshRace(w)
    \/ PersistCredentials(w) \/ PersistFails(w) \/ DropAccessToken(w)
    \/ ReleaseRefreshLock(w) \/ HandleNonRetryable(w) \/ SetErrorFails(w)
    \/ InvalidateToken(w) \/ CheckTokenVersion(w) \/ SetAccessToken(w) \/ RequestEnds(w)

AdminStep(a) ==
    \/ RefreshByHand(a) \/ ReadRow(a) \/ WriteRow(a) \/ WriteFails(a) \/ DropCached(a)
    \/ RecoverAccountState(a) \/ ClearError(a) \/ ClearTempUnschedulable(a)
    \/ InvalidateCached(a) \/ SetAccountError(a) \/ SetTempUnschedulable(a)

Next ==
    \/ \E w \in Workers : Step(w) \/ Deadline(w) \/ Crash(w)
    \/ \E a \in Admins : StartApply(a) \/ StartLoaded(a) \/ AdminStep(a) \/ AdminStops(a)
    \/ LockExpires \/ TokenAges \/ CacheExpires

Spec == Init /\ [][Next]_vars

(***************************************************************************)
(* A worker goes on (its calls have timeouts, the background loop a timer  *)
(* and a supervisor restarts a process that died), and Redis expires keys. *)
(* An administrator need not call, but a call that was made goes on.       *)
(***************************************************************************)
FairSpec ==
    /\ Spec
    /\ \A w \in Workers : WF_vars(Step(w))
    /\ \A a \in Admins : WF_vars(AdminStep(a))
    /\ WF_vars(LockExpires)

-----------------------------------------------------------------------------
(* Properties.                                                             *)

(***************************************************************************)
(* At most one worker, in all processes, is in a locked refresh of the     *)
(* account, unless the lock could not be taken or a holder outlived its    *)
(* lease (AcquireRefreshLock, clampRefreshAttemptToLockLease).  A manual   *)
(* refresh takes no lock and may overlap with it.                          *)
(***************************************************************************)
OneRefreshAtATime ==
    past.kinds \cap {"degraded", "outlived"} = {}
        => Cardinality({w \in Workers : work[w].pc \in {"call", "reply", "persist"}}) <= 1

(***************************************************************************)
(* The provider still takes the stored refresh token, unless its successor *)
(* is about to be stored or was lost on the way, in a lost answer, after a *)
(* deadline, in a failed write or in a crash, or an edit wrote the used    *)
(* token back over its successor (RefreshIfNeeded, refreshSingleAccount,   *)
(* UpdateAccount).  This holds however manual and locked refreshes overlap.*)
(***************************************************************************)
StoredTokenLives ==
    account.cred \in provider.live \cup past.orphans \/ RotationUnderway

(***************************************************************************)
(* A Grok account never goes back to credentials older than the ones an    *)
(* administrator gave it: no locked refresh that was under way overwrites  *)
(* them (UpdateGrokOAuthCredentialsIfUnchanged).  The exceptions are the   *)
(* whole-row writes of administrators: an edit of a row that has changed,  *)
(* and a manual refresh whose credentials have been replaced.              *)
(***************************************************************************)
ReauthorizationSticks ==
    setup.grok => \/ provider.root[account.cred] = past.given
                  \/ past.kinds \cap {"reverted", "overtaken"} # {}

(***************************************************************************)
(* A refresh leaves a Grok account disabled only while the provider        *)
(* refuses its refresh token, unless locked refreshes overlapped, an       *)
(* administrator's call is about to enable the account or failed to, an    *)
(* edit put an old row back, or a manual refresh was refused because       *)
(* another refresh had used the token (TryRecoverFromRefreshRace,          *)
(* SetGrokOAuthRefreshErrorIfCredentialsUnchanged, SetAccountError).       *)
(***************************************************************************)
ErrorIsDeserved ==
    setup.grok /\ account.status = "error"
        => \/ account.cred \notin provider.live
           \/ \E a \in Admins : admin[a].pc \in {"drop", "recover", "clear"}
           \/ past.kinds \cap {"degraded", "outlived", "uncleared", "reverted", "blind"} # {}

\* A worker that changed the credentials has yet to replace or drop the cached token.
InvalidationUnderway ==
    \E w \in Workers : /\ work[w].new # 0
                       /\ work[w].pc \in {"drop", "unlock", "after", "check", "set"}

(***************************************************************************)
(* The cached access token is the stored one, or the worker that changed   *)
(* the credentials has yet to invalidate it.  The exceptions: the cache or *)
(* the row could not be reached, the credentials changed between the check *)
(* of a version and the write of the cache, an edit put an old row back,   *)
(* and the stored credentials have no version of their own to check        *)
(* against: the administrator's have none, and a manual refresh keeps the  *)
(* version of the tokens it replaces (CheckTokenVersion, InvalidateToken,  *)
(* refreshSingleAccount).                                                  *)
(***************************************************************************)
CacheIsCurrent ==
    \/ cache \in {0, account.cred}
    \/ InvalidationUnderway
    \/ past.kinds \cap {"uncached", "unchecked", "raced", "reverted"} # {}
    \/ account.cred \in past.unstamped

(***************************************************************************)
(* An active account whose token is about to expire is refreshed, or is    *)
(* disabled because its successor was lost: a lock left behind by a dead   *)
(* process does not stop this.  Requests that find the lost credential may *)
(* keep the lock from the background worker whenever it looks, and the     *)
(* account stays active (refreshLoop, AcquireRefreshLock).  The last case  *)
(* is the bound on the credentials.                                        *)
(***************************************************************************)
DueIsRefreshed ==
    account.status = "active" /\ account.due
        ~> \/ ~account.due
           \/ account.status = "error"
           \/ account.cred \in past.orphans /\ setup.requests # {}
           \/ provider.issued = MaxCreds
=============================================================================
