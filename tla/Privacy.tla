------------------------------ MODULE Privacy ------------------------------
(***************************************************************************)
(* Erasure of an account (functions/delete-account, privacy/deleteAccount):*)
(* invocations asked for by the device, by an operator or by the daily     *)
(* retention sweep, each a chain of awaited calls (audit row, auth delete, *)
(* completion stamp) any of which may fail, and several of which may run   *)
(* for one account at a time.  The device forgets everything once it has   *)
(* the server's answer; the answer may be lost, the app may be killed, and *)
(* a sync begun before the erasure may answer after it.                    *)
(*                                                                         *)
(* The install may hold several accounts: what one has not synced stays    *)
(* when another signs in (auth/accountTransition), and sign-ins fall       *)
(* between any two steps of an erasure.                                    *)
(***************************************************************************)
EXTENDS Integers, FiniteSets

CONSTANTS
    Accounts,
    Nobody,       \* no session, no account being erased
    Jobs,         \* bound: the invocations of delete-account
    MaxFaults     \* bound: failing calls, lost answers and kills

ASSUME ConstantsAssumption ==
    /\ Nobody \notin Accounts
    /\ IsFiniteSet(Jobs)
    /\ MaxFaults \in Nat

VARIABLES
    users,        \* the accounts auth.users holds
    trials,       \* the anonymous ones
    idle,         \* those without a sign-in or an event for the retention window
    audits,       \* deletion_audit
    jobs,         \* the invocations, see NoJob
    device,       \* what the install holds, and where its request stands
    sync,         \* the sync under way on the device
    told,         \* the accounts whose erasure the confirmation screen has shown
    late,         \* those that had a page on its way when the install was wiped
    faults

vars == <<users, trials, idle, audits, jobs, device, sync, told, late, faults>>
-----------------------------------------------------------------------------
\* at: the account eraseUser works on; left: candidates the sweep has yet to take.
NoJob == [step |-> "free", reason |-> "none", at |-> Nobody, left |-> {}]

\* page: the answer on its way brings rows of the account the run has read.
NoSync == [phase |-> "none", uid |-> Nobody, page |-> FALSE]

\* last: lastUserId; data: the accounts of which the install holds rows or ops;
\* unsynced: those with unacked ops; wipe: pendingWipeUserId; asking: "no", "asked",
\* "confirmed", "cleared" or "forgotten"; erasing: the account it last asked for.
NewDevice(a) ==
    [session |-> a, last |-> a, data |-> {}, unsynced |-> {}, wipe |-> Nobody,
     asking |-> "no", ticket |-> Nobody, erasing |-> Nobody]

Init ==
    /\ users = Accounts /\ trials \in SUBSET Accounts /\ idle = {}
    /\ audits = {}
    /\ jobs = [j \in Jobs |-> NoJob]
    /\ device \in {NewDevice(a) : a \in Accounts}
    /\ sync = NoSync /\ told = {} /\ late = {} /\ faults = 0

server == <<users, trials, idle, audits>>

memory == <<told, late>>

Fault == faults < MaxFaults /\ faults' = faults + 1
-----------------------------------------------------------------------------
\* Time passes over an account; it is used again; its user gives an email.
GrowIdle(a) ==
    /\ a \in users \ idle
    /\ idle' = idle \cup {a}
    /\ UNCHANGED <<users, trials, audits, jobs, device, sync, memory, faults>>

Upgrade(a) ==
    /\ a \in users \cap trials
    /\ trials' = trials \ {a} /\ idle' = idle \ {a}
    /\ UNCHANGED <<users, audits, jobs, device, sync, memory, faults>>
-----------------------------------------------------------------------------
\* mode self: the token's user, checked against the auth server; an erased one is refused.
SelfJob(a) ==
    [NoJob EXCEPT !.step = IF a \in users THEN "checked" ELSE "refused",
                  !.reason = "user_request", !.at = a]

\* mode operator, behind the service key.
OperatorJob(a) ==
    [NoJob EXCEPT !.step = IF a \in users THEN "checked" ELSE "refused",
                  !.reason = "operator", !.at = a]

Operator(j) ==
    /\ jobs[j] = NoJob
    /\ \E a \in Accounts : jobs' = [jobs EXCEPT ![j] = OperatorJob(a)]
    /\ UNCHANGED <<server, device, sync, memory, faults>>

Candidates == users \cap trials \cap idle

\* mode retention: the list is read once, at most RETENTION_BATCH of it.
Sweep(j) ==
    /\ jobs[j] = NoJob
    /\ Candidates # {}
    /\ jobs' = [jobs EXCEPT ![j] = [NoJob EXCEPT !.step = "next", !.left = Candidates,
                                                 !.reason = "anonymous_retention"]]
    /\ UNCHANGED <<server, device, sync, memory, faults>>

SweepNext(j) ==
    /\ jobs[j].step = "next"
    /\ \/ /\ jobs[j].left = {}
          /\ jobs' = [jobs EXCEPT ![j].step = "done", ![j].at = Nobody]
       \/ \E a \in jobs[j].left :
             jobs' = [jobs EXCEPT ![j].step = "checked", ![j].at = a, ![j].left = @ \ {a}]
    /\ UNCHANGED <<server, device, sync, memory, faults>>

\* One failure never stops the sweep; elsewhere the invocation answers 500.
Thrown(job) == [job EXCEPT !.step = IF job.reason = "anonymous_retention" THEN "next" ELSE "failed"]

Stamped(job) == [job EXCEPT !.step = IF job.reason = "anonymous_retention" THEN "next" ELSE "done"]

\* insertAudit, after the best-effort disconnect.
Audit(j) ==
    /\ jobs[j].step = "checked"
    /\ audits' = audits \cup {[account |-> jobs[j].at, job |-> j, completed |-> FALSE]}
    /\ jobs' = [jobs EXCEPT ![j].step = "audited"]
    /\ UNCHANGED <<users, trials, idle, device, sync, memory, faults>>

\* Mutant: the account is deleted by an invocation that has not written its audit row.
DeletableEarly(j) == jobs[j].step \in {"checked", "audited"}

Deletable(j) == jobs[j].step = "audited"

\* deleteUser and its cascade; it fails on an account that is gone.
Delete(j) ==
    /\ Deletable(j)
    /\ LET a == jobs[j].at IN
       IF a \in users
       THEN /\ users' = users \ {a} /\ trials' = trials \ {a} /\ idle' = idle \ {a}
            /\ jobs' = [jobs EXCEPT ![j].step = "deleted"]
       ELSE /\ jobs' = [jobs EXCEPT ![j] = Thrown(@)]
            /\ UNCHANGED <<users, trials, idle>>
    /\ UNCHANGED <<audits, device, sync, memory, faults>>

\* completeAudit.
Complete(j) ==
    /\ jobs[j].step = "deleted"
    /\ audits' = {IF r.job = j /\ r.account = jobs[j].at THEN [r EXCEPT !.completed = TRUE] ELSE r
                    : r \in audits}
    /\ jobs' = [jobs EXCEPT ![j] = Stamped(@)]
    /\ UNCHANGED <<users, trials, idle, device, sync, memory, faults>>

\* A call throws; a failure to stamp the audit row is not one.
JobFault(j) ==
    /\ Fault
    /\ \/ /\ jobs[j].step \in {"checked", "audited"}
          /\ jobs' = [jobs EXCEPT ![j] = Thrown(@)]
       \/ /\ jobs[j].step = "deleted"
          /\ jobs' = [jobs EXCEPT ![j] = Stamped(@)]
    /\ UNCHANGED <<server, device, sync, memory>>
-----------------------------------------------------------------------------
\* A local write of the signed-in account.  Not modelled: one in the single await between
\* the wipe and the local sign-out.
Use ==
    /\ device.session # Nobody /\ device.asking # "forgotten"
    /\ device.session \notin device.unsynced
    /\ device' = [device EXCEPT !.data = @ \cup {device.session},
                                !.unsynced = @ \cup {device.session}]
    /\ UNCHANGED <<server, jobs, sync, memory, faults>>

\* wipeLocalMirror and wipeRowsOf.
Wiped(dev) == [dev EXCEPT !.data = {}, !.unsynced = {}]

WipedOf(dev, a) == [dev EXCEPT !.data = @ \ {a}, !.unsynced = @ \ {a}]

\* Mutant: the wipe of an account change is never put off.
TransitionWipes(dev) == Wiped(dev)

\* transitionToAccount: wipe now, or keep everything and ask.
Transition(dev) ==
    IF dev.last \in dev.unsynced THEN [dev EXCEPT !.wipe = dev.last] ELSE Wiped(dev)

\* reconcilePendingWipe: the owner is back, nothing is left to protect, or ask again.
Reconciled(dev, a) ==
    IF dev.wipe = a THEN [dev EXCEPT !.wipe = Nobody]
    ELSE IF dev.wipe \in dev.unsynced THEN dev
    ELSE [WipedOf(dev, dev.wipe) EXCEPT !.wipe = Nobody]

\* handleSignedIn, in one step with the sign-in or relaunch it follows.
SignedIn(dev, a) ==
    [Reconciled(IF dev.last \in {Nobody, a} THEN dev ELSE Transition(dev), a)
        EXCEPT !.session = a, !.last = a]

SignIn(a) ==
    /\ a \in users /\ a # device.session
    /\ device' = SignedIn(device, a)
    /\ UNCHANGED <<server, jobs, sync, memory, faults>>

\* The banner: Discard drops the other account's rows and ops, Keep asks no more.
DiscardWipe ==
    /\ device.wipe # Nobody
    /\ device' = [WipedOf(device, device.wipe) EXCEPT !.wipe = Nobody]
    /\ UNCHANGED <<server, jobs, sync, memory, faults>>

KeepWipe ==
    /\ device.wipe # Nobody
    /\ device' = [device EXCEPT !.wipe = Nobody]
    /\ UNCHANGED <<server, jobs, sync, memory, faults>>
-----------------------------------------------------------------------------
\* deleteAccountAction: the request carries the token of the moment.
Ask(j) ==
    /\ device.asking = "no" /\ device.session # Nobody
    /\ jobs[j] = NoJob
    /\ device' = [device EXCEPT !.asking = "asked", !.ticket = j, !.erasing = device.session]
    /\ jobs' = [jobs EXCEPT ![j] = SelfJob(device.session)]
    /\ UNCHANGED <<server, sync, memory, faults>>

\* Mutant: any answer of the server is taken for a confirmation.
ConfirmedAny(step) == step \in {"done", "failed", "refused"}

Confirmed(step) == step = "done"

\* deleteAccount: forget only on the server's confirmation.
Answered ==
    /\ device.asking = "asked"
    /\ jobs[device.ticket].step \in {"done", "failed", "refused"}
    /\ device' = [device EXCEPT !.ticket = Nobody,
          !.asking = IF Confirmed(jobs[device.ticket].step) THEN "confirmed" ELSE "no"]
    /\ UNCHANGED <<server, jobs, sync, memory, faults>>

\* The request or its answer is lost; the invocation goes on.
LoseAnswer ==
    /\ Fault
    /\ device.asking = "asked"
    /\ device' = [device EXCEPT !.asking = "no", !.ticket = Nobody]
    /\ UNCHANGED <<server, jobs, sync, memory>>

\* forgetLocalState: notifications first (awaited), then the mirror, the outbox, the
\* cursor and the keys in one turn, then the local sign-out (awaited).
ClearNotifications ==
    /\ device.asking = "confirmed"
    /\ device' = [device EXCEPT !.asking = "cleared"]
    /\ UNCHANGED <<server, jobs, sync, memory, faults>>

\* Mutant: the mirror stays behind.
ForgottenHalf(dev) == [dev EXCEPT !.wipe = Nobody, !.last = Nobody, !.asking = "forgotten"]

Forgotten(dev) == [Wiped(dev) EXCEPT !.wipe = Nobody, !.last = Nobody, !.asking = "forgotten"]

ForgetLocal ==
    /\ device.asking = "cleared"
    /\ device' = Forgotten(device)
    /\ late' = late \cup (IF sync.page THEN {sync.uid} ELSE {})
    /\ UNCHANGED <<server, jobs, sync, told, faults>>

\* Whoever is signed in is signed out, and the screen confirms.
SignOutLocal ==
    /\ device.asking = "forgotten"
    /\ device' = [device EXCEPT !.asking = "no", !.session = Nobody]
    /\ told' = told \cup {device.erasing}
    /\ UNCHANGED <<server, jobs, sync, late, faults>>

\* The app is killed: what it was doing is not taken up again, and the session that is
\* stored is handled like a sign-in.
Kill ==
    /\ Fault
    /\ device.session # Nobody
    /\ device' = [SignedIn(device, device.session) EXCEPT !.asking = "no", !.ticket = Nobody]
    /\ sync' = NoSync
    /\ UNCHANGED <<server, jobs, memory>>
-----------------------------------------------------------------------------
\* A sync of the device reads the account once.
StartSync ==
    /\ sync = NoSync
    /\ device.session # Nobody
    /\ sync' = [NoSync EXCEPT !.phase = "asked", !.uid = device.session]
    /\ UNCHANGED <<server, jobs, device, memory, faults>>

\* The request carries the token of the moment, which outlives its account: rows come of
\* the token's account, and only those of the run's account are applied.
SyncRead ==
    /\ sync.phase = "asked"
    /\ sync' = IF device.session \in users
               THEN [sync EXCEPT !.phase = "answer", !.page = sync.uid = device.session]
               ELSE NoSync
    /\ UNCHANGED <<server, jobs, device, memory, faults>>

\* The ops of the batch are acked or dead-lettered, the page is applied; ops written since
\* the batch may be left.  Then another round, or the end.
SyncApply ==
    /\ sync.phase = "answer"
    /\ \E left \in {device.unsynced, device.unsynced \ {sync.uid}} :
          device' = [device EXCEPT !.data = IF sync.page THEN @ \cup {sync.uid} ELSE @,
                                   !.unsynced = left]
    /\ sync' \in {NoSync, [sync EXCEPT !.phase = "asked", !.page = FALSE]}
    /\ UNCHANGED <<server, jobs, memory, faults>>

Next ==
    \/ \E a \in Accounts : GrowIdle(a) \/ Upgrade(a) \/ SignIn(a)
    \/ \E j \in Jobs :
          \/ Operator(j) \/ Sweep(j) \/ SweepNext(j)
          \/ Audit(j) \/ Delete(j) \/ Complete(j) \/ JobFault(j)
          \/ Ask(j)
    \/ Use \/ DiscardWipe \/ KeepWipe \/ Answered \/ LoseAnswer \/ Kill
    \/ ClearNotifications \/ ForgetLocal \/ SignOutLocal
    \/ StartSync \/ SyncRead \/ SyncApply

Spec == Init /\ [][Next]_vars
-----------------------------------------------------------------------------
AuditsOf(a) == {r \in audits : r.account = a}

\* Proof of erasure: whatever failed or ran twice, an account that is gone has an audit
\* row, no account that is still there has a completed one, and at most one row per
\* account is completed.
ErasureProven ==
    \A a \in Accounts :
        LET done == {r \in AuditsOf(a) : r.completed} IN
        /\ a \notin users => AuditsOf(a) # {}
        /\ done # {} => a \notin users
        /\ Cardinality(done) <= 1

\* The wipe of everybody's rows that an account change makes for the account that leaves
\* synced, and the one an erasure makes once the server has erased the account.
WipedForAnother(a) ==
    \/ device.last # device'.last /\ device.last \notin device.unsynced \cup {a, Nobody}
    \/ ForgetLocal /\ device.erasing \notin users \cup {a, Nobody}

\* What an account has written and not synced leaves the device only when the server has
\* answered for it or has erased the account, when it is discarded on the banner, or with
\* the wipe of another account's data, which must be synced or erased itself.
ForgetsOnlyErased ==
    [][\A a \in device.unsynced \ device'.unsynced :
         \/ a \notin users
         \/ SyncApply /\ sync.uid = a
         \/ DiscardWipe /\ device.wipe = a
         \/ WipedForAnother(a)]_vars

\* Once the screen has confirmed an erasure, nothing of the account is on the install, nor
\* comes back to it whoever signs in, syncs or wipes later, unless a page of it was on its
\* way when the install was wiped.
ForgottenUnlessLate == told \cap device.data \subseteq late

\* What the confirmation screen says without that exception.
NothingLeft == told \cap device.data = {}

\* Deferred wipe: rows of an account that is still there stay while it has unsynced ops,
\* also when the account signed in meanwhile is erased.
ErasesOnlyOwn ==
    [][ForgetLocal => device.unsynced \cap users = {}]_vars

\* An already-erased account gets 401, never a second audit row.
NeverTwoAudits ==
    \A a \in Accounts : Cardinality(AuditsOf(a)) <= 1

\* The retention sweep erases only anonymous accounts that are idle when it does.
RetentionSparesUpgraded ==
    [][\A a \in users \ users' :
         \/ \E j \in Jobs : jobs[j].at = a /\ jobs[j].reason # "anonymous_retention"
         \/ a \in trials \cap idle]_vars
=============================================================================
