------------------------------ MODULE SyncLease ------------------------------
(***************************************************************************)
(* The per-user lease (supabase/functions/_shared/lease.ts; sync_leases in *)
(* supabase/migrations/20260828120000_p8_sync.sql) and what it is for:     *)
(* server_seq is drawn from a sequence inside a transaction and becomes    *)
(* visible at its commit, so a pull that reads between the two would move  *)
(* a device's cursor past a row it never got.                              *)
(*                                                                         *)
(* sync-resolve takes the lease or answers 409, writes in transactions of  *)
(* its own, reads the rows above the caller's cursor and releases.  The    *)
(* plan and calendar writers wait for the lease and, if it stays busy,     *)
(* write without it.  A holder may die, or outlive the lease's TTL.        *)
(*                                                                         *)
(* Init, Next and the like carry Lease in their names, as SyncProofs       *)
(* extends this module and SyncEngine.                                     *)
(***************************************************************************)
EXTENDS Integers, FiniteSets

CONSTANTS
    Devices,      \* devices of the user, each with at most one sync-resolve request
    Nobody,       \* stands for "no row in sync_leases"
    Writers,      \* plan-request, gcal-webhook and gcal-connect: withLease
    PageSize,     \* pull_limit
    MaxDraws,     \* bound: write transactions begun
    MaxGiveUps,   \* bound: withLease calls that run although the lease is busy
    MaxOverruns,  \* bound: leases that expire while their holder still runs
    MaxCrashes    \* bound: requests that die, answers lost, releases that fail

ASSUME LeaseAssumption ==
    /\ Devices \cap Writers = {}
    /\ Nobody \notin Devices \cup Writers
    /\ PageSize \in Nat \ {0}
    /\ MaxDraws \in Nat
    /\ MaxGiveUps \in Nat
    /\ MaxOverruns \in Nat
    /\ MaxCrashes \in Nat

VARIABLES
    lease,      \* the sync_leases row: who inserted it, and whether it is unexpired
    phase,      \* phase[p] of a request: idle, waiting, working, leaving
    token,      \* token[p]: p got a lease token and has not released it
    open,       \* open[p]: server_seq of p's open transaction, 0 when none is open
    nextSeq,    \* last value drawn from sync_seq
    committed,  \* server_seqs of the committed rows
    answer,     \* answer[d]: the page on its way to device d
    cursor,     \* cursor[d]: max server_seq seen by d
    seen,       \* seen[d]: server_seqs d has received
    giveUps, overruns, crashes

leaseVars == <<lease, phase, token, open, nextSeq, committed, answer, cursor, seen,
          giveUps, overruns, crashes>>
counters == <<giveUps, overruns, crashes>>
rows == <<nextSeq, committed>>
devices == <<answer, cursor, seen>>
-----------------------------------------------------------------------------
Procs == Devices \cup Writers

NoAnswer == [page |-> {}, top |-> 0]

\* Mutants: the expiry test is inverted; an expired row is never taken over.
FreeWhileLive == lease.holder = Nobody \/ lease.live

FreeIfAbsent == lease.holder = Nobody

\* acquire_sync_lease: the row is absent or expired.
Free == lease.holder = Nobody \/ ~lease.live

LeaseInit ==
    /\ lease = [holder |-> Nobody, live |-> FALSE]
    /\ phase = [p \in Procs |-> "idle"]
    /\ token = [p \in Procs |-> FALSE]
    /\ open = [p \in Procs |-> 0]
    /\ nextSeq = 0 /\ committed = {}
    /\ answer = [d \in Devices |-> NoAnswer]
    /\ cursor = [d \in Devices |-> 0]
    /\ seen = [d \in Devices |-> {}]
    /\ giveUps = 0 /\ overruns = 0 /\ crashes = 0

\* A device has one sync under way until it has its answer (single flight).
Request(p) ==
    /\ phase[p] = "idle"
    /\ p \in Devices => answer[p] = NoAnswer
    /\ phase' = [phase EXCEPT ![p] = "waiting"]
    /\ UNCHANGED <<lease, token, open, rows, devices, counters>>

Acquire(p) ==
    /\ phase[p] = "waiting"
    /\ Free
    /\ lease' = [holder |-> p, live |-> TRUE]
    /\ token' = [token EXCEPT ![p] = TRUE]
    /\ phase' = [phase EXCEPT ![p] = "working"]
    /\ UNCHANGED <<open, rows, devices, counters>>

\* sync-resolve answers 409 and the device tries again later.
Refuse(d) ==
    /\ d \in Devices
    /\ phase[d] = "waiting"
    /\ ~Free
    /\ phase' = [phase EXCEPT ![d] = "idle"]
    /\ UNCHANGED <<lease, token, open, rows, devices, counters>>

\* withLease: still busy after waitMs, fn runs with held = false.
GiveUp(w) ==
    /\ w \in Writers
    /\ phase[w] = "waiting"
    /\ ~Free
    /\ giveUps < MaxGiveUps
    /\ giveUps' = giveUps + 1
    /\ phase' = [phase EXCEPT ![w] = "working"]
    /\ UNCHANGED <<lease, token, open, rows, devices, overruns, crashes>>

\* tg_set_server_seq draws the row's server_seq inside the transaction.
Draw(p) ==
    /\ phase[p] = "working"
    /\ open[p] = 0
    /\ nextSeq < MaxDraws
    /\ nextSeq' = nextSeq + 1
    /\ open' = [open EXCEPT ![p] = nextSeq + 1]
    /\ UNCHANGED <<lease, phase, token, committed, devices, counters>>

Commit(p) ==
    /\ open[p] # 0
    /\ committed' = committed \cup {open[p]}
    /\ open' = [open EXCEPT ![p] = 0]
    /\ UNCHANGED <<lease, phase, token, nextSeq, devices, counters>>

\* sync_pull: the PageSize lowest committed rows above the cursor.
Above(d) == {s \in committed : s > cursor[d]}

\* Mutant: the page holds the highest rows.
PageFromTop(d) == {s \in Above(d) : Cardinality({t \in Above(d) : t > s}) < PageSize}

Page(d) == {s \in Above(d) : Cardinality({t \in Above(d) : t < s}) < PageSize}

Pull(d) ==
    /\ d \in Devices
    /\ phase[d] = "working"
    /\ open[d] = 0
    /\ \E top \in Page(d) \cup {cursor[d]} :
          /\ \A s \in Page(d) \cup {cursor[d]} : s <= top
          /\ answer' = [answer EXCEPT ![d] = [page |-> Page(d), top |-> top]]
    /\ phase' = [phase EXCEPT ![d] = "leaving"]
    /\ UNCHANGED <<lease, token, open, rows, cursor, seen, counters>>

Finish(w) ==
    /\ w \in Writers
    /\ phase[w] = "working"
    /\ open[w] = 0
    /\ phase' = [phase EXCEPT ![w] = "leaving"]
    /\ UNCHANGED <<lease, token, open, rows, devices, counters>>

\* Mutant: the row is deleted whoever holds it.
ReleasedAnyway(p) == [holder |-> Nobody, live |-> FALSE]

\* release_sync_lease deletes the row of this token only.
Released(p) ==
    IF token[p] /\ lease.holder = p THEN [holder |-> Nobody, live |-> FALSE] ELSE lease

Release(p) ==
    /\ phase[p] = "leaving"
    /\ lease' = Released(p)
    /\ token' = [token EXCEPT ![p] = FALSE]
    /\ phase' = [phase EXCEPT ![p] = "idle"]
    /\ UNCHANGED <<open, rows, devices, counters>>

\* The release RPC fails: it is logged, the caller still answers, the TTL bounds it.
ReleaseFails(p) ==
    /\ phase[p] = "leaving"
    /\ crashes < MaxCrashes
    /\ crashes' = crashes + 1
    /\ token' = [token EXCEPT ![p] = FALSE]
    /\ phase' = [phase EXCEPT ![p] = "idle"]
    /\ UNCHANGED <<lease, open, rows, devices, giveUps, overruns>>

\* applyPull and advanceSyncCursor on the device.
Receive(d) ==
    /\ d \in Devices
    /\ phase[d] = "idle"
    /\ answer[d] # NoAnswer
    /\ seen' = [seen EXCEPT ![d] = @ \cup answer[d].page]
    /\ cursor' = [cursor EXCEPT ![d] = IF answer[d].top > @ THEN answer[d].top ELSE @]
    /\ answer' = [answer EXCEPT ![d] = NoAnswer]
    /\ UNCHANGED <<lease, phase, token, open, rows, counters>>

\* The answer does not reach the device.
LoseAnswer(d) ==
    /\ d \in Devices
    /\ phase[d] = "idle"
    /\ answer[d] # NoAnswer
    /\ crashes < MaxCrashes
    /\ crashes' = crashes + 1
    /\ answer' = [answer EXCEPT ![d] = NoAnswer]
    /\ UNCHANGED <<lease, phase, token, open, rows, cursor, seen, giveUps, overruns>>

\* The function instance dies: its open transaction rolls back (or has committed
\* just before), its lease stays.
Crash(p) ==
    /\ phase[p] # "idle"
    /\ crashes < MaxCrashes
    /\ crashes' = crashes + 1
    /\ phase' = [phase EXCEPT ![p] = "idle"]
    /\ token' = [token EXCEPT ![p] = FALSE]
    /\ open' = [open EXCEPT ![p] = 0]
    /\ answer' = [d \in Devices |-> IF d = p THEN NoAnswer ELSE answer[d]]
    /\ UNCHANGED <<lease, rows, cursor, seen, giveUps, overruns>>

Orphaned == lease.holder \in Procs /\ ~token[lease.holder]

\* The TTL of a dead holder's lease runs out.
Expire ==
    /\ lease.live
    /\ Orphaned
    /\ lease' = [lease EXCEPT !.live = FALSE]
    /\ UNCHANGED <<phase, token, open, rows, devices, counters>>

\* The TTL runs out on a holder that is still at work.
Overrun ==
    /\ lease.live
    /\ ~Orphaned
    /\ overruns < MaxOverruns
    /\ overruns' = overruns + 1
    /\ lease' = [lease EXCEPT !.live = FALSE]
    /\ UNCHANGED <<phase, token, open, rows, devices, giveUps, crashes>>

LeaseNext ==
    \/ \E p \in Procs :
        \/ Request(p) \/ Acquire(p) \/ Refuse(p) \/ GiveUp(p)
        \/ Draw(p) \/ Commit(p) \/ Pull(p) \/ Finish(p) \/ Release(p)
        \/ ReleaseFails(p)
        \/ Receive(p) \/ LoseAnswer(p) \/ Crash(p)
    \/ Expire \/ Overrun

LeaseSpec == LeaseInit /\ [][LeaseNext]_leaseVars

(***************************************************************************)
(* A running request makes progress and time passes.  Nothing obliges      *)
(* anyone to send a request.                                               *)
(***************************************************************************)
LeaseFairness ==
    /\ \A p \in Procs :
        /\ WF_leaseVars(Commit(p)) /\ WF_leaseVars(Pull(p)) /\ WF_leaseVars(Finish(p))
        /\ WF_leaseVars(Release(p))
    /\ WF_leaseVars(Expire)

FairLeaseSpec == LeaseSpec /\ LeaseFairness
-----------------------------------------------------------------------------
Answers == [page: SUBSET Nat, top: Nat]

LeaseTypeOK ==
    /\ lease \in [holder: Procs \cup {Nobody}, live: BOOLEAN]
    /\ phase \in [Procs -> {"idle", "waiting", "working", "leaving"}]
    /\ token \in [Procs -> BOOLEAN]
    /\ open \in [Procs -> Nat]
    /\ nextSeq \in Nat /\ committed \in SUBSET Nat
    /\ answer \in [Devices -> Answers]
    /\ cursor \in [Devices -> Nat]
    /\ seen \in [Devices -> SUBSET Nat]
    /\ giveUps \in Nat /\ overruns \in Nat /\ crashes \in Nat

\* Every write so far was made under an unexpired lease.
AllHeld == giveUps = 0 /\ overruns = 0

\* No row is skipped: a device has received every committed row at or below its
\* cursor, whichever order the writers drew and committed in.
NothingSkipped ==
    AllHeld => \A d \in Devices : \A s \in committed : s <= cursor[d] => s \in seen[d]

\* A pull never lands between a writer's server_seq assignment and its commit
\* (lease.ts), as long as no writer went on without the lease.
PullOutsideWrites ==
    [][\A d \in Devices : AllHeld /\ Pull(d) => \A p \in Procs : open[p] = 0]_leaseVars

\* A holder that outlived its lease cannot free the lease of the next one.
ReleaseIsOwn ==
    [][\A p \in Procs : lease.holder = p /\ lease'.holder = Nobody => Release(p)]_leaseVars

\* A crashed holder cannot wedge a user (lease.ts): the lease becomes free again.
NeverWedged == []<>Free

=============================================================================
