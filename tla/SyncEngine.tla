----------------------------- MODULE SyncEngine -----------------------------
(***************************************************************************)
(* The scheduling of syncs on one device (apps/mobile/src/sync/engine.ts): *)
(* single flight with one coalesced follow-up, a debounce timer for local  *)
(* writes, a poll while the app is active, one retry after a busy lease,   *)
(* and at most MAX_ROUNDS rounds of MAX_OPS_PER_BATCH ops in one sync.     *)
(*                                                                         *)
(* What an op does on the server is TaskSync's subject: here an op is a    *)
(* number, and an answer settles some ops of the batch and keeps others    *)
(* (errors, and conflicts rewritten for replay).  Code between two awaits  *)
(* is one step.                                                            *)
(***************************************************************************)
EXTENDS Integers, FiniteSets

CONSTANTS
    MaxBatch,     \* MAX_OPS_PER_BATCH
    MaxRounds,    \* MAX_ROUNDS
    MaxWrites,    \* bound: local writes
    MaxKills      \* bound: times the OS kills the app

ASSUME ConstantsAssumption ==
    /\ MaxBatch \in Nat \ {0}
    /\ MaxRounds \in Nat \ {0}
    /\ MaxWrites \in Nat
    /\ MaxKills \in Nat

VARIABLES
    \* the outbox
    written,       \* seq of the last op written
    pending,       \* ops without acked_at
    \* module state of engine.ts, the store, and run's locals
    run,           \* the run under way (inFlight), NoRun when there is none
    sent,          \* op ids pushed by the last run
    followUp,      \* the coalesced follow-up
    timer,         \* debounceTimer and the reason it will sync for
    retryingBusy,
    status,        \* useSyncStore.status
    last,          \* outcome of the last run
    plan,          \* ops pending when syncBeforePlan was called, NoPlan when not awaited
    \* the world
    active, online, signedIn,
    calm,          \* the server answers, has the lease free and keeps nothing
    kills

engine == <<run, sent, followUp, timer, retryingBusy, status, last, plan>>
world == <<active, online, signedIn, calm, kills>>
vars == <<written, pending, engine, world>>
-----------------------------------------------------------------------------
\* SyncReason, as far as the scheduler tells them apart.
Reasons == {"poll", "other"}

Kinds == {"none", "synced", "offline", "no-session", "busy", "failed"}

\* Ghost field retry: this trigger is the retry of a busy run, or coalesced with it.
NoTrigger == [reason |-> "none", retry |-> FALSE]

NoRun == [phase |-> "none", reason |-> "none", retry |-> FALSE, rounds |-> 0, batch |-> {}]

NoPlan == {0}

Started(t) ==
    [phase |-> "session", reason |-> t.reason, retry |-> t.retry, rounds |-> 0, batch |-> {}]

Coalesced(t, old) == [t EXCEPT !.retry = @ \/ old.retry]

\* pendingOpsFor: the oldest unacked ops, one batch of them.
FirstOf(ops) == {o \in ops : Cardinality({p \in ops : p < o}) < MaxBatch}

\* syncNow: single flight; a caller other than the poll leaves a follow-up.
SyncNow(t) ==
    IF run = NoRun
    THEN run' = Started(t) /\ UNCHANGED followUp
    ELSE /\ followUp' = IF t.reason = "poll" THEN followUp ELSE Coalesced(t, followUp)
         /\ UNCHANGED run

Trigger(reason) == SyncNow([reason |-> reason, retry |-> FALSE])

\* Mutant: local writes are left to the poll.
ScheduledForRetry(t) == IF t.retry THEN t ELSE timer

\* scheduleSync: the timer is set anew.
Scheduled(t) == Coalesced(t, timer)

Init ==
    /\ written = 0 /\ pending = {}
    /\ run = NoRun /\ sent = {} /\ followUp = NoTrigger /\ timer = NoTrigger
    /\ retryingBusy = FALSE /\ status = "idle"
    /\ last = [kind |-> "none", rounds |-> 0]
    /\ plan = NoPlan
    /\ active = TRUE /\ online \in BOOLEAN /\ signedIn = FALSE /\ calm = TRUE /\ kills = 0
-----------------------------------------------------------------------------
\* A local write: enqueueOp, then scheduleSync('write') by its caller.
Write ==
    /\ written < MaxWrites
    /\ written' = written + 1
    /\ pending' = pending \cup {written + 1}
    /\ timer' = Scheduled([reason |-> "other", retry |-> FALSE])
    /\ UNCHANGED <<run, sent, followUp, retryingBusy, status, last, plan, world>>

TimerFires ==
    /\ timer # NoTrigger
    /\ timer' = NoTrigger
    /\ SyncNow(timer)
    /\ UNCHANGED <<written, pending, sent, retryingBusy, status, last, plan, world>>

Poll ==
    /\ active
    /\ Trigger("poll")
    /\ UNCHANGED <<written, pending, sent, timer, retryingBusy, status, last, plan, world>>

\* The Sync button, a calendar connection, the lapse scan of the Today screen.
Manual ==
    /\ active
    /\ Trigger("other")
    /\ UNCHANGED <<written, pending, sent, timer, retryingBusy, status, last, plan, world>>

Foreground ==
    /\ ~active
    /\ active' = TRUE
    /\ Trigger("other")
    /\ UNCHANGED <<written, pending, sent, timer, retryingBusy, status, last, plan,
                   online, signedIn, calm, kills>>

Background ==
    /\ active
    /\ active' = FALSE
    /\ UNCHANGED <<written, pending, engine, online, signedIn, calm, kills>>

\* The network listener syncs only when the last sync failed for want of a network.
Reconnect ==
    /\ ~online
    /\ online' = TRUE
    /\ IF status = "offline" THEN Trigger("other") ELSE UNCHANGED <<run, followUp>>
    /\ UNCHANGED <<written, pending, sent, timer, retryingBusy, status, last, plan,
                   active, signedIn, calm, kills>>

Disconnect ==
    /\ online
    /\ online' = FALSE
    /\ UNCHANGED <<written, pending, engine, active, signedIn, calm, kills>>

\* handleSignedIn, at the first sign-in of the install.
SignIn ==
    /\ ~signedIn /\ online
    /\ signedIn' = TRUE
    /\ Trigger("other")
    /\ UNCHANGED <<written, pending, sent, timer, retryingBusy, status, last, plan,
                   active, online, calm, kills>>

\* syncBeforePlan: the plan request waits for the run under way, or for its own.
SyncBeforePlan ==
    /\ active /\ signedIn
    /\ plan = NoPlan
    /\ plan' = pending
    /\ Trigger("other")
    /\ UNCHANGED <<written, pending, sent, timer, retryingBusy, status, last, world>>

\* Another device takes the lease or edits the same rows, the server misbehaves; or not.
ServerTurns ==
    /\ calm' = ~calm
    /\ UNCHANGED <<written, pending, engine, active, online, signedIn, kills>>
-----------------------------------------------------------------------------
\* Mutant: inFlight is cleared by then() and not by finally().
ResolvedThen(kind, rounds) ==
    /\ last' = [kind |-> kind, rounds |-> rounds]
    /\ plan' = NoPlan
    /\ run' = IF kind = "failed" THEN [run EXCEPT !.phase = "never resolved"]
              ELSE IF followUp = NoTrigger THEN NoRun ELSE Started(followUp)
    /\ followUp' = NoTrigger

\* run has returned: its callers have the outcome, and finally starts the follow-up.
Resolved(kind, rounds) ==
    /\ last' = [kind |-> kind, rounds |-> rounds]
    /\ plan' = NoPlan
    /\ run' = IF followUp = NoTrigger THEN NoRun ELSE Started(followUp)
    /\ followUp' = NoTrigger

\* Without a session run returns early, before the bookkeeping of the busy retry.
NoSession ==
    /\ run.phase = "session"
    /\ \/ ~signedIn /\ status' = "no_session" /\ Resolved("no-session", 0)
       \/ /\ signedIn /\ ~(online /\ calm)
          /\ status' = "offline" /\ Resolved("offline", 0)
    /\ UNCHANGED <<written, pending, sent, timer, retryingBusy, world>>

Session ==
    /\ run.phase = "session"
    /\ signedIn
    /\ status' = "syncing"
    /\ run' = [run EXCEPT !.phase = "call", !.rounds = 1, !.batch = FirstOf(pending)]
    /\ sent' = FirstOf(pending)
    /\ UNCHANGED <<written, pending, followUp, timer, retryingBusy, last, plan, world>>

\* Mutant: a busy answer leaves the store as it was.
StatusUnlessBusy(kind) ==
    CASE kind = "offline" -> "offline" [] kind = "failed" -> "error"
      [] kind = "synced" -> "idle" [] OTHER -> status

StatusAfter(kind) ==
    CASE kind = "offline" -> "offline" [] kind = "failed" -> "error" [] OTHER -> "idle"

\* Mutant: every busy run schedules a retry.
RetryAlways(kind) == kind = "busy"

Retry(kind) == kind = "busy" /\ ~retryingBusy

End(kind) ==
    /\ status' = StatusAfter(kind)
    /\ retryingBusy' = Retry(kind)
    /\ timer' = IF Retry(kind) THEN Scheduled([reason |-> run.reason, retry |-> TRUE])
                ELSE timer
    /\ Resolved(kind, run.rounds)

\* Mutants: only a full page asks for another round; one round too many.
AnotherRoundForPage(more, conflicts) == more /\ run.rounds < MaxRounds

AnotherRoundLate(more, conflicts) ==
    (more \/ conflicts \/ ~(pending' \subseteq sent)) /\ run.rounds <= MaxRounds

\* Another round: a full page, a conflict to replay, or ops that were never sent.
AnotherRound(more, conflicts) ==
    /\ more \/ conflicts \/ ~(pending' \subseteq sent)
    /\ run.rounds < MaxRounds

\* The answer: acks settle ops of the batch, the page is applied (a dead-lettered
\* op's re-read is one more await, in which a write is as good as one before it).
Answer ==
    /\ run.phase = "call"
    /\ online
    /\ \E kept \in SUBSET run.batch, more, conflicts \in BOOLEAN :
          /\ kept # {} => ~calm
          /\ conflicts => kept # {}
          /\ pending' = pending \ (run.batch \ kept)
          /\ IF AnotherRound(more, conflicts)
             THEN /\ run' = [run EXCEPT !.rounds = @ + 1, !.batch = FirstOf(pending')]
                  /\ sent' = sent \cup FirstOf(pending')
                  /\ UNCHANGED <<followUp, timer, retryingBusy, status, last, plan>>
             ELSE End("synced") /\ UNCHANGED sent
    /\ UNCHANGED <<written, world>>

\* No answer, 409, another status, or an exception after some acks were handled.
Fail ==
    /\ run.phase = "call"
    /\ \/ ~(online /\ calm) /\ End("offline") /\ UNCHANGED pending
       \/ online /\ ~calm /\ End("busy") /\ UNCHANGED pending
       \/ /\ online /\ ~calm /\ End("failed")
          /\ \E settled \in SUBSET run.batch : pending' = pending \ settled
    /\ UNCHANGED <<written, sent, world>>

\* The app is killed and opened again: only the outbox survives.
Kill ==
    /\ kills < MaxKills
    /\ kills' = kills + 1
    /\ run' = IF signedIn THEN Started([reason |-> "other", retry |-> FALSE]) ELSE NoRun
    /\ sent' = {} /\ followUp' = NoTrigger /\ timer' = NoTrigger
    /\ retryingBusy' = FALSE /\ status' = "idle"
    /\ last' = [kind |-> "none", rounds |-> 0] /\ plan' = NoPlan
    /\ active' = TRUE
    /\ UNCHANGED <<written, pending, online, signedIn, calm>>

Next ==
    \/ Write \/ TimerFires \/ Poll \/ Manual \/ Foreground \/ Background
    \/ Reconnect \/ Disconnect \/ SignIn \/ SyncBeforePlan \/ ServerTurns
    \/ NoSession \/ Session \/ Answer \/ Fail \/ Kill

Spec == Init /\ [][Next]_vars

(***************************************************************************)
(* The event loop: timers fire and pending promises settle.  Nothing is    *)
(* asked of the user, the network or the server.                           *)
(***************************************************************************)
Fairness ==
    /\ WF_vars(TimerFires) /\ WF_vars(Poll)
    /\ WF_vars(NoSession \/ Session) /\ WF_vars(Answer \/ Fail)

FairSpec == Spec /\ Fairness
-----------------------------------------------------------------------------
Triggers == [reason: Reasons, retry: BOOLEAN] \cup {NoTrigger}

TypeOK ==
    /\ written \in 0..MaxWrites
    /\ pending \in SUBSET (1..written) /\ sent \in SUBSET (1..written)
    /\ run \in [phase: {"session", "call"}, reason: Reasons, retry: BOOLEAN,
                rounds: 0..MaxRounds, batch: SUBSET (1..written)] \cup {NoRun}
    /\ followUp \in Triggers /\ timer \in Triggers
    /\ retryingBusy \in BOOLEAN
    /\ status \in {"idle", "syncing", "offline", "no_session", "error"}
    /\ last \in [kind: Kinds, rounds: 0..MaxRounds]
    /\ plan \in {NoPlan} \cup SUBSET (1..written)
    /\ <<active, online, signedIn, calm>> \in BOOLEAN \X BOOLEAN \X BOOLEAN \X BOOLEAN
    /\ kills \in 0..MaxKills

\* No write is orphaned: when nothing is under way or due, and the last run neither
\* failed nor ran out of rounds, every op still in the outbox was sent by that run.
NoOrphanWrite ==
    /\ run = NoRun /\ timer = NoTrigger
    /\ last.kind = "synced" /\ last.rounds < MaxRounds
    => pending \subseteq sent

\* The store never sticks in `syncing` (adversarial #7): it says so exactly while a
\* request is awaited.
SyncingIsTrue == status = "syncing" <=> run.phase = "call"

\* The engine owes nothing it does not know of: no write without a sync to come, no stuck status.
EngineSound == TypeOK /\ NoOrphanWrite /\ SyncingIsTrue

\* A plan request that joined a run gets, with a synced outcome inside the round
\* limit, every op that was pending when it asked pushed, those written after the
\* run took its batch included.
PrePlanPushed ==
    [][plan # NoPlan /\ plan' = NoPlan /\ last'.kind = "synced" /\ last'.rounds < MaxRounds
       => plan \cap pending' \subseteq sent]_vars

\* The retry is no tight loop: in the background, with the network up, the engine
\* comes to rest, even when the server stays busy for ever.
ComesToRest ==
    <>[](~active /\ online) => <>[](run = NoRun /\ timer = NoTrigger)

\* Once the app stays open, signed in and connected and the server stays calm, every
\* local write is pushed.
EventuallyPushed ==
    <>[](active /\ online /\ signedIn /\ calm) => []<>(pending = {})

\* The engine works when it can and rests when it must.
EngineLive == EventuallyPushed /\ ComesToRest

=============================================================================
