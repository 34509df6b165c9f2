----------------------------- MODULE Placement -----------------------------
(***************************************************************************)
(* One placement of a task between a device and the server: what the user  *)
(* does to it (apps/mobile/src/db/feedback.ts), what a pull makes of it    *)
(* (sync/pull.ts), the calendar and the next plan taking its slot away     *)
(* (gcal-webhook/db.ts, persist_plan), and the two passes that turn facts  *)
(* into rewards (attribute-rewards/handler.ts): the instant pass inside a  *)
(* sync and the daily sweep, which reads what is due before it has the     *)
(* user's lease.                                                           *)
(*                                                                         *)
(* A pass is several database calls: it may die between any two, outlive   *)
(* its lease, and meet writers that gave up waiting for the lease.         *)
(***************************************************************************)
EXTENDS RewardMap

CONSTANTS
    FirstSlots,   \* slots a plan may give the block
    MaxTime,      \* bound: ticks
    MaxFacts,     \* bound: facts the device logs
    MaxFailures,  \* bound: kinds of failure in one behaviour
    LateMoves     \* whether blocks are moved after 23:55, into the next day

ASSUME ConstantsAssumption ==
    /\ FirstSlots \subseteq Nat
    /\ MaxTime \in Nat /\ MaxFacts \in Nat /\ MaxFailures \in Nat
    /\ LateMoves \in BOOLEAN

VARIABLES
    now,
    here,      \* the device's row: status and slot
    session,   \* the block's open focus session: when it began, whether with the slot's
               \* start; told: a start of one has reached the server
    log,       \* facts logged on the device, in order
    srv,       \* the server's row
    pushed,    \* how many of the facts the server has
    tuples,    \* feedback_rewards of this placement
    news,      \* no: the device has the row; yes: not; sent: a page with it is under way
    answer,    \* the page under way to the device
    lease,     \* the pass that holds the user's lease
    pass,      \* pass[p] of the sync and of the sweep
    failures   \* what has gone wrong so far, each kind once

device == <<here, session, log>>
vars == <<now, device, srv, pushed, tuples, news, answer, lease, pass, failures>>
-----------------------------------------------------------------------------
Passes == {"sync", "sweep"}

NoSession == [state |-> "none", from |-> 0, told |-> FALSE]

Sessions == [state: {"none", "prompt", "late"}, from: Nat, told: BOOLEAN]

NoPage == [status |-> "none", slot |-> 0]

\* read: the status as read, due: the row is in the due slice.
NoPass == [phase |-> "idle", rewards |-> FALSE, due |-> FALSE,
           row |-> [status |-> "shown", slot |-> 0, attributed |-> FALSE, conflict |-> FALSE],
           result |-> Nothing]

Pushed == SubSeq(log, 1, pushed)

Init ==
    /\ now = 0
    /\ \E s \in FirstSlots :
          /\ here = [status |-> "shown", slot |-> s]
          /\ srv = [status |-> "shown", slot |-> s, attributed |-> FALSE, conflict |-> FALSE]
    /\ session = NoSession /\ log = <<>> /\ pushed = 0
    /\ tuples = [outcome |-> NoOutcome, pair |-> FALSE]
    /\ news = "no" /\ answer = NoPage
    /\ lease = "free" /\ pass = [p \in Passes |-> NoPass]
    /\ failures = {}

\* loss: an answer is lost; crash: a pass dies; overrun: a lease expires under a pass;
\* intrusion: a writer gives up waiting for the lease and writes; stale: the row read as
\* due has changed when the sweep gets the lease.
Failures == {"loss", "crash", "overrun", "intrusion", "stale"}

Fails(kind) ==
    /\ kind \notin failures
    /\ Cardinality(failures) < MaxFailures
    /\ failures' = failures \cup {kind}

Tick ==
    /\ now < MaxTime
    /\ now' = now + 1
    /\ UNCHANGED <<device, srv, pushed, tuples, news, answer, lease, pass, failures>>
-----------------------------------------------------------------------------
(* The device: a fact and the local row in one transaction.  actionsFor offers the   *)
(* actions of the day's plan by the local status.                                     *)

Log(kind, at, to, status, slot) ==
    /\ Len(log) < MaxFacts
    /\ log' = Append(log, [kind |-> kind, at |-> at, to |-> to])
    /\ here' = [status |-> status, slot |-> slot]
    /\ UNCHANGED <<now, srv, pushed, tuples, news, answer, lease, pass, failures>>

InSession == session.state # "none"

\* startFocusSession: within the grace of the slot's start, or later in its tick.
StartFocus ==
    /\ here.status \in Open /\ Day(now) = Day(here.slot)
    /\ ~InSession /\ Len(log) < MaxFacts
    /\ \E state \in {"prompt", "late"} :
          session' = [session EXCEPT !.state = state, !.from = now]
    /\ UNCHANGED <<now, here, log, srv, pushed, tuples, news, answer, lease, pass, failures>>

\* endFocusSession, at any time and whatever the row has become.
EndSession(prompt, late, status) ==
    /\ InSession
    /\ session' = [session EXCEPT !.state = "none", !.from = 0]
    /\ Log(IF session.state = "prompt" THEN prompt ELSE late, session.from, 0, status, here.slot)

FinishSession == EndSession("finish", "stray", "completed")

\* Given up: the row stays as it is.
GiveUpSession == EndSession("part", "void", here.status)

\* abandonStaleSessions: left open far beyond the block.
AbandonStale == now > session.from /\ EndSession("void", "void", here.status)

\* The block's buttons, which a session under way hides.
OnToday == here.status \in Open /\ Day(now) = Day(here.slot) /\ ~InSession

Press(kind, to, status, slot) == Log(kind, now, to, status, slot) /\ UNCHANGED session

\* markBlockDone
Done == OnToday /\ Press("done", 0, "completed", here.slot)

SkipBlock == OnToday /\ Press("skip", 0, "rejected", here.slot)

\* moveBlock: not into the past, and rounded up to the grid, which after 23:55 is tomorrow.
MoveBlock ==
    /\ OnToday
    /\ \E to \in now..now + DayTicks :
          /\ IF LastTick(now) THEN LateMoves /\ to = now + 1
             ELSE Day(to) = Day(now) /\ ~LastTick(to)
          /\ to # here.slot
          /\ Press("move", to, "moved", to)

CorrectLapse == here.status = "lapsed" /\ ~InSession /\ Press("fix", 0, "completed", here.slot)

TaskDone == \E kind \in {"done", "finish", "stray", "fix"} : Some(log, kind)

\* lapseScan: a task that is done or worked on does not lapse; one fact per placement, later
\* scans repair the row only.
LapseScan ==
    /\ here.status \in Open /\ here.slot < now
    /\ ~TaskDone /\ ~InSession
    /\ IF Some(log, "seen")
       THEN /\ here' = [here EXCEPT !.status = "lapsed"]
            /\ UNCHANGED <<now, session, log, srv, pushed, tuples, news, answer, lease, pass, failures>>
       ELSE Press("seen", 0, "lapsed", here.slot)

\* Mutant: a local fact stands against every server status.
KeepAlways(page) == here.status \in {"completed", "lapsed"}

\* applyRecommendation: a provisional server status does not lower a local fact.
KeepLocal(page) ==
    /\ here.status \in {"completed", "lapsed"}
    /\ page.status \in Open \cup {"rejected"}

Receive ==
    /\ answer # NoPage
    /\ here' = IF KeepLocal(answer) THEN here ELSE answer
    /\ news' = IF news = "sent" THEN "no" ELSE news
    /\ answer' = NoPage
    /\ UNCHANGED <<now, session, log, srv, pushed, tuples, lease, pass, failures>>

LoseAnswer ==
    /\ answer # NoPage
    /\ Fails("loss")
    /\ news' = IF news = "sent" THEN "yes" ELSE news
    /\ answer' = NoPage
    /\ UNCHANGED <<now, device, srv, pushed, tuples, lease, pass>>
-----------------------------------------------------------------------------
(* Writers of the row other than the passes.  They wait for the lease and, if it stays *)
(* busy, write without it.                                                             *)

Intrude == IF lease = "free" THEN UNCHANGED failures ELSE Fails("intrusion")

\* markDisplaced: a meeting over an open placement whose slot has not ended.
Displaceable == srv.status \in Open /\ now <= srv.slot

Displace ==
    /\ Displaceable
    /\ Intrude
    /\ srv' = [srv EXCEPT !.status = "displaced_pending"]
    /\ news' = "yes"
    /\ UNCHANGED <<now, device, pushed, tuples, answer, lease, pass>>

\* persist_plan supersedes placements that are ahead and carry no fact.
Expirable == srv.status = "shown" /\ now <= srv.slot /\ pushed = 0 /\ ~session.told

Expire ==
    /\ Expirable
    /\ Intrude
    /\ srv' = [srv EXCEPT !.status = "expired"]
    /\ news' = "yes"
    /\ UNCHANGED <<now, device, pushed, tuples, answer, lease, pass>>
-----------------------------------------------------------------------------
(* The passes. *)

\* sync-resolve: the lease, and the replay of the device's facts.  A sync before a plan
\* and a bare poll have no reward pass.
StartSync ==
    /\ pass["sync"] = NoPass /\ answer = NoPage
    /\ lease = "free"
    /\ lease' = "sync"
    /\ pushed' = Len(log)
    /\ session' = [session EXCEPT !.told = @ \/ InSession]
    /\ \E rewards \in BOOLEAN :
          pass' = [pass EXCEPT !["sync"] =
              [NoPass EXCEPT !.phase = IF rewards THEN "read" ELSE "pull", !.rewards = rewards]]
    /\ UNCHANGED <<now, here, log, srv, tuples, news, answer, failures>>

\* Mutant: due as soon as the slot has ended.
DueAtSlotEnd == srv.status \in Open \cup {"displaced_pending"} /\ ~srv.attributed /\ now > srv.slot

\* attribution_due: unattributed, the slot over, its day closed.
Due ==
    /\ srv.status \in Open \cup {"displaced_pending"} /\ ~srv.attributed
    /\ now > srv.slot
    /\ Day(now) > Day(srv.slot) \/ LastTick(now)

\* The sweep reads what is due; without anything due it still visits users whose tuples
\* wait for delivery.
LoadDue ==
    /\ pass["sweep"] = NoPass
    /\ pass' = [pass EXCEPT !["sweep"] =
          [NoPass EXCEPT !.phase = "due", !.rewards = TRUE, !.due = Due, !.row = srv]]
    /\ UNCHANGED <<now, device, srv, pushed, tuples, news, answer, lease, failures>>

\* processUserLeased: a busy user is skipped until the next sweep.
Acquire ==
    /\ pass["sweep"].phase = "due"
    /\ lease = "free"
    /\ lease' = "sweep"
    /\ pass' = [pass EXCEPT !["sweep"].phase = "read"]
    /\ IF pass["sweep"].due /\ pass["sweep"].row # srv
       THEN Fails("stale") ELSE UNCHANGED failures
    /\ UNCHANGED <<now, device, srv, pushed, tuples, news, answer>>

SkipBusy ==
    /\ pass["sweep"].phase = "due"
    /\ lease # "free"
    /\ pass' = [pass EXCEPT !["sweep"] = NoPass]
    /\ UNCHANGED <<now, device, srv, pushed, tuples, news, answer, lease, failures>>

\* The due row as it was read, else the row itself when facts point at it; the instant
\* pass also looks at pending displacements.
Row(p) == IF pass[p].due THEN pass[p].row ELSE srv

Candidate(p) ==
    \/ pass[p].due
    \/ \E i \in 1..pushed : log[i].kind # "seen"
    \/ p = "sync" /\ srv.status = "displaced_pending" /\ ~srv.attributed

\* Mutant: the due slice is mapped like the rest.
ModeInstant(p) == "instant"

Mode(p) == IF pass[p].due THEN "daily" ELSE "instant"

Step(p, phase) == pass' = [pass EXCEPT ![p].phase = phase]

Writes(r) == r.outcome # NoOutcome \/ r.pair

\* processUser reads facts, rows and tuples and maps them; without tuples to write the
\* patches go straight through.
Read(p) ==
    /\ pass[p].phase = "read"
    /\ LET r == IF Candidate(p) THEN MapUser(Row(p), Pushed, tuples, now, Mode(p)) ELSE Nothing
       IN pass' = [pass EXCEPT ![p] =
             [@ EXCEPT !.phase = IF Writes(r) THEN "write" ELSE "patch",
                       !.row = Row(p), !.result = r]]
    /\ UNCHANGED <<now, device, srv, pushed, tuples, news, answer, lease, failures>>

\* writeTuples: an insert that ignores duplicates, an update of uncorrected tuples.
Stored(r) ==
    [outcome |-> IF r.outcome = NoOutcome THEN tuples.outcome
                 ELSE IF ~r.correction
                      THEN IF tuples.outcome = NoOutcome THEN r.outcome ELSE tuples.outcome
                      ELSE IF tuples.outcome # NoOutcome /\ ~tuples.outcome.corrected
                           THEN [tuples.outcome EXCEPT !.reason = r.outcome.reason,
                                                       !.corrected = TRUE]
                           ELSE tuples.outcome,
     pair |-> tuples.pair \/ r.pair]

WriteTuples(p) ==
    /\ pass[p].phase = "write"
    /\ tuples' = Stored(pass[p].result)
    /\ Step(p, "gate")
    /\ UNCHANGED <<now, device, srv, pushed, news, answer, lease, failures>>

\* gatePatches: one of the tuples the pass wrote must be what is now stored.
StillStored(r) ==
    \/ r.pair /\ tuples.pair
    \/ /\ r.outcome # NoOutcome
       /\ r.outcome.reason = tuples.outcome.reason
       /\ r.correction => tuples.outcome.corrected

Gate(p) ==
    /\ pass[p].phase = "gate"
    /\ pass' = [pass EXCEPT ![p].phase = "patch",
                            ![p].result.patches = IF StillStored(pass[p].result) THEN @ ELSE <<>>]
    /\ UNCHANGED <<now, device, srv, pushed, tuples, news, answer, lease, failures>>

\* withExpectedStatus and patchRecs: the row still has the status the pass expects.
Matches(p) == srv.status = pass[p].row.status

\* Mutant: a patch without a status writes it all the same.
PatchedVerbatim(row, patch) ==
    [patch EXCEPT !.attributed = @ \/ row.attributed, !.conflict = @ \/ row.conflict]

Patched(row, patch) ==
    [status |-> IF patch.status = "same" THEN row.status ELSE patch.status,
     slot |-> patch.slot,
     attributed |-> row.attributed \/ patch.attributed,
     conflict |-> row.conflict \/ patch.conflict]

\* One patch of the pass; the next one expects the status this one sets.
PatchRec(p) ==
    /\ pass[p].phase = "patch"
    /\ pass[p].result.patches # <<>>
    /\ LET patch == Head(pass[p].result.patches) IN
       /\ IF Matches(p) THEN srv' = Patched(srv, patch) /\ news' = "yes"
          ELSE UNCHANGED <<srv, news>>
       /\ pass' = [pass EXCEPT ![p].result.patches = Tail(@),
                               ![p].row.status = IF patch.status = "same" THEN @ ELSE patch.status]
    /\ UNCHANGED <<now, device, pushed, tuples, answer, lease, failures>>

Released(p) == IF lease = p THEN "free" ELSE lease

\* The sweep is done with the user.
EndSweep ==
    /\ pass["sweep"].phase = "patch" /\ pass["sweep"].result.patches = <<>>
    /\ pass' = [pass EXCEPT !["sweep"] = NoPass]
    /\ lease' = Released("sweep")
    /\ UNCHANGED <<now, device, srv, pushed, tuples, news, answer, failures>>

\* sync_pull, the release, the answer.
Pull ==
    /\ \/ pass["sync"].phase = "pull"
       \/ pass["sync"].phase = "patch" /\ pass["sync"].result.patches = <<>>
    /\ IF news = "no" THEN UNCHANGED <<news, answer>>
       ELSE news' = "sent" /\ answer' = [status |-> srv.status, slot |-> srv.slot]
    /\ pass' = [pass EXCEPT !["sync"] = NoPass]
    /\ lease' = Released("sync")
    /\ UNCHANGED <<now, device, srv, pushed, tuples, failures>>

\* The function dies; its lease expires.
Crash(p) ==
    /\ pass[p] # NoPass
    /\ Fails("crash")
    /\ pass' = [pass EXCEPT ![p] = NoPass]
    /\ lease' = Released(p)
    /\ UNCHANGED <<now, device, srv, pushed, tuples, news, answer>>

\* The lease expires under a running pass.
Overrun ==
    /\ lease # "free"
    /\ Fails("overrun")
    /\ lease' = "free"
    /\ UNCHANGED <<now, device, srv, pushed, tuples, news, answer, pass>>

PassStep(p) == Read(p) \/ WriteTuples(p) \/ Gate(p) \/ PatchRec(p)

Next ==
    \/ Tick
    \/ StartFocus \/ FinishSession \/ GiveUpSession \/ AbandonStale
    \/ Done \/ SkipBlock \/ MoveBlock \/ CorrectLapse \/ LapseScan
    \/ Receive \/ LoseAnswer
    \/ Displace \/ Expire
    \/ StartSync \/ LoadDue \/ Acquire \/ SkipBusy \/ EndSweep \/ Pull
    \/ \E p \in Passes : PassStep(p) \/ Crash(p)
    \/ Overrun

Spec == Init /\ [][Next]_vars
-----------------------------------------------------------------------------
(* Properties *)

TypeOK ==
    /\ now \in 0..MaxTime
    /\ here \in [status: Statuses, slot: Nat]
    /\ session \in Sessions
    /\ log \in Seq(Facts) /\ Len(log) <= MaxFacts
    /\ srv \in Placements
    /\ pushed \in 0..Len(log)
    /\ tuples \in Tuples
    /\ news \in {"no", "yes", "sent"}
    /\ answer \in {NoPage} \cup [status: Statuses, slot: Nat]
    /\ lease \in Passes \cup {"free"}
    /\ \A p \in Passes :
          /\ pass[p].phase \in {"idle", "due", "read", "write", "gate", "patch", "pull"}
          /\ pass[p].row \in Placements
    /\ failures \subseteq Failures

\* Whatever passes meet, die or overlap, the stored outcome of a placement is rewritten at
\* most once, only to a strictly better reward, at the same attribution time, and never
\* when it is excluded (upgrade, correction, writeTuples).
OutcomeOnlyImproves ==
    [][LET old == tuples.outcome
           new == tuples'.outcome
       IN old \in {NoOutcome, new}
             \/ /\ ~old.excluded /\ ~old.corrected
                /\ new = [old EXCEPT !.reason = new.reason, !.corrected = TRUE]
                /\ Reward[new.reason] > Reward[old.reason]]_vars

\* A displaced placement never has a counted outcome ("no row", H3), and one the meeting
\* raced is kept excluded, as long as no lease expires under a running pass.
DisplacedUnrewarded ==
    "overrun" \notin failures =>
        /\ srv.status = "displaced" => tuples.outcome = NoOutcome \/ tuples.outcome.excluded
        /\ srv.conflict => tuples.outcome.excluded

Calm == failures \subseteq {"loss"}

Rest == \A p \in Passes : pass[p].phase \in {"idle", "due"}

\* Between passes, the placement is attributed exactly when it has an outcome or was
\* displaced, and its status is the one of its outcome (a session given up leaves the status
\* alone), unless a move the server learnt later put it elsewhere.
StatusMatchesReward ==
    Calm /\ Rest =>
        /\ srv.attributed <=> tuples.outcome # NoOutcome \/ srv.status = "displaced"
        /\ tuples.outcome # NoOutcome =>
              \/ srv.status = StatusFor[tuples.outcome.reason]
              \/ /\ tuples.outcome.reason = "partial"
                 /\ srv.status = IF tuples.outcome.corrected THEN "lapsed" ELSE "shown"
              \/ Some(Pushed, "move") /\ srv.status \in {"moved", "displaced_pending"}

\* A block counts as lapsed, or done outside its slot, only when the slot the user last gave
\* it is over (the 23:55 authority), if nothing is moved after 23:55.
LapsedAfterSlot ==
    ~LateMoves /\ tuples.outcome.reason \in {"lapsed", "off_slot"} =>
        now > SlotAfter(Pushed, srv.slot)

\* What the server says of a block, in its status and in its reward, is what happened to it.
RewardSound == TypeOK /\ StatusMatchesReward /\ LapsedAfterSlot /\ DisplacedUnrewarded

\* A sweep that finds a due placement leaves it attributed, or displaced meanwhile.
SweepSettles ==
    [][EndSweep /\ pass["sweep"].due /\ Calm => srv.attributed]_vars

\* The server has every fact and has drawn what follows from them; the device has the row.
Settled ==
    /\ Rest /\ pushed = Len(log) /\ news = "no" /\ answer = NoPage
    /\ MapUser(srv, Pushed, tuples, now, "instant") = Nothing

Void == {"displaced_pending", "displaced", "expired"}

SessionDone == Some(log, "finish") \/ Some(log, "stray")

\* Once all is settled, the device shows the status and the slot of the server, or a
\* completion or lapse of its own over a status that only repeats the plan or the user or
\* over a lapse that is frozen, or the skip of a block that already had another outcome, or
\* a second skip after a move.  What was displaced or expired it shows as done only when a
\* focus session was finished on it, which does not look at the row (endFocusSession).
ScreenAgrees ==
    Calm /\ Settled =>
        \/ here = [status |-> srv.status, slot |-> srv.slot]
        \/ here.status \in {"completed", "lapsed"} /\ srv.status \in Open \cup {"rejected", "lapsed"}
        \/ here.status = "completed" /\ srv.status \in Void /\ SessionDone
        \/ here.status = "rejected" /\ tuples.outcome.reason \notin {"none", "skipped"}
        \/ here.status = "rejected" /\ tuples.outcome # NoOutcome /\ srv.status = "moved"

\* The daily sweep and a sync's pass leave no status that contradicts the tuple: a placement
\* with an outcome is attributed (ADR-0010 section 3, the note on concurrency).
PassesAgree ==
    failures \subseteq {"stale"} /\ Rest /\ tuples.outcome # NoOutcome => srv.attributed

\* Facts beat plans: when a reward pass of a sync ends, a block the user did in its slot is
\* stored as completed, unless the placement was given up before (expired, displaced), an
\* earlier pass had stored a skip, or a partial session of a block that was then displaced,
\* the one rewrite of the outcome went into raising a lapse to a partial session, or the
\* correction window of the stored outcome is over.
FactsBeatPlans ==
    [][Pull /\ pass["sync"].rewards /\ Calm /\ CompletedInWindow(Pushed, srv.slot) =>
          \/ srv.status \in {"expired", "displaced"}
          \/ tuples.outcome.reason \in {"completed", "skipped"}
          \/ tuples.outcome.reason = "partial" /\ tuples.outcome.corrected
          \/ srv.status = "displaced_pending" /\ tuples.outcome.reason = "partial"
          \/ tuples.outcome # NoOutcome /\ now - tuples.outcome.at > Window]_vars
=============================================================================
