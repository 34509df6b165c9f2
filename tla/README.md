# Hourwell, verified in TLA+

Hourwell is a mobile planner: a local-first app (`apps/mobile`), a Supabase backend (SQL migrations
and Deno functions, `supabase`), a recommendation service (`services/recsys`) and a training pipeline
(`training`). This directory keeps the TLA+ models of its protocols and algorithms, the TLC
configurations that check them, and proofs for TLAPS. The source is the reference; `PROJECT.json` maps
every modelling definition to the lines it stands for.

## 1. The system

| component | state it keeps | operations | talks to | what is hard |
|---|---|---|---|---|
| Outbox and task sync (`sync/engine.ts`, `merge.ts`, `pull.ts`, `db/tasks.ts`, `p8_sync.sql`) | SQLite mirror, `op_outbox`, pull cursor; server rows with `version` and `server_seq`, the `sync_ops` ledger | local writes, batch, replay, acks, merge and collapse, page, cursor, dead letters | device and `sync-resolve` exchange one request per round | lost answers, replays of rewritten ops, kills between the device's transactions, two devices editing one row |
| Per-user lease (`_shared/lease.ts`, `sync_leases`) | one row per user with token and expiry | acquire, release, expiry, wait, go on without | every writer of a user's rows | a pull between drawing and committing a `server_seq`; dead or slow holders |
| Sync scheduling (`sync/engine.ts`, `state/sync.ts`) | module variables of one JS thread: in-flight promise, follow-up, timer, busy-retry flag | triggers, rounds, retry | everything that writes locally; the plan request | callers that join a run, retries, backgrounding |
| Account switching (`auth/session.ts`, `accountTransition.ts`) | one mirror, outbox and cursor per install; `lastUserId`, `pendingWipeUserId` | sign-in, sign-out, adopt, wipe, deferred wipe and its banner | the sync engine, which runs meanwhile | the cursor is install-wide, `server_seq` global |
| Placements and block actions (`db/feedback.ts`, `pull.ts`) | `recommendations` rows (status, slot), feedback facts | done, partial, skip, move, correct, lapse scan | attribution, plan, calendar | which side's status wins; facts that arrive late |
| Focus sessions and the skip diagnostic (`db/feedback.ts`, `useLapseScan.ts`, `focus.tsx`) | sessions, streaks, the question asked | start, pause, resume, end, stale rule, ratings, diagnostic | placements | several blocks of one task; a killed app |
| Reward attribution (`attribute-rewards`, `_shared/rewards.ts`) | `feedback_rewards`, patches to recommendations, delivery marks, duration estimates | instant pass, daily pass, upgrade, override pair, correction, delivery | RecSys service | several writes and a POST without a transaction; stale reads |
| RecSys service (`services/recsys`) | posteriors, applied tuple ids | plan, apply feedback, rebuild | attribution, plan | a tuple delivered twice or corrected after delivery |
| Plan request (`plan-request`, `sync/planRequest.ts`, `usePlanTrigger.ts`, `db/plans.ts`) | plans and their recommendations; the day last asked for, the request in flight | trigger, pre-plan sync, context, service or fallback, persist, apply | sync, lease, attribution, service | facts between context and persist; the pull before the answer |
| Planner heuristic and grid (`_shared/grid.ts`, `heuristic.ts`, `exploration.ts`) | none | grid of a day, greedy placement, one experiment, explanations | plan request | boundaries, changes of the clock |
| Calendar sync (`_shared/gcal_sync.ts`, `gcal-*`) | tokens, sync token, channels, mirrored events | consent, incremental sync, write-back, displacement, disconnect | Google, placements | webhook and sweep at once, 410, orphaned inserts |
| Google import mapping (`_shared/gcal.ts`) | none | what an event becomes in the mirror, pages, token renewal | calendar sync | an event that changes its kind |
| Notifications (`notifications/`) | ledger in MMKV, requests of the OS | passes, debounce, commit, taps | database, OS | deliveries and edits inside a pass, kills |
| Account deletion (`delete-account`, `privacy/deleteAccount.ts`) | audit rows | ask, audit, delete, stamp, forget locally, retention sweep | everything | partial deletion, concurrent invocations, a sync in flight, another account's unsynced rows on the install |
| Data export (`export-data`, `exportData.ts`) | none | paged reads, check, file, share | every table | rows that change between pages |
| Insights (`insights`, `_shared/par.ts`, `db/insights.ts`) | cached document, labels | adherence per week, heatmap, labels, review | service, sync | week boundaries, two accounts on one install |
| Quick add, forms, onboarding, settings (`domain/`, `db/profile.ts`) | the profile row and its settings | parse, validate, nudge, save | outbox | what the UI accepts and the store refuses; two devices |
| Dialogs (`ui/dialog`) | the open request, the hosts | request, resolve, entrance, exit, the two steps of a deletion | account deletion | animations outlive requests |
| Training pipeline; screens, i18n, observability; generated code | see `PROJECT.json` | | | |

What makes each part correct, in one line: *tasks*: an op counts once, an acknowledged op is never
lost, every device ends with the server's row; *lease*: no device skips a row; *scheduling*: no write
is left without a sync to come, and no retry spins; *accounts*: nothing unsynced is lost and no
cursor of one account hides rows of another; *placements*: a fact is never overwritten by a stale
status; *focus*: one session at a time, a block lapses once, a streak is what the facts say; *rewards*:
one outcome per block, learned once, never for a block the calendar displaced; *plan*: a day is asked for
once and has one open placement of a task, which keeps its hard constraints; *calendar*: a saved token
vouches for the mirror, and a meeting displaces what is in its way; *notifications*: never more than
promised, and the OS comes back to what the database says; *deletion*: proof for whatever is gone,
nothing left of it; *export*: whole, or marked as cut; *insights*: what is shown is counted whole, and one's
own; *entry*: what the UI lets through the store accepts.

`PROJECT.json` lists the places where this code can go wrong in a way a test would hardly reach
("hazards"), with the properties that cover them.

## 2. Modules

| module | models | built on |
|---|---|---|
| `TaskSync` | one task row, several devices, the server: writes, outbox, replay, ledger, merge, pull | implements `OpLog` |
| `OpLog` | abstract: an op is queued, taken once, settled only when taken, possibly dropped | |
| `SyncLease` | the lease, transactions that draw and commit `server_seq`, paged pulls | |
| `SyncEngine` | when a device syncs and how long | an op is a number here; what it does is `TaskSync` |
| `AccountSwitch` | whose rows, ops and cursor are on the device | an op is an owner here |
| `RewardMap` | from facts to one outcome, the override pair and the patches (pure) | |
| `Placement` | one placement: block actions, pull overlay, displacement, replanning, both reward passes | extends `RewardMap` |
| `Learning` | delivery of tuples and labels, the service's application and rebuild | a reward is "first" or "better" here; how it came about is `Placement` |
| `PlanRequest` | a day's plan: triggers, the shared request, the Edge Function, the mirror, the pull | the sync round is one step here; what a plan contains is `Heuristic` |
| `Calendar` | one calendar, the jobs that sync it, write-back, consent, disconnect | what an event becomes is `GoogleMap` |
| `Notify` | the scheduler's pass, the OS, the ledger | |
| `Privacy` | the erasure of accounts on server and device | the two confirmations are `Dialogs` |
| `Grid`, `Heuristic` | the day's ticks and midnight; the list scheduler (pure) | `Heuristic` extends `Grid` |
| `GoogleMap`, `Attribution` | the import of events; the parts of a reward pass beside the reward table (pure) | extend `Grid` |
| `Insights`, `Capture`, `Profile`, `Export` | the review, what is entered, the profile row on two devices, the export (pure) | |
| `Focus`, `Dialogs` | two state machines of the screens, as functions of a state record | |
| `TaskSyncProofs`, `SyncProofs`, `AccountProofs`, `PlacementProofs`, `LearningProofs`, `PlanRequestProofs`, `CalendarProofs`, `PrivacyNotifyProofs` | theorems | each extends the modules it is named after (`AccountProofs`: `AccountSwitch`; `SyncProofs`: `SyncLease` and `SyncEngine`) |
| `MCAlgorithms` | the inputs and the reference comparisons for the pure modules | extends or instantiates all of them |
| the other `MC...` | symmetry sets and a constraint of the runs; a run that needs neither names the component's module | |

The split follows the code: `TaskSync` takes the lease for exclusive (`Serve` waits for `LeaseFree`),
`SyncLease` shows what happens when it is not; `TaskSync` sends at any time, `SyncEngine` shows when
the code does; all three assume one account, `AccountSwitch` drops that and abstracts the rest.
Definitions that stand next to another one and carry its name with an addition (`NeedsTargetUnpaired`
beside `NeedsTarget`) are the slips the mutants put in its place; nothing else uses them.

### TaskSync
`local`, `outbox`, `cursor` are what SQLite keeps; `flight` is the round trip a device awaits; `srv` the
committed server state; `job` the open replay transaction. `Write` is the transaction of
`withWriteTransaction` + `enqueueOp`. `Send` is `pendingOpsFor`, `Serve`/`Replay`/`ReplayRaises`/`Commit`
is `sync_replay` op by op with its subtransactions, followed by `sync_pull`. `Receive` is `applyAcks`,
`applyPull` and `advanceSyncCursor`; `Killed` stops after the first or the second of them. `Handled`
gives each outbox row the fate `applyAcks` gives it: settled, counted, dead, absorbing a merge, or
collapsed into it. A title is the time of its edit, so "who wins" can be told; `updated_at` counts
half ticks so that the server's own stamp (`tg_touch_row`) falls between two edits.

Bounds (`SyncCore`): two devices, `MaxWrites` = 3 local writes, `MaxQueued` = 2 unacked ops at a write,
batches of `MaxBatch` = 2, one lost answer or kill (`MaxLosses`) and one fault in all (`MaxFaults`: a loss
or a raised op), with `MaxAttempts` = 1, so that one raised op dead-letters. This lets a conflict meet a
queue, a lost answer meet a rewritten op, and a dead letter meet a later op. The devices are alike, and
only the first write creates the row, so `MCTaskSync` fixes which device makes it (`CreatorCreates`): a
symmetry set would do the same but is not sound for the liveness property. `ExactlyOnce`,
`AckedIsDurable`, `CursorSound` and `ImplementsOpLog` are proved for every bound.

Assumed: devices' clocks are in step (a later edit has a later `updated_at`); the row belongs to one
user; ids are fresh.

### SyncLease
`Draw` and `Commit` are the two ends of a writing transaction; `Pull` reads the lowest `PageSize`
rows above the cursor; `GiveUp` is `withLease` after `waitMs`; `Overrun` is a TTL shorter than its
holder's work; `Expire` the TTL of a dead holder. Calendar writers that do not take part in sync rows
are covered by `Writers`.

### SyncEngine
One action per trigger (`Write`, `TimerFires`, `Poll`, `Manual`, `Foreground`, `Reconnect`, `SignIn`,
`SyncBeforePlan`) and one per stretch of `run` between two awaits (`Session`/`NoSession`, `Answer`,
`Fail`). Time is not modelled: a timer fires at any moment after it was set. `calm` is the server
behaving (free lease, no errors, no conflicts); it may turn at any time.

### AccountSwitch
`SignIn` changes the session, `HandleSignedIn` is the listener that runs in a later turn of the event
loop. `Round` reads batch, cursor and token together, as the code does between two awaits. `overlaps`
counts sign-ins that fall into a run and runs that start before the listener ran.

Bounds: three accounts, so that a third one meets what the first left behind, three rows and writes,
four changes; `MaxOverlaps` = 0, since with one overlap `NothingSkipped` fails (section 3).

### RewardMap and Placement
`RewardMap` is `rewards.ts` for one placement: `Instant` and `Daily` are the outcome tables,
`Upgrade` and `Corrected` the once-only rewriting of a stored tuple, `Settle`/`SettleDisplaced` the
branches of `mapUser`. Time runs in ticks: a slot fills one (its grace included), the last tick of a
day is what is left after 23:55.

A session belongs to the slot it began with: `sessionInWindow` and `completedSameDay` look at `started_at`,
whenever the session ends and whenever that is logged; a fact without a session counts by its own time.

`Placement` has the device's row, its open session and its log of facts (`here`, `session`, `log`), the
server's row and tuples, and two passes. `StartFocus` notes when a session began and whether that was
within the grace of the slot's start (`prompt`) or not (`late`); it ends in a later tick, if need be, by
`FinishSession`, `GiveUpSession` or `AbandonStale`, whatever has become of the row. A prompt session is logged as
`finish` or `part`, a late one as `stray` or `void`; two `part`s reach the credited fraction, which is how a
lapse raised to `partial` meets a second session of the same slot. `Done` ... `LapseScan` are `db/feedback.ts`;
`Receive` is `applyRecommendation` with the
statuses it keeps; `Displace` and `Expire` are the calendar and the next plan. A pass is `Read`,
`WriteTuples`, `Gate`, one `PatchRec` per patch, and its end, each a database call of its own; `LoadDue`
of the sweep comes before `Acquire`, as `attribution_due` is read before the lease. `failures` is a set
of kinds (a lost answer, a crash, an overrun lease, a writer without the lease, a due row gone
stale), each once and at most `MaxFailures` of them; properties name the kinds they exclude.

Bounds: a day of three ticks and the first of the next hold a slot, its evening, and the next morning; two
facts give every pair of actions, a session begun in one tick and ended in another among them; a third
would be a third outcome, and the stored one is rewritten once. The theorems have no bound. `Window` = 1 lets the
correction window close inside a run, while there is still time for a fact after it.

Abstracted: accepted and pinned placements behave as shown ones, and the op with which
`startFocusSession` reports a block as accepted (`feedback.ts:181-190`) is left out: a pull skips the row while
that op is queued, and the server may answer it as superseded; what it makes known, that a session has
begun, is `told`, which keeps a plan from expiring the block. The override pair always has a target bucket;
duration estimates and time-zone changes are left out. `LateMoves` is FALSE in the runs: a block moved
after 23:55 lands on the next day while the sweep may hold it as due, and a lapse is then stored for
a slot still ahead (`LapsedAfterSlot`), also when a meeting took that slot (`DisplacedUnrewarded`,
`FactsBeatPlans`).
`StatusMatchesReward` and `SweepSettles` do not need the restriction.

Two exceptions of `FactsBeatPlans` are the code's: a stored outcome is rewritten for `Window` only, so a
completion that arrives later does not change it; and it is rewritten once, so a lapse raised to
`partial` stays that, though the block's second session completes it in time (F12).
One of `ScreenAgrees` is: a session finished on a block that was meanwhile displaced or expired shows it as
completed, as `endFocusSession` does not look at the row, and the server gives nothing for it.

### Learning
A pass writes tuples, posts what is undelivered, marks what it posted, then does the same for labels
(`Deliver`, `MarkDelivered`, `DeliverLabels`, `MarkLabels`). A call of the service reads the state
(`LoadState`), then the id set (`Apply`) or the stored tuples and labels (`Rebuild`), and writes back in
one transaction (`Save`). The lease keeps passes apart but not calls: one that nobody waits for any
more runs on. The learned state is the evidence in it: how often each tuple was counted with which
reward, and the label in force.

Bounds: two tuples (one to be lost, one to be delivered beside it), one label, two calls, two kinds of
failure. One label stands for the cells' labels, as only the latest of a cell counts.

### PlanRequest
`Check` is the effect of `usePlanTrigger` with `decidePlanTrigger`; `Manual`, `RitualTapped`, `RitualCard`,
`DropOption` and `RejectOptions` are the other callers of `requestPlan`. `run` is the shared promise with the
calls waiting on it: `NoSession`, `PreSync`/`PreSyncFails`, `Send`, `Receive`, `LoseAnswer`. A request
of the Edge Function is `LoadContext` (rate limit, context, the early answers), then `Persist` (service
or fallback, `persist_plan` with the supersede it got or the late one) or `Throws`; another request may
come between them. `Apply` is `applyPlanResponse`, `Synced`/`SyncedTwice` the pull, which may bring the
plan before its own answer. `Complete` is a fact in between, `Kill` the process; `lastDay` survives it.

Bounds: one task, two days of three ticks (night, day, evening), two requests that reach the function,
one lost answer or kill. Two requests are what two placements of a task need; the second day shows
that the trigger fires anew and that the night belongs to the day before.

### Calendar
A job is one call of an edge function: `push` (webhook), `sweep` (cron), `confirm` (the device after
consent), `switch` and `disconnect`. A job has a program counter; each await of `syncUser` and
`writeBack` is one action, from `EnsureChannel` and `Acquire` through `List`, `WipeForFull`, `Upsert`,
`MarkDisplaced`, `SaveToken` to `LoadWriteBack`, `CallGoogle`, `SaveWriteBackId`, `SaveWriteBack`. Google's side
numbers its changes: a sync token is the number of the last change it covers, and `ExpireTokens` makes
older ones answer 410. The one-time token of the consent is `row.nonce`; `Callback` spends it and
`Confirm` needs the same device. `Kill` leaves a dead lease behind that `LeaseExpires` frees.

A block's slot is `ahead`, `ended`, or `out`, its day over (`SlotEnds`, `DayEnds`). `LoadWriteBack` takes
what is `InWindow`, the plan day and the next (`writeBackWindow`): of a block that is `out` nothing is
inserted, patched or deleted any more. The switch and the disconnect load what is mirrored of any day.
They go on past a delete that fails and forget its id (`DeleteFails`: the code calls the copy
"cosmetic residue", `gcal_sync.ts:356-365`), stop without an error at a row that cannot be saved (`ClearingStops`),
and without an access token remove nothing. `lost` counts the failed and killed calls and these.

Bounds: one event and one recommendation over two slots (one for meetings, one for plans: a plan is
made around the calendar it knows, the event then moves), two jobs at once, two troubles together
(changes of the calendar, a token expiry, a failure or kill of the sweep, a delete that is passed over, a
block the user put there). A duplicate insert, a 410 after a change, and a kill before the token is
saved need two.
Left out: the far end of the window (a plan reaches no further), events that grow old, and a user who
deletes or edits a copy in Google.
`wiped` is no state of the code: it remembers that a 410 has emptied the mirror since the last full
listing, an exception `MirrorCurrent` and `MeetingsDisplace` have to make (F11, section 3).
`Racing` and `Impatient` are FALSE in `CalendarCore`: no user call overlaps a job, and a job that waited three
seconds for the lease does not go on without it (section 3 has what follows otherwise).

### Notify
`Start` opens a pass (`rescheduleNotifications`), `CancelAndSettle` cancels the app's requests and settles
the ledger, `Dismiss` clears stale cards from the shade, `Schedule(r)` hands over one request, `Commit`
writes the ledger and runs the pass again if a call came meanwhile (`again`). `Tick` lets the OS fire
what is due, app or no app. `MoveBlock`, `CloseBlock`, `MoveRitual` are edits, with the debounce `timer`
(`Elapse`); `Launch`, `Foreground`, `Leave`, `KillApp` the life of the process; `Tap` a response.
The specification is `NotifySpec` (`NotifyInit`, `NotifyNext`): its proofs share a module with those of
`Privacy`, whose specification is `Spec`.
`PlanFor` is `plan.ts`: candidates by priority within the cap of each day.

Bounds: two blocks (one of which can be moved), a ritual at one of two times, a day and a tick more;
one edit of the user and any number of foregroundings and kills, which consume nothing.
Assumed: a pass is over in less than the minimum lead, the debounce elapses before a tick is over,
permission is granted, the OS takes every request.

### Privacy
An invocation of `delete-account` is a job, `checked` (the caller is known), `audited`, `deleted`, `done`;
`JobFault` fails any call, and the sweep's job goes on to its next candidate (`SweepNext`) where the others
end. The device asks (`Ask`, with the token of the moment), gets or loses the answer (`Answered`,
`LoseAnswer`), clears notifications, forgets and signs out (`ClearNotifications`, `ForgetLocal`,
`SignOutLocal`), and may be killed at each.

The install keeps more than one account: `device.data` are those it has rows or ops of, `unsynced` those
with unacked ops. `SignIn` may fall between any two of these steps, with `handleSignedIn` in one step
(`AccountSwitch` takes them apart): `Transition` wipes everybody's rows, or puts the wipe off if the
account that leaves has unsynced ops, and `Reconciled` sees to a wipe put off earlier. `DiscardWipe` and `KeepWipe` are the
banner. An erasure then wipes whatever is there, another account's rows too (F14). `StartSync`,
`SyncRead`, `SyncApply` are a sync under way; it brings a page only if the account the run read is still
the one signed in. `told` holds the accounts whose erasure the screen has confirmed, `late` those with a page
on its way at the wipe. Accounts grow idle, are used, are upgraded.

Bounds: two accounts, two invocations in all, two faults: the account of the session and another one,
an invocation beside itself, and a fault in each. Assumed: the user writes nothing in the single await
between the wipe and the local sign-out.

### The pure modules
`MCAlgorithms` picks one input of one family per step and compares what the model of the code computes
with a definition that does not share its shape.

- `Grid` (`grid.ts`, `contexts.ts`): midnight in two corrections against the first instant of the day, in
  zones that change their clock at any half hour around it; workable ticks against instants; feasible
  starts by run lengths against all starts; fatigue.
- `Heuristic` (`heuristic.ts`, `exploration.ts`, `features.ts`): preparation, pins, the experiment with its odds, placement
  whole or in chunks, reasons and explanations. A score is a real number in the code, so each order
  or draw it could lead to is allowed; the properties hold for all of them.
- `GoogleMap` (`gcal.ts`, `listAll`, `syncUser`): every kind of event before and after a change, in pages.
- `Attribution`: duration estimates over passes that fail between two rows; a move, its target context
  and its pair of tuples; the order of the sweep; the delivery of labels.
- `Insights`: ISO weeks against counting from 4 January, adherence, heatmap and its text, labels
  on two devices, two visits to the screen with the cached document.
- `Capture`: the quick-add line from its tokens, the form, the survey, hours and sleep, the blob of
  preferences, plural forms. `Profile`: up to four edits and syncs of the profile on two devices
- `Export`: a table at each of its page reads while rows come and go.
- `Focus`: sequences of user actions, scans and server rows over two tasks with three blocks.
- `Dialogs`: hosts, requests, animations and taps.

`Focus` and `Dialogs` are explored as state machines inside the same run (`FocusStep`, `DialogStep`).

## 3. Runs

| run | question | parts of the properties | result |
|---|---|---|---|
| `SyncCore` | safety of the task protocol, that it implements the op log, and under fairness that queues drain and devices agree | `ExactlyOnce`, `AckedIsDurable`, `CursorSound`, `ImplementsOpLog`, `DoneNeverRegresses`, `EventuallyConverges` | holds |
| `SyncTwoQueued` | a completion is never undone, with four writes | `DoneNeverRegresses` | **violated**: F1 |
| `LeaseCore` | no row skipped, no pull inside a write, own release only, no wedged user | | holds while every write is under the lease |
| `EngineCore` | `EngineSound`: types, no orphaned write, honest status. `PrePlanPushed`: the pre-plan promise. `EngineLive`: eventual push, rest in the background | `NoOrphanWrite`, `SyncingIsTrue`; `EventuallyPushed`, `ComesToRest` | holds |
| `AccountCalm` | accounts change, but not during a run: nothing skipped, only one's own is pushed and kept, an unsynced op survives one change | `OwnOnly` = types, `PrivacyDefault`, `PushedByOwner` | holds |
| `RewardCore` | rewards of one placement: written once, only improved, in step with the status, never for a displaced or unfinished slot | `RewardSound` = types, `StatusMatchesReward`, `LapsedAfterSlot`, `DisplacedUnrewarded` | holds |
| `LearningCore` | a tuple counts once, id set and marker are true, delivery comes | `LedgersTrue` = `IdSetAgrees`, `DeliveredIsLearned` | holds; the ledgers as long as calls do not overlap |
| `PlanCore` | a day is asked for and planned once, the screen waits for nothing that is not coming, an opened day is answered | `OncePerDay` = types, `OnePlacement`, `AskedOnce`, `StatusHonest` | holds |
| `CalendarCore` | the saved token vouches for the mirror, meetings displace, copies are accounted for, both sides catch up while a block's day lasts | `CalendarSound` = types, `MirrorCurrent`, `MeetingsDisplace`, `CopiesAccounted` | holds |
| `NotifyCore` | no more reminders than the cap, the ritual once, the OS comes back to what the database calls for | `FiresSparingly` = types, `CapKeptById`, `RitualOnce` | holds |
| `PrivacyCore` | proof of erasure, unsynced changes go only with their account or for an account that is gone or synced, nothing comes back | | holds; nothing left unless a page was on its way at the wipe |
| `AlgoCore` | the pure modules and the two screens, one property per group | `PlannerSound` (`Grid`, `Heuristic`), `ReviewSound` (`Insights`), `EntrySound` (`Capture`, `Profile`), `FocusSound`, `ScreensSound` (`Dialogs`, `Export`), `PassSound` (`Attribution`), `GoogleSound` (`GoogleMap`) | holds |

A property that is a conjunction of named parts has a mutant for its parts, not only one for the whole.
Deadlock is checked except in four runs whose systems may really come to an end: time and trouble run
out (`CalendarCore`, `NotifyCore`), every account is erased (`PrivacyCore`), an input is one step
(`AlgoCore`). Elsewhere polls, re-sends and sign-outs go on for ever.

### Disagreements met
F1 is a run. The others have a configuration of their own that shows the counterexample and is run by
hand (`tlc -config X.cfg` and the module: `MCAccountSwitch`, `Placement`, `Learning`, `Calendar`, `Notify`,
`MCPlanRequest`, `MCPrivacy`, `MCAlgorithms`).

- F1 `SyncTwoQueued` (`db/tasks.ts:166`): `base_version` is the local version, which each local write
  increments. A second queued op can claim a number the server reached through another device; the
  version check passes and a completion is overwritten. With one queued op per device this cannot happen.
- F2 `AccountBack` (`accountTransition.ts:144`, ADR-0012:210): the transition looks at the ops of the
  account that leaves and wipes everybody's.
- F3 `AccountOverlap` (`engine.ts:198`, `accountTransition.ts:10`): a run moves the install-wide cursor with
  an answer for the previous account.
- F4 `RewardStale` (`attribute-rewards/handler.ts:340`, ADR-0010:65): the sweep works with the row it read
  before the lease. If a sync moves the row in between, the outcome is inserted, the patch expects the
  old status and misses, and later passes take the outcome for settled; the row stays unattributed.
- F5 `LearningLost` (`feedback.py:134`, ADR-0010:106): two calls of one user are not serialised,
  `save_all` overwrites the state and the id set only grows. When the caller of a call has timed out or
  died and a later pass posts again, the slower call takes the other's evidence out of the state, and
  nothing sends it again.
- F6 `CalendarRace` (`gcal-connect/handler.ts:185`, its header :9): the disconnect takes no lease and
  `saveState` is an upsert (`gcal-webhook/db.ts:125`), so a sync under way brings the row, its token and
  the events back.
- F7 `NotifyCap` (`ledger.ts:94`, `plan.ts:64`): the ledger keeps one entry per id and day, so a block that
  is moved and fires again counts once, and a day may have more deliveries than the cap.
- F8 `PlanObserved`: `DeferredStayOut`, a task deferred to the next midnight is still a candidate,
  as `context.ts:50` adds three hours to the horizon the comment at :61 names; `ShownLogged`, a plan the pull delivered before its
  answer gets no `recommendation_shown` (`plans.ts:145`).
- F9 `PrivacyObserved`: `NothingLeft` (`engine.ts:193-198`, a sync answered before the erasure applies after
  the wipe), `NeverTwoAudits` (`delete-account/handler.ts:126-129`, two invocations pass the check
  together), `RetentionSparesUpgraded` (`handler.ts:147`, the candidates are read once for the whole sweep).
- F10 `AlgoObserved` lists nine properties, each violated; keep one in the list to see its counterexample.
  - `ParCredited` (`par.ts:60`, `rewards.ts:231`): the adherence counts a session the app closed itself, which
    the reward mapping takes for no evidence.
  - `LastProfileEditKept` (`engine.ts:531-565`): a conflict on the first queued profile op collapses the
    later ones into it and loses what they said.
  - `DifficultyAsked` (`focus.tsx:115`, ADR-0010:146): the first tap stores the energy, and a
    session with a stored energy is offered no rating, so the second tap has nowhere to go.
  - `DoneStaysDone` (`feedback.ts:570`): an answer "not important" to a question asked before the task was
    finished archives it.
  - `DialogStays` (`DialogHost.tsx:144-164`): a host that goes during an exit leaves a request nobody shows.
  - `ExportKept` (`export-data/handler.ts:107-121`): a row deleted between pages takes another with it.
  - `LateCounted` (`attribute-rewards/handler.ts:236`): a session synced after a later one is never counted.
  - `SweepReaches` (`handler.ts:488-493`): no user behind one whose pass throws is visited.
  - `FreeHasNoRow` (`gcal.ts:404`, `docs/runbooks/google-calendar.md:87`): an all-day event set to free keeps its row.
- F11 `CalendarWiped` (`gcal-webhook/handler.ts:70`, `_shared/gcal_sync.ts:186-189`): a job reads the sync
  token before it has the lease. When tokens expire, another job lists everything and saves a new one; the
  first then lists with its old token, gets 410, wipes the mirror and fails. The saved token is good, so
  no later sync lists what was wiped: until Google next forgets tokens, or an event changes, the
  meetings are missing from the calendar the planner sees. `EventuallySettled` makes an exception of it
  (`Stranded`).

- F12 (`rewards.ts:294-297`: "an in-window completion beats everything (facts beat plans [...])"): a stored
  tuple is rewritten once. A session given up raises a lapse to `partial` and uses up the
  correction; when a second session of the slot completes the block and reaches the server within the
  window, the better outcome is refused. Take the disjunct with `corrected` out of `FactsBeatPlans` and `RewardCore` shows it.
- F13 (`gcal_sync.ts:287-294`, `:302-303`, `gcal-webhook/db.ts:225-238`): "closed blocks [...] delete theirs", but only
  blocks of today and tomorrow are loaded. One that is closed, displaced or moved and not written back
  before its day is out, as when the sweep settles it late or Google fails till midnight, keeps its
  copy until write-back is switched off. Take `~InWindow(r)` out of `Settled` and `EventuallySettled` fails.
- F14 `PrivacyObserved`, `ErasesOnlyOwn` (`deleteAccount.ts:57`, `accountTransition.ts:101-109`; the promise
  at :14-17, :119, :188): after "Keep for now" the rows and unsynced ops of one account stay on the install
  while another is signed in. When that one erases its account, `wipeLocalMirror` takes everybody's.

Also seen while modelling, without a configuration:
- one `updated_at` decides all fields of a row, so the newest edit wins per row and not per field as
  `merge.ts:13` says;
- a delete behind a create that raised (and stays queued) is answered `superseded` and acked; the
  retried create then inserts the row, and the pull brings it back (`p8_sync.sql:241`); a create that is
  dead-lettered leaves its row on the device alone;
- `retryingBusy` (`engine.ts:242`) says only that some retry was scheduled; a run that ends busy while
  the flag is still set schedules none;
- a run of the old account sends its batch with the new account's token; the server rejects those
  ops, which dead-letters them;
- a writer that gave up waiting for the lease writes outside it, as `lease.ts` says it may, and rows
  can then be skipped;
- a pass that dies between tuples and patches leaves the row unattributed for good: later passes find
  the outcome stored and patch nothing;
- a page read before a skip arrived reopens the block on the device; moved and skipped again, it stays
  `moved` on the server: the stored skip is not written twice, so nothing patches the row;
- a plan may expire a shown row whose fact is still on the device; the mapping skips expired rows, so
  the completion is never rewarded;
- a partial session that was rewarded and then displaced stays `displaced_pending`, and a stored skip is
  not upgraded by a later completion;
- focus: a session finished on a block that a meeting or a plan has taken meanwhile shows the block as done,
  and nothing is rewarded;
- calendar: a copy whose delete fails while write-back is switched off or the calendar disconnected stays
  in Google, and no row knows it any more;
- calendar: events that `wipeEvents` failed to wipe after the state was deleted are never retried;
  switching write-back off beside a sweep leaves copies; a second confirmation is shown as failed though
  the calendar is connected; more than 50 pages never give a sync token;
- notifications: a kill between scheduling and commit leaves requests nobody counts; a pass in flight at
  sign-out schedules the old account's reminders again; only the last response is remembered, so an older
  one may be handled twice;
- grid: where the clock springs over midnight `localMidnightUtcMs` throws (`grid.ts:140`), and the sweep
  does not catch it;
- deletion: a lost answer or a kill leaves a dead session with its local data; a failing completion stamp
  leaves `completed_at` null although the device was told "ok";
- insights: weeks without blocks take the place of the oldest shown week; a document fetched for one account can
  be set on the screen of the next; of two overlapping loads the older answer may be applied last;
- focus: finishing one chunk completes the whole task and leaves the rows of its other chunks open;
- export: a table of exactly the limit is reported as cut; an insert between pages repeats a row;
- entry: the quick-add bar parses with the time of the last edit; saving notification settings drops keys
  the version does not know.

### Fairness
`TaskSync`: the 60 s poll makes each device send again and again, and the lease is free again and
again, hence strong fairness of a device's turn (two devices race for it); a transaction that started
finishes. `SyncLease`: weak fairness of running requests and of the TTL. `SyncEngine`: timers fire
and promises settle (`fetch` has a timeout); nothing is asked of user, network or server, the
premises of the liveness properties say what must stay true. `Learning`: the sweep comes every
fifteen minutes, so some pass starts again; running passes and calls go on. `PlanRequest`: promises
settle, the function answers, and the app is opened while a plan is due (`Check`). `Calendar`: the cron starts
the sweep again and again although other jobs come between (strong), which gets the lease again and again (strong); a
call that runs goes on, or fails once Google has revoked its tokens; leases expire. `Notify`: a pass goes
on, the debounce elapses, the app is opened again; kills and foregroundings are unbounded, so the
property is about an app that stays mounted from some time on. No fairness makes a user act, or a
message arrive that was lost. The liveness properties say in their premise what of the world must hold.

## 4. Proofs

The theorems hold for any devices, accounts, tuples, calls, tasks and days and for any bounds, from the
named constant assumptions of the modules alone; those of `AccountSwitch` and `Calendar` and two of
`Placement` have a hypothesis of their own, named below.
Each rests on an inductive invariant: what the property needs to know about the steps in between.

*TaskSync.* `Invariance` shows `Inv`: the types; a flight's ops are in the outbox (`SentInv`); at most
one flight is being served (`LeaseInv`); the open job extends the committed ledger and wrote exactly
what it entered there, once (`JobInv`); an answer that settles an op has it in the ledger
(`AnswerInv`); what was written is in the ledger (`EffectInv`), which names only ops that exist
(`LedgerInv`). `ExactlyOnce` alone is not inductive: it needs to know that an op in the ledger is not
replayed, and that nobody else commits while a job is open. `TypeCorrect`, `AtMostOnce`,
`AckDurability` follow; `Refinement` shows that every step is a step of `OpLog` or a stutter.

`CursorIsSound` needs more (`CInv`): an op that changed the ledger changed the row (`RowInv`, `OpenInv`),
an answer acks its whole batch and carries the row if that is news (`PageInv`), and what the server took
without the device knowing is in the batch it sends next (`BatchInv`). The step that could go wrong is
the last ack of a device that kept its own row: `SeenInv` says that while a queue holds an op
the server already took, the device is behind the server, so the page with that ack brings the row.

*SyncLease.* `LeaseInvariance` is `Spec => [](AllHeld => Inv)`: as long as no writer went on without the
lease and no lease expired under its holder, whoever works holds the lease, so at most one
transaction is open and every committed number below an open one is committed; a page on its way is
a prefix of what is above the cursor. `HeldBefore` carries the condition backwards through a step
(the counters only grow). `NothingIsSkipped` and `PullsAreOutsideWrites` follow; `OnlyOwnRelease` needs
the types alone, and no condition.

*SyncEngine.* `EngineSound` is inductive once its types are taken apart: `Sound` is one lemma per trigger
and per stretch of `run`. What makes it so is that `NoOrphanWrite` speaks of the run, its follow-up and
the timer together. `PlanSeesItsWrites` follows: a round that ends synced has emptied the outbox that
the plan's caller saw, whichever run it joined.

*AccountSwitch.* `NoRowSkipped`, `OwnRowsAndOps` and `FirstChangeKeepsOps` assume `MaxOverlaps = 0`, that
no account changes during a run; F3 shows that the first fails without it. `SessionInv` says that the
session is the last account's or still to be handled, `RunInv` that a run belongs to the last account
(its session may have ended), `AnswerInv` that what is on the wire is its own and taken and that its page
lacks nothing up to its top, `MirrorInv` that the mirror holds every row up to the cursor, `SwitchInv`
that up to the first change every op is the last account's. `NothingSkipped` looks at signed-in
moments only, `MirrorInv` at all: the mirror has to stay whole through a sign-out.

*RewardMap and Placement.* `MapUserGains` is the lemma about `mapUser` the rest leans on: over a stored
outcome it writes nothing, or a correction that is worth more. `OnlyImproves` needs it across the
await between the mapping and the write (`WriteInv`: a correction about to be stored still gains, or the
outcome was rewritten meanwhile, and then `writeTuples` refuses it). The others need `RInv`, which adds

- `TimeInv`: what is too late for its slot was late when it was mapped, and time does not go back; without
  late moves, the device, its page and the patches of a pass stay within one day;
- `LeaseInv`: until a lease expires under a pass, the pass at work is the one that holds it;
- `DisplacedInv`: no pass is about to reward a displaced block (`PendingInv`), and the row a sweep took
  for due stays late wherever a patch puts it (`SlotInv`);
- `CalmInv`: when nothing fails, the patches a pass has left lead the row, step by step with the status
  each expects, to what the stored outcome says (`Leads`, `Says`).

`RowAndReward` and `DueIsSettled` hold for moves at any hour; `ServerIsRight` and `FactsWin` assume
`~LateMoves`. `FactsWin` (facts beat plans) adds `FactsInv`, about the stored outcome and the one a pass
is about to leave (`FactsPass`). The code rewrites an outcome once, so what is stored must not be one
that cannot be rewritten, but for those the property names. `Known`: an excluded outcome is a
completion, and the one rewrite ends in a completion or, from a lapse, in a partial session (F12). `Gone`: a
lapse, or a completion elsewhere, is stored only for a slot that is over, and never for a pending
displacement, which `mapUser` would not look at again. `Beats` is the property itself, of the row and the outcome
as they will be. With late moves TLC finds
`FactsBeatPlans` violated: a block the sweep settled as lapsed is moved to the next day, done there, and
displaced before the completion arrives.

`ScreenIsTrue`, also for moves at any hour, adds what the device knows of the row. `PageInv`: a page on its
way is the row as it is unless it has changed since; a device with nothing outstanding shows the row, or
what the user made of an open one, or a session finished on one that was taken. `PairInv`: the stored override pair of a move comes with a row that is no longer
`shown`, or with a pass that still has the patch to make it so. When nothing is left to map, the last move is
therefore in the row, and a skip has an outcome or was beaten by one.

*Learning.* `Invariance` shows `Inv`: what is on the wire is stored, with the same exclusion and once
(`WireInv`); only stored tuples that count enter the id set (`KeysInv`); no state, stored or carried by
a call, has evidence twice or from outside the id set (`EvidenceInv`); without overlap, the one call has
what is stored (`SoloInv`). `EvidenceOnce` needs the id set in it: a call reads the state before the id
set, the id set only grows, so what it finds fresh cannot be in the older state. `NeverTwice` and
`IdSetIsTrue` follow; `TypeCorrect` needs `LabelsBounded` and `CallersWait` (a pass waits exactly while one
call is its own).

`MarkedIsLearned` needs two more. `BetterInv`: the corrected reward is counted only for corrected tuples,
so evidence with the old reward and evidence with the new one cannot be confused. `DeliveryInv`: as long
as calls do not overlap and no pass outlives its lease, what the one call will leave when it saves teaches
all that is marked delivered and all that its caller waits for; a pass that marks has its tuples in
the state already, and no call is running that could undo that. `LedgersAreTrue` joins both ledgers.

*PlanRequest.* `AskedAndPlacedOnce` rests on `IInv`: the types; the device's key is never behind a day
it asked for, and a request has one lazy caller at most (`Asking`); while no answer was lost, the request
somebody works on is the awaited one and has seen every plan of its day (`OneAtATime`), so that its
supersede leaves no second placement. `MaxTime >= DayTicks` is assumed: the model has more than one day.

*Calendar.* `CalendarIsSound` assumes `~Racing` and `~Impatient`, as `CalendarCore` does; without either one
TLC finds each of its three parts violated (`Racing`: F6, or a plan made before the meeting was listed;
`Impatient`: two jobs import and copy side by side). `IInv` has three pillars.

- `LeaseInv`: whoever is between its list and the end of its write-back holds the lease, and the
  switch and the disconnect are alone. A step of one job therefore meets no other in the middle.
- `ImportInv`: a job's token is no newer than the saved one, nor is the saved one newer than what the job has listed
  (`TokenInv`, `DeltaInv`); at upsert, mark and save the mirror and what is still to be upserted are what Google
  has up to the list's end (`ReachInv`), so that the token may be saved (`MirrorInv`); an open block
  in the way of a listed meeting is among those about to be displaced (`MeetMark`) or planned after a 410.
- `CopyInv`: each piece of work says what its block is in want of, as nobody else writes its row
  (`TodoInv`); an answer not yet noted belongs to a block that has no other copy (`MadeInv`, `OwnInv`); a
  new id is above all others (`IdInv`); a copy that no row names and no answer under way will, or whose
  delete has failed and whose id is forgotten next (`Left`), is owed to a failure (`CountInv`: the `Owed`
  are at most `lost`).

`MirrorCurrent` needs the exception for `wiped`: proving it without one is what brought F11 to light, three
troubles deep, where the bounds of `CalendarCore` end at two.

*Privacy.* `Invariance` shows what an invocation has done by the step it is at (`JobInv`), that only one
invocation deletes an account (`SoleInv`), what the audit table says of accounts that are gone and that
are there (`AuditInv`), and what the device may rely on (`DeviceInv`). Its request, its ticket and the
account it asked for belong together, and it goes on only if that account is erased (`AskInv`): the
answer "ok" is one of an invocation that came to its end, which `JobInv` ties to the missing user.
An account that was confirmed, or is about to be (`Gone`), is signed in no more, so that no
write, transition or new sync brings it back, and a page that still has it is entered in `late`
(`MirrorInv`). `ProofOfErasure` and `NothingStays` follow. `ForgettingIsLate` goes through every action
that drops unsynced ops; for a sign-in, `SignInDrops` shows that only the wipe for a synced account does.

*Notify.* `ReminderSparing` rests on `NotifyInv`. The cap of a day is a sum over three places, the requests
the OS holds, the cards it has delivered and the ledger of earlier passes, and no step sees all three:

- `RequestInv`: an id names one block or ritual, one day and one lead, so that a request handed over twice is one;
- `PassInv`: a pass is over before what it asks for is due, and while it schedules, the OS holds
  only what this pass has asked for, or what the ledger of the last one expects;
- `TimeInv`, `KnownInv`: nothing fires late, and what was delivered today is in the ledger, marked or expected;
  settling turns the expected into the marked before the plan counts them;
- `FreshInv`: a ritual that was delivered is not asked for again;
- `CapInv`: of each day, the marked and the expected ids, and while a pass schedules the marked and the asked
  ones, are at most `Cap`. This holds at all times, also after a `slip`.

A delivery of today was in the ledger, so today's stay within the cap, and those of earlier days do not change.
`slip`, the exception of `CapKeptById`, is a request that fell due while a pass was opening, or a pass that was
killed, or met by a sign-out, after it handed requests over: no ledger knows what the OS then delivers.

Only model-checked: liveness, which this prover cannot do, nor ENABLED; and what `MCAlgorithms` says of
the pure modules, whose recursive functions would need induction over data. `DoneNeverRegresses` of
`TaskSync` cannot be proved: it holds within the bounds of `SyncCore` and fails beyond them (F1).

## 5. Not modelled

Left out for good: real-valued numerics (bandit, blend, CP-SAT, estimators, training), which TLC cannot
enumerate; rendering, wording, observability, generated code. The recognition of dates and words in the
quick-add line belongs to a library and to word lists in two languages; the model starts at its tokens. Of
the placements, pinning is left out (a pinned block behaves as a shown one until the plan, where it is
modelled), and so is the op that reports a block as accepted when a session starts on it; of the deletion, the
best-effort disconnect from Google.
