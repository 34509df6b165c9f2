----------------------------- MODULE PlanRequest -----------------------------
(***************************************************************************)
(* A day's plan: what makes the device ask for one (first open, manual,    *)
(* the evening ritual, a trade-off), the request it shares between         *)
(* callers, the Edge Function between its context read and persist_plan,   *)
(* and the mirror that receives the answer, or the pull before it.         *)
(* Time runs in ticks; the first tick of a day is the night before 06:00.  *)
(* A recommendation is named by its plan and task.                         *)
(***************************************************************************)
EXTENDS Naturals, FiniteSets, FiniteSetsExt, Sequences

CONSTANTS Tasks,
          DayTicks,       \* ticks of a day
          Evening,        \* the tick of the day at which the ritual is due
          ClosedDays,     \* days without a working window
          RateLimit,      \* plans per 24 hours
          Arm,            \* the study arm: "A", "B" or "none"
          Earlier,        \* plans of the day before the model's first
          MaxTime, MaxRequests, MaxLosses

ASSUME PlanAssumption ==
  /\ IsFiniteSet(Tasks)
  /\ DayTicks \in Nat \ {0, 1} /\ Evening \in 1 .. DayTicks - 1
  /\ ClosedDays \subseteq Nat /\ RateLimit \in Nat \ {0} /\ Earlier \in Nat /\ Arm \in {"A", "B", "none"}
  /\ MaxTime \in Nat /\ MaxTime >= DayTicks   \* more than one day
  /\ MaxRequests \in Nat /\ MaxLosses \in Nat

VARIABLES
  now,
  task,       \* the device's task rows: status and the first day they may be planned on
  plans,      \* server: the plans in the order persist_plan made them
  recs,       \* server: recommendation rows
  server,     \* server: the task rows and the profile it was sent
  requests,   \* the requests the Edge Function got, with how far each is
  mirror,     \* device: plan ids, the status of each mirrored row, rows logged as shown
  facts,      \* device: rows with a fact that was not pushed yet
  run,        \* device: the request in flight
  ui,         \* device: state/plan.ts
  lastDay,    \* device: the durable day for which a request was answered
  decided,    \* device: plans whose trade-off sheet was answered
  losses,     \* answers lost and processes killed
  asked       \* how often a lazy request of a day was answered (history)

vars == <<now, task, plans, recs, server, requests, mirror, facts, run, ui,
          lastDay, decided, losses, asked>>

None == "none"
NoRun == [stage |-> None]
Gone == [stage |-> "gone"]   \* a request nobody hears about any more

DayOf(t) == t \div DayTicks
Night(t) == t % DayTicks = 0
Days == 0 .. DayOf(MaxTime) + 1

\* The plan day an instant belongs to; -1 of the source's calendar is not reached.
PlanDayOf(t) == IF Night(t) /\ t > 0 THEN DayOf(t) - 1 ELSE DayOf(t)
NextPlanDayOf(t) == PlanDayOf(t) + 1

HasWorkingWindow(day) == day \notin ClosedDays

Id(r) == <<r.plan, r.task>>
Live(r) == r.status = "shown" /\ ~r.fact /\ r.slot + 1 > now

Init ==
  /\ now = 1
  /\ \E from \in [Tasks -> {0, 2}] : task = [t \in Tasks |-> [status |-> "inbox", from |-> from[t]]]
  /\ plans = <<>> /\ recs = {}
  /\ server = [task |-> [t \in Tasks |-> [status |-> "absent", from |-> 0]], profile |-> FALSE]
  /\ requests = <<>>
  /\ mirror = [plans |-> {}, rows |-> <<>>, shown |-> {}]
  /\ facts = {} /\ run = NoRun
  /\ ui = [status |-> "idle", empty |-> FALSE]
  /\ lastDay = MaxTime + 1 /\ decided = {} /\ losses = 0
  /\ asked = [d \in Days |-> 0]

-----------------------------------------------------------------------------
(* The device asks. *)

InFlight == run # NoRun

PlannedOn(day) == \E p \in mirror.plans : plans[p].day = day

DueAfterKill == ~InFlight /\ ~Night(now) /\ ~PlannedOn(DayOf(now))
DueFirstOnly == ~InFlight /\ ~Night(now) /\ mirror.plans = {} /\ lastDay # DayOf(now)

Due == /\ ~InFlight
       /\ PlanDayOf(now) = DayOf(now)
       /\ ~PlannedOn(DayOf(now))
       /\ lastDay # DayOf(now)

Answered == {"planned", "empty_inbox", "no_working_window", "rate_limited"}

StatusForgotten(kind) ==
  CASE kind \in {"planned", "empty_inbox", "no_working_window"} -> "idle"
    [] kind = "profile_missing" -> "planning"
    [] kind \in {"no_session", "offline", "rate_limited"} -> kind
    [] kind = "failed" -> "error"

\* The status line each outcome leaves behind.
StatusAfter(kind) ==
  CASE kind \in {"planned", "empty_inbox", "no_working_window", "profile_missing"} -> "idle"
    [] kind \in {"no_session", "offline", "rate_limited"} -> kind
    [] kind = "failed" -> "error"

UiAfter(kind) ==
  [status |-> StatusAfter(kind),
   empty  |-> IF kind \in {"planned", "empty_inbox", "no_working_window"}
              THEN kind = "empty_inbox" ELSE ui.empty]

Lazy == {"first_open", "new_day"}

\* Only a call for its own calendar day, and never the ritual, writes the key.
DedupDays(calls) == {c.day : c \in {c \in calls : c.trigger # "ritual" /\ c.day = DayOf(c.at)}}

\* What every caller of runPlanRequest does with the outcome it was given.
Settle(calls, kind) ==
  /\ ui' = UiAfter(kind)
  /\ lastDay' = IF kind \in Answered /\ DedupDays(calls) # {} THEN Max(DedupDays(calls)) ELSE lastDay
  /\ asked' = [d \in Days |-> asked[d] +
                Cardinality({c \in calls : c.trigger \in Lazy /\ c.day = d /\ kind \in Answered})]

\* requestPlan: a caller joins the request in flight, or starts one.
RequestPlan(call) ==
  run' = IF InFlight THEN [run EXCEPT !.calls = @ \cup {call}]
                     ELSE [stage |-> "session", day |-> call.day, calls |-> {call}, request |-> 0]

RunPlanRequest(trigger, day) ==
  LET call == [trigger |-> trigger, day |-> day, at |-> now] IN
  /\ Len(requests) < MaxRequests
  /\ IF trigger # "manual" /\ ~HasWorkingWindow(day)
     THEN Settle({call}, "no_working_window") /\ UNCHANGED run
     ELSE /\ ui' = [ui EXCEPT !.status = "planning"]
          /\ RequestPlan(call)
          /\ UNCHANGED <<lastDay, asked>>
  /\ UNCHANGED <<now, task, plans, recs, server, requests, mirror, facts, losses>>

\* Opening the app, or coming back to it.
Check == /\ Due
         /\ RunPlanRequest(IF mirror.plans = {} THEN "first_open" ELSE "new_day", DayOf(now))
         /\ UNCHANGED decided

Manual == ~InFlight /\ RunPlanRequest("manual", DayOf(now)) /\ UNCHANGED decided

\* "Plan tomorrow" on a ritual that was posted at some evening so far.
RitualTapped == \E at \in 0 .. now :
  /\ at % DayTicks = Evening
  /\ RunPlanRequest("ritual", NextPlanDayOf(at)) /\ UNCHANGED decided

\* The same from the card of the Today screen.
RitualCard ==
  /\ now >= PlanDayOf(now) * DayTicks + Evening
  /\ ~PlannedOn(NextPlanDayOf(now)) /\ HasWorkingWindow(NextPlanDayOf(now))
  /\ \E t \in Tasks : task[t].status = "inbox"
  /\ ui.status # "planning"
  /\ RunPlanRequest("ritual", NextPlanDayOf(now)) /\ UNCHANGED decided

\* The latest mirrored plan of a day, by the time its request was read.
IsLatest(p, day) ==
  /\ p \in mirror.plans /\ plans[p].day = day
  /\ \A q \in mirror.plans : plans[q].day = day => plans[q].at <= plans[p].at

\* Before 06:00 the Today screen keeps the plan of the day before, if there was one.
ShownDay == IF PlannedOn(PlanDayOf(now)) THEN PlanDayOf(now) ELSE DayOf(now)

\* The sheet of an infeasible plan of today: an option is a task edit (here the one that moves
\* the task to the next day) and a new request.
Sheet(p) == /\ IsLatest(p, DayOf(now)) /\ ShownDay = DayOf(now)
            /\ plans[p].options # {} /\ p \notin decided

DropOption == \E p \in mirror.plans : \E t \in plans[p].options :
  /\ Sheet(p)
  /\ decided' = decided \cup {p}
  /\ task' = [task EXCEPT ![t].from = DayOf(now) + 1,
                          ![t].status = IF @ = "scheduled" THEN "inbox" ELSE @]
  /\ Len(requests) < MaxRequests
  /\ ui' = [ui EXCEPT !.status = "planning"]
  /\ RequestPlan([trigger |-> "manual", day |-> DayOf(now), at |-> now])
  /\ UNCHANGED <<now, plans, recs, server, requests, mirror, facts, lastDay, losses, asked>>

RejectOptions == \E p \in mirror.plans :
  /\ Sheet(p)
  /\ decided' = decided \cup {p}
  /\ UNCHANGED <<now, task, plans, recs, server, requests, mirror, facts, run, ui, lastDay,
                 losses, asked>>

-----------------------------------------------------------------------------
(* The mirror. *)

\* A pulled status replaces the device's only where the user did nothing with the block.
Overlay(r) == IF Id(r) \in DOMAIN mirror.rows /\ mirror.rows[Id(r)] = "done" THEN "done" ELSE r.status

Pulled == [mirror EXCEPT !.plans = DOMAIN plans,
                         !.rows = [i \in {Id(r) : r \in recs} |->
                                     Overlay(CHOOSE r \in recs : Id(r) = i)]]

SyncedTwice ==
  /\ server' = [task |-> task, profile |-> TRUE]
  /\ recs' = recs \cup {[r EXCEPT !.fact = TRUE] : r \in {r \in recs : Id(r) \in facts}}
  /\ facts' = {} /\ mirror' = Pulled

\* A whole sync: the outbox goes up, the pages come down.
Synced ==
  /\ server' = [task |-> task, profile |-> TRUE]
  /\ recs' = {[r EXCEPT !.fact = @ \/ Id(r) \in facts] : r \in recs}
  /\ facts' = {}
  /\ mirror' = Pulled

\* Complete a shown block: its row, its task and the fact, in one transaction.
Complete == \E i \in DOMAIN mirror.rows :
  /\ mirror.rows[i] = "shown" /\ task[i[2]].status # "done"
  /\ mirror' = [mirror EXCEPT !.rows[i] = "done"]
  /\ task' = [task EXCEPT ![i[2]].status = "done"]
  /\ facts' = facts \cup {i}
  /\ UNCHANGED <<now, plans, recs, server, requests, run, ui, lastDay, decided, losses, asked>>

\* A sync of its own (poll, debounce, foreground), at any time.
Poll == /\ Synced
        /\ UNCHANGED <<now, task, plans, requests, run, ui, lastDay, decided, losses, asked>>

StatusIn(answer, t) == IF t \in answer.placed THEN "scheduled"
                       ELSE IF t \in answer.unplaced THEN "inbox" ELSE task[t].status

\* applyPlanResponse: rows, expiries, task statuses and shown events, unless the plan is known.
Apply(answer) ==
  LET p == answer.plan IN
  IF p \in mirror.plans THEN UNCHANGED <<mirror, task>>
  ELSE /\ mirror' = [plans |-> mirror.plans \cup {p},
                     rows  |-> [i \in DOMAIN mirror.rows \cup {<<p, t>> : t \in answer.placed} |->
                                 IF i[1] = p THEN "shown"
                                 ELSE IF i \in answer.expired /\ mirror.rows[i] = "shown"
                                      THEN "expired" ELSE mirror.rows[i]],
                     shown |-> mirror.shown \cup {<<p, t>> : t \in answer.placed}]
       /\ task' = [t \in Tasks |-> IF task[t].status \in {"inbox", "scheduled"}
                                   THEN [task[t] EXCEPT !.status = StatusIn(answer, t)] ELSE task[t]]

-----------------------------------------------------------------------------
(* The request on the device. *)

Finish(kind) == /\ run' = NoRun /\ Settle(run.calls, kind)

NoSession == /\ run.stage = "session" /\ losses < MaxLosses
             /\ losses' = losses + 1
             /\ \E kind \in {"offline", "no_session"} : Finish(kind)
             /\ UNCHANGED <<now, task, plans, recs, server, requests, mirror, facts, decided>>

\* The session is there and syncBeforePlan went through.
PreSync == /\ run.stage = "session"
           /\ run' = [run EXCEPT !.stage = "send"]
           /\ Synced
           /\ UNCHANGED <<now, task, plans, requests, ui, lastDay, decided, losses, asked>>

\* A sync that failed on the server does not stop the request.
PreSyncFails == /\ run.stage = "session" /\ losses < MaxLosses
                /\ losses' = losses + 1
                /\ run' = [run EXCEPT !.stage = "send"]
                /\ UNCHANGED <<now, task, plans, recs, server, requests, mirror, facts, ui,
                               lastDay, decided, asked>>

Send == /\ run.stage = "send" /\ Len(requests) < MaxRequests
        /\ requests' = Append(requests, [stage |-> "arrived", day |-> run.day])
        /\ run' = [run EXCEPT !.stage = "wait", !.request = Len(requests) + 1]
        /\ UNCHANGED <<now, task, plans, recs, server, mirror, facts, ui, lastDay, decided,
                       losses, asked>>

Receive == LET q == requests[run.request] IN
  /\ run.stage = "wait" /\ q.stage = "answered"
  /\ Finish(q.kind)
  /\ requests' = [requests EXCEPT ![run.request] = Gone]
  /\ IF q.kind = "planned" THEN Apply(q.answer) ELSE UNCHANGED <<mirror, task>>
  /\ UNCHANGED <<now, plans, recs, server, facts, decided, losses>>

\* What is left of an answer nobody awaits any more.
Unheard == [q \in DOMAIN requests |-> IF requests[q].stage = "answered" THEN Gone ELSE requests[q]]

\* The connection breaks; the function may run on.
LoseAnswer == /\ run.stage = "wait" /\ losses < MaxLosses
              /\ losses' = losses + 1
              /\ Finish("offline") /\ requests' = Unheard
              /\ UNCHANGED <<now, task, plans, recs, server, mirror, facts, decided>>

\* The process dies: module variables and stores are gone, MMKV and SQLite stay.
Kill == /\ losses < MaxLosses /\ InFlight
        /\ losses' = losses + 1
        /\ run' = NoRun /\ ui' = [status |-> "idle", empty |-> FALSE]
        /\ requests' = Unheard
        /\ UNCHANGED <<now, task, plans, recs, server, mirror, facts, lastDay, decided, asked>>

-----------------------------------------------------------------------------
(* The Edge Function. *)

Awaited(q) == run.stage = "wait" /\ run.request = q

Advance(q, with) == requests' = [requests EXCEPT ![q] = with]
Reply(q, with) == Advance(q, IF Awaited(q) THEN with ELSE Gone)
Answer(q, kind) == Reply(q, [stage |-> "answered", kind |-> kind])

\* Plans persisted in the last 24 hours.
Recent == Cardinality({p \in DOMAIN plans : plans[p].at + DayTicks >= now})
            + IF now < DayTicks THEN Earlier ELSE 0

\* Open tasks whose first day begins before the end of the horizon, 24 hours and 3 of slack.
Candidates(day) == {t \in Tasks : /\ server.task[t].status \in {"inbox", "scheduled"}
                                  /\ server.task[t].from <= day + 1}

\* Of these, the ones either engine can place on the day.
Placeable(day) == {t \in Candidates(day) : server.task[t].from <= day}

Existing(day) == {p \in DOMAIN plans : plans[p].day = day}

\* The refusals, in the order of the handler; "none" lets the request through.
Refusal(day) ==
  CASE Recent >= RateLimit -> "rate_limited"
    [] ~server.profile -> "profile_missing"
    [] day + 1 < DayOf(now) -> "failed"
    [] ~HasWorkingWindow(day) -> "no_working_window"
    [] Candidates(day) = {} -> "empty_inbox"
    [] OTHER -> None

LoadContext(q) ==
  /\ requests[q].stage = "arrived"
  /\ IF Refusal(requests[q].day) # None THEN Answer(q, Refusal(requests[q].day))
     ELSE Advance(q, [stage |-> "read", day |-> requests[q].day, at |-> now,
                      tasks |-> Candidates(requests[q].day),
                      placeable |-> Placeable(requests[q].day),
                      supersede |-> Existing(requests[q].day)])
  /\ UNCHANGED <<now, task, plans, recs, server, mirror, facts, run, ui, lastDay, decided,
                 losses, asked>>

\* Free slots of the day, from the instant the request was read at on.
Slots(req) == {s \in req.day * DayTicks + 1 .. (req.day + 1) * DayTicks - 1 : s >= req.at}

SupersededLate(r, ids) == r.plan \in ids /\ Live(r) /\ r.slot > now
Superseded(r, ids) == r.plan \in ids /\ Live(r)

\* callService: an answer in time and in shape, or one of five ways to have none.
CallService == {"ok", "timeout", "network", "http", "invalid_response", "not_configured"}

\* Arm A never calls the service; for the others the same heuristic stands in when it fails.
Reasons == IF Arm = "A" THEN {"arm_a"}
           ELSE {IF call = "ok" THEN "learned" ELSE "fallback" : call \in CallService}

\* The rows persist_plan inserts: one shown recommendation per placed task.
Inserted(p, slot) == {[plan |-> p, task |-> t, slot |-> slot[t], status |-> "shown",
                       fact |-> FALSE] : t \in DOMAIN slot}

\* Either engine gives some of the tasks a slot of their own, and an infeasible plan options.
\* persist_plan puts the plan, its rows and the expiries into one transaction.
Persist(q) ==
  LET req  == requests[q]
      p    == Len(plans) + 1
      gone == {r \in recs : Superseded(r, req.supersede)}
  IN
  /\ req.stage = "read"
  /\ \E placed \in SUBSET req.placeable :
     \E slot \in [placed -> Slots(req)], options \in {{}, req.tasks \ placed}, reason \in Reasons :
       /\ \A t, u \in placed : slot[t] = slot[u] => t = u
       /\ plans' = Append(plans, [day |-> req.day, at |-> req.at, reason |-> reason,
                                  options |-> options])
       /\ recs' = (recs \ gone) \cup {[r EXCEPT !.status = "expired"] : r \in gone}
                    \cup Inserted(p, slot)
       /\ Reply(q, [stage |-> "answered", kind |-> "planned",
                    answer |-> [plan |-> p, placed |-> placed, unplaced |-> req.tasks \ placed,
                                expired |-> {Id(r) : r \in gone}]])
  /\ UNCHANGED <<now, task, server, mirror, facts, run, ui, lastDay, decided, losses, asked>>

\* A call of the function's own that throws is answered with 500.
Throws(q) == /\ requests[q].stage \in {"arrived", "read"} /\ losses < MaxLosses
             /\ losses' = losses + 1
             /\ Answer(q, "failed")
             /\ UNCHANGED <<now, task, plans, recs, server, mirror, facts, run, ui, lastDay,
                            decided, asked>>

Tick == /\ now < MaxTime /\ now' = now + 1
        /\ UNCHANGED <<task, plans, recs, server, requests, mirror, facts, run, ui, lastDay,
                       decided, losses, asked>>

Handle == \E q \in DOMAIN requests : LoadContext(q) \/ Persist(q)

Next == \/ Check \/ Manual \/ RitualTapped \/ RitualCard \/ DropOption \/ RejectOptions
        \/ Complete \/ Poll
        \/ NoSession \/ PreSync \/ PreSyncFails \/ Send \/ Receive \/ LoseAnswer \/ Kill
        \/ Handle \/ (\E q \in DOMAIN requests : Throws(q))
        \/ Tick

Spec == Init /\ [][Next]_vars

\* Promises settle, the function answers, the app is opened, time passes.
Fairness == /\ WF_vars(PreSync) /\ WF_vars(Send) /\ WF_vars(Receive) /\ WF_vars(Handle)
            /\ WF_vars(Check)

FairSpec == Spec /\ Fairness

-----------------------------------------------------------------------------
TaskStatus == {"inbox", "scheduled", "done"}
Kinds == Answered \cup {"no_session", "offline", "profile_missing", "failed"}
Ids == (DOMAIN plans) \X Tasks

TypeOK ==
  /\ now \in 0 .. MaxTime
  /\ task \in [Tasks -> [status : TaskStatus, from : Days]]
  /\ \A p \in DOMAIN plans : plans[p].day \in Days /\ plans[p].at \in 0 .. now
  /\ \A r \in recs : Id(r) \in Ids /\ r.status \in {"shown", "expired"} /\ r.fact \in BOOLEAN
  /\ \A r, s \in recs : Id(r) = Id(s) => r = s
  /\ mirror.plans \subseteq DOMAIN plans /\ mirror.shown \subseteq Ids
  /\ DOMAIN mirror.rows \subseteq Ids /\ facts \subseteq DOMAIN mirror.rows
  /\ \A i \in DOMAIN mirror.rows : mirror.rows[i] \in {"shown", "expired", "done"}
  /\ \A q \in DOMAIN requests : requests[q].stage \in {"arrived", "read", "answered", "gone"}
  /\ run.stage \in {None, "session", "send", "wait"}
  /\ run.stage = "wait" => requests[run.request].stage # "gone"
  /\ ui.status \in {"idle", "planning", "error", "offline", "no_session", "rate_limited"}
  /\ decided \subseteq mirror.plans /\ losses \in 0 .. MaxLosses

\* The screen never says "planning" while nothing is on its way (runPlanRequest's switch).
StatusHonest == ui.status = "planning" => InFlight

\* While no answer was lost, the server holds at most one live block per task and day: the
\* in-flight guard, the plans the context read, and persist_plan's expiry together see to it.
OnePlacement ==
  losses = 0 => \A r, s \in recs :
    (Live(r) /\ Live(s) /\ r.task = s.task /\ plans[r.plan].day = plans[s.plan].day) => r = s

\* "Exactly one plan request per plan day": the lazy trigger is answered once a day, across
\* restarts, rituals and manual requests (planRequestDay.ts, decidePlanTrigger).
AskedOnce == \A d \in Days : asked[d] <= 1

\* A day is asked for once and planned once, and the screen waits for nothing that is not coming.
OncePerDay == TypeOK /\ OnePlacement /\ AskedOnce /\ StatusHonest

\* Callers that share a request asked for the same day (requestPlan).
SharedDay == InFlight => \A c \in run.calls : c.day = run.day

\* "A task the user deferred past this horizon is not a candidate" (context.ts).
DeferredStayOut ==
  \A q \in DOMAIN requests : requests[q].stage = "read" => requests[q].tasks = requests[q].placeable

\* A block this device was answered with has its recommendation_shown fact (applyPlanResponse).
ShownLogged ==
  [][ (Receive /\ requests[run.request].kind = "planned")
      => LET answer == requests[run.request].answer IN
         \A t \in answer.placed : <<answer.plan, t>> \in mirror'.shown ]_vars

\* A day that the app is opened on, after 06:00, is answered or has its plan in the end, whatever
\* got lost before (the key is written only by an answer, so the next opening asks again).
LastDay == DayOf(MaxTime)
EventuallyAnswered ==
  <>[](now = MaxTime /\ Len(requests) < MaxRequests) =>
    <>(PlannedOn(LastDay) \/ lastDay = LastDay)
=============================================================================
