------------------------- MODULE PlanRequestProofs -------------------------
(***************************************************************************)
(* Proofs about PlanRequest: OncePerDay for any tasks, days, bounds and    *)
(* faults.  The invariant adds to the types what each actor relies on:     *)
(* the device that its key is never behind a day it asked for, and that a  *)
(* request has one lazy caller at most (Asking); the server, while nothing *)
(* was lost, that the one request it works on is the awaited one and has   *)
(* seen every plan of its day (OneAtATime).                                *)
(***************************************************************************)
EXTENDS PlanRequest, FiniteSetTheorems, SequenceTheorems, WellFoundedInduction, TLAPS

Statuses == {"shown", "expired", "done"}
Reasoned == {"arm_a", "learned", "fallback"}
Triggers == Lazy \cup {"manual", "ritual"}
Named == Nat \X Tasks

CallSet == [trigger: Triggers, day: Days, at: Nat]
RunSet == [stage: {"session", "send", "wait"}, day: Days, calls: SUBSET CallSet, request: Nat]
PlanSet == [day: Days, at: Nat, reason: Reasoned, options: SUBSET Tasks]
RecSet == [plan: Nat, task: Tasks, slot: Nat, status: {"shown", "expired"}, fact: BOOLEAN]
RowSet == UNION {[D -> Statuses] : D \in SUBSET Named}
MirrorSet == [plans: SUBSET Nat, rows: RowSet, shown: SUBSET Named]
UiSet == [status: {"idle", "planning", "error", "offline", "no_session", "rate_limited"},
          empty: BOOLEAN]

AnswerSet == [plan: Nat, placed: SUBSET Tasks, unplaced: SUBSET Tasks, expired: SUBSET Named]
Arrived == [stage: {"arrived"}, day: Days]
InHand == [stage: {"read"}, day: Days, at: Nat, tasks: SUBSET Tasks, placeable: SUBSET Tasks,
           supersede: SUBSET Nat]
Refused == [stage: {"answered"}, kind: Kinds \ {"planned"}]
Planned == [stage: {"answered"}, kind: {"planned"}, answer: AnswerSet]
RequestSet == Arrived \cup InHand \cup Refused \cup Planned \cup {Gone}

Clock == now \in Nat /\ now <= MaxTime
TasksTyped == task \in [Tasks -> [status: TaskStatus, from: Days]]
PlansTyped == plans \in Seq(PlanSet) /\ \A p \in DOMAIN plans : plans[p].at <= now
RecsTyped == /\ recs \in SUBSET RecSet
             /\ \A r \in recs : r.plan \in DOMAIN plans
             /\ \A r, s \in recs : Id(r) = Id(s) => r = s
RequestsTyped ==
  /\ requests \in Seq(RequestSet)
  /\ \A q \in DOMAIN requests :
       /\ requests[q] \in InHand => requests[q].at <= now
       /\ requests[q] \in Planned => requests[q].answer.plan \in DOMAIN plans
MirrorTyped ==
  /\ mirror \in MirrorSet
  /\ mirror.plans \subseteq DOMAIN plans /\ mirror.shown \subseteq Ids
  /\ DOMAIN mirror.rows \subseteq Ids /\ facts \subseteq DOMAIN mirror.rows
  /\ decided \subseteq mirror.plans
RunTyped ==
  /\ run \in RunSet \cup {NoRun}
  /\ InFlight => \A c \in run.calls : c.at <= now
  /\ run.stage = "wait" => run.request \in DOMAIN requests /\ requests[run.request] # Gone

\* The types, and the names that stay within what exists.
Typed == /\ Clock /\ TasksTyped /\ PlansTyped /\ RecsTyped /\ RequestsTyped /\ MirrorTyped
         /\ RunTyped /\ ui \in UiSet /\ losses \in 0 .. MaxLosses
-----------------------------------------------------------------------------
(* Time. *)

\* What division and remainder give.
LEMMA DivFacts ==
  ASSUME NEW t \in Nat, NEW D \in Nat \ {0}
  PROVE  t \div D \in Nat /\ t % D \in 0 .. D - 1 /\ t = D * (t \div D) + (t % D)
OBVIOUS

LEMMA DivMono ==
  ASSUME NEW s \in Nat, NEW t \in Nat, NEW D \in Nat \ {0}, s <= t
  PROVE  s \div D <= t \div D
OBVIOUS

LEMMA DivPositive ==
  ASSUME NEW t \in Nat, NEW D \in Nat \ {0}, t > 0, t % D = 0
  PROVE  t \div D >= 1
OBVIOUS

LEMMA DivLe ==
  ASSUME NEW t \in Nat, NEW D \in Nat \ {0}
  PROVE  t \div D <= t
OBVIOUS

LEMMA DivOne ==
  ASSUME NEW t \in Nat, NEW D \in Nat \ {0}, t >= D
  PROVE  t \div D >= 1
OBVIOUS

\* The days of the instants the model reaches.
LEMMA DayFacts ==
  /\ \A t \in Nat : DayOf(t) \in Nat /\ DayOf(t) <= t
  /\ \A s, t \in Nat : s <= t => DayOf(s) <= DayOf(t)
  /\ \A t \in 0 .. MaxTime : /\ DayOf(t) \in Days /\ DayOf(t) + 1 \in Days
                             /\ PlanDayOf(t) \in Days /\ NextPlanDayOf(t) \in Days
                             /\ PlanDayOf(t) <= DayOf(t)
  /\ 0 \in Days /\ 2 \in Days /\ MaxTime \in Nat
<1>1. DayTicks \in Nat \ {0} /\ MaxTime \in Nat /\ MaxTime >= DayTicks
  BY PlanAssumption
<1>2. \A t \in Nat : DayOf(t) \in Nat /\ DayOf(t) <= t
  BY <1>1, DivFacts, DivLe DEF DayOf
<1>3. \A s, t \in Nat : s <= t => DayOf(s) <= DayOf(t)
  BY <1>1, DivMono DEF DayOf
<1>4. DayOf(MaxTime) >= 1 /\ DayOf(MaxTime) \in Nat
  BY <1>1, <1>2, DivOne DEF DayOf
<1>5. ASSUME NEW t \in 0 .. MaxTime
      PROVE  /\ DayOf(t) \in Days /\ DayOf(t) + 1 \in Days
             /\ PlanDayOf(t) \in Days /\ NextPlanDayOf(t) \in Days
             /\ PlanDayOf(t) <= DayOf(t)
  <2>1. DayOf(t) \in Nat /\ DayOf(t) <= DayOf(MaxTime)
    BY <1>1, <1>2, <1>3
  <2>2. Night(t) /\ t > 0 => DayOf(t) >= 1
    BY <1>1, DivPositive DEF Night, DayOf
  <2>3. PlanDayOf(t) \in Nat /\ PlanDayOf(t) <= DayOf(t)
    BY <2>1, <2>2 DEF PlanDayOf
  <2> QED
    BY <1>4, <2>1, <2>3 DEF Days, NextPlanDayOf
<1> QED
  BY <1>1, <1>2, <1>3, <1>4, <1>5 DEF Days
-----------------------------------------------------------------------------
(* Types. *)

LEMMA InitTyped == Init => Typed
<1> SUFFICES ASSUME Init PROVE Typed
  OBVIOUS
<1>1. Clock
  BY PlanAssumption DEF Init, Clock
<1>2. TasksTyped
  <2>1. PICK from \in [Tasks -> {0, 2}] :
          task = [t \in Tasks |-> [status |-> "inbox", from |-> from[t]]]
    BY DEF Init
  <2>2. \A t \in Tasks : [status |-> "inbox", from |-> from[t]] \in [status: TaskStatus, from: Days]
    BY DayFacts DEF TaskStatus
  <2> QED
    BY <2>1, <2>2 DEF TasksTyped
<1>3. PlansTyped /\ RecsTyped /\ RequestsTyped
  BY DEF Init, PlansTyped, RecsTyped, RequestsTyped
<1>4. MirrorTyped
  <2>1. <<>> \in RowSet
    <3>1. <<>> \in [{} -> Statuses]
      OBVIOUS
    <3> QED
      BY <3>1 DEF RowSet
  <2>2. mirror \in MirrorSet
    BY <2>1 DEF Init, MirrorSet
  <2>3. DOMAIN mirror.rows = {}
    BY DEF Init
  <2> QED
    BY <2>2, <2>3 DEF Init, MirrorTyped
<1>5. RunTyped
  BY DEF Init, RunTyped, NoRun, None, InFlight
<1>6. ui \in UiSet /\ losses \in 0 .. MaxLosses
  BY PlanAssumption DEF Init, UiSet
<1> QED
  BY <1>1, <1>2, <1>3, <1>4, <1>5, <1>6 DEF Typed

\* A row set out by a condition on its ids is a row set.
LEMMA RowsMade ==
  ASSUME NEW D \in SUBSET Named, NEW f, f \in [D -> Statuses]
  PROVE  f \in RowSet /\ DOMAIN f = D
BY DEF RowSet

\* What a mirror is made of.
LEMMA MirrorMade ==
  ASSUME NEW m \in MirrorSet
  PROVE  /\ m.plans \in SUBSET Nat /\ m.shown \in SUBSET Named
         /\ DOMAIN m.rows \in SUBSET Named /\ m.rows \in [DOMAIN m.rows -> Statuses]
<1>1. m.rows \in RowSet
  BY DEF MirrorSet
<1>2. PICK D \in SUBSET Named : m.rows \in [D -> Statuses]
  BY <1>1 DEF RowSet
<1> QED
  BY <1>2 DEF MirrorSet

\* What a plan is made of.
LEMMA PlanIs ==
  ASSUME PlansTyped, NEW p \in DOMAIN plans
  PROVE  /\ plans[p].day \in Days /\ plans[p].at \in Nat /\ plans[p].at <= now
         /\ plans[p].options \in SUBSET Tasks
<1>1. plans[p] \in PlanSet
  <2>1. plans \in Seq(PlanSet)
    BY DEF PlansTyped
  <2> QED
    BY <2>1
<1> QED
  BY <1>1 DEF PlansTyped, PlanSet

\* Plans are numbered by naturals, and ids are names.
LEMMA IdsNamed == ASSUME PlansTyped PROVE DOMAIN plans \in SUBSET Nat /\ Ids \in SUBSET Named
<1>1. DOMAIN plans = 1 .. Len(plans) /\ Len(plans) \in Nat
  BY DEF PlansTyped
<1> QED
  BY <1>1 DEF Ids, Named

\* The pages of a pull are a mirror.
LEMMA PulledTyped ==
  ASSUME PlansTyped, RecsTyped, MirrorTyped
  PROVE  /\ Pulled \in MirrorSet
         /\ Pulled.plans = DOMAIN plans /\ Pulled.shown = mirror.shown
         /\ DOMAIN Pulled.rows \subseteq Ids
<1> DEFINE D == {Id(r) : r \in recs}
           rows == [i \in D |-> Overlay(CHOOSE r \in recs : Id(r) = i)]
<1>1. D \in SUBSET Ids
  BY DEF RecsTyped, RecSet, Id, Ids
<1>2. D \in SUBSET Named
  BY <1>1, IdsNamed
<1>3. \A i \in D : Overlay(CHOOSE r \in recs : Id(r) = i) \in Statuses
  <2> TAKE i \in D
  <2> DEFINE c == CHOOSE r \in recs : Id(r) = i
  <2>1. \E r \in recs : Id(r) = i
    OBVIOUS
  <2>2. c \in recs
    BY <2>1
  <2> HIDE DEF c
  <2> QED
    BY <2>2 DEF Overlay, Statuses, RecsTyped, RecSet
<1>4. rows \in [D -> Statuses]
  BY <1>3
<1> HIDE DEF D
<1>5. rows \in RowSet /\ DOMAIN rows = D
  BY <1>2, <1>4, RowsMade
<1>6. Pulled = [mirror EXCEPT !.plans = DOMAIN plans, !.rows = rows]
  BY DEF Pulled, D
<1>7. DOMAIN plans \in SUBSET Nat
  BY IdsNamed
<1> HIDE DEF rows
<1> QED
  BY <1>1, <1>5, <1>6, <1>7 DEF MirrorSet, MirrorTyped

\* A sync leaves rows of the server with their names, and a mirror.
LEMMA SyncTyped ==
  ASSUME PlansTyped, RecsTyped, MirrorTyped, Synced, UNCHANGED <<plans, decided>>
  PROVE  RecsTyped' /\ MirrorTyped'
<1>1. RecsTyped'
  <2> DEFINE up(r) == [r EXCEPT !.fact = @ \/ Id(r) \in facts]
  <2>1. recs' = {up(r) : r \in recs}
    BY DEF Synced
  <2>2. ASSUME NEW r \in recs
        PROVE  up(r) \in RecSet /\ Id(up(r)) = Id(r) /\ up(r).plan = r.plan
    <3>1. r \in RecSet
      BY DEF RecsTyped
    <3>2. (r.fact \/ Id(r) \in facts) \in BOOLEAN
      BY Zenon
    <3> QED
      BY <3>1, <3>2 DEF RecSet, Id
  <2> HIDE DEF up
  <2>3. recs' \in SUBSET RecSet
    BY <2>1, <2>2
  <2>4. \A r \in recs' : r.plan \in DOMAIN plans'
    BY <2>1, <2>2 DEF RecsTyped
  <2>5. \A r, s \in recs' : Id(r) = Id(s) => r = s
    BY <2>1, <2>2 DEF RecsTyped
  <2>6. \A r, s \in recs' : (Id(r) = Id(s) => r = s)'
    BY <2>5 DEF Id
  <2> QED
    BY <2>3, <2>4, <2>6 DEF RecsTyped, Id
<1>2. MirrorTyped'
  <2>1. mirror' = Pulled /\ facts' = {} /\ plans' = plans /\ decided' = decided
    BY DEF Synced
  <2>2. Pulled \in MirrorSet /\ Pulled.plans = DOMAIN plans
        /\ Pulled.shown = mirror.shown /\ DOMAIN Pulled.rows \subseteq Ids
    BY PulledTyped
  <2> QED
    BY <2>1, <2>2 DEF MirrorTyped, Ids
<1> QED
  BY <1>1, <1>2

\* A settled request leaves a status line other than "planning".
LEMMA SettleUi ==
  ASSUME ui \in UiSet, NEW calls, NEW kind \in Kinds, Settle(calls, kind)
  PROVE  ui' \in UiSet /\ ui'.status # "planning"
<1>1. StatusAfter(kind) \in {"idle", "error", "offline", "no_session", "rate_limited"}
  BY DEF StatusAfter, Kinds, Answered
<1>2. (kind = "empty_inbox") \in BOOLEAN
  BY Zenon
<1>3. ui.empty \in BOOLEAN
  BY DEF UiSet
<1> DEFINE empty == IF kind \in {"planned", "empty_inbox", "no_working_window"}
                    THEN kind = "empty_inbox" ELSE ui.empty
<1>4. empty \in BOOLEAN
  BY <1>2, <1>3, Zenon
<1>5. ui' = [status |-> StatusAfter(kind), empty |-> empty]
  BY DEF Settle, UiAfter
<1> HIDE DEF empty
<1> QED
  BY <1>1, <1>4, <1>5 DEF UiSet

\* A request under way is not the marker of none.
LEMMA RunStages == /\ NoRun \notin RunSet /\ NoRun.stage = "none"
                   /\ \A r \in RunSet : r # NoRun
BY DEF NoRun, RunSet, None

\* A caller that joins or starts a request.
LEMMA RequestPlanTyped ==
  ASSUME Clock, RunTyped, NEW call \in CallSet, call.at <= now, RequestPlan(call),
         UNCHANGED <<now, requests>>
  PROVE  RunTyped' /\ run' \in RunSet
<1>1. CASE InFlight
  <2>1. run \in RunSet /\ run' = [run EXCEPT !.calls = @ \cup {call}]
    BY <1>1 DEF RequestPlan, RunTyped, InFlight
  <2>2. run' \in RunSet /\ run'.calls = run.calls \cup {call} /\ run'.stage = run.stage
        /\ run'.request = run.request
    BY <2>1 DEF RunSet
  <2>3. \A c \in run.calls : c.at <= now
    BY <1>1 DEF RunTyped
  <2> QED
    BY <2>2, <2>3 DEF RunTyped, InFlight
<1>2. CASE ~InFlight
  <2>1. run' = [stage |-> "session", day |-> call.day, calls |-> {call}, request |-> 0]
    BY <1>2 DEF RequestPlan
  <2>2. run' \in RunSet
    BY <2>1 DEF RunSet, CallSet
  <2> QED
    BY <2>1, <2>2 DEF RunTyped, InFlight
<1> QED
  BY <1>1, <1>2

\* runPlanRequest: the request or the refusal without one.
LEMMA AskTyped ==
  ASSUME Typed, NEW trigger \in Triggers, NEW day \in Days, RunPlanRequest(trigger, day)
  PROVE  RunTyped' /\ ui' \in UiSet
<1> DEFINE call == [trigger |-> trigger, day |-> day, at |-> now]
<1>1. call \in CallSet /\ call.at <= now
  BY DEF CallSet, Typed, Clock
<1>2. UNCHANGED <<now, requests>>
  BY DEF RunPlanRequest
<1>3. CASE trigger # "manual" /\ ~HasWorkingWindow(day)
  <2>1. Settle({call}, "no_working_window") /\ UNCHANGED run
    BY <1>3 DEF RunPlanRequest
  <2>2. "no_working_window" \in Kinds
    BY DEF Kinds, Answered
  <2>3. ui' \in UiSet
    BY <2>1, <2>2, SettleUi DEF Typed
  <2> QED
    BY <1>2, <2>1, <2>3 DEF Typed, RunTyped, InFlight
<1>4. CASE ~(trigger # "manual" /\ ~HasWorkingWindow(day))
  <2>1. ui' = [ui EXCEPT !.status = "planning"] /\ RequestPlan(call)
    BY <1>4 DEF RunPlanRequest
  <2>2. ui' \in UiSet
    BY <2>1 DEF UiSet, Typed
  <2> HIDE DEF call
  <2> QED
    BY <1>1, <1>2, <2>1, <2>2, RequestPlanTyped DEF Typed
<1> QED
  BY <1>3, <1>4

\* Where a handler's answer goes: to the device that waits, or nowhere.
LEMMA AdvanceTyped ==
  ASSUME Typed, NEW q \in DOMAIN requests, NEW with \in RequestSet, Advance(q, with),
         with = Gone => ~Awaited(q), UNCHANGED <<now, run>>,
         DOMAIN plans \subseteq DOMAIN plans',
         with \in InHand => with.at <= now,
         with \in Planned => with.answer.plan \in DOMAIN plans'
  PROVE  RequestsTyped' /\ RunTyped'
<1>1. requests \in Seq(RequestSet) /\ requests' = [requests EXCEPT ![q] = with]
  BY DEF Typed, RequestsTyped, Advance
<1>2. /\ requests' \in Seq(RequestSet) /\ DOMAIN requests' = DOMAIN requests
      /\ \A i \in DOMAIN requests' : requests'[i] = IF i = q THEN with ELSE requests[i]
  BY <1>1
<1>3. RequestsTyped'
  <2>1. \A i \in DOMAIN requests' : requests'[i] \in InHand => requests'[i].at <= now
    BY <1>2 DEF Typed, RequestsTyped
  <2>2. \A i \in DOMAIN requests' :
          requests'[i] \in Planned => requests'[i].answer.plan \in DOMAIN plans'
    BY <1>2 DEF Typed, RequestsTyped
  <2> QED
    BY <1>2, <2>1, <2>2 DEF RequestsTyped
<1>4. RunTyped'
  BY <1>2 DEF Typed, RunTyped, Awaited, InFlight
<1> QED
  BY <1>3, <1>4

LEMMA ReplyTyped ==
  ASSUME Typed, NEW q \in DOMAIN requests, NEW with \in RequestSet, Reply(q, with), with # Gone,
         UNCHANGED <<now, run>>, DOMAIN plans \subseteq DOMAIN plans', with \notin InHand,
         with \in Planned => with.answer.plan \in DOMAIN plans'
  PROVE  RequestsTyped' /\ RunTyped'
<1>1. Gone \in RequestSet /\ Gone \notin InHand /\ Gone \notin Planned
  BY DEF RequestSet, Gone, InHand, Planned
<1>2. CASE Awaited(q)
  BY <1>2, AdvanceTyped DEF Reply
<1>3. CASE ~Awaited(q)
  <2>1. Advance(q, Gone)
    BY <1>3 DEF Reply
  <2> QED
    BY <1>1, <1>3, <2>1, AdvanceTyped
<1> QED
  BY <1>2, <1>3

\* The answer of a request that got no plan.
LEMMA RefusedTyped ==
  ASSUME Typed, NEW q \in DOMAIN requests, NEW kind \in Kinds \ {"planned"}, Answer(q, kind),
         UNCHANGED <<now, run, plans>>
  PROVE  RequestsTyped' /\ RunTyped'
<1> DEFINE with == [stage |-> "answered", kind |-> kind]
<1>1. with \in Refused /\ with \notin InHand /\ with \notin Planned /\ with # Gone
  BY DEF Refused, InHand, Planned, Gone
<1>2. with \in RequestSet
  BY <1>1 DEF RequestSet
<1>3. Reply(q, with)
  BY DEF Answer
<1> HIDE DEF with
<1> QED
  BY <1>1, <1>2, <1>3, ReplyTyped

\* A request that nobody hears about any more is gone or still in hand.
LEMMA UnheardTyped ==
  ASSUME Typed, requests' = Unheard, run' = NoRun, UNCHANGED <<now, plans>>
  PROVE  RequestsTyped' /\ RunTyped'
<1>1. requests \in Seq(RequestSet)
  BY DEF Typed, RequestsTyped
<1>2. Gone \in RequestSet /\ Gone \notin InHand /\ Gone \notin Planned
  BY DEF RequestSet, Gone, InHand, Planned
<1>3. \A q \in DOMAIN requests :
        (IF requests[q].stage = "answered" THEN Gone ELSE requests[q]) \in RequestSet
  BY <1>1, <1>2
<1>4. DOMAIN requests = 1 .. Len(requests) /\ Len(requests) \in Nat
  BY <1>1
<1>5. /\ DOMAIN requests' = DOMAIN requests
      /\ \A q \in DOMAIN requests' : requests'[q] = requests[q] \/ requests'[q] = Gone
  BY DEF Unheard
<1>6. requests' \in Seq(RequestSet)
  BY <1>3, <1>4, IsASeq DEF Unheard
<1>7. RequestsTyped'
  <2>1. \A i \in DOMAIN requests' : requests'[i] \in InHand => requests'[i].at <= now
    BY <1>2, <1>5 DEF Typed, RequestsTyped
  <2>2. \A i \in DOMAIN requests' :
          requests'[i] \in Planned => requests'[i].answer.plan \in DOMAIN plans'
    BY <1>2, <1>5 DEF Typed, RequestsTyped
  <2> QED
    BY <1>6, <2>1, <2>2 DEF RequestsTyped
<1>8. RunTyped'
  BY RunStages DEF RunTyped, InFlight
<1> QED
  BY <1>7, <1>8

\* The stages of a request tell its kind.
LEMMA RequestKinds ==
  ASSUME NEW r \in RequestSet
  PROVE  /\ r.stage = "arrived" => r \in Arrived
         /\ r.stage = "read" => r \in InHand
         /\ r.stage = "answered" => r \in Refused \cup Planned
         /\ r.stage = "answered" /\ r.kind = "planned" => r \in Planned
         /\ r.stage = "answered" => r.kind \in Kinds
         /\ r.stage \in {"arrived", "read", "answered", "gone"}
         /\ r.stage = "gone" => r = Gone
<1>1. r \in Arrived \/ r \in InHand \/ r \in Refused \/ r \in Planned \/ r = Gone
  BY DEF RequestSet
<1>2. CASE r \in Arrived
  BY <1>2 DEF Arrived
<1>3. CASE r \in InHand
  BY <1>3 DEF InHand
<1>4. CASE r \in Refused
  BY <1>4 DEF Refused
<1>5. CASE r \in Planned
  BY <1>5 DEF Planned, Kinds, Answered
<1>6. CASE r = Gone
  BY <1>6 DEF Gone
<1> QED
  BY <1>1, <1>2, <1>3, <1>4, <1>5, <1>6

\* What the answer makes of the mirror and of the tasks.
LEMMA ApplyTyped ==
  ASSUME Typed, NEW answer \in AnswerSet, answer.plan \in DOMAIN plans, Apply(answer),
         UNCHANGED <<plans, facts, decided>>
  PROVE  MirrorTyped' /\ TasksTyped'
<1> DEFINE p == answer.plan
           new == {<<p, t>> : t \in answer.placed}
           D == DOMAIN mirror.rows \cup new
           row(i) == IF i[1] = p THEN "shown"
                     ELSE IF i \in answer.expired /\ mirror.rows[i] = "shown"
                          THEN "expired" ELSE mirror.rows[i]
           rows == [i \in D |-> row(i)]
<1>1. CASE p \in mirror.plans
  BY <1>1 DEF Apply, Typed, MirrorTyped, TasksTyped, Ids
<1>2. CASE p \notin mirror.plans
  <2>1. /\ mirror' = [plans |-> mirror.plans \cup {p}, rows |-> rows,
                      shown |-> mirror.shown \cup new]
        /\ task' = [t \in Tasks |-> IF task[t].status \in {"inbox", "scheduled"}
                                    THEN [task[t] EXCEPT !.status = StatusIn(answer, t)]
                                    ELSE task[t]]
    BY <1>2 DEF Apply
  <2>2. /\ mirror.plans \in SUBSET Nat /\ mirror.shown \in SUBSET Named
        /\ DOMAIN mirror.rows \in SUBSET Named /\ mirror.rows \in [DOMAIN mirror.rows -> Statuses]
    BY MirrorMade DEF Typed, MirrorTyped
  <2>3. answer.placed \in SUBSET Tasks /\ p \in Nat
    BY DEF AnswerSet
  <2>4. new \subseteq Ids /\ new \subseteq Named
    BY <2>3 DEF Ids, Named
  <2>5. \A i \in new : i[1] = p
    OBVIOUS
  <2>6. \A i \in D : row(i) \in Statuses
    <3> TAKE i \in D
    <3>1. i \in DOMAIN mirror.rows \/ i[1] = p
      BY <2>5
    <3> QED
      BY <2>2, <3>1 DEF Statuses
  <2>7. rows \in [D -> Statuses]
    BY <2>6
  <2> HIDE DEF new, row
  <2>8. D \in SUBSET Named /\ D \subseteq Ids
    BY <2>2, <2>4 DEF Typed, MirrorTyped
  <2>9. rows \in RowSet /\ DOMAIN rows = D
    BY <2>7, <2>8, RowsMade
  <2> HIDE DEF rows
  <2>10. /\ mirror'.plans = mirror.plans \cup {p} /\ mirror'.rows = rows
         /\ mirror'.shown = mirror.shown \cup new
    BY <2>1
  <2>11. mirror' \in MirrorSet
    BY <2>1, <2>2, <2>3, <2>4, <2>9 DEF MirrorSet
  <2>12. MirrorTyped'
    <3>1. mirror'.plans \subseteq DOMAIN plans /\ mirror'.shown \subseteq Ids
      BY <2>4, <2>10 DEF Typed, MirrorTyped
    <3>2. DOMAIN mirror'.rows \subseteq Ids /\ facts \subseteq DOMAIN mirror'.rows
      BY <2>8, <2>9, <2>10 DEF Typed, MirrorTyped
    <3>3. decided \subseteq mirror'.plans
      BY <2>10 DEF Typed, MirrorTyped
    <3> QED
      BY <2>11, <3>1, <3>2, <3>3 DEF MirrorTyped, Ids
  <2>13. TasksTyped'
    <3>1. \A t \in Tasks : task[t] \in [status: TaskStatus, from: Days]
      BY DEF Typed, TasksTyped
    <3>2. \A t \in Tasks : StatusIn(answer, t) \in TaskStatus
      BY <3>1 DEF StatusIn, TaskStatus
    <3>3. \A t \in Tasks : [task[t] EXCEPT !.status = StatusIn(answer, t)]
                             \in [status: TaskStatus, from: Days]
      BY <3>1, <3>2
    <3> QED
      BY <2>1, <3>1, <3>3 DEF TasksTyped
  <2> QED
    BY <2>12, <2>13
<1> QED
  BY <1>1, <1>2

\* The kinds of an outcome.
LEMMA KindFacts ==
  /\ {"offline", "no_session", "failed", "profile_missing", "rate_limited", "no_working_window",
      "empty_inbox", "planned"} = Kinds
  /\ \A day : Refusal(day) \in (Kinds \ {"planned"}) \cup {None}
BY DEF Kinds, Answered, Refusal, None

\* The slots of a day are instants.
LEMMA SlotsTyped ==
  ASSUME NEW req \in InHand
  PROVE  Slots(req) \in SUBSET Nat
<1>1. req.day \in Nat /\ DayTicks \in Nat
  BY PlanAssumption DEF InHand, Days
<1>2. req.day * DayTicks + 1 \in Nat
  BY <1>1
<1> QED
  BY <1>2 DEF Slots

\* persist_plan in one transaction: a plan, its rows, the expiries, the answer.
LEMMA PersistTyped ==
  ASSUME Typed, NEW q \in DOMAIN requests, Persist(q)
  PROVE  PlansTyped' /\ RecsTyped' /\ RequestsTyped' /\ RunTyped' /\ MirrorTyped'
<1> DEFINE req == requests[q]
           p == Len(plans) + 1
           gone == {r \in recs : Superseded(r, req.supersede)}
<1>1. req.stage = "read" /\ UNCHANGED <<now, mirror, facts, run, decided>>
  BY DEF Persist
<1>2. PICK placed \in SUBSET req.placeable :
      \E slot \in [placed -> Slots(req)], options \in {{}, req.tasks \ placed}, reason \in Reasons :
        /\ plans' = Append(plans, [day |-> req.day, at |-> req.at, reason |-> reason,
                                   options |-> options])
        /\ recs' = (recs \ gone) \cup {[r EXCEPT !.status = "expired"] : r \in gone}
                     \cup Inserted(p, slot)
        /\ Reply(q, [stage |-> "answered", kind |-> "planned",
                     answer |-> [plan |-> p, placed |-> placed, unplaced |-> req.tasks \ placed,
                                 expired |-> {Id(r) : r \in gone}]])
  BY Zenon DEF Persist
<1>3. PICK slot \in [placed -> Slots(req)], options \in {{}, req.tasks \ placed}, reason \in Reasons :
        /\ plans' = Append(plans, [day |-> req.day, at |-> req.at, reason |-> reason,
                                   options |-> options])
        /\ recs' = (recs \ gone) \cup {[r EXCEPT !.status = "expired"] : r \in gone}
                     \cup Inserted(p, slot)
        /\ Reply(q, [stage |-> "answered", kind |-> "planned",
                     answer |-> [plan |-> p, placed |-> placed, unplaced |-> req.tasks \ placed,
                                 expired |-> {Id(r) : r \in gone}]])
  BY <1>2, Zenon
<1>4. req \in InHand /\ req.at <= now
  <2>1. req \in RequestSet
    BY DEF Typed, RequestsTyped
  <2>2. req \in InHand
    BY <1>1, <2>1, RequestKinds
  <2> QED
    BY <2>2 DEF Typed, RequestsTyped
<1>5. /\ req.day \in Days /\ req.at \in Nat /\ req.tasks \in SUBSET Tasks
      /\ placed \in SUBSET Tasks /\ slot \in [placed -> Nat]
  BY <1>4, SlotsTyped DEF InHand
<1>6. plans \in Seq(PlanSet) /\ p \in Nat /\ DOMAIN plans = 1 .. Len(plans) /\ Len(plans) \in Nat
  BY DEF Typed, PlansTyped
<1> HIDE DEF req, gone
<1>7. PlansTyped' /\ DOMAIN plans' = DOMAIN plans \cup {p}
  <2> DEFINE plan == [day |-> req.day, at |-> req.at, reason |-> reason, options |-> options]
  <2>1. Reasons \subseteq Reasoned
    BY DEF Reasons, Reasoned, CallService
  <2>2. plan \in PlanSet /\ plan.at <= now
    BY <1>3, <1>4, <1>5, <2>1 DEF PlanSet
  <2>3. plans' = Append(plans, plan)
    BY <1>3
  <2> HIDE DEF plan
  <2>4. /\ plans' \in Seq(PlanSet) /\ DOMAIN plans' = DOMAIN plans \cup {p}
        /\ \A i \in DOMAIN plans' : plans'[i] = IF i = p THEN plan ELSE plans[i]
    BY <1>6, <2>2, <2>3
  <2> QED
    BY <1>1, <2>2, <2>4 DEF Typed, PlansTyped
<1>8. gone \subseteq recs /\ recs \in SUBSET RecSet
  BY DEF gone, Typed, RecsTyped
<1>9. RecsTyped'
  <2> DEFINE dead(r) == [r EXCEPT !.status = "expired"]
             born == Inserted(p, slot)
  <2>1. recs' = (recs \ gone) \cup {dead(r) : r \in gone} \cup born
    BY <1>3
  <2>2. ASSUME NEW r \in recs
        PROVE  dead(r) \in RecSet /\ Id(dead(r)) = Id(r) /\ dead(r).plan = r.plan
    BY <1>8 DEF RecSet, Id
  <2>3. ASSUME NEW r \in born
        PROVE  r \in RecSet /\ r.plan = p /\ Id(r) = <<p, r.task>>
               /\ \A s \in born : Id(r) = Id(s) => r = s
    <3>1. DOMAIN slot = placed
      BY <1>5
    <3>2. \A s \in born : s \in RecSet /\ s.plan = p
            /\ s = [plan |-> p, task |-> s.task, slot |-> slot[s.task], status |-> "shown",
                    fact |-> FALSE]
      <4> TAKE s \in born
      <4>1. PICK t \in placed : s = [plan |-> p, task |-> t, slot |-> slot[t], status |-> "shown",
                                    fact |-> FALSE]
        BY <3>1 DEF Inserted
      <4>2. p \in Nat /\ t \in Tasks /\ slot[t] \in Nat
        BY <1>5, <1>6
      <4> HIDE DEF p
      <4>3. s \in RecSet
        BY <4>1, <4>2 DEF RecSet
      <4> QED
        BY <4>1, <4>3
    <3>3. \A s \in born : Id(s) = <<p, s.task>>
      BY <3>2 DEF Id
    <3>4. \A s \in born : Id(r) = Id(s) => r.task = s.task
      BY <3>3
    <3>5. \A s \in born : r.task = s.task => r = s
      BY <3>2
    <3> QED
      BY <3>2, <3>3, <3>4, <3>5
  <2> HIDE DEF dead, born
  <2>4. recs' \in SUBSET RecSet
    BY <1>8, <2>1, <2>2, <2>3
  <2>5. \A r \in recs' : r.plan \in DOMAIN plans'
    BY <1>7, <1>8, <2>1, <2>2, <2>3 DEF Typed, RecsTyped
  <2>6. \A r \in recs : r.plan # p
    BY <1>6 DEF Typed, RecsTyped
  <2>7. \A r \in recs, s \in born : Id(r) # Id(s)
    BY <2>3, <2>6 DEF Id
  <2>8. \A r, s \in recs : Id(r) = Id(s) => r = s
    BY DEF Typed, RecsTyped
  <2>9. ASSUME NEW r \in recs', NEW s \in recs', Id(r) = Id(s) PROVE r = s
    <3> DEFINE Old(x) == \E o \in recs : /\ Id(x) = Id(o)
                                         /\ x = IF o \in gone THEN dead(o) ELSE o
    <3>1. \A x \in recs' : x \in born \/ Old(x)
      BY <1>8, <2>1, <2>2
    <3>2. CASE r \in born /\ s \in born
      BY <2>3, <2>9, <3>2
    <3>3. CASE Old(r) /\ Old(s)
      BY <2>8, <2>9, <3>3
    <3>4. CASE Old(r) /\ s \in born
      BY <2>7, <2>9, <3>4
    <3>5. CASE r \in born /\ Old(s)
      BY <2>7, <2>9, <3>5
    <3> QED
      BY <3>1, <3>2, <3>3, <3>4, <3>5
  <2> QED
    BY <2>4, <2>5, <2>9 DEF RecsTyped, Id
<1>10. RequestsTyped' /\ RunTyped'
  <2> DEFINE answer == [plan |-> p, placed |-> placed, unplaced |-> req.tasks \ placed,
                        expired |-> {Id(r) : r \in gone}]
             with == [stage |-> "answered", kind |-> "planned", answer |-> answer]
  <2>1. {Id(r) : r \in gone} \in SUBSET Named
    BY <1>8 DEF Id, RecSet, Named
  <2>2. answer \in AnswerSet /\ answer.plan = p
    BY <1>5, <1>6, <2>1 DEF AnswerSet
  <2>3. Reply(q, with)
    BY <1>3
  <2> HIDE DEF answer
  <2>4. with \in Planned /\ with \notin InHand /\ with # Gone /\ with.answer = answer
    BY <2>2 DEF Planned, InHand, Gone
  <2>5. with \in RequestSet
    BY <2>4 DEF RequestSet
  <2> HIDE DEF with
  <2>6. DOMAIN plans \subseteq DOMAIN plans' /\ p \in DOMAIN plans'
    BY <1>7
  <2> QED
    BY <1>1, <2>2, <2>3, <2>4, <2>5, <2>6, ReplyTyped
<1>11. MirrorTyped'
  <2>1. DOMAIN plans \subseteq DOMAIN plans'
    BY <1>7
  <2>2. Ids \subseteq Ids'
    BY <2>1 DEF Ids
  <2> HIDE DEF p
  <2> QED
    BY <1>1, <2>1, <2>2 DEF Typed, MirrorTyped
<1> QED
  BY <1>7, <1>9, <1>10, <1>11

\* runPlanRequest leaves everything but the request, the status line and the key alone.
LEMMA AskStep ==
  ASSUME Typed, NEW trigger \in Triggers, NEW day \in Days, RunPlanRequest(trigger, day),
         UNCHANGED decided
  PROVE  Typed'
<1>1. RunTyped' /\ ui' \in UiSet
  BY AskTyped
<1>2. UNCHANGED <<now, task, plans, recs, server, requests, mirror, facts, losses>>
  BY DEF RunPlanRequest
<1> QED
  BY <1>1, <1>2 DEF Typed, Clock, TasksTyped, PlansTyped, RecsTyped, RequestsTyped, MirrorTyped, Ids, Id

\* A request that ends leaves no run and an honest status line.
LEMMA FinishUi ==
  ASSUME Typed, NEW kind \in Kinds, Finish(kind)
  PROVE  run' = NoRun /\ ui' \in UiSet /\ ui'.status # "planning"
BY SettleUi DEF Finish, Typed

\* No step leaves the types.
LEMMA TypedStep == Typed /\ [Next]_vars => Typed'
<1> SUFFICES ASSUME Typed, [Next]_vars PROVE Typed'
  OBVIOUS
<1> USE DEF Lazy
<1>0. /\ Clock /\ TasksTyped /\ PlansTyped /\ RecsTyped /\ RequestsTyped /\ MirrorTyped
      /\ RunTyped /\ ui \in UiSet /\ losses \in 0 .. MaxLosses /\ MaxLosses \in Nat
  BY PlanAssumption DEF Typed
<1>1. CASE Check
  <2>1. DayOf(now) \in Days
    BY <1>0, DayFacts DEF Clock
  <2>2. (IF mirror.plans = {} THEN "first_open" ELSE "new_day") \in Triggers
    BY DEF Triggers
  <2> QED
    BY <1>1, <2>1, <2>2, AskStep DEF Check
<1>2. CASE Manual
  <2>1. DayOf(now) \in Days
    BY <1>0, DayFacts DEF Clock
  <2> QED
    BY <1>2, <2>1, AskStep DEF Manual, Triggers
<1>3. CASE RitualTapped
  <2>1. PICK at \in 0 .. now : RunPlanRequest("ritual", NextPlanDayOf(at)) /\ UNCHANGED decided
    BY <1>3 DEF RitualTapped
  <2>2. NextPlanDayOf(at) \in Days
    BY <1>0, DayFacts DEF Clock
  <2> QED
    BY <2>1, <2>2, AskStep DEF Triggers
<1>4. CASE RitualCard
  <2>1. NextPlanDayOf(now) \in Days
    BY <1>0, DayFacts DEF Clock
  <2> QED
    BY <1>4, <2>1, AskStep DEF RitualCard, Triggers
<1>5. CASE DropOption
  <2>1. PICK p \in mirror.plans : \E t \in plans[p].options :
          /\ decided' = decided \cup {p}
          /\ task' = [task EXCEPT ![t].from = DayOf(now) + 1,
                                  ![t].status = IF @ = "scheduled" THEN "inbox" ELSE @]
    BY <1>5 DEF DropOption
  <2>2. PICK t \in plans[p].options :
          /\ decided' = decided \cup {p}
          /\ task' = [task EXCEPT ![t].from = DayOf(now) + 1,
                                  ![t].status = IF @ = "scheduled" THEN "inbox" ELSE @]
    BY <2>1
  <2>3. /\ ui' = [ui EXCEPT !.status = "planning"]
        /\ RequestPlan([trigger |-> "manual", day |-> DayOf(now), at |-> now])
        /\ UNCHANGED <<now, plans, recs, server, requests, mirror, facts, lastDay, losses, asked>>
    BY <1>5 DEF DropOption
  <2>4. DayOf(now) \in Days /\ DayOf(now) + 1 \in Days
    BY <1>0, DayFacts DEF Clock
  <2>5. p \in DOMAIN plans /\ t \in Tasks
    BY <1>0, PlanIs DEF MirrorTyped
  <2>6. TasksTyped'
    <3> DEFINE old == task[t]
               next == [old EXCEPT !.from = DayOf(now) + 1,
                                   !.status = IF @ = "scheduled" THEN "inbox" ELSE @]
    <3>1. old \in [status: TaskStatus, from: Days]
      BY <1>0, <2>5 DEF TasksTyped
    <3>2. task' = [task EXCEPT ![t] = next]
      BY <1>0, <2>2, <2>5 DEF TasksTyped
    <3> HIDE DEF old
    <3>3. (IF old.status = "scheduled" THEN "inbox" ELSE old.status) \in TaskStatus
      BY <3>1 DEF TaskStatus
    <3>4. next \in [status: TaskStatus, from: Days]
      BY <2>4, <3>1, <3>3
    <3> HIDE DEF next
    <3> QED
      BY <1>0, <2>5, <3>2, <3>4 DEF TasksTyped
  <2>7. RunTyped'
    <3> DEFINE call == [trigger |-> "manual", day |-> DayOf(now), at |-> now]
    <3>1. call \in CallSet /\ call.at <= now
      BY <1>0, <2>4 DEF CallSet, Triggers, Clock
    <3>2. RequestPlan(call)
      BY <2>3
    <3> HIDE DEF call
    <3> QED
      BY <1>0, <2>3, <3>1, <3>2, RequestPlanTyped
  <2>8. ui' \in UiSet
    BY <1>0, <2>3 DEF UiSet
  <2>9. MirrorTyped'
    BY <1>0, <2>2, <2>3 DEF MirrorTyped, Ids
  <2> QED
    BY <1>0, <2>3, <2>6, <2>7, <2>8, <2>9
       DEF Typed, Clock, PlansTyped, RecsTyped, RequestsTyped, Id
<1>6. CASE RejectOptions
  <2>1. PICK p \in mirror.plans : decided' = decided \cup {p}
    BY <1>6 DEF RejectOptions
  <2>2. UNCHANGED <<now, task, plans, recs, server, requests, mirror, facts, run, ui, lastDay,
                    losses, asked>>
    BY <1>6 DEF RejectOptions
  <2> QED
    BY <1>0, <2>1, <2>2 DEF Typed, Clock, TasksTyped, PlansTyped, RecsTyped, RequestsTyped,
                            MirrorTyped, Ids, Id, RunTyped, InFlight
<1>7. CASE Complete
  <2>1. PICK i \in DOMAIN mirror.rows :
          /\ mirror' = [mirror EXCEPT !.rows[i] = "done"]
          /\ task' = [task EXCEPT ![i[2]].status = "done"]
          /\ facts' = facts \cup {i}
    BY <1>7 DEF Complete
  <2>2. UNCHANGED <<now, plans, recs, server, requests, run, ui, lastDay, decided, losses, asked>>
    BY <1>7 DEF Complete
  <2>3. i \in Ids /\ i[2] \in Tasks
    BY <1>0 DEF MirrorTyped, Ids
  <2>4. TasksTyped'
    <3>1. task[i[2]] \in [status: TaskStatus, from: Days]
      BY <1>0, <2>3 DEF TasksTyped
    <3>2. [task[i[2]] EXCEPT !.status = "done"] \in [status: TaskStatus, from: Days]
      BY <3>1 DEF TaskStatus
    <3> QED
      BY <1>0, <2>1, <2>3, <3>2 DEF TasksTyped
  <2>5. MirrorTyped'
    <3> DEFINE rows == [mirror.rows EXCEPT ![i] = "done"]
    <3>1. /\ mirror.plans \in SUBSET Nat /\ mirror.shown \in SUBSET Named
          /\ DOMAIN mirror.rows \in SUBSET Named
          /\ mirror.rows \in [DOMAIN mirror.rows -> Statuses]
      BY <1>0, MirrorMade DEF MirrorTyped
    <3>2. rows \in [DOMAIN mirror.rows -> Statuses]
      BY <3>1 DEF Statuses
    <3>3. rows \in RowSet /\ DOMAIN rows = DOMAIN mirror.rows
      BY <3>1, <3>2, RowsMade
    <3>4. mirror' = [mirror EXCEPT !.rows = rows]
      BY <2>1
    <3> HIDE DEF rows
    <3>5. /\ mirror' \in MirrorSet /\ mirror'.rows = rows /\ mirror'.plans = mirror.plans
          /\ mirror'.shown = mirror.shown
      BY <1>0, <3>3, <3>4 DEF MirrorSet, MirrorTyped
    <3> QED
      BY <1>0, <2>1, <2>2, <3>3, <3>5 DEF MirrorTyped, Ids
  <2> QED
    BY <1>0, <2>2, <2>4, <2>5 DEF Typed, Clock, PlansTyped, RecsTyped, RequestsTyped, Id, RunTyped,
                                  InFlight
<1>8. CASE Poll
  <2>1. Synced /\ UNCHANGED <<now, task, plans, requests, run, ui, lastDay, decided, losses, asked>>
    BY <1>8 DEF Poll
  <2>2. RecsTyped' /\ MirrorTyped'
    BY <1>0, <2>1, SyncTyped
  <2> QED
    BY <1>0, <2>1, <2>2 DEF Typed, Clock, TasksTyped, PlansTyped, RequestsTyped, RunTyped, InFlight
<1>9. CASE NoSession
  <2>1. PICK kind \in {"offline", "no_session"} : Finish(kind)
    BY <1>9 DEF NoSession
  <2>2. run' = NoRun /\ ui' \in UiSet
    BY <2>1, FinishUi, KindFacts
  <2>3. /\ losses' \in 0 .. MaxLosses
        /\ UNCHANGED <<now, task, plans, recs, server, requests, mirror, facts, decided>>
    BY <1>0, <1>9 DEF NoSession
  <2>4. RunTyped'
    BY <2>2, RunStages DEF RunTyped, InFlight
  <2> QED
    BY <1>0, <2>2, <2>3, <2>4 DEF Typed, Clock, TasksTyped, PlansTyped, RecsTyped, RequestsTyped,
                                  MirrorTyped, Ids, Id
<1>10. CASE PreSync
  <2>1. /\ run.stage = "session" /\ run' = [run EXCEPT !.stage = "send"] /\ Synced
        /\ UNCHANGED <<now, task, plans, requests, ui, lastDay, decided, losses, asked>>
    BY <1>10 DEF PreSync
  <2>2. RecsTyped' /\ MirrorTyped'
    BY <1>0, <2>1, SyncTyped
  <2>3. run \in RunSet
    BY <1>0, <2>1, RunStages DEF RunTyped
  <2>4. run' \in RunSet /\ run'.stage = "send" /\ run'.calls = run.calls
    BY <2>1, <2>3 DEF RunSet
  <2>5. RunTyped'
    BY <1>0, <2>1, <2>3, <2>4, RunStages DEF RunTyped, InFlight
  <2> QED
    BY <1>0, <2>1, <2>2, <2>5 DEF Typed, Clock, TasksTyped, PlansTyped, RequestsTyped
<1>11. CASE PreSyncFails
  <2>1. /\ run.stage = "session" /\ run' = [run EXCEPT !.stage = "send"]
        /\ losses' \in 0 .. MaxLosses
        /\ UNCHANGED <<now, task, plans, recs, server, requests, mirror, facts, ui, lastDay,
                       decided, asked>>
    BY <1>0, <1>11 DEF PreSyncFails
  <2>2. run \in RunSet
    BY <1>0, <2>1, RunStages DEF RunTyped
  <2>3. run' \in RunSet /\ run'.stage = "send" /\ run'.calls = run.calls
    BY <2>1, <2>2 DEF RunSet
  <2>4. RunTyped'
    BY <1>0, <2>1, <2>2, <2>3, RunStages DEF RunTyped, InFlight
  <2> QED
    BY <1>0, <2>1, <2>4 DEF Typed, Clock, TasksTyped, PlansTyped, RecsTyped, RequestsTyped,
                            MirrorTyped, Ids, Id
<1>12. CASE Send
  <2> DEFINE new == [stage |-> "arrived", day |-> run.day]
             q == Len(requests) + 1
  <2>1. /\ run.stage = "send" /\ requests' = Append(requests, new)
        /\ run' = [run EXCEPT !.stage = "wait", !.request = q]
        /\ UNCHANGED <<now, task, plans, recs, server, mirror, facts, ui, lastDay, decided,
                       losses, asked>>
    BY <1>12 DEF Send
  <2>2. run \in RunSet
    BY <1>0, <2>1, RunStages DEF RunTyped
  <2>3. new \in Arrived /\ new \notin InHand /\ new \notin Planned /\ new # Gone
    BY <2>2 DEF RunSet, Arrived, InHand, Planned, Gone
  <2>4. new \in RequestSet
    BY <2>3 DEF RequestSet
  <2> HIDE DEF new
  <2>5. /\ requests' \in Seq(RequestSet) /\ DOMAIN requests' = DOMAIN requests \cup {q} /\ q \in Nat
        /\ \A i \in DOMAIN requests' : requests'[i] = IF i = q THEN new ELSE requests[i]
    BY <1>0, <2>1, <2>4 DEF RequestsTyped
  <2> HIDE DEF q
  <2>6. RequestsTyped'
    <3>1. \A i \in DOMAIN requests' : requests'[i] \in InHand => requests'[i].at <= now
      BY <1>0, <2>3, <2>5 DEF RequestsTyped
    <3>2. \A i \in DOMAIN requests' :
            requests'[i] \in Planned => requests'[i].answer.plan \in DOMAIN plans
      BY <1>0, <2>3, <2>5 DEF RequestsTyped
    <3> QED
      BY <2>1, <2>5, <3>1, <3>2 DEF RequestsTyped
  <2>7. run' \in RunSet /\ run'.stage = "wait" /\ run'.calls = run.calls /\ run'.request = q
    BY <2>1, <2>2, <2>5 DEF RunSet
  <2>8. RunTyped'
    BY <1>0, <2>1, <2>2, <2>3, <2>5, <2>7, RunStages DEF RunTyped, InFlight
  <2> QED
    BY <1>0, <2>1, <2>6, <2>8 DEF Typed, Clock, TasksTyped, PlansTyped, RecsTyped, MirrorTyped,
                                  Ids, Id
<1>13. CASE Receive
  <2> DEFINE q == requests[run.request]
  <2>1. /\ run.stage = "wait" /\ q.stage = "answered" /\ Finish(q.kind)
        /\ requests' = [requests EXCEPT ![run.request] = Gone]
        /\ IF q.kind = "planned" THEN Apply(q.answer) ELSE UNCHANGED <<mirror, task>>
        /\ UNCHANGED <<now, plans, recs, server, facts, decided, losses>>
    BY <1>13 DEF Receive
  <2>2. run.request \in DOMAIN requests /\ q \in RequestSet
    BY <1>0, <2>1 DEF RunTyped, RequestsTyped
  <2>3. q.kind \in Kinds /\ (q.kind = "planned" => q \in Planned)
    BY <2>1, <2>2, RequestKinds
  <2>4. run' = NoRun /\ ui' \in UiSet
    BY <2>1, <2>3, FinishUi
  <2>5. RunTyped'
    BY <2>4, RunStages DEF RunTyped, InFlight
  <2>6. RequestsTyped'
    <3>1. Gone \in RequestSet /\ Gone \notin InHand /\ Gone \notin Planned
      BY DEF RequestSet, Gone, InHand, Planned
    <3> QED
      BY <1>0, <2>1, <2>2, <3>1 DEF RequestsTyped
  <2>7. MirrorTyped' /\ TasksTyped'
    <3>1. CASE q.kind = "planned"
      <4>1. q.answer \in AnswerSet /\ q.answer.plan \in DOMAIN plans
        BY <1>0, <2>2, <2>3, <3>1 DEF Planned, RequestsTyped
      <4> QED
        BY <2>1, <3>1, <4>1, ApplyTyped
    <3>2. CASE q.kind # "planned"
      BY <1>0, <2>1, <3>2 DEF MirrorTyped, TasksTyped, Ids
    <3> QED
      BY <3>1, <3>2
  <2> QED
    BY <1>0, <2>1, <2>4, <2>5, <2>6, <2>7 DEF Typed, Clock, PlansTyped, RecsTyped, Id
<1>14. CASE LoseAnswer
  <2>1. /\ losses' \in 0 .. MaxLosses /\ Finish("offline") /\ requests' = Unheard
        /\ UNCHANGED <<now, task, plans, recs, server, mirror, facts, decided>>
    BY <1>0, <1>14 DEF LoseAnswer
  <2>2. run' = NoRun /\ ui' \in UiSet
    BY <2>1, FinishUi, KindFacts
  <2>3. RequestsTyped' /\ RunTyped'
    BY <2>1, <2>2, UnheardTyped
  <2> QED
    BY <1>0, <2>1, <2>2, <2>3 DEF Typed, Clock, TasksTyped, PlansTyped, RecsTyped, MirrorTyped,
                                  Ids, Id
<1>15. CASE Kill
  <2>1. /\ losses' \in 0 .. MaxLosses /\ run' = NoRun /\ requests' = Unheard
        /\ ui' = [status |-> "idle", empty |-> FALSE]
        /\ UNCHANGED <<now, task, plans, recs, server, mirror, facts, lastDay, decided, asked>>
    BY <1>0, <1>15 DEF Kill
  <2>2. RequestsTyped' /\ RunTyped'
    BY <2>1, UnheardTyped
  <2>3. ui' \in UiSet
    BY <2>1 DEF UiSet
  <2> QED
    BY <1>0, <2>1, <2>2, <2>3 DEF Typed, Clock, TasksTyped, PlansTyped, RecsTyped, MirrorTyped,
                                  Ids, Id
<1>16. CASE Handle
  <2>1. PICK q \in DOMAIN requests : LoadContext(q) \/ Persist(q)
    BY <1>16 DEF Handle
  <2>2. CASE LoadContext(q)
    <3> DEFINE day == requests[q].day
               with == [stage |-> "read", day |-> day, at |-> now, tasks |-> Candidates(day),
                        placeable |-> Placeable(day), supersede |-> Existing(day)]
    <3>1. /\ requests[q].stage = "arrived"
          /\ IF Refusal(day) # None THEN Answer(q, Refusal(day)) ELSE Advance(q, with)
          /\ UNCHANGED <<now, task, plans, recs, server, mirror, facts, run, ui, lastDay, decided,
                         losses, asked>>
      BY <2>2 DEF LoadContext
    <3>2. RequestsTyped' /\ RunTyped'
      <4>1. CASE Refusal(day) # None
        <5>1. Refusal(day) \in Kinds \ {"planned"}
          BY <4>1, KindFacts
        <5> QED
          BY <3>1, <4>1, <5>1, RefusedTyped
      <4>2. CASE Refusal(day) = None
        <5>1. day \in Days
          BY <1>0, <3>1, RequestKinds DEF RequestsTyped, Arrived
        <5>2. Existing(day) \in SUBSET Nat
          BY <1>0, IdsNamed DEF Existing
        <5>3. Candidates(day) \in SUBSET Tasks /\ Placeable(day) \in SUBSET Tasks
          BY DEF Candidates, Placeable
        <5>4. with \in InHand /\ with \notin Planned /\ with # Gone /\ with.at = now
          BY <1>0, <5>1, <5>2, <5>3 DEF InHand, Planned, Gone, Clock
        <5>5. with \in RequestSet
          BY <5>4 DEF RequestSet
        <5>6. Advance(q, with) /\ now <= now /\ DOMAIN plans \subseteq DOMAIN plans'
          BY <1>0, <3>1, <4>2 DEF Clock
        <5> HIDE DEF with
        <5> QED
          BY <3>1, <5>4, <5>5, <5>6, AdvanceTyped
      <4> QED
        BY <4>1, <4>2
    <3> QED
      BY <1>0, <3>1, <3>2 DEF Typed, Clock, TasksTyped, PlansTyped, RecsTyped, MirrorTyped,
                              Ids, Id
  <2>3. CASE Persist(q)
    <3>1. UNCHANGED <<now, task, server, mirror, facts, run, ui, lastDay, decided, losses, asked>>
      BY <2>3 DEF Persist
    <3>2. PlansTyped' /\ RecsTyped' /\ RequestsTyped' /\ RunTyped' /\ MirrorTyped'
      BY <2>3, PersistTyped
    <3> QED
      BY <1>0, <3>1, <3>2 DEF Typed, Clock, TasksTyped
  <2> QED
    BY <2>1, <2>2, <2>3
<1>17. CASE \E q \in DOMAIN requests : Throws(q)
  <2>1. PICK q \in DOMAIN requests : Throws(q)
    BY <1>17
  <2>2. /\ losses' \in 0 .. MaxLosses /\ Answer(q, "failed")
        /\ UNCHANGED <<now, task, plans, recs, server, mirror, facts, run, ui, lastDay, decided,
                       asked>>
    BY <1>0, <2>1 DEF Throws
  <2>3. RequestsTyped' /\ RunTyped'
    BY <2>2, RefusedTyped, KindFacts
  <2> QED
    BY <1>0, <2>2, <2>3 DEF Typed, Clock, TasksTyped, PlansTyped, RecsTyped, MirrorTyped, Ids, Id
<1>18. CASE Tick
  <2>1. /\ now < MaxTime /\ now' = now + 1
        /\ UNCHANGED <<task, plans, recs, server, requests, mirror, facts, run, ui, lastDay,
                       decided, losses, asked>>
    BY <1>18 DEF Tick
  <2>2. Clock' /\ now <= now' /\ now \in Nat /\ now' \in Nat
    BY <1>0, <2>1, PlanAssumption DEF Clock
  <2>3. PlansTyped'
    <3>1. \A p \in DOMAIN plans : plans[p].at \in Nat /\ plans[p].at <= now
      BY <1>0, PlanIs
    <3>2. \A p \in DOMAIN plans : plans[p].at <= now'
      BY <2>2, <3>1
    <3> QED
      BY <1>0, <2>1, <3>2 DEF PlansTyped
  <2>4. RequestsTyped'
    <3>1. \A q \in DOMAIN requests : requests[q] \in InHand => requests[q].at \in Nat
      BY DEF InHand
    <3>2. \A q \in DOMAIN requests : requests[q] \in InHand => requests[q].at <= now'
      BY <1>0, <2>2, <3>1 DEF RequestsTyped
    <3> QED
      BY <1>0, <2>1, <3>2 DEF RequestsTyped
  <2>5. RunTyped'
    <3>1. InFlight => \A c \in run.calls : c.at \in Nat
      BY <1>0 DEF RunTyped, InFlight, RunSet, CallSet
    <3>2. InFlight => \A c \in run.calls : c.at <= now'
      BY <1>0, <2>2, <3>1 DEF RunTyped
    <3> QED
      BY <1>0, <2>1, <3>2 DEF RunTyped, InFlight
  <2> QED
    BY <1>0, <2>1, <2>2, <2>3, <2>4, <2>5 DEF Typed, TasksTyped, RecsTyped, MirrorTyped, Ids, Id
<1>19. CASE UNCHANGED vars
  BY <1>0, <1>19 DEF vars, Typed, Clock, TasksTyped, PlansTyped, RecsTyped, RequestsTyped,
                     MirrorTyped, Ids, Id, RunTyped, InFlight
<1> QED
  BY <1>1, <1>2, <1>3, <1>4, <1>5, <1>6, <1>7, <1>8, <1>9, <1>10, <1>11, <1>12, <1>13, <1>14,
     <1>15, <1>16, <1>17, <1>18, <1>19 DEF Next

\* The types that TLC checks follow.
LEMMA TypedChecks == Typed => TypeOK
<1> SUFFICES ASSUME Typed PROVE TypeOK
  OBVIOUS
<1>0. /\ Clock /\ TasksTyped /\ PlansTyped /\ RecsTyped /\ RequestsTyped /\ MirrorTyped
      /\ RunTyped /\ ui \in UiSet /\ losses \in 0 .. MaxLosses
  BY DEF Typed
<1>1. now \in 0 .. MaxTime
  BY <1>0, PlanAssumption DEF Clock
<1>2. \A p \in DOMAIN plans : plans[p].day \in Days /\ plans[p].at \in 0 .. now
  <2>1. \A p \in DOMAIN plans : plans[p].day \in Days /\ plans[p].at \in Nat /\ plans[p].at <= now
    BY <1>0, PlanIs
  <2> QED
    BY <1>1, <2>1
<1>3. /\ \A r \in recs : Id(r) \in Ids /\ r.status \in {"shown", "expired"} /\ r.fact \in BOOLEAN
      /\ \A r, s \in recs : Id(r) = Id(s) => r = s
  <2>1. \A r \in recs : r \in RecSet /\ r.plan \in DOMAIN plans
    BY <1>0 DEF RecsTyped
  <2>2. \A r \in recs : /\ r.plan \in DOMAIN plans /\ r.task \in Tasks
                        /\ r.status \in {"shown", "expired"} /\ r.fact \in BOOLEAN
    BY <2>1 DEF RecSet
  <2>3. \A r, s \in recs : Id(r) = Id(s) => r = s
    BY <1>0 DEF RecsTyped
  <2> QED
    BY <2>2, <2>3 DEF Id, Ids
<1>4. /\ mirror.plans \subseteq DOMAIN plans /\ mirror.shown \subseteq Ids
      /\ DOMAIN mirror.rows \subseteq Ids /\ facts \subseteq DOMAIN mirror.rows
      /\ decided \subseteq mirror.plans
  BY <1>0 DEF MirrorTyped
<1>5. \A i \in DOMAIN mirror.rows : mirror.rows[i] \in {"shown", "expired", "done"}
  BY <1>0, MirrorMade DEF MirrorTyped, Statuses
<1>6. \A q \in DOMAIN requests : /\ requests[q].stage \in {"arrived", "read", "answered", "gone"}
                                 /\ requests[q].stage = "gone" => requests[q] = Gone
  BY <1>0, RequestKinds DEF RequestsTyped
<1>7. run.stage \in {None, "session", "send", "wait"}
  BY <1>0, RunStages DEF RunTyped, RunSet, None
<1>8. run.stage = "wait" => requests[run.request].stage # "gone"
  BY <1>0, <1>6 DEF RunTyped
<1>9. ui.status \in {"idle", "planning", "error", "offline", "no_session", "rate_limited"}
  BY <1>0 DEF UiSet
<1> QED
  BY <1>0, <1>1, <1>2, <1>3, <1>4, <1>5, <1>6, <1>7, <1>8, <1>9 DEF TypeOK, TasksTyped
-----------------------------------------------------------------------------
(* The screen. *)

\* Steps that leave the status line alone keep the request under way.
LEMMA HonestStep == Typed /\ StatusHonest /\ [Next]_vars => StatusHonest'
<1> SUFFICES ASSUME Typed, StatusHonest, [Next]_vars PROVE StatusHonest'
  OBVIOUS
<1> USE DEF Lazy
<1>1. ASSUME NEW trigger \in Triggers, NEW day \in Days, RunPlanRequest(trigger, day)
      PROVE  StatusHonest'
  <2> DEFINE call == [trigger |-> trigger, day |-> day, at |-> now]
  <2>1. CASE trigger # "manual" /\ ~HasWorkingWindow(day)
    <3>1. Settle({call}, "no_working_window")
      BY <1>1, <2>1 DEF RunPlanRequest
    <3>2. ui'.status # "planning"
      BY <3>1, SettleUi, KindFacts DEF Typed
    <3> QED
      BY <3>2 DEF StatusHonest
  <2>2. CASE ~(trigger # "manual" /\ ~HasWorkingWindow(day))
    <3>1. RequestPlan(call) /\ UNCHANGED <<now, requests>>
      BY <1>1, <2>2 DEF RunPlanRequest
    <3>2. call \in CallSet /\ call.at <= now
      BY DEF CallSet, Typed, Clock
    <3> HIDE DEF call
    <3>3. run' \in RunSet
      BY <3>1, <3>2, RequestPlanTyped DEF Typed
    <3> QED
      BY <3>3, RunStages DEF StatusHonest, InFlight
  <2> QED
    BY <2>1, <2>2
<1>2. now \in 0 .. MaxTime /\ DayOf(now) \in Days /\ NextPlanDayOf(now) \in Days
  BY DayFacts DEF Typed, Clock
<1>3. CASE Check
  <2>1. (IF mirror.plans = {} THEN "first_open" ELSE "new_day") \in Triggers
    BY DEF Triggers
  <2> QED
    BY <1>1, <1>2, <1>3, <2>1 DEF Check
<1>4. CASE Manual
  BY <1>1, <1>2, <1>4 DEF Manual, Triggers
<1>5. CASE RitualTapped
  <2>1. PICK at \in 0 .. now : RunPlanRequest("ritual", NextPlanDayOf(at))
    BY <1>5 DEF RitualTapped
  <2>2. NextPlanDayOf(at) \in Days
    BY <1>2, DayFacts
  <2> QED
    BY <1>1, <2>1, <2>2 DEF Triggers
<1>6. CASE RitualCard
  BY <1>1, <1>2, <1>6 DEF RitualCard, Triggers
<1>7. CASE DropOption
  <2> DEFINE call == [trigger |-> "manual", day |-> DayOf(now), at |-> now]
  <2>1. RequestPlan(call) /\ UNCHANGED <<now, requests>>
    BY <1>7 DEF DropOption
  <2>2. call \in CallSet /\ call.at <= now
    BY <1>2 DEF CallSet, Triggers, Typed, Clock
  <2> HIDE DEF call
  <2>3. run' \in RunSet
    BY <2>1, <2>2, RequestPlanTyped DEF Typed
  <2> QED
    BY <2>3, RunStages DEF StatusHonest, InFlight
<1>8. CASE NoSession
  <2>1. PICK kind \in {"offline", "no_session"} : Finish(kind)
    BY <1>8 DEF NoSession
  <2> QED
    BY <2>1, FinishUi, KindFacts DEF StatusHonest
<1>9. CASE PreSync \/ PreSyncFails \/ Send
  <2>1. run.stage \in {"session", "send"} /\ UNCHANGED ui /\ Typed'
    BY <1>9, TypedStep DEF PreSync, PreSyncFails, Send, Next
  <2>2. run \in RunSet
    BY <2>1, RunStages DEF Typed, RunTyped
  <2>3. run'.stage \in {"send", "wait"}
    BY <1>9, <2>2 DEF PreSync, PreSyncFails, Send, RunSet
  <2> QED
    BY <2>3, RunStages DEF StatusHonest, InFlight
<1>10. CASE Receive
  <2>1. run.stage = "wait" /\ requests[run.request].stage = "answered"
        /\ Finish(requests[run.request].kind)
    BY <1>10 DEF Receive
  <2>2. requests[run.request].kind \in Kinds
    BY <2>1, RequestKinds DEF Typed, RunTyped, RequestsTyped
  <2> QED
    BY <2>1, <2>2, FinishUi DEF StatusHonest
<1>11. CASE LoseAnswer
  <2>1. Finish("offline")
    BY <1>11 DEF LoseAnswer
  <2> QED
    BY <2>1, FinishUi, KindFacts DEF StatusHonest
<1>12. CASE Kill
  BY <1>12 DEF Kill, StatusHonest
<1>13. CASE RejectOptions \/ Complete \/ Poll \/ Tick \/ UNCHANGED vars
  BY <1>13 DEF RejectOptions, Complete, Poll, Tick, vars, StatusHonest, InFlight
<1>14. CASE Handle \/ \E q \in DOMAIN requests : Throws(q)
  <2>1. UNCHANGED <<run, ui>>
    BY <1>14 DEF Handle, LoadContext, Persist, Throws
  <2> QED
    BY <2>1 DEF StatusHonest, InFlight
<1> QED
  BY <1>3, <1>4, <1>5, <1>6, <1>7, <1>8, <1>9, <1>10, <1>11, <1>12, <1>13, <1>14 DEF Next
-----------------------------------------------------------------------------
(* The lazy trigger. *)

Unasked == MaxTime + 1   \* the key before any request was answered

\* Calls whose answer is remembered for their day.
Keyed(c) == c.trigger # "ritual" /\ c.day = DayOf(c.at)

\* The key is behind the clock, and at least at every day that was asked for.
KeyTrue ==
  /\ asked \in [Days -> {0, 1}]
  /\ lastDay # Unasked => lastDay \in Nat /\ lastDay <= DayOf(now)
  /\ \A d \in Days : asked[d] = 1 => lastDay # Unasked /\ d <= lastDay

\* The callers of one request: at most one lazy one, for a day not asked for yet, and none for
\* a day before the key.
CallsTrue(calls) ==
  /\ \A c \in calls : c.trigger \in Lazy => c.day = DayOf(c.at) /\ asked[c.day] = 0
  /\ \A c \in calls : Keyed(c) /\ lastDay # Unasked => lastDay <= c.day
  /\ \A b, c \in calls : b.trigger \in Lazy /\ c.trigger \in Lazy => b = c

Asking == KeyTrue /\ (InFlight => CallsTrue(run.calls))

\* The greatest of a bounded set of naturals.
LEMMA MaxIs ==
  ASSUME NEW n \in Nat, NEW T \in SUBSET (0 .. n), T # {}
  PROVE  Max(T) \in T /\ \A y \in T : y <= Max(T)
<1> DEFINE R == OpToRel(<, Nat)
           U == {n - t : t \in T}
<1>1. IsWellFoundedOn(R, Nat)
  BY NatLessThanWellFounded
<1>2. \A x, y \in Nat : x < y => <<x, y>> \in R
  BY DEF OpToRel
<1>3. U \in SUBSET Nat /\ U # {}
  <2>1. \A t \in T : n - t \in Nat
    OBVIOUS
  <2> QED
    BY <2>1
<1> HIDE DEF R
<1>4. PICK u \in U : \A v \in U : ~(<<v, u>> \in R)
  BY <1>1, <1>3, WFMin
<1>5. PICK x \in T : u = n - x
  BY <1>4
<1>6. ASSUME NEW y \in T PROVE x >= y
  <2>1. n - y \in U /\ n - y \in Nat /\ n - x \in Nat
    BY <1>3
  <2>2. ~(n - y < n - x)
    BY <1>2, <1>4, <1>5, <2>1
  <2> QED
    BY <2>2
<1>7. \E m \in T : \A y \in T : m >= y
  BY <1>6
<1>8. Max(T) \in T /\ \A y \in T : Max(T) >= y
  BY <1>7 DEF Max
<1> QED
  BY <1>8

\* What an answer makes of the key.
LEMMA SettleKeeps ==
  ASSUME Typed, KeyTrue, NEW calls \in SUBSET CallSet, CallsTrue(calls),
         \A c \in calls : c.at <= now, NEW kind, Settle(calls, kind), UNCHANGED now
  PROVE  KeyTrue'
<1> DEFINE lazy(d) == {c \in calls : c.trigger \in Lazy /\ c.day = d /\ kind \in Answered}
           D == DedupDays(calls)
<1>1. /\ lastDay' = IF kind \in Answered /\ D # {} THEN Max(D) ELSE lastDay
      /\ asked' = [d \in Days |-> asked[d] + Cardinality(lazy(d))]
  BY DEF Settle
<1>2. now \in Nat /\ now <= MaxTime /\ MaxTime \in Nat /\ DayOf(now) \in Nat /\ DayOf(now) <= now
  BY DayFacts DEF Typed, Clock
<1>3. \A c \in calls : c.day \in Nat /\ c.at \in Nat /\ (Keyed(c) => c.day <= DayOf(now))
  <2>1. \A c \in calls : c.day \in Nat /\ c.at \in Nat
    BY DEF CallSet, Days
  <2>2. \A c \in calls : DayOf(c.at) <= DayOf(now)
    BY <1>2, <2>1, DayFacts
  <2> QED
    BY <2>1, <2>2 DEF Keyed
<1>4. /\ D \in SUBSET (0 .. DayOf(now))
      /\ \A d \in D : lastDay # Unasked => lastDay <= d
      /\ \A c \in calls : c.trigger \in Lazy => c.day \in D
  <2>1. D = {c.day : c \in {c \in calls : Keyed(c)}}
    BY DEF DedupDays, Keyed
  <2>2. \A c \in calls : c.trigger \in Lazy => Keyed(c)
    BY DEF CallsTrue, Keyed, Lazy
  <2> QED
    BY <1>2, <1>3, <2>1, <2>2 DEF CallsTrue
<1>5. ASSUME NEW d \in Days
      PROVE  /\ asked'[d] \in {0, 1}
             /\ asked'[d] = 1 => asked[d] = 1 \/ (kind \in Answered /\ d \in D)
  <2>1. asked[d] \in {0, 1} /\ asked'[d] = asked[d] + Cardinality(lazy(d))
    BY <1>1 DEF KeyTrue
  <2>2. CASE lazy(d) = {}
    <3>1. Cardinality(lazy(d)) = 0
      BY <2>2, FS_EmptySet
    <3> HIDE DEF lazy
    <3> QED
      BY <2>1, <3>1
  <2>3. CASE lazy(d) # {}
    <3>1. PICK c \in lazy(d) : TRUE
      BY <2>3
    <3>2. lazy(d) = {c}
      BY <3>1 DEF CallsTrue
    <3>3. Cardinality(lazy(d)) = 1
      BY <3>2, FS_Singleton
    <3>4. asked[d] = 0 /\ d \in D /\ kind \in Answered
      BY <1>4, <3>1 DEF CallsTrue
    <3> HIDE DEF lazy, D
    <3> QED
      BY <2>1, <3>3, <3>4
  <2> QED
    BY <2>2, <2>3
<1>6. asked' \in [Days -> {0, 1}]
  BY <1>1, <1>5
<1> HIDE DEF D, lazy
<1>7. CASE kind \in Answered /\ D # {}
  <2>1. lastDay' = Max(D)
    BY <1>1, <1>7
  <2>2. Max(D) \in D /\ \A y \in D : y <= Max(D)
    BY <1>2, <1>4, <1>7, MaxIs
  <2>3. lastDay' \in Nat /\ lastDay' <= DayOf(now) /\ lastDay' # Unasked
    <3>1. lastDay' \in 0 .. DayOf(now)
      BY <1>4, <2>1, <2>2
    <3> QED
      BY <1>2, <3>1 DEF Unasked
  <2>4. ASSUME NEW d \in Days, asked'[d] = 1 PROVE d <= lastDay'
    <3>1. CASE asked[d] = 1
      <4>1. lastDay # Unasked /\ d <= lastDay /\ lastDay \in Nat /\ d \in Nat
        BY <3>1 DEF KeyTrue, Days
      <4>2. lastDay <= lastDay'
        BY <1>4, <2>1, <2>2, <4>1
      <4> QED
        BY <2>3, <4>1, <4>2
    <3>2. CASE d \in D
      BY <2>1, <2>2, <3>2
    <3> QED
      BY <1>5, <2>4, <3>1, <3>2
  <2> QED
    BY <1>6, <2>3, <2>4 DEF KeyTrue, Unasked
<1>8. CASE ~(kind \in Answered /\ D # {})
  <2>1. lastDay' = lastDay /\ \A d \in Days : asked'[d] = 1 => asked[d] = 1
    BY <1>1, <1>5, <1>8
  <2> QED
    BY <1>6, <2>1 DEF KeyTrue, Unasked
<1> QED
  BY <1>7, <1>8

\* A caller that joins or starts a request keeps the callers true.
LEMMA RequestPlanAsks ==
  ASSUME Typed, Asking, NEW call \in CallSet, call.at = now, RequestPlan(call),
         call.trigger # "ritual" => call.day = DayOf(now),
         call.trigger \in Lazy => ~InFlight /\ asked[call.day] = 0,
         UNCHANGED <<now, lastDay, asked>>
  PROVE  Asking'
<1>1. KeyTrue'
  BY DEF Asking, KeyTrue, Unasked
<1>2. /\ call.trigger \in Lazy => call.day = DayOf(call.at) /\ asked[call.day] = 0
      /\ Keyed(call) /\ lastDay # Unasked => lastDay <= call.day
  <2>1. Keyed(call) /\ lastDay # Unasked => lastDay <= call.day
    BY DEF Asking, KeyTrue, Keyed
  <2> QED
    BY <2>1 DEF Lazy
<1>3. CASE InFlight
  <2>1. run \in RunSet /\ CallsTrue(run.calls)
    BY <1>3 DEF Typed, RunTyped, InFlight, Asking
  <2>2. run'.calls = run.calls \cup {call}
    BY <1>3, <2>1 DEF RequestPlan, RunSet
  <2>3. CallsTrue(run'.calls)
    BY <1>2, <1>3, <2>1, <2>2 DEF CallsTrue
  <2> QED
    BY <1>1, <2>3 DEF Asking, CallsTrue, Unasked
<1>4. CASE ~InFlight
  <2>1. run'.calls = {call}
    BY <1>4 DEF RequestPlan
  <2>2. CallsTrue(run'.calls)
    BY <1>2, <2>1 DEF CallsTrue
  <2> QED
    BY <1>1, <2>2 DEF Asking, CallsTrue, Unasked
<1> QED
  BY <1>3, <1>4

\* runPlanRequest, as each of its callers calls it.
LEMMA AskAsks ==
  ASSUME Typed, Asking, NEW trigger \in Triggers, NEW day \in Days, RunPlanRequest(trigger, day),
         trigger # "ritual" => day = DayOf(now),
         trigger \in Lazy => ~InFlight /\ asked[day] = 0,
         trigger = "manual" => ~InFlight
  PROVE  Asking'
<1> DEFINE call == [trigger |-> trigger, day |-> day, at |-> now]
<1>1. /\ call \in CallSet /\ call.at = now /\ call.day = day /\ call.trigger = trigger
      /\ now \in Nat /\ now <= now
  BY DEF CallSet, Typed, Clock
<1>2. UNCHANGED now
  BY DEF RunPlanRequest
<1>3. CASE ~(trigger # "manual" /\ ~HasWorkingWindow(day))
  <2>1. RequestPlan(call) /\ UNCHANGED <<lastDay, asked>>
    BY <1>3 DEF RunPlanRequest
  <2> HIDE DEF call
  <2> QED
    BY <1>1, <1>2, <2>1, RequestPlanAsks
<1>4. CASE trigger # "manual" /\ ~HasWorkingWindow(day)
  <2>1. Settle({call}, "no_working_window") /\ UNCHANGED run
    BY <1>4 DEF RunPlanRequest
  <2>2. CallsTrue({call})
    <3>1. Keyed(call) /\ lastDay # Unasked => lastDay <= call.day
      BY <1>1 DEF Asking, KeyTrue, Keyed
    <3> HIDE DEF call
    <3> QED
      BY <1>1, <3>1 DEF CallsTrue, Lazy
  <2>3. KeyTrue'
    <3>1. {call} \in SUBSET CallSet /\ \A c \in {call} : c.at <= now
      BY <1>1
    <3> HIDE DEF call
    <3> QED
      BY <1>2, <2>1, <2>2, <3>1, SettleKeeps DEF Asking
  <2>4. CASE trigger = "ritual"
    <3>1. \A c \in {call} : c.trigger = "ritual"
      BY <1>1, <2>4
    <3>2. DedupDays({call}) = {}
      BY <3>1 DEF DedupDays
    <3>3. lastDay' = lastDay
      BY <2>1, <3>2 DEF Settle
    <3>4. asked' = [d \in Days |-> asked[d] + Cardinality(
                     {c \in {call} : c.trigger \in Lazy /\ c.day = d
                                      /\ "no_working_window" \in Answered})]
      BY <2>1 DEF Settle
    <3>5. \A d \in Days : {c \in {call} : c.trigger \in Lazy /\ c.day = d
                                           /\ "no_working_window" \in Answered} = {}
      BY <3>1 DEF Lazy
    <3>6. asked' = [d \in Days |-> asked[d] + 0]
      BY <3>4, <3>5, FS_EmptySet, Zenon
    <3>7. asked' = asked
      BY <3>6 DEF Asking, KeyTrue
    <3> QED
      BY <2>1, <2>3, <3>3, <3>7 DEF Asking, CallsTrue, InFlight, Unasked
  <2>5. CASE trigger # "ritual"
    <3>1. ~InFlight
      BY <1>4, <2>5 DEF Triggers
    <3> QED
      BY <2>1, <2>3, <3>1 DEF Asking, InFlight
  <2> QED
    BY <2>4, <2>5
<1> QED
  BY <1>3, <1>4

\* A day that is due was not asked for.
LEMMA DueUnasked ==
  ASSUME Typed, Asking, Due
  PROVE  asked[DayOf(now)] = 0 /\ ~InFlight
<1>1. now \in 0 .. MaxTime /\ DayOf(now) \in Days /\ DayOf(now) \in Nat /\ lastDay # DayOf(now)
  BY DayFacts DEF Typed, Clock, Due
<1>2. asked[DayOf(now)] = 1 => lastDay = DayOf(now)
  BY <1>1 DEF Asking, KeyTrue
<1> QED
  BY <1>1, <1>2 DEF Asking, KeyTrue, Due

\* A request that ends keeps the key true.
LEMMA FinishAsks ==
  ASSUME Typed, Asking, run.stage # "none", NEW kind, Finish(kind), UNCHANGED now
  PROVE  Asking'
<1>1. InFlight /\ run \in RunSet
  BY RunStages DEF Typed, RunTyped, InFlight
<1>2. /\ run.calls \in SUBSET CallSet /\ CallsTrue(run.calls) /\ KeyTrue
      /\ \A c \in run.calls : c.at <= now
  BY <1>1 DEF Typed, RunTyped, RunSet, Asking
<1>3. KeyTrue' /\ run' = NoRun
  BY <1>2, SettleKeeps DEF Finish
<1> QED
  BY <1>3 DEF Asking, InFlight

\* Every step keeps the key true.
LEMMA AskingStep == Typed /\ Asking /\ [Next]_vars => Asking'
<1> SUFFICES ASSUME Typed, Asking, [Next]_vars PROVE Asking'
  OBVIOUS
<1>1. /\ now \in 0 .. MaxTime /\ now \in Nat /\ now <= now
      /\ DayOf(now) \in Days /\ DayOf(now) \in Nat /\ NextPlanDayOf(now) \in Days
  BY DayFacts DEF Typed, Clock
<1>2. {"first_open", "new_day"} = Lazy /\ Lazy \subseteq Triggers
      /\ "manual" \in Triggers \ Lazy /\ "ritual" \in Triggers \ Lazy
      /\ "manual" # "ritual" /\ "ritual" \notin Lazy
  BY DEF Lazy, Triggers
<1>3. CASE Check
  <2> DEFINE trigger == IF mirror.plans = {} THEN "first_open" ELSE "new_day"
  <2>1. Due /\ RunPlanRequest(trigger, DayOf(now))
    BY <1>3 DEF Check
  <2>2. trigger \in Lazy /\ trigger \in Triggers /\ trigger # "manual" /\ trigger # "ritual"
    BY <1>2
  <2> HIDE DEF trigger
  <2> QED
    BY <1>1, <2>1, <2>2, DueUnasked, AskAsks
<1>4. CASE Manual
  <2>1. ~InFlight /\ RunPlanRequest("manual", DayOf(now))
    BY <1>4 DEF Manual
  <2> QED
    BY <1>1, <1>2, <2>1, AskAsks
<1>5. CASE RitualTapped
  <2>1. PICK at \in 0 .. now : RunPlanRequest("ritual", NextPlanDayOf(at))
    BY <1>5 DEF RitualTapped
  <2>2. NextPlanDayOf(at) \in Days
    BY <1>1, DayFacts
  <2> QED
    BY <1>2, <2>1, <2>2, AskAsks
<1>6. CASE RitualCard
  <2>1. RunPlanRequest("ritual", NextPlanDayOf(now))
    BY <1>6 DEF RitualCard
  <2> QED
    BY <1>1, <1>2, <2>1, AskAsks
<1>7. CASE DropOption
  <2> DEFINE call == [trigger |-> "manual", day |-> DayOf(now), at |-> now]
  <2>1. RequestPlan(call) /\ UNCHANGED <<now, lastDay, asked>>
    BY <1>7 DEF DropOption
  <2>2. call \in CallSet /\ call.at = now /\ call.trigger = "manual" /\ call.day = DayOf(now)
    BY <1>1, <1>2 DEF CallSet
  <2> HIDE DEF call
  <2> QED
    BY <1>2, <2>1, <2>2, RequestPlanAsks
<1>8. CASE NoSession
  <2>1. PICK kind \in {"offline", "no_session"} : Finish(kind)
    BY <1>8 DEF NoSession
  <2>2. run.stage # "none" /\ UNCHANGED now
    BY <1>8 DEF NoSession
  <2> QED
    BY <2>1, <2>2, FinishAsks
<1>9. CASE PreSync \/ PreSyncFails \/ Send
  <2>1. run.stage \in {"session", "send"} /\ UNCHANGED <<now, lastDay, asked>>
    BY <1>9 DEF PreSync, PreSyncFails, Send
  <2>2. run \in RunSet /\ InFlight
    BY <2>1, RunStages DEF Typed, RunTyped, InFlight
  <2>3. run'.calls = run.calls
    BY <1>9, <2>2 DEF PreSync, PreSyncFails, Send, RunSet
  <2> QED
    BY <2>1, <2>2, <2>3 DEF Asking, KeyTrue, CallsTrue, Unasked
<1>10. CASE Receive
  <2>1. run.stage = "wait" /\ Finish(requests[run.request].kind) /\ UNCHANGED now
    BY <1>10 DEF Receive
  <2> QED
    BY <2>1, FinishAsks
<1>11. CASE LoseAnswer
  <2>1. run.stage = "wait" /\ Finish("offline") /\ UNCHANGED now
    BY <1>11 DEF LoseAnswer
  <2> QED
    BY <2>1, FinishAsks
<1>12. CASE Kill
  <2>1. run' = NoRun /\ UNCHANGED <<now, lastDay, asked>>
    BY <1>12 DEF Kill
  <2> QED
    BY <2>1 DEF Asking, KeyTrue, InFlight, Unasked
<1>13. CASE RejectOptions \/ Complete \/ Poll \/ UNCHANGED vars
  <2>1. UNCHANGED <<now, run, lastDay, asked>>
    BY <1>13 DEF RejectOptions, Complete, Poll, vars
  <2> QED
    BY <2>1 DEF Asking, KeyTrue, CallsTrue, InFlight, Unasked
<1>14. CASE Handle \/ \E q \in DOMAIN requests : Throws(q)
  <2>1. UNCHANGED <<now, run, lastDay, asked>>
    BY <1>14 DEF Handle, LoadContext, Persist, Throws
  <2> QED
    BY <2>1 DEF Asking, KeyTrue, CallsTrue, InFlight, Unasked
<1>15. CASE Tick
  <2>1. now' = now + 1 /\ UNCHANGED <<run, lastDay, asked>>
    BY <1>15 DEF Tick
  <2>2. DayOf(now) <= DayOf(now') /\ DayOf(now') \in Nat
    BY <1>1, <2>1, DayFacts
  <2>3. KeyTrue'
    BY <1>1, <2>1, <2>2 DEF Asking, KeyTrue, Unasked
  <2> QED
    BY <2>1, <2>3 DEF Asking, CallsTrue, InFlight, Unasked
<1> QED
  BY <1>3, <1>4, <1>5, <1>6, <1>7, <1>8, <1>9, <1>10, <1>11, <1>12, <1>13, <1>14, <1>15 DEF Next
-----------------------------------------------------------------------------
(* One plan at a time. *)

\* While nothing was lost: a request somebody works on is the awaited one, and it knows every
\* plan of its day.
OneAtATime ==
  losses = 0 =>
    /\ \A q \in DOMAIN requests : requests[q] # Gone => run.stage = "wait" /\ run.request = q
    /\ \A q \in DOMAIN requests : requests[q] \in InHand =>
         \A p \in DOMAIN plans : plans[p].day = requests[q].day => p \in requests[q].supersede

\* No step takes a loss back.
LEMMA LossesGrow == ASSUME Typed, [Next]_vars, losses' = 0 PROVE losses = 0
<1>1. losses \in Nat
  BY PlanAssumption DEF Typed
<1>2. losses' = losses \/ losses' = losses + 1
  BY DEF Next, vars, Check, Manual, RitualTapped, RitualCard, RunPlanRequest, DropOption,
         RejectOptions, Complete, Poll, NoSession, PreSync, PreSyncFails, Send, Receive,
         LoseAnswer, Kill, Handle, LoadContext, Persist, Throws, Tick
<1> QED
  BY <1>1, <1>2

\* Requests nobody touches, under a run that keeps waiting for what it waited for.
LEMMA SameRequests ==
  ASSUME Typed, OneAtATime, losses = 0, UNCHANGED <<requests, plans>>,
         run.stage = "wait" => run'.stage = "wait" /\ run'.request = run.request
  PROVE  OneAtATime'
BY DEF OneAtATime

\* A caller that joins does not change what the request waits for.
LEMMA RequestPlanWaits ==
  ASSUME Typed, NEW call, RequestPlan(call)
  PROVE  run.stage = "wait" => run'.stage = "wait" /\ run'.request = run.request
<1>1. run.stage = "wait" => InFlight /\ run \in RunSet
  BY RunStages DEF Typed, RunTyped, InFlight
<1> QED
  BY <1>1 DEF RequestPlan, RunSet

\* Without a loss there is never more than one request under way.
LEMMA OneAtATimeStep == Typed /\ OneAtATime /\ [Next]_vars => OneAtATime'
<1> SUFFICES ASSUME Typed, OneAtATime, [Next]_vars, losses' = 0 PROVE OneAtATime'
  BY DEF OneAtATime
<1>1. losses = 0 /\ losses \in Nat
  BY LossesGrow
<1>2. /\ \A q \in DOMAIN requests : requests[q] # Gone => run.stage = "wait" /\ run.request = q
      /\ \A q \in DOMAIN requests : requests[q] \in InHand =>
           \A p \in DOMAIN plans : plans[p].day = requests[q].day => p \in requests[q].supersede
  BY <1>1 DEF OneAtATime
<1>3. requests \in Seq(RequestSet) /\ \A q \in DOMAIN requests : requests[q] \in RequestSet
  BY DEF Typed, RequestsTyped
<1>4. CASE Check \/ Manual \/ RitualTapped \/ RitualCard
  <2>1. PICK trigger, day : RunPlanRequest(trigger, day)
    BY <1>4 DEF Check, Manual, RitualTapped, RitualCard
  <2>2. UNCHANGED <<requests, plans>>
    BY <2>1 DEF RunPlanRequest
  <2>3. UNCHANGED run \/ RequestPlan([trigger |-> trigger, day |-> day, at |-> now])
    BY <2>1 DEF RunPlanRequest
  <2>4. run.stage = "wait" => run'.stage = "wait" /\ run'.request = run.request
    BY <2>3, RequestPlanWaits
  <2> QED
    BY <1>1, <2>2, <2>4, SameRequests
<1>5. CASE DropOption
  <2>1. /\ RequestPlan([trigger |-> "manual", day |-> DayOf(now), at |-> now])
        /\ UNCHANGED <<requests, plans>>
    BY <1>5 DEF DropOption
  <2>2. run.stage = "wait" => run'.stage = "wait" /\ run'.request = run.request
    BY <2>1, RequestPlanWaits
  <2> QED
    BY <1>1, <2>1, <2>2, SameRequests
<1>6. CASE RejectOptions \/ Complete \/ Poll \/ Tick \/ UNCHANGED vars
  <2>1. UNCHANGED <<requests, plans, run>>
    BY <1>6 DEF RejectOptions, Complete, Poll, Tick, vars
  <2> QED
    BY <1>1, <2>1, SameRequests
<1>7. CASE NoSession \/ PreSyncFails \/ LoseAnswer \/ Kill \/ \E q \in DOMAIN requests : Throws(q)
  <2>1. losses' = losses + 1
    BY <1>7 DEF NoSession, PreSyncFails, LoseAnswer, Kill, Throws
  <2> QED
    BY <1>1, <2>1
<1>8. CASE PreSync
  <2>1. run.stage = "session" /\ UNCHANGED <<requests, plans>>
    BY <1>8 DEF PreSync
  <2> QED
    BY <1>1, <2>1, SameRequests
<1>9. CASE Send
  <2> DEFINE new == [stage |-> "arrived", day |-> run.day]
             q == Len(requests) + 1
  <2>1. /\ run.stage = "send" /\ requests' = Append(requests, new) /\ UNCHANGED plans
        /\ run' = [run EXCEPT !.stage = "wait", !.request = q]
    BY <1>9 DEF Send
  <2>2. run \in RunSet
    BY <2>1, RunStages DEF Typed, RunTyped
  <2>3. run'.stage = "wait" /\ run'.request = q
    BY <2>1, <2>2 DEF RunSet
  <2>4. new \notin InHand
    BY DEF InHand
  <2>5. new \in RequestSet
    BY <2>2 DEF RunSet, Arrived, RequestSet
  <2> HIDE DEF new
  <2>6. /\ DOMAIN requests' = DOMAIN requests \cup {q}
        /\ \A i \in DOMAIN requests' : requests'[i] = IF i = q THEN new ELSE requests[i]
    BY <1>3, <2>1, <2>5
  <2>7. \A i \in DOMAIN requests : requests[i] = Gone
    BY <1>2, <2>1
  <2>8. Gone \notin InHand
    BY DEF Gone, InHand
  <2> HIDE DEF q
  <2> QED
    BY <2>3, <2>4, <2>6, <2>7, <2>8 DEF OneAtATime
<1>10. CASE Receive
  <2>1. /\ run.stage = "wait" /\ requests' = [requests EXCEPT ![run.request] = Gone]
        /\ UNCHANGED plans
    BY <1>10 DEF Receive
  <2>2. DOMAIN requests' = DOMAIN requests
    BY <2>1
  <2>3. \A i \in DOMAIN requests' : requests'[i] = Gone
    BY <1>2, <2>1, <2>2
  <2>4. Gone \notin InHand
    BY DEF Gone, InHand
  <2> QED
    BY <2>3, <2>4 DEF OneAtATime
<1>11. ASSUME NEW q \in DOMAIN requests, NEW with, requests[q] # Gone, UNCHANGED run,
              requests' = [requests EXCEPT ![q] = with],
              with \in InHand =>
                \A p \in DOMAIN plans' : plans'[p].day = with.day => p \in with.supersede
       PROVE  OneAtATime'
  <2>1. run.stage = "wait" /\ run.request = q
    BY <1>2, <1>11
  <2>2. /\ DOMAIN requests' = DOMAIN requests
        /\ \A i \in DOMAIN requests' : requests'[i] = IF i = q THEN with ELSE requests[i]
    BY <1>11
  <2>3. \A i \in DOMAIN requests' : i # q => requests'[i] = Gone
    BY <1>2, <2>1, <2>2
  <2>4. Gone \notin InHand
    BY DEF Gone, InHand
  <2> QED
    BY <1>11, <2>1, <2>2, <2>3, <2>4 DEF OneAtATime
<1>12. ASSUME NEW q \in DOMAIN requests, NEW with, requests[q] # Gone, UNCHANGED run,
              Reply(q, with), with \notin InHand
       PROVE  OneAtATime'
  <2>1. Awaited(q)
    BY <1>2, <1>12 DEF Awaited
  <2>2. requests' = [requests EXCEPT ![q] = with]
    BY <1>12, <2>1 DEF Reply, Advance
  <2> QED
    BY <1>11, <1>12, <2>2
<1>13. CASE Handle
  <2>1. PICK q \in DOMAIN requests : LoadContext(q) \/ Persist(q)
    BY <1>13 DEF Handle
  <2>2. requests[q] # Gone /\ UNCHANGED run
    BY <2>1 DEF LoadContext, Persist, Gone
  <2>3. CASE LoadContext(q)
    <3> DEFINE day == requests[q].day
               with == [stage |-> "read", day |-> day, at |-> now, tasks |-> Candidates(day),
                        placeable |-> Placeable(day), supersede |-> Existing(day)]
    <3>1. IF Refusal(day) # None THEN Answer(q, Refusal(day)) ELSE Advance(q, with)
      BY <2>3 DEF LoadContext
    <3>2. CASE Refusal(day) # None
      <4>1. Reply(q, [stage |-> "answered", kind |-> Refusal(day)])
        BY <3>1, <3>2 DEF Answer
      <4>2. [stage |-> "answered", kind |-> Refusal(day)] \notin InHand
        BY DEF InHand
      <4> QED
        BY <1>12, <2>2, <4>1, <4>2
    <3>3. CASE Refusal(day) = None
      <4>1. requests' = [requests EXCEPT ![q] = with] /\ UNCHANGED plans
        BY <2>3, <3>1, <3>3 DEF Advance, LoadContext
      <4>2. \A p \in DOMAIN plans : plans[p].day = with.day => p \in with.supersede
        BY DEF Existing
      <4> HIDE DEF with
      <4> QED
        BY <1>11, <2>2, <4>1, <4>2
    <3> QED
      BY <3>2, <3>3
  <2>4. CASE Persist(q)
    <3>1. PICK answer : Reply(q, [stage |-> "answered", kind |-> "planned", answer |-> answer])
      BY <2>4 DEF Persist
    <3>2. [stage |-> "answered", kind |-> "planned", answer |-> answer] \notin InHand
      BY DEF InHand
    <3> QED
      BY <1>12, <2>2, <3>1, <3>2
  <2> QED
    BY <2>1, <2>3, <2>4
<1> QED
  BY <1>4, <1>5, <1>6, <1>7, <1>8, <1>9, <1>10, <1>13 DEF Next
-----------------------------------------------------------------------------
(* One live block per task and day. *)

\* Of two rows at one instant: alive, and of one task and one day.
Rivals(r, s) == /\ Live(r) /\ Live(s) /\ r.task = s.task
                /\ plans[r.plan].day = plans[s.plan].day

\* A sync makes no row live again.
LEMMA SyncKeepsOne ==
  ASSUME Typed, OnePlacement, Synced, UNCHANGED <<plans, now, losses>>
  PROVE  OnePlacement'
<1> SUFFICES ASSUME losses = 0, NEW r \in recs', NEW s \in recs', Rivals(r, s) PROVE r = s
  BY DEF OnePlacement, Rivals, Live
<1> DEFINE up(x) == [x EXCEPT !.fact = @ \/ Id(x) \in facts]
<1>1. recs' = {up(x) : x \in recs}
  BY DEF Synced
<1>2. ASSUME NEW x \in recs
      PROVE  /\ up(x).plan = x.plan /\ up(x).task = x.task /\ up(x).slot = x.slot
             /\ up(x).status = x.status /\ (x.fact => up(x).fact)
  <2>1. x \in RecSet
    BY DEF Typed, RecsTyped
  <2>2. up(x).fact = (x.fact \/ Id(x) \in facts)
    BY <2>1 DEF RecSet
  <2>3. x.fact => up(x).fact
    BY <2>2
  <2> QED
    BY <2>1, <2>3 DEF RecSet
<1> HIDE DEF up
<1>3. PICK x \in recs, y \in recs : r = up(x) /\ s = up(y)
  BY <1>1
<1>4. Rivals(x, y)
  BY <1>2, <1>3 DEF Rivals, Live
<1>5. x = y
  BY <1>4 DEF OnePlacement, Rivals
<1> QED
  BY <1>3, <1>5

\* A plan expires every live row of its day before it adds its own.
LEMMA PersistKeepsOne ==
  ASSUME Typed, OneAtATime, OnePlacement, NEW q \in DOMAIN requests, Persist(q), losses = 0
  PROVE  OnePlacement'
<1> DEFINE req == requests[q]
           p == Len(plans) + 1
           gone == {r \in recs : Superseded(r, req.supersede)}
           dead(r) == [r EXCEPT !.status = "expired"]
<1>1. req.stage = "read" /\ UNCHANGED <<now, losses>>
  BY DEF Persist
<1>2. PICK placed \in SUBSET req.placeable :
      \E slot \in [placed -> Slots(req)], options \in {{}, req.tasks \ placed}, reason \in Reasons :
        /\ plans' = Append(plans, [day |-> req.day, at |-> req.at, reason |-> reason,
                                   options |-> options])
        /\ recs' = (recs \ gone) \cup {dead(r) : r \in gone} \cup Inserted(p, slot)
  BY Zenon DEF Persist
<1>3. PICK slot \in [placed -> Slots(req)], options \in {{}, req.tasks \ placed}, reason \in Reasons :
        /\ plans' = Append(plans, [day |-> req.day, at |-> req.at, reason |-> reason,
                                   options |-> options])
        /\ recs' = (recs \ gone) \cup {dead(r) : r \in gone} \cup Inserted(p, slot)
  BY <1>2, Zenon
<1>4. req \in InHand
  <2>1. req \in RequestSet
    BY DEF Typed, RequestsTyped
  <2> QED
    BY <1>1, <2>1, RequestKinds
<1>5. \A i \in DOMAIN plans : plans[i].day = req.day => i \in req.supersede
  BY <1>4 DEF OneAtATime
<1> HIDE DEF req
<1>6. plans' \in Seq(PlanSet) /\ plans \in Seq(PlanSet)
  BY PersistTyped DEF Typed, PlansTyped
<1>7. /\ \A i \in DOMAIN plans : plans'[i] = plans[i]
      /\ plans'[p].day = req.day /\ p \notin DOMAIN plans
  BY <1>3, <1>6
<1>8. \A r \in recs : r \in RecSet /\ r.plan \in DOMAIN plans
  BY DEF Typed, RecsTyped
<1> HIDE DEF p
<1>9. ASSUME NEW r \in recs', Live(r)
      PROVE  \/ r \in recs /\ plans'[r.plan].day # req.day
             \/ r \in Inserted(p, slot)
  <2>1. CASE r \in recs \ gone
    <3>1. r.plan \notin req.supersede
      BY <1>9, <2>1 DEF gone, Superseded
    <3> QED
      BY <1>5, <1>7, <1>8, <2>1, <3>1
  <2>2. CASE r \in {dead(x) : x \in gone}
    <3>1. PICK x \in gone : r = dead(x)
      BY <2>2
    <3>2. r.status = "expired"
      BY <1>8, <3>1 DEF RecSet
    <3> QED
      BY <1>9, <3>2 DEF Live
  <2> QED
    BY <1>3, <2>1, <2>2
<1>10. \A r \in Inserted(p, slot) : /\ r.plan = p
                                    /\ r = [plan |-> p, task |-> r.task, slot |-> slot[r.task],
                                            status |-> "shown", fact |-> FALSE]
  BY DEF Inserted
<1>11. ASSUME NEW r \in recs', NEW s \in recs', Live(r), Live(s), r.task = s.task,
              plans'[r.plan].day = plans'[s.plan].day
       PROVE  r = s
  <2>1. CASE r \in Inserted(p, slot) /\ s \in Inserted(p, slot)
    BY <1>10, <1>11, <2>1
  <2>2. CASE r \in recs /\ s \in recs
    <3>1. plans[r.plan].day = plans[s.plan].day
      BY <1>7, <1>8, <1>11, <2>2
    <3> QED
      BY <1>11, <2>2, <3>1 DEF OnePlacement
  <2>3. CASE r \in recs /\ plans'[r.plan].day # req.day /\ s \in Inserted(p, slot)
    BY <1>7, <1>10, <1>11, <2>3
  <2>4. CASE s \in recs /\ plans'[s.plan].day # req.day /\ r \in Inserted(p, slot)
    BY <1>7, <1>10, <1>11, <2>4
  <2> QED
    BY <1>9, <1>11, <2>1, <2>2, <2>3, <2>4
<1> QED
  BY <1>1, <1>11 DEF OnePlacement, Live

\* Every step keeps one live block per task and day.
LEMMA OnePlacementStep ==
  Typed /\ OneAtATime /\ OnePlacement /\ [Next]_vars => OnePlacement'
<1> SUFFICES ASSUME Typed, OneAtATime, OnePlacement, [Next]_vars, losses' = 0
             PROVE  OnePlacement'
  BY DEF OnePlacement
<1>1. losses = 0 /\ losses \in Nat
  BY LossesGrow
<1>2. ASSUME UNCHANGED <<now, plans, recs>> PROVE OnePlacement'
  BY <1>1, <1>2 DEF OnePlacement, Live
<1>3. CASE Check \/ Manual \/ RitualTapped \/ RitualCard \/ DropOption \/ RejectOptions \/ Complete
  BY <1>2, <1>3 DEF Check, Manual, RitualTapped, RitualCard, RunPlanRequest, DropOption,
                    RejectOptions, Complete
<1>4. CASE Poll \/ PreSync
  BY <1>4, SyncKeepsOne DEF Poll, PreSync
<1>5. CASE NoSession \/ PreSyncFails \/ Send \/ Receive \/ LoseAnswer \/ Kill
  BY <1>2, <1>5 DEF NoSession, PreSyncFails, Send, Receive, LoseAnswer, Kill
<1>6. CASE Handle
  <2>1. PICK q \in DOMAIN requests : LoadContext(q) \/ Persist(q)
    BY <1>6 DEF Handle
  <2>2. CASE LoadContext(q)
    BY <1>2, <2>2 DEF LoadContext
  <2>3. CASE Persist(q)
    BY <1>1, <2>3, PersistKeepsOne
  <2> QED
    BY <2>1, <2>2, <2>3
<1>7. CASE \E q \in DOMAIN requests : Throws(q)
  BY <1>2, <1>7 DEF Throws
<1>8. CASE Tick
  <2>1. now' = now + 1 /\ UNCHANGED <<plans, recs, losses>> /\ now \in Nat
    BY <1>8 DEF Tick, Typed, Clock
  <2>2. \A r \in recs : r.slot \in Nat
    BY DEF Typed, RecsTyped, RecSet
  <2>3. \A r \in recs : r.slot + 1 > now' => r.slot + 1 > now
    BY <2>1, <2>2
  <2> QED
    BY <1>1, <2>1, <2>3 DEF OnePlacement, Live
<1>9. CASE UNCHANGED vars
  BY <1>2, <1>9 DEF vars
<1> QED
  BY <1>3, <1>4, <1>5, <1>6, <1>7, <1>8, <1>9 DEF Next
-----------------------------------------------------------------------------
\* The inductive invariant: what is served one request at a time is placed once, and what is
\* asked for is remembered.
IInv == Typed /\ StatusHonest /\ Asking /\ OneAtATime /\ OnePlacement

LEMMA InitInv == Init => IInv
<1> SUFFICES ASSUME Init PROVE IInv
  OBVIOUS
<1>1. Typed
  BY InitTyped
<1>2. StatusHonest /\ ~InFlight
  BY DEF Init, StatusHonest, InFlight
<1>3. KeyTrue
  <2>1. asked = [d \in Days |-> 0] /\ lastDay = Unasked
    BY DEF Init, Unasked
  <2> QED
    BY <2>1 DEF KeyTrue
<1>4. OneAtATime /\ OnePlacement
  BY DEF Init, OneAtATime, OnePlacement
<1> QED
  BY <1>1, <1>2, <1>3, <1>4 DEF IInv, Asking

LEMMA StepInv == IInv /\ [Next]_vars => IInv'
BY TypedStep, HonestStep, AskingStep, OneAtATimeStep, OnePlacementStep DEF IInv

LEMMA InvChecks == IInv => OncePerDay
<1> SUFFICES ASSUME IInv PROVE OncePerDay
  OBVIOUS
<1>1. AskedOnce
  BY DEF IInv, Asking, KeyTrue, AskedOnce
<1> QED
  BY <1>1, TypedChecks DEF IInv, OncePerDay

\* For any tasks, length of the day, bounds, arm, closed days and faults: every variable keeps
\* its type, the status line says "planning" only while a request is under way, the lazy trigger
\* is answered once a day across restarts, rituals and manual requests, and, while nothing was
\* lost, the server holds one live block per task and day.
THEOREM AskedAndPlacedOnce == Spec => []OncePerDay
<1>1. Init => IInv
  BY InitInv
<1>2. IInv /\ [Next]_vars => IInv'
  BY StepInv
<1>3. IInv => OncePerDay
  BY InvChecks
<1> QED
  BY <1>1, <1>2, <1>3, PTL DEF Spec
=============================================================================
