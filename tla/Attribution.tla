----------------------------- MODULE Attribution -----------------------------
(***************************************************************************)
(* The parts of attribute-rewards around the reward table: the duration    *)
(* estimates learned from finished sessions, the context of the slot a     *)
(* block was moved to and the move itself, the users a sweep visits, and   *)
(* the delivery of labels.                                                 *)
(*                                                                         *)
(* Instants are minutes, ratios are in thousandths.  A placement is [id,   *)
(* status, slot, bucket]; a slot is <<start, end>>.                        *)
(***************************************************************************)
EXTENDS Grid, Sequences, SequencesExt

FatigueRun == 6
FatigueGap == 1
LoadTicks == 12

-----------------------------------------------------------------------------
(* The duration estimates: an exponential average per category *)

SampleClip == <<250, 4000>>
RatioClip == <<500, 2000>>
MinSessions == 3
Alpha == 300

Clip(v, bounds) == Min({Max({v, bounds[1]}), bounds[2]})

NoEstimate == [ratio |-> 1000, n |-> 0, last |-> 0]

UpdateDurationEstimate(est, focused, planned) ==
  IF focused <= 0 \/ planned <= 0 THEN est
  ELSE LET r == Clip((1000 * focused) \div planned, SampleClip) IN
       [est EXCEPT !.ratio = IF est.n = 0 THEN r ELSE ((1000 - Alpha) * @ + Alpha * r) \div 1000,
                   !.n = @ + 1]

\* What the planner uses for a task of so many minutes.
EffectiveMinutes(minutes, est) ==
  IF est.n < MinSessions THEN minutes
  ELSE Max({(minutes * Clip(est.ratio, RatioClip) + 500) \div 1000, 5})

\* Mutant: the marker does not stop a session that was folded in before.
CountAgain(estimates, s) ==
  [estimates EXCEPT ![s.category] = [UpdateDurationEstimate(@, s.focused, s.planned) EXCEPT !.last = s.at]]

\* A finished session, unless the category's marker is at it or past it.
CountSession(estimates, s) ==
  IF s.at <= estimates[s.category].last THEN estimates
  ELSE [estimates EXCEPT ![s.category] = [UpdateDurationEstimate(@, s.focused, s.planned) EXCEPT !.last = s.at]]

InTime(sessions) == SetToSortSeq(sessions, LAMBDA s, t : s.at < t.at)

\* The sessions of the window, oldest first; saved: the categories whose row is written before the
\* pass ends, or fails.
UpdateDurations(stored, sessions, saved) ==
  LET next == FoldLeft(CountSession, stored, InTime(sessions)) IN
  [c \in DOMAIN stored |-> IF c \in saved THEN next[c] ELSE stored[c]]

-----------------------------------------------------------------------------
(* A moved block *)

Committed == {"shown", "accepted", "pinned", "moved", "completed"}

Touches(slot, from, to) == slot[2] >= from /\ slot[1] <= to

\* The placements about a slot that are plans or facts, without the moved one.
OtherBlocks(recs, rec, to) ==
  {r.slot : r \in {q \in recs : /\ q.id # rec.id /\ q.status \in Committed
                                /\ Touches(q.slot, to[1] - MinutesPerDay, to[2] + MinutesPerDay)}}

\* The busy events about a slot.
Busy(events, to) ==
  {e.slot : e \in {f \in events : f.busy /\ ~f.deleted /\ f.slot[1] < to[2] + MinutesPerDay
                                  /\ f.slot[2] > to[1] - MinutesPerDay}}

NoTarget == [bucket |-> Never]

\* The bucket, and the features that depend on the slot, from the grid of the slot's day.
TargetContext(zone, busy, others, deadline, to) ==
  LET grid     == DayGrid(WallClock(to[1], zone).day, 1, zone)
      occupied == Occupied(grid, busy \cup others)
      k        == TickFloor(grid, to[1])
      bucket   == BucketForTick(MinuteOf(grid, k), Weekday(grid, k) >= 5,
                                k \in FatiguedTicks(occupied, grid.ticks, FatigueRun, FatigueGap))
  IN IF k \notin Ticks(grid) \/ bucket = Never THEN NoTarget
     ELSE [bucket  |-> bucket,
           load    |-> TickMinutes * Cardinality(occupied \cap k - LoadTicks .. k - 1),
           urgency |-> IF deadline = Never THEN Never ELSE (deadline - to[1]) \div TickMinutes,
           day     |-> WallClock(to[2], zone).day]

\* Mutant: a placement with a pair needs no target, wherever it is.
NeedsTargetUnpaired(st, to) == to[2] > to[1] /\ ~st.pair

\* A move there is still something to do about.
NeedsTarget(st, to) == to[2] > to[1] /\ ~(st.rec.slot = to /\ st.pair)

\* Both tuples of the override, and the placement where it went.
OverridePair(st, to, target) ==
  [st EXCEPT !.pair = TRUE, !.pairs = Append(@, <<st.rec.bucket, target.bucket>>),
             !.rec = [@ EXCEPT !.status = "moved", !.slot = to, !.bucket = target.bucket]]

\* A pass over the placement's moves, the last of which counts; targets: what TargetContext gives each
\* slot; patched: the placement is written too, after the tuples, otherwise the pass failed in between.
MovePass(st, moves, targets, patched) ==
  LET to     == Last(moves)
      target == IF NeedsTarget(st, to) THEN targets[to] ELSE NoTarget
      paired == OverridePair(st, to, target)
  IN CASE moves = <<>> \/ to[2] <= to[1] -> st
       [] ~st.pair /\ target # NoTarget -> IF patched THEN paired ELSE [paired EXCEPT !.rec = st.rec]
       [] (st.pair \/ target = NoTarget) /\ st.rec.slot # to /\ patched ->
            [st EXCEPT !.rec = [@ EXCEPT !.status = "moved", !.slot = to,
                                         !.bucket = IF target = NoTarget THEN @ ELSE target.bucket]]
       [] OTHER -> st

-----------------------------------------------------------------------------
(* Who is visited *)

\* The due rows the database hands out, by user.
LoadDue(rows, limit) == LET due == SortSeq(rows, LAMBDA r, s : r.user < s.user) IN
  SubSeq(due, 1, Min({limit, Len(due)}))

\* Users of the first rows that are not delivered, in no order.
LoadUndeliveredUsers(rows, limit) ==
  LET read == SubSeq(rows, 1, Min({20 * limit, Len(rows)}))
      first(i) == \A j \in 1 .. i - 1 : read[j] # read[i]
      users == SelectSeq([i \in DOMAIN read |-> IF first(i) THEN read[i] ELSE 0], LAMBDA u : u # 0)
  IN SubSeq(users, 1, Min({limit, Len(users)}))

Users(due) == FoldLeft(LAMBDA seen, r : IF r.user \in ToSet(seen) THEN seen ELSE Append(seen, r.user), <<>>, due)

Visits(due, undelivered) ==
  Users(due) \o SelectSeq(undelivered, LAMBDA u : u \notin ToSet(Users(due)))

NoVisit == [visited |-> <<>>, busy |-> 0, leased |-> {}, stopped |-> FALSE]

\* Mutant: the lease of a pass that fails is not given back.
ProcessUserKeeps(acc, u, goes) ==
  CASE acc.stopped -> acc
    [] ~acc.stopped /\ goes[u] = "busy"  -> [acc EXCEPT !.busy = @ + 1]
    [] ~acc.stopped /\ goes[u] = "fails" -> [acc EXCEPT !.stopped = TRUE, !.leased = @ \cup {u}]
    [] OTHER -> [acc EXCEPT !.visited = Append(@, u)]

\* One user's pass under its lease, which is given back whatever happens; a pass that fails ends the sweep.
ProcessUser(acc, u, goes) ==
  CASE acc.stopped -> acc
    [] ~acc.stopped /\ goes[u] = "busy"  -> [acc EXCEPT !.busy = @ + 1]
    [] ~acc.stopped /\ goes[u] = "fails" -> [acc EXCEPT !.stopped = TRUE]
    [] OTHER -> [acc EXCEPT !.visited = Append(@, u)]

\* The answer to a call, and what it did; an instant call is a sweep of one user.
HandleAttribute(call, due, undelivered, goes) ==
  LET refuse(code) == [status |-> code, sweep |-> NoVisit]
      swept(users) == FoldLeft(LAMBDA acc, u : ProcessUser(acc, u, goes), NoVisit, users)
      daily == swept(Visits(LoadDue(due, call.rows), LoadUndeliveredUsers(undelivered, call.users)))
      one   == swept(<<call.user>>)
  IN CASE call.mode \notin {"daily", "instant"} -> refuse(400)
       [] call.mode = "daily" /\ ~call.backend -> refuse(401)
       [] call.mode = "daily" /\ call.backend -> [status |-> IF daily.stopped THEN 500 ELSE 200, sweep |-> daily]
       [] call.mode = "instant" /\ call.user = 0 -> refuse(IF call.backend THEN 400 ELSE 401)
       [] OTHER -> [status |-> CASE one.stopped -> 500 [] one.busy > 0 -> 409 [] OTHER -> 200, sweep |-> one]

-----------------------------------------------------------------------------
(* Labels: stored by the sync, delivered by each pass *)

\* Mutant: an error of the service counts as a delivery.
PostLabelsBlind(configured, answer) ==
  CASE ~configured -> "not_configured"
    [] configured /\ answer \in {"ok", "refused"} -> "ok"
    [] OTHER -> "failed"

\* Anything but an answer with a state version leaves the labels where they are.
PostLabels(configured, answer) ==
  CASE ~configured -> "not_configured"
    [] configured /\ answer = "ok" -> "ok"
    [] OTHER -> "failed"

\* The labels that wait, oldest first.
LoadUndeliveredLabels(labels, limit) ==
  LET waiting == SetToSortSeq({l \in labels : ~l.delivered}, LAMBDA l, m : l.id < m.id) IN
  ToSet(SubSeq(waiting, 1, Min({limit, Len(waiting)})))

MarkLabelsDelivered(labels, sent) == {[l EXCEPT !.delivered = @ \/ l \in sent] : l \in labels}

\* A pass's delivery; the service has what it took in.
DeliverLabels(st, configured, answer, limit) ==
  LET sent == LoadUndeliveredLabels(st.labels, limit) IN
  [labels  |-> IF PostLabels(configured, answer) = "ok" THEN MarkLabelsDelivered(st.labels, sent) ELSE st.labels,
   service |-> IF configured /\ answer \in {"ok", "lost"} THEN st.service \cup {l.id : l \in sent} ELSE st.service]

-----------------------------------------------------------------------------

\* What a category's sessions come to, each counted once, in the order they ended.
EachOnce(sessions, c) ==
  FoldLeft(LAMBDA est, s : UpdateDurationEstimate(est, s.focused, s.planned), NoEstimate,
           InTime({s \in sessions : s.category = c}))

\* The context of a slot by instants: its daypart by the clock, its load by the quarters in use before it.
InUse(q, intervals) == \E iv \in intervals : iv[1] < q + TickMinutes /\ q < iv[2]

ContextByInstants(zone, intervals, to) ==
  LET wc      == WallClock(to[1], zone)
      k       == to[1] - (wc.minute % TickMinutes)
      before(i) == k - i * TickMinutes
      today(i)  == WallClock(before(i), zone).day = wc.day
      used(i)   == today(i) /\ InUse(before(i), intervals)
      tired   == \E gap \in 0 .. FatigueGap : \A i \in 1 .. FatigueRun : used(gap + i)
      part    == DaypartForHour(wc.minute \div 60)
      weekend == wc.day % 7 >= 5
  IN IF part = Never THEN NoTarget
     ELSE [bucket |-> <<part, IF weekend THEN "we" ELSE "wd",
                        IF weekend \/ part \notin {"MO", "AF"} THEN Never ELSE IF tired THEN "fatigued" ELSE "fresh">>,
           load   |-> TickMinutes * Cardinality({i \in 1 .. LoadTicks : used(i)})]

=============================================================================
