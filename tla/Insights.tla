------------------------------ MODULE Insights ------------------------------
(***************************************************************************)
(* The trust surfaces: plan adherence by ISO week, the energy heatmap, the *)
(* labels a user puts on a belief, and the document that carries them from *)
(* the service to the screen.  Pure: functions of facts, cells and         *)
(* answers.  Minutes; day 0 is Monday, 1 January 2024.                     *)
(***************************************************************************)
EXTENDS Grid, Sequences, SequencesExt

Nothing == "none"

-----------------------------------------------------------------------------
(* ISO weeks *)

\* The first day of 2024 + y; a leap year comes first.
YearStart(y) == 365 * y + CeilDiv(y, 4)
YearOf(day) == CHOOSE y \in -1 .. 40 : YearStart(y) <= day /\ day < YearStart(y + 1)

IsoWeekOwnYear(day) ==
  <<YearOf(day), CeilDiv(day - (day % 7) + 3 - YearStart(YearOf(day)) + 1, 7)>>

\* isoWeek, isoWeekOf: the week of its Thursday.
IsoWeek(day) ==
  LET thursday == day - (day % 7) + 3 IN
  <<YearOf(thursday), CeilDiv(thursday - YearStart(YearOf(thursday)) + 1, 7)>>

Earlier(v, w) == v[1] < w[1] \/ (v[1] = w[1] /\ v[2] < w[2])

\* The weeks begin on Mondays, and week 1 holds 4 January.
FirstMonday(y) == LET fourth == YearStart(y) + 3 IN fourth - (fourth % 7)
WeekByDefinition(day) ==
  LET y == CHOOSE x \in -1 .. 40 : FirstMonday(x) <= day /\ day < FirstMonday(x + 1)
  IN <<y, (day - FirstMonday(y)) \div 7 + 1>>

-----------------------------------------------------------------------------
(* Plan adherence.  A block is [id, start, end, status]; a focus_end fact is [rec, started,      *)
(* focused, planned, finished, stale]; facts come newest first.                                  *)

ParGrace == 15
ParSkipped == {"displaced", "displaced_pending", "expired"}

InGrace(block, facts) ==
  {i \in DOMAIN facts : /\ facts[i].rec = block.id /\ facts[i].started # Never
                        /\ facts[i].started - block.start \in -ParGrace .. ParGrace}

\* The last fact read that names its planned minutes decides them.
PlannedOf(block, facts, own) ==
  LET named == {i \in own : facts[i].planned > 0}
  IN IF named = {} THEN Max({block.end - block.start, 1}) ELSE facts[Max(named)].planned

Focused(facts, own) == MapThenSumSet(LAMBDA i : Max({facts[i].focused, 0}), own)

\* At least half of what was planned.
Adhered(block, facts, own) ==
  \/ \E i \in own : facts[i].finished
  \/ own # {} /\ 2 * Focused(facts, own) >= PlannedOf(block, facts, own)

ParOfBlock(block, facts) == Adhered(block, facts, InGrace(block, facts))

\* The sessions of observe, in the reward mapping: a stale one is no evidence of focus.
Credited(block, facts) ==
  Adhered(block, facts, {i \in InGrace(block, facts) : ~facts[i].stale})

AdherenceWeeks == 8
SevenDays == 7 * MinutesPerDay

LoadedOnlyShown(blocks, now) == {b \in blocks : b.end >= now - AdherenceWeeks * SevenDays}

\* What handleInsights loads: the blocks that end in the last nine weeks.
LoadedBlocks(blocks, now) == {b \in blocks : b.end >= now - (AdherenceWeeks + 1) * SevenDays}

WeekOfBlock(b, zone) == IsoWeek(WallClock(b.start, zone).day)

\* A block still under way is no outcome yet.
Counted(blocks, now) == {b \in blocks : b.status \notin ParSkipped /\ b.end <= now}

\* weeklyPar: per week with a counted block, of the latest eight, the blocks and those adhered to.
WeeklyPar(blocks, facts, zone, now, weeks) ==
  LET counted == Counted(blocks, now)
      all   == {WeekOfBlock(b, zone) : b \in counted}
      shown == {w \in all : Cardinality({v \in all : Earlier(w, v)}) < weeks}
      of(w) == {b \in counted : WeekOfBlock(b, zone) = w}
  IN [w \in shown |-> [n |-> Cardinality(of(w)),
                      hit |-> Cardinality({b \in of(w) : ParOfBlock(b, facts)})]]

\* The newest review names this week.
DoneThisWeek(reviews, today) == reviews # <<>> /\ reviews[1].week = IsoWeek(today)

-----------------------------------------------------------------------------
(* The heatmap.  Cells are a function from <<daypart, day type>> to [mean, n, personal], the mean in percent. *)

DayTypeOf(weekday) == IF weekday >= 5 THEN "weekend" ELSE "weekday"
DaypartOfHour(hour) == DaypartForHour(hour)

NoCell == [mean |-> Never, n |-> 0, personal |-> FALSE]
GridHours == 6 .. 23

BuildHeatmapGridShort(cells) ==
  [hw \in GridHours \X (0 .. 6) |->
     LET key == <<DaypartOfHour(hw[1]), IF hw[2] > 5 THEN "weekend" ELSE "weekday">>
     IN IF key \in DOMAIN cells THEN cells[key] ELSE NoCell]

\* 18 hours by 7 weekdays: a daypart's cell on each of its hours, a day type's on each of its days.
BuildHeatmapGrid(cells) ==
  [hw \in GridHours \X (0 .. 6) |->
     LET key == <<DaypartOfHour(hw[1]), DayTypeOf(hw[2])>>
     IN IF key \in DOMAIN cells THEN cells[key] ELSE NoCell]

\* The dayparts of a day type that have a cell, in order.
SummaryRows(cells, type) == SelectSeq(Dayparts, LAMBDA p : <<p, type>> \in DOMAIN cells)

\* The first of the extreme ones.
BestOf(cells, type) ==
  LET rows == SummaryRows(cells, type)
      best(p) == \A q \in ToSet(rows) : cells[<<q, type>>].mean <= cells[<<p, type>>].mean
  IN IF rows = <<>> THEN Nothing ELSE SelectSeq(rows, best)[1]

LowestOf(cells, type) ==
  LET rows == SummaryRows(cells, type)
      lowest(p) == \A q \in ToSet(rows) : cells[<<q, type>>].mean >= cells[<<p, type>>].mean
  IN IF rows = <<>> THEN Nothing ELSE SelectSeq(rows, lowest)[1]

-----------------------------------------------------------------------------
(* Labels of one belief on two devices.  A fact is [label, at]; rows are a device's own facts,    *)
(* delivered is what reached the service, in order, doc the document's label on each device.      *)

Devices == {1, 2}

\* BeliefCard: the pressed mark is set, or taken back.
Toggle(label, mark) == IF label = mark THEN Nothing ELSE mark

\* No fact, or no label in the document: older than any.
NoLabel == [label |-> Nothing, at |-> -1]

\* latestLocalLabels over beliefLabelsQuery's order: the newest by client time.
LatestLocal(rows) ==
  IF rows = {} THEN NoLabel
  ELSE CHOOSE r \in rows : \A q \in rows : q.at <= r.at

LatestDelivered(delivered) == Last(<<NoLabel>> \o delivered)

\* latest_labels of the service: the latest by labeled_at, the later delivery among equals.
LatestLabel(delivered) ==
  IF delivered = <<>> THEN NoLabel
  ELSE LET last == Max({delivered[i].at : i \in DOMAIN delivered})
       IN delivered[Max({i \in DOMAIN delivered : delivered[i].at = last})]

\* labelOf: the device's own fact unless the document has a newer one; the document also names
\* the label that was taken back.
LabelOf(rows, server) ==
  LET local == LatestLocal(rows)
  IN IF local # NoLabel /\ local.at >= server.at THEN local.label ELSE server.label

Unlabelled == [rows |-> [d \in Devices |-> {}], delivered |-> <<>>, doc |-> [d \in Devices |-> NoLabel]]

Labelled(st, d) == LabelOf(st.rows[d], st.doc[d])

\* labelBelief: a fact of the device's own, at its client time.
LabelBelief(st, d, mark, at) ==
  [st EXCEPT !.rows[d] = @ \cup {[label |-> Toggle(Labelled(st, d), mark), at |-> at]}]

\* The outbox delivers a device's facts in order, each once.
Deliver(st, d) ==
  [st EXCEPT !.delivered = @ \o SetToSortSeq(st.rows[d] \ ToSet(@), LAMBDA f, g : f.at < g.at)]

Refresh(st, d) == [st EXCEPT !.doc[d] = LatestLabel(st.delivered)]

-----------------------------------------------------------------------------
(* The document's way to the screen.  A visit is what a load meets: [user, session, online,       *)
(* onboarded, service]; the cache is the account whose document is kept, or Nothing.              *)

\* handleInsights: its guards in order; the answer is about the token's account.
HandleInsights(visit) ==
  CASE visit.session = Nothing -> [status |-> 401, of |-> Nothing]
    [] ~visit.onboarded -> [status |-> 404, of |-> Nothing]
    [] ~visit.service -> [status |-> 503, of |-> Nothing]
    [] OTHER -> [status |-> 200, of |-> visit.session]

\* invokeFunction and fetchInsights.
FetchOutcome(visit) ==
  IF visit.session = Nothing THEN "no-session"
  ELSE IF ~visit.online THEN "offline"
  ELSE LET status == HandleInsights(visit).status IN
       CASE status = 200 -> "ok" [] status = 503 -> "unavailable"
         [] status = 404 -> "profile_missing" [] OTHER -> "failed"

\* The document is cached under the session's account.
CacheAfter(visit, cache) == IF FetchOutcome(visit) = "ok" THEN visit.session ELSE cache

CachedAnyones(user, cache) == cache

\* cachedInsights: another account's document is none of this one's.
CachedInsights(user, cache) == IF cache = user THEN cache ELSE Nothing

\* The tab mounts on the cached document; load replaces it, and names what went wrong above it.
Shown(visit, cache) ==
  IF FetchOutcome(visit) = "ok" THEN HandleInsights(visit).of ELSE CachedInsights(visit.user, cache)
Notice(visit) ==
  LET outcome == FetchOutcome(visit)
  IN CASE outcome \in {"ok", "profile_missing"} -> Nothing
       [] outcome = "failed" -> "error" [] OTHER -> outcome
=============================================================================
