------------------------------ MODULE Heuristic ------------------------------
(***************************************************************************)
(* The list scheduler of arm A and of the fallback: pinned tasks keep      *)
(* their instant, one experiment is drawn, the others are placed in        *)
(* order, whole at their earliest free start or in chunks.  Tasks are      *)
(* numbered; a task is [est, value, splittable, deadline, earliest,        *)
(* pinned], in minutes.  The random draw is a choice among its outcomes.   *)
(***************************************************************************)
EXTENDS Grid, Sequences, SequencesExt

None == [task |-> 0]      \* no draw

DMinTicks == 2
MaxChunks == 4
TopM == 4
MinBuckets == 2
MaxExperimentTicks == 8
FatigueRun == 6      \* 90 minutes of ticks
FatigueGap == 1      \* 15 minutes

-----------------------------------------------------------------------------
(* prepareHeuristic *)

TickOf(grid, t, Round(_, _)) == IF t = Never THEN Never ELSE Round(grid, t)

Spec(grid, t) ==
  LET pin == TickOf(grid, t.pinned, TickFloor)
      due == TickOf(grid, t.deadline, TickFloor)
  IN [duration |-> IF pin = Never THEN Max({1, CeilDiv(t.est, TickMinutes)})
                   ELSE Max({1, TickCeil(grid, t.pinned + t.est) - pin}),
      value |-> t.value, splittable |-> t.splittable, postponed |-> t.postponed,
      deadline |-> due, earliest |-> TickOf(grid, t.earliest, TickCeil), pinned |-> pin,
      critical |-> pin # Never \/ (due # Never /\ due <= grid.ticks)]

\* A pin outside the day or before 06:00, or a deadline behind it: no spec at all.
Outside(grid, t) ==
  LET s == Spec(grid, t) IN
  \/ /\ s.pinned # Never
     /\ \/ s.pinned < 0 \/ s.pinned + s.duration > grid.ticks
        \/ MinuteOf(grid, s.pinned) < 360
  \/ s.deadline # Never /\ s.deadline < 0

Span(start, size) == start .. start + size - 1

SpecsOf(grid, tasks) == [i \in {j \in DOMAIN tasks : ~Outside(grid, tasks[j])} |-> Spec(grid, tasks[i])]

\* Everything the draw and the scheduler read, computed once per request from the tasks' specs.
Prepare(grid, W, occupied, tasks, spec) ==
  LET ids       == DOMAIN spec
      pins      == {i \in ids : spec[i].pinned # Never}
      occupancy == occupied \cup UNION {Span(spec[i].pinned, spec[i].duration) : i \in pins}
      fatigued  == FatiguedTicks(occupancy, grid.ticks, FatigueRun, FatigueGap)
      starts(i, d) == FeasibleStarts(W, grid.ticks, d, spec[i].earliest, spec[i].deadline)
      full  == [i \in ids |-> IF i \in pins THEN {spec[i].pinned} ELSE starts(i, spec[i].duration)]
      chunk == [i \in ids |-> IF i \in pins \/ ~spec[i].splittable \/ spec[i].duration < 2 * DMinTicks
                              THEN {} ELSE starts(i, DMinTicks)]
  IN [grid |-> grid, tasks |-> tasks, ticks |-> grid.ticks, W |-> W, spec |-> spec, pins |-> pins, full |-> full, chunk |-> chunk,
      bucket |-> [k \in Ticks(grid) |->
                    BucketForTick(MinuteOf(grid, k), Weekday(grid, k) >= 5, k \in fatigued)],
      occupancy |-> occupancy,
      unplaceable |-> (DOMAIN tasks \ ids) \cup {i \in ids : full[i] = {} /\ chunk[i] = {}}]

\* k*: the earliest start in the bucket, whose features are logged for it; none if unreachable.
RepTick(prep, i, bucket) ==
  LET ks == {k \in prep.full[i] \cup prep.chunk[i] : prep.bucket[k] = bucket}
  IN IF ks = {} THEN Never ELSE Min(ks)

LoadWindow == 180
PostponeCap == 5

\* The snapshot logged with a block: a function of its task and its bucket at k*, not of its start.
Features(prep, i, bucket) ==
  LET s == prep.spec[i]  k == RepTick(prep, i, bucket) IN
  [daypart |-> bucket[1], weekend |-> bucket[2] = "we", fatigued |-> bucket[3] = "fatigued",
   value |-> s.value, splittable |-> s.splittable,
   urgency |-> IF s.deadline = Never THEN Never ELSE Max({s.deadline - k, 0}),
   postponed |-> Min({s.postponed, PostponeCap}),
   load |-> Min({TickMinutes * Cardinality(prep.occupancy \cap (k - LoadWindow \div TickMinutes .. k - 1)),
                 LoadWindow})]

-----------------------------------------------------------------------------
(* The evidence of a category and context, halved every 28 days *)

\* Time is counted in half-lives, evidence in units that divide evenly; evidence delivered out of
\* order is not magnified.
DecayFactor(elapsed) == 2 ^ Max({elapsed, 0})

PosteriorUnclamped(cell, now) ==
  LET e == IF cell.last = Never THEN 0 ELSE now - cell.last
      faded(x) == IF e < 0 THEN x * 2 ^ (-e) ELSE x \div 2 ^ e
  IN [alpha |-> cell.alpha + faded(cell.succ), beta |-> cell.beta + faded(cell.fail)]

Posterior(cell, now) ==
  LET w == IF cell.last = Never THEN 1 ELSE DecayFactor(now - cell.last) IN
  [alpha |-> cell.alpha + cell.succ \div w, beta |-> cell.beta + cell.fail \div w]

FallbackCell == [alpha |-> 2, beta |-> 2, succ |-> 0, fail |-> 0, last |-> Never]

\* A context without a cell of its own reads the flat prior.
PosteriorTable(cells, keys, now) ==
  [key \in keys |-> Posterior(IF key \in DOMAIN cells THEN cells[key] ELSE FallbackCell, now)]

\* seededRng.int: a w-bit word beyond the largest multiple of n is drawn again.
AcceptedAll(w, n) == 0 .. 2 ^ w - 1
Accepted(w, n) == 0 .. (2 ^ w - (2 ^ w % n)) - 1

\* How many words of an int(n) give r.
Odds(w, n, r) == Cardinality({u \in Accepted(w, n) : u % n = r})

-----------------------------------------------------------------------------
(* Pinned tasks *)

Blocked(start, size) == Span(start, size + BufferTicks)
Whole(i, start, size) == [task |-> i, chunk |-> 0, start |-> start, size |-> size]

PlacePin(prep, acc, i) ==
  LET s == prep.spec[i]
      mine == Span(s.pinned, s.duration)
  IN IF mine \cap acc.pinned # {} THEN [acc EXCEPT !.infeasible = @ \cup {i}]
     ELSE [acc EXCEPT !.pinned = @ \cup mine,
                      !.free = @ \ Blocked(s.pinned, s.duration),
                      !.blocks = @ \cup {Whole(i, s.pinned, s.duration)}]

Pinned(prep) ==
  FoldLeft(LAMBDA acc, i : PlacePin(prep, acc, i),
           [free |-> prep.W, pinned |-> {}, blocks |-> {}, infeasible |-> {}],
           SetToSortSeq(prep.pins, LAMBDA i, j : prep.spec[i].pinned * 1000 + i < prep.spec[j].pinned * 1000 + j))

-----------------------------------------------------------------------------
(* The matched draw *)

BucketsOf(prep, i) == {prep.bucket[k] : k \in prep.full[i]} \ {Never}

Eligible(prep) ==
  {i \in DOMAIN prep.spec \ (prep.unplaceable \cup prep.pins) :
     /\ ~prep.spec[i].critical
     /\ prep.spec[i].duration <= MaxExperimentTicks
     /\ Cardinality(BucketsOf(prep, i)) >= MinBuckets}

FirstStartIn(prep, i, b) == Min({k \in prep.full[i] : prep.bucket[k] = b})

\* The m buckets reached first: the heuristic's own ranking.
TopMBuckets(prep, i) ==
  {b \in BucketsOf(prep, i) :
     Cardinality({c \in BucketsOf(prep, i) : FirstStartIn(prep, i, c) < FirstStartIn(prep, i, b)})
       < TopM}

\* With epsilon = 1 a task is always drawn when one is eligible.
Draws(prep) ==
  IF Eligible(prep) = {} THEN {None}
  ELSE UNION {{[task |-> i, bucket |-> b, of |-> Cardinality(TopMBuckets(prep, i))] :
                 b \in TopMBuckets(prep, i)} : i \in Eligible(prep)}

FitsNoBuffer(free, start, size) == Span(start, size) \subseteq free
Fits(free, start, size) == Blocked(start, size) \subseteq free

-----------------------------------------------------------------------------
(* Deadline first, then priority tiers, at the earliest free start *)

DueOr(s) == IF s.deadline = Never THEN 1000000 ELSE s.deadline

\* compareSpecs, as the key it compares from left to right.
SortKey(prep, i) ==
  LET s == prep.spec[i] IN
  IF s.critical THEN <<0, DueOr(s), -s.value, -s.duration, i>>
                ELSE <<1, -s.value, DueOr(s), -s.duration, i>>

Before(prep, i, j) ==
  LET a == SortKey(prep, i)  b == SortKey(prep, j) IN
  \E n \in 1 .. 5 : a[n] < b[n] /\ \A o \in 1 .. n - 1 : a[o] = b[o]

RunAt(free, k) == Min({j \in k .. k + Cardinality(free) + 1 : j \notin free}) - k

\* What a chunk at k takes of the rest: never so much that less than a chunk is left over.
ChunkSize(run, rest, room) ==
  LET size == Min({rest, run - BufferTicks, room}) IN
  IF size >= DMinTicks /\ rest - size > 0 /\ rest - size < DMinTicks THEN rest - DMinTicks ELSE size

RECURSIVE PlaceChunks(_, _, _, _, _, _)
PlaceChunks(prep, i, free, k, rest, placed) ==
  LET s    == prep.spec[i]
      run  == RunAt(free, k)
      room == (IF s.deadline = Never THEN prep.ticks ELSE s.deadline) - k
      size == ChunkSize(run, rest, room)
  IN IF rest = 0 THEN placed
     ELSE IF Cardinality(placed) = MaxChunks \/ k >= prep.ticks THEN {}
     ELSE IF k \notin free \/ k \notin prep.chunk[i]
          THEN PlaceChunks(prep, i, free, k + 1, rest, placed)
     ELSE IF size < DMinTicks THEN PlaceChunks(prep, i, free, k + Max({run, 1}), rest, placed)
     ELSE PlaceChunks(prep, i, free \ Blocked(k, size), k + size + BufferTicks, rest - size,
                      placed \cup {[task |-> i, chunk |-> Cardinality(placed), start |-> k,
                                    size |-> size]})

\* The chunks of a task, or none at all when they cannot cover it.
PlaceChunked(prep, i, free) ==
  IF prep.chunk[i] = {} THEN {}
  ELSE PlaceChunks(prep, i, free, Min(prep.chunk[i]), prep.spec[i].duration, {})

Take(acc, blocks) ==
  [free |-> acc.free \ UNION {Blocked(b.start, b.size) : b \in blocks}, blocks |-> acc.blocks \cup blocks]

PlaceTask(prep, acc, i) ==
  LET d  == prep.spec[i].duration
      ks == {k \in prep.full[i] : Fits(acc.free, k, d)}
  IN Take(acc, IF ks # {} THEN {Whole(i, Min(ks), d)} ELSE PlaceChunked(prep, i, acc.free))

\* heuristicPlan for one outcome of the draw.
HeuristicPlan(prep, draw) ==
  LET pinned == Pinned(prep)
      inBucket == IF draw = None THEN {}
                  ELSE {k \in prep.full[draw.task] : /\ prep.bucket[k] = draw.bucket
                                                     /\ Fits(pinned.free, k, prep.spec[draw.task].duration)}
      kept   == IF inBucket = {} THEN None ELSE draw
      base   == [free |-> pinned.free, blocks |-> pinned.blocks]
      start  == IF kept = None THEN base
                ELSE Take(base, {Whole(draw.task, Min(inBucket), prep.spec[draw.task].duration)})
      first  == {b.task : b \in start.blocks}
      order  == SetToSortSeq(DOMAIN prep.spec \ (prep.pins \cup prep.unplaceable \cup first),
                             LAMBDA i, j : Before(prep, i, j))
      done   == FoldLeft(LAMBDA acc, i : PlaceTask(prep, acc, i), start, order)
  IN [blocks |-> done.blocks, draw |-> kept, infeasible |-> pinned.infeasible]

\* Why a task has no block.
UnplacedReason(prep, plan, i) ==
  CASE i \in plan.infeasible -> "infeasible"
    [] i \in prep.unplaceable \ plan.infeasible -> "no_feasible_start"
    [] OTHER -> "deferred"

UrgentTicks == 11      \* e^(-u / 16) is at least a half

Rationale(prep, plan, b) ==
  LET due == prep.spec[b.task].deadline IN
  IF b.task \in prep.pins THEN "pinned"
  ELSE IF plan.draw.task = b.task THEN "experiment"
  ELSE IF due # Never /\ due - b.start <= UrgentTicks THEN "deadline_pressure" ELSE "earliest_feasible"

\* rationaleSentence: each of the service's keys has a sentence of its own, the rest a generic one.
RationaleKeys == {"pinned", "experiment", "deadline_pressure", "energy_peak", "fresh_slot",
                  "earliest_feasible", "best_available"}
RationaleSentence(key) == IF key \in RationaleKeys THEN key ELSE "generic"

\* The row of a block: a pinned one keeps the user's minutes, the experiment's has its odds.
Assignment(prep, plan, b) ==
  LET t == prep.tasks[b.task] IN
  [slot |-> IF b.task \in prep.pins THEN <<t.pinned, t.pinned + t.est>>
            ELSE <<TickStart(prep.grid, b.start), TickStart(prep.grid, b.start + b.size)>>,
   rationale |-> Rationale(prep, plan, b),
   oneOf |-> IF plan.draw.task = b.task THEN plan.draw.of ELSE Never]

-----------------------------------------------------------------------------
(* What a plan promises. *)

BlocksOf(plan, i) == {b \in plan.blocks : b.task = i}
Placed(plan) == {b.task : b \in plan.blocks}

\* Blocks lie apart, a buffer between them unless both are pinned; an unpinned one lies in W
\* with its buffer, inside its task's limits.
HardConstraints(prep, plan) ==
  /\ \A b, c \in plan.blocks :
       b # c => Span(b.start, b.size) \cap
                Span(c.start, c.size + (IF {b.task, c.task} \subseteq prep.pins THEN 0 ELSE BufferTicks))
                = {}
  /\ \A b \in plan.blocks : LET s == prep.spec[b.task] IN
       IF b.task \in prep.pins THEN b.start = s.pinned
       ELSE /\ Blocked(b.start, b.size) \subseteq prep.W
            /\ s.earliest # Never => s.earliest <= b.start
            /\ s.deadline # Never => b.start + b.size <= s.deadline

\* A task is placed as a whole: its chunks add up, none is too short, there are at most four.
Complete(prep, plan) ==
  \A i \in Placed(plan) : LET bs == BlocksOf(plan, i) IN
    /\ MapThenSumSet(LAMBDA b : b.size, bs) = prep.spec[i].duration
    /\ Cardinality(bs) > 1 =>
         /\ prep.spec[i].splittable /\ Cardinality(bs) <= MaxChunks
         /\ \A b \in bs : b.size >= DMinTicks   \* DMinTicks: half an hour
    /\ {b.chunk : b \in bs} = 0 .. Cardinality(bs) - 1

\* Every block has a bucket reached at some tick k* of its own task, no later than the block,
\* whose features can be logged.
Explained(prep, plan) ==
  \A b \in plan.blocks : LET k == RepTick(prep, b.task, prep.bucket[b.start]) IN
    /\ prep.bucket[b.start] # Never /\ k # Never /\ k <= b.start
    /\ Features(prep, b.task, prep.bucket[b.start]).load \in 0 .. LoadWindow

\* The experiment sits in the bucket it was drawn for, and is no task somebody waits for.
ExperimentHonest(prep, plan) ==
  plan.draw # None =>
    /\ ~prep.spec[plan.draw.task].critical /\ plan.draw.of \in MinBuckets .. TopM
    /\ \A b \in BlocksOf(plan, plan.draw.task) : prep.bucket[b.start] = plan.draw.bucket
    /\ plan.draw.task \in Placed(plan)

\* A task is deferred only if no start of it is left among the blocks of the others.
NothingLeftOut(prep, plan) ==
  LET free == prep.W \ UNION {Blocked(b.start, b.size) : b \in plan.blocks} IN
  \A i \in DOMAIN prep.spec \ Placed(plan) :
    UnplacedReason(prep, plan, i) = "deferred" =>
      ~\E k \in prep.full[i] : Fits(free, k, prep.spec[i].duration)

\* The slots shown do not overlap, though a pin is rounded to ticks only while it is planned; the
\* odds of the draw are logged with one block, and each block's reason has words of its own.
RowsSound(prep, plan) ==
  LET row(b) == Assignment(prep, plan, b) IN
  /\ \A b, c \in plan.blocks : b # c => row(b).slot[2] <= row(c).slot[1] \/ row(c).slot[2] <= row(b).slot[1]
  /\ {b \in plan.blocks : row(b).oneOf # Never} = BlocksOf(plan, plan.draw.task)
  /\ \A b \in plan.blocks : /\ RationaleSentence(row(b).rationale) # "generic"
                             /\ (row(b).rationale = "experiment") = (row(b).oneOf # Never)

PlanSound(prep, plan) ==
  /\ HardConstraints(prep, plan) /\ Complete(prep, plan) /\ Explained(prep, plan) /\ RowsSound(prep, plan)
  /\ ExperimentHonest(prep, plan) /\ NothingLeftOut(prep, plan)
=============================================================================
