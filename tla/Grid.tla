-------------------------------- MODULE Grid --------------------------------
(***************************************************************************)
(* The planning grid of a day: local midnight in a zone whose clock may    *)
(* change, the workable ticks, the ticks a task may start at, and the      *)
(* context bucket of a tick.  Instants and wall clocks are in minutes; a   *)
(* zone is [before, after, at]: its offsets and when they change.          *)
(***************************************************************************)
EXTENDS Integers, FiniteSets, FiniteSetsExt

CONSTANT Never    \* no hours, no sleep window, no deadline, no daypart

MinutesPerDay == 1440
TickMinutes == 15
BufferTicks == 1

Offset(t, zone) == IF t < zone.at THEN zone.before ELSE zone.after

\* wallClock: the date (a day number) and the minute of the day.
WallClock(t, zone) ==
  LET local == t + Offset(t, zone) IN
  [day |-> local \div MinutesPerDay, minute |-> local % MinutesPerDay]

\* The 180 minutes localMidnightUtcMs looks ahead over a gap.
Ahead == 0 .. 179

CorrectedOnce(t, naive, zone) == naive - Offset(naive, zone)
Corrected(t, naive, zone) == naive - Offset(t, zone)

\* The walk stops on the day's 00:00, or past it when the clock skips it.
ReachesDay(t, day, zone) ==
  LET wc == WallClock(t, zone) IN
  (wc.day = day /\ wc.minute = 0) \/ wc.day > day

LocalMidnight(day, zone) ==
  LET naive == day * MinutesPerDay
      t     == Corrected(Corrected(naive, naive, zone), naive, zone)
      stops == {i \in Ahead : ReachesDay(t + i, day, zone)}
  IN IF stops = {} THEN Never ELSE t + Min(stops)

CeilDiv(a, b) == -((-a) \div b)

\* A window that ends before it starts wraps midnight.
InWindow(minute, window) ==
  IF window[1] <= window[2] THEN window[1] <= minute /\ minute < window[2]
                            ELSE minute >= window[1] \/ minute < window[2]

Dayparts == <<"EM", "MO", "MD", "AF", "EV", "NT">>
Boundaries == <<6, 9, 12, 14, 17, 20, 24>>

\* The daypart of an hour; none before 06:00.
DaypartForHour(hour) ==
  IF hour < 6 THEN Never
  ELSE Dayparts[CHOOSE i \in 1 .. 6 : Boundaries[i] <= hour /\ hour < Boundaries[i + 1]]

Split == {"MO", "AF"}

\* The tick at a wall-clock minute lies in the declared hours, outside sleep and the night.
InHours(minute, hours, sleep) ==
  /\ hours # Never
  /\ hours[1] <= minute /\ minute + TickMinutes <= hours[2]
  /\ sleep # Never => ~InWindow(minute, sleep)
  /\ DaypartForHour(minute \div 60) # Never

\* buildGrid: the horizon of one day, or of seven, from midnight to midnight.
DayGrid(day, days, zone) ==
  LET origin == LocalMidnight(day, zone)
      end    == LocalMidnight(day + days, zone)
  IN [origin |-> origin, zone |-> zone, ticks |-> CeilDiv(end - origin, TickMinutes)]

Ticks(grid) == 0 .. grid.ticks - 1
TickStart(grid, k) == grid.origin + k * TickMinutes
TickFloor(grid, t) == (t - grid.origin) \div TickMinutes
TickCeil(grid, t) == CeilDiv(t - grid.origin, TickMinutes)
MinuteOf(grid, k) == WallClock(TickStart(grid, k), grid.zone).minute
Weekday(grid, k) == WallClock(TickStart(grid, k), grid.zone).day % 7    \* day 0 is a Monday

BusyTouching(grid, iv) == TickFloor(grid, iv[1]) .. TickCeil(grid, iv[2]) - 1
BusyTicks(grid, iv) == TickFloor(grid, iv[1]) - BufferTicks .. TickCeil(grid, iv[2]) + BufferTicks - 1

\* W: the hours of the weekday, from now on, away from the events.
Workable(grid, hours, sleep, now, busy) ==
  {k \in Ticks(grid) : /\ InHours(MinuteOf(grid, k), hours[Weekday(grid, k)], sleep)
                       /\ now # Never => k >= TickCeil(grid, now)
                       /\ \A iv \in busy : k \notin BusyTicks(grid, iv)}

\* Ticks under an event: the occupancy the bucket of a tick reads.
Occupied(grid, busy) == UNION {BusyTouching(grid, iv) : iv \in busy} \cap Ticks(grid)

\* ADR-0019: the day has a window before the clock and the calendar are applied.
HasWorkingWindow(grid, hours, sleep) == Workable(grid, hours, sleep, Never, {}) # {}

\* The device's own answer to the same question, on a day of 24 hours.
HasWorkingWindowOn(hours, sleep) ==
  /\ hours # Never
  /\ LET first == Max({CeilDiv(hours[1], TickMinutes) * TickMinutes, 6 * 60})
         end   == Min({hours[2], MinutesPerDay})
     IN \E i \in 0 .. MinutesPerDay \div TickMinutes :
          LET m == first + i * TickMinutes IN
          m + TickMinutes <= end /\ (sleep # Never => ~InWindow(m, sleep))

\* R[k]: consecutive members of W from k on.
RunLengths(W, n) ==
  LET r[k \in 0 .. n] == IF k = n \/ k \notin W THEN 0 ELSE 1 + r[k + 1]
  IN r

FeasibleNoBuffer(W, n, d, earliest, deadline) ==
  LET hi == IF deadline = Never THEN n ELSE Min({deadline - d, n})
  IN {k \in (IF earliest = Never THEN 0 ELSE Max({earliest, 0})) .. hi : k < n /\ RunLengths(W, n)[k] >= d}

\* F: a start with the task and its buffer inside W, from earliest on, done by the deadline.
FeasibleStarts(W, n, d, earliest, deadline) ==
  LET r  == RunLengths(W, n)
      lo == IF earliest = Never THEN 0 ELSE Max({earliest, 0})
      hi == IF deadline = Never THEN n ELSE Min({deadline - d, n})
  IN {k \in lo .. hi : k < n /\ r[k] >= d + BufferTicks}

\* Occupied ticks in a row up to, not including, k.
RunBefore(occupancy, n) ==
  LET r[k \in 0 .. n] == IF k = 0 \/ k - 1 \notin occupancy THEN 0 ELSE 1 + r[k - 1]
  IN r

\* A long occupied run ends at most maxGap ticks before k.
FatiguedTicks(occupancy, n, minRun, maxGap) ==
  LET r == RunBefore(occupancy, n) IN
  {k \in 0 .. n - 1 : \E gap \in 0 .. maxGap : k - gap >= 0 /\ r[k - gap] >= minRun}

\* The bucket: daypart, day type, and fresh or fatigued on weekday mornings and afternoons.
BucketForTick(minute, weekend, fatigued) ==
  LET part == DaypartForHour(minute \div 60) IN
  IF part = Never THEN Never
  ELSE <<part, IF weekend THEN "we" ELSE "wd",
         IF weekend \/ part \notin Split THEN Never
         ELSE IF fatigued THEN "fatigued" ELSE "fresh">>

-----------------------------------------------------------------------------
(* What the operators promise. *)

\* The first instant whose wall-clock date is the day (offsets are whole quarters of an hour).
FirstInstant(day, zone) ==
  day * MinutesPerDay + 15 * Min({q \in -72 .. 72 :
      WallClock(day * MinutesPerDay + 15 * q, zone).day = day})

\* The clock is put back over the day's midnight: it comes twice.
MidnightTwice(day, zone) ==
  Cardinality({q \in -72 .. 72 :
     WallClock(day * MinutesPerDay + 15 * q, zone) = [day |-> day, minute |-> 0]}) > 1

MidnightFound(day, zone) ==
  ~MidnightTwice(day, zone) => LocalMidnight(day, zone) = FirstInstant(day, zone)

\* W by instants: a tick widened by its buffer misses every event, and nothing of it has passed.
WorkableByInstants(grid, hours, sleep, now, busy) ==
  {k \in Ticks(grid) :
     LET s == TickStart(grid, k)
         m == WallClock(s, grid.zone).minute
         h == hours[WallClock(s, grid.zone).day % 7]
         b == BufferTicks * TickMinutes
     IN /\ h # Never /\ h[1] <= m /\ m + TickMinutes <= h[2] /\ m >= 360
        /\ sleep # Never => ~InWindow(m, sleep)
        /\ now # Never => s >= now
        /\ \A iv \in busy : ~(s - b < iv[2] /\ iv[1] < s + TickMinutes + b)}

StartsByDefinition(W, n, d, earliest, deadline) ==
  {k \in 0 .. n - 1 : /\ k .. k + d + BufferTicks - 1 \subseteq W
                      /\ earliest # Never => earliest <= k
                      /\ deadline # Never => k + d <= deadline}

FatiguedByDefinition(occupancy, n, minRun, maxGap) ==
  {k \in 0 .. n - 1 : \E e \in k - maxGap .. k :
      e - minRun >= 0 /\ e - minRun .. e - 1 \subseteq occupancy}
=============================================================================
