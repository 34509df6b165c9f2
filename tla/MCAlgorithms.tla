---------------------------- MODULE MCAlgorithms ----------------------------
(***************************************************************************)
(* The pure algorithms over bounded inputs: a step picks one input of one  *)
(* family, and the invariants compare what the code computes for it with   *)
(* a reference.  Instants are minutes, day 0 is a Monday.                  *)
(***************************************************************************)
EXTENDS Heuristic, Insights, Capture, Profile

VARIABLE input

NoInput == [kind |-> "none"]
Init == input = NoInput
Pick(kind, x) == input' = [kind |-> kind, x |-> x]

-----------------------------------------------------------------------------
(* Local midnight, the grid, feasible starts and fatigue *)

Zones == {[before |-> b, after |-> b + c, at |-> q * 30] :
            b \in {-300, 0, 345}, c \in {-60, 0, 60}, q \in -12 .. 22}

PickZone == \E zone \in Zones, day \in {0, 1} : Pick("zone", [zone |-> zone, day |-> day])

\* The clock skips the day's midnight.
MidnightSkipped(day, zone) ==
  WallClock(FirstInstant(day, zone), zone).minute # 0

NoChange == [before |-> 120, after |-> 120, at |-> 0]
Spring == [before |-> 120, after |-> 180, at |-> 60]
Hours(h) == [d \in 0 .. 6 |-> IF d = 6 THEN Never ELSE h]

PickDay ==
  \E zone \in {NoChange, Spring}, day \in {0, 6},
     hours \in {<<540, 660>>, <<300, 405>>, <<1395, 1440>>},
     sleep \in {Never, <<1410, 390>>, <<600, 615>>},
     now \in {Never, 7 * 60 + 10, 9 * 60 + 15}, at \in {420, 455, 480}, size \in {0, 10, 30} :
       Pick("day", [grid |-> DayGrid(day, 1, zone), hours |-> Hours(hours), sleep |-> sleep, now |-> now,
                    busy |-> {<<at, at + size>>}])

PickStarts ==
  \E W \in SUBSET (0 .. 5), d \in 1 .. 3, e \in {Never, -1, 1, 3}, due \in {Never, 2, 4, 7} :
    Pick("starts", [W |-> W, n |-> 6, d |-> d, e |-> e, due |-> due])

\* The grid, its midnight, the feasible starts and the fatigued ticks are what instants say.
GridSound ==
  /\ input.kind = "zone" /\ ~MidnightSkipped(input.x.day, input.x.zone) =>
       MidnightFound(input.x.day, input.x.zone)
  /\ input.kind = "day" => LET x == input.x IN
       /\ Workable(x.grid, x.hours, x.sleep, x.now, x.busy)
            = WorkableByInstants(x.grid, x.hours, x.sleep, x.now, x.busy)
       /\ x.grid.ticks = 96 =>
            (HasWorkingWindow(x.grid, x.hours, x.sleep)
               <=> HasWorkingWindowOn(x.hours[Weekday(x.grid, 0)], x.sleep))
  /\ input.kind = "starts" => LET x == input.x IN
       /\ FeasibleStarts(x.W, x.n, x.d, x.e, x.due) = StartsByDefinition(x.W, x.n, x.d, x.e, x.due)
       /\ FatiguedTicks(x.W, x.n, x.d, 1) = FatiguedByDefinition(x.W, x.n, x.d, 1)

-----------------------------------------------------------------------------
(* The heuristic plan *)

Day == DayGrid(0, 1, NoChange)
At(h, m) == h * 60 + m - 120      \* the instant of a wall clock of NoChange

T(est, value, split, due, from, pin) ==
  [est |-> est, value |-> value, splittable |-> split, postponed |-> 0,
   deadline |-> due, earliest |-> from, pinned |-> pin]

Tasks == {T(20, 1, FALSE, Never, Never, Never), T(60, 2, TRUE, Never, Never, Never),
          T(75, 2, TRUE, At(13, 0), Never, Never), T(30, 3, FALSE, At(11, 50), Never, Never),
          T(45, 1, FALSE, Never, At(12, 5), Never), T(25, 1, FALSE, Never, Never, At(11, 40)),
          T(30, 1, FALSE, Never, Never, At(12, 0)), T(15, 1, FALSE, Never, Never, At(5, 0))}

\* Nothing, a short event, one that fatigues, and gaps that take a task only in chunks.
Calendars == {{}, {<<At(12, 10), At(12, 20)>>}, {<<At(9, 0), At(10, 50)>>},
              {<<At(10, 0), At(10, 15)>>, <<At(11, 30), At(12, 15)>>, <<At(13, 0), At(14, 0)>>}}

PickTasks ==
  \E a, b, c \in Tasks, busy \in Calendars :
    Pick("plan", [tasks |-> <<a, b, c>>, busy |-> busy])

\* Whatever is drawn, the plan keeps its hard constraints and explains its blocks; no block of its
\* own choosing touches an event.  The draw itself is even: each bucket has as many words of the
\* generator as any other, which the logged odds of one in |A_m| rest on.
PlansSound ==
  /\ input.kind = "plan" =>
       \A W \in {Workable(Day, Hours(<<510, 900>>), Never, Never, input.x.busy)},
          occupied \in {Occupied(Day, input.x.busy)}, spec \in {SpecsOf(Day, input.x.tasks)} :
       \A prep \in {Prepare(Day, W, occupied, input.x.tasks, spec)} :
       \A draw \in Draws(prep) : \A plan \in {HeuristicPlan(prep, draw)} :
         /\ PlanSound(prep, plan)
         /\ \A b \in plan.blocks, e \in input.x.busy : LET slot == Assignment(prep, plan, b).slot IN
              b.task \notin prep.pins => slot[2] <= e[1] \/ e[2] <= slot[1]
  /\ input.kind = "draw" => \A r \in 0 .. input.x.n - 1 : Odds(input.x.w, input.x.n, r) = Odds(input.x.w, input.x.n, 0)

PickDraw == \E w \in 3 .. 6, n \in 1 .. 8 : Pick("draw", [w |-> w, n |-> n])

Cells == [alpha : {2}, beta : {2}, succ : {0, 8}, fail : {0, 16}, last : {Never, 1, 2}]

PickCell == \E cell \in Cells, now \in 0 .. 4 : Pick("cell", [cell |-> cell, now |-> now])

\* Evidence only fades: read later it lies nearer to the prior, read before it was gathered (events
\* arrive out of order) it counts once, and a context never seen reads as the flat prior.
EvidenceFades ==
  input.kind = "cell" =>
    LET cell == input.x.cell
        at(now) == PosteriorTable([k \in {"seen"} |-> cell], {"seen", "unseen"}, now)
        p == at(input.x.now)["seen"]
        q == at(input.x.now + 1)["seen"]
    IN /\ cell.alpha <= q.alpha /\ q.alpha <= p.alpha /\ p.alpha <= cell.alpha + cell.succ
       /\ cell.beta <= q.beta /\ q.beta <= p.beta /\ p.beta <= cell.beta + cell.fail
       /\ at(input.x.now)["unseen"] = [alpha |-> 2, beta |-> 2]

\* The planner counts the instants there are and keeps to its constraints whatever it draws, and what
\* it learned from only fades.
PlannerSound == GridSound /\ PlansSound /\ EvidenceFades

-----------------------------------------------------------------------------
(* The weekly review *)

PickWeek == \E day \in -360 .. 1500 : Pick("week", [day |-> day])

\* A block on the Monday or the Sunday of some of the last ten weeks, seen on some weekday.
Now(x) == (70 + x.weekday) * MinutesPerDay + 900
WeekBlocks(x) ==
  {[id |-> w, start |-> t, end |-> t + 30, status |-> "completed"] :
     <<w, t>> \in UNION {{<<w, (7 * w + d) * MinutesPerDay + 600>> : d \in {0, 6}} : w \in 1 .. 10 \ x.idle}}

PickWeeks ==
  \E idle \in SUBSET (5 .. 9), weekday \in {0, 6} : Pick("weeks", [idle |-> idle, weekday |-> weekday])

UTC == [before |-> 0, after |-> 0, at |-> 0]
ParShown(blocks, x) == WeeklyPar(blocks, <<>>, UTC, Now(x), AdherenceWeeks)

\* The ISO week of a day is the one counted from the Monday of the week of 4 January, also around
\* New Year; a review given is done until Sunday; and a week the review shows is counted whole, unless
\* two of the later weeks have no block.
WeeksSound ==
  /\ input.kind = "week" => LET day == input.x.day IN
       /\ IsoWeek(day) = WeekByDefinition(day)
       /\ \A later \in day .. day + 7 :
            DoneThisWeek(<<[week |-> IsoWeek(day)]>>, later) = (later \div 7 = day \div 7)
  /\ input.kind = "weeks" =>
       LET x == input.x
           all   == WeekBlocks(x)
           shown == ParShown(LoadedBlocks(all, Now(x)), x)
           whole == ParShown(all, x)
       IN Cardinality(x.idle) < 2 =>
            /\ DOMAIN shown = DOMAIN whole
            /\ \A w \in DOMAIN shown : shown[w] = whole[w]

\* What endFocusSession appends; the app's own rule closes a session as abandoned.
FocusFacts ==
  {f \in [rec : {1}, started : {585, 616}, focused : {10, 20, 285}, planned : {0, 60},
          finished : BOOLEAN, stale : BOOLEAN] : f.stale => ~f.finished /\ f.focused = 285}
Block == [id |-> 1, start |-> 600, end |-> 640, status |-> "completed"]

PickFacts ==
  \/ \E f \in FocusFacts : Pick("facts", <<f>>)
  \/ \E f, g \in FocusFacts : Pick("facts", <<f, g>>)

\* rewards.ts:229: a session the app closed itself is no evidence of focus, so a block is adhered
\* to only if the sessions the reward mapping counts say so.
ParCredited ==
  input.kind = "facts" => (ParOfBlock(Block, input.x) => Credited(Block, input.x))

-----------------------------------------------------------------------------
(* The heatmap, the labels, and whose document is shown *)

PickCells ==
  \E keys \in SUBSET ({"EM", "MD", "NT"} \X {"weekday", "weekend"}) :
    \E mean \in [keys -> {20, 50}] :
      Pick("cells", [k \in keys |-> [mean |-> mean[k], n |-> mean[k] - 20, personal |-> TRUE]])

\* The picture and its text alternative say the same: the summary names a daypart exactly if its
\* hours are drawn, and nothing is drawn above the best or below the lowest it names.
SummaryAgrees ==
  input.kind = "cells" => LET cells == input.x
                               grid  == BuildHeatmapGrid(cells) IN
    \A hw \in GridHours \X (0 .. 6) :
      LET drawn == grid[hw]
          type  == DayTypeOf(hw[2])
      IN /\ (drawn # NoCell) = (DaypartOfHour(hw[1]) \in ToSet(SummaryRows(cells, type)))
         /\ drawn # NoCell => /\ drawn.mean <= cells[<<BestOf(cells, type), type>>].mean
                               /\ drawn.mean >= cells[<<LowestOf(cells, type), type>>].mean

LabelSteps == [do : {"press"}, on : Devices, mark : {"correct", "incorrect"}]
              \cup [do : {"deliver", "refresh"}, on : Devices, mark : {Nothing}]

PickLabels == \E n \in 1 .. 4 : \E steps \in [1 .. n -> LabelSteps] : Pick("labels", steps)

LabelStep(st, e, at) ==
  CASE e.do = "press"   -> LabelBelief(st, e.on, e.mark, at)
    [] e.do = "deliver" -> Deliver(st, e.on)
    [] OTHER            -> Refresh(st, e.on)

Settled(st) == Refresh(Refresh(Deliver(Deliver(st, 1), 2), 1), 2)

\* Whichever device was offline, stale or late with its facts: once all are delivered and read
\* again, both devices show the mark given, or taken back, last.
LabelsAgree ==
  input.kind = "labels" =>
    LET st  == FoldLeftDomain(LAMBDA acc, i : LabelStep(acc, input.x[i], i), Unlabelled, input.x)
        end == Settled(st)
        all == st.rows[1] \cup st.rows[2]
    IN \A d \in Devices : Labelled(end, d) = LatestLocal(all).label

Visits == {v \in [user : {"A", "B"}, session : {"A", "B", Nothing}, online : BOOLEAN,
                  onboarded : BOOLEAN, service : BOOLEAN] : v.session \in {v.user, Nothing}}

PickVisits == \E v, w \in Visits : Pick("visits", <<v, w>>)

\* Nobody sees another account's beliefs, and a document that is not fresh has a notice above it.
DocumentOwn ==
  input.kind = "visits" =>
    LET v == input.x[1]
        w == input.x[2]
        kept == CacheAfter(v, Nothing)
    IN /\ Shown(v, Nothing) \in {v.user, Nothing} /\ Shown(w, kept) \in {w.user, Nothing}
       /\ Shown(w, kept) # Nothing /\ CacheAfter(w, Nothing) = Nothing /\ w.onboarded => Notice(w) # Nothing

\* The review counts the weeks it shows, its picture says what its text says, it is one's own, and a
\* label given on one device is what the other shows.
ReviewSound == WeeksSound /\ SummaryAgrees /\ LabelsAgree /\ DocumentOwn

-----------------------------------------------------------------------------
(* What is entered: the quick-add line, the form, the onboarding answers, hours and preferences *)

DateOf(day, hour, sure, told, weekday) ==
  Token("date", Never, [day |-> day, hour |-> hour, sure |-> sure, told |-> told, weekday |-> weekday])

\* "draft", "by", "in", "2h", "0m", "fri" said on a Friday, "tomorrow", "at 2", "at 15:00".
Tokens == {Token("word", Never, NoDate), Token("connector", Never, NoDate), Token("relative", Never, NoDate),
           Token("duration", 120, NoDate), Token("duration", 0, NoDate),
           DateOf(0, Never, FALSE, TRUE, TRUE), DateOf(1, Never, FALSE, TRUE, FALSE),
           DateOf(0, 2, FALSE, FALSE, FALSE), DateOf(0, 15, TRUE, FALSE, FALSE)}

PickText ==
  \E n \in 1 .. 4, now \in {90, 600} : \E text \in [1 .. n -> Tokens] :
    Pick("text", [text |-> text, now |-> now])

PickForm ==
  \E est \in {Never, 0, 30}, due, from \in {Never, 700}, dueDay, fromDay \in {Never, 0, 1} :
    Pick("form", FormDraft([title |-> 1, est |-> est, value |-> 2, deadline |-> due, earliest |-> from],
                           dueDay, fromDay))

PickAnswers ==
  \E answers \in {a \in [DOMAIN OptionScores -> {Unanswered} \cup 1 .. 5] :
                    \A i \in DOMAIN a : a[i] = Unanswered \/ a[i] \in DOMAIN OptionScores[i]} :
    Pick("answers", answers)

Minutes == {0, 30, 60, 1380, 1410, 1440}

PickRange == \E r \in Minutes \X Minutes, edge \in {1, 2}, delta \in {-30, 30} :
               Pick("range", [range |-> r, edge |-> edge, delta |-> delta])

Blobs == UNION {{[f \in F |-> b[f]] : F \in SUBSET DOMAIN b} :
                 b \in [reminders : {"off", Garbage}, time : {"21:00", Garbage},
                        muted : {{"deep"}, {"deep", Garbage}}, theme : {"dark"}]}
Patches == {[reminders |-> "on"], [ritual |-> "off"], [time |-> "19:00"], [muted |-> {"admin", "deep"}]}

PickBlob == \E blob \in Blobs, patch \in Patches : Pick("blob", [blob |-> blob, patch |-> patch])

TitleSound(text, parsed, now) ==
  LET words(s) == SelectSeq(s, LAMBDA t : t.kind = "word") IN
  /\ words(parsed.title) = words(text)
  /\ Len(Dates(text, now)) <= 1 =>
       \A again \in {ParseQuickAdd(parsed.title, now)} : again.est = Never /\ again.deadline = Never

\* A chosen or parsed deadline is one the line states, and no reading of a bare hour is past.
DeadlineSound(text, parsed, now) ==
  /\ \A a \in parsed.ambiguities :
       /\ a.kind = "multiple_dates" => parsed.deadline \in ToSet(a.choices)
       /\ a.kind = "am_or_pm" /\ ~Dates(text, now)[Preferred(text, now)].date.told =>
            \A c \in ToSet(a.choices) : c \in now + 1 .. now + MinutesPerDay
       /\ a.kind # "multiple_durations" /\ CanSubmit(parsed) =>
            \A c \in ToSet(a.choices) : ValidDraft(QuickDraft(parsed, c))
  /\ CanSubmit(parsed) => ValidDraft(QuickDraft(parsed, Never))

\* No word typed is lost and none of the structure stays in the title; what the bar or the form
\* submits the store accepts (its throw is unreachable), so does the server the survey's result;
\* hours stay valid under every tap; and a preference set is the one read back, beside the others.
DraftsSound ==
  /\ input.kind = "text" => LET x == input.x IN
       \A parsed \in {ParseQuickAdd(x.text, x.now)} :
         TitleSound(x.text, parsed, x.now) /\ DeadlineSound(x.text, parsed, x.now)
  /\ input.kind = "form" => (FormValid(input.x) => ValidDraft(input.x))
  /\ input.kind = "answers" => ProfileAccepted(ScoreRmeq(input.x))
  /\ input.kind = "range" => LET x == input.x IN
       /\ ValidWorkingRange(x.range) => ValidWorkingRange(Nudge(x.range, x.edge, x.delta))
       /\ ValidSleepWindow(x.range) => ValidSleepWindow(NudgeSleep(x.range, x.edge, x.delta))
  /\ input.kind = "blob" => LET after == WithSettings(input.x.blob, input.x.patch) IN
       /\ SettingsOf(after) = input.x.patch @@ SettingsOf(input.x.blob)
       /\ "theme" \in DOMAIN input.x.blob =>
            "theme" \in DOMAIN after /\ after["theme"] = input.x.blob["theme"]

-----------------------------------------------------------------------------
(* The profile on two devices *)

ProfileSteps == [do : {"complete", "settings", "locale", "sync"}, on : Owners]

PickProfile == \E n \in 1 .. 4 : \E steps \in [1 .. n -> ProfileSteps] : Pick("profile", steps)

ProfileStep(st, e, at) ==
  CASE e.do = "complete" -> CompleteOnboarding(st, e.on, at)
    [] e.do = "settings" -> UpdateSettings(st, e.on, at)
    [] e.do = "locale"   -> UpdateLocale(st, e.on, at)
    [] OTHER             -> SyncProfile(st, e.on)

ProfileAfter(steps) == FoldLeftDomain(LAMBDA st, i : ProfileStep(st, steps[i], i), NoProfiles, steps)
ProfileEnd(steps) == SyncProfile(SyncProfile(SyncProfile(ProfileAfter(steps), 1), 2), 1)

\* The edits that were made, and the last of them.
Edits(steps) ==
  {i \in DOMAIN steps : steps[i].do # "sync" /\
     (steps[i].do = "complete" \/ ProfileAfter(SubSeq(steps, 1, i - 1)).row[steps[i].on] # NoRow)}
LastEditKept(steps, end) ==
  \A edits \in {Edits(steps)} : \A i \in edits :
    (\A e \in edits : e <= i) =>
      i = IF steps[i].do = "settings" THEN end.server.settings ELSE end.server.locale

\* No device queues a second edit behind one it has not pushed.
NoEditBehind(steps) ==
  \A n \in DOMAIN steps : \A d \in Owners : Len(ProfileAfter(SubSeq(steps, 1, n)).ops[d]) <= 1

\* Once both devices have synced they show the server's row, onboarding done; and the last edit is
\* in it, provided no device had queued one edit behind another.
ProfilesSettle ==
  input.kind = "profile" =>
    \A end \in {ProfileEnd(input.x)} :
      /\ \A d \in Owners : end.row[d] = end.server /\ end.ops[d] = <<>>
      /\ end.server.done = (\E i \in DOMAIN input.x : input.x[i].do = "complete")
      /\ NoEditBehind(input.x) => LastEditKept(input.x, end)

\* What is entered is what is stored, on either device.
EntrySound == DraftsSound /\ ProfilesSettle

\* The last edit is kept whatever the devices had queued.
LastProfileEditKept == input.kind = "profile" => LastEditKept(input.x, ProfileEnd(input.x))

-----------------------------------------------------------------------------
(* Focus sessions and block actions: two chunks of one task and a block of another *)

Foc == INSTANCE Focus

Clock == <<0, 25, 60, 250>>
MaxFacts(streak) == IF streak = 0 THEN 4 ELSE 3

ABlock(task, from, to) == [task |-> task, status |-> "shown", start |-> from, end |-> to]

FocusStart(streak) ==
  [now |-> 0, tasks |-> [t \in 1 .. 2 |-> [status |-> "scheduled", streak |-> streak, splittable |-> FALSE]],
   recs |-> <<ABlock(1, 0, 30), ABlock(1, 30, 50), ABlock(2, 10, 40)>>,
   sessions |-> <<>>, facts |-> <<>>, card |-> Foc!NoCard, screen |-> [rated |-> 0, energyFor |-> 0]]

PickFocus == \E streak \in {0, 2} : Pick("focus", [before |-> streak, st |-> FocusStart(streak)])

FocusPasses(x) ==
  \E i \in DOMAIN Clock :
    Clock[i] = x.st.now /\ i < Len(Clock) /\ Pick("focus", [x EXCEPT !.st.now = Clock[i + 1]])

FocusStep ==
  /\ input.kind = "focus"
  /\ \/ FocusPasses(input.x)
     \/ /\ Len(input.x.st.facts) < MaxFacts(input.x.before)
        /\ \E next \in Foc!Successors(input.x.st, {100}) : Pick("focus", [input.x EXCEPT !.st = next])

\* However sessions, presses, scans and the server's rows interleave: at most one session is open; what
\* a session reports is what its pauses add up to; a block lapses once; and a task's streak is what
\* the facts say, a settled task staying settled when its other blocks are skipped or lapse.
FocusSound ==
  input.kind = "focus" => LET st == input.x.st IN
    /\ Cardinality(Foc!OpenSessions(st)) <= 1
    /\ Foc!FocusTimed(st)
    /\ \A i, j \in DOMAIN st.facts :
         st.facts[i].type = "lapse_observed" /\ st.facts[j] = [st.facts[i] EXCEPT !.at = st.facts[j].at, !.n = st.facts[j].n]
           => i = j
    /\ \A task \in DOMAIN st.tasks : Foc!StreakReplayed(st, task, input.x.before)

\* focus.test.tsx:147: after the energy tap the difficulty is asked.
DifficultyAsked ==
  input.kind = "focus" => LET st == input.x.st IN
    st.screen.energyFor # 0 /\ st.screen.energyFor = Foc!LastEnded(st) /\ Foc!ActiveSession(st) = 0
      => Foc!AsksDifficulty(st)

\* A finished task stays finished whatever question is still on the screen.
DoneStaysDone ==
  input.kind = "focus" => LET st == input.x.st IN
    \A rec \in DOMAIN st.recs : st.recs[rec].status = "completed" => st.tasks[st.recs[rec].task].status = "done"

-----------------------------------------------------------------------------
(* Dialogs *)

Dia == INSTANCE Dialogs WITH MaxHosts <- 2, MaxRequests <- 3

PickDialog ==
  \E motion, settled \in BOOLEAN : Pick("dialog", [settled |-> settled, st |-> Dia!NoDialogs(motion)])

DialogStep ==
  /\ input.kind = "dialog"
  /\ \E next \in Dia!Successors(input.x.st, input.x.settled) : Pick("dialog", [input.x EXCEPT !.st = next])

\* An open request is on the screen once everything has settled, so that it can be answered and the
\* next is not refused for good, provided no host came or went during an exit; and taps, however
\* many and however fast, erase an account only through both confirmations.
DialogSound ==
  input.kind = "dialog" =>
    /\ input.x.settled => Dia!ShowsTheRequest(input.x.st)
    /\ Dia!TwoConfirmations(input.x.st)

\* The request is on the screen whenever hosts come and go.
DialogStays == input.kind = "dialog" => Dia!ShowsTheRequest(input.x.st)

-----------------------------------------------------------------------------
(* The export: pages of two rows, six rows at most *)

Exp == INSTANCE Export WITH PageSize <- 2, MaxRows <- 6

PickExport ==
  \E reads \in [1 .. 3 -> SUBSET (1 .. 6)], canShare \in BOOLEAN :
    /\ \/ reads[1] \subseteq reads[2] /\ reads[2] \subseteq reads[3]
       \/ reads[3] \subseteq reads[2] /\ reads[2] \subseteq reads[1]
    /\ canShare \/ Exp!NothingWritten(reads)
    /\ Pick("export", [reads |-> reads, canShare |-> canShare])

\* What the user is told and has in the end: the tasks table changes while it is read, the others hold
\* one row.
Exported(x) ==
  LET answer == Exp!HandleExport("POST", TRUE,
                  [n \in DOMAIN Exp!ExportTables |->
                     IF Exp!ExportTables[n].name = "tasks" THEN x.reads ELSE <<{1}, {1}, {1}>>])
      summary(file) ==
        [told   |-> Exp!ExportData([kind |-> "ok", format |-> file.format], x.canShare),
         events |-> file.data[3], tasks |-> [i \in DOMAIN file.data[2] |-> file.data[2][i].id],
         count  |-> file.counts[2], cut |-> "tasks" \in file.truncated]
  IN summary(answer.document[1])

\* The user who is told the export is done has a file with every row there was throughout, unless it
\* says it was cut, provided no row was deleted meanwhile; of a table at rest no row comes twice, and
\* it is cut only at the limit; the title of no calendar event leaves.
ExportWhole ==
  input.kind = "export" /\ Exp!NothingDeleted(input.x.reads) =>
    \A got \in {Exported(input.x)}, kept \in {Exp!Kept(input.x.reads)} :
       /\ {table.name : table \in ToSet(Exp!ExportTables)} \cap Exp!ServerOnlyTables = {}
       /\ got.told.code = "ok" => got.told.shared /\ (got.cut \/ kept \subseteq ToSet(got.tasks))
       /\ \A i \in DOMAIN got.events : "title" \notin DOMAIN got.events[i]
       /\ Exp!NothingWritten(input.x.reads) =>
            /\ Len(got.tasks) = Cardinality(ToSet(got.tasks)) /\ got.count = Len(got.tasks)
            /\ got.cut => Cardinality(kept) >= 6

\* A dialog that asks can be answered, and an account or a file is what the user was told.
ScreensSound == DialogSound /\ ExportWhole

\* The file is whole whatever is deleted meanwhile.
ExportKept == input.kind = "export" => Exp!Complete(input.x.reads)

-----------------------------------------------------------------------------
(* Around the rewards: sessions in two passes, a moved block, a sweep, labels *)

Att == INSTANCE Attribution

ASession(at, c, focused, arrives) == [at |-> at, category |-> c, focused |-> focused, planned |-> 30, arrives |-> arrives]

PickSessions ==
  \E cat \in [1 .. 3 -> {1, 2}], focused \in [1 .. 3 -> {0, 30, 200}], arrives \in [1 .. 3 -> {1, 2}],
     saved \in SUBSET {1, 2} :
       Pick("sessions", [of |-> {ASession(10 * i, cat[i], focused[i], arrives[i]) : i \in 1 .. 3}, saved |-> saved])

Unlearned == [c \in {1, 2} |-> Att!NoEstimate]
AfterOne(x) == Att!UpdateDurations(Unlearned, {s \in x.of : s.arrives = 1}, x.saved)
AfterTwo(x) == Att!UpdateDurations(AfterOne(x), x.of, {1, 2})

InOrder(x) == \A s, t \in x.of : s.category = t.category /\ s.at < t.at => s.arrives <= t.arrives

Slots == {<<At(10, 0), At(11, 0)>>, <<At(14, 10), At(15, 0)>>, <<At(5, 0), At(5, 30)>>, <<At(15, 0), At(14, 0)>>}
Events == {[slot |-> <<At(12, 0), At(13, 30)>>, busy |-> TRUE, deleted |-> FALSE],
           [slot |-> <<At(8, 20), At(9, 40)>>, busy |-> TRUE, deleted |-> FALSE]}
Gone == {[slot |-> <<At(13, 0), At(14, 0)>>, busy |-> FALSE, deleted |-> FALSE],
         [slot |-> <<At(13, 0), At(14, 0)>>, busy |-> TRUE, deleted |-> TRUE]}
Recs == {[id |-> 1, status |-> "shown", slot |-> <<At(10, 0), At(11, 0)>>],
         [id |-> 2, status |-> "completed", slot |-> <<At(13, 30), At(14, 0)>>],
         [id |-> 3, status |-> "lapsed", slot |-> <<At(9, 0), At(9, 45)>>]}

PickMoves ==
  \E first \in Slots, then \in {<<>>} \cup {<<s>> : s \in Slots}, patched \in BOOLEAN,
     events \in SUBSET Events, recs \in {{}, Recs} :
       Pick("moves", [first |-> first, then |-> then, patched |-> patched, events |-> events \cup Gone, recs |-> recs])

PlanRow == [id |-> 1, status |-> "shown", slot |-> <<At(10, 0), At(11, 0)>>, bucket |-> <<"MO", "wd", "fresh">>]

TargetOf(x, to) ==
  Att!TargetContext(NoChange, Att!Busy(x.events, to), Att!OtherBlocks(x.recs, PlanRow, to), Never, to)

\* The placement after n passes, the first of which may fail before the patch.
Moved(x, n) ==
  LET targets == [to \in Slots |-> TargetOf(x, to)]
      all     == <<x.first>> \o x.then
      passes  == <<[moves |-> <<x.first>>, patched |-> x.patched],
                   [moves |-> all, patched |-> TRUE], [moves |-> all, patched |-> TRUE]>>
  IN FoldLeft(LAMBDA st, p : Att!MovePass(st, p.moves, targets, p.patched),
              [rec |-> PlanRow, pair |-> FALSE, pairs |-> <<>>], SubSeq(passes, 1, n))

PickSweep ==
  \E goes \in [1 .. 3 -> {"free", "busy", "fails"}], due \in {<<>>, <<2>>, <<3, 1>>, <<2, 1, 2>>},
     undelivered \in {<<>>, <<1>>, <<3, 2>>}, user \in {0, 1},
     mode \in {"daily", "instant", "none"}, backend \in BOOLEAN :
       Pick("sweep", [goes |-> goes, due |-> [i \in DOMAIN due |-> [user |-> due[i]]], undelivered |-> undelivered,
                      call |-> [mode |-> mode, backend |-> backend, user |-> user, rows |-> 3, users |-> 2]])

PickDeliveries ==
  \E answers \in [1 .. 2 -> {"ok", "lost", "refused"}], configured \in BOOLEAN, limit \in 1 .. 3 :
    Pick("labels posted", [answers |-> answers, configured |-> configured, limit |-> limit])

\* A finished session counts once for its category however often passes run or fail between two rows,
\* as long as sessions arrive in the order they ended.
DurationsOnce ==
  input.kind = "sessions" => LET x == input.x IN
    /\ Att!UpdateDurations(AfterTwo(x), x.of, {1, 2}) = AfterTwo(x)
    /\ \A c \in {1, 2} :
         LET once == Att!EachOnce(x.of, c)
             got  == AfterTwo(x)[c]
         IN /\ InOrder(x) => got.n = once.n /\ got.ratio = once.ratio
            /\ got.n <= once.n
            /\ Att!EffectiveMinutes(60, got) \in 30 .. 120

\* A session counts although a later one was synced before it.
LateCounted ==
  input.kind = "sessions" =>
    \A c \in {1, 2} : AfterTwo(input.x)[c].n = Att!EachOnce(input.x.of, c).n

\* A moved block ends where its latest move says, whichever write was missed, in the bucket the clock
\* and the other blocks give that slot (moved back, it may keep the planned one); one pair of tuples is
\* written, and a further pass adds nothing.
MovesSettle ==
  input.kind = "moves" =>
   \A x \in {input.x} : \A to \in {Last(<<x.first>> \o x.then)}, st \in {Moved(x, 2)} :
   \A by \in {Att!ContextByInstants(NoChange, Att!Busy(x.events, to) \cup Att!OtherBlocks(x.recs, PlanRow, to), to)} :
    /\ Moved(x, 3) = st /\ Len(st.pairs) <= 1
    /\ to[2] > to[1] => /\ st.rec.slot = to
                        /\ TargetOf(x, to).bucket = by.bucket
                        /\ by.bucket # Never => /\ st.pair /\ TargetOf(x, to).load = by.load
                                                /\ to # PlanRow.slot => st.rec.bucket = by.bucket

SweptBefore(x) ==
  LET order == Att!Visits(Att!LoadDue(x.due, 3), Att!LoadUndeliveredUsers(x.undelivered, 2))
      upTo  == {i \in DOMAIN order : \A j \in 1 .. i : x.goes[order[j]] # "fails"}
  IN [all |-> {order[i] : i \in upTo} = ToSet(order), free |-> {order[i] : i \in {j \in upTo : x.goes[order[j]] = "free"}}]

\* A sweep visits every user who has a due row or a tuple to deliver and is not held, once, up to one
\* whose pass fails; only the backend starts one; and no lease stays behind.
SweepVisits ==
  input.kind = "sweep" => LET x   == input.x
                              got == Att!HandleAttribute(x.call, x.due, x.undelivered, x.goes)
                          IN
    /\ got.sweep.leased = {}
    /\ Cardinality(ToSet(got.sweep.visited)) = Len(got.sweep.visited)
    /\ got.status \in {400, 401} => got.sweep = Att!NoVisit
    /\ x.call.mode = "daily" /\ x.call.backend =>
         /\ ToSet(got.sweep.visited) = SweptBefore(x).free
         /\ got.status = 200 <=> SweptBefore(x).all

\* 20260827170000_p7_attribution_guards.sql:4: one user's trouble must not stall the sweep for everyone.
SweepReaches ==
  input.kind = "sweep" => LET x == input.x IN
    x.call.mode = "daily" /\ x.call.backend =>
      \A i \in DOMAIN x.due : x.goes[x.due[i].user] = "free" =>
        x.due[i].user \in ToSet(Att!HandleAttribute(x.call, x.due, x.undelivered, x.goes).sweep.visited)

ThreeLabels == [labels |-> {[id |-> i, delivered |-> FALSE] : i \in 1 .. 3}, service |-> {}]
Delivered(x, n) ==
  LET one == Att!DeliverLabels(ThreeLabels, x.configured, x.answers[1], x.limit) IN
  IF n = 1 THEN one ELSE Att!DeliverLabels(one, x.configured, x.answers[2], x.limit)

\* No label is marked delivered that the service has not taken in, and none waits after a pass with room.
LabelsArrive ==
  input.kind = "labels posted" => LET st == Delivered(input.x, 2) IN
    /\ {l.id : l \in {m \in st.labels : m.delivered}} \subseteq st.service
    /\ input.x.configured /\ input.x.answers[2] = "ok" /\ input.x.limit = 3 => st.service = 1 .. 3

\* What a pass of attribute-rewards does beside the reward table is neither lost nor done twice: the
\* durations, the moves, the users it visits and the labels it delivers.
PassSound == DurationsOnce /\ MovesSettle /\ SweepVisits /\ LabelsArrive

-----------------------------------------------------------------------------
(* The import: a full sync of one or two pages, then an incremental one about event 1 *)

Goo == INSTANCE GoogleMap WITH MaxPages <- 2, TokenMargin <- 2

Event(id, when, from, to) ==
  [id |-> id, status |-> "confirmed", marked |-> FALSE, when |-> when, from |-> from, to |-> to, zone |-> Never,
   free |-> FALSE, declined |-> FALSE, type |-> "default"]

Meeting == Event(1, "timed", 600, 660)
Holiday == Event(1, "day", 1, 2)

Variants ==
  {Meeting, [Meeting EXCEPT !.to = 700], [Meeting EXCEPT !.to = 600], [Meeting EXCEPT !.free = TRUE],
   [Meeting EXCEPT !.declined = TRUE], [Meeting EXCEPT !.type = "birthday"], [Meeting EXCEPT !.status = "cancelled"],
   [Meeting EXCEPT !.marked = TRUE], [Meeting EXCEPT !.when = "none"], [Meeting EXCEPT !.id = Goo!NoId],
   Holiday, [Holiday EXCEPT !.zone = NoChange], [Holiday EXCEPT !.free = TRUE], [Holiday EXCEPT !.to = 1],
   [Holiday EXCEPT !.declined = TRUE]}

PickImport ==
  \E before, after \in Variants, zone \in {NoChange, Spring}, pages \in 1 .. 3, told \in BOOLEAN, now \in {0, 650} :
    Pick("import", [before |-> before, after |-> after, zone |-> zone, pages |-> pages, told |-> told, now |-> now])

PickToken ==
  \E token \in {0, 1}, refresh, ok \in BOOLEAN, expires \in 0 .. 8, life \in {0, 3, 60} :
    Pick("token", [state |-> [token |-> token, refresh |-> refresh, expires |-> expires],
                   answer |-> [ok |-> ok, token |-> 2, life |-> life]])

Dentist == Event(2, "timed", 2000, 2030)
Bank == Event(3, "timed", 2000, 2040)
FirstPages(x) ==
  LET page(e) == [items |-> <<e>>, zone |-> IF x.told THEN x.zone ELSE Never] IN
  SubSeq(<<page(x.before), page(Dentist), page(Bank)>>, 1, x.pages)

OpenBlocks == {[id |-> 1, status |-> "shown", slot |-> <<600, 645>>], [id |-> 2, status |-> "moved", slot |-> <<680, 720>>],
               [id |-> 3, status |-> "completed", slot |-> <<610, 655>>]}

FirstSync(x) == Goo!SyncUser([mirror |-> {}, recs |-> OpenBlocks, token |-> FALSE], FirstPages(x), x.zone, x.now)
SecondSync(x, first) ==
  Goo!SyncUser(first, <<[items |-> <<x.after>>, zone |-> Never]>>, x.zone, x.now)

Imported(x) == IF x.pages = 1 THEN {x.before} ELSE {x.before, Dentist}
BusyOf1(st) == Goo!BusyTimes({row \in st.mirror : row.id = 1})

\* The mirror holds the busy times Google shows, all-day events by the days of their zone: those of every
\* event after a full list, which is complete if a token came with it, and those of a changed event
\* unless the import passes it over; no open block still ahead shares time with one, and no block is
\* displaced by anything else.
MirrorSound ==
  input.kind = "import" => \A x \in {input.x} :
    \A shown \in {UNION {Goo!Blocks(e, x.zone) : e \in Imported(x)}}, next \in {Goo!Blocks(x.after, x.zone)},
       first \in {FirstSync(x)} : \A second \in {SecondSync(x, first)} :
    /\ Goo!BusyTimes(first.mirror) = shown
    /\ first.token <=> x.pages <= 2
    /\ Goo!MapGoogleEvent(x.after, x.zone) # {} /\ x.before.id = 1 => BusyOf1(second) = next
    /\ \A r \in second.recs :
         (r.status = "displaced_pending") <=>
            \E q \in OpenBlocks : /\ q.id = r.id /\ q.status # "completed" /\ q.slot[2] > x.now
                                  /\ \E t \in q.slot[1] .. q.slot[2] - 1, slot \in shown \cup next :
                                       slot[1] <= t /\ t < slot[2] /\ slot[2] > x.now

\* google-calendar.md:87: an all-day event that is free has no busy row.
FreeHasNoRow ==
  input.kind = "import" => LET x == input.x IN
    x.after.id = 1 /\ x.after.when = "day" /\ x.after.free => BusyOf1(SecondSync(x, FirstSync(x))) = {}

\* A call is made with a token that outlives it, or with one just issued; and with none only when there
\* is no way to get one.
TokenSound ==
  input.kind = "token" => LET x == input.x
                              got == Goo!EnsureToken(x.state, 4, x.answer)
                          IN
    /\ \A s \in got : s.expires - 2 > 4 \/ (s.token = x.answer.token /\ s.expires = 4 + x.answer.life)
    /\ got = {} => ~x.state.refresh \/ ~x.answer.ok \/ x.answer.life = 0

\* What the import reads of Google's calendar is what Google shows, with a token that is good.
GoogleSound == MirrorSound /\ TokenSound

Next ==
  \/ FocusStep \/ DialogStep
  \/ /\ input = NoInput
     /\ \/ PickFocus \/ PickDialog \/ PickExport
        \/ PickImport \/ PickToken \/ PickSessions \/ PickMoves \/ PickSweep \/ PickDeliveries
        \/ PickZone \/ PickDay \/ PickStarts \/ PickTasks \/ PickDraw \/ PickCell
        \/ PickWeek \/ PickWeeks \/ PickFacts
        \/ PickCells \/ PickLabels \/ PickVisits
        \/ PickText \/ PickForm \/ PickAnswers \/ PickRange \/ PickBlob \/ PickProfile
=============================================================================
