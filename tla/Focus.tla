------------------------------- MODULE Focus -------------------------------
(***************************************************************************)
(* The feedback the user gives on the device: focus sessions and block     *)
(* actions on the Today timeline, the lapse scan on foreground, and the    *)
(* question after the third skip.  Each operation is one transaction that  *)
(* changes the rows and appends a fact.                                    *)
(*                                                                         *)
(* st = [now, tasks, recs, sessions, facts, card, screen]: minutes; rows   *)
(* by number; facts and sessions in the order they were made; the task the *)
(* question is about (asked by a skip, or by the scan); what the Focus tab *)
(* remembers of the last rating.                                           *)
(***************************************************************************)
EXTENDS Integers, Sequences, FiniteSets, SequencesExt, FiniteSetsExt

Nobody == 0
NotYet == -1

OpenStatuses == {"shown", "accepted", "pinned", "moved"}
SkipDiagnosticStreak == 3
StaleExtra == 60

DiagnosticDueFor(streak) == streak >= SkipDiagnosticStreak /\ streak % SkipDiagnosticStreak = 0

Running(s) == s.state \in {"running", "paused"}
OpenSessions(st) == {i \in DOMAIN st.sessions : Running(st.sessions[i])}

\* The open session the screens show, and the one ended last.
ActiveSession(st) == IF OpenSessions(st) = {} THEN Nobody ELSE Max(OpenSessions(st))
LastEnded(st) ==
  LET ended == DOMAIN st.sessions \ OpenSessions(st)
      later(i, j) == st.sessions[i].ended > st.sessions[j].ended
  IN IF ended = {} THEN Nobody ELSE CHOOSE i \in ended : \A j \in ended : ~later(j, i)

FocusedAt(s, now) == IF s.state = "running" THEN s.focused + now - s.resumed ELSE s.focused

Logged(st, type, rec, session, n) ==
  [st EXCEPT !.facts = Append(@, [type |-> type, rec |-> rec, session |-> session, n |-> n, at |-> st.now])]

SetRecStatus(st, rec, status) == [st EXCEPT !.recs[rec].status = status]

TaskOf(st, rec) == st.recs[rec].task

CompleteTask(st, task) ==
  IF st.tasks[task].status = "done" THEN st
  ELSE [st EXCEPT !.tasks[task].status = "done", !.tasks[task].streak = 0]

\* Mutant: a skipped task that is done goes back to the Inbox.
DeferAny(st, task) == [st EXCEPT !.tasks[task].status = "inbox", !.tasks[task].streak = @ + 1]

\* A skipped or lapsed task returns to the Inbox, unless it is settled.
DeferTask(st, task) ==
  IF st.tasks[task].status \in {"done", "archived"} THEN st
  ELSE [st EXCEPT !.tasks[task].status = "inbox", !.tasks[task].streak = @ + 1]

-----------------------------------------------------------------------------
(* Focus sessions *)

\* Throws if a session is open.  Starting a shown block accepts it.
StartFocus(st, rec) ==
  LET r == st.recs[rec]
      session == [rec |-> rec, state |-> "running", started |-> st.now, ended |-> NotYet, focused |-> 0,
                  resumed |-> st.now, planned |-> Max({r.end - r.start, 1}), rated |-> FALSE]
      begun == [st EXCEPT !.sessions = Append(@, session),
                          !.recs[rec].status = IF @ = "shown" THEN "accepted" ELSE @]
  IN IF OpenSessions(st) # {} THEN st
     ELSE Logged(begun, "focus_start", rec, Len(begun.sessions), 0)

\* Mutant: the time since the last resume is not banked.
PauseUnbanked(st, i) ==
  IF st.sessions[i].state # "running" THEN st
  ELSE LET s == st.sessions[i] IN
       Logged([st EXCEPT !.sessions[i] = [s EXCEPT !.state = "paused", !.resumed = NotYet]],
              "focus_pause", s.rec, i, s.focused)

Pause(st, i) ==
  LET s == st.sessions[i]
      focused == FocusedAt(s, st.now)
  IN IF s.state # "running" THEN st
     ELSE Logged([st EXCEPT !.sessions[i] = [s EXCEPT !.state = "paused", !.focused = focused, !.resumed = NotYet]],
                 "focus_pause", s.rec, i, focused)

Resume(st, i) ==
  LET s == st.sessions[i] IN
  IF s.state # "paused" THEN st
  ELSE Logged([st EXCEPT !.sessions[i] = [s EXCEPT !.state = "running", !.resumed = st.now]],
              "focus_resume", s.rec, i, 0)

\* Finished, abandoned by the user, or (stale) closed by the app's own rule.
EndFocus(st, i, outcome) ==
  LET s == st.sessions[i]
      focused == FocusedAt(s, st.now)
      ended == [st EXCEPT !.sessions[i] = [s EXCEPT !.focused = focused, !.resumed = NotYet, !.ended = st.now,
                                             !.state = IF outcome = "stale" THEN "abandoned" ELSE outcome]]
      settled == IF outcome = "finished"
                 THEN SetRecStatus(CompleteTask(ended, TaskOf(st, s.rec)), s.rec, "completed") ELSE ended
  IN IF ~Running(s) THEN st
     ELSE Logged(settled, "focus_end", s.rec, i, focused)

Rate(st, i) ==
  Logged([st EXCEPT !.sessions[i].rated = TRUE], "session_rated", st.sessions[i].rec, i, 0)

-----------------------------------------------------------------------------
(* Block actions *)

MarkBlockDone(st, rec) ==
  Logged(SetRecStatus(CompleteTask(st, TaskOf(st, rec)), rec, "completed"), "task_completed", rec, Nobody, 0)

SkipBlock(st, rec) ==
  LET deferred == DeferTask(st, TaskOf(st, rec)) IN
  Logged(SetRecStatus(deferred, rec, "rejected"), "block_skipped", rec, Nobody,
         deferred.tasks[TaskOf(st, rec)].streak)

Quarter == 15

\* Never into the past: not before the next quarter of an hour.
MoveBlock(st, rec, to) ==
  LET r == st.recs[rec]
      start == Max({to, ((st.now + Quarter - 1) \div Quarter) * Quarter})
  IN Logged([st EXCEPT !.recs[rec] = [r EXCEPT !.status = "moved", !.start = start, !.end = start + r.end - r.start]],
            "block_moved", rec, Nobody, start - r.start)

CorrectLapse(st, rec) ==
  Logged(SetRecStatus(CompleteTask(st, TaskOf(st, rec)), rec, "completed"), "lapse_corrected", rec, Nobody, 0)

\* The buttons of a block.
ActionsFor(st, rec) ==
  LET open == ActiveSession(st)
      busy == open # Nobody
      active == busy /\ st.sessions[open].rec = rec
  IN CASE active -> {}
       [] ~active /\ st.recs[rec].status \in OpenStatuses ->
            {"done", "skip", "move"} \cup IF busy THEN {} ELSE {"start"}
       [] ~active /\ st.recs[rec].status = "lapsed" -> {"did_it"}
       [] OTHER -> {}

\* A press on the timeline: a skip may ask the question.
OnAction(st, action, rec, to) ==
  CASE action = "start"  -> StartFocus(st, rec)
    [] action = "done"   -> MarkBlockDone(st, rec)
    [] action = "move"   -> MoveBlock(st, rec, to)
    [] action = "did_it" -> CorrectLapse(st, rec)
    [] action = "skip"   -> LET next == SkipBlock(st, rec) IN
                            IF DiagnosticDueFor(Last(next.facts).n)
                            THEN [next EXCEPT !.card.skip = TaskOf(st, rec)] ELSE next

-----------------------------------------------------------------------------
(* On foreground *)

AbandonStale(st) ==
  FoldLeft(LAMBDA acc, i :
             IF Running(acc.sessions[i]) /\ acc.now - acc.sessions[i].started > acc.sessions[i].planned * 2 + StaleExtra
             THEN EndFocus(acc, i, "stale") ELSE acc,
           st, [i \in DOMAIN st.sessions |-> i])

LapseLogged(st, rec) == \E i \in DOMAIN st.facts : st.facts[i].type = "lapse_observed" /\ st.facts[i].rec = rec

WorkedOn(st, task) ==
  \E i \in DOMAIN st.sessions : TaskOf(st, st.sessions[i].rec) = task /\ st.sessions[i].state # "abandoned"

\* Mutant: a row that came back open lapses again.
ScanRowAgain(st, rec) ==
  LET task == TaskOf(st, rec)
      deferred == DeferTask(st, task)
  IN IF st.tasks[task].status = "done" \/ WorkedOn(st, task) THEN st
     ELSE Logged(SetRecStatus(deferred, rec, "lapsed"), "lapse_observed", rec, Nobody, deferred.tasks[task].streak)

\* One row of the scan: left alone, repaired, or lapsed.
ScanRow(st, rec) ==
  LET task == TaskOf(st, rec)
      deferred == DeferTask(st, task)
  IN CASE st.tasks[task].status = "done" \/ WorkedOn(st, task) -> st
       [] st.tasks[task].status # "done" /\ ~WorkedOn(st, task) /\ LapseLogged(st, rec) -> SetRecStatus(st, rec, "lapsed")
       [] OTHER -> Logged(SetRecStatus(deferred, rec, "lapsed"), "lapse_observed", rec, Nobody,
                          deferred.tasks[task].streak)

Due(st) == {rec \in DOMAIN st.recs : st.recs[rec].status \in OpenStatuses /\ st.recs[rec].end < st.now}

LapseScan(st) ==
  FoldLeft(LAMBDA acc, rec : IF rec \in Due(st) THEN ScanRow(acc, rec) ELSE acc, st, [rec \in DOMAIN st.recs |-> rec])

\* The scan asks about the first task that is due, whichever else is.
Foreground(st) ==
  LET next == LapseScan(AbandonStale(st))
      due  == {i \in Len(AbandonStale(st).facts) + 1 .. Len(next.facts) : DiagnosticDueFor(next.facts[i].n)}
  IN IF due = {} THEN next ELSE [next EXCEPT !.card.scan = TaskOf(st, next.facts[Min(due)].rec)]

-----------------------------------------------------------------------------
(* The question, the rating, and the server's reading of the facts *)

Asked(st) == IF st.card.skip # Nobody THEN st.card.skip ELSE st.card.scan

NoCard == [skip |-> Nobody, scan |-> Nobody]

\* An answer, or "later", puts both questions away.
Later(st) == [st EXCEPT !.card = NoCard]

\* Mutant: the answer leaves the streak.
AnswerKeepsStreak(st, task, answer) ==
  LET t == st.tasks[task]
      next == [t EXCEPT !.splittable = @ \/ answer = "too_big",
                        !.status = IF answer = "not_important" THEN "archived" ELSE @]
  IN Logged([Later(st) EXCEPT !.tasks[task] = next], answer, Nobody, Nobody, task)

AnswerDiagnostic(st, task, answer) ==
  LET t == st.tasks[task]
      next == [t EXCEPT !.streak = 0, !.splittable = @ \/ answer = "too_big",
                        !.status = IF answer = "not_important" THEN "archived" ELSE @]
  IN Logged([Later(st) EXCEPT !.tasks[task] = next], answer, Nobody, Nobody, task)

OfferRating(st) ==
  LET last == LastEnded(st) IN
  ActiveSession(st) = Nobody /\ last # Nobody /\ ~st.sessions[last].rated /\ st.screen.rated # last

\* The first tap is the energy, and counts; the second is the difficulty; or the rating is skipped.
RateEnergy(st) ==
  LET last == LastEnded(st) IN [Rate(st, last) EXCEPT !.screen.energyFor = last]
RateDifficulty(st) ==
  LET last == LastEnded(st) IN [Rate(st, last) EXCEPT !.screen = [rated |-> last, energyFor |-> Nobody]]
SkipRating(st) == [st EXCEPT !.screen = [rated |-> LastEnded(st), energyFor |-> Nobody]]
AsksDifficulty(st) == OfferRating(st) /\ st.screen.energyFor = LastEnded(st)

\* A row as the server has it: a lapse it has not heard of is still open.
ApplyServer(st, rec, status) == SetRecStatus(st, rec, status)

\* What may happen next, to being the minutes a block may be moved to.
Successors(st, moves) ==
  LET open == ActiveSession(st) IN
  {OnAction(st, a, rec, to) : <<a, rec, to>> \in
     {<<a, rec, to>> \in {"start", "done", "skip", "move", "did_it"} \X (DOMAIN st.recs) \X moves :
        a \in ActionsFor(st, rec)}}
  \cup (IF open = Nobody THEN {}
        ELSE {Pause(st, open), Resume(st, open), EndFocus(st, open, "finished"), EndFocus(st, open, "abandoned")})
  \cup {Foreground(st)}
  \cup (IF Asked(st) = Nobody THEN {}
        ELSE {Later(st)} \cup {AnswerDiagnostic(st, Asked(st), a) : a \in {"too_big", "wrong_time", "not_important"}})
  \cup (IF AsksDifficulty(st) THEN {RateDifficulty(st)} ELSE {})
  \cup (IF OfferRating(st) /\ ~AsksDifficulty(st) THEN {RateEnergy(st)} ELSE {})
  \cup (IF OfferRating(st) THEN {SkipRating(st)} ELSE {})
  \cup {ApplyServer(st, rec, "shown") : rec \in {r \in DOMAIN st.recs : st.recs[r].status = "lapsed"}}

-----------------------------------------------------------------------------
(* What the facts alone say *)

\* The minutes a session was running, from its own facts.
ReplayedFocus(st, i) ==
  LET mine == SelectSeq(st.facts, LAMBDA f : f.session = i /\ f.type # "session_rated")
      runs == {n \in DOMAIN mine : mine[n].type \in {"focus_start", "focus_resume"} /\ n < Len(mine)}
  IN MapThenSumSet(LAMBDA n : mine[n + 1].at - mine[n].at, runs)

\* What an ended session reports is what its pauses and resumes add up to.
FocusTimed(st) ==
  \A n \in DOMAIN st.facts : LET f == st.facts[n] IN
    f.type = "focus_end" => f.n = ReplayedFocus(st, f.session) /\ f.n <= f.at - st.sessions[f.session].started

Completing == {"task_completed", "lapse_corrected"}
Completes(st, f) == f.type \in Completing \/ (f.type = "focus_end" /\ st.sessions[f.session].state = "finished")

\* The streak of an unsettled task is the number of skips and lapses since it was last answered.
StreakReplayed(st, task, before) ==
  LET mine  == SelectSeq(st.facts, LAMBDA f : IF f.rec = Nobody THEN f.n = task ELSE TaskOf(st, f.rec) = task)
      count == FoldLeft(LAMBDA acc, f : CASE f.type \in {"block_skipped", "lapse_observed"} -> acc + 1
                                          [] f.rec = Nobody -> 0
                                          [] OTHER -> acc, before, mine)
      settled == \E i \in DOMAIN mine : Completes(st, mine[i]) \/ mine[i].type = "not_important"
  IN IF settled THEN st.tasks[task].status \in {"done", "archived"} /\ st.tasks[task].streak = 0
     ELSE st.tasks[task].streak = count
=============================================================================
