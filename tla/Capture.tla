------------------------------ MODULE Capture ------------------------------
(***************************************************************************)
(* What the user enters, before it is a fact: the quick-add line and the   *)
(* task form, the onboarding answers, working hours, notification          *)
(* preferences and language.                                               *)
(*                                                                         *)
(* A quick-add line is a sequence of tokens; which words are durations,    *)
(* connectors and dates is the grammar's and chrono's business (external). *)
(* Instants are minutes, day 0 is today.                                   *)
(***************************************************************************)
EXTENDS Integers, Sequences, FiniteSets, SequencesExt, Grid

-----------------------------------------------------------------------------
(* The quick-add line *)

NoDate == [day |-> Never, hour |-> Never, sure |-> FALSE, told |-> FALSE, weekday |-> FALSE]

\* A token: kind is "word", "connector" ("by"), "relative" ("in"), "duration" or "date".  A date
\* has a day, an hour if one is said, and whether am/pm and the day are said; weekday: it is no
\* more than a day's name.
Token(kind, minutes, date) == [kind |-> kind, minutes |-> minutes, date |-> date]

\* "in 2h" is a moment, not an estimate.
Relative(text, i) == text[i].kind = "duration" /\ i > 1 /\ text[i - 1].kind = "relative"

Durations(text) == {i \in DOMAIN text : text[i].kind = "duration" /\ ~Relative(text, i)}

\* A zero duration is consumed but estimates nothing.
Estimates(text) == SelectSeq([i \in DOMAIN text |-> IF i \in Durations(text) THEN text[i].minutes ELSE 0],
                             LAMBDA m : m > 0)

\* What chrono reads in the masked text, as [first, last, date].
Dates(text, now) ==
  LET read(i) == IF Relative(text, i)
                 THEN LET at == now + text[i].minutes IN
                      [first |-> i - 1, last |-> i,
                       date |-> [day |-> at \div MinutesPerDay, hour |-> (at % MinutesPerDay) \div 60,
                                 sure |-> TRUE, told |-> TRUE, weekday |-> FALSE]]
                 ELSE [first |-> i, last |-> i, date |-> text[i].date]
      is == {i \in DOMAIN text : text[i].kind = "date" \/ Relative(text, i)}
  IN [n \in 1 .. Cardinality(is) |-> read(CHOOSE i \in is : Cardinality({j \in is : j <= i}) = n)]

\* The connector right before a position, masked durations being blanks; 0 if there is none.
ConnectorBefore(text, i) ==
  LET left == {j \in 1 .. i - 1 : j \notin Durations(text)}
      j    == IF left = {} THEN 0 ELSE CHOOSE k \in left : \A l \in left : l <= k
  IN IF j # 0 /\ text[j].kind = "connector" THEN j ELSE 0

\* The date a connector introduces, else the first.
Preferred(text, now) ==
  LET dates == Dates(text, now)
      led   == {n \in DOMAIN dates : ConnectorBefore(text, dates[n].first) # 0}
  IN CASE dates = <<>> -> 0
       [] led # {}     -> CHOOSE n \in led : \A k \in led : n <= k
       [] OTHER        -> 1

InstantOf(date, hour) == date.day * MinutesPerDay + hour * 60

EndOfDay(day) == day * MinutesPerDay + MinutesPerDay - 1

DeadlineOf(date) == IF date.hour = Never THEN EndOfDay(date.day) ELSE InstantOf(date, date.hour)

\* Mutant: a reading that has passed today is offered as it is.
ReadingPast(date, hour, now) == InstantOf(date, hour)

\* A day that was said is kept; otherwise the nearest future time of day.
Reading(date, hour, now) ==
  IF date.told THEN InstantOf(date, hour)
  ELSE LET today == (now \div MinutesPerDay) * MinutesPerDay + hour * 60 IN
       IF today <= now THEN today + MinutesPerDay ELSE today

HalfDayOpen(date) == date.hour # Never /\ ~date.sure /\ date.hour \in 1 .. 11

Ambiguities(text, now) ==
  LET dates == Dates(text, now)
      n     == Preferred(text, now)
      date  == dates[n].date
  IN (IF Len(Estimates(text)) > 1
      THEN {[kind |-> "multiple_durations", choices |-> Estimates(text)]} ELSE {})
     \cup IF n = 0 THEN {} ELSE
          (IF HalfDayOpen(date)
           THEN {[kind |-> "am_or_pm",
                  choices |-> <<Reading(date, date.hour, now), Reading(date, date.hour + 12, now)>>]} ELSE {})
          \cup (IF Len(dates) > 1
                THEN {[kind |-> "multiple_dates",
                       choices |-> [k \in DOMAIN dates |-> DeadlineOf(dates[k].date)]]} ELSE {})
          \cup (IF date.weekday /\ date.day = now \div MinutesPerDay
                THEN {[kind |-> "weekday_today_or_next",
                       choices |-> <<DeadlineOf(date), DeadlineOf(date) + 7 * MinutesPerDay>>]} ELSE {})

Consumed(text, now) ==
  LET n == Preferred(text, now)
      d == Dates(text, now)[n]
  IN Durations(text) \cup
     IF n = 0 THEN {} ELSE (d.first .. d.last) \cup ({ConnectorBefore(text, d.first)} \ {0})

\* What remains, less a connector left dangling by a date.
TitleOf(text, now) ==
  LET kept == {i \in DOMAIN text : i \notin Consumed(text, now)}
      last == CHOOSE i \in kept : \A j \in kept : j <= i
      stay == IF Preferred(text, now) # 0 /\ kept # {} /\ text[last].kind = "connector"
              THEN kept \ {last} ELSE kept
  IN [n \in 1 .. Cardinality(stay) |-> text[CHOOSE i \in stay : Cardinality({j \in stay : j <= i}) = n]]

ParseQuickAdd(text, now) ==
  [title |-> TitleOf(text, now),
   est |-> IF Estimates(text) = <<>> THEN Never ELSE Head(Estimates(text)),
   deadline |-> IF Preferred(text, now) = 0 THEN Never
                ELSE DeadlineOf(Dates(text, now)[Preferred(text, now)].date),
   ambiguities |-> Ambiguities(text, now)]

-----------------------------------------------------------------------------
(* Drafts: the quick-add bar with its chips, the form, and what the store takes *)

\* A chip overrides what was parsed, until the text is edited.
QuickDraft(parsed, chosen) ==
  [title |-> Len(parsed.title), est |-> IF parsed.est = Never THEN 30 ELSE parsed.est, value |-> 2,
   deadline |-> IF chosen = Never THEN parsed.deadline ELSE chosen, earliest |-> Never]

CanSubmit(parsed) == parsed.title # <<>>

FormValid(draft) ==
  /\ draft.title > 0 /\ draft.est # Never /\ draft.est > 0
  /\ draft.deadline = Never \/ draft.earliest = Never \/ draft.earliest <= draft.deadline

FormDraft(initial, deadlineDay, earliestDay) ==
  [initial EXCEPT !.deadline = IF deadlineDay = Never THEN @ ELSE EndOfDay(deadlineDay),
                  !.earliest = IF earliestDay = Never THEN @ ELSE earliestDay * MinutesPerDay]

\* assertValidDraft does not throw.
ValidDraft(draft) ==
  /\ draft.title > 0
  /\ draft.est \in Nat \ {0}
  /\ draft.value \in 1 .. 3
  /\ draft.deadline # Never /\ draft.earliest # Never => draft.earliest <= draft.deadline

-----------------------------------------------------------------------------
(* The survey *)

Unanswered == 0

OptionScores ==
  <<<<5, 4, 3, 2, 1>>, <<1, 2, 3, 4>>, <<5, 4, 3, 2, 1>>, <<5, 4, 3, 2, 1>>, <<6, 4, 2, 0>>>>

NoAnswers == [i \in DOMAIN OptionScores |-> Unanswered]

\* A tap on the selected option clears it.
Answer(answers, item, option) ==
  [answers EXCEPT ![item] = IF @ = option THEN Unanswered ELSE option]

\* Mutant: the bounds are exclusive.
ClassFromScoreOff(score) ==
  CASE score > 22 -> "DM" [] score > 18 -> "MM" [] score > 12 -> "INT" [] score > 8 -> "ME" [] OTHER -> "DE"

ClassFromScore(score) ==
  CASE score >= 22 -> "DM" [] score >= 18 -> "MM" [] score >= 12 -> "INT" [] score >= 8 -> "ME" [] OTHER -> "DE"

\* Any unanswered item makes the whole survey skipped.
ScoreRmeq(answers) ==
  IF \E i \in DOMAIN answers : answers[i] = Unanswered
  THEN [skipped |-> TRUE, score |-> Never, class |-> "INT"]
  ELSE LET score == FoldLeftDomain(LAMBDA acc, i : acc + OptionScores[i][answers[i]], 0, answers)
       IN [skipped |-> FALSE, score |-> score, class |-> ClassFromScore(score)]

\* The checks of the profiles table.
ProfileAccepted(r) ==
  \/ r.score = Never /\ r.skipped /\ r.class = "INT"
  \/ /\ r.score # Never /\ ~r.skipped /\ r.score \in 4 .. 25
     /\ r.class = CASE r.score \in 22 .. 25 -> "DM" [] r.score \in 18 .. 21 -> "MM"
                    [] r.score \in 12 .. 17 -> "INT" [] r.score \in 8 .. 11 -> "ME" [] OTHER -> "DE"

ToggleCategory(chosen, c) == IF c \in ToSet(chosen) THEN SelectSeq(chosen, LAMBDA d : d # c) ELSE Append(chosen, c)

-----------------------------------------------------------------------------
(* Working hours and sleep, in steps of half an hour *)

ValidWorkingRange(r) == 0 <= r[1] /\ r[2] <= MinutesPerDay /\ r[1] < r[2]

ValidSleepWindow(r) ==
  /\ r[1] \in 0 .. MinutesPerDay - 1 /\ r[2] \in 0 .. MinutesPerDay
  /\ r[1] # r[2]

Clamp(minute) == IF minute < 0 THEN 0 ELSE IF minute > MinutesPerDay THEN MinutesPerDay ELSE minute

Nudge(range, edge, delta) ==
  LET next == [range EXCEPT ![edge] = Clamp(@ + delta)]
  IN IF next[1] < next[2] THEN next ELSE range

\* Mutant: the window may be nudged to nothing.
NudgeSleepFree(window, edge, delta) == [window EXCEPT ![edge] = (@ + delta) % MinutesPerDay]

NudgeSleep(window, edge, delta) ==
  LET next == [window EXCEPT ![edge] = (@ + delta) % MinutesPerDay]
  IN IF next[1] # next[2] THEN next ELSE window

\* At least one working day.
ValidWorkingHours(hours) == DOMAIN hours # {} /\ \A d \in DOMAIN hours : ValidWorkingRange(hours[d])

ToggleDay(hours, d) ==
  IF d \in DOMAIN hours THEN [e \in DOMAIN hours \ {d} |-> hours[e]]
  ELSE [e \in DOMAIN hours \cup {d} |-> IF e = d THEN <<540, 1080>> ELSE hours[e]]

-----------------------------------------------------------------------------
(* Notification preferences in profiles.settings *)

Garbage == "garbage"
Categories == {"deep", "admin", "physical", "learning"}
Switches == {"on", "off"}
Times == {"19:00", "20:00", "21:00"}
DefaultSettings == [reminders |-> "on", ritual |-> "on", time |-> "20:00", muted |-> {}]

\* Total: a malformed field reads as its default.  A stored blob is a function of the fields it has.
SettingsOf(blob) ==
  LET get(f, ok) == IF f \in DOMAIN blob /\ blob[f] \in ok THEN blob[f] ELSE DefaultSettings[f]
  IN [reminders |-> get("reminders", Switches),
      ritual    |-> get("ritual", Switches),
      time      |-> get("time", Times),
      muted     |-> IF "muted" \in DOMAIN blob THEN blob["muted"] \cap Categories ELSE {}]

\* Mutant: the blob is replaced by the preferences.
WithSettingsOnly(blob, patch) ==
  [f \in DOMAIN DefaultSettings |-> IF f \in DOMAIN patch THEN patch[f] ELSE SettingsOf(blob)[f]]

\* The patch over what the blob reads as; an invalid time falls back, unrelated keys stay.
WithSettings(blob, patch) ==
  LET merged(f) == IF f \in DOMAIN patch THEN patch[f] ELSE SettingsOf(blob)[f]
  IN [f \in DOMAIN blob \cup DOMAIN DefaultSettings |->
        CASE f \in {"reminders", "ritual"} -> merged(f)
          [] f = "time"  -> IF merged(f) \in Times THEN merged(f) ELSE DefaultSettings.time
          [] f = "muted" -> merged(f) \cap Categories
          [] OTHER       -> blob[f]]

-----------------------------------------------------------------------------
(* Language and plurals *)

CatalogLocales == {"en", "uk"}

\* The choice, else the first of the device's languages there is a catalog for.
ResolveLocale(codes, preference) ==
  LET known == SelectSeq(codes, LAMBDA c : c \in CatalogLocales)
  IN CASE preference # "system" -> preference
       [] known # <<>>          -> Head(known)
       [] OTHER                 -> "en"

UkrainianForm(n) ==
  CASE n % 10 = 1 /\ n % 100 # 11 -> "one"
    [] n % 10 \in 2 .. 4 /\ n % 100 \notin 12 .. 14 -> "few"
    [] OTHER -> "many"

PluralForm(locale, n) ==
  IF locale = "uk" THEN UkrainianForm(n) ELSE IF n = 1 THEN "one" ELSE "other"

=============================================================================
