------------------------------- MODULE Notify -------------------------------
(***************************************************************************)
(* Local notifications: the scheduler's pass (cancel, settle the ledger,   *)
(* plan, hand the requests to the OS, commit), the debounced triggers that *)
(* run it, the OS that fires requests while the app lives or not, and the  *)
(* user who moves and closes blocks, moves the ritual, signs out.  Time is *)
(* counted in ticks; a day has DayLength of them.                          *)
(*                                                                         *)
(* NotifyInit, NotifyNext, NotifySpec, notifyVars and KillApp are named so *)
(* that a module of proofs can extend this one beside another.             *)
(***************************************************************************)
EXTENDS Integers, FiniteSets, FiniteSetsExt

CONSTANTS
  Blocks,       \* each named by the start it is first given
  Muted,        \* the blocks of a muted category
  Offered,      \* the days whose evening has a ritual: Sundays, and days before a day with hours
  Cap, Lead,
  MinLead,      \* closer than this is not asked for; a pass is over in less
  DayLength, RitualTimes,
  Slots,        \* the starts a block may be moved to
  None,
  MaxTime, MaxEdits

ASSUME NotifyAssumption ==
  /\ IsFiniteSet(Blocks) /\ Muted \subseteq Blocks /\ {Cap, Lead, MinLead, DayLength, MaxTime, MaxEdits} \subseteq Nat
  /\ Blocks \cup Slots \subseteq Nat /\ DayLength > 0 /\ MinLead > 1 /\ RitualTimes \subseteq 0 .. DayLength - 1

VARIABLES
  now,
  block,      \* recommendations: block -> [slot, open]
  ritual,     \* settings: the ritual's time of day, None when off
  profile,    \* the account's profile is on the device
  os,         \* what the OS holds: requests [id, at, slot]
  shade,      \* what it has presented and nobody dismissed
  fired,      \* every delivery: [id, at, when]
  ledger,     \* MMKV: [delivered: {[id, day]}, scheduled: requests]
  pass,       \* the pass under way, [pc, clock, todo, done, open]
  again,      \* rerun: a call came while a pass was under way
  timer,      \* the debounce timer is set
  mounted,    \* the app lives, its tab shell mounted
  slip,       \* something was delivered no ledger can know of: while a pass opened, or by a pass killed
  edits

notifyVars == <<now, block, ritual, profile, os, shade, fired, ledger, pass, again, timer, mounted, slip, edits>>
data == <<block, ritual, profile>>

Day(t) == t \div DayLength
Today == Day(now)
NoPass == [pc |-> "idle", clock |-> 0, todo |-> {}, done |-> {}, open |-> {}]
Idle == pass.pc = "idle"
EmptyLedger == [delivered |-> {}, scheduled |-> {}]

-----------------------------------------------------------------------------
(* The plan of notifications *)

BlockRequest(b) == [id |-> <<"block", b>>, at |-> block[b].slot - Lead, slot |-> block[b].slot]
RitualRequest(day) == [id |-> <<"ritual", day>>, at |-> day * DayLength + ritual, slot |-> None]

\* upcomingRecommendationsQuery: the open blocks ahead of the pass's clock, whose task lives.
OpenAhead(clock) == {b \in Blocks : block[b].open /\ block[b].slot >= clock}

\* Too close to now, or past, is not worth asking for.
BlockCandidates(clock) ==
  {BlockRequest(b) : b \in {c \in OpenAhead(clock) \ Muted : block[c].slot - Lead >= clock + MinLead}}

RitualCandidatesAgain(clock, delivered) ==
  IF ritual = None THEN {}
  ELSE {r \in {RitualRequest(d) : d \in {Day(clock), Day(clock) + 1} \cap Offered} : r.at >= clock + MinLead}

RitualCandidatesAnyDay(clock, delivered) ==
  IF ritual = None THEN {}
  ELSE {r \in {RitualRequest(d) : d \in {Day(clock), Day(clock) + 1}} :
          r.at >= clock + MinLead /\ ~\E m \in delivered : m.id = r.id}

\* Today's and tomorrow's ritual, unless that day's has been delivered already.
RitualCandidates(clock, delivered) ==
  IF ritual = None THEN {}
  ELSE {r \in {RitualRequest(d) : d \in {Day(clock), Day(clock) + 1} \cap Offered} :
          r.at >= clock + MinLead /\ ~\E m \in delivered : m.id = r.id}

DeliveredOn(delivered, day) == {m \in delivered : m.day = day}

Kind(r) == r.id[1]

\* The earliest ones, the ritual first of all, up to what is left of the day's cap.
Chosen(candidates, budget) ==
  LET before(r) == {q \in candidates : \/ Kind(q) = "ritual" /\ Kind(r) = "block"
                                       \/ Kind(q) = Kind(r) /\ q.at < r.at}
      same(r) == {q \in candidates : Kind(q) = Kind(r) /\ q.at = r.at}
  IN {S \in SUBSET candidates :
        /\ Cardinality(S) = Min({Cardinality(candidates), Max({budget, 0})})
        /\ \A r \in S : before(r) \subseteq S}

PlanNoCount(clock, delivered, day) ==
  LET all == BlockCandidates(clock) \cup RitualCandidates(clock, delivered)
  IN Chosen({r \in all : Day(r.at) = day}, Cap)

\* planNotifications, a day at a time: the plans it may settle on (ids break ties).
PlanOf(clock, delivered, day) ==
  LET all == BlockCandidates(clock) \cup RitualCandidates(clock, delivered)
  IN Chosen({r \in all : Day(r.at) = day}, Cap - Cardinality(DeliveredOn(delivered, day)))

PlanFor(clock, delivered) ==
  {S \cup T \cup U : S \in PlanOf(clock, delivered, Day(clock)),
                     T \in PlanOf(clock, delivered, Day(clock) + 1),
                     U \in PlanOf(clock, delivered, Day(clock) + 2)}

-----------------------------------------------------------------------------
(* The ledger *)

\* settleLedger: what should have fired counts as delivered; yesterday is kept, older days are not.
Settled(clock) ==
  [delivered |-> {m \in ledger.delivered : m.day >= Day(clock) - 1}
                 \cup {[id |-> r.id, day |-> Day(r.at)] :
                         r \in {s \in ledger.scheduled : s.at <= clock /\ Day(s.at) >= Day(clock) - 1}},
   scheduled |-> {r \in ledger.scheduled : r.at > clock}]

-----------------------------------------------------------------------------
(* The pass *)

StartForgetful ==
  IF Idle THEN pass' = [NoPass EXCEPT !.pc = "cancel", !.clock = now] /\ UNCHANGED again
          ELSE UNCHANGED <<pass, again>>

\* runNotificationScheduler: a call during a pass asks for one more, however many there are.
Start ==
  IF Idle THEN pass' = [NoPass EXCEPT !.pc = "cancel", !.clock = now] /\ UNCHANGED again
          ELSE again' = TRUE /\ UNCHANGED pass

\* The end of a pass, and the next one when it was asked for.
Finish ==
  /\ pass' = IF again THEN [NoPass EXCEPT !.pc = "cancel", !.clock = now] ELSE NoPass
  /\ again' = FALSE

\* The tab shell comes up.
Launch ==
  /\ ~mounted /\ mounted' = TRUE
  /\ Start
  /\ UNCHANGED <<now, data, os, shade, fired, ledger, timer, slip, edits>>

\* The app comes back to the foreground.
Foreground ==
  /\ mounted
  /\ Start
  /\ UNCHANGED <<now, data, os, shade, fired, ledger, timer, mounted, slip, edits>>

\* The debounce is over.
Elapse ==
  /\ timer /\ timer' = FALSE
  /\ Start
  /\ UNCHANGED <<now, data, os, shade, fired, ledger, mounted, slip, edits>>

\* Cancel, then settle, then read the database: without a profile the pass ends here.
CancelAndSettle ==
  /\ pass.pc = "cancel"
  /\ os' = {}
  /\ IF profile
     THEN /\ ledger' = Settled(pass.clock)
          /\ \E plan \in PlanFor(pass.clock, Settled(pass.clock).delivered) :
               pass' = [pass EXCEPT !.pc = "dismiss", !.todo = plan,
                          !.open = {[id |-> <<"block", b>>, slot |-> block[b].slot] :
                                      b \in OpenAhead(pass.clock)}]
          /\ UNCHANGED again
     ELSE ledger' = [Settled(pass.clock) EXCEPT !.scheduled = {}] /\ Finish
  /\ UNCHANGED <<now, data, shade, fired, timer, mounted, slip, edits>>

StaleClosed == {n \in shade : Kind(n) = "block" /\ ~\E o \in pass.open : o.id = n.id}

\* staleReminderIds: closed, moved, or started by the pass's clock.
Stale ==
  {n \in shade : Kind(n) = "block" /\ (n.slot <= pass.clock \/ [id |-> n.id, slot |-> n.slot] \notin pass.open)}

Dismiss ==
  /\ pass.pc = "dismiss"
  /\ shade' = shade \ Stale
  /\ pass' = [pass EXCEPT !.pc = "schedule", !.open = {}]
  /\ UNCHANGED <<now, data, os, fired, ledger, again, timer, mounted, slip, edits>>

\* One request of the plan, in time order; the OS replaces a request of the same id.
Schedule(r) ==
  /\ pass.pc = "schedule" /\ r \in pass.todo
  /\ \A q \in pass.todo : r.at <= q.at
  /\ os' = {q \in os : q.id # r.id} \cup {r}
  /\ pass' = [pass EXCEPT !.todo = @ \ {r}, !.done = @ \cup {r}]
  /\ UNCHANGED <<now, data, shade, fired, ledger, again, timer, mounted, slip, edits>>

Commit ==
  /\ pass.pc = "schedule" /\ pass.todo = {}
  /\ ledger' = [ledger EXCEPT !.scheduled = pass.done]
  /\ Finish
  /\ UNCHANGED <<now, data, os, shade, fired, timer, mounted, slip, edits>>

-----------------------------------------------------------------------------
(* The OS, the user, the account *)

\* Time passes, slowly against the debounce and a pass; the OS fires what is due, also what it was asked for too late.
Tick ==
  /\ now < MaxTime /\ ~timer /\ (Idle \/ now + 1 < pass.clock + MinLead)
  /\ now' = now + 1
  /\ LET due == {r \in os : r.at <= now + 1} IN
     /\ os' = os \ due
     /\ shade' = {n \in shade : ~\E r \in due : r.id = n.id} \cup due
     /\ fired' = fired \cup {[id |-> r.id, at |-> r.at, when |-> now + 1] : r \in due}
     /\ slip' = (slip \/ (pass.pc = "cancel" /\ due # {}))
  /\ UNCHANGED <<data, ledger, pass, again, timer, mounted, edits>>

\* A write to plans, recommendations, tasks or profiles sets the timer anew.
Edited == timer' = mounted /\ edits < MaxEdits /\ edits' = edits + 1

MoveBlock(b, slot) ==
  /\ profile /\ Edited
  /\ block' = [block EXCEPT ![b] = [slot |-> slot, open |-> TRUE]]
  /\ UNCHANGED <<now, ritual, profile, os, shade, fired, ledger, pass, again, mounted, slip>>

CloseBlock(b) ==
  /\ profile /\ block[b].open /\ Edited
  /\ block' = [block EXCEPT ![b].open = FALSE]
  /\ UNCHANGED <<now, ritual, profile, os, shade, fired, ledger, pass, again, mounted, slip>>

\* updateNotificationSettingsAction writes the profile and runs the scheduler at once.
MoveRitual(time) ==
  /\ profile /\ mounted /\ time # ritual /\ edits < MaxEdits /\ edits' = edits + 1
  /\ ritual' = time /\ timer' = TRUE
  /\ Start
  /\ UNCHANGED <<now, block, profile, os, shade, fired, ledger, mounted, slip>>

\* The user opens a reminder, or sweeps it away.
Tap(n) ==
  /\ n \in shade
  /\ shade' = shade \ {n}
  /\ UNCHANGED <<now, data, os, fired, ledger, pass, again, timer, mounted, slip, edits>>

\* An account transition with nothing unsynced: the mirror is wiped, ledger, OS and shade emptied.
Leave ==
  /\ profile /\ profile' = FALSE /\ edits < MaxEdits /\ edits' = edits + 1
  /\ block' = [b \in Blocks |-> [block[b] EXCEPT !.open = FALSE]]
  /\ os' = {} /\ shade' = {} /\ fired' = {} /\ ledger' = EmptyLedger
  /\ slip' = ~Idle
  /\ timer' = mounted
  /\ UNCHANGED <<now, ritual, pass, again, mounted>>

KillApp ==
  /\ mounted
  /\ slip' = (slip \/ (pass.pc = "schedule" /\ pass.done # {}))
  /\ pass' = NoPass /\ again' = FALSE /\ timer' = FALSE /\ mounted' = FALSE
  /\ UNCHANGED <<now, data, os, shade, fired, ledger, edits>>

\* The ritual is on by default, at the earliest of its times.
FirstRitual == IF RitualTimes = {} THEN None ELSE Min(RitualTimes)

NotifyInit ==
  /\ now = 0 /\ profile = TRUE /\ ritual = FirstRitual
  /\ block = [b \in Blocks |-> [slot |-> b, open |-> TRUE]]
  /\ os = {} /\ shade = {} /\ fired = {} /\ ledger = EmptyLedger
  /\ pass = NoPass /\ again = FALSE /\ timer = FALSE /\ mounted = FALSE
  /\ slip = FALSE /\ edits = 0

Pass == CancelAndSettle \/ Dismiss \/ (\E r \in pass.todo : Schedule(r)) \/ Commit

NotifyNext ==
  \/ Launch \/ Foreground \/ Elapse \/ Tick \/ Pass \/ Leave \/ KillApp
  \/ \E b \in Blocks : CloseBlock(b) \/ \E slot \in Slots : MoveBlock(b, slot)
  \/ \E time \in RitualTimes \cup {None} : MoveRitual(time)
  \/ \E n \in shade : Tap(n)

NotifySpec == NotifyInit /\ [][NotifyNext]_notifyVars

\* A pass goes on, the timer elapses, the user opens the app again.
FairSpec == NotifySpec /\ WF_notifyVars(Pass) /\ WF_notifyVars(Elapse) /\ WF_notifyVars(Launch)

-----------------------------------------------------------------------------
(* Type correctness: what the OS and the ledger hold are requests of this device's blocks. *)
TypeOK ==
  /\ now \in 0 .. MaxTime /\ ritual \in RitualTimes \cup {None}
  /\ os \cup pass.todo \cup pass.done \cup ledger.scheduled
       \subseteq [id : {<<"block", b>> : b \in Blocks} \cup ({"ritual"} \X Offered),
                  at : Int, slot : Nat \cup {None}]
  /\ \A r, q \in os : r.id = q.id => r = q
  /\ timer => mounted

DeliveriesOn(day) == {f \in fired : Day(f.at) = day}

\* plan.ts:3: the daily cap is a ceiling over everything sent on a local day.
CapKept ==
  ~slip => \A day \in 0 .. Today : Cardinality(DeliveriesOn(day)) <= Cap

\* As far as the code gives it: over the different reminders of a day, since the ledger counts an
\* id once.
CapKeptById ==
  ~slip => \A day \in 0 .. Today : Cardinality({f.id : f \in DeliveriesOn(day)}) <= Cap

\* "one per calendar day": a ritual that has fired never fires again, wherever its time is moved.
RitualOnce ==
  ~slip => \A f, g \in fired : f.id[1] = "ritual" /\ f.id = g.id => f = g

\* The user is interrupted no more often than promised.
FiresSparingly == TypeOK /\ CapKeptById /\ RitualOnce

\* While the app lives, it comes back to agreement: the OS holds nothing the database does not call
\* for, it holds all of today's unless the day's cap is used up, and the shade has no reminder of a
\* block that closed or moved.
Agrees ==
  /\ profile => LET L == Settled(now) IN
       /\ os \subseteq {BlockRequest(b) : b \in {c \in Blocks \ Muted : block[c].open}}
                       \cup {RitualRequest(d) : d \in IF ritual = None THEN {} ELSE Offered}
       /\ \A n \in shade : Kind(n) = "block" =>
            \E b \in Blocks : n.id = <<"block", b>> /\ block[b].open /\ block[b].slot = n.slot
       /\ \A r \in BlockCandidates(now) \cup RitualCandidates(now, L.delivered) :
            Day(r.at) = Today =>
              \/ r \in os
              \/ Cardinality(DeliveredOn(L.delivered, Today)) + Cardinality({q \in os : Day(q.at) = Today}) >= Cap
  /\ ~profile => os = {}

EventuallyAgrees == <>[]mounted => []<>Agrees
=============================================================================
