------------------------------ MODULE GoogleMap ------------------------------
(***************************************************************************)
(* What the import makes of Google's events: pages of a list, the busy     *)
(* time of an event in the calendar's zone, the mirror the planner reads,  *)
(* the open blocks a new busy time displaces, and the token of the calls.  *)
(*                                                                         *)
(* An event is [id, status, marked, when, from, to, zone, free, declined,  *)
(* type]: marked is our own write-back copy; from and to are instants, or  *)
(* day numbers when the event lasts all day, in its own zone or, for Never,*)
(* in the calendar's.  Only an event that would need a value the code      *)
(* tests for lacks it: when is "none", or its id is 0.                     *)
(***************************************************************************)
EXTENDS Grid, Sequences, SequencesExt

CONSTANTS MaxPages, TokenMargin

NoId == 0

-----------------------------------------------------------------------------
(* One event *)

AllDay(day, zone) == LocalMidnight(day, zone)

Tombstone(e) == [id |-> e.id, slot |-> <<0, 0>>, busy |-> FALSE, deleted |-> TRUE]

Zone(e, calendarZone) == IF e.zone = Never THEN calendarZone ELSE e.zone

\* Start and end; Never where the event has none that can be read, or is an all-day event Google
\* marks free.
Bounds(e, calendarZone) ==
  CASE e.when = "timed" -> <<e.from, e.to>>
    [] e.when = "day" /\ ~e.free -> <<AllDay(e.from, Zone(e, calendarZone)), AllDay(e.to, Zone(e, calendarZone))>>
    [] OTHER -> <<Never, Never>>

\* Mutant: an event the user declined still blocks.
BusyDeclined(e) == ~e.free /\ e.type \notin {"workingLocation", "birthday"}

BusyEvent(e) == ~e.free /\ ~e.declined /\ e.type \notin {"workingLocation", "birthday"}

\* The row of an event, or none.
MapGoogleEvent(e, calendarZone) ==
  LET at == Bounds(e, calendarZone) IN
  IF e.id = NoId \/ e.marked THEN {}
  ELSE IF e.status = "cancelled" THEN {Tombstone(e)}
  ELSE IF at[1] = Never \/ at[2] = Never THEN {}
  ELSE IF at[2] <= at[1] THEN {}
  ELSE {[id |-> e.id, slot |-> at, busy |-> BusyEvent(e), deleted |-> FALSE]}

-----------------------------------------------------------------------------
(* A sync *)

\* Mutant: the list ends with its first page.
ListFirst(pages, zone) == [items |-> pages[1].items, complete |-> TRUE, zone |-> zone]

\* All pages up to the guard; only the last one brings the token of the next sync.
ListAll(pages, zone) ==
  LET read == SubSeq(pages, 1, Min({Len(pages), MaxPages}))
      told == SelectSeq(read, LAMBDA p : p.zone # Never)
  IN [items    |-> FlattenSeq([i \in DOMAIN read |-> read[i].items]),
      complete |-> Len(pages) <= MaxPages,
      zone     |-> IF told = <<>> THEN zone ELSE Last(told).zone]

Mapped(listed) == UNION {MapGoogleEvent(e, listed.zone) : e \in ToSet(listed.items)}

\* One row per event, the imported one replacing it.
UpsertEvents(mirror, mapped) ==
  {row \in mirror : \A m \in mapped : m.id # row.id} \cup mapped

Overlaps(a, b) == a[1] < b[2] /\ b[1] < a[2]

\* Open blocks that are not over and share time with a busy event that is not over.
Displaced(recs, mapped, now) ==
  LET busy == {m \in mapped : m.busy /\ ~m.deleted /\ m.slot[2] > now} IN
  {r \in recs : /\ r.status \in {"shown", "accepted", "pinned", "moved"} /\ r.slot[2] > now
                /\ \E m \in busy : Overlaps(r.slot, m.slot)}

\* syncUser; zone is the profile's, used until a page names the calendar's.
SyncUser(st, pages, zone, now) ==
  LET listed == ListAll(pages, zone)
      mapped == Mapped(listed)
  IN [mirror |-> UpsertEvents(st.mirror, mapped),
      recs   |-> {IF r \in Displaced(st.recs, mapped, now) THEN [r EXCEPT !.status = "displaced_pending"] ELSE r : r \in st.recs},
      token  |-> listed.complete]

-----------------------------------------------------------------------------
(* The token of the calls *)

\* What the token endpoint answered: anything but a token and its life is an error.
TokenRequest(answer) ==
  IF answer.ok /\ answer.token # 0 /\ answer.life # 0 THEN {[token |-> answer.token, life |-> answer.life]} ELSE {}

\* Mutant: a token is used up to its last second.
EnsureTokenLate(state, now, answer) ==
  IF state.token # 0 /\ state.expires > now THEN {state}
  ELSE IF ~state.refresh THEN {}
  ELSE {[state EXCEPT !.token = t.token, !.expires = now + t.life] : t \in TokenRequest(answer)}

\* The state with a token to call with; none when there is no way to get one.
EnsureToken(state, now, answer) ==
  IF state.token # 0 /\ state.expires - TokenMargin > now THEN {state}
  ELSE IF ~state.refresh THEN {}
  ELSE {[state EXCEPT !.token = t.token, !.expires = now + t.life] : t \in TokenRequest(answer)}

-----------------------------------------------------------------------------

\* The time a user is busy with an event, as Google shows it; days by the first instant of each.
Blocks(e, calendarZone) ==
  LET own == Zone(e, calendarZone)
      slot == IF e.when = "day" THEN <<FirstInstant(e.from, own), FirstInstant(e.to, own)>> ELSE <<e.from, e.to>> IN
  IF e.id = NoId \/ e.marked \/ e.status = "cancelled" \/ e.when = "none" THEN {}
  ELSE IF e.free \/ e.declined \/ e.type # "default" \/ slot[2] <= slot[1] THEN {}
  ELSE {slot}

BusyTimes(mirror) == {row.slot : row \in {r \in mirror : r.busy /\ ~r.deleted}}
=============================================================================
