----------------------------- MODULE RewardMap -----------------------------
(***************************************************************************)
(* From facts to a reward, for one placement                               *)
(* (supabase/functions/_shared/rewards.ts).  Pure: the caller passes the   *)
(* placement, the facts it has in client order, the stored tuples and the  *)
(* time.                                                                   *)
(*                                                                         *)
(* Time runs in ticks; a slot is the tick it fills, its grace included.    *)
(* The last tick of a day is what is left of it after 23:55: nothing is    *)
(* placed there.  Rewards are tenths.  A session that was given up counts  *)
(* a quarter of the block, so two of them reach PAR_MIN_FRACTION.  A       *)
(* session belongs to the slot it began with (started_at, within the grace *)
(* of the slot's start), whenever it ends and whenever that is logged.     *)
(***************************************************************************)
EXTENDS Integers, Sequences, FiniteSets

CONSTANTS
    DayTicks,   \* ticks in a day, the last one after 23:55
    Window      \* CORRECTION_WINDOW_DAYS, in ticks

ASSUME TimeAssumption ==
    /\ DayTicks \in Nat \ {0, 1}
    /\ Window \in Nat

Day(t) == t \div DayTicks

LastTick(t) == t % DayTicks = DayTicks - 1

\* done: "mark done"; finish, part: a session finished or given up that began with a slot;
\* stray: a session finished that began with none; void: one without credit, given up that
\* began with none or closed as stale; fix: "actually did it"; seen: lapse_observed, which
\* bears no reward.
Kinds == {"done", "finish", "part", "stray", "void", "skip", "move", "fix", "seen"}

\* at: started_at of a session, when it was logged of any other fact; to: where a move goes.
Facts == [kind: Kinds, at: Nat, to: Nat]

Open == {"shown", "moved"}

Statuses == Open \cup {"completed", "lapsed", "rejected", "displaced_pending",
                       "displaced", "expired"}

Placements == [status: Statuses, slot: Nat, attributed: BOOLEAN, conflict: BOOLEAN]

Reasons == {"completed", "off_slot", "partial", "lapsed", "skipped"}

\* The stored outcome tuple; at is attributed_at.
NoOutcome == [reason |-> "none", at |-> 0, excluded |-> FALSE, corrected |-> FALSE]

Outcomes == [reason: Reasons, at: Nat, excluded: BOOLEAN, corrected: BOOLEAN]

\* Stored tuples: the outcome, and whether the override pair is there.
Tuples == [outcome: Outcomes \cup {NoOutcome}, pair: BOOLEAN]

Reward == [r \in Reasons |-> CASE r = "completed" -> 10 [] r = "off_slot" -> 3
                               [] r = "partial" -> 2 [] OTHER -> 0]

\* The status a patch sets for a reason; "same" leaves it.
StatusFor == [r \in Reasons |-> CASE r \in {"completed", "off_slot"} -> "completed"
                                  [] r = "lapsed" -> "lapsed"
                                  [] r = "skipped" -> "rejected" [] OTHER -> "same"]
-----------------------------------------------------------------------------
(* observe *)

Some(facts, kind) == \E i \in DOMAIN facts : facts[i].kind = kind

\* sessionInWindow by when the session began, completionInWindow by when it was marked done.
InWindow(facts, kind, slot) == {i \in DOMAIN facts : facts[i].kind = kind /\ facts[i].at = slot}

CompletedInWindow(facts, slot) ==
    \/ InWindow(facts, "done", slot) # {}
    \/ InWindow(facts, "finish", slot) # {}
    \/ Cardinality(InWindow(facts, "part", slot)) >= 2

CompletedSameDay(facts, slot) ==
    \E i \in DOMAIN facts :
        facts[i].kind \in {"done", "finish", "stray"} /\ Day(facts[i].at) = Day(slot)

\* A session in the window counts once the block cannot be resumed.
Credited(facts, slot, now, final) ==
    InWindow(facts, "part", slot) # {} /\ (final \/ now > slot)

\* instantOutcome: a completion beats everything, then a credited session, then a skip.
Instant(facts, slot, now, final) ==
    IF CompletedInWindow(facts, slot) THEN "completed"
    ELSE IF Credited(facts, slot, now, final) THEN "partial"
    ELSE IF Some(facts, "skip") THEN "skipped" ELSE "none"

\* dailyOutcome: what is left at 23:55.
Daily(facts, slot, now) ==
    IF Instant(facts, slot, now, TRUE) # "none" THEN Instant(facts, slot, now, TRUE)
    ELSE IF CompletedSameDay(facts, slot) THEN "off_slot" ELSE "lapsed"

(* What a pass wants to write: at most one outcome, at most one pair, patches in order. *)

Patch(status, slot, attributed, conflict) ==
    [status |-> status, slot |-> slot, attributed |-> attributed, conflict |-> conflict]

Nothing == [outcome |-> NoOutcome, correction |-> FALSE, pair |-> FALSE, patches |-> <<>>]

\* Mutant: a partial session leaves the placement unattributed.
FreshPartial(reason, slot, now) ==
    [Nothing EXCEPT !.outcome = [NoOutcome EXCEPT !.reason = reason, !.at = now],
                    !.patches = <<Patch(StatusFor[reason], slot, reason # "partial", FALSE)>>]

Fresh(reason, slot, now) ==
    [Nothing EXCEPT !.outcome = [NoOutcome EXCEPT !.reason = reason, !.at = now],
                    !.patches = <<Patch(StatusFor[reason], slot, TRUE, FALSE)>>]

Corrected(reason, slot, stored) ==
    [Nothing EXCEPT !.outcome = [stored EXCEPT !.reason = reason, !.corrected = TRUE],
                    !.correction = TRUE,
                    !.patches = <<Patch(StatusFor[reason], slot, FALSE, FALSE)>>]

\* Mutant: a lapse is not rewritten.
UpgradableNotLapsed(stored, now) ==
    /\ stored.reason \in {"off_slot", "partial"}
    /\ ~stored.excluded /\ ~stored.corrected
    /\ now - stored.at <= Window

\* UPGRADABLE and insideWindow: a stored tuple that later facts may rewrite, once.
Upgradable(stored, now) ==
    /\ stored.reason \in {"lapsed", "off_slot", "partial"}
    /\ ~stored.excluded /\ ~stored.corrected
    /\ now - stored.at <= Window

\* Mutant: the comparison with the stored reward is dropped.
UpgradeAny(facts, slot, stored, now) ==
    LET fresh == Instant(facts, slot, now, TRUE) IN
    IF Upgradable(stored, now) /\ fresh # "none" THEN Corrected(fresh, slot, stored) ELSE Nothing

\* upgrade: late facts rewrite a stored tuple when they are worth strictly more.
Upgrade(facts, slot, stored, now) ==
    LET fresh == Instant(facts, slot, now, TRUE) IN
    IF Upgradable(stored, now) /\ fresh # "none" /\ Reward[fresh] > Reward[stored.reason]
    THEN Corrected(fresh, slot, stored) ELSE Nothing

\* mapUser, after the moves: correction, upgrade, or a first outcome.
Settle(facts, slot, stored, now, mode) ==
    LET reason == IF mode = "daily" THEN Daily(facts, slot, now)
                  ELSE Instant(facts, slot, now, FALSE)
    IN IF Some(facts, "fix")
       THEN IF stored = NoOutcome THEN Fresh("completed", slot, now)
            ELSE IF Upgradable(stored, now) THEN Corrected("completed", slot, stored)
            ELSE Nothing
       ELSE IF stored # NoOutcome THEN Upgrade(facts, slot, stored, now)
       ELSE IF reason = "none" THEN Nothing ELSE Fresh(reason, slot, now)

\* Mutant: the completion that raced the meeting counts.
SettleDisplacedCounts(facts, slot, stored, now, mode) ==
    IF stored # NoOutcome THEN Nothing
    ELSE IF CompletedInWindow(facts, slot)
         THEN [Fresh("completed", slot, now) EXCEPT !.patches[1].conflict = TRUE]
         ELSE IF mode = "daily" \/ now > slot
              THEN [Nothing EXCEPT !.patches = <<Patch("displaced", slot, TRUE, FALSE)>>]
              ELSE Nothing

\* mapUser for displaced_pending: evidence makes an excluded completion, no evidence a
\* displacement without a tuple.
SettleDisplaced(facts, slot, stored, now, mode) ==
    IF stored # NoOutcome THEN Nothing
    ELSE IF CompletedInWindow(facts, slot)
         THEN [Nothing EXCEPT !.outcome = [NoOutcome EXCEPT !.reason = "completed", !.at = now,
                                                            !.excluded = TRUE],
                              !.patches = <<Patch("completed", slot, TRUE, TRUE)>>]
         ELSE IF mode = "daily" \/ now > slot
              THEN [Nothing EXCEPT !.patches = <<Patch("displaced", slot, TRUE, FALSE)>>]
              ELSE Nothing

Moves(facts) == {i \in DOMAIN facts : facts[i].kind = "move"}

\* Where the latest move puts the block.
SlotAfter(facts, slot) ==
    IF Moves(facts) = {} THEN slot
    ELSE facts[CHOOSE i \in Moves(facts) : \A k \in Moves(facts) : k <= i].to

\* The move is applied when it is new: the placement is elsewhere, or has no pair yet.
NewMove(facts, rec, tuples) ==
    Some(facts, "move") /\ (~tuples.pair \/ rec.slot # SlotAfter(facts, rec.slot))

\* mapUser, for one placement.
MapUser(rec, facts, tuples, now, mode) ==
    LET slot == SlotAfter(facts, rec.slot)
        rest == Settle(facts, slot, tuples.outcome, now, mode)
    IN CASE rec.status \in {"displaced", "expired"} -> Nothing
         [] rec.status = "displaced_pending" ->
              SettleDisplaced(facts, rec.slot, tuples.outcome, now, mode)
         [] OTHER ->
              IF NewMove(facts, rec, tuples)
              THEN [rest EXCEPT !.pair = ~tuples.pair,
                                !.patches = <<Patch("moved", slot, FALSE, FALSE)>> \o @]
              ELSE rest
=============================================================================
