-------------------------- MODULE PlacementProofs --------------------------
(***************************************************************************)
(* Proofs about RewardMap and Placement: for any length of the day, bound  *)
(* and failure (passes that die, outlive their lease and meet writers      *)
(* without one),                                                           *)
(*   - every value keeps its type, and what mapUser writes over a stored   *)
(*     outcome is strictly better (MapUserGains);                          *)
(*   - a stored outcome is rewritten once at most, and only to a strictly  *)
(*     better reward (OnlyImproves);                                       *)
(*   - when nothing fails, the row and the stored outcome say the same     *)
(*     (RowAndReward), a sweep settles what it loaded (DueIsSettled), and  *)
(*     the device shows what the server says (ScreenIsTrue);               *)
(*   - when no block is moved after 23:55, what the server says of a block *)
(*     is what happened to it (ServerIsRight), and a sync that ends with   *)
(*     its reward pass leaves a block done in its slot as completed        *)
(*     (FactsWin).                                                         *)
(***************************************************************************)
EXTENDS Placement, FiniteSetTheorems, SequenceTheorems, WellFoundedInduction, TLAPS

Patches == [status: Statuses \cup {"same"}, slot: Nat, attributed: BOOLEAN, conflict: BOOLEAN]

Results == [outcome: Outcomes \cup {NoOutcome}, correction: BOOLEAN, pair: BOOLEAN,
            patches: Seq(Patches)]
-----------------------------------------------------------------------------
\* Every nonempty set of natural numbers has a least element.
LEMMA LeastNat ==
    ASSUME NEW T \in SUBSET Nat, T # {}
    PROVE  \E x \in T : \A y \in T : x <= y
<1> DEFINE R == OpToRel(<, Nat)
<1>1. IsWellFoundedOn(R, Nat)
  BY NatLessThanWellFounded
<1>2. \A x, y \in Nat : x < y => <<x, y>> \in R
  BY DEF OpToRel
<1> HIDE DEF R
<1>3. PICK x \in T : \A y \in T : ~(<<y, x>> \in R)
  BY <1>1, WFMin
<1>4. \A y \in T : x <= y
  <2> TAKE y \in T
  <2>1. x \in Nat /\ y \in Nat /\ ~(y < x)
    BY <1>2, <1>3
  <2> QED
    BY <2>1
<1>5. QED
  BY <1>4

\* A bounded one has a greatest element.
LEMMA GreatestNat ==
    ASSUME NEW n \in Nat, NEW T \in SUBSET (0..n), T # {}
    PROVE  \E x \in T : \A y \in T : y <= x
<1> DEFINE U == {n - t : t \in T}
<1>1. U \in SUBSET Nat /\ U # {}
  <2>1. \A t \in T : n - t \in Nat
    OBVIOUS
  <2> QED
    BY <2>1
<1>2. PICK u \in U : \A v \in U : u <= v
  BY <1>1, LeastNat
<1>3. PICK x \in T : u = n - x
  BY <1>2
<1>4. ASSUME NEW y \in T PROVE y <= x
  <2>1. n - x <= n - y
    BY <1>2, <1>3
  <2> QED
    BY <2>1
<1>5. QED
  BY <1>4
-----------------------------------------------------------------------------
\* The latest move is one of the facts, and no move comes after it.
LEMMA LatestMove ==
    ASSUME NEW facts \in Seq(Facts), NEW slot \in Nat, Some(facts, "move")
    PROVE  \E i \in Moves(facts) : /\ \A k \in Moves(facts) : k <= i
                                   /\ SlotAfter(facts, slot) = facts[i].to
<1>1. DOMAIN facts = 1..Len(facts) /\ Len(facts) \in Nat
  BY LenProperties
<1>2. Moves(facts) \in SUBSET (0..Len(facts)) /\ Moves(facts) # {}
  BY <1>1 DEF Moves, Some
<1>3. \E x \in Moves(facts) : \A k \in Moves(facts) : k <= x
  BY <1>1, <1>2, GreatestNat
<1> DEFINE i == CHOOSE x \in Moves(facts) : \A k \in Moves(facts) : k <= x
<1>4. i \in Moves(facts) /\ \A k \in Moves(facts) : k <= i
  BY <1>3
<1>5. SlotAfter(facts, slot) = facts[i].to
  BY <1>2 DEF SlotAfter
<1> HIDE DEF i
<1>6. QED
  BY <1>4, <1>5

LEMMA SlotTyped ==
    ASSUME NEW facts \in Seq(Facts), NEW slot \in Nat
    PROVE  SlotAfter(facts, slot) \in Nat
<1>1. CASE Some(facts, "move")
  <2>1. PICK i \in Moves(facts) : SlotAfter(facts, slot) = facts[i].to
    BY <1>1, LatestMove
  <2>2. facts[i] \in Facts
    BY <2>1, LenProperties, ElementOfSeq DEF Moves
  <2> QED
    BY <2>1, <2>2 DEF Facts
<1>2. CASE ~Some(facts, "move")
  BY <1>2 DEF SlotAfter, Moves, Some
<1>3. QED
  BY <1>1, <1>2

\* What an observation can be.
LEMMA ReasonTyped ==
    ASSUME NEW facts, NEW slot, NEW t, NEW final
    PROVE  /\ Instant(facts, slot, t, final) \in {"completed", "partial", "skipped", "none"}
           /\ Daily(facts, slot, t) \in Reasons
BY DEF Instant, Daily, Reasons

LEMMA NothingTyped ==
    /\ Nothing \in Results
    /\ Nothing.outcome = NoOutcome /\ ~Nothing.correction /\ ~Nothing.pair /\ Nothing.patches = <<>>
<1>1. <<>> \in Seq(Patches)
  BY EmptySeq
<1>2. QED
  BY <1>1 DEF Nothing, Results

LEMMA FreshTyped ==
    ASSUME NEW reason \in Reasons, NEW slot \in Nat, NEW t \in Nat
    PROVE  Fresh(reason, slot, t) \in Results /\ ~Fresh(reason, slot, t).correction
<1> DEFINE patch == Patch(StatusFor[reason], slot, TRUE, FALSE)
           outcome == [NoOutcome EXCEPT !.reason = reason, !.at = t]
           patches == <<patch>>
<1>1. patch \in Patches
  BY DEF Patch, Patches, StatusFor, Statuses, Open, Reasons
<1>2. outcome \in Outcomes
  BY DEF NoOutcome, Outcomes
<1>3. Fresh(reason, slot, t) = [Nothing EXCEPT !.outcome = outcome, !.patches = patches]
  BY DEF Fresh
<1> HIDE DEF patch, outcome
<1>4. patches \in Seq(Patches)
  BY <1>1
<1> HIDE DEF patches
<1>5. QED
  BY <1>2, <1>3, <1>4, NothingTyped DEF Results

LEMMA CorrectedTyped ==
    ASSUME NEW reason \in Reasons, NEW slot \in Nat, NEW stored \in Outcomes
    PROVE  /\ Corrected(reason, slot, stored) \in Results
           /\ Corrected(reason, slot, stored).correction
           /\ Corrected(reason, slot, stored).outcome.reason = reason
<1> DEFINE patch == Patch(StatusFor[reason], slot, FALSE, FALSE)
           outcome == [stored EXCEPT !.reason = reason, !.corrected = TRUE]
           patches == <<patch>>
<1>1. patch \in Patches
  BY DEF Patch, Patches, StatusFor, Statuses, Open, Reasons
<1>2. outcome \in Outcomes /\ outcome.reason = reason
  BY DEF Outcomes
<1>3. Corrected(reason, slot, stored) =
        [Nothing EXCEPT !.outcome = outcome, !.correction = TRUE, !.patches = patches]
  BY DEF Corrected
<1> HIDE DEF patch, outcome
<1>4. patches \in Seq(Patches)
  BY <1>1
<1> HIDE DEF patches
<1>5. QED
  BY <1>2, <1>3, <1>4, NothingTyped DEF Results

\* A correction that a pass computes is due: the stored outcome is there, is not excluded, and
\* the new reason is worth strictly more.
Gains(r, stored) ==
    r.correction =>
        /\ stored \in Outcomes /\ ~stored.excluded /\ r.outcome.reason \in Reasons
        /\ Reward[r.outcome.reason] > Reward[stored.reason]

LEMMA UpgradeTyped ==
    ASSUME NEW facts, NEW slot \in Nat, NEW stored \in Outcomes \cup {NoOutcome}, NEW t \in Nat
    PROVE  Upgrade(facts, slot, stored, t) \in Results /\ Gains(Upgrade(facts, slot, stored, t), stored)
<1> DEFINE fresh == Instant(facts, slot, t, TRUE)
<1>1. CASE Upgradable(stored, t) /\ fresh # "none" /\ Reward[fresh] > Reward[stored.reason]
  <2>1. fresh \in Reasons
    BY <1>1, ReasonTyped DEF Reasons
  <2>2. stored \in Outcomes /\ ~stored.excluded
    BY <1>1 DEF Upgradable, NoOutcome
  <2>3. Upgrade(facts, slot, stored, t) = Corrected(fresh, slot, stored)
    BY <1>1 DEF Upgrade
  <2> HIDE DEF fresh
  <2> QED
    BY <1>1, <2>1, <2>2, <2>3, CorrectedTyped DEF Gains
<1>2. CASE ~(Upgradable(stored, t) /\ fresh # "none" /\ Reward[fresh] > Reward[stored.reason])
  <2>1. Upgrade(facts, slot, stored, t) = Nothing
    BY <1>2 DEF Upgrade
  <2> QED
    BY <2>1, NothingTyped DEF Gains
<1>3. QED
  BY <1>1, <1>2

\* mapUser after the moves: what it wants is typed, and a correction always gains.
LEMMA SettleTyped ==
    ASSUME NEW facts, NEW slot \in Nat, NEW stored \in Outcomes \cup {NoOutcome}, NEW t \in Nat,
           NEW mode \in {"daily", "instant"}
    PROVE  /\ Settle(facts, slot, stored, t, mode) \in Results
           /\ Gains(Settle(facts, slot, stored, t, mode), stored)
<1> DEFINE reason == IF mode = "daily" THEN Daily(facts, slot, t) ELSE Instant(facts, slot, t, FALSE)
           settled == Settle(facts, slot, stored, t, mode)
<1>1. reason \in Reasons \cup {"none"} /\ "completed" \in Reasons
  BY ReasonTyped DEF Reasons
<1>2. settled \in {Fresh("completed", slot, t), Corrected("completed", slot, stored), Nothing,
                   Upgrade(facts, slot, stored, t), Fresh(reason, slot, t)}
  BY DEF Settle
<1>3. CASE settled = Fresh("completed", slot, t)
  BY <1>1, <1>3, FreshTyped DEF Gains
<1>4. CASE settled = Nothing
  BY <1>4, NothingTyped DEF Gains
<1>5. CASE settled = Upgrade(facts, slot, stored, t)
  BY <1>5, UpgradeTyped
<1>6. CASE reason # "none" /\ settled = Fresh(reason, slot, t)
  <2> HIDE DEF reason
  <2> QED
    BY <1>1, <1>6, FreshTyped DEF Gains
<1>7. CASE Upgradable(stored, t) /\ settled = Corrected("completed", slot, stored)
  <2>1. stored \in Outcomes /\ ~stored.excluded /\ stored.reason \in {"lapsed", "off_slot", "partial"}
    BY <1>7 DEF Upgradable, NoOutcome
  <2>2. Reward["completed"] > Reward[stored.reason]
    BY <1>1, <2>1 DEF Reward, Reasons
  <2> QED
    BY <1>1, <1>7, <2>1, <2>2, CorrectedTyped DEF Gains
<1>8. QED
  BY <1>3, <1>4, <1>5, <1>6, <1>7 DEF Settle

\* What a raced meeting leaves: never a correction.
LEMMA SettleDisplacedTyped ==
    ASSUME NEW facts, NEW slot \in Nat, NEW stored, NEW t \in Nat, NEW mode
    PROVE  /\ SettleDisplaced(facts, slot, stored, t, mode) \in Results
           /\ ~SettleDisplaced(facts, slot, stored, t, mode).correction
<1> DEFINE settled == SettleDisplaced(facts, slot, stored, t, mode)
           done == Patch("completed", slot, TRUE, TRUE)
           gone == Patch("displaced", slot, TRUE, FALSE)
           outcome == [NoOutcome EXCEPT !.reason = "completed", !.at = t, !.excluded = TRUE]
           dones == <<done>>
           gones == <<gone>>
<1>1. done \in Patches /\ gone \in Patches
  BY DEF Patch, Patches, Statuses, Open
<1>2. outcome \in Outcomes
  BY DEF NoOutcome, Outcomes, Reasons
<1>3. \/ settled = Nothing
      \/ settled = [Nothing EXCEPT !.outcome = outcome, !.patches = dones]
      \/ settled = [Nothing EXCEPT !.patches = gones]
  BY DEF SettleDisplaced
<1> HIDE DEF done, gone, outcome
<1>4. dones \in Seq(Patches) /\ gones \in Seq(Patches)
  BY <1>1
<1> HIDE DEF dones, gones
<1>5. CASE settled = Nothing
  BY <1>5, NothingTyped
<1>6. CASE settled = [Nothing EXCEPT !.outcome = outcome, !.patches = dones]
  BY <1>2, <1>4, <1>6, NothingTyped DEF Results
<1>7. CASE settled = [Nothing EXCEPT !.patches = gones]
  BY <1>4, <1>7, NothingTyped DEF Results
<1>8. QED
  BY <1>3, <1>5, <1>6, <1>7

\* rewards.ts, mapUser: for every row, facts in order, stored tuples and time, the result is well
\* formed, and a stored outcome is corrected only if it counts and the correction gains.
THEOREM MapUserGains ==
    ASSUME NEW rec \in Placements, NEW facts \in Seq(Facts), NEW stored \in Tuples, NEW t \in Nat,
           NEW mode \in {"daily", "instant"}
    PROVE  /\ MapUser(rec, facts, stored, t, mode) \in Results
           /\ Gains(MapUser(rec, facts, stored, t, mode), stored.outcome)
<1> DEFINE slot == SlotAfter(facts, rec.slot)
           rest == Settle(facts, slot, stored.outcome, t, mode)
           patch == Patch("moved", slot, FALSE, FALSE)
           moved == <<patch>> \o rest.patches
           mapped == MapUser(rec, facts, stored, t, mode)
<1>1. rec.slot \in Nat /\ stored.outcome \in Outcomes \cup {NoOutcome} /\ stored.pair \in BOOLEAN
  BY DEF Placements, Tuples
<1>2. slot \in Nat
  BY <1>1, SlotTyped
<1>3. patch \in Patches
  BY <1>2 DEF Patch, Patches, Statuses, Open
<1> HIDE DEF slot
<1>4. rest \in Results /\ Gains(rest, stored.outcome)
  BY <1>1, <1>2, SettleTyped
<1>5. \/ mapped = Nothing
      \/ mapped = SettleDisplaced(facts, rec.slot, stored.outcome, t, mode)
      \/ mapped = rest
      \/ mapped = [rest EXCEPT !.pair = ~stored.pair, !.patches = moved]
  BY DEF MapUser, slot
<1> HIDE DEF patch, rest
<1>6. moved \in Seq(Patches)
  <2>1. <<patch>> \in Seq(Patches) /\ rest.patches \in Seq(Patches)
    BY <1>3, <1>4 DEF Results
  <2> QED
    BY <2>1, ConcatProperties
<1>7. CASE mapped = Nothing
  BY <1>7, NothingTyped DEF Gains
<1>8. CASE mapped = SettleDisplaced(facts, rec.slot, stored.outcome, t, mode)
  BY <1>1, <1>8, SettleDisplacedTyped DEF Gains
<1>9. CASE mapped = rest
  BY <1>4, <1>9
<1>10. CASE mapped = [rest EXCEPT !.pair = ~stored.pair, !.patches = moved]
  <2>1. (~stored.pair) \in BOOLEAN
    BY Zenon
  <2> HIDE DEF moved
  <2> QED
    BY <1>4, <1>6, <1>10, <2>1 DEF Results, Gains
<1>11. QED
  BY <1>5, <1>7, <1>8, <1>9, <1>10
-----------------------------------------------------------------------------
Phases == {"idle", "due", "read", "write", "gate", "patch", "pull"}

PassRecords == [phase: Phases, rewards: BOOLEAN, due: BOOLEAN, row: Placements, result: Results]

DeviceTypes ==
    /\ here \in [status: Statuses, slot: Nat]
    /\ session \in Sessions
    /\ log \in Seq(Facts) /\ Len(log) <= MaxFacts
    /\ answer \in {NoPage} \cup [status: Statuses, slot: Nat]

ServerTypes ==
    /\ srv \in Placements
    /\ pushed \in 0..Len(log)
    /\ tuples \in Tuples
    /\ news \in {"no", "yes", "sent"}
    /\ lease \in Passes \cup {"free"}
    /\ failures \subseteq Failures

PassTypes == pass \in [Passes -> PassRecords]

Types == now \in 0..MaxTime /\ DeviceTypes /\ ServerTypes /\ PassTypes

\* A pass that is about to store a correction finds an outcome: rewritten by another pass
\* meanwhile, or one that counts and is worth less.
WriteInv ==
    \A p \in Passes :
        pass[p].phase = "write" /\ pass[p].result.outcome # NoOutcome /\ pass[p].result.correction =>
            /\ tuples.outcome # NoOutcome
            /\ tuples.outcome.corrected \/ Gains(pass[p].result, tuples.outcome)

Inv == Types /\ WriteInv

\* The user's actions and the lapse scan: they mark the block, move it, or touch the device.
UserStep ==
    \/ StartFocus \/ FinishSession \/ GiveUpSession \/ AbandonStale
    \/ Done \/ SkipBlock \/ MoveBlock \/ CorrectLapse \/ LapseScan

Marked ==
    \E kind \in Kinds \ {"move"}, at \in Nat, status \in Statuses :
        /\ Log(kind, at, 0, status, here.slot) /\ session' \in Sessions
        /\ \/ kind \in {"finish", "stray"} /\ status = "completed"
           \/ status = here.status
           \/ here.status \in Open /\ status \in {"completed", "lapsed"}
           \/ here.status \in Open /\ status = "rejected" /\ kind = "skip"
           \/ here.status = "lapsed" /\ status = "completed"

MovedTo ==
    \E to \in Nat :
        /\ OnToday /\ Log("move", now, to, "moved", to) /\ session' = session
        /\ IF LastTick(now) THEN LateMoves /\ to = now + 1 ELSE Day(to) = Day(now) /\ ~LastTick(to)

Touched ==
    /\ session' \in Sessions
    /\ here' = here \/ (here.status \in Open /\ here' = [here EXCEPT !.status = "lapsed"])
    /\ UNCHANGED <<now, log, srv, pushed, tuples, news, answer, lease, pass, failures>>

LEMMA UserSteps ==
    ASSUME Types, UserStep
    PROVE  Marked \/ MovedTo \/ Touched
<1>1. /\ here.slot \in Nat /\ here.status \in Statuses /\ now \in Nat /\ session.from \in Nat
      /\ session \in Sessions
  BY ConstantsAssumption DEF Types, DeviceTypes, Sessions
<1>2. /\ {"done", "finish", "part", "stray", "void", "skip", "fix", "seen"} \subseteq Kinds \ {"move"}
      /\ {"completed", "rejected", "lapsed", "moved"} \subseteq Statuses
  BY DEF Kinds, Statuses, Open
<1>3. CASE StartFocus
  <2>1. PICK state \in {"prompt", "late"} :
          session' = [session EXCEPT !.state = state, !.from = now]
    BY <1>3 DEF StartFocus
  <2>2. session' \in Sessions
    BY <1>1, <2>1 DEF Sessions
  <2> QED
    BY <1>3, <2>2 DEF StartFocus, Touched
<1>4. ASSUME NEW prompt \in {"finish", "part", "void"}, NEW late \in {"stray", "void"},
             NEW status \in Statuses, EndSession(prompt, late, status),
             \/ prompt = "finish" /\ late = "stray" /\ status = "completed"
             \/ status = here.status
      PROVE  Marked
  <2>1. PICK kind \in {prompt, late} : Log(kind, session.from, 0, status, here.slot)
    BY <1>4 DEF EndSession
  <2>2. session' \in Sessions
    BY <1>1, <1>4 DEF EndSession, Sessions
  <2>3. /\ kind \in Kinds \ {"move"}
        /\ (kind \in {"finish", "stray"} /\ status = "completed") \/ status = here.status
    BY <1>2, <1>4, <2>1
  <2> QED
    BY <1>1, <2>1, <2>2, <2>3 DEF Marked
<1>5. CASE FinishSession \/ GiveUpSession \/ AbandonStale
  BY <1>1, <1>2, <1>4, <1>5 DEF FinishSession, GiveUpSession, AbandonStale
<1>6. ASSUME NEW kind \in {"done", "skip", "fix", "seen"}, NEW status \in Statuses,
             Press(kind, 0, status, here.slot),
             \/ here.status \in Open /\ status \in {"completed", "lapsed"}
             \/ here.status \in Open /\ status = "rejected" /\ kind = "skip"
             \/ here.status = "lapsed" /\ status = "completed"
      PROVE  Marked
  <2>1. Log(kind, now, 0, status, here.slot) /\ session' \in Sessions /\ kind \in Kinds \ {"move"}
    BY <1>1, <1>2, <1>6 DEF Press
  <2> QED
    BY <1>1, <1>6, <2>1 DEF Marked
<1>7. CASE Done \/ SkipBlock \/ CorrectLapse
  BY <1>2, <1>6, <1>7 DEF Done, SkipBlock, CorrectLapse, OnToday
<1>8. CASE MoveBlock
  <2>1. PICK to \in now..now + DayTicks :
          /\ OnToday /\ Press("move", to, "moved", to)
          /\ IF LastTick(now) THEN LateMoves /\ to = now + 1 ELSE Day(to) = Day(now) /\ ~LastTick(to)
    BY <1>8 DEF MoveBlock
  <2>2. to \in Nat
    BY <1>1, TimeAssumption
  <2> QED
    BY <2>1, <2>2 DEF MovedTo, Press
<1>9. CASE LapseScan
  <2>1. here.status \in Open
    BY <1>9 DEF LapseScan
  <2>2. CASE Press("seen", 0, "lapsed", here.slot)
    BY <1>2, <1>6, <2>1, <2>2
  <2>3. CASE /\ here' = [here EXCEPT !.status = "lapsed"]
             /\ UNCHANGED <<now, session, log, srv, pushed, tuples, news, answer, lease, pass, failures>>
    BY <1>1, <2>1, <2>3 DEF Touched
  <2> QED
    BY <1>9, <2>2, <2>3 DEF LapseScan
<1>10. QED
  BY <1>3, <1>5, <1>7, <1>8, <1>9 DEF UserStep

\* A fact is logged with the row it makes.
LEMMA Logs ==
    ASSUME Types, NEW kind \in Kinds, NEW at \in Nat, NEW to \in Nat, NEW status \in Statuses,
           NEW slot \in Nat, Log(kind, at, to, status, slot), session' \in Sessions
    PROVE  Types'
<1> DEFINE fact == [kind |-> kind, at |-> at, to |-> to]
<1>1. /\ Len(log) < MaxFacts /\ log' = Append(log, fact) /\ here' = [status |-> status, slot |-> slot]
      /\ UNCHANGED <<now, srv, pushed, tuples, news, answer, lease, pass, failures>>
  BY DEF Log
<1>2. fact \in Facts
  BY DEF Facts
<1> HIDE DEF fact
<1>3. log \in Seq(Facts) /\ Len(log) \in Nat
  BY LenProperties DEF Types, DeviceTypes
<1>4. log' \in Seq(Facts) /\ Len(log') = Len(log) + 1
  BY <1>1, <1>2, <1>3, AppendProperties
<1>5. DeviceTypes'
  BY <1>1, <1>3, <1>4, ConstantsAssumption DEF Types, DeviceTypes
<1>6. pushed' \in 0..Len(log')
  BY <1>1, <1>3, <1>4 DEF Types, ServerTypes
<1>7. QED
  BY <1>1, <1>5, <1>6 DEF Types, ServerTypes, PassTypes

LEMMA DeviceKeepsTypes ==
    ASSUME Types, UserStep
    PROVE  Types' /\ tuples' = tuples /\ pass' = pass
<1>1. here.slot \in Nat /\ now \in Nat /\ session \in Sessions /\ "moved" \in Statuses /\ "move" \in Kinds
  BY ConstantsAssumption DEF Types, DeviceTypes, Kinds, Statuses, Open
<1>2. CASE Marked
  BY <1>1, <1>2, Logs DEF Marked, Log
<1>3. CASE MovedTo
  BY <1>1, <1>3, Logs DEF MovedTo, Log
<1>4. CASE Touched
  <2>1. here' \in [status: Statuses, slot: Nat]
    BY <1>4 DEF Touched, Types, DeviceTypes, Statuses
  <2> QED
    BY <1>4, <2>1 DEF Touched, Types, DeviceTypes, ServerTypes, PassTypes
<1>5. QED
  BY <1>2, <1>3, <1>4, UserSteps

\* Time, the page on its way, and the writers that only touch the row.
LEMMA WorldKeepsTypes ==
    ASSUME Types, Tick \/ Receive \/ LoseAnswer \/ Displace \/ Expire \/ Overrun
    PROVE  Types'
<1> USE DEF Types
<1>1. CASE Tick
  BY <1>1, ConstantsAssumption DEF Tick, device, DeviceTypes, ServerTypes, PassTypes
<1>2. CASE Receive
  <2>1. here' \in [status: Statuses, slot: Nat]
    BY <1>2 DEF Receive, DeviceTypes
  <2> QED
    BY <1>2, <2>1 DEF Receive, DeviceTypes, ServerTypes, PassTypes
<1>3. CASE LoseAnswer
  BY <1>3 DEF LoseAnswer, Fails, Failures, device, DeviceTypes, ServerTypes, PassTypes
<1>4. CASE Displace \/ Expire
  <2>1. srv' \in Placements
    BY <1>4 DEF Displace, Expire, ServerTypes, Placements, Statuses
  <2>2. failures' \subseteq Failures
    BY <1>4 DEF Displace, Expire, Intrude, Fails, Failures, ServerTypes
  <2> QED
    BY <1>4, <2>1, <2>2 DEF Displace, Expire, device, DeviceTypes, ServerTypes, PassTypes
<1>5. CASE Overrun
  BY <1>5 DEF Overrun, Fails, Failures, device, DeviceTypes, ServerTypes, PassTypes
<1>6. QED
  BY <1>1, <1>2, <1>3, <1>4, <1>5

LEMMA NoPassTyped == NoPass \in PassRecords /\ NoPass.phase = "idle"
BY NothingTyped DEF NoPass, PassRecords, Phases, Placements, Statuses, Open

\* What a pass does to its own record.
LEMMA PassMoves ==
    ASSUME Types, NEW p \in Passes, NEW next \in PassRecords, pass' = [pass EXCEPT ![p] = next]
    PROVE  PassTypes' /\ pass'[p] = next /\ \A q \in Passes \ {p} : pass'[q] = pass[q]
BY DEF Types, PassTypes

\* The passes begin and end.
LEMMA BoundsKeepTypes ==
    ASSUME Types, StartSync \/ LoadDue \/ Acquire \/ SkipBusy \/ EndSweep \/ Pull
    PROVE  Types' /\ tuples' = tuples /\ \A p \in Passes : pass'[p].phase = "write" => pass'[p] = pass[p]
<1> USE DEF Types
<1>1. NoPass \in PassRecords /\ NoPass.phase # "write" /\ {"sync", "sweep"} = Passes
  BY NoPassTyped DEF Passes
<1>2. \A p \in Passes : Released(p) \in Passes \cup {"free"}
  BY DEF Released, ServerTypes
<1>3. CASE StartSync
  <2>1. PICK rewards \in BOOLEAN, phase \in {"read", "pull"} :
          pass' = [pass EXCEPT !["sync"] = [NoPass EXCEPT !.phase = phase, !.rewards = rewards]]
    BY <1>3 DEF StartSync
  <2> DEFINE next == [NoPass EXCEPT !.phase = phase, !.rewards = rewards]
  <2>2. next \in PassRecords /\ next.phase # "write"
    BY <1>1 DEF PassRecords, Phases
  <2> HIDE DEF next
  <2>3. log \in Seq(Facts) /\ Len(log) \in Nat
    BY LenProperties DEF DeviceTypes
  <2>4. /\ pushed' = Len(log) /\ lease' = "sync"
        /\ UNCHANGED <<now, here, log, srv, tuples, news, answer, failures>>
        /\ session' \in Sessions
    BY <1>3 DEF StartSync, DeviceTypes, Sessions, InSession
  <2>5. DeviceTypes' /\ ServerTypes'
    BY <1>1, <2>3, <2>4 DEF DeviceTypes, ServerTypes
  <2>6. PassTypes' /\ \A p \in Passes : pass'[p].phase = "write" => pass'[p] = pass[p]
    <3>1. "sync" \in Passes /\ pass' = [pass EXCEPT !["sync"] = next]
      BY <2>1 DEF Passes, next
    <3>2. /\ PassTypes' /\ pass'["sync"] = next
          /\ \A q \in Passes \ {"sync"} : pass'[q] = pass[q]
      BY <2>2, <3>1, PassMoves
    <3> QED
      BY <2>2, <3>2
  <2> QED
    BY <2>4, <2>5, <2>6
<1>4. CASE LoadDue
  <2> DEFINE next == [NoPass EXCEPT !.phase = "due", !.rewards = TRUE, !.due = Due, !.row = srv]
  <2>1. pass' = [pass EXCEPT !["sweep"] = next]
    BY <1>4 DEF LoadDue
  <2>2. Due \in BOOLEAN
    BY DEF Due
  <2>3. next \in PassRecords /\ next.phase # "write"
    BY <1>1, <2>2 DEF PassRecords, Phases, ServerTypes
  <2> HIDE DEF next
  <2> QED
    BY <1>1, <1>4, <2>1, <2>3 DEF LoadDue, device, DeviceTypes, ServerTypes, PassTypes, Passes
<1>5. CASE Acquire
  <2> DEFINE next == [pass["sweep"] EXCEPT !.phase = "read"]
  <2>1. pass' = [pass EXCEPT !["sweep"] = next]
    BY <1>5 DEF Acquire, PassTypes
  <2>2. next \in PassRecords /\ next.phase # "write"
    BY <1>1 DEF PassTypes, PassRecords, Phases
  <2> HIDE DEF next
  <2>3. failures' \subseteq Failures
    BY <1>5 DEF Acquire, Fails, Failures, ServerTypes
  <2> QED
    BY <1>1, <1>5, <2>1, <2>2, <2>3 DEF Acquire, device, DeviceTypes, ServerTypes, PassTypes, Passes
<1>6. CASE SkipBusy \/ EndSweep
  BY <1>1, <1>2, <1>6 DEF SkipBusy, EndSweep, device, DeviceTypes, ServerTypes, PassTypes, Passes
<1>7. CASE Pull
  <2>1. pass' = [pass EXCEPT !["sync"] = NoPass] /\ lease' = Released("sync")
    BY <1>7 DEF Pull
  <2>2. [status |-> srv.status, slot |-> srv.slot] \in [status: Statuses, slot: Nat]
    BY DEF ServerTypes, Placements
  <2>3. /\ answer' \in {NoPage} \cup [status: Statuses, slot: Nat]
        /\ news' \in {"no", "yes", "sent"}
    BY <1>7, <2>2 DEF Pull, DeviceTypes, ServerTypes
  <2> QED
    BY <1>1, <1>2, <1>7, <2>1, <2>3 DEF Pull, device, DeviceTypes, ServerTypes, PassTypes, Passes
<1>8. QED
  BY <1>3, <1>4, <1>5, <1>6, <1>7

LEMMA CrashKeepsTypes ==
    ASSUME Types, NEW p \in Passes, Crash(p)
    PROVE  Types' /\ tuples' = tuples /\ \A q \in Passes : pass'[q].phase = "write" => pass'[q] = pass[q]
<1>1. pass' = [pass EXCEPT ![p] = NoPass] /\ UNCHANGED <<now, device, srv, pushed, tuples, news, answer>>
  BY DEF Crash
<1>2. PassTypes' /\ pass'[p] = NoPass /\ \A q \in Passes \ {p} : pass'[q] = pass[q]
  BY <1>1, NoPassTyped, PassMoves
<1>3. lease' \in Passes \cup {"free"} /\ failures' \subseteq Failures
  BY DEF Crash, Released, Fails, Failures, Types, ServerTypes
<1>4. QED
  BY <1>1, <1>2, <1>3, NoPassTyped DEF Types, device, DeviceTypes, ServerTypes

LEMMA RowTyped == ASSUME Types, NEW p \in Passes PROVE Row(p) \in Placements
BY DEF Row, Types, ServerTypes, PassTypes, PassRecords

LEMMA PushedTyped == ASSUME Types PROVE Pushed \in Seq(Facts)
<1>1. log \in Seq(Facts) /\ pushed \in 0..Len(log)
  BY DEF Types, DeviceTypes, ServerTypes
<1>2. Len(log) \in Nat /\ DOMAIN log = 1..Len(log)
  BY <1>1, LenProperties
<1>3. \A i \in 1..pushed : log[i] \in Facts
  BY <1>1, <1>2, ElementOfSeq
<1>4. QED
  BY <1>1, <1>2, <1>3, SubSeqProperties DEF Pushed

\* A pass reads: what it will write gains over what is stored now.
LEMMA Reads ==
    ASSUME Types, NEW p \in Passes, Read(p)
    PROVE  /\ Types' /\ tuples' = tuples
           /\ \A q \in Passes \ {p} : pass'[q] = pass[q]
           /\ Gains(pass'[p].result, tuples.outcome)
<1> DEFINE r == IF Candidate(p) THEN MapUser(Row(p), Pushed, tuples, now, Mode(p)) ELSE Nothing
           phase == IF Writes(r) THEN "write" ELSE "patch"
           next == [pass[p] EXCEPT !.phase = phase, !.row = Row(p), !.result = r]
<1>1. /\ pass' = [pass EXCEPT ![p] = next]
      /\ UNCHANGED <<now, device, srv, pushed, tuples, news, answer, lease, failures>>
  BY DEF Read
<1>2. r \in Results /\ Gains(r, tuples.outcome)
  <2>1. Mode(p) \in {"daily", "instant"} /\ now \in Nat /\ tuples \in Tuples
    BY ConstantsAssumption DEF Mode, Types, ServerTypes
  <2>2. CASE Candidate(p)
    BY <2>1, <2>2, RowTyped, PushedTyped, MapUserGains
  <2>3. CASE ~Candidate(p)
    BY <2>3, NothingTyped DEF Gains
  <2> QED
    BY <2>2, <2>3
<1>3. phase \in Phases /\ Row(p) \in Placements /\ pass[p] \in PassRecords
  BY RowTyped DEF Phases, Types, PassTypes
<1> HIDE DEF r, phase
<1>4. next \in PassRecords /\ next.result = r
  BY <1>2, <1>3 DEF PassRecords
<1> HIDE DEF next
<1>5. PassTypes' /\ pass'[p] = next /\ \A q \in Passes \ {p} : pass'[q] = pass[q]
  BY <1>1, <1>4, PassMoves
<1>6. QED
  BY <1>1, <1>2, <1>4, <1>5 DEF Types, device, DeviceTypes, ServerTypes

\* writeTuples: a stored outcome stays, or is corrected by what gains over it.
LEMMA Stores ==
    ASSUME Types, WriteInv, NEW p \in Passes, WriteTuples(p)
    PROVE  /\ Types'
           /\ \A q \in Passes : pass'[q].phase = "write" => pass'[q] = pass[q]
           /\ \/ tuples.outcome = NoOutcome
              \/ tuples'.outcome = tuples.outcome
              \/ /\ ~tuples.outcome.excluded /\ ~tuples.outcome.corrected
                 /\ tuples'.outcome = [tuples.outcome EXCEPT !.reason = tuples'.outcome.reason,
                                                             !.corrected = TRUE]
                 /\ Reward[tuples'.outcome.reason] > Reward[tuples.outcome.reason]
           /\ tuples.outcome # NoOutcome =>
                 /\ tuples'.outcome # NoOutcome
                 /\ tuples'.outcome = tuples.outcome \/ tuples'.outcome.corrected
<1> DEFINE r == pass[p].result
           old == tuples.outcome
           new == tuples'.outcome
           fixed == [old EXCEPT !.reason = r.outcome.reason, !.corrected = TRUE]
           next == [pass[p] EXCEPT !.phase = "gate"]
<1>1. /\ pass[p].phase = "write" /\ tuples' = Stored(r)
      /\ pass' = [pass EXCEPT ![p].phase = "gate"]
      /\ UNCHANGED <<now, device, srv, pushed, news, answer, lease, failures>>
  BY DEF WriteTuples, Step
<1>2. r \in Results /\ old \in Outcomes \cup {NoOutcome} /\ pass[p] \in PassRecords
  BY DEF Types, ServerTypes, Tuples, PassTypes, PassRecords
<1>3. next \in PassRecords /\ next.phase = "gate" /\ pass' = [pass EXCEPT ![p] = next]
  BY <1>1, <1>2 DEF PassRecords, Phases, Types, PassTypes
<1> HIDE DEF next
<1>4. PassTypes' /\ pass'[p] = next /\ \A q \in Passes \ {p} : pass'[q] = pass[q]
  BY <1>3, PassMoves
<1>5. \/ new = old
      \/ old = NoOutcome /\ new = r.outcome
      \/ /\ r.outcome # NoOutcome /\ r.correction /\ old # NoOutcome /\ ~old.corrected
         /\ new = fixed
  BY <1>1 DEF Stored
<1>6. new \in Outcomes \cup {NoOutcome}
  <2>1. CASE r.outcome # NoOutcome /\ r.correction /\ old # NoOutcome /\ ~old.corrected /\ new = fixed
    <3>1. old \in Outcomes /\ r.outcome \in Outcomes
      BY <1>2, <2>1 DEF Results
    <3>2. fixed \in Outcomes
      BY <3>1 DEF Outcomes
    <3> QED
      BY <2>1, <3>2
  <2> QED
    BY <1>2, <1>5, <2>1 DEF Results
<1>7. tuples' \in Tuples
  <2>1. (tuples.pair \/ r.pair) \in BOOLEAN
    BY Zenon
  <2>2. tuples'.pair = (tuples.pair \/ r.pair) /\ tuples' = [outcome |-> new, pair |-> tuples'.pair]
    BY <1>1 DEF Stored
  <2> QED
    BY <1>6, <2>1, <2>2 DEF Tuples
<1>8. Types'
  BY <1>1, <1>4, <1>7 DEF Types, device, DeviceTypes, ServerTypes
<1>9. \A q \in Passes : pass'[q].phase = "write" => pass'[q] = pass[q]
  BY <1>3, <1>4
<1>10. CASE r.outcome # NoOutcome /\ r.correction /\ old # NoOutcome /\ ~old.corrected /\ new = fixed
  <2>1. Gains(r, old)
    BY <1>1, <1>10 DEF WriteInv
  <2>2. /\ old \in Outcomes /\ ~old.excluded /\ r.outcome.reason \in Reasons
        /\ Reward[r.outcome.reason] > Reward[old.reason]
    BY <1>10, <2>1 DEF Gains
  <2>3. fixed \in Outcomes /\ fixed.reason = r.outcome.reason /\ fixed.corrected
    BY <2>2 DEF Outcomes
  <2>4. ~NoOutcome.corrected
    BY DEF NoOutcome
  <2>5. new.reason = r.outcome.reason /\ new.corrected /\ new # NoOutcome
    BY <1>10, <2>3, <2>4
  <2> QED
    BY <1>10, <1>8, <1>9, <2>2, <2>5
<1>11. CASE new = old \/ old = NoOutcome
  BY <1>8, <1>9, <1>11
<1>12. QED
  BY <1>5, <1>10, <1>8, <1>9, <1>11

\* gatePatches and patchRecs.
LEMMA PatchesKeepTypes ==
    ASSUME Types, NEW p \in Passes, Gate(p) \/ PatchRec(p)
    PROVE  /\ Types' /\ tuples' = tuples
           /\ \A q \in Passes : pass'[q].phase = "write" => pass'[q] = pass[q]
<1>1. pass[p] \in PassRecords /\ pass[p].result \in Results /\ pass[p].row \in Placements
      /\ pass[p].result.patches \in Seq(Patches) /\ <<>> \in Seq(Patches)
  BY EmptySeq DEF Types, PassTypes, PassRecords, Results
<1>2. CASE Gate(p)
  <2> DEFINE kept == IF StillStored(pass[p].result) THEN pass[p].result.patches ELSE <<>>
             result == [pass[p].result EXCEPT !.patches = kept]
             next == [pass[p] EXCEPT !.phase = "patch", !.result = result]
  <2>1. /\ pass' = [pass EXCEPT ![p] = next]
        /\ UNCHANGED <<now, device, srv, pushed, tuples, news, answer, lease, failures>>
    BY <1>1, <1>2 DEF Gate, Types, PassTypes, PassRecords, Results
  <2>2. kept \in Seq(Patches)
    BY <1>1
  <2> HIDE DEF kept
  <2>3. result \in Results
    BY <1>1, <2>2 DEF Results
  <2> HIDE DEF result
  <2>4. next \in PassRecords /\ next.phase = "patch"
    BY <1>1, <2>3 DEF PassRecords, Phases
  <2> HIDE DEF next
  <2>5. PassTypes' /\ pass'[p] = next /\ \A q \in Passes \ {p} : pass'[q] = pass[q]
    BY <2>1, <2>4, PassMoves
  <2> QED
    BY <2>1, <2>4, <2>5 DEF Types, device, DeviceTypes, ServerTypes
<1>3. CASE PatchRec(p)
  <2> DEFINE patch == Head(pass[p].result.patches)
             rest == Tail(pass[p].result.patches)
             status == IF patch.status = "same" THEN pass[p].row.status ELSE patch.status
             result == [pass[p].result EXCEPT !.patches = rest]
             row == [pass[p].row EXCEPT !.status = status]
             next == [pass[p] EXCEPT !.result = result, !.row = row]
  <2>1. /\ pass[p].phase = "patch" /\ pass[p].result.patches # <<>>
        /\ (srv' = Patched(srv, patch) /\ news' = "yes") \/ UNCHANGED <<srv, news>>
        /\ pass' = [pass EXCEPT ![p] = next]
        /\ UNCHANGED <<now, device, pushed, tuples, answer, lease, failures>>
    BY <1>1, <1>3 DEF PatchRec, Types, PassTypes, PassRecords, Results, Placements
  <2>2. patch \in Patches /\ rest \in Seq(Patches)
    BY <1>1, <2>1, HeadTailProperties
  <2> HIDE DEF patch, rest
  <2>3. status \in Statuses
    BY <1>1, <2>2 DEF Patches, Placements
  <2> HIDE DEF status
  <2>4. result \in Results /\ row \in Placements
    BY <1>1, <2>2, <2>3 DEF Results, Placements
  <2> HIDE DEF result, row
  <2>5. next \in PassRecords /\ next.phase = "patch"
    BY <1>1, <2>1, <2>4 DEF PassRecords
  <2> HIDE DEF next
  <2>6. PassTypes' /\ pass'[p] = next /\ \A q \in Passes \ {p} : pass'[q] = pass[q]
    BY <2>1, <2>5, PassMoves
  <2>7. srv' \in Placements /\ news' \in {"no", "yes", "sent"}
    <3>1. srv \in Placements /\ news \in {"no", "yes", "sent"}
      BY DEF Types, ServerTypes
    <3>2. /\ (srv.attributed \/ patch.attributed) \in BOOLEAN
          /\ (srv.conflict \/ patch.conflict) \in BOOLEAN
      BY Zenon
    <3>3. Patched(srv, patch) \in Placements
      BY <2>2, <3>1, <3>2 DEF Patched, Patches, Placements
    <3> QED
      BY <2>1, <3>1, <3>3
  <2> QED
    BY <2>1, <2>5, <2>6, <2>7 DEF Types, device, DeviceTypes, ServerTypes
<1>4. QED
  BY <1>2, <1>3
-----------------------------------------------------------------------------
LEMMA InitInv == Init => Inv
<1> SUFFICES ASSUME Init PROVE Inv
  OBVIOUS
<1>1. PICK s \in FirstSlots :
        /\ here = [status |-> "shown", slot |-> s]
        /\ srv = [status |-> "shown", slot |-> s, attributed |-> FALSE, conflict |-> FALSE]
  BY DEF Init
<1>2. s \in Nat
  BY ConstantsAssumption
<1>3. log = <<>> /\ log \in Seq(Facts) /\ Len(log) = 0
  BY EmptySeq DEF Init
<1>4. DeviceTypes
  BY <1>1, <1>2, <1>3, ConstantsAssumption
     DEF Init, DeviceTypes, Statuses, Open, NoSession, Sessions
<1>5. ServerTypes
  <2>1. srv \in Placements
    BY <1>1, <1>2 DEF Placements, Statuses, Open
  <2>2. tuples \in Tuples
    BY DEF Init, Tuples
  <2> QED
    BY <1>3, <2>1, <2>2 DEF Init, ServerTypes
<1>6. PassTypes /\ \A p \in Passes : pass[p].phase = "idle"
  BY NoPassTyped DEF Init, PassTypes
<1>7. now \in 0..MaxTime
  BY ConstantsAssumption DEF Init
<1>8. QED
  BY <1>4, <1>5, <1>6, <1>7 DEF Inv, Types, WriteInv

\* What a pass computed to store stays due: only another pass's correction comes between.
LEMMA WriteKept ==
    ASSUME Inv, \A q \in Passes : pass'[q].phase = "write" => pass'[q] = pass[q],
           tuples.outcome # NoOutcome =>
               /\ tuples'.outcome # NoOutcome
               /\ tuples'.outcome = tuples.outcome \/ tuples'.outcome.corrected
    PROVE  WriteInv'
<1> SUFFICES ASSUME NEW p \in Passes, pass'[p].phase = "write", pass'[p].result.outcome # NoOutcome,
                    pass'[p].result.correction
             PROVE  /\ tuples'.outcome # NoOutcome
                    /\ tuples'.outcome.corrected \/ Gains(pass'[p].result, tuples'.outcome)
  BY DEF WriteInv
<1>1. pass'[p] = pass[p]
  OBVIOUS
<1>2. /\ tuples.outcome # NoOutcome
      /\ tuples.outcome.corrected \/ Gains(pass[p].result, tuples.outcome)
  BY <1>1 DEF Inv, WriteInv
<1>3. QED
  BY <1>1, <1>2

LEMMA NextInv == Inv /\ [Next]_vars => Inv'
<1> SUFFICES ASSUME Inv, [Next]_vars PROVE Inv'
  OBVIOUS
<1>0. Types /\ WriteInv
  BY DEF Inv
<1>1. CASE UserStep
  BY <1>0, <1>1, DeviceKeepsTypes, WriteKept DEF Inv
<1>2. CASE Tick \/ Receive \/ LoseAnswer \/ Displace \/ Expire \/ Overrun
  <2>1. UNCHANGED <<tuples, pass>>
    BY <1>2 DEF Tick, Receive, LoseAnswer, Displace, Expire, Overrun
  <2> QED
    BY <1>0, <1>2, <2>1, WorldKeepsTypes, WriteKept DEF Inv
<1>3. CASE StartSync \/ LoadDue \/ Acquire \/ SkipBusy \/ EndSweep \/ Pull
  BY <1>0, <1>3, BoundsKeepTypes, WriteKept DEF Inv
<1>4. ASSUME NEW p \in Passes, Read(p) PROVE Inv'
  <2>1. /\ Types' /\ tuples' = tuples /\ Gains(pass'[p].result, tuples.outcome)
        /\ \A q \in Passes \ {p} : pass'[q] = pass[q]
    BY <1>0, <1>4, Reads
  <2>2. pass'[p].result.correction => tuples'.outcome # NoOutcome
    BY <2>1 DEF Gains, Outcomes, NoOutcome, Reasons
  <2>3. WriteInv'
    BY <1>0, <2>1, <2>2 DEF WriteInv
  <2> QED
    BY <2>1, <2>3 DEF Inv
<1>5. ASSUME NEW p \in Passes, WriteTuples(p) PROVE Inv'
  <2>1. Types'
    BY <1>0, <1>5, Stores
  <2>2. WriteInv'
    BY <1>0, <1>5, Stores, WriteKept
  <2> QED
    BY <2>1, <2>2 DEF Inv
<1>6. ASSUME NEW p \in Passes, Gate(p) \/ PatchRec(p) PROVE Inv'
  BY <1>0, <1>6, PatchesKeepTypes, WriteKept DEF Inv
<1>7. ASSUME NEW p \in Passes, Crash(p) PROVE Inv'
  BY <1>0, <1>7, CrashKeepsTypes, WriteKept DEF Inv
<1>8. CASE UNCHANGED vars
  <2>1. UNCHANGED <<now, here, session, log, srv, pushed, tuples, news, answer, lease, pass, failures>>
    BY <1>8 DEF vars, device
  <2> QED
    BY <1>0, <2>1 DEF Inv, Types, DeviceTypes, ServerTypes, PassTypes, WriteInv
<1>9. QED
  BY <1>1, <1>2, <1>3, <1>4, <1>5, <1>6, <1>7, <1>8 DEF Next, UserStep, PassStep

LEMMA Invariance == Spec => []Inv
BY InitInv, NextInv, PTL DEF Spec

\* Every variable keeps its type, through every failure.
THEOREM TypeCorrect == Spec => []TypeOK
<1>1. Inv => TypeOK
  BY DEF Inv, Types, DeviceTypes, ServerTypes, PassTypes, PassRecords, Phases, TypeOK
<1>2. QED
  BY Invariance, <1>1, PTL

\* rewards.ts and writeTuples: whatever the passes meet, die of or overlap with, a stored outcome
\* is rewritten once at most, only to a strictly better reward and never when it is excluded.
THEOREM OnlyImproves == Spec => OutcomeOnlyImproves
<1>1. Inv /\ [Next]_vars =>
        [LET old == tuples.outcome
             new == tuples'.outcome
         IN old \in {NoOutcome, new}
               \/ /\ ~old.excluded /\ ~old.corrected
                  /\ new = [old EXCEPT !.reason = new.reason, !.corrected = TRUE]
                  /\ Reward[new.reason] > Reward[old.reason]]_vars
  <2> SUFFICES ASSUME Inv, Next
               PROVE  \/ tuples.outcome = NoOutcome
                      \/ tuples'.outcome = tuples.outcome
                      \/ /\ ~tuples.outcome.excluded /\ ~tuples.outcome.corrected
                         /\ tuples'.outcome = [tuples.outcome EXCEPT !.reason = tuples'.outcome.reason,
                                                                     !.corrected = TRUE]
                         /\ Reward[tuples'.outcome.reason] > Reward[tuples.outcome.reason]
    OBVIOUS
  <2>1. CASE \E p \in Passes : WriteTuples(p)
    BY <2>1, Stores DEF Inv
  <2>2. CASE ~\E p \in Passes : WriteTuples(p)
    <3>1. tuples' = tuples
      BY <2>2, DeviceKeepsTypes
         DEF Inv, Next, UserStep, PassStep, Tick, Receive, LoseAnswer, Displace, Expire, StartSync,
             LoadDue, Acquire, SkipBusy, EndSweep, Pull, Read, Gate, PatchRec, Crash, Overrun
    <3> QED
      BY <3>1
  <2> QED
    BY <2>1, <2>2
<1>2. QED
  BY Invariance, <1>1, PTL DEF Spec, OutcomeOnlyImproves

\* What Settle can want: nothing, a first outcome, or a correction of the stored one.
SettledAs(rest, facts, slot, stored, t, mode) ==
    \/ /\ rest = Nothing
       /\ stored = NoOutcome => mode # "daily"
    \/ /\ stored = NoOutcome
       /\ \E reason \in Reasons :
             /\ rest = Fresh(reason, slot, t)
             /\ reason \in {"lapsed", "off_slot"} => mode = "daily"
             /\ reason = "partial" => /\ InWindow(facts, "part", slot) # {}
                                      /\ mode = "daily" \/ t > slot
    \/ /\ Upgradable(stored, t)
       /\ \E reason \in {"completed", "partial"} :
             /\ rest = Corrected(reason, slot, stored)
             /\ reason = "partial" => /\ InWindow(facts, "part", slot) # {}
                                      /\ stored.reason = "lapsed"

LEMMA SettleShape ==
    ASSUME NEW facts, NEW slot, NEW stored \in Outcomes \cup {NoOutcome}, NEW t,
           NEW mode \in {"daily", "instant"}
    PROVE  SettledAs(Settle(facts, slot, stored, t, mode), facts, slot, stored, t, mode)
<1> DEFINE reason == IF mode = "daily" THEN Daily(facts, slot, t) ELSE Instant(facts, slot, t, FALSE)
           rest == Settle(facts, slot, stored, t, mode)
           late == Instant(facts, slot, t, TRUE)
<1>1. /\ reason \in Reasons \cup {"none"} /\ (mode = "daily" => reason # "none")
      /\ reason \in {"lapsed", "off_slot"} => mode = "daily"
      /\ reason = "partial" => /\ InWindow(facts, "part", slot) # {}
                               /\ mode = "daily" \/ t > slot
  BY DEF Daily, Instant, Credited, Reasons
<1>2. /\ late \in {"completed", "partial", "skipped", "none"}
      /\ late = "partial" => InWindow(facts, "part", slot) # {}
  BY DEF Instant, Credited
<1>3. Upgradable(stored, t) => stored # NoOutcome /\ stored.reason \in {"lapsed", "off_slot", "partial"}
  BY DEF Upgradable, NoOutcome
<1> HIDE DEF reason, late
<1>4. CASE Some(facts, "fix")
  <2>1. \/ stored = NoOutcome /\ rest = Fresh("completed", slot, t)
        \/ stored # NoOutcome /\ Upgradable(stored, t) /\ rest = Corrected("completed", slot, stored)
        \/ stored # NoOutcome /\ rest = Nothing
    BY <1>4 DEF Settle
  <2>2. "completed" \in Reasons
    BY DEF Reasons
  <2> QED
    BY <2>1, <2>2 DEF SettledAs
<1>5. CASE ~Some(facts, "fix") /\ stored = NoOutcome
  <2>1. rest = IF reason = "none" THEN Nothing ELSE Fresh(reason, slot, t)
    BY <1>5 DEF Settle, reason
  <2> QED
    BY <1>1, <1>5, <2>1 DEF SettledAs
<1>6. CASE ~Some(facts, "fix") /\ stored # NoOutcome
  <2>1. rest = Upgrade(facts, slot, stored, t)
    BY <1>6 DEF Settle
  <2>2. \/ rest = Nothing
        \/ /\ Upgradable(stored, t) /\ late # "none" /\ Reward[late] > Reward[stored.reason]
           /\ rest = Corrected(late, slot, stored)
    BY <2>1 DEF Upgrade, late
  <2>3. ASSUME Upgradable(stored, t), late # "none", Reward[late] > Reward[stored.reason]
        PROVE  late \in {"completed", "partial"} /\ (late = "partial" => stored.reason = "lapsed")
    BY <1>2, <1>3, <2>3 DEF Reward, Reasons
  <2> QED
    BY <1>2, <1>6, <2>2, <2>3 DEF SettledAs
<1>7. QED
  BY <1>4, <1>5, <1>6

\* The fields of a first outcome and of a correction.
LEMMA FreshFields ==
    ASSUME NEW reason \in Reasons, NEW slot \in Nat, NEW t \in Nat
    PROVE  /\ Fresh(reason, slot, t).outcome.reason = reason
           /\ ~Fresh(reason, slot, t).outcome.excluded /\ ~Fresh(reason, slot, t).outcome.corrected
           /\ ~Fresh(reason, slot, t).correction /\ ~Fresh(reason, slot, t).pair
           /\ Fresh(reason, slot, t).patches = <<Patch(StatusFor[reason], slot, TRUE, FALSE)>>
BY DEF Fresh, Nothing, NoOutcome

LEMMA CorrectedFields ==
    ASSUME NEW reason \in Reasons, NEW slot \in Nat, NEW stored \in Outcomes
    PROVE  /\ Corrected(reason, slot, stored).outcome.reason = reason
           /\ Corrected(reason, slot, stored).outcome.corrected
           /\ Corrected(reason, slot, stored).correction /\ ~Corrected(reason, slot, stored).pair
           /\ Corrected(reason, slot, stored).patches = <<Patch(StatusFor[reason], slot, FALSE, FALSE)>>
<1>1. /\ [stored EXCEPT !.reason = reason, !.corrected = TRUE].reason = reason
      /\ [stored EXCEPT !.reason = reason, !.corrected = TRUE].corrected
  BY DEF Outcomes
<1>2. QED
  BY <1>1 DEF Corrected, Nothing

\* mapUser: what stays, what a raced meeting makes of a row, and the other rows, whose
\* first patch is the move when it is new.
MappedAs(r, rec, facts, stored, t, mode) ==
    LET slot == SlotAfter(facts, rec.slot)
        rest == Settle(facts, slot, stored.outcome, t, mode)
    IN \/ rec.status \in {"displaced", "expired"} /\ r = Nothing
       \/ /\ rec.status = "displaced_pending" /\ r = Nothing
          /\ stored.outcome = NoOutcome => mode # "daily"
       \/ /\ rec.status = "displaced_pending" /\ stored.outcome = NoOutcome
          /\ \/ r = [Nothing EXCEPT !.outcome = [NoOutcome EXCEPT !.reason = "completed", !.at = t,
                                                                   !.excluded = TRUE],
                                    !.patches = <<Patch("completed", rec.slot, TRUE, TRUE)>>]
             \/ r = [Nothing EXCEPT !.patches = <<Patch("displaced", rec.slot, TRUE, FALSE)>>]
       \/ /\ rec.status \notin {"displaced", "expired", "displaced_pending"}
          /\ \/ r = rest
             \/ /\ Some(facts, "move")
                /\ r = [rest EXCEPT !.pair = ~stored.pair,
                                    !.patches = <<Patch("moved", slot, FALSE, FALSE)>> \o @]

LEMMA MapShape ==
    ASSUME NEW rec, NEW facts, NEW stored, NEW t, NEW mode
    PROVE  MappedAs(MapUser(rec, facts, stored, t, mode), rec, facts, stored, t, mode)
<1> DEFINE slot == SlotAfter(facts, rec.slot)
           rest == Settle(facts, slot, stored.outcome, t, mode)
           r == MapUser(rec, facts, stored, t, mode)
<1>1. CASE rec.status \in {"displaced", "expired"}
  BY <1>1 DEF MapUser, MappedAs
<1>2. CASE rec.status = "displaced_pending"
  <2>1. r = SettleDisplaced(facts, rec.slot, stored.outcome, t, mode)
    BY <1>2 DEF MapUser
  <2> QED
    BY <1>2, <2>1 DEF SettleDisplaced, MappedAs
<1>3. CASE rec.status \notin {"displaced", "expired", "displaced_pending"}
  <2>1. r = IF NewMove(facts, rec, stored)
            THEN [rest EXCEPT !.pair = ~stored.pair,
                              !.patches = <<Patch("moved", slot, FALSE, FALSE)>> \o @]
            ELSE rest
    BY <1>3 DEF MapUser
  <2>2. NewMove(facts, rec, stored) => Some(facts, "move")
    BY DEF NewMove
  <2> HIDE DEF r, rest, slot
  <2> QED
    BY <1>3, <2>1, <2>2 DEF MappedAs, r, rest, slot
<1>4. QED
  BY <1>1, <1>2, <1>3

LEMMA Prepended ==
    ASSUME NEW a \in Patches, NEW ps \in Seq(Patches)
    PROVE  LET qs == <<a>> \o ps
           IN /\ qs \in Seq(Patches) /\ Len(qs) = Len(ps) + 1 /\ qs[1] = a
              /\ \A i \in 1..Len(ps) : qs[i + 1] = ps[i]
              /\ Len(ps) = 1 => qs[2] = ps[1]
<1>1. <<a>> \in Seq(Patches) /\ Len(<<a>>) = 1 /\ <<a>>[1] = a /\ Len(ps) \in Nat
  BY LenProperties
<1>2. QED
  BY <1>1, ConcatProperties

LEMMA PatchTyped ==
    ASSUME NEW status \in Statuses \cup {"same"}, NEW slot \in Nat, NEW attributed \in BOOLEAN,
           NEW conflict \in BOOLEAN
    PROVE  LET a == Patch(status, slot, attributed, conflict)
           IN /\ a \in Patches /\ a.status = status /\ a.slot = slot
              /\ a.attributed = attributed /\ a.conflict = conflict
BY DEF Patch, Patches

LEMMA StatusForTyped ==
    \A reason \in Reasons : /\ StatusFor[reason] \in {"completed", "lapsed", "rejected", "same"}
                            /\ StatusFor[reason] \in Statuses \cup {"same"}
                            /\ StatusFor[reason] = "same" <=> reason = "partial"
BY DEF StatusFor, Reasons, Statuses

LEMMA OneIndex == \A a : DOMAIN <<a>> = {1} /\ Len(<<a>>) = 1 /\ <<a>>[1] = a
OBVIOUS

LEMMA NoIndex == DOMAIN <<>> = {} /\ Len(<<>>) = 0
OBVIOUS

\* What Settle wants, field by field.
Wants(rest, facts, slot, stored, t, mode) ==
    /\ rest \in Results /\ Len(rest.patches) \in {0, 1}
    /\ \A i \in DOMAIN rest.patches :
          /\ rest.patches[i].slot = slot /\ ~rest.patches[i].conflict
          /\ rest.patches[i].status \in {"completed", "lapsed", "rejected", "same"}
    /\ rest.outcome.reason \in {"lapsed", "off_slot"} => mode = "daily"
    /\ rest.outcome.reason = "partial" =>
          /\ InWindow(facts, "part", slot) # {}
          /\ mode = "daily" \/ t > slot \/ stored.reason = "lapsed"
    /\ IF rest.correction
       THEN rest.outcome # NoOutcome /\ stored # NoOutcome /\ ~stored.corrected
       ELSE rest.outcome # NoOutcome => stored = NoOutcome

LEMMA SettledFields ==
    ASSUME NEW facts, NEW slot \in Nat, NEW stored \in Outcomes \cup {NoOutcome},
           NEW t \in Nat, NEW mode \in {"daily", "instant"}
    PROVE  Wants(Settle(facts, slot, stored, t, mode), facts, slot, stored, t, mode)
<1> DEFINE rest == Settle(facts, slot, stored, t, mode)
           patches == rest.patches
<1>1. rest \in Results /\ patches \in Seq(Patches)
  BY SettleTyped DEF Results
<1>3. SettledAs(rest, facts, slot, stored, t, mode)
  BY SettleShape
<1> HIDE DEF rest
<1>4. CASE rest = Nothing
  <2>1. Len(rest.patches) = 0 /\ DOMAIN rest.patches = {} /\ rest.outcome = NoOutcome /\ ~rest.correction
    BY <1>4, NothingTyped, NoIndex
  <2>2. NoOutcome.reason = "none"
    BY DEF NoOutcome
  <2> QED
    BY <1>1, <2>1, <2>2 DEF Wants, rest
<1>5. ASSUME NEW attributed \in BOOLEAN, NEW reason \in Reasons,
             patches = <<Patch(StatusFor[reason], slot, attributed, FALSE)>>
      PROVE  /\ Len(rest.patches) \in {0, 1}
             /\ \A i \in DOMAIN rest.patches :
                   /\ rest.patches[i].slot = slot /\ ~rest.patches[i].conflict
                   /\ rest.patches[i].status \in {"completed", "lapsed", "rejected", "same"}
  <2> HIDE DEF patches
  <2> DEFINE patch == Patch(StatusFor[reason], slot, attributed, FALSE)
  <2>1. DOMAIN patches = {1} /\ Len(patches) = 1 /\ patches[1] = patch
    BY <1>5, OneIndex
  <2>2. patch.slot = slot /\ ~patch.conflict /\ patch.status = StatusFor[reason]
    BY DEF Patch
  <2> HIDE DEF patch
  <2>3. StatusFor[reason] \in {"completed", "lapsed", "rejected", "same"}
    BY StatusForTyped
  <2>4. \A i \in DOMAIN patches : /\ patches[i].slot = slot /\ ~patches[i].conflict
                                  /\ patches[i].status \in {"completed", "lapsed", "rejected", "same"}
    BY <2>1, <2>2, <2>3
  <2> QED
    BY <2>1, <2>4 DEF patches
<1>6. ASSUME stored = NoOutcome, NEW reason \in Reasons, rest = Fresh(reason, slot, t),
             reason \in {"lapsed", "off_slot"} => mode = "daily",
             reason = "partial" => InWindow(facts, "part", slot) # {} /\ (mode = "daily" \/ t > slot)
      PROVE  Wants(rest, facts, slot, stored, t, mode)
  <2>1. /\ rest.outcome.reason = reason /\ ~rest.correction
        /\ patches = <<Patch(StatusFor[reason], slot, TRUE, FALSE)>>
    BY <1>6, FreshFields
  <2> HIDE DEF patches
  <2>2. /\ Len(rest.patches) \in {0, 1}
        /\ \A i \in DOMAIN rest.patches :
              /\ rest.patches[i].slot = slot /\ ~rest.patches[i].conflict
              /\ rest.patches[i].status \in {"completed", "lapsed", "rejected", "same"}
    BY <1>5, <2>1
  <2> QED
    BY <1>1, <1>6, <2>1, <2>2 DEF Wants
<1>7. ASSUME Upgradable(stored, t), NEW reason \in Reasons, rest = Corrected(reason, slot, stored),
             reason \in {"completed", "partial"},
             reason = "partial" => InWindow(facts, "part", slot) # {} /\ stored.reason = "lapsed"
      PROVE  Wants(rest, facts, slot, stored, t, mode)
  <2>0. stored \in Outcomes /\ stored # NoOutcome /\ ~stored.corrected
    BY <1>7 DEF Upgradable, NoOutcome
  <2>1. /\ rest.outcome.reason = reason /\ rest.correction
        /\ patches = <<Patch(StatusFor[reason], slot, FALSE, FALSE)>>
    <3>1. rest = Corrected(reason, slot, stored)
      BY <1>7
    <3>2. /\ Corrected(reason, slot, stored).outcome.reason = reason
          /\ Corrected(reason, slot, stored).correction
      BY <2>0, CorrectedTyped
    <3>3. Corrected(reason, slot, stored).patches = <<Patch(StatusFor[reason], slot, FALSE, FALSE)>>
      BY <2>0, CorrectedFields
    <3> QED
      BY <3>1, <3>2, <3>3
  <2> HIDE DEF patches
  <2>2. /\ Len(rest.patches) \in {0, 1}
        /\ \A i \in DOMAIN rest.patches :
              /\ rest.patches[i].slot = slot /\ ~rest.patches[i].conflict
              /\ rest.patches[i].status \in {"completed", "lapsed", "rejected", "same"}
    BY <1>5, <2>0, <2>1
  <2>3. rest.outcome # NoOutcome
    BY <2>1 DEF NoOutcome, Reasons
  <2> QED
    BY <1>1, <1>7, <2>0, <2>1, <2>2, <2>3 DEF Wants
<1>8. QED
  BY <1>3, <1>4, <1>6, <1>7 DEF SettledAs, Reasons, rest

\* mapUser for one placement, field by field: where the patches put the row, what they do to
\* its status, and what the outcome is.
MapSlots(r, rec, slot) ==
    /\ Len(r.patches) \in {0, 1, 2}
    /\ \/ \A i \in DOMAIN r.patches : r.patches[i].slot = rec.slot
       \/ \A i \in DOMAIN r.patches : r.patches[i].slot = slot

MapMarks(r, rec, stored) ==
    \A i \in DOMAIN r.patches :
        /\ r.patches[i].status # "displaced_pending"
        /\ r.patches[i].status = "displaced" =>
              /\ rec.status = "displaced_pending" /\ Len(r.patches) = 1
              /\ stored.outcome = NoOutcome /\ r.outcome = NoOutcome
        /\ r.patches[i].conflict =>
              /\ ~r.correction /\ r.outcome # NoOutcome /\ r.outcome.excluded
              /\ stored.outcome = NoOutcome

MapOutcome(r, rec, facts, slot, stored, t, mode) ==
    /\ rec.status \in {"displaced", "expired"} => r = Nothing
    /\ rec.status = "displaced_pending" =>
          ~r.correction /\ (r.outcome = NoOutcome \/ r.outcome.excluded)
    /\ r.outcome.reason \in {"lapsed", "off_slot"} => mode = "daily"
    /\ r.outcome.reason = "partial" =>
          /\ InWindow(facts, "part", slot) # {}
          /\ mode = "daily" \/ t > slot \/ stored.outcome.reason = "lapsed"
    /\ IF r.correction
       THEN r.outcome # NoOutcome /\ stored.outcome # NoOutcome /\ ~stored.outcome.corrected
       ELSE r.outcome # NoOutcome => stored.outcome = NoOutcome

Mapped(r, rec, facts, stored, t, mode) ==
    LET slot == SlotAfter(facts, rec.slot)
    IN /\ MapSlots(r, rec, slot) /\ MapMarks(r, rec, stored)
       /\ MapOutcome(r, rec, facts, slot, stored, t, mode)

RacedDone(slot, t) ==
    [Nothing EXCEPT !.outcome = [NoOutcome EXCEPT !.reason = "completed", !.at = t,
                                                  !.excluded = TRUE],
                    !.patches = <<Patch("completed", slot, TRUE, TRUE)>>]

RacedGone(slot) == [Nothing EXCEPT !.patches = <<Patch("displaced", slot, TRUE, FALSE)>>]

LEMMA RacedFields ==
    ASSUME NEW slot \in Nat, NEW t \in Nat
    PROVE  /\ RacedDone(slot, t).outcome.reason = "completed" /\ RacedDone(slot, t).outcome.excluded
           /\ ~RacedDone(slot, t).correction
           /\ RacedDone(slot, t).patches = <<Patch("completed", slot, TRUE, TRUE)>>
           /\ RacedGone(slot).outcome = NoOutcome /\ ~RacedGone(slot).correction
           /\ RacedGone(slot).patches = <<Patch("displaced", slot, TRUE, FALSE)>>
BY DEF RacedDone, RacedGone, Nothing, NoOutcome

LEMMA MapFields ==
    ASSUME NEW rec \in Placements, NEW facts \in Seq(Facts), NEW stored \in Tuples, NEW t \in Nat,
           NEW mode \in {"daily", "instant"}
    PROVE  Mapped(MapUser(rec, facts, stored, t, mode), rec, facts, stored, t, mode)
<1> DEFINE slot == SlotAfter(facts, rec.slot)
           rest == Settle(facts, slot, stored.outcome, t, mode)
           r == MapUser(rec, facts, stored, t, mode)
<1>0. rec.slot \in Nat /\ slot \in Nat /\ stored.outcome \in Outcomes \cup {NoOutcome}
  BY SlotTyped DEF Placements, Tuples
<1>1. MappedAs(r, rec, facts, stored, t, mode)
  BY MapShape
<1>2. Wants(rest, facts, slot, stored.outcome, t, mode)
  BY <1>0, SettledFields
<1>3. NoOutcome.reason = "none"
  BY DEF NoOutcome
<1> HIDE DEF r
<1>4. CASE r = Nothing
  <2>1. Len(r.patches) = 0 /\ DOMAIN r.patches = {} /\ r.outcome = NoOutcome /\ ~r.correction
    BY <1>4, NothingTyped, NoIndex
  <2> HIDE DEF slot
  <2>4. MapSlots(r, rec, slot)
    BY <1>3, <1>4, <2>1 DEF MapSlots
  <2>5. MapMarks(r, rec, stored)
    BY <1>3, <1>4, <2>1 DEF MapMarks
  <2>6. MapOutcome(r, rec, facts, slot, stored, t, mode)
    BY <1>3, <1>4, <2>1 DEF MapOutcome
  <2> QED
    BY <2>4, <2>5, <2>6 DEF Mapped, slot, r
<1>5. CASE rec.status = "displaced_pending" /\ stored.outcome = NoOutcome /\ r = RacedDone(rec.slot, t)
  <2> DEFINE patch == Patch("completed", rec.slot, TRUE, TRUE)
  <2>1. /\ r.outcome.reason = "completed" /\ r.outcome.excluded /\ ~r.correction
        /\ r.patches = <<patch>>
    BY <1>0, <1>5, RacedFields
  <2>2. patch.status = "completed" /\ patch.slot = rec.slot
    BY DEF Patch
  <2> HIDE DEF patch
  <2>3. DOMAIN r.patches = {1} /\ Len(r.patches) = 1 /\ r.patches[1] = patch
    BY <2>1, OneIndex
  <2> HIDE DEF slot
  <2>4. MapSlots(r, rec, slot)
    BY <1>3, <1>5, <2>1, <2>2, <2>3 DEF MapSlots
  <2>5. MapMarks(r, rec, stored)
    BY <1>3, <1>5, <2>1, <2>2, <2>3 DEF MapMarks
  <2>6. MapOutcome(r, rec, facts, slot, stored, t, mode)
    BY <1>3, <1>5, <2>1, <2>2, <2>3 DEF MapOutcome
  <2> QED
    BY <2>4, <2>5, <2>6 DEF Mapped, slot, r
<1>6. CASE rec.status = "displaced_pending" /\ stored.outcome = NoOutcome /\ r = RacedGone(rec.slot)
  <2> DEFINE patch == Patch("displaced", rec.slot, TRUE, FALSE)
  <2>1. r.outcome = NoOutcome /\ ~r.correction /\ r.patches = <<patch>>
    BY <1>0, <1>6, RacedFields
  <2>2. ~patch.conflict /\ patch.slot = rec.slot /\ patch.status = "displaced"
    BY DEF Patch
  <2> HIDE DEF patch
  <2>3. DOMAIN r.patches = {1} /\ Len(r.patches) = 1 /\ r.patches[1] = patch
    BY <2>1, OneIndex
  <2> HIDE DEF slot
  <2>4. MapSlots(r, rec, slot)
    BY <1>3, <1>6, <2>1, <2>2, <2>3 DEF MapSlots
  <2>5. MapMarks(r, rec, stored)
    BY <1>3, <1>6, <2>1, <2>2, <2>3 DEF MapMarks
  <2>6. MapOutcome(r, rec, facts, slot, stored, t, mode)
    BY <1>3, <1>6, <2>1, <2>2, <2>3 DEF MapOutcome
  <2> QED
    BY <2>4, <2>5, <2>6 DEF Mapped, slot, r
<1>7. CASE rec.status \notin {"displaced", "expired", "displaced_pending"} /\ r = rest
  <2> HIDE DEF rest, slot
  <2>1. Len(r.patches) \in {0, 1, 2}
    BY <1>2, <1>7 DEF Wants
  <2>2. \A i \in DOMAIN r.patches :
          /\ r.patches[i].slot = slot /\ ~r.patches[i].conflict
          /\ r.patches[i].status \notin {"displaced", "displaced_pending"}
    BY <1>2, <1>7 DEF Wants
  <2>4. MapSlots(r, rec, slot) /\ MapMarks(r, rec, stored)
    BY <2>1, <2>2 DEF MapSlots, MapMarks
  <2>6. MapOutcome(r, rec, facts, slot, stored, t, mode)
    BY <1>2, <1>7 DEF MapOutcome, Wants
  <2> QED
    BY <2>4, <2>6 DEF Mapped, slot, r
<1>8. CASE /\ rec.status \notin {"displaced", "expired", "displaced_pending"}
           /\ r = [rest EXCEPT !.pair = ~stored.pair,
                               !.patches = <<Patch("moved", slot, FALSE, FALSE)>> \o @]
  <2> DEFINE patch == Patch("moved", slot, FALSE, FALSE)
             moved == <<patch>> \o rest.patches
  <2>0. rest \in Results /\ rest.patches \in Seq(Patches)
    BY <1>2 DEF Wants, Results
  <2>1. patch \in Patches /\ patch.status = "moved" /\ patch.slot = slot /\ ~patch.conflict
    BY <1>0, PatchTyped DEF Statuses, Open
  <2> HIDE DEF rest, patch, slot
  <2>2. /\ moved \in Seq(Patches) /\ Len(moved) = Len(rest.patches) + 1 /\ moved[1] = patch
        /\ \A i \in 1..Len(rest.patches) : moved[i + 1] = rest.patches[i]
    BY <2>0, <2>1, Prepended
  <2>3. DOMAIN moved = 1..Len(moved) /\ DOMAIN rest.patches = 1..Len(rest.patches)
        /\ Len(rest.patches) \in {0, 1}
    BY <1>2, <2>0, <2>2, LenProperties DEF Wants
  <2>4. \A i \in DOMAIN rest.patches :
          /\ rest.patches[i].slot = slot /\ ~rest.patches[i].conflict
          /\ rest.patches[i].status \notin {"displaced", "displaced_pending"}
    BY <1>2 DEF Wants
  <2>5. \A i \in DOMAIN moved :
          /\ moved[i].slot = slot /\ ~moved[i].conflict
          /\ moved[i].status \notin {"displaced", "displaced_pending"}
    <3> SUFFICES ASSUME NEW i \in DOMAIN moved
                 PROVE  /\ moved[i].slot = slot /\ ~moved[i].conflict
                        /\ moved[i].status \notin {"displaced", "displaced_pending"}
      OBVIOUS
    <3> HIDE DEF moved
    <3>1. i = 1 \/ (i - 1 \in 1..Len(rest.patches) /\ (i - 1) + 1 = i)
      BY <2>2, <2>3
    <3>2. CASE i = 1
      BY <2>1, <2>2, <3>2
    <3>3. CASE i - 1 \in 1..Len(rest.patches) /\ (i - 1) + 1 = i
      <4>1. moved[i] = rest.patches[i - 1]
        BY <2>2, <3>3
      <4> QED
        BY <2>3, <2>4, <3>3, <4>1
    <3> QED
      BY <3>1, <3>2, <3>3
  <2>6. r = [rest EXCEPT !.pair = ~stored.pair, !.patches = moved]
    BY <1>8 DEF patch
  <2> HIDE DEF moved
  <2>7. r.patches = moved /\ r.outcome = rest.outcome /\ r.correction = rest.correction
    BY <2>0, <2>6 DEF Results
  <2>8. Len(r.patches) \in {0, 1, 2}
    BY <2>2, <2>3, <2>7
  <2>9. MapSlots(r, rec, slot) /\ MapMarks(r, rec, stored)
    BY <2>5, <2>7, <2>8 DEF MapSlots, MapMarks
  <2>10. MapOutcome(r, rec, facts, slot, stored, t, mode)
    BY <1>2, <1>8, <2>7 DEF MapOutcome, Wants
  <2> QED
    BY <2>9, <2>10 DEF Mapped, slot, r
<1>9. QED
  BY <1>1, <1>4, <1>5, <1>6, <1>7, <1>8 DEF MappedAs, RacedDone, RacedGone
-----------------------------------------------------------------------------
(***************************************************************************)
(* What the server says of a block.  The invariant has a part per          *)
(* property.  Time: the slots of a behaviour lie within one day, and an    *)
(* outcome that says "too late" comes after the slot.  Displacement: while *)
(* no lease has expired under a pass one pass is at work, and nothing it   *)
(* is about to do rewards a displaced block.  Calm: when nothing fails,    *)
(* the patches a pass has left lead the row to what its outcome says.      *)
(***************************************************************************)

Storing(p) == pass[p].phase \in {"write", "gate", "patch"}

\* The slots a pass is about to write.
PatchSlots(p) == {pass[p].result.patches[i].slot : i \in DOMAIN pass[p].result.patches}

\* The day of the slot is over at t, or in its last tick.
Shut(t, slot) ==
    \/ Day(t) > Day(slot)
    \/ Day(t) = Day(slot) /\ LastTick(t)

Moved == Some(Pushed, "move")

ResultInv(p) == ~Storing(p) => pass[p].result = Nothing

\* Until the server learns of a move it knows one slot.
OneSlot(p) == ~Moved =>
    /\ PatchSlots(p) \subseteq {srv.slot}
    /\ pass[p].due => pass[p].row.slot = srv.slot

SameDay(slot) == Day(slot) = Day(srv.slot)

DeviceDay ==
    /\ SameDay(here.slot)
    /\ answer # NoPage => SameDay(answer.slot)
    /\ \A i \in DOMAIN log :
          log[i].kind = "move" => SameDay(log[i].to) /\ ~LastTick(log[i].to)

PassDay(p) ==
    /\ pass[p].due => SameDay(pass[p].row.slot)
    /\ \A s \in PatchSlots(p) : SameDay(s)

\* What an outcome says of the time.
Timely(reason) ==
    /\ reason \in {"lapsed", "off_slot", "partial"} => Moved \/ now > srv.slot
    /\ reason = "partial" => pushed > 0
    /\ ~LateMoves /\ reason \in {"lapsed", "off_slot"} => Shut(now, srv.slot)

PassTimely(p) ==
    /\ Timely(pass[p].result.outcome.reason)
    /\ pass[p].due => /\ now > pass[p].row.slot
                      /\ ~LateMoves => Shut(now, srv.slot)

TimeInv ==
    /\ \A p \in Passes : ResultInv(p) /\ OneSlot(p) /\ PassTimely(p)
    /\ Timely(tuples.outcome.reason)
    /\ ~LateMoves => DeviceDay /\ \A p \in Passes : PassDay(p)

Active(p) == pass[p].phase \in {"read", "write", "gate", "patch", "pull"}

LeaseInv == "overrun" \notin failures => \A p \in Passes : Active(p) <=> lease = p

\* A sweep that found its row due stays late for the slot, wherever a patch puts it.
SlotInv(p) ==
    /\ pass[p].due => now > srv.slot
    /\ \A s, t \in PatchSlots(p) : s = t
    /\ \A s \in PatchSlots(p) : s = srv.slot \/ ~LastTick(s) \/ now > s

\* What a pass is about to do to a displaced block.
PendingInv(p) ==
    /\ pass[p].due /\ pass[p].phase \in {"due", "read"} =>
          \/ pass[p].row.status = "displaced_pending"
          \/ /\ pass[p].row.status \in Open
             /\ srv.status \notin {"displaced_pending", "displaced"}
    /\ pass[p].phase = "write" /\ srv.status = "displaced" /\ ~pass[p].result.correction =>
          pass[p].result.outcome = NoOutcome \/ pass[p].result.outcome.excluded
    /\ \A i \in DOMAIN pass[p].result.patches :
          /\ pass[p].result.patches[i].status # "displaced_pending"
          /\ pass[p].result.patches[i].status = "displaced" =>
                /\ pass[p].row.status = "displaced_pending" /\ Len(pass[p].result.patches) = 1
                /\ tuples.outcome = NoOutcome /\ pass[p].result.outcome = NoOutcome
          /\ pass[p].result.patches[i].conflict =>
                IF pass[p].phase = "write"
                THEN /\ tuples.outcome = NoOutcome /\ ~pass[p].result.correction
                     /\ pass[p].result.outcome # NoOutcome /\ pass[p].result.outcome.excluded
                ELSE tuples.outcome.excluded

DisplacedInv == ~LateMoves /\ "overrun" \notin failures =>
    /\ srv.status = "displaced" => tuples.outcome = NoOutcome \/ tuples.outcome.excluded
    /\ srv.conflict => tuples.outcome.excluded
    /\ \A p \in Passes : SlotInv(p) /\ PendingInv(p)

\* A row that says what its outcome says.
Says(facts, row, outcome) ==
    /\ row.attributed <=> outcome # NoOutcome \/ row.status = "displaced"
    /\ outcome # NoOutcome =>
          \/ row.status = StatusFor[outcome.reason]
          \/ /\ outcome.reason = "partial"
             /\ row.status = IF outcome.corrected THEN "lapsed" ELSE "shown"
          \/ Some(facts, "move") /\ row.status \in {"moved", "displaced_pending"}
    /\ outcome = NoOutcome =>
          /\ row.status \notin {"completed", "lapsed", "rejected"}
          /\ row.status = "moved" => Some(facts, "move")

\* The row after the patches that are left, and the outcome after the tuples are written.
Final(row, patches) ==
    IF Len(patches) = 0 THEN row
    ELSE IF Len(patches) = 1 THEN Patched(row, patches[1])
    ELSE Patched(Patched(row, patches[1]), patches[2])

\* What a pass leaves when it has nothing left to do.
Leads(p, outcome) ==
    /\ pass[p].row.status = srv.status
    /\ Len(pass[p].result.patches) <= 2
    /\ Says(Pushed, Final(srv, pass[p].result.patches), outcome)
    /\ pass[p].due => Final(srv, pass[p].result.patches).attributed

CalmPass(p) ==
    /\ pass[p].due /\ ~Storing(p) =>
          pass[p].row.status \in Open \cup {"displaced_pending"} /\ ~pass[p].row.attributed
    /\ pass[p].phase = "read" /\ pass[p].due => pass[p].row = srv
    /\ pass[p].phase = "write" =>
          /\ Writes(pass[p].result)
          /\ Leads(p, Stored(pass[p].result).outcome)
          /\ IF pass[p].result.correction
             THEN tuples.outcome # NoOutcome /\ ~tuples.outcome.corrected
             ELSE pass[p].result.outcome # NoOutcome => tuples.outcome = NoOutcome
    /\ pass[p].phase = "gate" => StillStored(pass[p].result)
    /\ pass[p].phase \in {"gate", "patch"} => Leads(p, tuples.outcome)

CalmInv == Calm =>
    /\ (\A p \in Passes : ~Storing(p)) => Says(Pushed, srv, tuples.outcome)
    /\ \A p \in Passes : CalmPass(p)
-----------------------------------------------------------------------------
(* Days. *)

LEMMA DivFacts ==
    ASSUME NEW t \in Nat, NEW D \in Nat \ {0}
    PROVE  t \div D \in Nat /\ t % D \in 0..D - 1 /\ t = D * (t \div D) + (t % D)
OBVIOUS

LEMMA DivMono ==
    ASSUME NEW s \in Nat, NEW t \in Nat, NEW D \in Nat \ {0}, s <= t
    PROVE  s \div D <= t \div D
OBVIOUS

LEMMA DayFacts ==
    ASSUME NEW s \in Nat, NEW t \in Nat, s <= t
    PROVE  Day(s) \in Nat /\ Day(t) \in Nat /\ Day(s) <= Day(t)
BY TimeAssumption, DivFacts, DivMono DEF Day

\* Within a day the last tick is the latest.
LEMMA LastIsLatest ==
    ASSUME NEW s \in Nat, NEW t \in Nat, Day(s) = Day(t), LastTick(t)
    PROVE  s <= t /\ (~LastTick(s) => s < t)
<1> DEFINE start == DayTicks * Day(t)
<1>1. DayTicks \in Nat \ {0} /\ Day(t) \in Nat
  BY TimeAssumption, DivFacts DEF Day
<1>2. s = start + (s % DayTicks) /\ s % DayTicks \in 0..DayTicks - 1
  BY <1>1, DivFacts DEF Day
<1>3. t = start + (DayTicks - 1)
  BY <1>1, DivFacts DEF Day, LastTick
<1>4. start \in Nat
  BY <1>1
<1> HIDE DEF start
<1>5. s % DayTicks # DayTicks - 1 => s % DayTicks < DayTicks - 1
  BY <1>1, <1>2
<1>6. QED
  BY <1>1, <1>2, <1>3, <1>4, <1>5 DEF LastTick

LEMMA ShutStays ==
    ASSUME NEW slot \in Nat, NEW t \in Nat, NEW u \in Nat, t <= u, Shut(t, slot)
    PROVE  Shut(u, slot)
<1>1. Day(t) \in Nat /\ Day(u) \in Nat /\ Day(t) <= Day(u) /\ Day(slot) \in Nat
  BY DayFacts
<1>2. CASE Day(u) > Day(slot)
  BY <1>2 DEF Shut
<1>3. CASE Day(u) <= Day(slot)
  <2>1. Day(t) = Day(u) /\ Day(u) = Day(slot) /\ LastTick(t)
    BY <1>1, <1>3 DEF Shut
  <2>2. LastTick(u)
    BY <2>1, LastIsLatest
  <2> QED
    BY <2>1, <2>2 DEF Shut
<1>4. QED
  BY <1>1, <1>2, <1>3

\* When a day is shut, every slot of it is over, but one in the last tick.
LEMMA ShutPast ==
    ASSUME NEW slot \in Nat, NEW s \in Nat, NEW t \in Nat, Shut(t, slot), Day(s) = Day(slot),
           ~LastTick(s)
    PROVE  t > s
<1>1. CASE Day(t) > Day(slot)
  <2>1. ~(t <= s)
    BY <1>1, DayFacts
  <2> QED
    BY <2>1
<1>2. CASE Day(t) = Day(slot) /\ LastTick(t)
  BY <1>2, LastIsLatest
<1>3. QED
  BY <1>1, <1>2 DEF Shut
-----------------------------------------------------------------------------
(* What the actions leave alone. *)

LEMMA Front ==
    ASSUME NEW l \in Seq(Facts), NEW n \in 0..Len(l)
    PROVE  /\ Len(l) \in Nat /\ DOMAIN l = 1..Len(l) /\ n \in Nat
           /\ SubSeq(l, 1, n) \in Seq(Facts) /\ Len(SubSeq(l, 1, n)) = n
           /\ DOMAIN SubSeq(l, 1, n) = 1..n
           /\ \A i \in 1..n : SubSeq(l, 1, n)[i] = l[i] /\ i \in DOMAIN l
<1>1. Len(l) \in Nat /\ DOMAIN l = 1..Len(l) /\ n \in Nat
  BY LenProperties
<1>2. \A i \in 1..n : l[i] \in Facts /\ i \in DOMAIN l
  BY <1>1, ElementOfSeq
<1>3. /\ SubSeq(l, 1, n) \in Seq(Facts)
      /\ Len(SubSeq(l, 1, n)) = IF 1 <= n THEN n - 1 + 1 ELSE 0
      /\ \A i \in 1..n - 1 + 1 : SubSeq(l, 1, n)[i] = l[1 + i - 1]
  BY <1>1, <1>2, SubSeqProperties
<1>4. Len(SubSeq(l, 1, n)) = n
  BY <1>1, <1>3
<1>5. DOMAIN SubSeq(l, 1, n) = 1..n
  BY <1>3, <1>4, LenProperties
<1>6. \A i \in 1..n : SubSeq(l, 1, n)[i] = l[i]
  BY <1>1, <1>3
<1>7. QED
  BY <1>1, <1>2, <1>3, <1>4, <1>5, <1>6

LEMMA FrontKept ==
    ASSUME NEW l \in Seq(Facts), NEW k \in Seq(Facts), NEW n \in 0..Len(l), n \in 0..Len(k),
           \A i \in 1..n : l[i] = k[i]
    PROVE  SubSeq(l, 1, n) = SubSeq(k, 1, n)
<1> DEFINE F == SubSeq(l, 1, n)
           G == SubSeq(k, 1, n)
<1>1. F \in Seq(Facts) /\ Len(F) = n /\ \A i \in 1..n : F[i] = l[i]
  BY Front
<1>2. G \in Seq(Facts) /\ Len(G) = n /\ \A i \in 1..n : G[i] = k[i]
  BY Front
<1> HIDE DEF F, G
<1>3. F = G
  BY <1>1, <1>2, SeqEqual
<1>4. QED
  BY <1>3 DEF F, G

\* What the server knows of moves it keeps.
LEMMA MovedStays ==
    ASSUME Types, Types', pushed <= pushed', \A i \in 1..pushed : log'[i] = log[i]
    PROVE  Moved => Moved'
<1>1. /\ log \in Seq(Facts) /\ pushed \in 0..Len(log)
      /\ log' \in Seq(Facts) /\ pushed' \in 0..Len(log')
  BY DEF Types, DeviceTypes, ServerTypes
<1>2. DOMAIN Pushed = 1..pushed /\ (\A i \in 1..pushed : Pushed[i] = log[i]) /\ pushed \in Nat
  BY <1>1, Front DEF Pushed
<1>3. DOMAIN Pushed' = 1..pushed' /\ (\A i \in 1..pushed' : Pushed'[i] = log'[i]) /\ pushed' \in Nat
  BY <1>1, Front DEF Pushed
<1>4. ASSUME NEW i \in DOMAIN Pushed, Pushed[i].kind = "move"
      PROVE  i \in DOMAIN Pushed' /\ Pushed'[i].kind = "move"
  <2>1. i \in 1..pushed /\ i \in 1..pushed'
    BY <1>2, <1>3
  <2>2. Pushed[i] = log[i] /\ Pushed'[i] = log'[i] /\ log'[i] = log[i]
    BY <1>2, <1>3, <2>1
  <2> QED
    BY <1>3, <1>4, <2>1, <2>2
<1>5. QED
  BY <1>4 DEF Moved, Some

\* A longer log of which no more is pushed.
LEMMA PushedKept ==
    ASSUME Types, Types', pushed' = pushed, \A i \in 1..pushed : log'[i] = log[i]
    PROVE  Pushed' = Pushed
<1>1. /\ log \in Seq(Facts) /\ pushed \in 0..Len(log)
      /\ log' \in Seq(Facts) /\ pushed \in 0..Len(log')
  BY DEF Types, DeviceTypes, ServerTypes
<1>2. QED
  BY <1>1, FrontKept DEF Pushed

\* The user's actions, time, and the page on its way: the server's side stays.
QuietStep ==
    /\ UNCHANGED <<srv, pushed, tuples, pass>>
    /\ now <= now' /\ failures \subseteq failures'
    /\ lease' = lease \/ "overrun" \in failures'
    /\ \A i \in 1..pushed : log'[i] = log[i]

LEMMA LogQuiet ==
    ASSUME Types, NEW kind \in Kinds, NEW at \in Nat, NEW to \in Nat, NEW status \in Statuses,
           NEW slot \in Nat, Log(kind, at, to, status, slot)
    PROVE  /\ QuietStep /\ answer' = answer /\ here'.slot = slot
           /\ \A i \in DOMAIN log' :
                 \/ i \in DOMAIN log /\ log'[i] = log[i]
                 \/ log'[i] = [kind |-> kind, at |-> at, to |-> to]
<1> DEFINE fact == [kind |-> kind, at |-> at, to |-> to]
<1>1. /\ log' = Append(log, fact) /\ here' = [status |-> status, slot |-> slot]
      /\ UNCHANGED <<now, srv, pushed, tuples, news, answer, lease, pass, failures>>
  BY DEF Log
<1>2. now \in Nat /\ log \in Seq(Facts) /\ pushed \in 0..Len(log)
  BY ConstantsAssumption DEF Types, DeviceTypes, ServerTypes
<1>3. fact \in Facts
  BY <1>2 DEF Facts
<1> HIDE DEF fact
<1>4. /\ Len(log) \in Nat /\ DOMAIN log = 1..Len(log)
      /\ log' \in Seq(Facts) /\ Len(log') = Len(log) + 1
      /\ \A i \in 1..Len(log) : log'[i] = log[i]
      /\ log'[Len(log) + 1] = fact
  BY <1>1, <1>2, <1>3, AppendProperties, LenProperties
<1>5. DOMAIN log' = 1..(Len(log) + 1)
  BY <1>4, LenProperties
<1>6. \A i \in 1..pushed : log'[i] = log[i]
  BY <1>2, <1>4
<1>7. QuietStep
  BY <1>1, <1>2, <1>6 DEF QuietStep
<1>8. \A i \in DOMAIN log' : (i \in DOMAIN log /\ log'[i] = log[i]) \/ log'[i] = fact
  BY <1>4, <1>5
<1>9. QED
  BY <1>1, <1>7, <1>8 DEF fact
-----------------------------------------------------------------------------
(* Time. *)

\* The slot moves only when the server knows of a move, and within the day.
SlotFrame ==
    /\ now <= now' /\ pushed <= pushed' /\ (Moved => Moved')
    /\ srv'.slot = srv.slot \/ Moved
    /\ ~LateMoves => SameDay(srv'.slot)

LEMMA SlotsTyped ==
    ASSUME Types
    PROVE  /\ now \in Nat /\ srv.slot \in Nat /\ here.slot \in Nat /\ pushed \in Nat
           /\ \A p \in Passes : pass[p].row.slot \in Nat /\ pass[p] \in PassRecords
           /\ answer # NoPage => answer.slot \in Nat
<1>1. now \in Nat /\ srv.slot \in Nat /\ here.slot \in Nat /\ (answer # NoPage => answer.slot \in Nat)
  BY ConstantsAssumption DEF Types, DeviceTypes, ServerTypes, Placements
<1>2. pushed \in Nat
  BY LenProperties DEF Types, DeviceTypes, ServerTypes
<1>3. \A p \in Passes : pass[p].row.slot \in Nat /\ pass[p] \in PassRecords
  BY DEF Types, PassTypes, PassRecords, Placements
<1>4. QED
  BY <1>1, <1>2, <1>3

LEMMA SlotsTypedNext ==
    ASSUME Types'
    PROVE  now' \in Nat /\ srv'.slot \in Nat /\ here'.slot \in Nat /\ pushed' \in Nat
<1>1. now' \in Nat /\ srv'.slot \in Nat /\ here'.slot \in Nat
  BY ConstantsAssumption DEF Types, DeviceTypes, ServerTypes, Placements
<1>2. pushed' \in Nat
  BY LenProperties DEF Types, DeviceTypes, ServerTypes
<1>3. QED
  BY <1>1, <1>2

LEMMA ShutKept ==
    ASSUME Types, Types', SlotFrame, ~LateMoves, Shut(now, srv.slot)
    PROVE  Shut(now', srv'.slot)
<1>1. Shut(now', srv.slot)
  BY SlotsTyped, SlotsTypedNext, ShutStays DEF SlotFrame
<1>2. QED
  BY <1>1 DEF Shut, SlotFrame, SameDay

LEMMA TimelyKept ==
    ASSUME Types, Types', SlotFrame, NEW reason, Timely(reason)
    PROVE  /\ reason \in {"lapsed", "off_slot", "partial"} => Moved' \/ now' > srv'.slot
           /\ reason = "partial" => pushed' > 0
           /\ ~LateMoves /\ reason \in {"lapsed", "off_slot"} => Shut(now', srv'.slot)
<1>1. /\ now \in Nat /\ now' \in Nat /\ srv.slot \in Nat /\ srv'.slot \in Nat
      /\ pushed \in Nat /\ pushed' \in Nat
  BY SlotsTyped, SlotsTypedNext
<1>2. reason \in {"lapsed", "off_slot", "partial"} => Moved' \/ now' > srv'.slot
  BY <1>1 DEF SlotFrame, Timely
<1>3. reason = "partial" => pushed' > 0
  BY <1>1 DEF SlotFrame, Timely
<1>4. ~LateMoves /\ reason \in {"lapsed", "off_slot"} => Shut(now', srv'.slot)
  BY ShutKept DEF Timely
<1>5. QED
  BY <1>2, <1>3, <1>4

\* A pass that keeps what it read and computed, or loses it.
Keeps(p) ==
    /\ pass'[p].due => pass[p].due /\ pass'[p].row.slot = pass[p].row.slot
    /\ PatchSlots(p)' \subseteq PatchSlots(p)
    /\ pass'[p].result.outcome.reason \in {pass[p].result.outcome.reason, "none"}

PassTime(p) == OneSlot(p) /\ PassTimely(p) /\ (~LateMoves => PassDay(p))

LEMMA NoneTimely == Timely("none")
BY DEF Timely

LEMMA PassKept ==
    ASSUME Types, Types', SlotFrame, NEW p \in Passes, PassTime(p), Keeps(p)
    PROVE  PassTime(p)'
<1>1. OneSlot(p)'
  BY DEF OneSlot, PassTime, Keeps, SlotFrame
<1>2. Timely(pass[p].result.outcome.reason)
  BY DEF PassTime, PassTimely
<1> DEFINE reason == pass'[p].result.outcome.reason
<1>3. Timely(reason)
  BY <1>2, NoneTimely DEF Keeps
<1> HIDE DEF reason
<1>4. /\ reason \in {"lapsed", "off_slot", "partial"} => Moved' \/ now' > srv'.slot
      /\ reason = "partial" => pushed' > 0
      /\ ~LateMoves /\ reason \in {"lapsed", "off_slot"} => Shut(now', srv'.slot)
  BY <1>3, TimelyKept
<1>5. pass'[p].due => now' > pass'[p].row.slot
  <2>1. now \in Nat /\ now' \in Nat /\ pass[p].row.slot \in Nat /\ now <= now'
    BY SlotsTyped, SlotsTypedNext DEF SlotFrame
  <2> QED
    BY <2>1 DEF PassTime, PassTimely, Keeps
<1>6. pass'[p].due /\ ~LateMoves => Shut(now', srv'.slot)
  BY ShutKept DEF PassTime, PassTimely, Keeps
<1>7. PassTimely(p)'
  BY <1>4, <1>5, <1>6 DEF PassTimely, Timely, reason
<1>8. ~LateMoves => PassDay(p)'
  BY DEF PassTime, PassDay, Keeps, SlotFrame, SameDay
<1>9. QED
  BY <1>1, <1>7, <1>8 DEF PassTime

LEMMA TimeParts == TimeInv <=> /\ \A p \in Passes : ResultInv(p) /\ PassTime(p)
                               /\ Timely(tuples.outcome.reason)
                               /\ ~LateMoves => DeviceDay
BY DEF TimeInv, PassTime

LEMMA StoredTimely ==
    ASSUME Types, Types', SlotFrame, TimeInv,
           \/ tuples'.outcome.reason = tuples.outcome.reason
           \/ \E p \in Passes : tuples'.outcome.reason = pass[p].result.outcome.reason
    PROVE  Timely(tuples.outcome.reason)'
<1> DEFINE reason == tuples'.outcome.reason
<1>1. Timely(reason)
  BY DEF TimeInv, PassTimely
<1> HIDE DEF reason
<1>2. /\ reason \in {"lapsed", "off_slot", "partial"} => Moved' \/ now' > srv'.slot
      /\ reason = "partial" => pushed' > 0
      /\ ~LateMoves /\ reason \in {"lapsed", "off_slot"} => Shut(now', srv'.slot)
  BY <1>1, TimelyKept
<1>3. QED
  BY <1>2 DEF Timely, reason

\* One step for the three parts.
LEMMA TimeStep ==
    ASSUME Types, Types', SlotFrame, TimeInv,
           \A p \in Passes : ResultInv(p)' /\ (Keeps(p) \/ PassTime(p)'),
           \/ tuples'.outcome.reason = tuples.outcome.reason
           \/ \E p \in Passes : tuples'.outcome.reason = pass[p].result.outcome.reason,
           ~LateMoves => DeviceDay'
    PROVE  TimeInv'
<1>1. \A p \in Passes : PassTime(p)
  BY TimeParts
<1>2. \A p \in Passes : PassTime(p)'
  BY <1>1, PassKept
<1>3. Timely(tuples.outcome.reason)'
  BY StoredTimely
<1>4. QED
  BY <1>2, <1>3 DEF TimeInv, PassTime

\* The device's side of the day.
LEMMA DayKept ==
    ASSUME DeviceDay, SameDay(srv'.slot), log' = log, here'.slot = here.slot,
           answer' = answer \/ answer' = NoPage \/ answer'.slot = srv.slot
    PROVE  DeviceDay'
BY DEF DeviceDay, SameDay

WorldStep == Tick \/ Receive \/ LoseAnswer \/ Overrun \/ UNCHANGED vars

LEMMA UserIsQuiet ==
    ASSUME Types, ~LateMoves => DeviceDay, UserStep
    PROVE  QuietStep /\ (~LateMoves => DeviceDay')
<1>1. here.slot \in Nat /\ now \in Nat /\ "moved" \in Statuses /\ "move" \in Kinds
  BY ConstantsAssumption DEF Types, DeviceTypes, Kinds, Statuses, Open
<1>2. CASE Marked
  <2>1. PICK kind \in Kinds \ {"move"}, at \in Nat, status \in Statuses :
          Log(kind, at, 0, status, here.slot)
    BY <1>2 DEF Marked
  <2>2. /\ QuietStep /\ answer' = answer /\ here'.slot = here.slot
        /\ \A i \in DOMAIN log' :
              (i \in DOMAIN log /\ log'[i] = log[i]) \/ log'[i] = [kind |-> kind, at |-> at, to |-> 0]
    BY <1>1, <2>1, LogQuiet
  <2>3. \A i \in DOMAIN log' : log'[i].kind = "move" => i \in DOMAIN log /\ log'[i] = log[i]
    BY <2>2
  <2>4. srv' = srv
    BY <2>2 DEF QuietStep
  <2> QED
    BY <2>2, <2>3, <2>4 DEF DeviceDay, SameDay
<1>3. CASE Touched
  <2>1. here'.slot = here.slot
    BY <1>3 DEF Touched, Types, DeviceTypes
  <2>2. QuietStep
    BY <1>1, <1>3 DEF Touched, QuietStep
  <2> QED
    BY <1>3, <2>1, <2>2 DEF Touched, DeviceDay, SameDay
<1>4. CASE MovedTo
  <2>1. PICK to \in Nat :
          /\ OnToday /\ Log("move", now, to, "moved", to)
          /\ IF LastTick(now) THEN LateMoves /\ to = now + 1 ELSE Day(to) = Day(now) /\ ~LastTick(to)
    BY <1>4 DEF MovedTo
  <2>2. /\ QuietStep /\ answer' = answer /\ here'.slot = to
        /\ \A i \in DOMAIN log' :
              (i \in DOMAIN log /\ log'[i] = log[i]) \/ log'[i] = [kind |-> "move", at |-> now, to |-> to]
    BY <1>1, <2>1, LogQuiet
  <2>3. srv' = srv
    BY <2>2 DEF QuietStep
  <2>4. ASSUME ~LateMoves PROVE DeviceDay'
    <3>1. Day(to) = Day(srv.slot) /\ ~LastTick(to)
      BY <2>1, <2>4 DEF OnToday, DeviceDay, SameDay
    <3>2. \A i \in DOMAIN log' :
             log'[i].kind = "move" => Day(log'[i].to) = Day(srv.slot) /\ ~LastTick(log'[i].to)
      BY <2>2, <2>4, <3>1 DEF DeviceDay, SameDay
    <3> QED
      BY <2>2, <2>3, <2>4, <3>1, <3>2 DEF DeviceDay, SameDay
  <2> QED
    BY <2>2, <2>4
<1>5. QED
  BY <1>2, <1>3, <1>4, UserSteps

LEMMA WorldIsQuiet ==
    ASSUME Types, ~LateMoves => DeviceDay, WorldStep
    PROVE  QuietStep /\ (~LateMoves => DeviceDay')
<1>0. now \in Nat /\ now <= now + 1 /\ now <= now
  BY ConstantsAssumption DEF Types
<1>1. CASE Tick
  BY <1>0, <1>1 DEF Tick, device, QuietStep, DeviceDay, SameDay
<1>2. CASE Receive
  <2>1. here' = here \/ here' = answer
    BY <1>2 DEF Receive
  <2> QED
    BY <1>0, <1>2, <2>1 DEF Receive, QuietStep, DeviceDay, SameDay
<1>3. CASE LoseAnswer
  BY <1>0, <1>3 DEF LoseAnswer, Fails, device, QuietStep, DeviceDay, SameDay
<1>4. CASE Overrun
  BY <1>0, <1>4 DEF Overrun, Fails, device, QuietStep, DeviceDay, SameDay
<1>5. CASE UNCHANGED vars
  BY <1>0, <1>5 DEF vars, device, QuietStep, DeviceDay, SameDay
<1>6. QED
  BY <1>1, <1>2, <1>3, <1>4, <1>5 DEF WorldStep

LEMMA QuietTime ==
    ASSUME Types, Types', TimeInv, QuietStep, ~LateMoves => DeviceDay'
    PROVE  TimeInv'
<1>1. Moved => Moved'
  BY MovedStays, SlotsTyped DEF QuietStep
<1>2. SlotFrame
  BY <1>1, SlotsTyped DEF QuietStep, SlotFrame, SameDay
<1>3. \A p \in Passes : ResultInv(p)' /\ Keeps(p)
  BY DEF TimeInv, QuietStep, ResultInv, Storing, Keeps, PatchSlots
<1>4. tuples'.outcome.reason = tuples.outcome.reason
  BY DEF QuietStep
<1>5. QED
  BY <1>2, <1>3, <1>4, TimeStep
-----------------------------------------------------------------------------
\* Writers of the row other than the passes: its status, on no lease or as an intrusion.
RowStep ==
    /\ UNCHANGED <<now, here, log, pushed, tuples, answer, lease, pass>>
    /\ failures \subseteq failures'
    /\ srv'.slot = srv.slot /\ srv'.attributed = srv.attributed /\ srv'.conflict = srv.conflict
    /\ \/ srv'.status = "displaced_pending" /\ Displaceable
       \/ srv'.status = "expired" /\ Expirable
    /\ lease = "free" \/ "intrusion" \in failures'

LEMMA RowSteps == ASSUME Types, Displace \/ Expire PROVE RowStep
<1>1. /\ failures \subseteq failures' /\ (lease = "free" \/ "intrusion" \in failures')
      /\ UNCHANGED <<now, here, log, pushed, tuples, answer, lease, pass>>
  BY DEF Displace, Expire, Intrude, Fails, device
<1>2. srv \in Placements
  BY DEF Types, ServerTypes
<1>3. CASE Displace
  BY <1>1, <1>2, <1>3 DEF Displace, RowStep, Placements
<1>4. CASE Expire
  BY <1>1, <1>2, <1>4 DEF Expire, RowStep, Placements
<1>5. QED
  BY <1>3, <1>4

LEMMA RowTime ==
    ASSUME Types, Types', TimeInv, RowStep
    PROVE  TimeInv'
<1>1. Pushed' = Pushed
  BY DEF RowStep, Pushed
<1>2. SlotFrame
  BY <1>1, SlotsTyped DEF RowStep, SlotFrame, SameDay, Moved
<1>3. \A p \in Passes : ResultInv(p)' /\ Keeps(p)
  BY DEF TimeInv, RowStep, ResultInv, Storing, Keeps, PatchSlots
<1>4. ~LateMoves => DeviceDay'
  BY <1>2, DayKept DEF TimeInv, RowStep, SlotFrame
<1>5. QED
  BY <1>2, <1>3, <1>4, TimeStep DEF RowStep
-----------------------------------------------------------------------------
\* A pass ends: with nothing stored, with nothing left to write, or by a crash.
EndStep(p) ==
    /\ UNCHANGED <<now, here, log, srv, pushed, tuples>> /\ failures \subseteq failures'
    /\ answer' = answer \/ answer'.slot = srv.slot
    /\ pass'[p] = NoPass /\ \A q \in Passes \ {p} : pass'[q] = pass[q]
    /\ \/ lease' = Released(p)
       \/ lease' = lease /\ ~Active(p)
    /\ \/ ~Storing(p)
       \/ pass[p].phase = "patch" /\ pass[p].result.patches = <<>>
       \/ "crash" \in failures'

LEMMA EndSteps ==
    ASSUME Types, SkipBusy \/ EndSweep \/ Pull \/ \E q \in Passes : Crash(q)
    PROVE  \E p \in Passes : EndStep(p)
<1>1. \A p \in Passes : pass' = [pass EXCEPT ![p] = NoPass] =>
        pass'[p] = NoPass /\ \A q \in Passes \ {p} : pass'[q] = pass[q]
  BY NoPassTyped, PassMoves
<1>2. "sync" \in Passes /\ "sweep" \in Passes
  BY DEF Passes
<1>3. CASE SkipBusy
  BY <1>1, <1>2, <1>3 DEF SkipBusy, EndStep, Active, Storing, device
<1>4. CASE EndSweep
  BY <1>1, <1>2, <1>4 DEF EndSweep, EndStep, device
<1>5. CASE Pull
  <2>1. answer' = answer \/ answer'.slot = srv.slot
    BY <1>5 DEF Pull
  <2> QED
    BY <1>1, <1>2, <1>5, <2>1 DEF Pull, EndStep, Storing, device
<1>6. ASSUME NEW q \in Passes, Crash(q) PROVE \E p \in Passes : EndStep(p)
  BY <1>1, <1>6 DEF Crash, Fails, EndStep, device
<1>7. QED
  BY <1>3, <1>4, <1>5, <1>6

StartStep ==
    /\ UNCHANGED <<now, here, log, srv, tuples, answer, failures>>
    /\ pass["sync"] = NoPass /\ lease = "free" /\ lease' = "sync"
    /\ pushed' = Len(log)
    /\ pass'["sync"].phase \in {"read", "pull"} /\ ~pass'["sync"].due
    /\ pass'["sync"].result = Nothing
    /\ \A q \in Passes \ {"sync"} : pass'[q] = pass[q]

LoadStep ==
    /\ UNCHANGED <<now, here, log, srv, pushed, tuples, answer, lease, failures>>
    /\ pass["sweep"] = NoPass
    /\ pass'["sweep"].phase = "due" /\ pass'["sweep"].result = Nothing
    /\ pass'["sweep"].due = Due /\ pass'["sweep"].row = srv
    /\ \A q \in Passes \ {"sweep"} : pass'[q] = pass[q]

AcquireStep ==
    /\ UNCHANGED <<now, here, log, srv, pushed, tuples, answer>> /\ failures \subseteq failures'
    /\ pass["sweep"].phase = "due" /\ lease = "free" /\ lease' = "sweep"
    /\ pass["sweep"].due /\ pass["sweep"].row # srv => "stale" \in failures'
    /\ pass'["sweep"].phase = "read" /\ pass'["sweep"].result = pass["sweep"].result
    /\ pass'["sweep"].due = pass["sweep"].due /\ pass'["sweep"].row = pass["sweep"].row
    /\ \A q \in Passes \ {"sweep"} : pass'[q] = pass[q]

LEMMA StartSteps == ASSUME Types, StartSync PROVE StartStep
<1>1. PICK rewards \in BOOLEAN, phase \in {"read", "pull"} :
        pass' = [pass EXCEPT !["sync"] = [NoPass EXCEPT !.phase = phase, !.rewards = rewards]]
  BY DEF StartSync
<1> DEFINE next == [NoPass EXCEPT !.phase = phase, !.rewards = rewards]
<1>2. next \in PassRecords /\ next.phase = phase /\ ~next.due /\ next.result = Nothing
  <2>1. next \in PassRecords
    BY NoPassTyped DEF PassRecords, Phases
  <2>2. next.phase = phase /\ ~next.due /\ next.result = Nothing
    BY DEF NoPass
  <2> QED
    BY <2>1, <2>2
<1> HIDE DEF next
<1>3. "sync" \in Passes
  BY DEF Passes
<1>4. pass' = [pass EXCEPT !["sync"] = next]
  BY <1>1 DEF next
<1>5. pass'["sync"] = next /\ \A q \in Passes \ {"sync"} : pass'[q] = pass[q]
  BY <1>2, <1>3, <1>4, PassMoves
<1>6. QED
  BY <1>2, <1>5 DEF StartSync, StartStep

LEMMA LoadSteps == ASSUME Types, LoadDue PROVE LoadStep
<1> DEFINE next == [NoPass EXCEPT !.phase = "due", !.rewards = TRUE, !.due = Due, !.row = srv]
<1>1. /\ pass' = [pass EXCEPT !["sweep"] = next] /\ pass["sweep"] = NoPass
      /\ UNCHANGED <<now, here, log, srv, pushed, tuples, answer, lease, failures>>
  BY DEF LoadDue, device
<1>2. Due \in BOOLEAN /\ srv \in Placements
  BY DEF Due, Types, ServerTypes
<1>3. next \in PassRecords
  BY <1>2, NoPassTyped DEF PassRecords, Phases
<1>4. next.phase = "due" /\ next.due = Due /\ next.row = srv /\ next.result = Nothing
  BY DEF NoPass
<1> HIDE DEF next
<1>5. "sweep" \in Passes
  BY DEF Passes
<1>6. pass'["sweep"] = next /\ \A q \in Passes \ {"sweep"} : pass'[q] = pass[q]
  BY <1>1, <1>3, <1>5, PassMoves
<1>7. QED
  BY <1>1, <1>4, <1>6 DEF LoadStep

LEMMA AcquireSteps == ASSUME Types, Acquire PROVE AcquireStep
<1> DEFINE next == [pass["sweep"] EXCEPT !.phase = "read"]
<1>1. "sweep" \in Passes /\ pass["sweep"] \in PassRecords
  BY DEF Passes, Types, PassTypes
<1>2. pass' = [pass EXCEPT !["sweep"] = next]
  BY DEF Acquire, Types, PassTypes
<1>3. next \in PassRecords
  BY <1>1 DEF PassRecords, Phases
<1>4. /\ next.phase = "read" /\ next.due = pass["sweep"].due /\ next.row = pass["sweep"].row
      /\ next.result = pass["sweep"].result
  BY <1>1 DEF PassRecords
<1> HIDE DEF next
<1>5. pass'["sweep"] = next /\ \A q \in Passes \ {"sweep"} : pass'[q] = pass[q]
  BY <1>1, <1>2, <1>3, PassMoves
<1>6. failures \subseteq failures'
  BY DEF Acquire, Fails
<1>7. pass["sweep"].due /\ pass["sweep"].row # srv => "stale" \in failures'
  BY DEF Acquire, Fails
<1>8. QED
  BY <1>4, <1>5, <1>6, <1>7 DEF Acquire, AcquireStep, device
-----------------------------------------------------------------------------
\* A pass with nothing computed.
LEMMA NothingKept ==
    ASSUME NEW p, pass'[p].result = Nothing
    PROVE  ResultInv(p)' /\ PatchSlots(p)' = {} /\ pass'[p].result.outcome.reason = "none"
<1>1. pass'[p].result.patches = <<>> /\ pass'[p].result.outcome = NoOutcome
  BY NothingTyped
<1>2. NoOutcome.reason = "none"
  BY DEF NoOutcome
<1>3. QED
  BY <1>1, <1>2, NoIndex DEF ResultInv, PatchSlots

LEMMA OtherKept ==
    ASSUME NEW p, pass'[p] = pass[p], ResultInv(p)
    PROVE  ResultInv(p)' /\ Keeps(p)
BY DEF ResultInv, Storing, Keeps, PatchSlots

LEMMA EndTime ==
    ASSUME Types, Types', TimeInv, NEW p \in Passes, EndStep(p)
    PROVE  TimeInv'
<1>1. Pushed' = Pushed
  BY DEF EndStep, Pushed
<1>2. SlotFrame
  BY <1>1, SlotsTyped DEF EndStep, SlotFrame, SameDay, Moved
<1>3. pass'[p].result = Nothing /\ ~pass'[p].due
  BY DEF EndStep, NoPass
<1>4. ResultInv(p)' /\ Keeps(p)
  BY <1>3, NothingKept DEF Keeps
<1>5. \A q \in Passes : ResultInv(q)' /\ Keeps(q)
  BY <1>4, OtherKept DEF TimeInv, EndStep
<1>6. ~LateMoves => DeviceDay'
  BY <1>2, DayKept DEF TimeInv, EndStep, SlotFrame
<1>7. QED
  BY <1>2, <1>5, <1>6, TimeStep DEF EndStep

LEMMA StartTime ==
    ASSUME Types, Types', TimeInv, StartStep
    PROVE  TimeInv'
<1>1. pushed <= pushed' /\ pushed \in Nat
  BY LenProperties DEF StartStep, Types, DeviceTypes, ServerTypes
<1>2. Moved => Moved'
  BY <1>1, MovedStays DEF StartStep
<1>3. SlotFrame
  BY <1>1, <1>2, SlotsTyped DEF StartStep, SlotFrame, SameDay
<1>4. ResultInv("sync")' /\ Keeps("sync")
  BY NothingKept DEF StartStep, Keeps
<1>5. \A q \in Passes : ResultInv(q)' /\ Keeps(q)
  BY <1>4, OtherKept DEF TimeInv, StartStep
<1>6. ~LateMoves => DeviceDay'
  BY <1>3, DayKept DEF TimeInv, StartStep, SlotFrame
<1>7. QED
  BY <1>3, <1>5, <1>6, TimeStep DEF StartStep

LEMMA LoadTime ==
    ASSUME Types, Types', TimeInv, LoadStep
    PROVE  TimeInv'
<1>0. now \in Nat /\ srv.slot \in Nat /\ "sweep" \in Passes
  BY SlotsTyped DEF Passes
<1>1. Pushed' = Pushed
  BY DEF LoadStep, Pushed
<1>2. SlotFrame
  BY <1>0, <1>1, SlotsTyped DEF LoadStep, SlotFrame, SameDay, Moved
<1>3. ResultInv("sweep")' /\ PatchSlots("sweep")' = {} /\ pass'["sweep"].result.outcome.reason = "none"
  BY NothingKept DEF LoadStep
<1>4. Due => now > srv.slot /\ Shut(now, srv.slot)
  <2>1. Due => now > srv.slot /\ (Day(now) > Day(srv.slot) \/ LastTick(now))
    BY DEF Due
  <2>2. now > srv.slot => Day(now) >= Day(srv.slot) /\ Day(now) \in Nat /\ Day(srv.slot) \in Nat
    BY <1>0, DayFacts
  <2> QED
    BY <2>1, <2>2 DEF Shut
<1>5. PassTime("sweep")'
  <2>1. OneSlot("sweep")'
    BY <1>3 DEF OneSlot, LoadStep
  <2>2. PassTimely("sweep")'
    BY <1>3, <1>4 DEF PassTimely, Timely, LoadStep
  <2>3. PassDay("sweep")'
    BY <1>3 DEF PassDay, SameDay, LoadStep
  <2> QED
    BY <2>1, <2>2, <2>3 DEF PassTime
<1>6. \A q \in Passes \ {"sweep"} : ResultInv(q)' /\ Keeps(q)
  BY OtherKept DEF TimeInv, LoadStep
<1>7. ~LateMoves => DeviceDay'
  BY <1>2, DayKept DEF TimeInv, LoadStep, SlotFrame
<1>8. QED
  BY <1>2, <1>3, <1>5, <1>6, <1>7, TimeStep DEF LoadStep

LEMMA AcquireTime ==
    ASSUME Types, Types', TimeInv, AcquireStep
    PROVE  TimeInv'
<1>0. "sweep" \in Passes
  BY DEF Passes
<1>1. Pushed' = Pushed
  BY DEF AcquireStep, Pushed
<1>2. SlotFrame
  BY <1>1, SlotsTyped DEF AcquireStep, SlotFrame, SameDay, Moved
<1>3. pass["sweep"].result = Nothing
  BY <1>0 DEF TimeInv, ResultInv, Storing, AcquireStep
<1>4. ResultInv("sweep")' /\ Keeps("sweep")
  BY <1>3, NothingKept DEF AcquireStep, Keeps
<1>5. \A q \in Passes : ResultInv(q)' /\ Keeps(q)
  BY <1>4, OtherKept DEF TimeInv, AcquireStep
<1>6. ~LateMoves => DeviceDay'
  BY <1>2, DayKept DEF TimeInv, AcquireStep, SlotFrame
<1>7. QED
  BY <1>2, <1>5, <1>6, TimeStep DEF AcquireStep
-----------------------------------------------------------------------------
(* The steps of a pass at work. *)

PassOnly(p) ==
    /\ UNCHANGED <<now, here, log, pushed, answer, lease, failures>>
    /\ pass'[p].due = pass[p].due
    /\ \A q \in Passes \ {p} : pass'[q] = pass[q]

ReadStep(p) ==
    /\ PassOnly(p) /\ UNCHANGED <<srv, tuples>>
    /\ pass[p].phase = "read" /\ pass'[p].row = Row(p)
    /\ pass'[p].phase = IF Writes(pass'[p].result) THEN "write" ELSE "patch"
    /\ \/ pass'[p].result = Nothing /\ ~pass[p].due
       \/ pass'[p].result = MapUser(Row(p), Pushed, tuples, now, Mode(p))

StoreStep(p) ==
    /\ PassOnly(p) /\ srv' = srv
    /\ pass[p].phase = "write" /\ pass'[p].phase = "gate"
    /\ pass'[p].row = pass[p].row /\ pass'[p].result = pass[p].result
    /\ tuples' = Stored(pass[p].result)

GateStep(p) ==
    /\ PassOnly(p) /\ UNCHANGED <<srv, tuples>>
    /\ pass[p].phase = "gate" /\ pass'[p].phase = "patch"
    /\ pass'[p].row = pass[p].row
    /\ pass'[p].result.outcome = pass[p].result.outcome
    /\ pass'[p].result.patches =
          IF StillStored(pass[p].result) THEN pass[p].result.patches ELSE <<>>

PatchStep(p) ==
    LET patches == pass[p].result.patches
        patch == Head(patches)
    IN /\ PassOnly(p) /\ tuples' = tuples
       /\ pass[p].phase = "patch" /\ pass'[p].phase = "patch" /\ patches # <<>>
       /\ srv' = IF Matches(p) THEN Patched(srv, patch) ELSE srv
       /\ pass'[p].row.slot = pass[p].row.slot
       /\ pass'[p].row.status = IF patch.status = "same" THEN pass[p].row.status ELSE patch.status
       /\ pass'[p].result.outcome = pass[p].result.outcome
       /\ pass'[p].result.patches = Tail(patches)

LEMMA ReadSteps == ASSUME Types, NEW p \in Passes, Read(p) PROVE ReadStep(p)
<1> DEFINE r == IF Candidate(p) THEN MapUser(Row(p), Pushed, tuples, now, Mode(p)) ELSE Nothing
           phase == IF Writes(r) THEN "write" ELSE "patch"
           next == [pass[p] EXCEPT !.phase = phase, !.row = Row(p), !.result = r]
<1>1. /\ pass' = [pass EXCEPT ![p] = next] /\ pass[p].phase = "read"
      /\ UNCHANGED <<now, here, log, srv, pushed, tuples, answer, lease, failures>>
  BY DEF Read, device
<1>2. r \in Results
  <2>1. Mode(p) \in {"daily", "instant"} /\ now \in Nat /\ tuples \in Tuples
    BY ConstantsAssumption DEF Mode, Types, ServerTypes
  <2> QED
    BY <2>1, RowTyped, PushedTyped, MapUserGains, NothingTyped
<1>3. phase \in Phases /\ Row(p) \in Placements /\ pass[p] \in PassRecords
  BY RowTyped DEF Phases, Types, PassTypes
<1>4. \/ r = Nothing /\ ~pass[p].due
      \/ r = MapUser(Row(p), Pushed, tuples, now, Mode(p))
  BY DEF Candidate
<1> HIDE DEF r
<1>5. phase = IF Writes(r) THEN "write" ELSE "patch"
  OBVIOUS
<1> HIDE DEF phase
<1>6. next \in PassRecords
  BY <1>2, <1>3 DEF PassRecords
<1>7. next.phase = phase /\ next.row = Row(p) /\ next.result = r /\ next.due = pass[p].due
  BY <1>3 DEF PassRecords
<1> HIDE DEF next
<1>8. pass'[p] = next /\ \A q \in Passes \ {p} : pass'[q] = pass[q]
  BY <1>1, <1>6, PassMoves
<1>9. PassOnly(p)
  BY <1>1, <1>7, <1>8 DEF PassOnly
<1>10. /\ pass'[p].phase = IF Writes(pass'[p].result) THEN "write" ELSE "patch"
       /\ pass'[p].row = Row(p)
  BY <1>5, <1>7, <1>8
<1>11. \/ pass'[p].result = Nothing /\ ~pass[p].due
       \/ pass'[p].result = MapUser(Row(p), Pushed, tuples, now, Mode(p))
  BY <1>4, <1>7, <1>8
<1>12. QED
  BY <1>1, <1>9, <1>10, <1>11 DEF ReadStep

LEMMA StoreSteps == ASSUME Types, NEW p \in Passes, WriteTuples(p) PROVE StoreStep(p)
<1> DEFINE next == [pass[p] EXCEPT !.phase = "gate"]
<1>1. /\ pass' = [pass EXCEPT ![p] = next] /\ pass[p].phase = "write"
      /\ tuples' = Stored(pass[p].result)
      /\ UNCHANGED <<now, here, log, srv, pushed, answer, lease, failures>>
  BY DEF WriteTuples, Step, device, Types, PassTypes
<1>2. pass[p] \in PassRecords
  BY DEF Types, PassTypes
<1>3. next \in PassRecords
  BY <1>2 DEF PassRecords, Phases
<1>4. /\ next.phase = "gate" /\ next.row = pass[p].row /\ next.result = pass[p].result
      /\ next.due = pass[p].due
  BY <1>2 DEF PassRecords
<1> HIDE DEF next
<1>5. pass'[p] = next /\ \A q \in Passes \ {p} : pass'[q] = pass[q]
  BY <1>1, <1>3, PassMoves
<1>6. QED
  BY <1>1, <1>4, <1>5 DEF StoreStep, PassOnly

LEMMA GateSteps == ASSUME Types, NEW p \in Passes, Gate(p) PROVE GateStep(p)
<1> DEFINE kept == IF StillStored(pass[p].result) THEN pass[p].result.patches ELSE <<>>
           result == [pass[p].result EXCEPT !.patches = kept]
           next == [pass[p] EXCEPT !.phase = "patch", !.result = result]
<1>1. pass[p] \in PassRecords /\ pass[p].result \in Results
      /\ pass[p].result.patches \in Seq(Patches) /\ <<>> \in Seq(Patches)
  BY EmptySeq DEF Types, PassTypes, PassRecords, Results
<1>2. /\ pass' = [pass EXCEPT ![p] = next] /\ pass[p].phase = "gate"
      /\ UNCHANGED <<now, here, log, srv, pushed, tuples, answer, lease, failures>>
  BY <1>1 DEF Gate, device, Types, PassTypes, PassRecords, Results
<1>3. kept \in Seq(Patches)
  BY <1>1
<1>4. kept = IF StillStored(pass[p].result) THEN pass[p].result.patches ELSE <<>>
  OBVIOUS
<1> HIDE DEF kept
<1>5. result \in Results /\ result.patches = kept /\ result.outcome = pass[p].result.outcome
  BY <1>1, <1>3 DEF Results
<1> HIDE DEF result
<1>6. /\ next \in PassRecords /\ next.phase = "patch" /\ next.row = pass[p].row
      /\ next.result = result /\ next.due = pass[p].due
  BY <1>1, <1>5 DEF PassRecords, Phases
<1> HIDE DEF next
<1>7. pass'[p] = next /\ \A q \in Passes \ {p} : pass'[q] = pass[q]
  BY <1>2, <1>6, PassMoves
<1>8. QED
  BY <1>2, <1>4, <1>5, <1>6, <1>7 DEF GateStep, PassOnly

LEMMA PatchSteps == ASSUME Types, NEW p \in Passes, PatchRec(p) PROVE PatchStep(p)
<1> DEFINE patches == pass[p].result.patches
           patch == Head(patches)
           rest == Tail(patches)
           status == IF patch.status = "same" THEN pass[p].row.status ELSE patch.status
           result == [pass[p].result EXCEPT !.patches = rest]
           row == [pass[p].row EXCEPT !.status = status]
           next == [pass[p] EXCEPT !.result = result, !.row = row]
<1>1. pass[p] \in PassRecords /\ pass[p].result \in Results /\ pass[p].row \in Placements
      /\ patches \in Seq(Patches)
  BY DEF Types, PassTypes, PassRecords, Results
<1>2. /\ pass' = [pass EXCEPT ![p] = next] /\ pass[p].phase = "patch" /\ patches # <<>>
      /\ UNCHANGED <<now, here, log, pushed, tuples, answer, lease, failures>>
      /\ srv' = IF Matches(p) THEN Patched(srv, patch) ELSE srv
  BY <1>1 DEF PatchRec, device, Types, PassTypes, PassRecords, Results, Placements
<1>3. patch \in Patches /\ rest \in Seq(Patches)
  BY <1>1, <1>2, HeadTailProperties
<1>4. status = IF patch.status = "same" THEN pass[p].row.status ELSE patch.status
  OBVIOUS
<1> HIDE DEF patch, rest
<1>5. status \in Statuses
  BY <1>1, <1>3 DEF Patches, Placements
<1> HIDE DEF status
<1>6. result \in Results /\ result.patches = rest /\ result.outcome = pass[p].result.outcome
  BY <1>1, <1>3 DEF Results
<1>7. row \in Placements /\ row.slot = pass[p].row.slot /\ row.status = status
  BY <1>1, <1>5 DEF Placements
<1> HIDE DEF result, row
<1>8. /\ next \in PassRecords /\ next.phase = pass[p].phase /\ next.row = row
      /\ next.result = result /\ next.due = pass[p].due
  BY <1>1, <1>6, <1>7 DEF PassRecords
<1> HIDE DEF next
<1>9. pass'[p] = next /\ \A q \in Passes \ {p} : pass'[q] = pass[q]
  BY <1>2, <1>8, PassMoves
<1>10. PassOnly(p)
  BY <1>2, <1>8, <1>9 DEF PassOnly
<1>11. QED
  BY <1>2, <1>4, <1>6, <1>7, <1>8, <1>9, <1>10 DEF PatchStep, patch, rest
-----------------------------------------------------------------------------
LEMMA PatchesLeft ==
    ASSUME NEW s \in Seq(Patches), s # <<>>
    PROVE  /\ 1 \in DOMAIN s /\ Head(s) = s[1] /\ Tail(s) \in Seq(Patches)
           /\ Len(s) \in Nat /\ Len(Tail(s)) = Len(s) - 1
           /\ \A i \in DOMAIN Tail(s) : i + 1 \in DOMAIN s /\ Tail(s)[i] = s[i + 1]
<1>1. DOMAIN s = 1..Len(s) /\ Len(s) \in Nat
  BY LenProperties
<1>2. /\ Tail(s) \in Seq(Patches) /\ Len(Tail(s)) = Len(s) - 1
      /\ \A i \in 1..Len(Tail(s)) : Tail(s)[i] = s[i + 1]
  BY HeadTailProperties
<1>3. Len(s) # 0
  BY EmptySeq
<1>4. DOMAIN Tail(s) = 1..Len(s) - 1
  BY <1>2, LenProperties
<1>5. Head(s) = s[1]
  OBVIOUS
<1>6. QED
  BY <1>1, <1>2, <1>3, <1>4, <1>5

\* The patches a pass has, and those it has left.
LEMMA PatchSteps2 ==
    ASSUME Types, NEW p \in Passes, PatchStep(p)
    PROVE  LET patches == pass[p].result.patches
           IN /\ patches \in Seq(Patches) /\ Head(patches) = patches[1] /\ Head(patches) \in Patches
              /\ 1 \in DOMAIN patches /\ Len(patches) \in Nat
              /\ Len(pass'[p].result.patches) = Len(patches) - 1
              /\ \A i \in DOMAIN pass'[p].result.patches :
                    i + 1 \in DOMAIN patches /\ pass'[p].result.patches[i] = patches[i + 1]
              /\ Head(patches).slot \in PatchSlots(p)
              /\ PatchSlots(p)' \subseteq PatchSlots(p)
              /\ srv'.slot = srv.slot \/ srv'.slot = Head(patches).slot
<1> DEFINE patches == pass[p].result.patches
           left == pass'[p].result.patches
<1>1. patches \in Seq(Patches) /\ patches # <<>> /\ left = Tail(patches)
  BY DEF PatchStep, Types, PassTypes, PassRecords, Results
<1>2. srv'.slot = srv.slot \/ srv'.slot = Head(patches).slot
  BY DEF PatchStep, Patched
<1> HIDE DEF patches, left
<1>3. /\ 1 \in DOMAIN patches /\ Head(patches) = patches[1] /\ Tail(patches) \in Seq(Patches)
      /\ Len(patches) \in Nat /\ Len(Tail(patches)) = Len(patches) - 1
      /\ \A i \in DOMAIN Tail(patches) : i + 1 \in DOMAIN patches /\ Tail(patches)[i] = patches[i + 1]
  BY <1>1, PatchesLeft
<1>4. Head(patches) \in Patches
  BY <1>1, HeadTailProperties
<1>5. \A i \in DOMAIN left : i + 1 \in DOMAIN patches /\ left[i] = patches[i + 1]
  BY <1>1, <1>3
<1>6. Head(patches).slot \in PatchSlots(p)
  BY <1>3 DEF PatchSlots, patches
<1>7. PatchSlots(p)' \subseteq PatchSlots(p)
  BY <1>5 DEF PatchSlots, patches, left
<1>8. QED
  BY <1>1, <1>2, <1>3, <1>4, <1>5, <1>6, <1>7 DEF patches, left

LEMMA StoreTime ==
    ASSUME Types, Types', TimeInv, NEW p \in Passes, StoreStep(p)
    PROVE  TimeInv'
<1>1. Pushed' = Pushed
  BY DEF StoreStep, PassOnly, Pushed
<1>2. SlotFrame
  BY <1>1, SlotsTyped DEF StoreStep, PassOnly, SlotFrame, SameDay, Moved
<1>3. ResultInv(p)' /\ Keeps(p)
  BY DEF StoreStep, PassOnly, ResultInv, Storing, Keeps, PatchSlots
<1>4. \A q \in Passes : ResultInv(q)' /\ Keeps(q)
  BY <1>3, OtherKept DEF TimeInv, StoreStep, PassOnly
<1>5. ~LateMoves => DeviceDay'
  BY <1>2, DayKept DEF TimeInv, StoreStep, PassOnly, SlotFrame
<1>6. \/ tuples'.outcome.reason = tuples.outcome.reason
      \/ tuples'.outcome.reason = pass[p].result.outcome.reason
  <2>1. /\ tuples.outcome \in Outcomes \cup {NoOutcome}
        /\ pass[p].result.outcome \in Outcomes \cup {NoOutcome}
    BY DEF Types, ServerTypes, Tuples, PassTypes, PassRecords, Results
  <2> DEFINE fixed == [tuples.outcome EXCEPT !.reason = pass[p].result.outcome.reason,
                                             !.corrected = TRUE]
  <2>2. tuples.outcome \in Outcomes => fixed.reason = pass[p].result.outcome.reason
    BY DEF Outcomes
  <2>3. \/ tuples'.outcome = tuples.outcome
        \/ tuples'.outcome = pass[p].result.outcome
        \/ tuples'.outcome = fixed /\ tuples.outcome # NoOutcome
    BY DEF StoreStep, Stored
  <2> HIDE DEF fixed
  <2> QED
    BY <2>1, <2>2, <2>3
<1>7. QED
  BY <1>2, <1>4, <1>5, <1>6, TimeStep

LEMMA GateTime ==
    ASSUME Types, Types', TimeInv, NEW p \in Passes, GateStep(p)
    PROVE  TimeInv'
<1>1. Pushed' = Pushed
  BY DEF GateStep, PassOnly, Pushed
<1>2. SlotFrame
  BY <1>1, SlotsTyped DEF GateStep, PassOnly, SlotFrame, SameDay, Moved
<1>3. PatchSlots(p)' \subseteq PatchSlots(p)
  BY NoIndex DEF GateStep, PatchSlots
<1>4. ResultInv(p)' /\ Keeps(p)
  BY <1>3 DEF GateStep, PassOnly, ResultInv, Storing, Keeps
<1>5. \A q \in Passes : ResultInv(q)' /\ Keeps(q)
  BY <1>4, OtherKept DEF TimeInv, GateStep, PassOnly
<1>6. ~LateMoves => DeviceDay'
  BY <1>2, DayKept DEF TimeInv, GateStep, PassOnly, SlotFrame
<1>7. QED
  BY <1>2, <1>5, <1>6, TimeStep DEF GateStep

LEMMA PatchTime ==
    ASSUME Types, Types', TimeInv, NEW p \in Passes, PatchStep(p)
    PROVE  TimeInv' /\ SlotFrame
<1>1. Pushed' = Pushed
  BY DEF PatchStep, PassOnly, Pushed
<1>2. /\ \E s \in PatchSlots(p) : srv'.slot = srv.slot \/ srv'.slot = s
      /\ PatchSlots(p)' \subseteq PatchSlots(p)
  BY PatchSteps2
<1>3. SlotFrame
  <2>1. srv'.slot = srv.slot \/ Moved
    BY <1>2 DEF TimeInv, OneSlot
  <2>2. ~LateMoves => SameDay(srv'.slot)
    BY <1>2 DEF TimeInv, PassDay, SameDay
  <2> QED
    BY <1>1, <2>1, <2>2, SlotsTyped DEF PatchStep, PassOnly, SlotFrame, Moved
<1>4. ResultInv(p)' /\ Keeps(p)
  BY <1>2 DEF PatchStep, PassOnly, ResultInv, Storing, Keeps
<1>5. \A q \in Passes : ResultInv(q)' /\ Keeps(q)
  BY <1>4, OtherKept DEF TimeInv, PatchStep, PassOnly
<1>6. ~LateMoves => DeviceDay'
  BY <1>3, DayKept DEF TimeInv, PatchStep, PassOnly, SlotFrame
<1>7. QED
  BY <1>3, <1>5, <1>6, TimeStep DEF PatchStep

\* The slots a pass reads and may write.
LEMMA ReadSlots ==
    ASSUME Types, TimeInv, NEW p \in Passes
    PROVE  LET row == Row(p)
               slot == SlotAfter(Pushed, row.slot)
           IN /\ row.slot \in Nat /\ slot \in Nat
              /\ ~Moved => row.slot = srv.slot /\ slot = srv.slot
              /\ ~LateMoves => SameDay(row.slot) /\ SameDay(slot) /\ (Moved => ~LastTick(slot))
<1> DEFINE row == Row(p)
           slot == SlotAfter(Pushed, row.slot)
<1>1. row.slot \in Nat /\ Pushed \in Seq(Facts)
  BY RowTyped, PushedTyped DEF Placements
<1>2. slot \in Nat
  BY <1>1, SlotTyped
<1>3. ~Moved => row.slot = srv.slot
  BY DEF Row, TimeInv, OneSlot
<1>4. ~LateMoves => SameDay(row.slot)
  BY DEF Row, TimeInv, PassDay, SameDay
<1> HIDE DEF row
<1>5. ~Moved => slot = row.slot
  BY DEF SlotAfter, Moves, Moved, Some
<1>6. ASSUME Moved, ~LateMoves PROVE SameDay(slot) /\ ~LastTick(slot)
  <2>1. PICK i \in Moves(Pushed) : slot = Pushed[i].to
    BY <1>1, <1>6, LatestMove DEF Moved
  <2>2. log \in Seq(Facts) /\ pushed \in 0..Len(log)
    BY DEF Types, DeviceTypes, ServerTypes
  <2>3. i \in DOMAIN log /\ Pushed[i] = log[i] /\ Pushed[i].kind = "move"
    BY <2>1, <2>2, Front DEF Moves, Pushed
  <2> QED
    BY <1>6, <2>1, <2>3 DEF TimeInv, DeviceDay, SameDay
<1>7. QED
  BY <1>1, <1>2, <1>3, <1>4, <1>5, <1>6 DEF row, SameDay

\* What a pass computes, field by field.
LEMMA ReadFields ==
    ASSUME Types, NEW p \in Passes, ReadStep(p)
    PROVE  Mapped(pass'[p].result, Row(p), Pushed, tuples, now, Mode(p))
<1>1. /\ Row(p) \in Placements /\ Pushed \in Seq(Facts) /\ tuples \in Tuples /\ now \in Nat
      /\ Mode(p) \in {"daily", "instant"}
  BY RowTyped, PushedTyped, ConstantsAssumption DEF Types, ServerTypes, Mode
<1> DEFINE row == Row(p)
           facts == Pushed
           mode == Mode(p)
           r == pass'[p].result
<1>2. r = Nothing \/ r = MapUser(row, facts, tuples, now, mode)
  BY DEF ReadStep
<1> HIDE DEF row, facts, mode, r
<1>3. CASE r = MapUser(row, facts, tuples, now, mode)
  BY <1>1, <1>3, MapFields DEF row, facts, mode, r
<1>4. CASE r = Nothing
  <2>1. Len(r.patches) = 0 /\ DOMAIN r.patches = {} /\ r.outcome = NoOutcome /\ ~r.correction
    BY <1>4, NothingTyped, NoIndex
  <2>2. NoOutcome.reason = "none"
    BY DEF NoOutcome
  <2> QED
    BY <1>4, <2>1, <2>2 DEF Mapped, MapSlots, MapMarks, MapOutcome, row, facts, mode, r
<1>5. QED
  BY <1>2, <1>3, <1>4

LEMMA ReadTime ==
    ASSUME Types, Types', TimeInv, NEW p \in Passes, ReadStep(p)
    PROVE  TimeInv'
<1> DEFINE row == Row(p)
           slot == SlotAfter(Pushed, row.slot)
           r == pass'[p].result
<1>1. Pushed' = Pushed
  BY DEF ReadStep, PassOnly, Pushed
<1>2. SlotFrame
  BY <1>1, SlotsTyped DEF ReadStep, PassOnly, SlotFrame, SameDay, Moved
<1>3. /\ row.slot \in Nat /\ slot \in Nat
      /\ ~Moved => row.slot = srv.slot /\ slot = srv.slot
      /\ ~LateMoves => SameDay(row.slot) /\ SameDay(slot)
  BY ReadSlots
<1>4. MapSlots(r, row, slot) /\ MapOutcome(r, row, Pushed, slot, tuples, now, Mode(p))
  BY ReadFields DEF Mapped
<1>5. pass'[p].due = pass[p].due /\ pass'[p].row = row /\ (pass[p].due => row = pass[p].row)
  BY DEF ReadStep, PassOnly, Row
<1> HIDE DEF row, slot, r
<1>6. PatchSlots(p)' \subseteq {row.slot} \/ PatchSlots(p)' \subseteq {slot}
  BY <1>4 DEF MapSlots, PatchSlots, r
<1>7. OneSlot(p)'
  BY <1>1, <1>3, <1>5, <1>6 DEF OneSlot, Moved, ReadStep
<1>8. ~LateMoves => PassDay(p)'
  BY <1>3, <1>5, <1>6 DEF PassDay, SameDay, ReadStep
<1>9. pass[p].due => now > row.slot /\ (~LateMoves => Shut(now, srv.slot))
  BY <1>5 DEF TimeInv, PassTimely
<1>10. /\ r.outcome.reason \in {"lapsed", "off_slot"} => pass[p].due
       /\ r.outcome.reason = "partial" =>
             /\ InWindow(Pushed, "part", slot) # {}
             /\ pass[p].due \/ now > slot \/ tuples.outcome.reason = "lapsed"
  BY <1>4 DEF MapOutcome, Mode
<1>11. InWindow(Pushed, "part", slot) # {} => pushed > 0
  <2>1. log \in Seq(Facts) /\ pushed \in 0..Len(log)
    BY DEF Types, DeviceTypes, ServerTypes
  <2>2. DOMAIN Pushed = 1..pushed /\ pushed \in Nat
    BY <2>1, Front DEF Pushed
  <2> QED
    BY <2>2 DEF InWindow
<1>12. Timely(r.outcome.reason)
  <2>1. r.outcome.reason \in {"lapsed", "off_slot", "partial"} => Moved \/ now > srv.slot
    BY <1>3, <1>9, <1>10 DEF TimeInv, Timely
  <2>2. ~LateMoves /\ r.outcome.reason \in {"lapsed", "off_slot"} => Shut(now, srv.slot)
    BY <1>9, <1>10
  <2> QED
    BY <1>10, <1>11, <2>1, <2>2 DEF Timely
<1>13. PassTimely(p)'
  BY <1>1, <1>5, <1>9, <1>12 DEF PassTimely, Timely, Moved, ReadStep, PassOnly, r
<1>14. ResultInv(p)'
  BY DEF ReadStep, ResultInv, Storing
<1>15. \A q \in Passes \ {p} : ResultInv(q)' /\ Keeps(q)
  BY OtherKept DEF TimeInv, ReadStep, PassOnly
<1>16. ~LateMoves => DeviceDay'
  BY <1>2, DayKept DEF TimeInv, ReadStep, PassOnly, SlotFrame
<1>17. PassTime(p)'
  BY <1>7, <1>8, <1>13 DEF PassTime
<1>18. QED
  BY <1>2, <1>14, <1>15, <1>16, <1>17, TimeStep DEF ReadStep
-----------------------------------------------------------------------------
(* One pass at work. *)

NoOverrun == "overrun" \notin failures

\* No other pass is at work.
LEMMA Sole ==
    ASSUME LeaseInv, NoOverrun, TimeInv, NEW p \in Passes, Active(p), NEW q \in Passes \ {p}
    PROVE  lease = p /\ ~Active(q) /\ ~Storing(q) /\ pass[q].result = Nothing
<1>1. lease = p /\ ~Active(q)
  BY DEF LeaseInv, NoOverrun
<1>2. ~Storing(q)
  BY <1>1 DEF Active, Storing
<1>3. QED
  BY <1>1, <1>2 DEF TimeInv, ResultInv

LEMMA QuietLease == ASSUME LeaseInv, QuietStep PROVE LeaseInv'
BY DEF LeaseInv, QuietStep, Active

LEMMA RowLease == ASSUME LeaseInv, RowStep PROVE LeaseInv'
BY DEF LeaseInv, RowStep, Active

LEMMA EndLease == ASSUME LeaseInv, Types, NEW p \in Passes, EndStep(p) PROVE LeaseInv'
<1> SUFFICES ASSUME "overrun" \notin failures', NEW q \in Passes
             PROVE  Active(q)' <=> lease' = q
  BY DEF LeaseInv
<1>1. Active(p) <=> lease = p
  BY DEF LeaseInv, EndStep
<1>2. Active(q) <=> lease = q
  BY DEF LeaseInv, EndStep
<1>3. ~Active(p)' /\ lease' # p
  <2>1. pass'[p].phase = "idle"
    BY DEF EndStep, NoPass
  <2>2. lease' # p
    BY <1>1 DEF EndStep, Released, Passes
  <2> QED
    BY <2>1, <2>2 DEF Active
<1>4. CASE q # p
  <2>1. pass'[q] = pass[q]
    BY <1>4 DEF EndStep
  <2>2. lease' = q <=> lease = q
    BY <1>4 DEF EndStep, Released, Passes
  <2> QED
    BY <1>2, <2>1, <2>2 DEF Active
<1>5. QED
  BY <1>3, <1>4

LEMMA BeginLease == ASSUME LeaseInv, StartStep \/ LoadStep \/ AcquireStep PROVE LeaseInv'
<1> SUFFICES ASSUME "overrun" \notin failures', NEW q \in Passes
             PROVE  Active(q)' <=> lease' = q
  BY DEF LeaseInv
<1>1. "overrun" \notin failures
  BY DEF StartStep, LoadStep, AcquireStep
<1>2. \A p \in Passes : Active(p) <=> lease = p
  BY <1>1 DEF LeaseInv
<1>3. CASE StartStep
  BY <1>2, <1>3 DEF StartStep, Active, Passes
<1>4. CASE LoadStep
  BY <1>2, <1>4 DEF LoadStep, NoPass, Active, Passes
<1>5. CASE AcquireStep
  BY <1>2, <1>5 DEF AcquireStep, Active, Passes
<1>6. QED
  BY <1>3, <1>4, <1>5

LEMMA WorkLease ==
    ASSUME LeaseInv, NEW p \in Passes,
           ReadStep(p) \/ StoreStep(p) \/ GateStep(p) \/ PatchStep(p)
    PROVE  LeaseInv' /\ Active(p) /\ failures' = failures
<1>1. PassOnly(p) /\ Active(p) /\ Active(p)'
  BY DEF ReadStep, StoreStep, GateStep, PatchStep, Active
<1>2. \A q \in Passes : Active(q)' <=> Active(q)
  BY <1>1 DEF PassOnly, Active
<1>3. QED
  BY <1>1, <1>2 DEF LeaseInv, PassOnly
-----------------------------------------------------------------------------
(* Displacement. *)

Displaced ==
    /\ srv.status = "displaced" => tuples.outcome = NoOutcome \/ tuples.outcome.excluded
    /\ srv.conflict => tuples.outcome.excluded

LEMMA SlotKept ==
    ASSUME Types, Types', NEW p \in Passes, SlotInv(p), Keeps(p), now <= now',
           srv'.slot = srv.slot
    PROVE  SlotInv(p)'
<1>1. now \in Nat /\ now' \in Nat /\ srv.slot \in Nat
  BY SlotsTyped, SlotsTypedNext
<1>2. \A s \in PatchSlots(p) : s \in Nat
  <2>1. pass[p].result.patches \in Seq(Patches)
    BY DEF Types, PassTypes, PassRecords, Results
  <2>2. \A i \in DOMAIN pass[p].result.patches : pass[p].result.patches[i] \in Patches
    BY <2>1, LenProperties, ElementOfSeq
  <2> QED
    BY <2>2 DEF PatchSlots, Patches
<1>3. QED
  BY <1>1, <1>2 DEF SlotInv, Keeps

\* The row's status changes under a pass that keeps what it has.
LEMMA PendingKept ==
    ASSUME NEW p \in Passes, PendingInv(p), pass'[p] = pass[p],
           tuples' = tuples \/ pass[p].result = Nothing,
           \/ srv'.status = srv.status
           \/ srv'.status \notin {"displaced_pending", "displaced"}
           \/ srv'.status = "displaced_pending" /\ ~pass[p].due
           \/ srv.status = "displaced_pending" /\ pass[p].phase # "write"
    PROVE  PendingInv(p)'
<1>1. CASE tuples' = tuples
  BY <1>1 DEF PendingInv
<1>2. CASE pass[p].result = Nothing
  <2>1. pass'[p].result.outcome = NoOutcome /\ DOMAIN pass'[p].result.patches = {}
    BY <1>2, NothingTyped, NoIndex
  <2> QED
    BY <2>1 DEF PendingInv
<1>3. QED
  BY <1>1, <1>2

LEMMA FreshInv ==
    ASSUME NEW p, pass'[p].result = Nothing,
           \/ ~pass'[p].due
           \/ /\ now' > srv'.slot
              /\ \/ pass'[p].row.status = "displaced_pending"
                 \/ /\ pass'[p].row.status \in Open
                    /\ srv'.status \notin {"displaced_pending", "displaced"}
    PROVE  SlotInv(p)' /\ PendingInv(p)'
<1>1. /\ pass'[p].result.outcome = NoOutcome /\ DOMAIN pass'[p].result.patches = {}
      /\ PatchSlots(p)' = {}
  BY NothingTyped, NoIndex, NothingKept
<1>2. QED
  BY <1>1 DEF SlotInv, PendingInv

LEMMA DisplacedParts ==
    /\ DisplacedInv <=> (~LateMoves /\ NoOverrun =>
                           Displaced /\ \A p \in Passes : SlotInv(p) /\ PendingInv(p))
BY DEF DisplacedInv, NoOverrun, Displaced

LEMMA QuietDisplaced ==
    ASSUME Types, Types', DisplacedInv, QuietStep
    PROVE  DisplacedInv'
<1> SUFFICES ASSUME ~LateMoves, NoOverrun'
             PROVE  Displaced' /\ \A p \in Passes : SlotInv(p)' /\ PendingInv(p)'
  BY DEF DisplacedInv, NoOverrun, Displaced
<1>1. NoOverrun
  BY DEF NoOverrun, QuietStep
<1>2. Displaced /\ \A p \in Passes : SlotInv(p) /\ PendingInv(p)
  BY <1>1, DisplacedParts
<1>3. \A p \in Passes : Keeps(p) /\ pass'[p] = pass[p]
  BY DEF QuietStep, Keeps, PatchSlots
<1>4. \A p \in Passes : SlotInv(p)'
  BY <1>2, <1>3, SlotKept DEF QuietStep
<1>5. \A p \in Passes : PendingInv(p)'
  BY <1>2, <1>3, PendingKept DEF QuietStep
<1>6. Displaced'
  BY <1>2 DEF Displaced, QuietStep
<1>7. QED
  BY <1>4, <1>5, <1>6

LEMMA RowDisplaced ==
    ASSUME Types, Types', DisplacedInv, RowStep
    PROVE  DisplacedInv'
<1> SUFFICES ASSUME ~LateMoves, NoOverrun'
             PROVE  Displaced' /\ \A p \in Passes : SlotInv(p)' /\ PendingInv(p)'
  BY DEF DisplacedInv, NoOverrun, Displaced
<1>1. NoOverrun
  BY DEF NoOverrun, RowStep
<1>2. Displaced /\ \A p \in Passes : SlotInv(p) /\ PendingInv(p)
  BY <1>1, DisplacedParts
<1>3. \A p \in Passes : Keeps(p) /\ pass'[p] = pass[p]
  BY DEF RowStep, Keeps, PatchSlots
<1>4. \A p \in Passes : SlotInv(p)'
  BY <1>2, <1>3, SlotKept, SlotsTyped DEF RowStep
<1>5. now <= srv.slot /\ now \in Nat /\ srv.slot \in Nat
  BY SlotsTyped DEF RowStep, Displaceable, Expirable
<1>6. \A p \in Passes : ~pass[p].due
  BY <1>2, <1>5 DEF SlotInv
<1>7. \A p \in Passes : PendingInv(p)'
  BY <1>2, <1>3, <1>6, PendingKept DEF RowStep
<1>8. Displaced'
  BY <1>2 DEF Displaced, RowStep
<1>9. QED
  BY <1>4, <1>7, <1>8

LEMMA EndDisplaced ==
    ASSUME Types, Types', DisplacedInv, NEW p \in Passes, EndStep(p)
    PROVE  DisplacedInv'
<1> SUFFICES ASSUME ~LateMoves, NoOverrun'
             PROVE  Displaced' /\ \A q \in Passes : SlotInv(q)' /\ PendingInv(q)'
  BY DEF DisplacedInv, NoOverrun, Displaced
<1>1. NoOverrun
  BY DEF NoOverrun, EndStep
<1>2. Displaced /\ \A q \in Passes : SlotInv(q) /\ PendingInv(q)
  BY <1>1, DisplacedParts
<1>3. SlotInv(p)' /\ PendingInv(p)'
  <2>1. pass'[p].result = Nothing /\ ~pass'[p].due
    BY DEF EndStep, NoPass
  <2> QED
    BY <2>1, FreshInv
<1>4. ASSUME NEW q \in Passes \ {p} PROVE SlotInv(q)' /\ PendingInv(q)'
  <2>1. pass'[q] = pass[q] /\ Keeps(q)
    BY DEF EndStep, Keeps, PatchSlots
  <2> QED
    BY <1>2, <2>1, SlotKept, PendingKept, SlotsTyped DEF EndStep
<1>5. Displaced'
  BY <1>2 DEF Displaced, EndStep
<1>6. QED
  BY <1>3, <1>4, <1>5

LEMMA BeginDisplaced ==
    ASSUME Types, Types', TimeInv, DisplacedInv, StartStep \/ LoadStep \/ AcquireStep
    PROVE  DisplacedInv'
<1> SUFFICES ASSUME ~LateMoves, NoOverrun'
             PROVE  Displaced' /\ \A q \in Passes : SlotInv(q)' /\ PendingInv(q)'
  BY DEF DisplacedInv, NoOverrun, Displaced
<1>1. NoOverrun
  BY DEF NoOverrun, StartStep, LoadStep, AcquireStep
<1>2. Displaced /\ \A q \in Passes : SlotInv(q) /\ PendingInv(q)
  BY <1>1, DisplacedParts
<1>3. PICK p \in Passes :
        /\ SlotInv(p)' /\ PendingInv(p)'
        /\ \A q \in Passes \ {p} : pass'[q] = pass[q]
  <2>0. "sync" \in Passes /\ "sweep" \in Passes
    BY DEF Passes
  <2>1. CASE StartStep
    BY <2>0, <2>1, FreshInv DEF StartStep
  <2>2. CASE LoadStep
    <3>1. Due => /\ now > srv.slot
                 /\ srv.status = "displaced_pending" \/ srv.status \in Open
      BY DEF Due
    <3>2. SlotInv("sweep")' /\ PendingInv("sweep")'
      BY <2>2, <3>1, FreshInv DEF LoadStep, Open
    <3> QED
      BY <2>0, <2>2, <3>2 DEF LoadStep
  <2>3. CASE AcquireStep
    <3>1. pass["sweep"].result = Nothing
      BY <2>0, <2>3 DEF TimeInv, ResultInv, Storing, AcquireStep
    <3>2. pass["sweep"].due => /\ now > srv.slot
                               /\ \/ pass["sweep"].row.status = "displaced_pending"
                                  \/ /\ pass["sweep"].row.status \in Open
                                     /\ srv.status \notin {"displaced_pending", "displaced"}
      BY <1>2, <2>0, <2>3 DEF SlotInv, PendingInv, AcquireStep
    <3>3. SlotInv("sweep")' /\ PendingInv("sweep")'
      BY <2>3, <3>1, <3>2, FreshInv DEF AcquireStep
    <3> QED
      BY <2>0, <2>3, <3>3 DEF AcquireStep
  <2> QED
    BY <2>1, <2>2, <2>3
<1>4. UNCHANGED <<now, srv, tuples>>
  BY DEF StartStep, LoadStep, AcquireStep
<1>5. ASSUME NEW q \in Passes \ {p} PROVE SlotInv(q)' /\ PendingInv(q)'
  <2>1. pass'[q] = pass[q] /\ Keeps(q)
    BY <1>3 DEF Keeps, PatchSlots
  <2> QED
    BY <1>2, <1>4, <2>1, SlotKept, PendingKept, SlotsTyped
<1>6. Displaced'
  BY <1>2, <1>4 DEF Displaced
<1>7. QED
  BY <1>3, <1>5, <1>6
-----------------------------------------------------------------------------
\* The other pass while one is at work.
LEMMA OtherIdle ==
    ASSUME Types, Types', TimeInv, LeaseInv, NoOverrun, NEW p \in Passes, PassOnly(p), Active(p),
           Displaced, \A q \in Passes : SlotInv(q) /\ PendingInv(q),
           srv' = srv, NEW q \in Passes \ {p}
    PROVE  SlotInv(q)' /\ PendingInv(q)'
<1>1. pass'[q] = pass[q] /\ pass[q].result = Nothing /\ Keeps(q) /\ now' = now
  BY Sole DEF PassOnly, Keeps, PatchSlots
<1>2. SlotInv(q)'
  BY <1>1, SlotKept, SlotsTyped
<1>3. PendingInv(q)'
  BY <1>1, PendingKept
<1>4. QED
  BY <1>2, <1>3

LEMMA ReadDisplaced ==
    ASSUME Types, Types', TimeInv, LeaseInv, DisplacedInv, NEW p \in Passes, ReadStep(p)
    PROVE  DisplacedInv'
<1> SUFFICES ASSUME ~LateMoves, NoOverrun'
             PROVE  Displaced' /\ \A q \in Passes : SlotInv(q)' /\ PendingInv(q)'
  BY DEF DisplacedInv, NoOverrun, Displaced
<1>0. /\ PassOnly(p) /\ Active(p) /\ NoOverrun /\ UNCHANGED <<srv, tuples, now>>
      /\ pass'[p].row = Row(p) /\ pass'[p].due = pass[p].due
  BY DEF NoOverrun, ReadStep, PassOnly, Active
<1>1. Displaced /\ \A q \in Passes : SlotInv(q) /\ PendingInv(q)
  BY <1>0, DisplacedParts
<1>2. \A q \in Passes \ {p} : SlotInv(q)' /\ PendingInv(q)'
  BY <1>0, <1>1, OtherIdle
<1> DEFINE row == Row(p)
           slot == SlotAfter(Pushed, row.slot)
           r == pass'[p].result
<1>3. /\ row.slot \in Nat /\ slot \in Nat
      /\ ~Moved => row.slot = srv.slot /\ slot = srv.slot
      /\ Moved => ~LastTick(slot)
  BY ReadSlots
<1>4. /\ MapSlots(r, row, slot) /\ MapMarks(r, row, tuples)
      /\ MapOutcome(r, row, Pushed, slot, tuples, now, Mode(p))
  BY ReadFields DEF Mapped
<1>5. /\ pass[p].due => row = pass[p].row /\ now > row.slot
      /\ ~pass[p].due => row = srv
  BY DEF Row, TimeInv, PassTimely
<1>6. r.outcome # NoOutcome => pass'[p].phase = "write"
  BY DEF ReadStep, Writes
<1>7. pass'[p].phase \in {"write", "patch"}
  BY DEF ReadStep
<1>8. PatchSlots(p)' \subseteq {row.slot} \/ PatchSlots(p)' \subseteq {slot}
  BY <1>4 DEF MapSlots, PatchSlots
<1>9. pass[p].phase = "read"
  BY DEF ReadStep
<1> HIDE DEF row, slot
<1>10. SlotInv(p)'
  <2>1. pass'[p].due => now' > srv'.slot
    BY <1>0, <1>1 DEF SlotInv
  <2>2. \A s, t \in PatchSlots(p)' : s = t
    BY <1>8
  <2>3. \A s \in PatchSlots(p)' : s = srv.slot \/ ~LastTick(s) \/ now > s
    BY <1>3, <1>5, <1>8
  <2> QED
    BY <1>0, <2>1, <2>2, <2>3 DEF SlotInv
<1>11. pass'[p].phase = "write" /\ srv'.status = "displaced" /\ ~pass'[p].result.correction =>
          pass'[p].result.outcome = NoOutcome \/ pass'[p].result.outcome.excluded
  <2> SUFFICES ASSUME srv.status = "displaced"
               PROVE  r.outcome = NoOutcome \/ r.outcome.excluded
    BY <1>0
  <2>1. CASE pass[p].due
    <3>1. row.status = "displaced_pending"
      BY <1>1, <1>5, <1>9, <2>1 DEF PendingInv
    <3> QED
      BY <1>4, <3>1 DEF MapOutcome
  <2>2. CASE ~pass[p].due
    <3>1. r = Nothing
      BY <1>4, <1>5, <2>2 DEF MapOutcome
    <3> QED
      BY <3>1, NothingTyped
  <2> QED
    BY <2>1, <2>2
<1>12. pass'[p].row = row
  BY <1>0 DEF row
<1> HIDE DEF r
<1>13. \A i \in DOMAIN r.patches :
          /\ r.patches[i].status # "displaced_pending"
          /\ r.patches[i].status = "displaced" =>
                /\ row.status = "displaced_pending" /\ Len(r.patches) = 1
                /\ tuples.outcome = NoOutcome /\ r.outcome = NoOutcome
          /\ r.patches[i].conflict =>
                IF pass'[p].phase = "write"
                THEN /\ tuples.outcome = NoOutcome /\ ~r.correction
                     /\ r.outcome # NoOutcome /\ r.outcome.excluded
                ELSE tuples.outcome.excluded
  BY <1>4, <1>6 DEF MapMarks
<1>14. PendingInv(p)'
  BY <1>0, <1>7, <1>11, <1>12, <1>13 DEF PendingInv, r
<1>15. Displaced'
  BY <1>0, <1>1 DEF Displaced
<1>16. QED
  BY <1>2, <1>10, <1>14, <1>15

LEMMA StoreDisplaced ==
    ASSUME Types, Types', TimeInv, LeaseInv, DisplacedInv, NEW p \in Passes, StoreStep(p)
    PROVE  DisplacedInv'
<1> SUFFICES ASSUME ~LateMoves, NoOverrun'
             PROVE  Displaced' /\ \A q \in Passes : SlotInv(q)' /\ PendingInv(q)'
  BY DEF DisplacedInv, NoOverrun, Displaced
<1>0. /\ PassOnly(p) /\ Active(p) /\ NoOverrun /\ UNCHANGED <<srv, now>>
      /\ pass[p].phase = "write" /\ pass'[p].phase = "gate"
      /\ pass'[p].row = pass[p].row /\ pass'[p].due = pass[p].due
      /\ pass'[p].result = pass[p].result
  BY DEF NoOverrun, StoreStep, PassOnly, Active
<1>1. Displaced /\ \A q \in Passes : SlotInv(q) /\ PendingInv(q)
  BY <1>0, DisplacedParts
<1>2. \A q \in Passes \ {p} : SlotInv(q)' /\ PendingInv(q)'
  BY <1>0, <1>1, OtherIdle
<1> DEFINE r == pass[p].result
           old == tuples.outcome
           new == tuples'.outcome
<1>3. /\ r.outcome = NoOutcome => new = old
      /\ r.outcome # NoOutcome /\ ~r.correction => new = IF old = NoOutcome THEN r.outcome ELSE old
      /\ r.outcome # NoOutcome /\ r.correction =>
            \/ new = old
            \/ new = [old EXCEPT !.reason = r.outcome.reason, !.corrected = TRUE]
  BY DEF StoreStep, Stored
<1>4. old \in Outcomes \cup {NoOutcome}
  BY DEF Types, ServerTypes, Tuples
<1>5. ~NoOutcome.excluded
  BY DEF NoOutcome
<1>6. old.excluded => new.excluded
  <2>1. old \in Outcomes =>
           [old EXCEPT !.reason = r.outcome.reason, !.corrected = TRUE].excluded = old.excluded
    BY DEF Outcomes
  <2> HIDE DEF r, old, new
  <2> QED
    BY <1>3, <1>4, <1>5, <2>1
<1>7. SlotInv(p)'
  <2>1. Keeps(p)
    BY <1>0 DEF Keeps, PatchSlots
  <2> QED
    BY <1>0, <1>1, <2>1, SlotKept, SlotsTyped
<1>8. \A i \in DOMAIN r.patches :
          /\ r.patches[i].status # "displaced_pending"
          /\ r.patches[i].status = "displaced" =>
                /\ pass[p].row.status = "displaced_pending" /\ Len(r.patches) = 1
                /\ old = NoOutcome /\ r.outcome = NoOutcome
          /\ r.patches[i].conflict =>
                /\ old = NoOutcome /\ ~r.correction
                /\ r.outcome # NoOutcome /\ r.outcome.excluded
  BY <1>0, <1>1 DEF PendingInv
<1>9. srv.status = "displaced" /\ ~r.correction => r.outcome = NoOutcome \/ r.outcome.excluded
  BY <1>0, <1>1 DEF PendingInv
<1>10. srv.status = "displaced" => new = NoOutcome \/ new.excluded
  <2> SUFFICES ASSUME srv.status = "displaced" PROVE new = NoOutcome \/ new.excluded
    OBVIOUS
  <2>1. old = NoOutcome \/ old.excluded
    BY <1>1 DEF Displaced
  <2>2. CASE old.excluded
    BY <1>6, <2>2
  <2>3. CASE old = NoOutcome /\ ~r.correction
    BY <1>3, <1>9, <2>3
  <2>4. CASE old = NoOutcome /\ r.correction
    <3>1. new = old
      BY <2>4 DEF StoreStep, Stored
    <3> QED
      BY <2>4, <3>1
  <2> QED
    BY <2>1, <2>2, <2>3, <2>4
<1>11. Displaced'
  BY <1>0, <1>1, <1>6, <1>10 DEF Displaced
<1> HIDE DEF r, old, new
<1>12. \A i \in DOMAIN r.patches :
          /\ r.patches[i].status # "displaced_pending"
          /\ r.patches[i].status = "displaced" =>
                /\ pass[p].row.status = "displaced_pending" /\ Len(r.patches) = 1
                /\ new = NoOutcome /\ r.outcome = NoOutcome
          /\ r.patches[i].conflict => new.excluded
  BY <1>3, <1>8
<1>13. PendingInv(p)'
  BY <1>0, <1>12 DEF PendingInv, r, new
<1>14. QED
  BY <1>2, <1>7, <1>11, <1>13

LEMMA GateDisplaced ==
    ASSUME Types, Types', TimeInv, LeaseInv, DisplacedInv, NEW p \in Passes, GateStep(p)
    PROVE  DisplacedInv'
<1> SUFFICES ASSUME ~LateMoves, NoOverrun'
             PROVE  Displaced' /\ \A q \in Passes : SlotInv(q)' /\ PendingInv(q)'
  BY DEF DisplacedInv, NoOverrun, Displaced
<1>0. /\ PassOnly(p) /\ Active(p) /\ NoOverrun /\ UNCHANGED <<srv, tuples, now>>
      /\ pass[p].phase = "gate" /\ pass'[p].phase = "patch"
      /\ pass'[p].row = pass[p].row /\ pass'[p].due = pass[p].due
      /\ pass'[p].result.outcome = pass[p].result.outcome
      /\ \/ pass'[p].result.patches = pass[p].result.patches
         \/ pass'[p].result.patches = <<>>
  BY DEF NoOverrun, GateStep, PassOnly, Active
<1>1. Displaced /\ \A q \in Passes : SlotInv(q) /\ PendingInv(q)
  BY <1>0, DisplacedParts
<1>2. \A q \in Passes \ {p} : SlotInv(q)' /\ PendingInv(q)'
  BY <1>0, <1>1, OtherIdle
<1>3. SlotInv(p)'
  <2>1. Keeps(p)
    BY <1>0, NoIndex DEF Keeps, PatchSlots
  <2> QED
    BY <1>0, <1>1, <2>1, SlotKept, SlotsTyped
<1>4. PendingInv(p)'
  <2>1. CASE pass'[p].result.patches = <<>>
    <3>1. DOMAIN pass'[p].result.patches = {}
      BY <2>1, NoIndex
    <3> QED
      BY <1>0, <3>1 DEF PendingInv
  <2>2. CASE pass'[p].result.patches = pass[p].result.patches
    BY <1>0, <1>1, <2>2 DEF PendingInv
  <2> QED
    BY <1>0, <2>1, <2>2
<1>5. Displaced'
  BY <1>0, <1>1 DEF Displaced
<1>6. QED
  BY <1>2, <1>3, <1>4, <1>5

LEMMA PatchDisplaced ==
    ASSUME Types, Types', TimeInv, LeaseInv, DisplacedInv, NEW p \in Passes, PatchStep(p)
    PROVE  DisplacedInv'
<1> SUFFICES ASSUME ~LateMoves, NoOverrun'
             PROVE  Displaced' /\ \A q \in Passes : SlotInv(q)' /\ PendingInv(q)'
  BY DEF DisplacedInv, NoOverrun, Displaced
<1> DEFINE patches == pass[p].result.patches
           patch == Head(patches)
           left == pass'[p].result.patches
<1>0. /\ PassOnly(p) /\ Active(p) /\ NoOverrun /\ UNCHANGED <<tuples, now>>
      /\ pass[p].phase = "patch" /\ pass'[p].phase = "patch"
      /\ pass'[p].due = pass[p].due
      /\ srv' = IF Matches(p) THEN Patched(srv, patch) ELSE srv
      /\ pass'[p].result.outcome = pass[p].result.outcome
  BY DEF NoOverrun, PatchStep, PassOnly, Active
<1>1. Displaced /\ \A q \in Passes : SlotInv(q) /\ PendingInv(q)
  BY <1>0, DisplacedParts
<1>2. /\ patches \in Seq(Patches) /\ patch = patches[1] /\ patch \in Patches
      /\ 1 \in DOMAIN patches /\ Len(patches) \in Nat /\ Len(left) = Len(patches) - 1
      /\ \A i \in DOMAIN left : i + 1 \in DOMAIN patches /\ left[i] = patches[i + 1]
      /\ patch.slot \in PatchSlots(p) /\ PatchSlots(p)' \subseteq PatchSlots(p)
  BY PatchSteps2
<1>3. \A q \in Passes \ {p} : pass'[q] = pass[q] /\ pass[q].result = Nothing /\ ~Active(q)
  BY <1>0, Sole DEF PassOnly
<1>4. /\ patch.status # "displaced_pending"
      /\ patch.status = "displaced" =>
            pass[p].row.status = "displaced_pending" /\ tuples.outcome = NoOutcome
      /\ patch.conflict => tuples.outcome.excluded
  BY <1>0, <1>1, <1>2 DEF PendingInv
<1>5. /\ srv'.slot = srv.slot \/ srv'.slot = patch.slot
      /\ srv'.status = srv.status \/ srv'.status = patch.status
      /\ srv'.conflict = srv.conflict \/ srv'.conflict = (srv.conflict \/ patch.conflict)
      /\ Matches(p) => srv'.slot = patch.slot
      /\ ~Matches(p) => srv' = srv
  BY <1>0 DEF Patched
<1>6. now \in Nat /\ srv.slot \in Nat /\ patch.slot \in Nat
  BY <1>2, SlotsTyped DEF Patches
<1>7. ASSUME NEW q \in Passes, pass[q].due PROVE now > srv'.slot
  <2>1. now > srv.slot /\ Shut(now, srv.slot)
    BY <1>1, <1>7 DEF SlotInv, TimeInv, PassTimely
  <2>2. SameDay(patch.slot)
    BY <1>2 DEF TimeInv, PassDay
  <2>3. patch.slot = srv.slot \/ ~LastTick(patch.slot) \/ now > patch.slot
    BY <1>1, <1>2 DEF SlotInv
  <2>4. ~LastTick(patch.slot) => now > patch.slot
    BY <1>6, <2>1, <2>2, ShutPast DEF SameDay
  <2> QED
    BY <1>5, <2>1, <2>3, <2>4
<1> HIDE DEF patch, left, patches
<1>8. SlotInv(p)'
  <2>1. \A s, t \in PatchSlots(p)' : s = t
    BY <1>1, <1>2 DEF SlotInv
  <2>2. \A s \in PatchSlots(p)' : s = srv'.slot \/ ~LastTick(s) \/ now > s
    BY <1>1, <1>2, <1>5 DEF SlotInv
  <2>3. pass'[p].due => now' > srv'.slot
    BY <1>0, <1>7
  <2> QED
    BY <1>0, <2>1, <2>2, <2>3 DEF SlotInv
<1>9. PendingInv(p)'
  <2>1. \A i \in DOMAIN left : left[i] = patches[i + 1] /\ i + 1 \in DOMAIN patches /\ Len(patches) # 1
    <3> SUFFICES ASSUME NEW i \in DOMAIN left PROVE Len(patches) # 1
      BY <1>2
    <3>1. left \in Seq(Patches)
      BY DEF Types, PassTypes, PassRecords, Results, left
    <3>2. DOMAIN left = 1..Len(left)
      BY <3>1, LenProperties
    <3> QED
      BY <1>2, <3>2
  <2>2. \A k \in DOMAIN patches :
          /\ patches[k].status # "displaced_pending"
          /\ patches[k].status = "displaced" => Len(patches) = 1
          /\ patches[k].conflict => tuples.outcome.excluded
    BY <1>0, <1>1 DEF PendingInv, patches
  <2>3. \A i \in DOMAIN left :
          /\ left[i].status \notin {"displaced_pending", "displaced"}
          /\ left[i].conflict => tuples.outcome.excluded
    BY <2>1, <2>2
  <2> QED
    BY <1>0, <2>3 DEF PendingInv, left
<1>10. ASSUME NEW q \in Passes \ {p} PROVE SlotInv(q)' /\ PendingInv(q)'
  <2>1. /\ pass'[q] = pass[q] /\ pass'[q].result = Nothing /\ pass[q].phase # "read"
        /\ now' = now
    BY <1>0, <1>3 DEF Active
  <2>2. pass[q].due /\ pass[q].phase = "due" =>
          \/ pass[q].row.status = "displaced_pending"
          \/ /\ pass[q].row.status \in Open
             /\ srv'.status \notin {"displaced_pending", "displaced"}
    <3>1. pass[q].due /\ pass[q].phase = "due" =>
            \/ pass[q].row.status = "displaced_pending"
            \/ /\ pass[q].row.status \in Open
               /\ srv.status \notin {"displaced_pending", "displaced"}
      BY <1>1 DEF PendingInv
    <3>2. srv.status \notin {"displaced_pending", "displaced"} =>
            srv'.status \notin {"displaced_pending", "displaced"}
      BY <1>4, <1>5 DEF Matches
    <3> QED
      BY <3>1, <3>2
  <2>3. /\ pass'[q].result.outcome = NoOutcome /\ DOMAIN pass'[q].result.patches = {}
        /\ PatchSlots(q)' = {}
    BY <2>1, NothingTyped, NoIndex, NothingKept
  <2>4. SlotInv(q)'
    BY <1>7, <2>1, <2>3 DEF SlotInv
  <2>5. PendingInv(q)'
    BY <2>1, <2>2, <2>3 DEF PendingInv
  <2> QED
    BY <2>4, <2>5
<1>11. Displaced'
  <2>1. srv'.status = "displaced" => tuples.outcome = NoOutcome \/ tuples.outcome.excluded
    BY <1>1, <1>4, <1>5 DEF Displaced
  <2>2. srv'.conflict => srv.conflict \/ patch.conflict
    BY <1>5
  <2>3. srv'.conflict => tuples.outcome.excluded
    BY <1>1, <1>4, <2>2 DEF Displaced
  <2> QED
    BY <1>0, <2>1, <2>3 DEF Displaced
<1>12. QED
  BY <1>8, <1>9, <1>10, <1>11
-----------------------------------------------------------------------------
(* Calm: what the patches that are left lead to. *)

\* The outcome after writeTuples.
After(r, stored) ==
    IF r.outcome = NoOutcome THEN stored
    ELSE IF ~r.correction THEN IF stored = NoOutcome THEN r.outcome ELSE stored
    ELSE IF stored # NoOutcome /\ ~stored.corrected
         THEN [stored EXCEPT !.reason = r.outcome.reason, !.corrected = TRUE]
         ELSE stored

LEMMA StoredAfter == \A r : Stored(r).outcome = After(r, tuples.outcome)
BY DEF Stored, After

LEMMA FinalCases ==
    ASSUME NEW row, NEW ps
    PROVE  /\ Len(ps) = 0 => Final(row, ps) = row
           /\ Len(ps) = 1 => Final(row, ps) = Patched(row, ps[1])
           /\ Len(ps) = 2 => Final(row, ps) = Patched(Patched(row, ps[1]), ps[2])
BY DEF Final

LEMMA FinalNone == \A row : Final(row, <<>>) = row
BY NoIndex, FinalCases

\* The patches that are left, after the first.
LEMMA FinalFirst ==
    ASSUME NEW row, NEW ps \in Seq(Patches), Len(ps) \in {1, 2}
    PROVE  Final(row, ps) = Final(Patched(row, ps[1]), Tail(ps))
<1> DEFINE left == Tail(ps)
           next == Patched(row, ps[1])
<1>1. ps # <<>>
  BY NoIndex
<1>2. /\ Len(left) = Len(ps) - 1
      /\ \A i \in 1..Len(left) : left[i] = ps[i + 1]
  BY <1>1, HeadTailProperties
<1> HIDE DEF left
<1>3. Len(ps) = 1 => Len(left) = 0
  BY <1>2
<1>4. Len(ps) = 2 => Len(left) = 1 /\ left[1] = ps[2]
  BY <1>2
<1>5. CASE Len(ps) = 1
  <2>1. Final(row, ps) = next
    BY <1>5, FinalCases
  <2> HIDE DEF next
  <2>2. Final(next, left) = next
    BY <1>3, <1>5, FinalCases
  <2> QED
    BY <2>1, <2>2 DEF left, next
<1>6. CASE Len(ps) = 2
  <2>1. Final(row, ps) = Patched(next, ps[2])
    BY <1>6, FinalCases
  <2> HIDE DEF next
  <2>2. Final(next, left) = Patched(next, left[1])
    BY <1>4, <1>6, FinalCases
  <2>3. left[1] = ps[2]
    BY <1>4, <1>6
  <2> QED
    BY <2>1, <2>2, <2>3 DEF left, next
<1>7. QED
  BY <1>5, <1>6

LEMMA FinalMoved ==
    ASSUME NEW row, NEW a \in Patches, NEW ps \in Seq(Patches), Len(ps) \in {0, 1}
    PROVE  /\ Final(row, <<a>> \o ps) = Final(Patched(row, a), ps)
           /\ Len(<<a>> \o ps) <= 2
<1> DEFINE qs == <<a>> \o ps
           next == Patched(row, a)
<1>1. Len(qs) = Len(ps) + 1 /\ qs[1] = a /\ (Len(ps) = 1 => qs[2] = ps[1])
  BY Prepended
<1> HIDE DEF qs
<1>2. CASE Len(ps) = 0
  <2>1. Len(qs) = 1
    BY <1>1, <1>2
  <2>2. Final(row, qs) = next
    BY <1>1, <2>1, FinalCases
  <2> HIDE DEF next
  <2>3. Final(next, ps) = next
    BY <1>2, FinalCases
  <2> QED
    BY <2>1, <2>2, <2>3 DEF qs, next
<1>3. CASE Len(ps) = 1
  <2>1. Len(qs) = 2
    BY <1>1, <1>3
  <2>2. Final(row, qs) = Patched(next, qs[2])
    BY <1>1, <2>1, FinalCases
  <2> HIDE DEF next
  <2>3. Final(next, ps) = Patched(next, ps[1])
    BY <1>3, FinalCases
  <2> QED
    BY <1>1, <1>3, <2>1, <2>2, <2>3 DEF qs, next
<1>4. QED
  BY <1>2, <1>3

LEMMA FinalOne ==
    ASSUME NEW row, NEW patch
    PROVE  /\ patch.status = "same" => Final(row, <<patch>>).status = row.status
           /\ patch.status # "same" => Final(row, <<patch>>).status = patch.status
           /\ Final(row, <<patch>>).attributed <=> row.attributed \/ patch.attributed
<1> DEFINE end == Patched(row, patch)
<1>1. Final(row, <<patch>>) = end
  BY OneIndex, FinalCases
<1>2. end.status = IF patch.status = "same" THEN row.status ELSE patch.status
  BY DEF Patched
<1>3. end.attributed <=> row.attributed \/ patch.attributed
  BY DEF Patched
<1> HIDE DEF end
<1>4. QED
  BY <1>1, <1>2, <1>3

\* The outcome that is stored after a first outcome or a correction, and the row it leads to.
LEMMA FreshEnds ==
    ASSUME NEW reason \in Reasons, NEW slot \in Nat, NEW t \in Nat
    PROVE  /\ After(Fresh(reason, slot, t), NoOutcome).reason = reason
           /\ ~After(Fresh(reason, slot, t), NoOutcome).corrected
           /\ After(Fresh(reason, slot, t), NoOutcome) # NoOutcome
<1>1. Fresh(reason, slot, t).outcome.reason = reason
  BY FreshFields
<1>2. ~Fresh(reason, slot, t).outcome.corrected
  BY FreshFields
<1>3. ~Fresh(reason, slot, t).correction
  BY FreshFields
<1>4. Fresh(reason, slot, t).outcome # NoOutcome
  BY <1>1 DEF NoOutcome, Reasons
<1>5. After(Fresh(reason, slot, t), NoOutcome) = Fresh(reason, slot, t).outcome
  BY <1>3, <1>4 DEF After
<1>6. QED
  BY <1>1, <1>2, <1>4, <1>5

LEMMA FreshRow ==
    ASSUME NEW row, NEW reason \in Reasons, NEW slot \in Nat, NEW t \in Nat
    PROVE  /\ Final(row, Fresh(reason, slot, t).patches).status =
                 IF reason = "partial" THEN row.status ELSE StatusFor[reason]
           /\ Final(row, Fresh(reason, slot, t).patches).attributed
<1> DEFINE patch == Patch(StatusFor[reason], slot, TRUE, FALSE)
           end == Final(row, <<patch>>)
<1>1. Fresh(reason, slot, t).patches = <<patch>>
  BY FreshFields
<1>2. patch.status = StatusFor[reason] /\ patch.attributed = TRUE
  BY DEF Patch
<1> HIDE DEF patch
<1>3. /\ patch.status = "same" => end.status = row.status
      /\ patch.status # "same" => end.status = patch.status
      /\ end.attributed <=> row.attributed \/ patch.attributed
  BY FinalOne
<1>4. StatusFor[reason] = "same" <=> reason = "partial"
  BY StatusForTyped
<1> HIDE DEF end
<1>5. end.status = IF reason = "partial" THEN row.status ELSE StatusFor[reason]
  BY <1>2, <1>3, <1>4
<1>6. end.attributed
  BY <1>2, <1>3
<1>7. QED
  BY <1>1, <1>5, <1>6 DEF end

LEMMA CorrectedEnds ==
    ASSUME NEW reason \in Reasons, NEW slot \in Nat, NEW stored \in Outcomes, ~stored.corrected
    PROVE  /\ After(Corrected(reason, slot, stored), stored).reason = reason
           /\ After(Corrected(reason, slot, stored), stored).corrected
           /\ After(Corrected(reason, slot, stored), stored) # NoOutcome
<1> DEFINE fixed == [stored EXCEPT !.reason = reason, !.corrected = TRUE]
<1>1. Corrected(reason, slot, stored).outcome.reason = reason
  BY CorrectedFields
<1>2. Corrected(reason, slot, stored).correction
  BY CorrectedFields
<1>3. Corrected(reason, slot, stored).outcome # NoOutcome
  BY <1>1 DEF NoOutcome, Reasons
<1>4. stored # NoOutcome
  BY DEF NoOutcome, Outcomes, Reasons
<1>5. After(Corrected(reason, slot, stored), stored) = fixed
  BY <1>1, <1>2, <1>3, <1>4 DEF After
<1>6. fixed.reason = reason /\ fixed.corrected
  BY DEF Outcomes
<1>7. fixed # NoOutcome
  BY <1>6 DEF NoOutcome, Reasons
<1> HIDE DEF fixed
<1>8. QED
  BY <1>5, <1>6, <1>7

LEMMA CorrectedRow ==
    ASSUME NEW row, NEW reason \in Reasons, NEW slot \in Nat, NEW stored \in Outcomes
    PROVE  /\ Final(row, Corrected(reason, slot, stored).patches).status =
                 IF reason = "partial" THEN row.status ELSE StatusFor[reason]
           /\ Final(row, Corrected(reason, slot, stored).patches).attributed <=> row.attributed
<1> DEFINE patch == Patch(StatusFor[reason], slot, FALSE, FALSE)
           end == Final(row, <<patch>>)
<1>1. Corrected(reason, slot, stored).patches = <<patch>>
  BY CorrectedFields
<1>2. patch.status = StatusFor[reason] /\ patch.attributed = FALSE
  BY DEF Patch
<1> HIDE DEF patch
<1>3. /\ patch.status = "same" => end.status = row.status
      /\ patch.status # "same" => end.status = patch.status
      /\ end.attributed <=> row.attributed \/ patch.attributed
  BY FinalOne
<1>4. StatusFor[reason] = "same" <=> reason = "partial"
  BY StatusForTyped
<1> HIDE DEF end
<1>5. end.status = IF reason = "partial" THEN row.status ELSE StatusFor[reason]
  BY <1>2, <1>3, <1>4
<1>6. end.attributed <=> row.attributed
  BY <1>2, <1>3
<1>7. QED
  BY <1>1, <1>5, <1>6 DEF end

\* The row a first outcome or a correction leads to says what the outcome says.
LEMMA FreshSays ==
    ASSUME NEW facts, NEW row \in Placements, NEW reason \in Reasons, NEW slot \in Nat, NEW t \in Nat,
           Says(facts, row, NoOutcome), row.status \notin {"displaced", "expired", "displaced_pending"}
    PROVE  /\ Says(facts, Final(row, Fresh(reason, slot, t).patches),
                   After(Fresh(reason, slot, t), NoOutcome))
           /\ Final(row, Fresh(reason, slot, t).patches).attributed
<1> DEFINE end == Final(row, Fresh(reason, slot, t).patches)
           outcome == After(Fresh(reason, slot, t), NoOutcome)
<1>1. outcome.reason = reason /\ ~outcome.corrected /\ outcome # NoOutcome
  BY FreshEnds
<1>2. end.status = IF reason = "partial" THEN row.status ELSE StatusFor[reason]
  BY FreshRow
<1>3. end.attributed
  BY FreshRow
<1>4. row.status = "shown" \/ (row.status = "moved" /\ Some(facts, "move"))
  BY DEF Says, Placements, Statuses, Open
<1> HIDE DEF end, outcome
<1>5. Says(facts, end, outcome)
  BY <1>1, <1>2, <1>3, <1>4 DEF Says
<1>6. QED
  BY <1>3, <1>5 DEF end, outcome

LEMMA CorrectedSays ==
    ASSUME NEW facts, NEW row \in Placements, NEW reason \in {"completed", "partial"}, NEW slot \in Nat,
           NEW stored \in Outcomes, ~stored.corrected, reason = "partial" => stored.reason = "lapsed",
           Says(facts, row, stored), row.status \notin {"displaced", "expired", "displaced_pending"}
    PROVE  /\ Says(facts, Final(row, Corrected(reason, slot, stored).patches),
                   After(Corrected(reason, slot, stored), stored))
           /\ Final(row, Corrected(reason, slot, stored).patches).attributed
<1> DEFINE end == Final(row, Corrected(reason, slot, stored).patches)
           outcome == After(Corrected(reason, slot, stored), stored)
<1>0. reason \in Reasons /\ stored # NoOutcome
  BY DEF Reasons, Outcomes, NoOutcome
<1>1. outcome.reason = reason /\ outcome.corrected /\ outcome # NoOutcome
  BY <1>0, CorrectedEnds
<1>2. end.status = IF reason = "partial" THEN row.status ELSE StatusFor[reason]
  BY <1>0, CorrectedRow
<1>3. end.attributed <=> row.attributed
  BY <1>0, CorrectedRow
<1>4. StatusFor["lapsed"] = "lapsed"
  BY DEF StatusFor, Reasons
<1>5. row.attributed
  BY <1>0 DEF Says
<1>6. reason = "partial" => row.status = "lapsed" \/ (Some(facts, "move") /\ row.status = "moved")
  BY <1>0, <1>4 DEF Says
<1> HIDE DEF end, outcome
<1>7. Says(facts, end, outcome)
  BY <1>1, <1>2, <1>3, <1>5, <1>6 DEF Says
<1>8. QED
  BY <1>3, <1>5, <1>7 DEF end, outcome

\* mapUser after the moves leads a row that says what is stored to one that says what is
\* stored then; in the daily mode the row ends attributed.
Ends(facts, row, r, stored, mode) ==
    /\ Says(facts, Final(row, r.patches), After(r, stored))
    /\ mode = "daily" => Final(row, r.patches).attributed

LEMMA SettleSays ==
    ASSUME NEW row \in Placements, NEW facts, NEW slot \in Nat, NEW stored \in Outcomes \cup {NoOutcome},
           NEW t \in Nat, NEW mode \in {"daily", "instant"},
           Says(facts, row, stored), row.status \notin {"displaced", "expired", "displaced_pending"}
    PROVE  Ends(facts, row, Settle(facts, slot, stored, t, mode), stored, mode)
<1> DEFINE r == Settle(facts, slot, stored, t, mode)
<1>1. SettledAs(r, facts, slot, stored, t, mode)
  BY SettleShape
<1> HIDE DEF r
<1>2. CASE r = Nothing /\ (stored = NoOutcome => mode # "daily")
  <2>1. r.patches = <<>> /\ r.outcome = NoOutcome
    BY <1>2, NothingTyped
  <2>2. Final(row, r.patches) = row /\ After(r, stored) = stored
    BY <2>1, FinalNone DEF After
  <2>4. stored # NoOutcome => row.attributed
    BY DEF Says
  <2> QED
    BY <1>2, <2>2, <2>4 DEF Ends, r
<1>3. CASE stored = NoOutcome /\ \E reason \in Reasons : r = Fresh(reason, slot, t)
  <2>1. PICK reason \in Reasons : r = Fresh(reason, slot, t)
    BY <1>3
  <2> QED
    BY <1>3, <2>1, FreshSays DEF Ends, r
<1>4. CASE Upgradable(stored, t) /\ \E reason \in {"completed", "partial"} :
             /\ r = Corrected(reason, slot, stored)
             /\ reason = "partial" => stored.reason = "lapsed"
  <2>1. PICK reason \in {"completed", "partial"} :
             /\ r = Corrected(reason, slot, stored)
             /\ reason = "partial" => stored.reason = "lapsed"
    BY <1>4
  <2>2. stored \in Outcomes /\ ~stored.corrected
    BY <1>4 DEF Upgradable, NoOutcome
  <2>3. /\ Says(facts, Final(row, Corrected(reason, slot, stored).patches),
                After(Corrected(reason, slot, stored), stored))
        /\ Final(row, Corrected(reason, slot, stored).patches).attributed
    BY <2>1, <2>2, CorrectedSays
  <2> QED
    BY <2>1, <2>3 DEF Ends, r
<1>5. QED
  BY <1>1, <1>2, <1>3, <1>4 DEF SettledAs

\* The same of the whole of mapUser.
MapEnds(facts, row, r, stored, mode) ==
    /\ Says(facts, Final(row, r.patches), After(r, stored))
    /\ mode = "daily" /\ row.status \notin {"displaced", "expired"} => Final(row, r.patches).attributed

LEMMA RacedSays ==
    ASSUME NEW facts, NEW row \in Placements, NEW t \in Nat,
           Says(facts, row, NoOutcome), row.status = "displaced_pending"
    PROVE  /\ \A mode : MapEnds(facts, row, RacedDone(row.slot, t), NoOutcome, mode)
           /\ \A mode : MapEnds(facts, row, RacedGone(row.slot), NoOutcome, mode)
<1>0. row.slot \in Nat
  BY DEF Placements
<1>1. \A mode : MapEnds(facts, row, RacedDone(row.slot, t), NoOutcome, mode)
  <2> DEFINE r == RacedDone(row.slot, t)
             patch == Patch("completed", row.slot, TRUE, TRUE)
             end == Final(row, <<patch>>)
             outcome == After(r, NoOutcome)
  <2>1. r.outcome.reason = "completed"
    BY <1>0, RacedFields
  <2>2. ~r.correction
    BY <1>0, RacedFields
  <2>3. r.patches = <<patch>>
    BY <1>0, RacedFields
  <2> HIDE DEF r
  <2>4. r.outcome # NoOutcome
    BY <2>1 DEF NoOutcome
  <2>5. outcome = r.outcome
    BY <2>2, <2>4 DEF After
  <2>6. patch.status = "completed" /\ patch.attributed = TRUE
    BY DEF Patch
  <2> HIDE DEF patch
  <2>7. end.status = "completed" /\ end.attributed
    BY <2>6, FinalOne
  <2>8. StatusFor["completed"] = "completed"
    BY DEF StatusFor, Reasons
  <2> HIDE DEF end, outcome
  <2>9. Says(facts, end, outcome)
    BY <2>1, <2>4, <2>5, <2>7, <2>8 DEF Says
  <2> QED
    BY <2>3, <2>7, <2>9 DEF MapEnds, end, outcome, r
<1>2. \A mode : MapEnds(facts, row, RacedGone(row.slot), NoOutcome, mode)
  <2> DEFINE r == RacedGone(row.slot)
             patch == Patch("displaced", row.slot, TRUE, FALSE)
             end == Final(row, <<patch>>)
             outcome == After(r, NoOutcome)
  <2>1. r.outcome = NoOutcome
    BY <1>0, RacedFields
  <2>3. r.patches = <<patch>>
    BY <1>0, RacedFields
  <2> HIDE DEF r
  <2>5. outcome = NoOutcome
    BY <2>1 DEF After
  <2>6. patch.status = "displaced" /\ patch.attributed = TRUE
    BY DEF Patch
  <2> HIDE DEF patch
  <2>7. end.status = "displaced" /\ end.attributed
    BY <2>6, FinalOne
  <2> HIDE DEF end, outcome
  <2>9. Says(facts, end, outcome)
    BY <2>5, <2>7 DEF Says
  <2> QED
    BY <2>3, <2>7, <2>9 DEF MapEnds, end, outcome, r
<1>3. QED
  BY <1>1, <1>2

\* A move that is written keeps what the row says.
LEMMA MovedSays ==
    ASSUME NEW facts, NEW row \in Placements, NEW slot \in Nat, NEW stored \in Outcomes \cup {NoOutcome},
           Says(facts, row, stored), Some(facts, "move"),
           row.status \notin {"displaced", "expired", "displaced_pending"}
    PROVE  LET next == Patched(row, Patch("moved", slot, FALSE, FALSE))
           IN next \in Placements /\ next.status = "moved" /\ Says(facts, next, stored)
<1> DEFINE patch == Patch("moved", slot, FALSE, FALSE)
           next == Patched(row, patch)
<1>1. patch.status = "moved" /\ patch.slot = slot /\ patch.attributed = FALSE /\ patch.conflict = FALSE
  BY DEF Patch
<1> HIDE DEF patch
<1>2. row.attributed \in BOOLEAN /\ row.conflict \in BOOLEAN /\ "moved" \in Statuses
  BY DEF Placements, Statuses, Open
<1>3. /\ (row.attributed \/ patch.attributed) = row.attributed
      /\ (row.conflict \/ patch.conflict) = row.conflict
  BY <1>1, <1>2
<1>4. next = [status |-> "moved", slot |-> slot, attributed |-> row.attributed, conflict |-> row.conflict]
  BY <1>1, <1>3 DEF Patched
<1>5. next \in Placements /\ next.status = "moved" /\ next.attributed = row.attributed
  BY <1>2, <1>4 DEF Placements
<1> HIDE DEF next
<1>6. Says(facts, next, stored)
  BY <1>5 DEF Says
<1>7. QED
  BY <1>5, <1>6 DEF next, patch

LEMMA MapSays ==
    ASSUME Types, NEW row \in Placements, NEW mode \in {"daily", "instant"},
           Says(Pushed, row, tuples.outcome)
    PROVE  MapEnds(Pushed, row, MapUser(row, Pushed, tuples, now, mode), tuples.outcome, mode)
<1> DEFINE stored == tuples.outcome
           slot == SlotAfter(Pushed, row.slot)
           rest == Settle(Pushed, slot, stored, now, mode)
           r == MapUser(row, Pushed, tuples, now, mode)
<1>0. /\ row.slot \in Nat /\ slot \in Nat /\ now \in Nat /\ stored \in Outcomes \cup {NoOutcome}
      /\ tuples \in Tuples /\ Pushed \in Seq(Facts)
  BY SlotTyped, PushedTyped, ConstantsAssumption DEF Placements, Types, ServerTypes, Tuples
<1>1. MappedAs(r, row, Pushed, tuples, now, mode)
  BY MapShape
<1>2. rest \in Results /\ Len(rest.patches) \in {0, 1}
  BY <1>0, SettledFields DEF Wants
<1> HIDE DEF r, slot
<1>3. CASE r = Nothing /\ (row.status = "displaced_pending" => stored # NoOutcome \/ mode # "daily")
           /\ row.status \in {"displaced", "expired", "displaced_pending"}
  <2>1. r.patches = <<>> /\ r.outcome = NoOutcome
    BY <1>3, NothingTyped
  <2>2. Final(row, r.patches) = row /\ After(r, stored) = stored
    BY <2>1, FinalNone DEF After
  <2>3. row.status = "displaced_pending" /\ mode = "daily" => row.attributed
    BY <1>3 DEF Says
  <2> QED
    BY <1>3, <2>2, <2>3 DEF MapEnds, r
<1>4. CASE /\ row.status = "displaced_pending" /\ stored = NoOutcome
           /\ r = RacedDone(row.slot, now) \/ r = RacedGone(row.slot)
  BY <1>0, <1>4, RacedSays DEF r
<1>5. CASE row.status \notin {"displaced", "expired", "displaced_pending"} /\ r = rest
  <2> HIDE DEF rest, stored
  <2>1. Ends(Pushed, row, rest, stored, mode)
    BY <1>0, <1>5, SettleSays DEF rest, stored
  <2> QED
    BY <1>5, <2>1 DEF Ends, MapEnds, r, stored
<1>6. CASE /\ row.status \notin {"displaced", "expired", "displaced_pending"}
           /\ Some(Pushed, "move")
           /\ r = [rest EXCEPT !.pair = ~tuples.pair,
                               !.patches = <<Patch("moved", slot, FALSE, FALSE)>> \o @]
  <2> DEFINE patch == Patch("moved", slot, FALSE, FALSE)
             moved == <<patch>> \o rest.patches
             next == Patched(row, patch)
  <2>1. patch \in Patches
    BY <1>0, PatchTyped DEF Statuses, Open
  <2>2. next \in Placements /\ next.status = "moved" /\ Says(Pushed, next, stored)
    BY <1>0, <1>6, MovedSays
  <2> HIDE DEF next
  <2>3. Ends(Pushed, next, rest, stored, mode)
    BY <1>0, <2>2, SettleSays
  <2> HIDE DEF rest, patch, stored
  <2>4. rest.patches \in Seq(Patches)
    BY <1>2 DEF Results
  <2>5. Final(row, moved) = Final(next, rest.patches)
    BY <1>2, <2>1, <2>4, FinalMoved DEF next
  <2>6. r = [rest EXCEPT !.pair = ~tuples.pair, !.patches = moved]
    BY <1>6 DEF patch
  <2> HIDE DEF moved
  <2>7. r.patches = moved /\ r.outcome = rest.outcome /\ r.correction = rest.correction
    BY <1>2, <2>6 DEF Results
  <2>8. After(r, stored) = After(rest, stored)
    BY <2>7 DEF After
  <2> QED
    BY <2>3, <2>5, <2>7, <2>8 DEF Ends, MapEnds, r, stored
<1>7. QED
  BY <1>1, <1>3, <1>4, <1>5, <1>6 DEF MappedAs, RacedDone, RacedGone, slot
-----------------------------------------------------------------------------
LEMMA SaysStays ==
    ASSUME NEW f, NEW g, NEW row, NEW outcome, Some(f, "move") => Some(g, "move"), Says(f, row, outcome)
    PROVE  Says(g, row, outcome)
BY DEF Says

SaysRow == (\A p \in Passes : ~Storing(p)) => Says(Pushed, srv, tuples.outcome)

LEMMA CalmParts == CalmInv <=> (Calm => SaysRow /\ \A p \in Passes : CalmPass(p))
BY DEF CalmInv, SaysRow

LEMMA CalmEarlier == ASSUME failures \subseteq failures', Calm' PROVE Calm /\ NoOverrun
BY DEF Calm, NoOverrun

\* A pass that a step leaves alone, with its row and its tuples.
LEMMA CalmSame ==
    ASSUME NEW p \in Passes, pass'[p] = pass[p], srv' = srv, tuples' = tuples,
           Moved => Moved', CalmPass(p)
    PROVE  CalmPass(p)'
<1>1. \A row, outcome : Says(Pushed, row, outcome) => Says(Pushed', row, outcome)
  BY SaysStays DEF Moved
<1> DEFINE end == Final(srv, pass[p].result.patches)
           stored == Stored(pass[p].result).outcome
<1>2. Final(srv', pass'[p].result.patches) = end /\ Stored(pass[p].result).outcome' = stored
  BY DEF Stored
<1>3. pass[p].phase = "write" =>
        /\ pass[p].row.status = srv.status /\ Len(pass[p].result.patches) <= 2
        /\ Says(Pushed, end, stored) /\ (pass[p].due => end.attributed)
  BY DEF CalmPass, Leads
<1>4. pass[p].phase \in {"gate", "patch"} =>
        /\ pass[p].row.status = srv.status /\ Len(pass[p].result.patches) <= 2
        /\ Says(Pushed, end, tuples.outcome) /\ (pass[p].due => end.attributed)
  BY DEF CalmPass, Leads
<1> HIDE DEF end, stored
<1>5. pass'[p].phase = "write" => Leads(p, Stored(pass[p].result).outcome)'
  BY <1>1, <1>2, <1>3 DEF Leads
<1>6. pass'[p].phase \in {"gate", "patch"} => Leads(p, tuples.outcome)'
  BY <1>1, <1>2, <1>4 DEF Leads
<1>7. QED
  BY <1>5, <1>6 DEF CalmPass, Storing, StillStored, Writes

LEMMA CalmIdle ==
    ASSUME NEW p \in Passes, pass'[p] = pass[p], ~Active(p), CalmPass(p)
    PROVE  CalmPass(p)'
BY DEF CalmPass, Active, Storing

LEMMA QuietCalm ==
    ASSUME Types, Types', CalmInv, QuietStep
    PROVE  CalmInv'
<1> SUFFICES ASSUME Calm' PROVE SaysRow' /\ \A p \in Passes : CalmPass(p)'
  BY DEF CalmInv, SaysRow
<1>1. SaysRow /\ \A p \in Passes : CalmPass(p)
  BY CalmEarlier, CalmParts DEF QuietStep
<1>2. Moved => Moved'
  BY MovedStays, SlotsTyped DEF QuietStep
<1>3. \A p \in Passes : CalmPass(p)'
  BY <1>1, <1>2, CalmSame DEF QuietStep
<1>4. SaysRow'
  <2>1. (\A p \in Passes : ~Storing(p)') => Says(Pushed, srv, tuples.outcome)
    BY <1>1 DEF SaysRow, QuietStep, Storing
  <2>2. Says(Pushed, srv, tuples.outcome) => Says(Pushed', srv, tuples.outcome)
    BY <1>2, SaysStays DEF Moved
  <2> QED
    BY <2>1, <2>2 DEF SaysRow, QuietStep
<1>5. QED
  BY <1>3, <1>4

\* Without an intrusion the row is written while no pass is at work.
LEMMA RowCalm ==
    ASSUME Types, TimeInv, LeaseInv, CalmInv, RowStep
    PROVE  CalmInv'
<1> SUFFICES ASSUME Calm' PROVE SaysRow' /\ \A p \in Passes : CalmPass(p)'
  BY DEF CalmInv, SaysRow
<1>1. NoOverrun /\ SaysRow /\ \A p \in Passes : CalmPass(p)
  BY CalmEarlier, CalmParts DEF RowStep
<1>2. lease = "free"
  BY DEF RowStep, Calm
<1>3. \A p \in Passes : ~Active(p) /\ ~Storing(p)
  BY <1>1, <1>2 DEF LeaseInv, NoOverrun, Active, Storing, Passes
<1>4. \A p \in Passes : CalmPass(p)'
  BY <1>1, <1>3, CalmIdle DEF RowStep
<1> DEFINE outcome == tuples.outcome
<1>5. Says(Pushed, srv, outcome)
  BY <1>1, <1>3 DEF SaysRow
<1>6. Timely(outcome.reason)
  BY DEF TimeInv
<1>7. /\ srv.status \in Open /\ now <= srv.slot
      /\ srv'.attributed = srv.attributed
  BY DEF RowStep, Displaceable, Expirable, Open
<1>8. now \in Nat /\ srv.slot \in Nat /\ pushed \in Nat
  BY SlotsTyped
<1>9. outcome \in Outcomes \cup {NoOutcome}
  BY DEF Types, ServerTypes, Tuples
<1>10. outcome # NoOutcome => StatusFor[outcome.reason] \notin Open
  BY <1>9, StatusForTyped DEF Outcomes, Open
<1> HIDE DEF outcome
<1>11. outcome # NoOutcome =>
         \/ outcome.reason = "partial" /\ srv.status = "shown"
         \/ Moved /\ srv.status \in {"moved", "displaced_pending"}
  BY <1>5, <1>7, <1>10 DEF Says, Moved, Open
<1>12. outcome.reason = "partial" => Moved /\ pushed > 0
  BY <1>6, <1>7, <1>8 DEF Timely
<1>13. ~srv.attributed <=> outcome = NoOutcome
  BY <1>5, <1>7 DEF Says, Open
<1>14. \/ srv'.status = "displaced_pending"
       \/ srv'.status = "expired" /\ outcome = NoOutcome
  <2>1. CASE srv'.status = "displaced_pending"
    BY <2>1
  <2>2. CASE srv'.status = "expired" /\ Expirable
    BY <1>8, <1>11, <1>12, <2>2 DEF Expirable
  <2> QED
    BY <2>1, <2>2 DEF RowStep
<1>15. Says(Pushed, srv', outcome)
  BY <1>7, <1>11, <1>12, <1>13, <1>14 DEF Says, Moved
<1>16. SaysRow'
  <2>1. Pushed' = Pushed
    BY DEF RowStep, Pushed
  <2> QED
    BY <1>15, <2>1 DEF SaysRow, RowStep, outcome
<1>17. QED
  BY <1>4, <1>16

LEMMA EndCalm ==
    ASSUME Types, CalmInv, NEW p \in Passes, EndStep(p)
    PROVE  CalmInv'
<1> SUFFICES ASSUME Calm' PROVE SaysRow' /\ \A q \in Passes : CalmPass(q)'
  BY DEF CalmInv, SaysRow
<1>1. SaysRow /\ \A q \in Passes : CalmPass(q)
  BY CalmEarlier, CalmParts DEF EndStep
<1>2. Pushed' = Pushed /\ "crash" \notin failures'
  BY DEF EndStep, Pushed, Calm
<1>3. CalmPass(p)'
  BY DEF EndStep, NoPass, CalmPass
<1>4. \A q \in Passes \ {p} : CalmPass(q)'
  BY <1>1, <1>2, CalmSame DEF EndStep, Moved
<1>5. ASSUME \A q \in Passes : ~Storing(q)' PROVE Says(Pushed, srv, tuples.outcome)
  <2>1. \A q \in Passes \ {p} : ~Storing(q)
    BY <1>5 DEF EndStep, Storing
  <2>2. CASE ~Storing(p)
    BY <1>1, <2>1, <2>2 DEF SaysRow
  <2>3. CASE pass[p].phase = "patch" /\ pass[p].result.patches = <<>>
    BY <1>1, <2>3, FinalNone DEF CalmPass, Leads
  <2> QED
    BY <1>2, <2>2, <2>3 DEF EndStep
<1>6. SaysRow'
  BY <1>2, <1>5 DEF SaysRow, EndStep
<1>7. QED
  BY <1>3, <1>4, <1>6

LEMMA BeginCalm ==
    ASSUME Types, Types', TimeInv, LeaseInv, CalmInv, StartStep \/ LoadStep \/ AcquireStep
    PROVE  CalmInv'
<1> SUFFICES ASSUME Calm' PROVE SaysRow' /\ \A q \in Passes : CalmPass(q)'
  BY DEF CalmInv, SaysRow
<1>1. NoOverrun /\ SaysRow /\ \A q \in Passes : CalmPass(q)
  BY CalmEarlier, CalmParts DEF StartStep, LoadStep, AcquireStep
<1>2. UNCHANGED <<srv, tuples, log>> /\ pushed <= pushed'
  <2>1. pushed \in Nat /\ pushed <= Len(log)
    BY LenProperties DEF Types, DeviceTypes, ServerTypes
  <2> QED
    BY <2>1 DEF StartStep, LoadStep, AcquireStep
<1>3. Moved => Moved'
  BY <1>2, MovedStays
<1>4. PICK p \in Passes :
        /\ CalmPass(p)' /\ ~Storing(p) /\ \A q \in Passes \ {p} : pass'[q] = pass[q]
  <2>0. "sync" \in Passes /\ "sweep" \in Passes
    BY DEF Passes
  <2>1. CASE StartStep
    <3>1. CalmPass("sync")' /\ ~Storing("sync")
      BY <2>1 DEF StartStep, NoPass, CalmPass, Storing
    <3> QED
      BY <2>0, <2>1, <3>1 DEF StartStep
  <2>2. CASE LoadStep
    <3>1. Due => srv.status \in Open \cup {"displaced_pending"} /\ ~srv.attributed
      BY DEF Due
    <3>2. CalmPass("sweep")' /\ ~Storing("sweep")
      BY <2>2, <3>1 DEF LoadStep, NoPass, CalmPass, Storing
    <3> QED
      BY <2>0, <2>2, <3>2 DEF LoadStep
  <2>3. CASE AcquireStep
    <3>1. pass["sweep"].due => pass["sweep"].row = srv
      BY <2>3 DEF AcquireStep, Calm
    <3>2. pass["sweep"].due => pass["sweep"].row.status \in Open \cup {"displaced_pending"}
                               /\ ~pass["sweep"].row.attributed
      BY <1>1, <2>0, <2>3 DEF CalmPass, Storing, AcquireStep
    <3>3. CalmPass("sweep")' /\ ~Storing("sweep")
      BY <2>3, <3>1, <3>2 DEF AcquireStep, CalmPass, Storing
    <3> QED
      BY <2>0, <2>3, <3>3 DEF AcquireStep
  <2> QED
    BY <2>1, <2>2, <2>3
<1>5. \A q \in Passes \ {p} : CalmPass(q)'
  BY <1>1, <1>2, <1>3, <1>4, CalmSame
<1>6. SaysRow'
  <2>1. (\A q \in Passes : ~Storing(q)') => Says(Pushed, srv, tuples.outcome)
    BY <1>1, <1>4 DEF SaysRow, Storing
  <2>2. Says(Pushed, srv, tuples.outcome) => Says(Pushed', srv, tuples.outcome)
    BY <1>3, SaysStays DEF Moved
  <2> QED
    BY <1>2, <2>1, <2>2 DEF SaysRow
<1>7. QED
  BY <1>4, <1>5, <1>6
-----------------------------------------------------------------------------
\* The other pass is idle, and the pass at work will store something.
LEMMA CalmWork ==
    ASSUME Types, TimeInv, LeaseInv, CalmInv, NEW p \in Passes, PassOnly(p), Active(p), Calm',
           Storing(p)'
    PROVE  /\ SaysRow /\ CalmPass(p) /\ (~Storing(p) => Says(Pushed, srv, tuples.outcome))
           /\ SaysRow' /\ \A q \in Passes \ {p} : CalmPass(q)'
<1>1. Calm /\ NoOverrun
  BY DEF PassOnly, Calm, NoOverrun
<1>2. SaysRow /\ \A q \in Passes : CalmPass(q)
  BY <1>1, CalmParts
<1>3. \A q \in Passes \ {p} : ~Active(q) /\ ~Storing(q) /\ pass'[q] = pass[q]
  BY <1>1, Sole DEF PassOnly
<1>4. \A q \in Passes \ {p} : CalmPass(q)'
  BY <1>2, <1>3, CalmIdle
<1>5. SaysRow'
  BY DEF SaysRow
<1>6. ~Storing(p) => Says(Pushed, srv, tuples.outcome)
  BY <1>2, <1>3 DEF SaysRow
<1>7. QED
  BY <1>2, <1>4, <1>5, <1>6

LEMMA ReadCalm ==
    ASSUME Types, TimeInv, LeaseInv, CalmInv, NEW p \in Passes, ReadStep(p)
    PROVE  CalmInv'
<1> SUFFICES ASSUME Calm' PROVE SaysRow' /\ \A q \in Passes : CalmPass(q)'
  BY DEF CalmInv, SaysRow
<1>0. /\ PassOnly(p) /\ Active(p) /\ Storing(p)' /\ ~Storing(p) /\ UNCHANGED <<srv, tuples>>
      /\ pass'[p].row = Row(p) /\ pass'[p].due = pass[p].due /\ Pushed' = Pushed
      /\ pass[p].phase = "read"
      /\ pass'[p].phase = IF Writes(pass'[p].result) THEN "write" ELSE "patch"
  BY DEF ReadStep, PassOnly, Active, Storing, Pushed
<1>1. /\ CalmPass(p) /\ Says(Pushed, srv, tuples.outcome)
      /\ SaysRow' /\ \A q \in Passes \ {p} : CalmPass(q)'
  BY <1>0, CalmWork
<1> DEFINE row == Row(p)
           r == pass'[p].result
           mode == Mode(p)
           stored == tuples.outcome
<1>2. row = srv /\ row \in Placements
  BY <1>0, <1>1, RowTyped DEF Row, CalmPass
<1>3. pass[p].due => mode = "daily" /\ srv.status \notin {"displaced", "expired"}
  BY <1>0, <1>1, <1>2 DEF Mode, Row, CalmPass, Storing, Open
<1>4. /\ Says(Pushed, Final(srv, r.patches), After(r, stored))
      /\ pass[p].due => Final(srv, r.patches).attributed
  <2>1. CASE r = Nothing /\ ~pass[p].due
    <3>1. r.patches = <<>> /\ r.outcome = NoOutcome
      BY <2>1, NothingTyped
    <3> HIDE DEF r
    <3>2. Final(srv, r.patches) = srv /\ After(r, stored) = stored
      BY <3>1, FinalNone DEF After
    <3> QED
      BY <1>1, <2>1, <3>2
  <2>2. CASE r = MapUser(row, Pushed, tuples, now, mode)
    <3>1. mode \in {"daily", "instant"}
      BY DEF Mode
    <3> HIDE DEF mode
    <3>2. MapEnds(Pushed, srv, MapUser(srv, Pushed, tuples, now, mode), stored, mode)
      BY <1>1, <1>2, <3>1, MapSays
    <3> HIDE DEF r, row
    <3> QED
      BY <1>2, <1>3, <2>2, <3>2 DEF MapEnds
  <2> QED
    BY <2>1, <2>2 DEF ReadStep
<1>5. /\ Len(r.patches) \in {0, 1, 2}
      /\ IF r.correction THEN r.outcome # NoOutcome /\ stored # NoOutcome /\ ~stored.corrected
         ELSE r.outcome # NoOutcome => stored = NoOutcome
  BY ReadFields DEF Mapped, MapSlots, MapOutcome
<1> HIDE DEF row, mode, stored
<1>6. After(r, stored) = Stored(r).outcome /\ (~Writes(r) => After(r, stored) = stored)
  BY StoredAfter DEF stored, After, Writes
<1>7. Stored(pass[p].result).outcome' = Stored(r).outcome
  BY <1>0 DEF Stored
<1> HIDE DEF r
<1> DEFINE outcome == After(r, stored)
<1> HIDE DEF outcome
<1>8. /\ pass'[p].row.status = srv'.status /\ Len(pass'[p].result.patches) <= 2
      /\ Says(Pushed', Final(srv', pass'[p].result.patches), outcome)
      /\ pass'[p].due => Final(srv', pass'[p].result.patches).attributed
  <2>1. pass'[p].row.status = srv'.status
    BY <1>0, <1>2 DEF row
  <2>2. Len(r.patches) <= 2
    <3>1. \A n \in {0, 1, 2} : n <= 2
      OBVIOUS
    <3> QED
      BY <1>5, <3>1, Zenon
  <2>3. Says(Pushed', Final(srv', r.patches), outcome)
    BY <1>0, <1>4 DEF outcome
  <2>4. pass'[p].due => Final(srv', r.patches).attributed
    BY <1>0, <1>4
  <2> QED
    BY <2>1, <2>2, <2>3, <2>4 DEF r
<1>9. pass'[p].phase = "write" => Leads(p, Stored(pass[p].result).outcome)'
  BY <1>6, <1>7, <1>8 DEF Leads, outcome
<1>10. pass'[p].phase = "patch" => Leads(p, tuples.outcome)'
  BY <1>0, <1>6, <1>8 DEF Leads, stored, r, outcome
<1>11. pass'[p].phase \in {"write", "patch"} /\ (pass'[p].phase = "write" => Writes(r))
  BY <1>0 DEF r
<1>12. CalmPass(p)'
  BY <1>0, <1>5, <1>9, <1>10, <1>11 DEF CalmPass, Writes, r, stored
<1>13. QED
  BY <1>1, <1>12

LEMMA StoreCalm ==
    ASSUME Types, TimeInv, LeaseInv, CalmInv, NEW p \in Passes, StoreStep(p)
    PROVE  CalmInv'
<1> SUFFICES ASSUME Calm' PROVE SaysRow' /\ \A q \in Passes : CalmPass(q)'
  BY DEF CalmInv, SaysRow
<1>0. /\ PassOnly(p) /\ Active(p) /\ Storing(p)' /\ srv' = srv
      /\ pass'[p].row = pass[p].row /\ pass'[p].due = pass[p].due /\ Pushed' = Pushed
      /\ pass'[p].result = pass[p].result /\ tuples' = Stored(pass[p].result)
      /\ pass[p].phase = "write" /\ pass'[p].phase = "gate"
  BY DEF StoreStep, PassOnly, Active, Storing, Pushed
<1>1. CalmPass(p) /\ SaysRow' /\ \A q \in Passes \ {p} : CalmPass(q)'
  BY <1>0, CalmWork
<1> DEFINE r == pass[p].result
           stored == tuples.outcome
<1>2. /\ Writes(r) /\ Leads(p, Stored(r).outcome)
      /\ IF r.correction THEN stored # NoOutcome /\ ~stored.corrected
         ELSE r.outcome # NoOutcome => stored = NoOutcome
  BY <1>0, <1>1 DEF CalmPass
<1>3. Leads(p, tuples.outcome)'
  <2>1. /\ pass[p].row.status = srv.status /\ Len(r.patches) <= 2
        /\ Says(Pushed, Final(srv, r.patches), Stored(r).outcome)
        /\ pass[p].due => Final(srv, r.patches).attributed
    BY <1>2 DEF Leads
  <2> QED
    BY <1>0, <2>1 DEF Leads
<1>4. /\ tuples'.outcome = After(r, stored)
      /\ tuples'.pair = (tuples.pair \/ r.pair)
  BY <1>0, StoredAfter DEF Stored
<1>5. stored \in Outcomes \cup {NoOutcome}
  BY DEF Types, ServerTypes, Tuples
<1>6. r.pair => tuples'.pair
  BY <1>4
<1>7. ~r.correction /\ r.outcome # NoOutcome => tuples'.outcome = r.outcome
  BY <1>2, <1>4 DEF After
<1>8. r.correction /\ r.outcome # NoOutcome =>
        tuples'.outcome.reason = r.outcome.reason /\ tuples'.outcome.corrected
  <2> DEFINE fixed == [stored EXCEPT !.reason = r.outcome.reason, !.corrected = TRUE]
  <2>1. stored \in Outcomes => fixed.reason = r.outcome.reason /\ fixed.corrected
    BY DEF Outcomes
  <2>2. r.correction /\ r.outcome # NoOutcome => tuples'.outcome = fixed
    BY <1>2, <1>4 DEF After
  <2> HIDE DEF fixed, r, stored
  <2> QED
    BY <1>2, <1>5, <2>1, <2>2
<1>9. StillStored(pass[p].result)'
  BY <1>0, <1>2, <1>6, <1>7, <1>8 DEF StillStored, Writes
<1>10. CalmPass(p)'
  BY <1>0, <1>3, <1>9 DEF CalmPass, Storing
<1>11. QED
  BY <1>1, <1>10

LEMMA GateCalm ==
    ASSUME Types, TimeInv, LeaseInv, CalmInv, NEW p \in Passes, GateStep(p)
    PROVE  CalmInv'
<1> SUFFICES ASSUME Calm' PROVE SaysRow' /\ \A q \in Passes : CalmPass(q)'
  BY DEF CalmInv, SaysRow
<1>0. /\ PassOnly(p) /\ Active(p) /\ Storing(p)' /\ UNCHANGED <<srv, tuples>>
      /\ pass'[p].row = pass[p].row /\ pass'[p].due = pass[p].due /\ Pushed' = Pushed
      /\ pass[p].phase = "gate" /\ pass'[p].phase = "patch"
      /\ StillStored(pass[p].result) => pass'[p].result.patches = pass[p].result.patches
  BY DEF GateStep, PassOnly, Active, Storing, Pushed
<1>1. CalmPass(p) /\ SaysRow' /\ \A q \in Passes \ {p} : CalmPass(q)'
  BY <1>0, CalmWork
<1>2. Leads(p, tuples.outcome) /\ pass'[p].result.patches = pass[p].result.patches
  BY <1>0, <1>1 DEF CalmPass
<1>3. Leads(p, tuples.outcome)'
  BY <1>0, <1>2 DEF Leads
<1>4. CalmPass(p)'
  BY <1>0, <1>3 DEF CalmPass, Storing
<1>5. QED
  BY <1>1, <1>4

LEMMA PatchCalm ==
    ASSUME Types, TimeInv, LeaseInv, CalmInv, NEW p \in Passes, PatchStep(p)
    PROVE  CalmInv'
<1> SUFFICES ASSUME Calm' PROVE SaysRow' /\ \A q \in Passes : CalmPass(q)'
  BY DEF CalmInv, SaysRow
<1> DEFINE patches == pass[p].result.patches
           patch == Head(patches)
           left == Tail(patches)
           next == Patched(srv, patch)
<1>0. /\ PassOnly(p) /\ Active(p) /\ Storing(p)' /\ tuples' = tuples
      /\ pass'[p].due = pass[p].due /\ Pushed' = Pushed
      /\ pass[p].phase = "patch" /\ pass'[p].phase = "patch" /\ patches # <<>>
      /\ srv' = IF Matches(p) THEN next ELSE srv
      /\ pass'[p].row.status = IF patch.status = "same" THEN pass[p].row.status ELSE patch.status
      /\ pass'[p].result.patches = left
  BY DEF PatchStep, PassOnly, Active, Storing, Pushed
<1>1. CalmPass(p) /\ SaysRow' /\ \A q \in Passes \ {p} : CalmPass(q)'
  BY <1>0, CalmWork
<1>2. /\ pass[p].row.status = srv.status /\ Len(patches) <= 2
      /\ Says(Pushed, Final(srv, patches), tuples.outcome)
      /\ pass[p].due => Final(srv, patches).attributed
  BY <1>0, <1>1 DEF CalmPass, Leads
<1>3. patches \in Seq(Patches)
  BY DEF Types, PassTypes, PassRecords, Results
<1>4. srv' = next /\ pass'[p].row.status = srv'.status
  BY <1>0, <1>2 DEF Matches, Patched
<1> HIDE DEF patches
<1>5. Len(patches) \in {1, 2} /\ patch = patches[1] /\ Len(left) <= 2
  <2>1. /\ patch = patches[1] /\ left \in Seq(Patches)
        /\ Len(patches) \in Nat /\ Len(left) = Len(patches) - 1
    BY <1>0, <1>3, PatchesLeft
  <2> HIDE DEF patch, left
  <2>2. Len(left) \in Nat
    BY <2>1, LenProperties
  <2> QED
    BY <1>2, <2>1, <2>2
<1>6. Final(srv, patches) = Final(next, left)
  BY <1>3, <1>5, FinalFirst
<1> HIDE DEF next, left, patch
<1>7. Leads(p, tuples.outcome)'
  BY <1>0, <1>2, <1>4, <1>5, <1>6 DEF Leads
<1>8. CalmPass(p)'
  BY <1>0, <1>7 DEF CalmPass, Storing
<1>9. QED
  BY <1>1, <1>8
-----------------------------------------------------------------------------
RInv == Inv /\ TimeInv /\ LeaseInv /\ DisplacedInv /\ CalmInv

LEMMA InitRInv == Init => RInv
<1> SUFFICES ASSUME Init PROVE RInv
  OBVIOUS
<1>1. Inv
  BY InitInv
<1>2. /\ now = 0 /\ here.slot = srv.slot /\ answer = NoPage /\ log = <<>> /\ pushed = 0
      /\ srv.status = "shown" /\ ~srv.attributed /\ ~srv.conflict
      /\ tuples.outcome = NoOutcome /\ lease = "free" /\ failures = {}
      /\ \A p \in Passes : pass[p] = NoPass
  BY DEF Init
<1>3. \A p \in Passes : /\ pass[p].phase = "idle" /\ pass[p].due = FALSE /\ pass[p].result = Nothing
                        /\ pass[p].result.outcome = NoOutcome /\ PatchSlots(p) = {}
                        /\ DOMAIN pass[p].result.patches = {}
  BY <1>2, NothingTyped, NoIndex DEF NoPass, PatchSlots
<1>4. NoOutcome.reason = "none"
  BY DEF NoOutcome
<1>5. TimeInv
  <2>1. \A p \in Passes : ResultInv(p) /\ OneSlot(p) /\ PassTimely(p) /\ PassDay(p)
    BY <1>3, <1>4 DEF ResultInv, OneSlot, PassTimely, Timely, PassDay
  <2>2. DeviceDay
    BY <1>2, NoIndex DEF DeviceDay, SameDay
  <2> QED
    BY <1>2, <1>4, <2>1, <2>2 DEF TimeInv, Timely
<1>6. LeaseInv
  BY <1>2, <1>3 DEF LeaseInv, Active, Passes
<1>7. DisplacedInv
  BY <1>2, <1>3 DEF DisplacedInv, SlotInv, PendingInv
<1>8. CalmInv
  <2>1. Says(Pushed, srv, tuples.outcome)
    BY <1>2 DEF Says
  <2>2. \A p \in Passes : CalmPass(p)
    BY <1>3 DEF CalmPass
  <2> QED
    BY <2>1, <2>2 DEF CalmInv
<1>9. QED
  BY <1>1, <1>5, <1>6, <1>7, <1>8 DEF RInv

LEMMA NextRInv == RInv /\ [Next]_vars => RInv'
<1> SUFFICES ASSUME RInv, [Next]_vars PROVE RInv'
  OBVIOUS
<1>1. Inv' /\ Types /\ Types' /\ TimeInv /\ LeaseInv /\ DisplacedInv /\ CalmInv
  BY NextInv DEF RInv, Inv
<1>2. CASE UserStep \/ WorldStep
  <2>1. QuietStep /\ (~LateMoves => DeviceDay')
    BY <1>1, <1>2, UserIsQuiet, WorldIsQuiet DEF TimeInv
  <2> QED
    BY <1>1, <2>1, QuietTime, QuietLease, QuietDisplaced, QuietCalm DEF RInv
<1>3. CASE Displace \/ Expire
  BY <1>1, <1>3, RowSteps, RowTime, RowLease, RowDisplaced, RowCalm DEF RInv
<1>4. CASE SkipBusy \/ EndSweep \/ Pull \/ \E q \in Passes : Crash(q)
  <2>1. PICK p \in Passes : EndStep(p)
    BY <1>1, <1>4, EndSteps
  <2> QED
    BY <1>1, <2>1, EndTime, EndLease, EndDisplaced, EndCalm DEF RInv
<1>5. CASE StartSync \/ LoadDue \/ Acquire
  <2>1. StartStep \/ LoadStep \/ AcquireStep
    BY <1>1, <1>5, StartSteps, LoadSteps, AcquireSteps
  <2> QED
    BY <1>1, <2>1, StartTime, LoadTime, AcquireTime, BeginLease, BeginDisplaced, BeginCalm DEF RInv
<1>6. ASSUME NEW p \in Passes, PassStep(p) PROVE RInv'
  <2>1. ReadStep(p) \/ StoreStep(p) \/ GateStep(p) \/ PatchStep(p)
    BY <1>1, <1>6, ReadSteps, StoreSteps, GateSteps, PatchSteps DEF PassStep
  <2>2. LeaseInv'
    BY <1>1, <2>1, WorkLease
  <2>3. CASE ReadStep(p)
    BY <1>1, <2>2, <2>3, ReadTime, ReadDisplaced, ReadCalm DEF RInv
  <2>4. CASE StoreStep(p)
    BY <1>1, <2>2, <2>4, StoreTime, StoreDisplaced, StoreCalm DEF RInv
  <2>5. CASE GateStep(p)
    BY <1>1, <2>2, <2>5, GateTime, GateDisplaced, GateCalm DEF RInv
  <2>6. CASE PatchStep(p)
    BY <1>1, <2>2, <2>6, PatchTime, PatchDisplaced, PatchCalm DEF RInv
  <2> QED
    BY <2>1, <2>3, <2>4, <2>5, <2>6
<1>7. QED
  BY <1>2, <1>3, <1>4, <1>5, <1>6 DEF Next, UserStep, WorldStep

LEMMA RInvariance == Spec => []RInv
BY InitRInv, NextRInv, PTL DEF Spec

\* The slot the user last gave the block, as far as the server knows.
AsMoved == SlotAfter(Pushed, srv.slot)

\* A day that is shut is past the slot the block was moved to.
LEMMA Past ==
    ASSUME Types, TimeInv, ~LateMoves, Shut(now, srv.slot), Moved \/ now > srv.slot
    PROVE  now > AsMoved
<1>1. now \in Nat /\ srv.slot \in Nat /\ Pushed \in Seq(Facts)
  BY SlotsTyped, PushedTyped
<1>2. AsMoved \in Nat
  BY <1>1, SlotTyped DEF AsMoved
<1>3. CASE Moved
  <2>1. PICK i \in Moves(Pushed) : AsMoved = Pushed[i].to
    BY <1>1, <1>3, LatestMove DEF Moved, AsMoved
  <2>2. log \in Seq(Facts) /\ pushed \in 0..Len(log)
    BY DEF Types, DeviceTypes, ServerTypes
  <2>3. i \in DOMAIN log /\ Pushed[i] = log[i] /\ Pushed[i].kind = "move"
    BY <2>1, <2>2, Front DEF Moves, Pushed
  <2>4. Day(AsMoved) = Day(srv.slot) /\ ~LastTick(AsMoved)
    BY <2>1, <2>3 DEF TimeInv, DeviceDay, SameDay
  <2> QED
    BY <1>1, <1>2, <2>4, ShutPast
<1>4. CASE ~Moved
  <2>1. AsMoved = srv.slot
    BY <1>4 DEF AsMoved, SlotAfter, Moves, Moved, Some
  <2> QED
    BY <1>4, <2>1
<1>5. QED
  BY <1>3, <1>4

\* The 23:55 authority.
LEMMA AfterSlot == RInv => LapsedAfterSlot
<1> SUFFICES ASSUME RInv, ~LateMoves, tuples.outcome.reason \in {"lapsed", "off_slot"}
             PROVE  now > AsMoved
  BY DEF LapsedAfterSlot, AsMoved
<1>1. (Moved \/ now > srv.slot) /\ Shut(now, srv.slot)
  BY DEF RInv, TimeInv, Timely
<1>2. QED
  BY <1>1, Past DEF RInv, Inv

LEMMA Matching == RInv => StatusMatchesReward
<1> SUFFICES ASSUME RInv, Calm, Rest
             PROVE  /\ srv.attributed <=> tuples.outcome # NoOutcome \/ srv.status = "displaced"
                    /\ tuples.outcome # NoOutcome =>
                          \/ srv.status = StatusFor[tuples.outcome.reason]
                          \/ /\ tuples.outcome.reason = "partial"
                             /\ srv.status = IF tuples.outcome.corrected THEN "lapsed" ELSE "shown"
                          \/ Some(Pushed, "move") /\ srv.status \in {"moved", "displaced_pending"}
  BY DEF StatusMatchesReward
<1>1. \A p \in Passes : ~Storing(p)
  BY DEF Rest, Storing
<1>2. Says(Pushed, srv, tuples.outcome)
  BY <1>1 DEF RInv, CalmInv
<1>3. QED
  BY <1>2 DEF Says

\* attribute-rewards, processUser: when nothing fails, between passes the row and the stored
\* outcome say the same, whatever is moved and whenever.
THEOREM RowAndReward == Spec => []StatusMatchesReward
BY RInvariance, Matching, PTL

\* What the server says of a block, in its status and in its reward, is what happened to it,
\* when no block is moved after 23:55: for any length of the day and any mix of failures.
THEOREM ServerIsRight == ASSUME ~LateMoves PROVE Spec => []RewardSound
<1>1. RInv => DisplacedUnrewarded
  BY DEF RInv, DisplacedInv, DisplacedUnrewarded
<1>2. TypeOK /\ RInv => RewardSound
  BY <1>1, AfterSlot, Matching DEF RewardSound
<1>3. QED
  BY <1>2, TypeCorrect, RInvariance, PTL

\* attribute-rewards, runSweep: a sweep that loaded a row as due leaves it attributed.
THEOREM DueIsSettled == Spec => SweepSettles
<1>1. RInv /\ [Next]_vars => [EndSweep /\ pass["sweep"].due /\ Calm => srv.attributed]_vars
  <2> SUFFICES ASSUME RInv, EndSweep, pass["sweep"].due, Calm PROVE srv.attributed
    OBVIOUS
  <2>1. /\ "sweep" \in Passes /\ pass["sweep"].phase = "patch"
        /\ pass["sweep"].result.patches = <<>>
    BY DEF EndSweep, Passes
  <2>2. CalmPass("sweep")
    BY <2>1 DEF RInv, CalmInv
  <2> QED
    BY <2>1, <2>2, FinalNone DEF CalmPass, Leads
<1>2. QED
  BY <1>1, RInvariance, PTL DEF Spec, SweepSettles
-----------------------------------------------------------------------------
(***************************************************************************)
(* What the device shows.  The pair of a move and the move of the row come *)
(* from the same pass (PairInv); between a page and the next change of the *)
(* row, the device shows the page or what the user made of it (PageInv).   *)
(***************************************************************************)

PairPass(p) ==
    Storing(p) /\ (tuples.pair \/ (pass[p].phase = "write" /\ pass[p].result.pair)) =>
        Final(srv, pass[p].result.patches).status # "shown"

PairInv == Calm =>
    /\ (\A p \in Passes : ~Storing(p)) => (tuples.pair => srv.status # "shown")
    /\ \A p \in Passes : PairPass(p)

\* No patch makes a row a shown one, and a pass that wants a pair moves the row first.
MapPairs(r) ==
    /\ Len(r.patches) <= 2
    /\ \A i \in DOMAIN r.patches : r.patches[i].status # "shown"
    /\ r.pair => 1 \in DOMAIN r.patches /\ r.patches[1].status = "moved"

LEMMA OnePatchPairs ==
    ASSUME NEW r, ~r.pair, NEW status \in Statuses \cup {"same"}, status # "shown",
           NEW slot, NEW attributed, NEW conflict,
           r.patches = <<Patch(status, slot, attributed, conflict)>>
    PROVE  MapPairs(r)
<1> DEFINE patch == Patch(status, slot, attributed, conflict)
<1>1. patch.status = status
  BY DEF Patch
<1> HIDE DEF patch
<1>2. DOMAIN r.patches = {1} /\ Len(r.patches) = 1 /\ r.patches[1] = patch
  BY OneIndex DEF patch
<1>3. QED
  BY <1>1, <1>2 DEF MapPairs

LEMMA NothingPairs == MapPairs(Nothing)
BY NothingTyped, NoIndex DEF MapPairs

LEMMA SettlePairs ==
    ASSUME NEW facts, NEW slot \in Nat, NEW stored \in Outcomes \cup {NoOutcome}, NEW t \in Nat,
           NEW mode \in {"daily", "instant"}
    PROVE  LET rest == Settle(facts, slot, stored, t, mode) IN MapPairs(rest) /\ ~rest.pair
<1> DEFINE rest == Settle(facts, slot, stored, t, mode)
<1>1. SettledAs(rest, facts, slot, stored, t, mode)
  BY SettleShape
<1> HIDE DEF rest
<1>2. CASE rest = Nothing
  BY <1>2, NothingPairs, NothingTyped DEF rest
<1>3. ASSUME NEW reason \in Reasons, rest = Fresh(reason, slot, t)
      PROVE  MapPairs(rest) /\ ~rest.pair
  <2>1. rest.patches = <<Patch(StatusFor[reason], slot, TRUE, FALSE)>> /\ ~rest.pair
    BY <1>3, FreshFields
  <2>2. StatusFor[reason] \in Statuses \cup {"same"} /\ StatusFor[reason] # "shown"
    BY StatusForTyped
  <2> QED
    BY <2>1, <2>2, OnePatchPairs
<1>4. ASSUME NEW reason \in {"completed", "partial"}, Upgradable(stored, t),
             rest = Corrected(reason, slot, stored)
      PROVE  MapPairs(rest) /\ ~rest.pair
  <2>0. stored \in Outcomes /\ reason \in Reasons
    BY <1>4 DEF Upgradable, NoOutcome, Reasons
  <2>1. rest.patches = <<Patch(StatusFor[reason], slot, FALSE, FALSE)>> /\ ~rest.pair
    <3> DEFINE c == Corrected(reason, slot, stored)
    <3>0. ~c.pair
      BY <2>0, CorrectedFields
    <3>1. c.patches = <<Patch(StatusFor[reason], slot, FALSE, FALSE)>>
      BY DEF Corrected, Nothing
    <3>2. rest = c
      BY <1>4
    <3> HIDE DEF c
    <3> QED
      BY <3>0, <3>1, <3>2
  <2>2. StatusFor[reason] \in Statuses \cup {"same"} /\ StatusFor[reason] # "shown"
    BY <2>0, StatusForTyped
  <2> QED
    BY <2>1, <2>2, OnePatchPairs
<1>5. QED
  BY <1>1, <1>2, <1>3, <1>4 DEF SettledAs, rest

LEMMA MapUserPairs ==
    ASSUME NEW rec \in Placements, NEW facts \in Seq(Facts), NEW stored \in Tuples, NEW t \in Nat,
           NEW mode \in {"daily", "instant"}
    PROVE  MapPairs(MapUser(rec, facts, stored, t, mode))
<1> DEFINE slot == SlotAfter(facts, rec.slot)
           rest == Settle(facts, slot, stored.outcome, t, mode)
           r == MapUser(rec, facts, stored, t, mode)
<1>0. rec.slot \in Nat /\ slot \in Nat /\ stored.outcome \in Outcomes \cup {NoOutcome}
  BY SlotTyped DEF Placements, Tuples
<1>1. MappedAs(r, rec, facts, stored, t, mode)
  BY MapShape
<1>2. MapPairs(rest) /\ rest \in Results /\ Len(rest.patches) \in {0, 1}
  BY <1>0, SettlePairs, SettledFields DEF Wants
<1> HIDE DEF r
<1>3. CASE r = Nothing
  BY <1>3, NothingPairs DEF r
<1>4. CASE r = RacedDone(rec.slot, t) \/ r = RacedGone(rec.slot)
  <2>1. \E status \in {"completed", "displaced"} : \E conflict \in BOOLEAN :
           r.patches = <<Patch(status, rec.slot, TRUE, conflict)>>
    <3>1. CASE r = RacedDone(rec.slot, t)
      <4>1. r.patches = <<Patch("completed", rec.slot, TRUE, TRUE)>>
        BY <1>0, <3>1, RacedFields
      <4> QED
        BY <4>1
    <3>2. CASE r = RacedGone(rec.slot)
      <4>1. r.patches = <<Patch("displaced", rec.slot, TRUE, FALSE)>>
        BY <1>0, <3>2, RacedFields
      <4> QED
        BY <4>1
    <3> QED
      BY <1>4, <3>1, <3>2
  <2>2. ~r.pair
    BY <1>4 DEF RacedDone, RacedGone, Nothing
  <2>3. {"completed", "displaced"} \subseteq (Statuses \cup {"same"}) \ {"shown"}
    BY DEF Statuses
  <2> QED
    BY <2>1, <2>2, <2>3, OnePatchPairs DEF r
<1>5. CASE r = rest
  BY <1>2, <1>5 DEF r
<1>6. CASE r = [rest EXCEPT !.pair = ~stored.pair,
                            !.patches = <<Patch("moved", slot, FALSE, FALSE)>> \o @]
  <2> DEFINE patch == Patch("moved", slot, FALSE, FALSE)
             moved == <<patch>> \o rest.patches
  <2>0. rest.patches \in Seq(Patches)
    BY <1>2 DEF Results
  <2>1. patch \in Patches /\ patch.status = "moved"
    BY <1>0, PatchTyped DEF Statuses, Open
  <2> HIDE DEF rest, patch, slot
  <2>2. /\ moved \in Seq(Patches) /\ Len(moved) = Len(rest.patches) + 1 /\ moved[1] = patch
        /\ \A i \in 1..Len(rest.patches) : moved[i + 1] = rest.patches[i]
    BY <2>0, <2>1, Prepended
  <2>3. DOMAIN moved = 1..Len(moved) /\ DOMAIN rest.patches = 1..Len(rest.patches)
    BY <2>0, <2>2, LenProperties
  <2>4. r.patches = moved
    BY <1>2, <1>6 DEF patch, Results
  <2> HIDE DEF moved
  <2>5. Len(moved) <= 2 /\ 1 \in DOMAIN moved
    BY <1>2, <2>2, <2>3
  <2>6. ASSUME NEW i \in DOMAIN moved PROVE moved[i].status # "shown"
    <3>1. i = 1 \/ (i - 1 \in 1..Len(rest.patches) /\ (i - 1) + 1 = i)
      BY <1>2, <2>2, <2>3
    <3>2. CASE i = 1
      BY <2>1, <2>2, <3>2
    <3>3. CASE i - 1 \in 1..Len(rest.patches) /\ (i - 1) + 1 = i
      <4>1. moved[i] = rest.patches[i - 1]
        BY <2>2, <3>3
      <4> QED
        BY <1>2, <2>3, <3>3, <4>1 DEF MapPairs
    <3> QED
      BY <3>1, <3>2, <3>3
  <2> QED
    BY <2>1, <2>2, <2>4, <2>5, <2>6 DEF MapPairs, r
<1>7. QED
  BY <1>1, <1>3, <1>4, <1>5, <1>6 DEF MappedAs, RacedDone, RacedGone

\* Where such patches lead.
LEMMA FinalPairs ==
    ASSUME NEW row, NEW r, r.patches \in Seq(Patches), MapPairs(r), row.status # "shown" \/ r.pair
    PROVE  Final(row, r.patches).status # "shown"
<1> DEFINE ps == r.patches
<1>1. DOMAIN ps = 1..Len(ps) /\ Len(ps) \in Nat /\ Len(ps) <= 2
  BY LenProperties DEF MapPairs
<1>2. \A any, patch : patch.status # "shown" /\ (any.status # "shown" \/ patch.status # "same") =>
                      Patched(any, patch).status # "shown"
  BY DEF Patched
<1>3. CASE Len(ps) = 0
  BY <1>1, <1>3, FinalCases DEF MapPairs
<1>4. CASE Len(ps) = 1
  <2>1. ps[1].status # "shown" /\ (r.pair => ps[1].status = "moved")
    BY <1>1, <1>4 DEF MapPairs
  <2> QED
    BY <1>2, <1>4, <2>1, FinalCases
<1>5. CASE Len(ps) = 2
  <2>1. ps[1].status # "shown" /\ ps[2].status # "shown" /\ (r.pair => ps[1].status = "moved")
    BY <1>1, <1>5 DEF MapPairs
  <2> DEFINE next == Patched(row, ps[1])
  <2>2. next.status # "shown"
    BY <1>2, <2>1
  <2> HIDE DEF next
  <2>3. Patched(next, ps[2]).status # "shown"
    BY <1>2, <2>1, <2>2
  <2> QED
    BY <1>5, <2>3, FinalCases DEF next
<1>6. Len(ps) \in {0, 1, 2}
  <2> HIDE DEF ps
  <2> QED
    BY <1>1
<1>7. QED
  BY <1>3, <1>4, <1>5, <1>6

LEMMA PairSame ==
    ASSUME NEW p \in Passes, pass'[p] = pass[p], srv' = srv, tuples' = tuples, PairPass(p)
    PROVE  PairPass(p)'
<1> DEFINE end == Final(srv, pass[p].result.patches)
<1>1. Final(srv', pass'[p].result.patches) = end
  OBVIOUS
<1>2. Storing(p) /\ (tuples.pair \/ (pass[p].phase = "write" /\ pass[p].result.pair)) =>
        end.status # "shown"
  BY DEF PairPass
<1> HIDE DEF end
<1>3. QED
  BY <1>1, <1>2 DEF PairPass, Storing

PairRow == (\A p \in Passes : ~Storing(p)) => (tuples.pair => srv.status # "shown")

LEMMA PairParts == PairInv <=> (Calm => PairRow /\ \A p \in Passes : PairPass(p))
BY DEF PairInv, PairRow

LEMMA QuietPair == ASSUME PairInv, QuietStep PROVE PairInv'
<1> SUFFICES ASSUME Calm' PROVE PairRow' /\ \A p \in Passes : PairPass(p)'
  BY DEF PairInv, PairRow
<1>1. PairRow /\ \A p \in Passes : PairPass(p)
  BY CalmEarlier, PairParts DEF QuietStep
<1>2. \A p \in Passes : PairPass(p)'
  BY <1>1, PairSame DEF QuietStep
<1>3. PairRow'
  BY <1>1 DEF PairRow, QuietStep, Storing
<1>4. QED
  BY <1>2, <1>3

LEMMA RowPair == ASSUME LeaseInv, PairInv, RowStep PROVE PairInv'
<1> SUFFICES ASSUME Calm' PROVE PairRow' /\ \A p \in Passes : PairPass(p)'
  BY DEF PairInv, PairRow
<1>1. NoOverrun
  BY CalmEarlier DEF RowStep
<1>2. lease = "free"
  BY DEF RowStep, Calm
<1>3. \A p \in Passes : ~Storing(p)
  BY <1>1, <1>2 DEF LeaseInv, NoOverrun, Active, Storing, Passes
<1>4. srv'.status # "shown" /\ pass' = pass
  BY DEF RowStep
<1>5. QED
  BY <1>3, <1>4 DEF PairRow, PairPass, Storing

LEMMA EndPair == ASSUME PairInv, NEW p \in Passes, EndStep(p) PROVE PairInv'
<1> SUFFICES ASSUME Calm' PROVE PairRow' /\ \A q \in Passes : PairPass(q)'
  BY DEF PairInv, PairRow
<1>1. PairRow /\ \A q \in Passes : PairPass(q)
  BY CalmEarlier, PairParts DEF EndStep
<1>2. \A q \in Passes \ {p} : PairPass(q)'
  BY <1>1, PairSame DEF EndStep
<1>3. PairPass(p)'
  BY DEF EndStep, NoPass, PairPass, Storing
<1>4. ASSUME \A q \in Passes : ~Storing(q)', tuples.pair PROVE srv.status # "shown"
  <2>1. \A q \in Passes \ {p} : ~Storing(q)
    BY <1>4 DEF EndStep, Storing
  <2>2. CASE ~Storing(p)
    BY <1>1, <1>4, <2>1, <2>2 DEF PairRow
  <2>3. CASE pass[p].phase = "patch" /\ pass[p].result.patches = <<>>
    BY <1>1, <1>4, <2>3, FinalNone DEF PairPass, Storing
  <2> QED
    BY <2>2, <2>3 DEF EndStep, Calm
<1>5. PairRow'
  BY <1>4 DEF PairRow, EndStep
<1>6. QED
  BY <1>2, <1>3, <1>5

LEMMA BeginPair == ASSUME PairInv, StartStep \/ LoadStep \/ AcquireStep PROVE PairInv'
<1> SUFFICES ASSUME Calm' PROVE PairRow' /\ \A q \in Passes : PairPass(q)'
  BY DEF PairInv, PairRow
<1>1. PairRow /\ \A q \in Passes : PairPass(q)
  BY CalmEarlier, PairParts DEF StartStep, LoadStep, AcquireStep
<1>2. UNCHANGED <<srv, tuples>>
  BY DEF StartStep, LoadStep, AcquireStep
<1>3. PICK p \in Passes : ~Storing(p) /\ ~Storing(p)' /\ \A q \in Passes \ {p} : pass'[q] = pass[q]
  BY DEF StartStep, LoadStep, AcquireStep, Passes, NoPass, Storing
<1>4. \A q \in Passes \ {p} : PairPass(q)'
  BY <1>1, <1>2, <1>3, PairSame
<1>5. PairPass(p)'
  BY <1>3 DEF PairPass
<1>6. PairRow'
  BY <1>1, <1>2, <1>3 DEF PairRow, Storing
<1>7. QED
  BY <1>4, <1>5, <1>6

\* A pass at work: only its own part of the invariant changes.
LEMMA PairWork ==
    ASSUME TimeInv, LeaseInv, PairInv, NEW p \in Passes, PassOnly(p), Active(p), Calm', Storing(p)'
    PROVE  /\ PairPass(p) /\ (~Storing(p) /\ tuples.pair => srv.status # "shown")
           /\ PairPass(p)' => PairInv'
<1>1. Calm /\ NoOverrun
  BY DEF PassOnly, Calm, NoOverrun
<1>2. PairRow /\ \A q \in Passes : PairPass(q)
  BY <1>1, PairParts
<1>3. \A q \in Passes \ {p} : ~Storing(q) /\ pass'[q] = pass[q]
  BY <1>1, Sole DEF PassOnly
<1>4. \A q \in Passes \ {p} : PairPass(q)'
  BY <1>3 DEF PairPass, Storing
<1>5. PairRow'
  BY DEF PairRow
<1>6. ~Storing(p) /\ tuples.pair => srv.status # "shown"
  BY <1>2, <1>3 DEF PairRow
<1>7. PairPass(p)' => PairInv'
  BY <1>4, <1>5 DEF PairInv, PairRow
<1>8. QED
  BY <1>2, <1>6, <1>7

LEMMA ReadPair ==
    ASSUME Types, TimeInv, LeaseInv, PairInv, NEW p \in Passes, ReadStep(p)
    PROVE  PairInv'
<1> SUFFICES ASSUME Calm' PROVE PairInv'
  BY DEF PairInv
<1>0. /\ PassOnly(p) /\ Active(p) /\ Storing(p)' /\ ~Storing(p) /\ UNCHANGED <<srv, tuples>>
  BY DEF ReadStep, Active, Storing
<1>1. (tuples.pair => srv.status # "shown") /\ (PairPass(p)' => PairInv')
  BY <1>0, PairWork
<1> DEFINE r == pass'[p].result
<1>2. MapPairs(r) /\ r.patches \in Seq(Patches)
  <2>1. /\ Row(p) \in Placements /\ Pushed \in Seq(Facts) /\ tuples \in Tuples /\ now \in Nat
        /\ Mode(p) \in {"daily", "instant"}
    BY RowTyped, PushedTyped, ConstantsAssumption DEF Types, ServerTypes, Mode
  <2> DEFINE mapped == MapUser(Row(p), Pushed, tuples, now, Mode(p))
  <2>2. MapPairs(mapped) /\ mapped \in Results
    BY <2>1, MapUserPairs, MapUserGains
  <2> HIDE DEF mapped
  <2>3. r = Nothing \/ r = mapped
    BY DEF ReadStep, mapped
  <2> HIDE DEF r
  <2> QED
    BY <2>2, <2>3, NothingPairs, NothingTyped DEF Results
<1> HIDE DEF r
<1>3. tuples.pair \/ r.pair => Final(srv, r.patches).status # "shown"
  BY <1>1, <1>2, FinalPairs
<1>4. PairPass(p)'
  BY <1>0, <1>3 DEF PairPass, r
<1>5. QED
  BY <1>1, <1>4

LEMMA StorePair ==
    ASSUME Types, TimeInv, LeaseInv, PairInv, NEW p \in Passes, StoreStep(p)
    PROVE  PairInv'
<1> SUFFICES ASSUME Calm' PROVE PairInv'
  BY DEF PairInv
<1>0. /\ PassOnly(p) /\ Active(p) /\ Storing(p) /\ Storing(p)' /\ srv' = srv
      /\ pass[p].phase = "write" /\ pass'[p].phase = "gate" /\ pass'[p].result = pass[p].result
      /\ tuples'.pair = (tuples.pair \/ pass[p].result.pair)
  BY DEF StoreStep, Active, Storing, Stored
<1>1. PairPass(p) /\ (PairPass(p)' => PairInv')
  BY <1>0, PairWork
<1>2. PairPass(p)'
  BY <1>0, <1>1 DEF PairPass
<1>3. QED
  BY <1>1, <1>2

LEMMA GatePair ==
    ASSUME Types, TimeInv, LeaseInv, CalmInv, PairInv, NEW p \in Passes, GateStep(p)
    PROVE  PairInv'
<1> SUFFICES ASSUME Calm' PROVE PairInv'
  BY DEF PairInv
<1>0. /\ PassOnly(p) /\ Active(p) /\ Storing(p) /\ Storing(p)' /\ UNCHANGED <<srv, tuples>>
      /\ pass[p].phase = "gate" /\ pass'[p].phase = "patch"
      /\ StillStored(pass[p].result) => pass'[p].result.patches = pass[p].result.patches
  BY DEF GateStep, Active, Storing
<1>1. PairPass(p) /\ (PairPass(p)' => PairInv')
  BY <1>0, PairWork
<1>2. CalmPass(p)
  BY <1>0, CalmWork
<1>3. pass'[p].result.patches = pass[p].result.patches
  BY <1>0, <1>2 DEF CalmPass
<1>4. PairPass(p)'
  BY <1>0, <1>1, <1>3 DEF PairPass
<1>5. QED
  BY <1>1, <1>4

LEMMA PatchPair ==
    ASSUME Types, TimeInv, LeaseInv, CalmInv, PairInv, NEW p \in Passes, PatchStep(p)
    PROVE  PairInv'
<1> SUFFICES ASSUME Calm' PROVE PairInv'
  BY DEF PairInv
<1> DEFINE patches == pass[p].result.patches
           patch == Head(patches)
           left == Tail(patches)
           next == Patched(srv, patch)
<1>0. /\ PassOnly(p) /\ Active(p) /\ Storing(p) /\ Storing(p)' /\ tuples' = tuples
      /\ pass[p].phase = "patch" /\ pass'[p].phase = "patch" /\ patches # <<>>
      /\ srv' = IF Matches(p) THEN next ELSE srv
      /\ pass'[p].result.patches = left
  BY DEF PatchStep, Active, Storing
<1>1. PairPass(p) /\ (PairPass(p)' => PairInv')
  BY <1>0, PairWork
<1>2. pass[p].row.status = srv.status /\ Len(patches) <= 2
  BY <1>0, CalmWork DEF CalmPass, Leads
<1>3. patches \in Seq(Patches)
  BY DEF Types, PassTypes, PassRecords, Results
<1>4. srv' = next
  BY <1>0, <1>2 DEF Matches
<1> HIDE DEF patches
<1>5. Len(patches) \in {1, 2} /\ patch = patches[1]
  <2>1. patch = patches[1] /\ Len(patches) \in Nat /\ Len(patches) # 0
    BY <1>0, <1>3, PatchesLeft, EmptySeq
  <2>2. \A n \in Nat : n # 0 /\ n <= 2 => n \in {1, 2}
    OBVIOUS
  <2> HIDE DEF patch
  <2> QED
    BY <1>2, <2>1, <2>2, Zenon
<1>6. Final(srv, patches) = Final(next, left)
  BY <1>3, <1>5, FinalFirst
<1>7. tuples.pair => Final(srv, patches).status # "shown"
  BY <1>0, <1>1 DEF PairPass, patches
<1> HIDE DEF next, left, patch
<1>8. PairPass(p)'
  BY <1>0, <1>4, <1>6, <1>7 DEF PairPass
<1>9. QED
  BY <1>1, <1>8

\* A device with nothing outstanding shows the row, what the user made of an open one, or a
\* session finished on a void one.
ShownAs(facts) ==
    \/ here = [status |-> srv.status, slot |-> srv.slot]
    \/ /\ here.status = "completed" /\ srv.status \in Void
       /\ Some(facts, "finish") \/ Some(facts, "stray")
    \/ here.status \in {"completed", "lapsed"} /\ srv.status \in Open \cup {"rejected", "lapsed"}
    \/ here.status = "rejected" /\ srv.status \in Open /\ Some(facts, "skip")
    \/ /\ here.status = "moved" /\ srv.status \in Open
       /\ Some(facts, "move") /\ SlotAfter(facts, srv.slot) = here.slot

PageInv ==
    /\ answer # NoPage => news # "no"
    /\ news = "sent" => answer = [status |-> srv.status, slot |-> srv.slot]
    /\ news = "no" => ShownAs(log)

\* One more fact: a move decides the slot, nothing else changes it.
LEMMA OneMore ==
    ASSUME NEW facts \in Seq(Facts), NEW fact \in Facts, NEW slot \in Nat
    PROVE  LET more == Append(facts, fact)
           IN /\ \A kind : Some(more, kind) <=> Some(facts, kind) \/ fact.kind = kind
              /\ SlotAfter(more, slot) = IF fact.kind = "move" THEN fact.to
                                         ELSE SlotAfter(facts, slot)
<1> DEFINE more == Append(facts, fact)
           n == Len(facts)
<1>1. /\ more \in Seq(Facts) /\ Len(more) = n + 1 /\ n \in Nat
      /\ \A i \in 1..n : more[i] = facts[i]
      /\ more[n + 1] = fact
  BY AppendProperties, LenProperties
<1> HIDE DEF more
<1>2. DOMAIN more = 1..(n + 1) /\ DOMAIN facts = 1..n
  BY <1>1, LenProperties
<1> HIDE DEF n
<1>3. /\ \A i \in DOMAIN facts : i \in DOMAIN more /\ more[i] = facts[i]
      /\ \A i \in DOMAIN more : i \in DOMAIN facts \/ i = n + 1
      /\ n + 1 \in DOMAIN more
  BY <1>1, <1>2
<1>4. ASSUME NEW kind PROVE Some(more, kind) <=> Some(facts, kind) \/ fact.kind = kind
  BY <1>1, <1>3 DEF Some
<1>5. CASE fact.kind = "move"
  <2>1. PICK i \in Moves(more) : /\ \A k \in Moves(more) : k <= i
                                 /\ SlotAfter(more, slot) = more[i].to
    BY <1>1, <1>4, <1>5, LatestMove
  <2>2. n + 1 \in Moves(more)
    BY <1>1, <1>3, <1>5 DEF Moves
  <2>3. i \in 1..(n + 1) /\ n + 1 <= i
    BY <1>2, <2>1, <2>2 DEF Moves
  <2>4. i = n + 1
    BY <1>1, <2>3
  <2> QED
    BY <1>1, <1>4, <1>5, <2>1, <2>4 DEF more
<1>6. CASE fact.kind # "move"
  <2>1. Moves(more) = Moves(facts)
    <3>1. \A i : i \in Moves(more) <=> i \in Moves(facts)
      BY <1>1, <1>3, <1>6 DEF Moves
    <3> QED
      BY <3>1
  <2>2. ASSUME Moves(facts) = {} PROVE SlotAfter(more, slot) = SlotAfter(facts, slot)
    BY <2>1, <2>2 DEF SlotAfter
  <2>3. ASSUME Moves(facts) # {} PROVE SlotAfter(more, slot) = SlotAfter(facts, slot)
    <3> DEFINE i == CHOOSE k \in Moves(facts) : \A j \in Moves(facts) : j <= k
    <3>1. Some(facts, "move")
      BY <2>3 DEF Moves, Some
    <3>2. \E k \in Moves(facts) : \A j \in Moves(facts) : j <= k
      BY <3>1, LatestMove
    <3>3. i \in Moves(facts)
      BY <3>2
    <3> HIDE DEF i
    <3>4. i \in DOMAIN facts
      BY <3>3 DEF Moves
    <3>5. SlotAfter(more, slot) = more[i].to /\ SlotAfter(facts, slot) = facts[i].to
      BY <2>1, <2>3 DEF SlotAfter, i
    <3> QED
      BY <1>3, <3>4, <3>5
  <2>4. SlotAfter(more, slot) = SlotAfter(facts, slot)
    BY <2>2, <2>3
  <2> QED
    BY <1>4, <1>6, <2>4 DEF more
<1>7. QED
  BY <1>5, <1>6 DEF more

\* A fact of the user over an open row, over a lapse it corrects, or of a session.
LEMMA LogPage ==
    ASSUME Types, PageInv, NEW kind \in Kinds, NEW at \in Nat, NEW to \in Nat,
           NEW status \in Statuses, NEW slot \in Nat, Log(kind, at, to, status, slot),
           \/ kind \in {"finish", "stray"} /\ status = "completed" /\ slot = here.slot
           \/ status = here.status /\ slot = here.slot /\ kind # "move"
           \/ here.status \in Open /\ status \in {"completed", "lapsed"}
           \/ here.status \in Open /\ status = "rejected" /\ kind = "skip"
           \/ here.status \in Open /\ status = "moved" /\ kind = "move" /\ slot = to
           \/ here.status = "lapsed" /\ status = "completed"
    PROVE  PageInv'
<1> DEFINE fact == [kind |-> kind, at |-> at, to |-> to]
<1>1. /\ log' = Append(log, fact) /\ here' = [status |-> status, slot |-> slot]
      /\ UNCHANGED <<srv, news, answer>>
  BY DEF Log
<1>2. /\ log \in Seq(Facts) /\ srv.slot \in Nat /\ srv.status \in Statuses
      /\ here = [status |-> here.status, slot |-> here.slot]
  BY DEF Types, DeviceTypes, ServerTypes, Placements
<1>3. fact \in Facts /\ fact.kind = kind /\ fact.to = to
  BY DEF Facts
<1> HIDE DEF fact
<1>4. /\ \A k : Some(log', k) <=> Some(log, k) \/ kind = k
      /\ SlotAfter(log', srv.slot) = IF kind = "move" THEN to ELSE SlotAfter(log, srv.slot)
  BY <1>1, <1>2, <1>3, OneMore
<1>5. here'.status = status /\ here'.slot = slot
  BY <1>1
<1>6. SUFFICES ASSUME news = "no" PROVE ShownAs(log)'
  BY <1>1 DEF PageInv
<1>7. ShownAs(log)
  BY <1>6 DEF PageInv
<1>8. here.status \in Open => srv.status \in Open
  BY <1>7 DEF ShownAs, Open
<1>9. CASE here.status \in Open /\ status \in {"completed", "lapsed"}
  BY <1>1, <1>5, <1>8, <1>9 DEF ShownAs
<1>10. CASE here.status \in Open /\ status = "rejected" /\ kind = "skip"
  BY <1>1, <1>4, <1>5, <1>8, <1>10 DEF ShownAs
<1>11. CASE here.status \in Open /\ status = "moved" /\ kind = "move" /\ slot = to
  BY <1>1, <1>4, <1>5, <1>8, <1>11 DEF ShownAs
<1>12. CASE status = here.status /\ slot = here.slot /\ kind # "move"
  <2>1. here' = here
    BY <1>1, <1>2, <1>12
  <2> QED
    BY <1>1, <1>4, <1>7, <1>12, <2>1 DEF ShownAs
<1>13. CASE here.status = "lapsed" /\ status = "completed"
  <2>1. srv.status \in Open \cup {"rejected", "lapsed"}
    BY <1>7, <1>13 DEF ShownAs
  <2> QED
    BY <1>1, <1>5, <1>13, <2>1 DEF ShownAs
<1>14. CASE kind \in {"finish", "stray"} /\ status = "completed" /\ slot = here.slot
  <2>1. CASE srv.status \in Open \cup {"rejected", "lapsed"}
    BY <1>1, <1>5, <1>14, <2>1 DEF ShownAs
  <2>2. CASE srv.status \in Void
    BY <1>1, <1>4, <1>5, <1>14, <2>2 DEF ShownAs
  <2>3. CASE srv.status = "completed"
    <3>1. here = [status |-> srv.status, slot |-> srv.slot]
      BY <1>7, <2>3 DEF ShownAs, Open, Void
    <3>2. here' = [status |-> srv'.status, slot |-> srv'.slot]
      BY <1>1, <1>2, <1>14, <2>3, <3>1
    <3> QED
      BY <3>2 DEF ShownAs
  <2> QED
    BY <1>2, <2>1, <2>2, <2>3 DEF Statuses, Void
<1>15. QED
  BY <1>9, <1>10, <1>11, <1>12, <1>13, <1>14

LEMMA UserPage == ASSUME Types, PageInv, UserStep PROVE PageInv'
<1>1. /\ here.slot \in Nat /\ now \in Nat /\ "moved" \in Statuses /\ "move" \in Kinds
  BY ConstantsAssumption DEF Types, DeviceTypes, Kinds, Statuses, Open
<1>2. CASE Marked
  <2>1. PICK kind \in Kinds \ {"move"}, at \in Nat, status \in Statuses :
          /\ Log(kind, at, 0, status, here.slot)
          /\ \/ kind \in {"finish", "stray"} /\ status = "completed"
             \/ status = here.status
             \/ here.status \in Open /\ status \in {"completed", "lapsed"}
             \/ here.status \in Open /\ status = "rejected" /\ kind = "skip"
             \/ here.status = "lapsed" /\ status = "completed"
    BY <1>2 DEF Marked
  <2> QED
    BY <1>1, <2>1, LogPage
<1>3. CASE MovedTo
  BY <1>1, <1>3, LogPage DEF MovedTo, OnToday
<1>4. CASE Touched
  <2>1. UNCHANGED <<log, srv, news, answer>>
    BY <1>4 DEF Touched
  <2>2. CASE here' = here
    BY <2>1, <2>2 DEF PageInv, ShownAs
  <2>3. CASE here.status \in Open /\ here' = [here EXCEPT !.status = "lapsed"]
    <3>1. here'.status = "lapsed"
      BY <2>3 DEF Types, DeviceTypes
    <3>2. news = "no" => srv.status \in Open
      BY <2>3 DEF PageInv, ShownAs, Open
    <3> QED
      BY <2>1, <3>1, <3>2 DEF PageInv, ShownAs
  <2> QED
    BY <1>4, <2>2, <2>3 DEF Touched
<1>5. QED
  BY <1>2, <1>3, <1>4, UserSteps

LEMMA ReceivePage == ASSUME PageInv, Receive PROVE PageInv'
<1>1. answer # NoPage /\ news # "no" /\ answer' = NoPage /\ UNCHANGED <<srv, log>>
  BY DEF PageInv, Receive
<1>2. CASE news = "sent"
  <2>1. answer = [status |-> srv.status, slot |-> srv.slot] /\ answer.status = srv.status
    BY <1>2 DEF PageInv
  <2>2. CASE KeepLocal(answer)
    BY <1>1, <2>1, <2>2 DEF Receive, KeepLocal, PageInv, ShownAs
  <2>3. CASE ~KeepLocal(answer)
    <3>1. here' = answer /\ news' = "no"
      BY <1>2, <2>3 DEF Receive
    <3> QED
      BY <1>1, <2>1, <3>1 DEF PageInv, ShownAs
  <2> QED
    BY <2>2, <2>3
<1>3. CASE news # "sent"
  BY <1>1, <1>3 DEF Receive, PageInv
<1>4. QED
  BY <1>2, <1>3

\* Steps that touch neither the row nor a page, and steps that change the row.
LEMMA SamePage == ASSUME PageInv, UNCHANGED <<here, log, srv, news, answer>> PROVE PageInv'
BY DEF PageInv, ShownAs

LEMMA NewPage == ASSUME PageInv, news' = "yes" PROVE PageInv'
BY DEF PageInv

LEMMA NextPage == ASSUME Types, PageInv, [Next]_vars PROVE PageInv'
<1>1. CASE UserStep
  BY <1>1, UserPage
<1>2. CASE Receive
  BY <1>2, ReceivePage
<1>3. CASE Tick \/ Overrun \/ UNCHANGED vars
  BY <1>3, SamePage DEF Tick, Overrun, vars, device
<1>4. CASE LoseAnswer
  <2>1. news' # "sent" /\ answer' = NoPage /\ (news' = "no" => news = "no")
    BY <1>4 DEF LoseAnswer
  <2>2. UNCHANGED <<here, log, srv>>
    BY <1>4 DEF LoseAnswer, device
  <2> QED
    BY <2>1, <2>2 DEF PageInv, ShownAs
<1>5. CASE Displace \/ Expire
  BY <1>5, NewPage DEF Displace, Expire
<1>6. CASE StartSync \/ LoadDue \/ Acquire \/ SkipBusy \/ EndSweep
  BY <1>6, SamePage DEF StartSync, LoadDue, Acquire, SkipBusy, EndSweep, device
<1>7. CASE Pull
  <2>1. UNCHANGED <<here, log, srv>>
    BY <1>7 DEF Pull, device
  <2>2. CASE news = "no"
    BY <1>7, <2>1, <2>2, SamePage DEF Pull
  <2>3. CASE news # "no"
    BY <1>7, <2>1, <2>3 DEF Pull, PageInv
  <2> QED
    BY <2>2, <2>3
<1>8. ASSUME NEW p \in Passes, PassStep(p) \/ Crash(p) PROVE PageInv'
  <2>1. CASE Read(p) \/ WriteTuples(p) \/ Gate(p) \/ Crash(p)
    BY <2>1, SamePage DEF Read, WriteTuples, Gate, Crash, device
  <2>2. CASE PatchRec(p)
    <3>1. UNCHANGED <<here, log, answer>> /\ (UNCHANGED <<srv, news>> \/ news' = "yes")
      BY <2>2 DEF PatchRec, device
    <3> QED
      BY <3>1, SamePage, NewPage
  <2> QED
    BY <1>8, <2>1, <2>2 DEF PassStep
<1>9. QED
  BY <1>1, <1>2, <1>3, <1>4, <1>5, <1>6, <1>7, <1>8 DEF Next, UserStep
-----------------------------------------------------------------------------
SInv == RInv /\ PairInv /\ PageInv

LEMMA InitSInv == Init => SInv
<1> SUFFICES ASSUME Init PROVE SInv
  OBVIOUS
<1>1. RInv
  BY InitRInv
<1>2. /\ here = [status |-> srv.status, slot |-> srv.slot] /\ answer = NoPage /\ news = "no"
      /\ ~tuples.pair /\ \A p \in Passes : pass[p].phase = "idle"
  BY DEF Init, NoPass
<1>3. PairInv
  BY <1>2 DEF PairInv, PairPass, Storing
<1>4. PageInv
  BY <1>2 DEF PageInv, ShownAs
<1>5. QED
  BY <1>1, <1>3, <1>4 DEF SInv

LEMMA NextSInv == SInv /\ [Next]_vars => SInv'
<1> SUFFICES ASSUME SInv, [Next]_vars PROVE SInv'
  OBVIOUS
<1>1. RInv' /\ Types /\ TimeInv /\ LeaseInv /\ CalmInv /\ PairInv
  BY NextRInv DEF SInv, RInv, Inv
<1>2. PageInv'
  BY <1>1, NextPage DEF SInv
<1>3. PairInv'
  <2>1. CASE UserStep \/ WorldStep
    BY <1>1, <2>1, UserIsQuiet, WorldIsQuiet, QuietPair DEF TimeInv
  <2>2. CASE Displace \/ Expire
    BY <1>1, <2>2, RowSteps, RowPair
  <2>3. CASE SkipBusy \/ EndSweep \/ Pull \/ \E q \in Passes : Crash(q)
    <3>1. PICK p \in Passes : EndStep(p)
      BY <1>1, <2>3, EndSteps
    <3> QED
      BY <1>1, <3>1, EndPair
  <2>4. CASE StartSync \/ LoadDue \/ Acquire
    BY <1>1, <2>4, StartSteps, LoadSteps, AcquireSteps, BeginPair
  <2>5. ASSUME NEW p \in Passes, PassStep(p) PROVE PairInv'
    <3>1. ReadStep(p) \/ StoreStep(p) \/ GateStep(p) \/ PatchStep(p)
      BY <1>1, <2>5, ReadSteps, StoreSteps, GateSteps, PatchSteps DEF PassStep
    <3> QED
      BY <1>1, <3>1, ReadPair, StorePair, GatePair, PatchPair
  <2> QED
    BY <2>1, <2>2, <2>3, <2>4, <2>5 DEF Next, UserStep, WorldStep
<1>4. QED
  BY <1>1, <1>2, <1>3 DEF SInv

\* With nothing left to write, the slot of the row and the pair are those of the last move,
\* and there is an outcome if there was a skip.
LEMMA NothingLeft ==
    ASSUME NEW rec \in Placements, rec.status \in Open, NEW facts \in Seq(Facts),
           NEW stored \in Tuples, NEW t \in Nat,
           MapUser(rec, facts, stored, t, "instant") = Nothing
    PROVE  /\ ~NewMove(facts, rec, stored)
           /\ Some(facts, "skip") => stored.outcome # NoOutcome
<1> DEFINE slot == SlotAfter(facts, rec.slot)
           rest == Settle(facts, slot, stored.outcome, t, "instant")
           patch == Patch("moved", slot, FALSE, FALSE)
           moved == [rest EXCEPT !.pair = ~stored.pair, !.patches = <<patch>> \o @]
<1>1. Nothing = IF NewMove(facts, rec, stored) THEN moved ELSE rest
  BY DEF MapUser, Open
<1>2. ~NewMove(facts, rec, stored)
  <2>1. slot \in Nat /\ stored.outcome \in Outcomes \cup {NoOutcome}
    BY SlotTyped DEF Placements, Tuples
  <2>2. patch \in Patches
    BY <2>1, PatchTyped DEF Statuses, Open
  <2>3. rest \in Results
    BY <2>1, SettledFields DEF Wants
  <2> HIDE DEF patch, rest
  <2>4. moved.patches = <<patch>> \o rest.patches /\ rest.patches \in Seq(Patches)
    BY <2>3 DEF Results
  <2>5. Len(moved.patches) = Len(rest.patches) + 1 /\ Len(rest.patches) \in Nat
    BY <2>2, <2>4, Prepended, LenProperties
  <2>6. Len(moved.patches) # 0
    BY <2>5
  <2>7. moved # Nothing
    BY <2>6, NoIndex DEF Nothing
  <2> QED
    BY <1>1, <2>7
<1>3. Settle(facts, slot, stored.outcome, t, "instant") = Nothing
  BY <1>1, <1>2
<1> HIDE DEF slot
<1>4. ASSUME Some(facts, "skip"), stored.outcome = NoOutcome PROVE FALSE
  <2>1. \A reason : Fresh(reason, slot, t) # Nothing
    <3>1. \A reason : Fresh(reason, slot, t).patches # <<>>
      BY DEF Fresh, Nothing
    <3> QED
      BY <3>1 DEF Nothing
  <2>2. Instant(facts, slot, t, FALSE) # "none"
    BY <1>4 DEF Instant
  <2> HIDE DEF rest
  <2> QED
    BY <1>3, <1>4, <2>1, <2>2 DEF Settle
<1>5. QED
  BY <1>2, <1>4

LEMMA Shows == SInv => ScreenAgrees
<1> SUFFICES ASSUME SInv, Calm, Settled
             PROVE  \/ here = [status |-> srv.status, slot |-> srv.slot]
                    \/ here.status \in {"completed", "lapsed"} /\ srv.status \in Open \cup {"rejected", "lapsed"}
                    \/ here.status = "completed" /\ srv.status \in Void /\ SessionDone
                    \/ here.status = "rejected" /\ tuples.outcome.reason \notin {"none", "skipped"}
                    \/ here.status = "rejected" /\ tuples.outcome # NoOutcome /\ srv.status = "moved"
  BY DEF ScreenAgrees
<1>1. /\ Types /\ ShownAs(log) /\ Rest /\ StatusMatchesReward
      /\ MapUser(srv, Pushed, tuples, now, "instant") = Nothing
  BY Matching DEF SInv, RInv, Inv, PageInv, Settled
<1>2. /\ srv \in Placements /\ log \in Seq(Facts) /\ tuples \in Tuples /\ now \in Nat
      /\ pushed = Len(log)
  BY <1>1, ConstantsAssumption DEF Types, DeviceTypes, ServerTypes, Settled
<1>3. Pushed = log
  <2>1. log \in Seq(Facts) /\ pushed = Len(log) /\ Len(log) \in Nat
    BY <1>2, LenProperties
  <2>2. /\ Pushed \in Seq(Facts) /\ Len(Pushed) = Len(log)
        /\ \A i \in 1..Len(log) : Pushed[i] = log[i]
    BY <2>1, Front DEF Pushed
  <2> QED
    BY <2>1, <2>2, SeqEqual
<1>4. CASE here.status = "rejected" /\ srv.status \in Open /\ Some(log, "skip")
  <2>1. tuples.outcome # NoOutcome
    BY <1>1, <1>2, <1>3, <1>4, NothingLeft
  <2>2. tuples.outcome.reason \in Reasons /\ "none" \notin Reasons
    BY <1>1, <2>1 DEF Types, ServerTypes, Tuples, Outcomes, Reasons
  <2>3. tuples.outcome.reason = "skipped" => srv.status = "moved"
    <3>1. StatusFor["skipped"] = "rejected"
      BY DEF StatusFor, Reasons
    <3> QED
      BY <1>1, <1>4, <2>1, <3>1 DEF StatusMatchesReward, Open
  <2> QED
    BY <1>4, <2>1, <2>2, <2>3
<1>5. CASE /\ here.status = "moved" /\ srv.status \in Open
           /\ Some(log, "move") /\ SlotAfter(log, srv.slot) = here.slot
  <2>1. tuples.pair /\ srv.slot = here.slot
    BY <1>1, <1>2, <1>3, <1>5, NothingLeft DEF NewMove
  <2>2. srv.status # "shown"
    BY <1>1, <2>1 DEF SInv, PairInv, Rest, Storing
  <2>3. srv.status = "moved" /\ here = [status |-> here.status, slot |-> here.slot]
    BY <1>1, <1>5, <2>2 DEF Open, Types, DeviceTypes
  <2> QED
    BY <1>5, <2>1, <2>3
<1>6. QED
  BY <1>1, <1>4, <1>5 DEF ShownAs, SessionDone

\* The device and the server: once all is settled, the screen shows what the server says,
\* what the user made of a block that the server's status only repeats, or a session finished
\* on a block that was displaced or expired.
THEOREM ScreenIsTrue == Spec => []ScreenAgrees
<1>1. Spec => []SInv
  BY InitSInv, NextSInv, PTL DEF Spec
<1>2. QED
  BY <1>1, Shows, PTL
-----------------------------------------------------------------------------
(***************************************************************************)
(* Facts beat plans.  A pass that finds a block done in its slot leaves it *)
(* completed, unless what is stored cannot be rewritten any more, so the   *)
(* invariant (FactsInv) says what is stored that cannot: an excluded       *)
(* outcome is a completion, and the one rewrite an outcome gets ends in a  *)
(* completion or, from a lapse, in a partial session.                      *)
(***************************************************************************)

Known(o) ==
    /\ o.excluded => o.reason = "completed"
    /\ o.corrected => o.reason \in {"completed", "partial"}

\* A lapse, or a block done elsewhere, is past its slot and was not displaced.
Gone(row, o) == o.reason \in {"lapsed", "off_slot"} =>
    row.status # "displaced_pending" /\ now > row.slot

\* FactsBeatPlans, of a row and an outcome.
Beats(row, o) == CompletedInWindow(Pushed, row.slot) =>
    \/ row.status \in {"expired", "displaced"}
    \/ o.reason \in {"completed", "skipped"}
    \/ o.reason = "partial" /\ o.corrected
    \/ row.status = "displaced_pending" /\ o.reason = "partial"
    \/ o # NoOutcome /\ now - o.at > Window

Told(row, o) == Gone(row, o) /\ Beats(row, o)

\* What the facts make of an outcome, once Settle's tuple is written.
Judged(o, facts, slot, stored, t, mode) ==
    /\ \/ o = stored
       \/ /\ ~o.excluded
          /\ \/ o.reason = "completed"
             \/ ~o.corrected /\ o.reason \in {"partial", "skipped"}
             \/ mode = "daily" /\ ~o.corrected /\ o.reason \in {"lapsed", "off_slot"}
             \/ stored.reason = "lapsed" /\ o.reason = "partial" /\ o.corrected
    /\ CompletedInWindow(facts, slot) =>
          o.reason = "completed" \/ (o = stored /\ stored # NoOutcome /\ ~Upgradable(stored, t))

LEMMA FreshAfter ==
    ASSUME NEW reason \in Reasons, NEW slot \in Nat, NEW t \in Nat
    PROVE  LET o == After(Fresh(reason, slot, t), NoOutcome)
           IN o.reason = reason /\ ~o.excluded /\ ~o.corrected
<1> DEFINE r == Fresh(reason, slot, t)
<1>1. r.outcome.reason = reason /\ ~r.outcome.excluded /\ ~r.outcome.corrected /\ ~r.correction
  BY FreshFields
<1> HIDE DEF r
<1>2. r.outcome # NoOutcome
  BY <1>1 DEF NoOutcome, Reasons
<1>3. After(r, NoOutcome) = r.outcome
  BY <1>1, <1>2 DEF After
<1>4. QED
  BY <1>1, <1>3 DEF r

LEMMA CorrectedAfter ==
    ASSUME NEW reason \in Reasons, NEW slot \in Nat, NEW stored \in Outcomes,
           ~stored.excluded, ~stored.corrected
    PROVE  LET o == After(Corrected(reason, slot, stored), stored)
           IN o.reason = reason /\ ~o.excluded /\ o.corrected
<1> DEFINE r == Corrected(reason, slot, stored)
           fixed == [stored EXCEPT !.reason = reason, !.corrected = TRUE]
<1>1. r.outcome.reason = reason /\ r.correction
  BY CorrectedFields
<1> HIDE DEF r
<1>2. r.outcome # NoOutcome /\ stored # NoOutcome
  BY <1>1 DEF NoOutcome, Reasons, Outcomes
<1>3. After(r, stored) = fixed
  BY <1>1, <1>2 DEF After
<1>4. fixed.reason = reason /\ ~fixed.excluded /\ fixed.corrected
  BY DEF Outcomes
<1> HIDE DEF fixed
<1>5. QED
  BY <1>3, <1>4 DEF r

\* Settle never passes over a block that was done in its slot, but where what is stored cannot
\* be rewritten any more.
LEMMA SettleJudges ==
    ASSUME NEW facts, NEW slot \in Nat, NEW stored \in Outcomes \cup {NoOutcome}, NEW t \in Nat,
           NEW mode \in {"daily", "instant"}
    PROVE  Judged(After(Settle(facts, slot, stored, t, mode), stored), facts, slot, stored, t, mode)
<1> DEFINE reason == IF mode = "daily" THEN Daily(facts, slot, t) ELSE Instant(facts, slot, t, FALSE)
           late == Instant(facts, slot, t, TRUE)
           done == CompletedInWindow(facts, slot)
           r == Settle(facts, slot, stored, t, mode)
           o == After(r, stored)
<1>1. /\ done => reason = "completed"
      /\ reason \in Reasons \cup {"none"}
      /\ reason \in {"lapsed", "off_slot"} => mode = "daily"
  BY DEF Daily, Instant, Credited, Reasons
<1>2. /\ done <=> late = "completed"
      /\ late \in {"completed", "partial", "skipped", "none"}
  BY DEF Instant, Credited
<1>3. {"completed", "partial"} \subseteq Reasons /\ "none" \notin Reasons
  BY DEF Reasons
<1>4. Upgradable(stored, t) => /\ stored \in Outcomes /\ stored # NoOutcome
                               /\ ~stored.excluded /\ ~stored.corrected
                               /\ stored.reason \in {"lapsed", "off_slot", "partial"}
  BY DEF Upgradable, NoOutcome
<1> HIDE DEF reason, late, done, r
<1>5. ASSUME r = Nothing PROVE o = stored
  BY <1>5, NothingTyped DEF After
<1>6. CASE Some(facts, "fix")
  <2>1. CASE stored = NoOutcome
    <3>1. r = Fresh("completed", slot, t)
      BY <1>6, <2>1 DEF Settle, r
    <3>2. o.reason = "completed" /\ ~o.excluded
      BY <1>3, <2>1, <3>1, FreshAfter
    <3> QED
      BY <3>2 DEF Judged, r
  <2>2. CASE stored # NoOutcome /\ Upgradable(stored, t)
    <3>1. r = Corrected("completed", slot, stored)
      BY <1>6, <2>2 DEF Settle, r
    <3>2. o.reason = "completed" /\ ~o.excluded
      BY <1>3, <1>4, <2>2, <3>1, CorrectedAfter
    <3> QED
      BY <3>2 DEF Judged, r
  <2>3. CASE stored # NoOutcome /\ ~Upgradable(stored, t)
    <3>1. r = Nothing
      BY <1>6, <2>3 DEF Settle, r
    <3> QED
      BY <1>5, <2>3, <3>1 DEF Judged, r
  <2> QED
    BY <2>1, <2>2, <2>3
<1>7. CASE ~Some(facts, "fix") /\ stored = NoOutcome
  <2>1. r = IF reason = "none" THEN Nothing ELSE Fresh(reason, slot, t)
    BY <1>7 DEF Settle, r, reason
  <2>2. CASE reason = "none"
    <3>1. o = stored /\ ~done
      BY <1>1, <1>5, <2>1, <2>2
    <3> QED
      BY <3>1 DEF Judged, r, done
  <2>3. CASE reason # "none"
    <3>1. reason \in Reasons /\ r = Fresh(reason, slot, t)
      BY <1>1, <2>1, <2>3
    <3>2. o.reason = reason /\ ~o.excluded /\ ~o.corrected
      BY <1>7, <3>1, FreshAfter
    <3> HIDE DEF o
    <3> QED
      BY <1>1, <3>1, <3>2 DEF Judged, r, o, done, Reasons
  <2> QED
    BY <2>2, <2>3
<1>8. CASE ~Some(facts, "fix") /\ stored # NoOutcome
  <2>1. r = IF Upgradable(stored, t) /\ late # "none" /\ Reward[late] > Reward[stored.reason]
            THEN Corrected(late, slot, stored) ELSE Nothing
    BY <1>8 DEF Settle, Upgrade, r, late
  <2>2. CASE Upgradable(stored, t) /\ late # "none" /\ Reward[late] > Reward[stored.reason]
    <3>1. late = "completed" \/ (late = "partial" /\ stored.reason = "lapsed")
      BY <1>2, <1>4, <2>2 DEF Reward, Reasons
    <3>2. r = Corrected(late, slot, stored)
      BY <2>1, <2>2
    <3>3. o.reason = late /\ ~o.excluded /\ o.corrected
      BY <1>3, <1>4, <2>2, <3>1, <3>2, CorrectedAfter
    <3> HIDE DEF o
    <3>4. CASE late = "completed"
      BY <3>3, <3>4 DEF Judged, r, o
    <3>5. CASE late = "partial" /\ stored.reason = "lapsed"
      <4>1. ~done
        BY <1>2, <3>5
      <4> QED
        BY <3>3, <3>5, <4>1 DEF Judged, r, o, done
    <3> QED
      BY <3>1, <3>4, <3>5
  <2>3. CASE ~(Upgradable(stored, t) /\ late # "none" /\ Reward[late] > Reward[stored.reason])
    <3>1. o = stored
      BY <1>5, <2>1, <2>3
    <3>2. done => ~Upgradable(stored, t)
      BY <1>2, <1>4, <2>3 DEF Reward, Reasons
    <3> HIDE DEF o
    <3> QED
      BY <1>8, <3>1, <3>2 DEF Judged, r, o, done
  <2> QED
    BY <2>2, <2>3
<1>9. QED
  BY <1>6, <1>7, <1>8

\* At most one patch, that puts the row somewhere and does not displace it.
PutsAt(ps, slot) ==
    /\ ps \in Seq(Patches) /\ Len(ps) \in {0, 1}
    /\ \A i \in DOMAIN ps : ps[i].slot = slot /\ ps[i].status # "displaced_pending"

IsAt(row, slot) == row.slot = slot /\ row.status # "displaced_pending"

LEMMA OnePatchEnds ==
    ASSUME NEW row, NEW slot, NEW ps, PutsAt(ps, slot), IsAt(row, slot)
    PROVE  IsAt(Final(row, ps), slot)
<1> USE DEF PutsAt, IsAt
<1>1. CASE Len(ps) = 0
  BY <1>1, FinalCases
<1>2. CASE Len(ps) = 1
  <2>1. 1 \in DOMAIN ps
    BY <1>2, LenProperties
  <2>2. Final(row, ps) = Patched(row, ps[1])
    BY <1>2, FinalCases
  <2>3. Patched(row, ps[1]).slot = slot /\ Patched(row, ps[1]).status # "displaced_pending"
    BY <2>1 DEF Patched
  <2> QED
    BY <2>2, <2>3
<1>3. QED
  BY <1>1, <1>2

\* A row mapUser settles ends where the latest move put it.
LEMMA MapEndsThere ==
    ASSUME NEW row \in Placements, NEW facts \in Seq(Facts), NEW stored \in Tuples, NEW t \in Nat,
           NEW mode \in {"daily", "instant"}
    PROVE  LET slot == SlotAfter(facts, row.slot)
               rest == Settle(facts, slot, stored.outcome, t, mode)
               r == MapUser(row, facts, stored, t, mode)
               end == Final(row, r.patches)
           IN row.status \notin {"displaced", "expired", "displaced_pending"} =>
                /\ IsAt(end, slot)
                /\ \A o : After(r, o) = After(rest, o)
<1> DEFINE there == SlotAfter(facts, row.slot)
           rest == Settle(facts, there, stored.outcome, t, mode)
           r == MapUser(row, facts, stored, t, mode)
           ps == rest.patches
           first == Patch("moved", there, FALSE, FALSE)
<1>0. SUFFICES ASSUME row.status \notin {"displaced", "expired", "displaced_pending"}
               PROVE  LET end == Final(row, r.patches)
                      IN /\ IsAt(end, there)
                         /\ \A o : After(r, o) = After(rest, o)
  OBVIOUS
<1>1. there \in Nat
  BY SlotTyped DEF Placements
<1>2. r = IF NewMove(facts, row, stored)
          THEN [rest EXCEPT !.pair = ~stored.pair, !.patches = <<first>> \o ps] ELSE rest
  BY <1>0 DEF MapUser
<1>3. ~NewMove(facts, row, stored) => row.slot = there
  BY DEF NewMove, SlotAfter, Moves, Some
<1>4. stored.outcome \in Outcomes \cup {NoOutcome}
  BY DEF Tuples
<1> HIDE DEF there
<1>5. Wants(rest, facts, there, stored.outcome, t, mode)
  BY <1>1, <1>4, SettledFields
<1> HIDE DEF rest, r
<1>6. /\ rest \in Results /\ ps \in Seq(Patches) /\ Len(ps) \in {0, 1}
      /\ PutsAt(ps, there)
  BY <1>5 DEF Wants, Results, PutsAt
<1> HIDE DEF ps
<1>7. CASE ~NewMove(facts, row, stored)
  <2>1. r = rest /\ row.slot = there
    BY <1>2, <1>3, <1>7
  <2>2. IsAt(row, there)
    BY <1>0, <2>1 DEF IsAt
  <2>3. IsAt(Final(row, ps), there)
    BY <1>6, <2>2, OnePatchEnds
  <2> QED
    BY <2>1, <2>3 DEF ps, r, rest, there
<1>8. CASE NewMove(facts, row, stored)
  <2>0. "moved" \in Statuses
    BY DEF Statuses, Open
  <2>1. first \in Patches /\ first.slot = there /\ first.status = "moved"
    BY <1>1, PatchTyped DEF Statuses, Open
  <2> HIDE DEF first
  <2>2. r = [rest EXCEPT !.pair = ~stored.pair, !.patches = <<first>> \o ps]
    BY <1>2, <1>8
  <2>3. r.patches = <<first>> \o ps /\ r.outcome = rest.outcome /\ r.correction = rest.correction
    BY <1>6, <2>2 DEF Results
  <2> DEFINE next == Patched(row, first)
  <2>4. IsAt(next, there)
    BY <2>1 DEF Patched, IsAt
  <2> HIDE DEF next
  <2>5. IsAt(Final(next, ps), there)
    BY <1>6, <2>4, OnePatchEnds
  <2>6. Final(row, <<first>> \o ps) = Final(next, ps)
    BY <1>6, <2>1, FinalMoved DEF next
  <2>7. \A o : After(r, o) = After(rest, o)
    BY <2>3 DEF After
  <2> QED
    BY <2>3, <2>5, <2>6, <2>7 DEF r, rest, there
<1>9. QED
  BY <1>7, <1>8

\* What mapUser makes of a row, of what is stored and of the facts.
LEMMA MapKnows ==
    ASSUME Types, TimeInv, ~LateMoves, Known(tuples.outcome), Gone(srv, tuples.outcome),
           NEW mode \in {"daily", "instant"},
           mode = "daily" => Shut(now, srv.slot) /\ now > srv.slot
    PROVE  LET r == MapUser(srv, Pushed, tuples, now, mode)
               o == After(r, tuples.outcome)
           IN Known(o) /\ Told(Final(srv, r.patches), o)
<1> DEFINE stored == tuples.outcome
           r == MapUser(srv, Pushed, tuples, now, mode)
           o == After(r, stored)
           end == Final(srv, r.patches)
<1>1. /\ srv \in Placements /\ Pushed \in Seq(Facts) /\ tuples \in Tuples /\ now \in Nat
      /\ stored \in Outcomes \cup {NoOutcome} /\ srv.slot \in Nat
  BY PushedTyped, SlotsTyped DEF Types, ServerTypes, Tuples
<1>2. NoOutcome.reason = "none" /\ ~NoOutcome.excluded /\ ~NoOutcome.corrected
  BY DEF NoOutcome
<1>3. ASSUME r = Nothing PROVE o = stored /\ end = srv
  <2>1. r.patches = <<>> /\ r.outcome = NoOutcome
    BY <1>3, NothingTyped
  <2> HIDE DEF r
  <2> QED
    BY <2>1, FinalNone DEF After
<1>4. CASE srv.status \in {"displaced", "expired"}
  <2>1. r = Nothing
    BY <1>4 DEF MapUser
  <2> QED
    BY <1>3, <1>4, <2>1 DEF Told, Beats
<1>5. CASE srv.status = "displaced_pending"
  <2>1. r = SettleDisplaced(Pushed, srv.slot, stored, now, mode)
    BY <1>5 DEF MapUser
  <2> HIDE DEF r
  <2>2. CASE stored # NoOutcome
    <3>1. r = Nothing
      BY <2>1, <2>2 DEF SettleDisplaced
    <3>2. stored.reason \in {"completed", "skipped", "partial"}
      BY <1>1, <1>5, <2>2 DEF Gone, Outcomes, Reasons
    <3> QED
      BY <1>3, <1>5, <3>1, <3>2 DEF Told, Beats, r
  <2>3. CASE stored = NoOutcome /\ CompletedInWindow(Pushed, srv.slot)
    <3>1. r = RacedDone(srv.slot, now)
      BY <2>1, <2>3 DEF SettleDisplaced, RacedDone
    <3>2. r.outcome.reason = "completed" /\ ~r.correction /\ r.outcome.corrected = FALSE
      <4>1. RacedDone(srv.slot, now).outcome.corrected = FALSE
        BY DEF RacedDone, Nothing, NoOutcome
      <4> QED
        BY <1>1, <3>1, <4>1, RacedFields
    <3>3. o = r.outcome
      BY <2>3, <3>2, <1>2 DEF After
    <3>4. o.reason = "completed" /\ o.corrected = FALSE
      BY <3>2, <3>3
    <3> HIDE DEF o, end
    <3>5. Known(o) /\ Gone(end, o) /\ Beats(end, o)
      BY <3>4 DEF Known, Gone, Beats
    <3> QED
      BY <3>5 DEF Told, o, end, r
  <2>4. CASE stored = NoOutcome /\ ~CompletedInWindow(Pushed, srv.slot)
    <3>1. r = Nothing \/ r = RacedGone(srv.slot)
      BY <2>1, <2>4 DEF SettleDisplaced, RacedGone
    <3>2. CASE r = Nothing
      BY <1>3, <2>4, <3>2 DEF Told, Beats, r
    <3>3. CASE r = RacedGone(srv.slot)
      <4> DEFINE patch == Patch("displaced", srv.slot, TRUE, FALSE)
      <4>1. r.outcome = NoOutcome /\ r.patches = <<patch>>
        BY <1>1, <3>3, RacedFields
      <4>2. o = stored
        BY <4>1 DEF After
      <4>3. patch.status = "displaced"
        BY DEF Patch
      <4> HIDE DEF patch
      <4>4. end.status = "displaced"
        BY <4>1, <4>3, FinalOne
      <4> HIDE DEF end, o
      <4>5. Told(end, o) /\ Known(o)
        BY <1>2, <2>4, <4>2, <4>4 DEF Told, Gone, Beats
      <4> QED
        BY <4>5 DEF end, o, r
    <3> QED
      BY <3>1, <3>2, <3>3
  <2> QED
    BY <2>2, <2>3, <2>4
<1>6. CASE srv.status \notin {"displaced", "expired", "displaced_pending"}
  <2> DEFINE rest == Settle(Pushed, AsMoved, stored, now, mode)
  <2>1. AsMoved \in Nat
    BY <1>1, SlotTyped DEF AsMoved
  <2>2. IsAt(end, AsMoved) /\ o = After(rest, stored)
    BY <1>1, <1>6, MapEndsThere DEF AsMoved
  <2>3. Judged(After(rest, stored), Pushed, AsMoved, stored, now, mode)
    BY <1>1, <2>1, SettleJudges
  <2> HIDE DEF end, o, rest
  <2>4. Judged(o, Pushed, AsMoved, stored, now, mode)
    BY <2>2, <2>3
  <2>5. Known(stored) /\ Timely(stored.reason)
    BY DEF TimeInv
  <2>6. stored.reason \in {"lapsed", "off_slot"} => Shut(now, srv.slot) /\ now > AsMoved
    BY <2>5, Past DEF Timely
  <2>7. mode = "daily" => Shut(now, srv.slot) /\ now > AsMoved
    BY Past
  <2> HIDE DEF stored
  <2>8. Known(o)
    BY <2>4, <2>5 DEF Known, Judged
  <2>9. Gone(end, o)
    BY <2>2, <2>4, <2>6, <2>7 DEF Gone, Judged, IsAt
  <2>10. Beats(end, o)
    <3>1. SUFFICES ASSUME CompletedInWindow(Pushed, AsMoved), o = stored, stored # NoOutcome,
                          ~Upgradable(stored, now)
                   PROVE  \/ o.reason \in {"completed", "skipped"}
                          \/ o.reason = "partial" /\ o.corrected
                          \/ now - o.at > Window
      BY <2>2, <2>4, <3>1 DEF Beats, Judged, IsAt
    <3>2. stored \in Outcomes
      BY <1>1, <3>1 DEF stored
    <3>3. \/ stored.reason \in {"completed", "skipped"}
          \/ stored.excluded \/ stored.corrected \/ ~(now - stored.at <= Window)
      BY <3>1, <3>2 DEF Upgradable, Outcomes, Reasons
    <3>4. stored.excluded \/ stored.corrected =>
             stored.reason = "completed" \/ (stored.reason = "partial" /\ stored.corrected)
      BY <2>5, <3>1 DEF Known
    <3>5. now \in Nat /\ stored.at \in Nat /\ Window \in Nat
      BY <1>1, <3>2, TimeAssumption DEF Outcomes
    <3>6. ~(now - stored.at <= Window) => now - stored.at > Window
      BY <3>5
    <3> QED
      BY <3>1, <3>3, <3>4, <3>6
  <2> QED
    BY <2>8, <2>9, <2>10 DEF Told, end, o, stored
<1>7. QED
  BY <1>4, <1>5, <1>6

\* The row once the patches of a pass are written.
End(p) == Final(srv, pass[p].result.patches)

\* What a pass is about to leave.
FactsPass(p) ==
    /\ pass[p].phase = "write" =>
          /\ Known(Stored(pass[p].result).outcome)
          /\ Told(End(p), Stored(pass[p].result).outcome)
    /\ pass[p].phase \in {"gate", "patch"} => Told(End(p), tuples.outcome)

GoneRow == (\A p \in Passes : ~Storing(p)) => Gone(srv, tuples.outcome)

FactsParts == Known(tuples.outcome) /\ GoneRow /\ \A p \in Passes : FactsPass(p)

FactsInv == Calm /\ ~LateMoves => FactsParts

\* What is said of an outcome after a step.
ToldNext(row, o) ==
    /\ o.reason \in {"lapsed", "off_slot"} => row.status # "displaced_pending" /\ now' > row.slot
    /\ CompletedInWindow(Pushed', row.slot) =>
          \/ row.status \in {"expired", "displaced"}
          \/ o.reason \in {"completed", "skipped"}
          \/ o.reason = "partial" /\ o.corrected
          \/ row.status = "displaced_pending" /\ o.reason = "partial"
          \/ o # NoOutcome /\ now' - o.at > Window

\* What is said of an outcome stays true as time goes on.
LEMMA ToldKept ==
    ASSUME NEW row, NEW o, row.slot \in Nat, o.at \in Nat, now \in Nat, now' \in Nat, now <= now',
           Pushed' = Pushed, Told(row, o)
    PROVE  ToldNext(row, o)
<1>1. Window \in Nat
  BY TimeAssumption
<1>2. o.reason \in {"lapsed", "off_slot"} => row.status # "displaced_pending" /\ now' > row.slot
  BY DEF Told, Gone
<1>3. now - o.at > Window => now' - o.at > Window
  BY <1>1
<1>4. QED
  BY <1>2, <1>3 DEF Told, Beats, ToldNext

LEMMA FinalSlot ==
    ASSUME NEW row, row.slot \in Nat, NEW ps \in Seq(Patches)
    PROVE  Final(row, ps).slot \in Nat
<1>1. \A i \in DOMAIN ps : ps[i].slot \in Nat
  <2>1. ps \in [1..Len(ps) -> Patches]
    BY LenProperties
  <2>2. \A i \in DOMAIN ps : ps[i] \in Patches
    BY <2>1
  <2> QED
    BY <2>2 DEF Patches
<1>2. DOMAIN ps = 1..Len(ps) /\ Len(ps) \in Nat
  BY LenProperties
<1>3. \A any, patch : Patched(any, patch).slot = patch.slot
  BY DEF Patched
<1>4. CASE Len(ps) = 0
  BY <1>4 DEF Final
<1>5. CASE Len(ps) = 1
  <2>1. Final(row, ps) = Patched(row, ps[1]) /\ 1 \in DOMAIN ps
    BY <1>2, <1>5 DEF Final
  <2> QED
    BY <1>1, <1>3, <2>1
<1>6. CASE Len(ps) \notin {0, 1}
  <2>1. Final(row, ps) = Patched(Patched(row, ps[1]), ps[2]) /\ 2 \in DOMAIN ps
    BY <1>2, <1>6 DEF Final
  <2> QED
    BY <1>1, <1>3, <2>1
<1>7. QED
  BY <1>4, <1>5, <1>6

LEMMA EndSlot == ASSUME Types, NEW p \in Passes PROVE End(p).slot \in Nat
<1>1. srv.slot \in Nat /\ pass[p].result.patches \in Seq(Patches)
  BY SlotsTyped DEF Types, PassTypes, PassRecords, Results
<1>2. QED
  BY <1>1, FinalSlot DEF End

LEMMA StoredAt ==
    ASSUME Types, NEW p \in Passes
    PROVE  tuples.outcome.at \in Nat /\ Stored(pass[p].result).outcome.at \in Nat
<1>1. /\ tuples.outcome \in Outcomes \cup {NoOutcome}
      /\ pass[p].result.outcome \in Outcomes \cup {NoOutcome}
  BY DEF Types, ServerTypes, PassTypes, PassRecords, Results, Tuples
<1>2. \A o \in Outcomes \cup {NoOutcome} : o.at \in Nat
  BY DEF Outcomes, NoOutcome
<1>3. \A o \in Outcomes : \A reason : [o EXCEPT !.reason = reason, !.corrected = TRUE].at = o.at
  BY DEF Outcomes
<1>4. After(pass[p].result, tuples.outcome).at \in Nat
  BY <1>1, <1>2, <1>3 DEF After
<1>5. QED
  BY <1>1, <1>2, <1>4, StoredAfter

\* A pass that a step leaves alone.
LEMMA FactsSame ==
    ASSUME Types, now' \in Nat, now <= now', NEW p \in Passes, pass'[p] = pass[p], srv' = srv,
           tuples' = tuples, Pushed' = Pushed, FactsPass(p)
    PROVE  FactsPass(p)'
<1> DEFINE end == End(p)
           stored == Stored(pass[p].result).outcome
<1>1. now \in Nat /\ end.slot \in Nat /\ stored.at \in Nat /\ tuples.outcome.at \in Nat
  BY SlotsTyped, EndSlot, StoredAt
<1>2. End(p)' = end /\ Stored(pass[p].result).outcome' = stored
  BY DEF Stored, End
<1>3. /\ pass[p].phase = "write" => Known(stored) /\ Told(end, stored)
      /\ pass[p].phase \in {"gate", "patch"} => Told(end, tuples.outcome)
  BY DEF FactsPass
<1> HIDE DEF end, stored
<1>4. /\ pass[p].phase = "write" => ToldNext(end, stored)
      /\ pass[p].phase \in {"gate", "patch"} => ToldNext(end, tuples.outcome)
  BY <1>1, <1>3, ToldKept
<1>5. pass[p].phase = "write" => Known(Stored(pass[p].result).outcome)'
  BY <1>2, <1>3 DEF Known
<1>6. pass[p].phase = "write" => Told(End(p), Stored(pass[p].result).outcome)'
  BY <1>2, <1>4 DEF Told, Gone, Beats, ToldNext
<1>7. pass[p].phase \in {"gate", "patch"} => Told(End(p), tuples.outcome)'
  BY <1>2, <1>4 DEF Told, Gone, Beats, ToldNext
<1>8. QED
  BY <1>5, <1>6, <1>7 DEF FactsPass

LEMMA FactsIdle ==
    ASSUME NEW p \in Passes, ~Storing(p)'
    PROVE  FactsPass(p)'
BY DEF FactsPass, Storing

\* Nothing but the log, the time and the page changes.
LEMMA QuietFacts ==
    ASSUME Types, Types', FactsInv, QuietStep
    PROVE  FactsInv'
<1> SUFFICES ASSUME Calm', ~LateMoves PROVE FactsParts'
  BY DEF FactsInv, FactsParts
<1>1. FactsParts
  BY CalmEarlier DEF QuietStep, FactsInv, FactsParts
<1>2. Pushed' = Pushed
  BY PushedKept DEF QuietStep
<1>4. now \in Nat /\ now' \in Nat /\ now <= now' /\ srv.slot \in Nat
  BY SlotsTyped, SlotsTypedNext DEF QuietStep
<1>5. \A p \in Passes : FactsPass(p)'
  BY <1>1, <1>2, <1>4, FactsSame DEF QuietStep, FactsParts
<1>6. Known(tuples.outcome)'
  BY <1>1 DEF QuietStep, FactsParts, Known
<1>7. GoneRow'
  BY <1>1, <1>4 DEF QuietStep, FactsParts, GoneRow, Gone, Storing
<1>8. QED
  BY <1>5, <1>6, <1>7 DEF FactsParts

\* A step that moves no row and stores nothing, beside the pass it is of.
LEMMA FactsBeside ==
    ASSUME Types, Types', Pushed' = Pushed, now' = now,
           srv' = srv, tuples' = tuples, ~LateMoves, FactsParts, NEW p \in Passes,
           \A q \in Passes \ {p} : pass'[q] = pass[q], FactsPass(p)', GoneRow'
    PROVE  FactsParts'
<1>3. now \in Nat /\ now <= now'
  BY SlotsTyped
<1>4. \A q \in Passes \ {p} : FactsPass(q)'
  BY <1>3, FactsSame DEF FactsParts
<1>5. Known(tuples.outcome)'
  BY DEF FactsParts, Known
<1>6. QED
  BY <1>4, <1>5 DEF FactsParts

\* The calendar takes the row of a block whose slot is not over: no lapse is stored.
LEMMA RowFacts ==
    ASSUME Types, Types', LeaseInv, FactsInv, RowStep
    PROVE  FactsInv'
<1> SUFFICES ASSUME Calm', ~LateMoves PROVE FactsParts'
  BY DEF FactsInv, FactsParts
<1>1. NoOverrun /\ FactsParts
  BY CalmEarlier DEF RowStep, FactsInv, FactsParts
<1>2. lease = "free"
  BY DEF RowStep, Calm
<1>3. \A p \in Passes : ~Storing(p) /\ ~Storing(p)'
  BY <1>1, <1>2 DEF LeaseInv, NoOverrun, Active, Storing, Passes, RowStep
<1>4. \A p \in Passes : FactsPass(p)'
  BY <1>3, FactsIdle
<1>5. Pushed' = Pushed
  BY DEF RowStep, Pushed
<1>7. now \in Nat /\ srv.slot \in Nat
  BY SlotsTyped
<1>9. Known(tuples.outcome)'
  BY <1>1 DEF RowStep, FactsParts, Known
<1>10. Gone(srv, tuples.outcome)
  BY <1>1, <1>3 DEF FactsParts, GoneRow
<1>11. srv.slot >= now
  BY <1>7 DEF RowStep, Displaceable, Expirable
<1>12. GoneRow'
  BY <1>7, <1>10, <1>11 DEF RowStep, GoneRow, Gone
<1>13. QED
  BY <1>4, <1>9, <1>12 DEF FactsParts

LEMMA EndFacts ==
    ASSUME Types, Types', FactsInv, NEW p \in Passes, EndStep(p)
    PROVE  FactsInv'
<1> SUFFICES ASSUME Calm', ~LateMoves PROVE FactsParts'
  BY DEF FactsInv, FactsParts
<1>1. FactsParts /\ "crash" \notin failures'
  BY CalmEarlier DEF EndStep, FactsInv, FactsParts, Calm
<1>2. /\ Pushed' = Pushed /\ pushed' = pushed /\ log' = log /\ now' = now /\ srv' = srv
      /\ tuples' = tuples /\ \A q \in Passes \ {p} : pass'[q] = pass[q]
  BY DEF EndStep, Pushed
<1>3. FactsPass(p)'
  <2>1. ~Storing(p)'
    BY DEF EndStep, NoPass, Storing
  <2> QED
    BY <2>1, FactsIdle
<1>5. GoneRow'
  <2>1. SUFFICES ASSUME \A q \in Passes \ {p} : ~Storing(q) PROVE Gone(srv, tuples.outcome)
    BY <1>2 DEF GoneRow, Storing, Gone
  <2>2. CASE ~Storing(p)
    BY <1>1, <2>1, <2>2 DEF FactsParts, GoneRow
  <2>3. CASE pass[p].phase = "patch" /\ pass[p].result.patches = <<>>
    BY <1>1, <2>3, FinalNone DEF FactsParts, FactsPass, End, Told
  <2> QED
    BY <1>1, <2>2, <2>3 DEF EndStep
<1>6. QED
  BY <1>1, <1>2, <1>3, <1>5, FactsBeside

LEMMA BeginFacts ==
    ASSUME Types, Types', TimeInv', LeaseInv, FactsInv, StartStep \/ LoadStep \/ AcquireStep
    PROVE  FactsInv'
<1> SUFFICES ASSUME Calm', ~LateMoves PROVE FactsParts'
  BY DEF FactsInv, FactsParts
<1>1. NoOverrun /\ FactsParts
  BY CalmEarlier DEF StartStep, LoadStep, AcquireStep, FactsInv, FactsParts
<1>2. UNCHANGED <<now, srv, tuples, log>>
  BY DEF StartStep, LoadStep, AcquireStep
<1>5. "sync" \in Passes /\ "sweep" \in Passes
  BY DEF Passes
<1>6. CASE StartStep
  <2>1. \A p \in Passes : ~Storing(p) /\ ~Storing(p)'
    <3>1. \A p \in Passes : ~Storing(p)
      BY <1>1, <1>6 DEF StartStep, LeaseInv, NoOverrun, Active, Storing, Passes
    <3> QED
      BY <1>6, <3>1 DEF StartStep, Storing
  <2>3. Known(tuples.outcome)'
    BY <1>1, <1>2 DEF FactsParts, Known
  <2>4. GoneRow'
    BY <1>1, <1>2, <2>1 DEF FactsParts, GoneRow, Gone
  <2> QED
    BY <2>1, <2>3, <2>4, FactsIdle DEF FactsParts
<1>7. CASE LoadStep \/ AcquireStep
  <2>1. /\ ~Storing("sweep") /\ ~Storing("sweep")' /\ pushed' = pushed
        /\ \A q \in Passes \ {"sweep"} : pass'[q] = pass[q]
    BY <1>7 DEF LoadStep, AcquireStep, NoPass, Storing
  <2>2. Pushed' = Pushed
    BY <1>2, <2>1 DEF Pushed
  <2>3. GoneRow'
    BY <1>1, <1>2, <2>1 DEF FactsParts, GoneRow, Gone, Storing
  <2> QED
    BY <1>1, <1>2, <1>5, <2>1, <2>2, <2>3, FactsIdle, FactsBeside
<1>8. QED
  BY <1>6, <1>7

\* Without a fact of the block but lapses seen nothing was done in any slot.
LEMMA NothingDone ==
    ASSUME Types, NEW p \in Passes, ~Candidate(p), NEW slot
    PROVE  ~CompletedInWindow(Pushed, slot)
<1>1. log \in Seq(Facts) /\ pushed \in 0..Len(log)
  BY DEF Types, DeviceTypes, ServerTypes
<1>2. DOMAIN Pushed = 1..pushed /\ \A i \in 1..pushed : Pushed[i] = log[i]
  BY <1>1, Front DEF Pushed
<1>3. \A i \in DOMAIN Pushed : Pushed[i].kind = "seen"
  BY <1>2 DEF Candidate
<1>4. /\ InWindow(Pushed, "done", slot) = {} /\ InWindow(Pushed, "finish", slot) = {}
      /\ InWindow(Pushed, "part", slot) = {}
  BY <1>3 DEF InWindow
<1> DEFINE parts == InWindow(Pushed, "part", slot)
<1>5. Cardinality(parts) = 0
  <2>1. parts = {}
    BY <1>4
  <2> HIDE DEF parts
  <2> QED
    BY <2>1, FS_EmptySet
<1>6. QED
  BY <1>4, <1>5 DEF CompletedInWindow

LEMMA ReadResult ==
    ASSUME Types, NEW p \in Passes, Read(p)
    PROVE  pass'[p].result = IF Candidate(p) THEN MapUser(Row(p), Pushed, tuples, now, Mode(p))
                             ELSE Nothing
<1> DEFINE r == IF Candidate(p) THEN MapUser(Row(p), Pushed, tuples, now, Mode(p)) ELSE Nothing
           phase == IF Writes(r) THEN "write" ELSE "patch"
           next == [pass[p] EXCEPT !.phase = phase, !.row = Row(p), !.result = r]
<1>1. pass' = [pass EXCEPT ![p] = next] /\ pass[p] \in PassRecords /\ pass \in [Passes -> PassRecords]
  BY DEF Read, Types, PassTypes
<1> HIDE DEF r
<1>2. next.result = r
  BY <1>1 DEF PassRecords
<1> HIDE DEF next
<1>3. QED
  BY <1>1, <1>2 DEF r

\* One pass at work: what is known and what the others keep.
LEMMA FactsWork ==
    ASSUME Types, TimeInv, LeaseInv, FactsInv, ~LateMoves, Calm', NEW p \in Passes, PassOnly(p),
           Active(p), Storing(p)'
    PROVE  /\ FactsParts /\ (~Storing(p) => Gone(srv, tuples.outcome)) /\ GoneRow'
           /\ \A q \in Passes \ {p} : FactsPass(q)'
<1>1. Calm /\ NoOverrun
  BY DEF PassOnly, Calm, NoOverrun
<1>2. FactsParts
  BY <1>1 DEF FactsInv, FactsParts
<1>3. \A q \in Passes \ {p} : ~Storing(q) /\ ~Storing(q)'
  BY <1>1, Sole DEF PassOnly, Storing
<1>4. GoneRow'
  BY DEF GoneRow
<1>5. ~Storing(p) => Gone(srv, tuples.outcome)
  BY <1>2, <1>3 DEF FactsParts, GoneRow
<1>6. QED
  BY <1>2, <1>3, <1>4, <1>5, FactsIdle

LEMMA ReadFacts ==
    ASSUME Types, TimeInv, LeaseInv, CalmInv, FactsInv, NEW p \in Passes, Read(p), ReadStep(p)
    PROVE  FactsInv'
<1> SUFFICES ASSUME Calm', ~LateMoves PROVE FactsParts'
  BY DEF FactsInv, FactsParts
<1>0. /\ PassOnly(p) /\ Active(p) /\ Storing(p)' /\ ~Storing(p) /\ UNCHANGED <<srv, tuples>>
      /\ Pushed' = Pushed /\ now' = now /\ pushed' = pushed /\ log' = log
      /\ pass[p].phase = "read" /\ pass'[p].phase \in {"write", "patch"}
      /\ pass'[p].phase = "patch" => ~Writes(pass'[p].result)
  BY DEF ReadStep, PassOnly, Active, Storing, Pushed
<1>1. /\ FactsParts /\ Gone(srv, tuples.outcome) /\ GoneRow'
      /\ \A q \in Passes \ {p} : FactsPass(q)'
  BY <1>0, FactsWork
<1>2. CalmPass(p)
  BY <1>0 DEF CalmInv, PassOnly, Calm
<1> DEFINE r == pass'[p].result
           mode == Mode(p)
           stored == tuples.outcome
           o == After(r, stored)
           end == Final(srv, r.patches)
<1>3. /\ Row(p) = srv /\ mode \in {"daily", "instant"}
      /\ mode = "daily" => Shut(now, srv.slot) /\ now > srv.slot
  BY <1>0, <1>2 DEF Row, Mode, CalmPass, TimeInv, PassTimely
<1> HIDE DEF mode
<1>4. Known(o) /\ Told(end, o)
  <2>1. CASE Candidate(p)
    <3>1. r = MapUser(srv, Pushed, tuples, now, mode)
      BY <1>3, <2>1, ReadResult DEF mode
    <3>2. Known(stored)
      BY <1>1 DEF FactsParts
    <3>3. LET m == MapUser(srv, Pushed, tuples, now, mode)
          IN Known(After(m, tuples.outcome)) /\ Told(Final(srv, m.patches), After(m, tuples.outcome))
      BY <1>1, <1>3, <3>2, MapKnows
    <3> QED
      BY <3>1, <3>3
  <2>2. CASE ~Candidate(p)
    <3>1. r = Nothing
      BY <2>2, ReadResult
    <3>2. r.patches = <<>> /\ r.outcome = NoOutcome
      BY <3>1, NothingTyped
    <3> HIDE DEF r
    <3>3. end = srv /\ o = stored
      BY <3>2, FinalNone DEF After
    <3>4. Beats(srv, stored)
      BY <2>2, NothingDone DEF Beats
    <3> QED
      BY <1>1, <3>3, <3>4 DEF FactsParts, Told
  <2> QED
    BY <2>1, <2>2
<1>5. Stored(r).outcome = o /\ (~Writes(r) => o = stored)
  BY StoredAfter DEF After, Writes
<1>6. Stored(pass[p].result).outcome' = o /\ End(p)' = end
  BY <1>0, <1>5 DEF Stored, End
<1>7. pass'[p].phase = "patch" => tuples'.outcome = o
  BY <1>0, <1>5
<1> HIDE DEF o, end, r, stored
<1>8. FactsPass(p)'
  <2>3. Known(Stored(pass[p].result).outcome)'
    BY <1>4, <1>6 DEF Known
  <2>4. Told(End(p), Stored(pass[p].result).outcome)'
    BY <1>0, <1>4, <1>6 DEF Told, Gone, Beats
  <2>5. pass'[p].phase = "patch" => Told(End(p), tuples.outcome)'
    BY <1>0, <1>4, <1>6, <1>7 DEF Told, Gone, Beats
  <2>6. pass'[p].phase # "gate"
    BY <1>0
  <2> QED
    BY <2>3, <2>4, <2>5, <2>6 DEF FactsPass
<1>9. Known(tuples.outcome)'
  BY <1>0, <1>1 DEF FactsParts, Known
<1>10. QED
  BY <1>1, <1>8, <1>9 DEF FactsParts

LEMMA StoreFacts ==
    ASSUME Types, TimeInv, LeaseInv, FactsInv, NEW p \in Passes, StoreStep(p)
    PROVE  FactsInv'
<1> SUFFICES ASSUME Calm', ~LateMoves PROVE FactsParts'
  BY DEF FactsInv, FactsParts
<1>0. /\ PassOnly(p) /\ Active(p) /\ Storing(p)' /\ srv' = srv
      /\ Pushed' = Pushed /\ now' = now /\ pushed' = pushed /\ log' = log
      /\ pass'[p].result = pass[p].result /\ tuples' = Stored(pass[p].result)
      /\ pass[p].phase = "write" /\ pass'[p].phase = "gate"
  BY DEF StoreStep, PassOnly, Active, Storing, Pushed
<1>1. FactsParts /\ GoneRow' /\ \A q \in Passes \ {p} : FactsPass(q)'
  BY <1>0, FactsWork
<1> DEFINE o == Stored(pass[p].result).outcome
           end == End(p)
<1>2. Known(o) /\ Told(end, o)
  BY <1>0, <1>1 DEF FactsParts, FactsPass
<1>3. tuples'.outcome = o /\ End(p)' = end
  BY <1>0 DEF End
<1> HIDE DEF o, end
<1>4. Known(tuples.outcome)'
  BY <1>2, <1>3 DEF Known
<1>5. Told(End(p), tuples.outcome)'
  BY <1>0, <1>2, <1>3 DEF Told, Gone, Beats
<1>6. FactsPass(p)'
  BY <1>0, <1>5 DEF FactsPass
<1>7. QED
  BY <1>1, <1>4, <1>6 DEF FactsParts

LEMMA GateFacts ==
    ASSUME Types, TimeInv, LeaseInv, CalmInv, FactsInv, NEW p \in Passes, GateStep(p)
    PROVE  FactsInv'
<1> SUFFICES ASSUME Calm', ~LateMoves PROVE FactsParts'
  BY DEF FactsInv, FactsParts
<1>0. /\ PassOnly(p) /\ Active(p) /\ Storing(p)' /\ UNCHANGED <<srv, tuples>>
      /\ Pushed' = Pushed /\ now' = now /\ pushed' = pushed /\ log' = log
      /\ pass[p].phase = "gate" /\ pass'[p].phase = "patch"
      /\ StillStored(pass[p].result) => pass'[p].result.patches = pass[p].result.patches
  BY DEF GateStep, PassOnly, Active, Storing, Pushed
<1>1. FactsParts /\ GoneRow' /\ \A q \in Passes \ {p} : FactsPass(q)'
  BY <1>0, FactsWork
<1>2. CalmPass(p)
  BY <1>0 DEF CalmInv, PassOnly, Calm
<1>3. End(p)' = End(p)
  BY <1>0, <1>2 DEF CalmPass, End
<1>4. Told(End(p), tuples.outcome)'
  BY <1>0, <1>1, <1>3 DEF FactsParts, FactsPass, Told, Gone, Beats
<1>5. FactsPass(p)'
  BY <1>0, <1>4 DEF FactsPass
<1>6. Known(tuples.outcome)'
  BY <1>0, <1>1 DEF FactsParts, Known
<1>7. QED
  BY <1>1, <1>5, <1>6 DEF FactsParts

\* A patch moves the row only where the last move put it.
LEMMA PatchFacts ==
    ASSUME Types, Types', TimeInv, LeaseInv, CalmInv, FactsInv, NEW p \in Passes, PatchStep(p)
    PROVE  FactsInv'
<1> SUFFICES ASSUME Calm', ~LateMoves PROVE FactsParts'
  BY DEF FactsInv, FactsParts
<1> DEFINE patches == pass[p].result.patches
           patch == Head(patches)
           left == Tail(patches)
           next == Patched(srv, patch)
<1>0. /\ PassOnly(p) /\ Active(p) /\ Storing(p)' /\ tuples' = tuples
      /\ Pushed' = Pushed /\ now' = now /\ pushed' = pushed /\ log' = log
      /\ pass[p].phase = "patch" /\ pass'[p].phase = "patch" /\ patches # <<>>
      /\ srv' = IF Matches(p) THEN next ELSE srv
      /\ pass'[p].result.patches = left
  BY DEF PatchStep, PassOnly, Active, Storing, Pushed
<1>1. FactsParts /\ GoneRow' /\ \A q \in Passes \ {p} : FactsPass(q)'
  BY <1>0, FactsWork
<1>2. CalmPass(p)
  BY <1>0 DEF CalmInv, PassOnly, Calm
<1>3. srv.status = pass[p].row.status /\ Len(patches) <= 2
  BY <1>0, <1>2 DEF CalmPass, Leads
<1>4. patches \in Seq(Patches)
  BY DEF Types, PassTypes, PassRecords, Results
<1>5. srv' = next
  BY <1>0, <1>3 DEF Matches
<1> HIDE DEF patches
<1>6. Len(patches) \in {1, 2} /\ patch = patches[1]
  <2>1. /\ patch = patches[1] /\ left \in Seq(Patches)
        /\ Len(patches) \in Nat /\ Len(left) = Len(patches) - 1
    BY <1>0, <1>4, PatchesLeft
  <2> HIDE DEF patch, left
  <2>2. Len(left) \in Nat
    BY <2>1, LenProperties
  <2> QED
    BY <1>3, <2>1, <2>2
<1>7. Final(srv, patches) = Final(next, left)
  BY <1>4, <1>6, FinalFirst
<1> HIDE DEF next, left, patch
<1>8. End(p)' = End(p)
  BY <1>0, <1>5, <1>7 DEF End, patches
<1>9. Told(End(p), tuples.outcome)'
  BY <1>0, <1>1, <1>8 DEF FactsParts, FactsPass, Told, Gone, Beats
<1>10. FactsPass(p)'
  BY <1>0, <1>9 DEF FactsPass
<1>14. Known(tuples.outcome)'
  BY <1>0, <1>1 DEF FactsParts, Known
<1>15. QED
  BY <1>1, <1>10, <1>14 DEF FactsParts
-----------------------------------------------------------------------------
\* A sync that only pulls has no reward pass.
PullInv == pass["sync"].phase = "pull" => ~pass["sync"].rewards

LEMMA NextPull == ASSUME Types, Types', PullInv, Next PROVE PullInv'
<1> DEFINE started(rewards) == [NoPass EXCEPT !.phase = IF rewards THEN "read" ELSE "pull",
                                              !.rewards = rewards]
<1>0. "sync" \in Passes /\ "sweep" \in Passes /\ "sync" # "sweep"
  BY DEF Passes
<1>1. pass \in [Passes -> PassRecords] /\ NoPass.phase = "idle"
  BY NoPassTyped DEF Types, PassTypes
<1>2. CASE pass' = pass
  BY <1>2 DEF PullInv
<1>3. CASE StartSync
  <2>1. PICK rewards \in BOOLEAN : pass' = [pass EXCEPT !["sync"] = started(rewards)]
    BY <1>3 DEF StartSync
  <2>2. started(rewards).phase = "pull" => ~started(rewards).rewards
    BY DEF NoPass
  <2> HIDE DEF started
  <2>3. pass'["sync"] = started(rewards)
    BY <1>0, <1>1, <2>1
  <2> QED
    BY <2>2, <2>3 DEF PullInv
<1>4. CASE LoadDue \/ Acquire \/ SkipBusy \/ EndSweep
  <2>1. pass'["sync"] = pass["sync"]
    BY <1>0, <1>1, <1>4 DEF LoadDue, Acquire, SkipBusy, EndSweep
  <2> QED
    BY <2>1 DEF PullInv
<1>5. CASE Pull
  BY <1>0, <1>1, <1>5 DEF Pull, PullInv
<1>6. ASSUME NEW p \in Passes, Crash(p) PROVE PullInv'
  <2>1. pass'["sync"] \in {pass["sync"], NoPass}
    BY <1>0, <1>1, <1>6 DEF Crash
  <2> QED
    BY <1>1, <2>1 DEF PullInv
<1>7. ASSUME NEW p \in Passes, PassStep(p) PROVE PullInv'
  <2>1. ReadStep(p) \/ StoreStep(p) \/ GateStep(p) \/ PatchStep(p)
    BY <1>7, ReadSteps, StoreSteps, GateSteps, PatchSteps DEF PassStep
  <2>2. pass'[p].phase # "pull" /\ \A q \in Passes \ {p} : pass'[q] = pass[q]
    BY <2>1 DEF ReadStep, StoreStep, GateStep, PatchStep, PassOnly
  <2> QED
    BY <1>0, <2>2 DEF PullInv
<1>8. QED
  <2>1. Tick \/ Receive \/ LoseAnswer \/ Displace \/ Expire \/ Overrun => pass' = pass
    BY DEF Tick, Receive, LoseAnswer, Displace, Expire, Overrun
  <2>2. UserStep => pass' = pass
    BY DeviceKeepsTypes
  <2> QED
    BY <1>2, <1>3, <1>4, <1>5, <1>6, <1>7, <2>1, <2>2 DEF Next, UserStep

FInv == RInv /\ FactsInv /\ PullInv

LEMMA InitFInv == Init => FInv
<1> SUFFICES ASSUME Init PROVE FInv
  OBVIOUS
<1>1. RInv
  BY InitRInv
<1>2. tuples.outcome = NoOutcome /\ \A p \in Passes : pass[p].phase = "idle"
  BY DEF Init, NoPass
<1>3. NoOutcome.reason = "none" /\ ~NoOutcome.excluded /\ ~NoOutcome.corrected
  BY DEF NoOutcome
<1>4. Known(tuples.outcome) /\ GoneRow /\ \A p \in Passes : FactsPass(p)
  BY <1>2, <1>3 DEF Known, GoneRow, Gone, FactsPass
<1>5. PullInv
  BY <1>2 DEF PullInv, Passes
<1>6. QED
  BY <1>1, <1>4, <1>5 DEF FInv, FactsInv, FactsParts

LEMMA NextFInv == FInv /\ [Next]_vars => FInv'
<1> SUFFICES ASSUME FInv, [Next]_vars PROVE FInv'
  OBVIOUS
<1>1. /\ RInv /\ RInv' /\ Types /\ Types' /\ TimeInv /\ TimeInv' /\ LeaseInv /\ CalmInv
      /\ FactsInv /\ PullInv
  BY NextRInv DEF FInv, RInv, Inv
<1>2. PullInv'
  <2>1. CASE Next
    BY <1>1, <2>1, NextPull
  <2>2. CASE UNCHANGED vars
    BY <1>1, <2>2 DEF PullInv, vars
  <2> QED
    BY <2>1, <2>2
<1>3. CASE UserStep \/ WorldStep
  <2>1. QuietStep
    BY <1>1, <1>3, UserIsQuiet, WorldIsQuiet DEF TimeInv
  <2> QED
    BY <1>1, <1>2, <2>1, QuietFacts DEF FInv
<1>4. CASE Displace \/ Expire
  BY <1>1, <1>2, <1>4, RowSteps, RowFacts DEF FInv
<1>5. CASE SkipBusy \/ EndSweep \/ Pull \/ \E q \in Passes : Crash(q)
  <2>1. PICK p \in Passes : EndStep(p)
    BY <1>1, <1>5, EndSteps
  <2> QED
    BY <1>1, <1>2, <2>1, EndFacts DEF FInv
<1>6. CASE StartSync \/ LoadDue \/ Acquire
  <2>1. StartStep \/ LoadStep \/ AcquireStep
    BY <1>1, <1>6, StartSteps, LoadSteps, AcquireSteps
  <2> QED
    BY <1>1, <1>2, <2>1, BeginFacts DEF FInv
<1>7. ASSUME NEW p \in Passes, PassStep(p) PROVE FInv'
  <2>1. CASE Read(p)
    BY <1>1, <1>2, <2>1, ReadSteps, ReadFacts DEF FInv
  <2>2. CASE WriteTuples(p)
    BY <1>1, <1>2, <2>2, StoreSteps, StoreFacts DEF FInv
  <2>3. CASE Gate(p)
    BY <1>1, <1>2, <2>3, GateSteps, GateFacts DEF FInv
  <2>4. CASE PatchRec(p)
    BY <1>1, <1>2, <2>4, PatchSteps, PatchFacts DEF FInv
  <2> QED
    BY <1>7, <2>1, <2>2, <2>3, <2>4 DEF PassStep
<1>8. QED
  BY <1>3, <1>4, <1>5, <1>6, <1>7 DEF Next, UserStep, WorldStep

\* attribute-rewards, processUser in a sync: facts beat plans, when nothing but an answer is
\* lost and no block is moved after 23:55.  A sync that ends with its reward pass leaves a
\* block done in its slot as completed, however the sweep came in between, whenever a session
\* of the slot is ended and logged; but for a lapse already raised to a partial session.
THEOREM FactsWin == ASSUME ~LateMoves PROVE Spec => FactsBeatPlans
<1>1. FInv /\ [Next]_vars =>
        [Pull /\ pass["sync"].rewards /\ Calm /\ CompletedInWindow(Pushed, srv.slot) =>
          \/ srv.status \in {"expired", "displaced"}
          \/ tuples.outcome.reason \in {"completed", "skipped"}
          \/ tuples.outcome.reason = "partial" /\ tuples.outcome.corrected
          \/ srv.status = "displaced_pending" /\ tuples.outcome.reason = "partial"
          \/ tuples.outcome # NoOutcome /\ now - tuples.outcome.at > Window]_vars
  <2> SUFFICES ASSUME FInv, Pull, pass["sync"].rewards, Calm PROVE Beats(srv, tuples.outcome)
    BY DEF Beats
  <2>1. /\ "sync" \in Passes /\ pass["sync"].phase = "patch"
        /\ pass["sync"].result.patches = <<>>
    BY DEF FInv, PullInv, Pull, Passes
  <2>2. FactsPass("sync")
    BY <2>1 DEF FInv, FactsInv, FactsParts
  <2> QED
    BY <2>1, <2>2, FinalNone DEF FactsPass, End, Told
<1>2. Init => FInv
  BY InitFInv
<1>3. FInv /\ [Next]_vars => FInv'
  BY NextFInv
<1>4. QED
  BY <1>1, <1>2, <1>3, PTL DEF Spec, FactsBeatPlans
=============================================================================
