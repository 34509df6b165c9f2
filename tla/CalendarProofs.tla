---------------------------- MODULE CalendarProofs ----------------------------
(***************************************************************************)
(* Proofs about Calendar, for any events, blocks, slots, jobs that fail    *)
(* and any bounds: with calls of the user apart from the jobs (~Racing)    *)
(* and jobs that wait for their lease (~Impatient), CalendarSound holds.   *)
(*                                                                         *)
(* Without the first hypothesis a sync beside a disconnect brings the row  *)
(* and its token back; without the second two jobs write the same copy.    *)
(***************************************************************************)
EXTENDS Calendar, FiniteSetTheorems, WellFoundedInduction, TLAPS

Stages == {"channel", "lease", "list", "wipe", "upsert", "mark", "save", "writeback", "call", "note", "delete"}
Changes == [slot : Slots \cup {None}, seq : Nat]
Ids == Nat \cup {None}
Deltas == [event : Events, at : Changes]
Works == [rec : Recs, do : {"insert", "patch", "delete"}, slot : Slots \cup {None}, gid : Ids]
Made == [rec : Recs, gid : Ids, slot : Slots \cup {None}]
JobRecords ==
  [pc : Stages, token : Ids, writeBack : BOOLEAN, sync : BOOLEAN, delta : SUBSET Deltas, upTo : Nat,
   ids : SUBSET Recs, todo : SUBSET Works, made : Made \cup {None}, refresh : BOOLEAN]
Rows ==
  [stored : BOOLEAN, nonce : {"read", "write", None}, refresh : BOOLEAN, pending : BOOLEAN,
   confirmed : BOOLEAN, scope : {"read", "write"}, writeBack : BOOLEAN, token : Ids, channel : BOOLEAN]
Blocks ==
  [status : Open \cup {"none", "closed", "displaced"}, slot : Slots \cup {None}, gid : Ids,
   synced : Slots \cup {None}, chosen : BOOLEAN, time : {"ahead", "ended", "out"}]

GoogleTypes ==
  /\ event \in [Events -> Changes] /\ seq \in Nat /\ oldest \in Nat /\ granted \in BOOLEAN
  /\ IsFiniteSet(copies) /\ \A c \in copies : c.id \in Nat /\ c.rec \in Recs

AppTypes ==
  /\ row \in Rows /\ mirror \in [Events -> Changes] /\ rec \in [Recs -> Blocks]
  /\ lease \in Syncs \cup {"dead", None} /\ lost \in Nat /\ wiped \in BOOLEAN

JobTypes == job \in [Jobs -> {Idle} \cup JobRecords]
Types == GoogleTypes /\ AppTypes /\ JobTypes

\* A job is idle or has the fields of a job.
LEMMA JobKinds ==
  ASSUME JobTypes, NEW p \in Jobs
  PROVE  /\ At(p, "off") <=> job[p] = Idle
         /\ ~At(p, "off") => job[p] \in JobRecords
BY DEF JobTypes, At, Idle, JobRecords, Stages

\* A step of one job is no step of another.
LEMMA JobStep ==
  ASSUME JobTypes, NEW p \in Jobs, NEW x \in {Idle} \cup JobRecords, job' = [job EXCEPT ![p] = x]
  PROVE  JobTypes' /\ job'[p] = x /\ \A q \in Jobs \ {p} : job'[q] = job[q]
BY DEF JobTypes

\* A job that goes on keeps what it works with.
LEMMA GoStep ==
  ASSUME JobTypes, NEW p \in Jobs, ~At(p, "off"), NEW at \in Stages, Goto(p, at)
  PROVE  /\ JobTypes' /\ job'[p] = [job[p] EXCEPT !.pc = at] /\ job'[p] \in JobRecords
         /\ \A q \in Jobs \ {p} : job'[q] = job[q]
<1>1. job[p] \in JobRecords
  BY JobKinds
<1>2. [job[p] EXCEPT !.pc = at] \in JobRecords
  BY <1>1 DEF JobRecords
<1>3. job' = [job EXCEPT ![p] = [job[p] EXCEPT !.pc = at]]
  BY DEF Goto, JobTypes
<1> QED
  BY <1>2, <1>3, JobStep

\* What a job loads has the fields of a job.
LEMMA LoadedTyped ==
  ASSUME AppTypes, NEW p \in Jobs, NEW at \in Stages, NEW due \in BOOLEAN
  PROVE  Loaded(p, at, due) \in JobRecords
BY DEF AppTypes, Loaded, JobRecords, Rows, Ids

\* A job that is done with the calendar keeps only what the write-back needs.
LEMMA DoneStep ==
  ASSUME JobTypes, NEW p \in Jobs, ~At(p, "off"), NEW at \in Stages, Done(p, at)
  PROVE  /\ JobTypes' /\ job'[p] \in JobRecords
         /\ job'[p].pc = at /\ job'[p].token = None /\ job'[p].todo = job[p].todo /\ job'[p].made = job[p].made
         /\ \A q \in Jobs \ {p} : job'[q] = job[q]
<1>1. job[p] \in JobRecords
  BY JobKinds
<1> DEFINE x == [job[p] EXCEPT !.delta = {}, !.upTo = 0, !.token = None, !.sync = FALSE, !.pc = at]
<1>2. x \in JobRecords /\ x.pc = at /\ x.token = None /\ x.todo = job[p].todo /\ x.made = job[p].made
  BY <1>1 DEF JobRecords, Ids
<1>3. job' = [job EXCEPT ![p] = x]
  BY DEF Done, JobTypes
<1> HIDE DEF x
<1> QED
  BY <1>2, <1>3, JobStep

\* A block that is placed, moved, closed or over is a block still.
LEMMA PlanStep ==
  ASSUME Types, CalendarAssumption, NEW r \in Recs,
         (\E slot \in Planned : Place(r, slot)) \/ (\E slot \in Slots : MoveBlock(r, slot))
         \/ CloseBlock(r) \/ SlotEnds(r) \/ DayEnds(r)
  PROVE  /\ Types'
         /\ \A q \in Recs : rec'[q].gid = rec[q].gid /\ rec'[q].synced = rec[q].synced
         /\ \A q \in Recs \ {r} : rec'[q] = rec[q]
         /\ UNCHANGED <<event, seq, copies, row, mirror, lease, job, lost, wiped>>
<1> USE DEF Types, GoogleTypes, AppTypes, JobTypes, google
<1>1. rec[r] \in Blocks
  OBVIOUS
<1>2. ASSUME NEW slot \in Planned, Place(r, slot)
      PROVE rec'[r] \in Blocks /\ rec'[r].gid = rec[r].gid /\ rec'[r].synced = rec[r].synced
                                                   /\ rec' = [rec EXCEPT ![r] = rec'[r]]
  <2> DEFINE b == [rec[r] EXCEPT !.status = "shown", !.slot = slot]
  <2>1. b \in Blocks /\ b.gid = rec[r].gid /\ b.synced = rec[r].synced
    BY <1>1, CalendarAssumption DEF Blocks, Open
  <2>2. rec' = [rec EXCEPT ![r] = b]
    BY <1>2 DEF Place
  <2> HIDE DEF b
  <2> QED
    BY <2>1, <2>2
<1>3. ASSUME NEW slot \in Slots, MoveBlock(r, slot)
      PROVE rec'[r] \in Blocks /\ rec'[r].gid = rec[r].gid /\ rec'[r].synced = rec[r].synced
                                                   /\ rec' = [rec EXCEPT ![r] = rec'[r]]
  <2> DEFINE b == [rec[r] EXCEPT !.status = "moved", !.slot = slot, !.chosen = TRUE, !.time = "ahead"]
  <2>1. b \in Blocks /\ b.gid = rec[r].gid /\ b.synced = rec[r].synced
    BY <1>1, CalendarAssumption DEF Blocks, Open
  <2>2. rec' = [rec EXCEPT ![r] = b]
    BY <1>3 DEF MoveBlock
  <2> HIDE DEF b
  <2> QED
    BY <2>1, <2>2
<1>4. ASSUME CloseBlock(r)
      PROVE rec'[r] \in Blocks /\ rec'[r].gid = rec[r].gid /\ rec'[r].synced = rec[r].synced
                                                   /\ rec' = [rec EXCEPT ![r] = rec'[r]]
  <2> DEFINE b == [rec[r] EXCEPT !.status = "closed"]
  <2>1. b \in Blocks /\ b.gid = rec[r].gid /\ b.synced = rec[r].synced
    BY <1>1 DEF Blocks
  <2>2. rec' = [rec EXCEPT ![r] = b]
    BY <1>4 DEF CloseBlock
  <2> HIDE DEF b
  <2> QED
    BY <2>1, <2>2
<1>8. ASSUME SlotEnds(r) \/ DayEnds(r)
      PROVE rec'[r] \in Blocks /\ rec'[r].gid = rec[r].gid /\ rec'[r].synced = rec[r].synced
                                                   /\ rec' = [rec EXCEPT ![r] = rec'[r]]
  <2>1. PICK t \in {"ended", "out"} : rec' = [rec EXCEPT ![r].time = t]
    BY <1>8 DEF SlotEnds, DayEnds
  <2> DEFINE b == [rec[r] EXCEPT !.time = t]
  <2>2. b \in Blocks /\ b.gid = rec[r].gid /\ b.synced = rec[r].synced
    BY <1>1 DEF Blocks
  <2>3. rec' = [rec EXCEPT ![r] = b]
    BY <2>1
  <2> HIDE DEF b
  <2> QED
    BY <2>2, <2>3
<1>5. /\ rec'[r] \in Blocks
      /\ rec'[r].gid = rec[r].gid
      /\ rec'[r].synced = rec[r].synced
      /\ rec' = [rec EXCEPT ![r] = rec'[r]]
  BY <1>2, <1>3, <1>4, <1>8
<1>6. UNCHANGED <<event, seq, oldest, granted, copies, row, mirror, lease, job, lost, wiped>>
  BY DEF Place, MoveBlock, CloseBlock, SlotEnds, DayEnds
<1>7. rec' \in [Recs -> Blocks]
  BY <1>5
<1> QED
  BY <1>5, <1>6, <1>7

\* Consent and purge change the row, and nothing of it that a sync goes on from.
LEMMA ConsentStep ==
  ASSUME Types,
         (\E scope \in {"read", "write"} : StartConsent(scope)) \/ Callback \/ Purge \/ WriteBackOn \/ LeaseExpires \/ ExpireTokens
  PROVE  /\ Types' /\ row'.token = row.token /\ seq <= seq'
         /\ UNCHANGED <<event, copies, mirror, rec, job, lost, wiped>>
         /\ lease' = lease \/ (lease' = None /\ lease = "dead")
<1> USE DEF Types, GoogleTypes, AppTypes, JobTypes, google
<1>1. CASE \E scope \in {"read", "write"} : StartConsent(scope)
  <2>1. row' \in Rows /\ row'.token = row.token
    BY <1>1 DEF StartConsent, WithNonce, Saved, Rows
  <2> QED
    BY <1>1, <2>1 DEF StartConsent
<1>2. CASE Callback
  <2> DEFINE spent == [row EXCEPT !.nonce = None]
  <2>1. spent \in Rows /\ spent.token = row.token
    BY DEF Rows
  <2>2. Exchanged(spent) \in Rows /\ Exchanged(spent).token = row.token
    <3>1. GrantedScope(spent.scope, row.nonce) \in {"read", "write"}
      BY DEF GrantedScope
    <3>2. (spent.writeBack \/ row.nonce = "write") \in BOOLEAN
      OBVIOUS
    <3>3. Exchanged(spent) = [spent EXCEPT !.refresh = TRUE, !.pending = TRUE, !.scope = GrantedScope(spent.scope, row.nonce),
                                   !.writeBack = spent.writeBack \/ row.nonce = "write"]
      BY <2>1 DEF Exchanged, Rows
    <3> HIDE DEF spent
    <3>4. [spent EXCEPT !.refresh = TRUE, !.pending = TRUE, !.scope = GrantedScope(spent.scope, row.nonce),
                                   !.writeBack = spent.writeBack \/ row.nonce = "write"] \in Rows
      BY <2>1, <3>1, <3>2 DEF Rows
    <3>5. Exchanged(spent).token = spent.token
      BY <2>1, <3>3 DEF Rows
    <3> QED
      BY <2>1, <3>3, <3>4, <3>5
  <2>3. (row' = spent /\ UNCHANGED granted) \/ (row' = Exchanged(spent) /\ granted' = TRUE)
    BY <1>2 DEF Callback
  <2>4. UNCHANGED <<event, seq, oldest, copies, mirror, rec, lease, job, lost, wiped>>
    BY <1>2 DEF Callback
  <2> HIDE DEF spent
  <2>5. row' \in Rows /\ row'.token = row.token /\ granted' \in BOOLEAN
    BY <2>1, <2>2, <2>3
  <2> QED
    BY <2>4, <2>5
<1>3. CASE Purge
  <2>1. row' \in Rows /\ row'.token = row.token
    BY <1>3 DEF Purge, Rows
  <2> QED
    BY <1>3, <2>1 DEF Purge
<1>4. CASE WriteBackOn
  <2>1. row' \in Rows /\ row'.token = row.token
    BY <1>4 DEF WriteBackOn, Rows
  <2> QED
    BY <1>4, <2>1 DEF WriteBackOn
<1>5. CASE LeaseExpires
  BY <1>5 DEF LeaseExpires
<1>6. CASE ExpireTokens
  BY <1>6 DEF ExpireTokens
<1> QED
  BY <1>1, <1>2, <1>3, <1>4, <1>5, <1>6

\* A job that starts has loaded the row as it is.
LEMMA StartStep ==
  ASSUME Types, ~Racing, Confirm \/ PushStart \/ \E due \in BOOLEAN : SweepStart(due)
  PROVE  /\ Types' /\ row'.token = row.token
         /\ UNCHANGED <<event, seq, copies, mirror, rec, lease, lost, wiped>>
         /\ \E p \in Syncs, at \in {"lease", "channel"}, due \in BOOLEAN :
              /\ At(p, "off") /\ (at = "channel" => p = "sweep")
              /\ At("switch", "off") /\ At("disconnect", "off")
              /\ job'[p] = Loaded(p, at, due)
              /\ \A q \in Jobs \ {p} : job'[q] = job[q]
<1> USE DEF Types, GoogleTypes, AppTypes, google
<1>1. CASE Confirm
  <2>1. row' \in Rows /\ row'.token = row.token
    BY <1>1 DEF Confirm, Rows
  <2>2. Loaded("confirm", "lease", TRUE) \in JobRecords /\ "confirm" \in Jobs
    BY LoadedTyped DEF Jobs, Syncs, Stages
  <2>3. /\ JobTypes'
        /\ job'["confirm"] = Loaded("confirm", "lease", TRUE)
        /\ \A q \in Jobs \ {"confirm"} : job'[q] = job[q]
    BY <1>1, <2>2, JobStep DEF Confirm
  <2>4. At("confirm", "off") /\ At("switch", "off") /\ At("disconnect", "off")
    BY <1>1 DEF Confirm, MayStart, Quiet, Jobs, Syncs, At
  <2>5. UNCHANGED <<event, seq, oldest, granted, copies, mirror, rec, lease, lost, wiped>>
    BY <1>1 DEF Confirm
  <2>6. Types'
    BY <2>1, <2>3, <2>5
  <2>7. "confirm" \in Syncs
    BY DEF Syncs
  <2> QED
    BY <2>1, <2>3, <2>4, <2>5, <2>6, <2>7
<1>2. CASE PushStart
  <2>2. Loaded("push", "lease", TRUE) \in JobRecords /\ "push" \in Jobs
    BY LoadedTyped DEF Jobs, Syncs, Stages
  <2>3. JobTypes' /\ job'["push"] = Loaded("push", "lease", TRUE) /\ \A q \in Jobs \ {"push"} : job'[q] = job[q]
    BY <1>2, <2>2, JobStep DEF PushStart
  <2> QED
    BY <1>2, <2>3 DEF PushStart, MaySync, Syncs
<1>3. CASE \E due \in BOOLEAN : SweepStart(due)
  <2>1. PICK due \in BOOLEAN : SweepStart(due)
    BY <1>3
  <2>2. Loaded("sweep", "channel", due) \in JobRecords /\ "sweep" \in Jobs
    BY LoadedTyped DEF Jobs, Syncs, Stages
  <2>3. /\ JobTypes'
        /\ job'["sweep"] = Loaded("sweep", "channel", due)
        /\ \A q \in Jobs \ {"sweep"} : job'[q] = job[q]
    BY <2>1, <2>2, JobStep DEF SweepStart
  <2> QED
    BY <2>1, <2>3 DEF SweepStart, MaySync, Syncs
<1> QED
  BY <1>1, <1>2, <1>3

\* Every nonempty set of natural numbers has a least element.
LEMMA LeastNat ==
    ASSUME NEW T \in SUBSET Nat, T # {}
    PROVE  \E x \in T : \A y \in T : x <= y
<1> DEFINE R == OpToRel(<, Nat)
<1>1. IsWellFoundedOn(R, Nat)
  BY NatLessThanWellFounded
<1>2. \A x, y \in Nat : x < y => <<x, y>> \in R
  BY DEF OpToRel
<1> HIDE DEF R
<1>3. PICK x \in T : \A y \in T : ~(<<y, x>> \in R)
  BY <1>1, WFMin
<1>4. \A y \in T : x <= y
  <2> TAKE y \in T
  <2>1. x \in Nat /\ y \in Nat /\ ~(y < x)
    BY <1>2, <1>3
  <2> QED
    BY <2>1
<1>5. QED
  BY <1>4

\* A bounded one has a greatest element.
LEMMA GreatestNat ==
    ASSUME NEW n \in Nat, NEW T \in SUBSET (0..n), T # {}
    PROVE  \E x \in T : \A y \in T : y <= x
<1> DEFINE U == {n - t : t \in T}
<1>1. U \in SUBSET Nat /\ U # {}
  <2>1. \A t \in T : n - t \in Nat
    OBVIOUS
  <2> QED
    BY <2>1
<1>2. PICK u \in U : \A v \in U : u <= v
  BY <1>1, LeastNat
<1>3. PICK x \in T : u = n - x
  BY <1>2
<1>4. ASSUME NEW y \in T PROVE y <= x
  <2>1. n - x <= n - y
    BY <1>2, <1>3
  <2> QED
    BY <2>1
<1>5. QED
  BY <1>4

IdInv ==
  \E n \in Nat : /\ \A c \in copies : c.id <= n
                 /\ \A r \in Recs : rec[r].gid # None => rec[r].gid <= n

\* A new event of Google's has an id nobody knows.
LEMMA NewIdIsNew ==
  ASSUME Types, IdInv
  PROVE  /\ NewId \in Nat
         /\ \A c \in copies : c.id < NewId
         /\ \A r \in Recs : rec[r].gid # None => rec[r].gid < NewId
<1> DEFINE T == {0} \cup {c.id : c \in copies} \cup ({rec[r].gid : r \in Recs} \ {None})
<1>1. \A c \in copies : c.id \in Nat
  BY DEF Types, GoogleTypes
<1>2. \A r \in Recs : rec[r].gid \in Ids
  BY DEF Types, AppTypes, Blocks
<1>3. PICK n \in Nat : /\ \A c \in copies : c.id <= n
                       /\ \A r \in Recs : rec[r].gid # None => rec[r].gid <= n
  BY DEF IdInv
<1>4. T \in SUBSET (0 .. n) /\ T # {}
  BY <1>1, <1>2, <1>3 DEF Ids
<1>5. \E x \in T : \A y \in T : y <= x
  BY <1>4, GreatestNat
<1> DEFINE x == Max(T)
<1>6. x \in T /\ \A y \in T : y <= x
  BY <1>4, <1>5 DEF Max
<1>7. NewId = 1 + x
  BY DEF NewId
<1>8. \A c \in copies : c.id \in T
  OBVIOUS
<1>9. \A r \in Recs : rec[r].gid # None => rec[r].gid \in T
  OBVIOUS
<1>10. x \in Nat
  BY <1>4, <1>6
<1> HIDE DEF T, x
<1> QED
  BY <1>1, <1>2, <1>6, <1>7, <1>8, <1>9, <1>10 DEF Ids

\* The channel is open; the sweep goes for its lease, the confirm on to the write-back.
LEMMA ChannelStep ==
  ASSUME Types, NEW p \in Jobs, EnsureChannel(p)
  PROVE  /\ Types' /\ row'.token = row.token
         /\ UNCHANGED <<event, seq, copies, mirror, rec, lease, lost, wiped>>
         /\ At(p, "channel") /\ job[p] \in JobRecords
         /\ job'[p] = [job[p] EXCEPT !.pc = IF p = "sweep" THEN "lease" ELSE "writeback"]
         /\ \A q \in Jobs \ {p} : job'[q] = job[q]
<1> USE DEF Types, GoogleTypes, AppTypes, google
<1>1. row' \in Rows /\ row'.token = row.token
  <2>1. Watched \in Rows /\ Watched.token = row.token
    BY DEF Watched, Saved, Rows
  <2> QED
    BY <2>1 DEF EnsureChannel
<1>2. ~At(p, "off") /\ At(p, "channel")
  BY DEF EnsureChannel, At
<1>3. /\ JobTypes'
      /\ job'[p] = [job[p] EXCEPT !.pc = IF p = "sweep" THEN "lease" ELSE "writeback"]
      /\ \A q \in Jobs \ {p} : job'[q] = job[q]
  BY <1>2, GoStep DEF EnsureChannel, Stages
<1>4. job[p] \in JobRecords
  BY <1>2, JobKinds
<1> QED
  BY <1>1, <1>2, <1>3, <1>4 DEF EnsureChannel

\* A job with the lease lists, unless it was not due.
LEMMA AcquireStep ==
  ASSUME Types, ~Impatient, NEW p \in Syncs, Acquire(p)
  PROVE  /\ Types'
         /\ UNCHANGED <<event, seq, copies, row, mirror, rec, lost, wiped>>
         /\ At(p, "lease") /\ job[p] \in JobRecords /\ lease = None /\ lease' = p
         /\ job'[p] \in JobRecords
         /\ \/ job'[p].pc = "list" /\ job'[p].token = job[p].token
            \/ job'[p].pc = "writeback" /\ job'[p].token = None
         /\ \A q \in Jobs \ {p} : job'[q] = job[q]
<1> USE DEF Types, GoogleTypes, AppTypes, google
<1>0. p \in Jobs
  BY DEF Jobs
<1>1. At(p, "lease") /\ ~At(p, "off") /\ lease = None /\ lease' = p
  BY DEF Acquire, At
<1>2. job[p] \in JobRecords
  BY <1>0, <1>1, JobKinds
<1>3. CASE job[p].sync
  <2>1. Goto(p, "list")
    BY <1>3 DEF Acquire
  <2>2. /\ JobTypes'
        /\ job'[p] = [job[p] EXCEPT !.pc = "list"]
        /\ job'[p] \in JobRecords
        /\ \A q \in Jobs \ {p} : job'[q] = job[q]
    BY <1>0, <1>1, <2>1, GoStep DEF Stages
  <2>3. job'[p].pc = "list" /\ job'[p].token = job[p].token
    BY <1>2, <2>2 DEF JobRecords
  <2> QED
    BY <1>1, <1>2, <2>2, <2>3 DEF Acquire
<1>4. CASE ~job[p].sync
  <2>1. Done(p, "writeback")
    BY <1>4 DEF Acquire
  <2>2. /\ JobTypes'
        /\ job'[p] \in JobRecords
        /\ job'[p].pc = "writeback"
        /\ job'[p].token = None
        /\ \A q \in Jobs \ {p} : job'[q] = job[q]
    BY <1>0, <1>1, <2>1, DoneStep DEF Stages
  <2> QED
    BY <1>1, <1>2, <2>2 DEF Acquire
<1> QED
  BY <1>3, <1>4

\* The list, or the way to the wipe.
LEMMA ListStep ==
  ASSUME Types, NEW p \in Jobs, List(p)
  PROVE  /\ Types'
         /\ UNCHANGED <<event, seq, copies, row, mirror, rec, lease, lost, wiped>>
         /\ At(p, "list") /\ job[p] \in JobRecords /\ job'[p] \in JobRecords
         /\ job'[p].token = job[p].token
         /\ \/ job'[p].pc = "wipe"
            \/ /\ job'[p].pc = "upsert" /\ job'[p].upTo = seq
               /\ job'[p].delta = {[event |-> e, at |-> event[e]] : e \in Since(job[p].token)}
         /\ \A q \in Jobs \ {p} : job'[q] = job[q]
<1> USE DEF Types, GoogleTypes, AppTypes, google
<1>1. At(p, "list") /\ ~At(p, "off")
  BY DEF List, At
<1>2. job[p] \in JobRecords
  BY <1>1, JobKinds
<1>3. CASE job[p].token # None /\ job[p].token < oldest
  <2>1. Goto(p, "wipe")
    BY <1>3 DEF List
  <2>2. /\ JobTypes'
        /\ job'[p] = [job[p] EXCEPT !.pc = "wipe"]
        /\ job'[p] \in JobRecords
        /\ \A q \in Jobs \ {p} : job'[q] = job[q]
    BY <1>1, <2>1, GoStep DEF Stages
  <2>3. job'[p].pc = "wipe" /\ job'[p].token = job[p].token
    BY <1>2, <2>2 DEF JobRecords
  <2> QED
    BY <1>1, <1>2, <2>2, <2>3 DEF List
<1>4. CASE ~(job[p].token # None /\ job[p].token < oldest)
  <2> DEFINE D == {[event |-> e, at |-> event[e]] : e \in Since(job[p].token)}
             x == [job[p] EXCEPT !.delta = D, !.upTo = seq, !.pc = "upsert"]
  <2>1. D \in SUBSET Deltas
    BY DEF Since, Deltas
  <2>2. job' = [job EXCEPT ![p] = x]
    BY <1>4 DEF List, JobTypes
  <2> HIDE DEF D
  <2>3. x \in JobRecords /\ x.delta = D /\ x.upTo = seq /\ x.pc = "upsert" /\ x.token = job[p].token
    BY <1>2, <2>1 DEF JobRecords, Stages
  <2> HIDE DEF x
  <2>4. JobTypes' /\ job'[p] = x /\ \A q \in Jobs \ {p} : job'[q] = job[q]
    BY <2>2, <2>3, JobStep
  <2> QED
    BY <1>1, <1>2, <2>3, <2>4 DEF List, D
<1> QED
  BY <1>3, <1>4

\* The wipe after a 410: the mirror is empty, and the job lists everything.
LEMMA WipeStep ==
  ASSUME Types, NEW p \in Jobs, WipeForFull(p)
  PROVE  /\ Types'
         /\ UNCHANGED <<event, seq, copies, row, rec, lease, lost>>
         /\ At(p, "wipe") /\ job[p] \in JobRecords /\ job'[p] \in JobRecords
         /\ job'[p].pc = "list" /\ job'[p].token = None
         /\ wiped' /\ mirror' = [e \in Events |-> Gone]
         /\ \A q \in Jobs \ {p} : job'[q] = job[q]
<1> USE DEF Types, GoogleTypes, AppTypes, google
<1>1. At(p, "wipe") /\ ~At(p, "off")
  BY DEF WipeForFull, At
<1>2. job[p] \in JobRecords
  BY <1>1, JobKinds
<1> DEFINE x == [job[p] EXCEPT !.token = None, !.pc = "list"]
<1>3. x \in JobRecords /\ x.pc = "list" /\ x.token = None
  BY <1>2 DEF JobRecords, Stages, Ids
<1>4. job' = [job EXCEPT ![p] = x]
  BY DEF WipeForFull, JobTypes
<1> HIDE DEF x
<1>5. JobTypes' /\ job'[p] = x /\ \A q \in Jobs \ {p} : job'[q] = job[q]
  BY <1>3, <1>4, JobStep
<1>6. mirror' \in [Events -> Changes]
  BY DEF WipeForFull, WipeMirror, Gone, Changes
<1> QED
  BY <1>1, <1>2, <1>3, <1>5, <1>6 DEF WipeForFull, WipeMirror

\* The upsert: an event is as it was listed, or as it was in the mirror if it was not listed.
LEMMA UpsertStep ==
  ASSUME Types, NEW p \in Jobs, Upsert(p)
  PROVE  /\ Types'
         /\ UNCHANGED <<event, seq, copies, row, rec, lease, lost, wiped>>
         /\ At(p, "upsert") /\ job[p] \in JobRecords /\ job'[p] \in JobRecords
         /\ job'[p].pc = "mark" /\ job'[p].token = job[p].token /\ job'[p].upTo = job[p].upTo
         /\ job'[p].ids = Overlapped(p)
         /\ \A e \in Events :
              \/ mirror'[e] = mirror[e] /\ \A d \in job[p].delta : d.event # e
              \/ \E d \in job[p].delta : d.event = e /\ mirror'[e] = d.at
         /\ \A q \in Jobs \ {p} : job'[q] = job[q]
<1> USE DEF Types, GoogleTypes, AppTypes, google
<1>1. At(p, "upsert") /\ ~At(p, "off")
  BY DEF Upsert, At
<1>2. job[p] \in JobRecords
  BY <1>1, JobKinds
<1> DEFINE x == [job[p] EXCEPT !.ids = Overlapped(p), !.delta = {}, !.pc = "mark"]
<1>3. /\ x \in JobRecords
      /\ x.pc = "mark"
      /\ x.token = job[p].token
      /\ x.upTo = job[p].upTo
      /\ x.ids = Overlapped(p)
  <2>1. Overlapped(p) \in SUBSET Recs
    BY DEF Overlapped
  <2> QED
    BY <1>2, <2>1 DEF JobRecords, Stages
<1>4. job' = [job EXCEPT ![p] = x]
  BY DEF Upsert, JobTypes
<1> HIDE DEF x
<1>5. JobTypes' /\ job'[p] = x /\ \A q \in Jobs \ {p} : job'[q] = job[q]
  BY <1>3, <1>4, JobStep
<1>6. ASSUME NEW e \in Events
      PROVE  /\ mirror'[e] \in Changes
             /\ \/ mirror'[e] = mirror[e] /\ \A d \in job[p].delta : d.event # e
                \/ \E d \in job[p].delta : d.event = e /\ mirror'[e] = d.at
  <2>1. CASE \E d \in job[p].delta : d.event = e
    <3>1. mirror'[e] = (CHOOSE d \in job[p].delta : d.event = e).at
      BY <2>1 DEF Upsert
    <3>2. PICK d \in job[p].delta : d.event = e /\ mirror'[e] = d.at
      BY <2>1, <3>1
    <3>3. d \in Deltas
      BY <1>2, <3>2 DEF JobRecords
    <3> QED
      BY <3>2, <3>3 DEF Deltas
  <2>2. CASE ~\E d \in job[p].delta : d.event = e
    BY <2>2 DEF Upsert
  <2> QED
    BY <2>1, <2>2
<1>7. mirror' \in [Events -> Changes]
  BY <1>6 DEF Upsert
<1> QED
  BY <1>1, <1>2, <1>3, <1>5, <1>6, <1>7 DEF Upsert

\* The displacement closes blocks and changes nothing else of them.
LEMMA MarkStep ==
  ASSUME Types, NEW p \in Jobs, MarkDisplaced(p)
  PROVE  /\ Types'
         /\ UNCHANGED <<event, seq, copies, row, mirror, lease, lost, wiped>>
         /\ At(p, "mark") /\ job[p] \in JobRecords /\ job'[p] \in JobRecords
         /\ job'[p].pc = "save" /\ job'[p].token = job[p].token /\ job'[p].upTo = job[p].upTo
         /\ \A r \in Recs :
              /\ rec'[r].gid = rec[r].gid /\ rec'[r].synced = rec[r].synced
              /\ rec'[r].slot = rec[r].slot /\ rec'[r].chosen = rec[r].chosen /\ rec'[r].time = rec[r].time
              /\ rec'[r].status \in Open => rec'[r] = rec[r] /\ r \notin job[p].ids
         /\ \A q \in Jobs \ {p} : job'[q] = job[q]
<1> USE DEF Types, GoogleTypes, AppTypes, google
<1>1. At(p, "mark") /\ ~At(p, "off")
  BY DEF MarkDisplaced, At
<1>2. job[p] \in JobRecords
  BY <1>1, JobKinds
<1> DEFINE x == [job[p] EXCEPT !.ids = {}, !.pc = "save"]
<1>3. x \in JobRecords /\ x.pc = "save" /\ x.token = job[p].token /\ x.upTo = job[p].upTo
  BY <1>2 DEF JobRecords, Stages
<1>4. job' = [job EXCEPT ![p] = x]
  BY DEF MarkDisplaced, JobTypes
<1> HIDE DEF x
<1>5. JobTypes' /\ job'[p] = x /\ \A q \in Jobs \ {p} : job'[q] = job[q]
  BY <1>3, <1>4, JobStep
<1>6. ASSUME NEW r \in Recs
      PROVE  /\ rec'[r] \in Blocks
             /\ rec'[r].gid = rec[r].gid /\ rec'[r].synced = rec[r].synced
             /\ rec'[r].slot = rec[r].slot /\ rec'[r].chosen = rec[r].chosen /\ rec'[r].time = rec[r].time
             /\ rec'[r].status \in Open => rec'[r] = rec[r] /\ r \notin job[p].ids
  <2>1. rec[r] \in Blocks
    OBVIOUS
  <2>2. CASE r \in job[p].ids /\ rec[r].status \in Open
    <3>1. rec'[r] = [rec[r] EXCEPT !.status = "displaced"]
      BY <2>2 DEF MarkDisplaced
    <3> QED
      BY <2>1, <3>1 DEF Blocks, Open
  <2>3. CASE ~(r \in job[p].ids /\ rec[r].status \in Open)
    BY <2>1, <2>3 DEF MarkDisplaced
  <2> QED
    BY <2>2, <2>3
<1>7. rec' \in [Recs -> Blocks]
  BY <1>6 DEF MarkDisplaced
<1> QED
  BY <1>1, <1>2, <1>3, <1>5, <1>6, <1>7 DEF MarkDisplaced

\* The token that is saved is the one the list ended with.
LEMMA SaveStep ==
  ASSUME Types, NEW p \in Jobs, SaveToken(p)
  PROVE  /\ Types' /\ row'.token = job[p].upTo
         /\ UNCHANGED <<event, seq, copies, mirror, rec, lease, lost>>
         /\ wiped' = (wiped /\ job[p].token # None)
         /\ At(p, "save") /\ job[p] \in JobRecords /\ job'[p] \in JobRecords
         /\ job'[p].pc = (IF p = "confirm" THEN "channel" ELSE "writeback") /\ job'[p].token = None
         /\ \A q \in Jobs \ {p} : job'[q] = job[q]
<1> USE DEF Types, GoogleTypes, AppTypes, google
<1>1. At(p, "save") /\ ~At(p, "off")
  BY DEF SaveToken, At
<1>2. job[p] \in JobRecords
  BY <1>1, JobKinds
<1>3. row' \in Rows /\ row'.token = job[p].upTo
  <2>1. job[p].upTo \in Nat
    BY <1>2 DEF JobRecords
  <2> QED
    BY <2>1 DEF SaveToken, Saved, Rows, Ids
<1>4. (IF p = "confirm" THEN "channel" ELSE "writeback") \in Stages
  BY DEF Stages
<1>5. Done(p, IF p = "confirm" THEN "channel" ELSE "writeback")
  BY DEF SaveToken
<1>6. JobTypes' /\ job'[p] \in JobRecords /\ job'[p].token = None
      /\ job'[p].pc = (IF p = "confirm" THEN "channel" ELSE "writeback") /\ \A q \in Jobs \ {p} : job'[q] = job[q]
  BY <1>1, <1>4, <1>5, DoneStep
<1>7. wiped' = (wiped /\ job[p].token # None)
  BY DEF SaveToken
<1>8. wiped' \in BOOLEAN
  BY <1>7
<1>9. UNCHANGED <<event, seq, oldest, granted, copies, mirror, rec, lease, lost>>
  BY DEF SaveToken
<1> QED
  BY <1>1, <1>2, <1>3, <1>6, <1>7, <1>8, <1>9

\* On to the next call, or the end of the job.
LEMMA ContinueStep ==
  ASSUME JobTypes, NEW p \in Jobs, ~At(p, "off"), NEW todo \in SUBSET Works, Continue(p, todo)
  PROVE  /\ JobTypes'
         /\ \/ job'[p] = Idle /\ p \in Syncs /\ lease' = (IF lease = p THEN None ELSE lease)
            \/ /\ job'[p] \in JobRecords /\ job'[p].pc = "call" /\ job'[p].todo = todo
               /\ job'[p].token = job[p].token /\ lease' = lease
         /\ \A q \in Jobs \ {p} : job'[q] = job[q]
<1>1. job[p] \in JobRecords
  BY JobKinds
<1>2. CASE p \in Syncs /\ todo = {}
  <2>1. job' = [job EXCEPT ![p] = Idle] /\ lease' = (IF lease = p THEN None ELSE lease)
    BY <1>2 DEF Continue
  <2> QED
    BY <1>2, <2>1, JobStep
<1>3. CASE ~(p \in Syncs /\ todo = {})
  <2> DEFINE x == [job[p] EXCEPT !.todo = todo, !.made = None, !.pc = "call"]
  <2>1. x \in JobRecords /\ x.pc = "call" /\ x.todo = todo /\ x.token = job[p].token
    BY <1>1 DEF JobRecords, Stages
  <2>2. job' = [job EXCEPT ![p] = x] /\ lease' = lease
    BY <1>3 DEF Continue, JobTypes
  <2> HIDE DEF x
  <2>3. JobTypes' /\ job'[p] = x /\ \A q \in Jobs \ {p} : job'[q] = job[q]
    BY <2>1, <2>2, JobStep
  <2> QED
    BY <2>1, <2>2, <2>3
<1> QED
  BY <1>2, <1>3

SlotInv == \A r \in Recs : rec[r].status \in Open => rec[r].slot \in Slots

\* A piece of work says what its block is in want of.
Due(w) ==
  /\ IF w.do = "insert" THEN rec[w.rec].gid = None ELSE w.gid # None /\ w.gid = rec[w.rec].gid
  /\ w.do # "delete" => w.slot \in Slots

\* The work loaded for a write-back is what the blocks are in want of, one piece for each.
LEMMA LoadStep ==
  ASSUME Types, SlotInv, NEW p \in Jobs, LoadWriteBack(p)
  PROVE  /\ Types'
         /\ UNCHANGED <<event, seq, copies, row, mirror, rec, lost, wiped>>
         /\ At(p, "writeback") /\ job[p] \in JobRecords
         /\ \/ job'[p] = Idle /\ p \in Syncs /\ lease' = (IF lease = p THEN None ELSE lease)
            \/ /\ job'[p] \in JobRecords /\ job'[p].pc = "call"
               /\ \A w \in job'[p].todo : Due(w)
               /\ \A v, w \in job'[p].todo : v.rec = w.rec => v = w
               /\ job'[p].token = job[p].token /\ lease' = lease
         /\ \A q \in Jobs \ {p} : job'[q] = job[q]
<1> USE DEF Types, GoogleTypes, AppTypes, google
<1>1. At(p, "writeback") /\ ~At(p, "off")
  BY DEF LoadWriteBack, At
<1>2. job[p] \in JobRecords
  BY <1>1, JobKinds
<1> DEFINE T == IF job[p].writeBack THEN WorkFor({r \in Recs : Task(r) # "none" /\ InWindow(r)}) ELSE {}
<1>3. ASSUME NEW r \in Recs, Task(r) # "none"
      PROVE  LET w == [rec |-> r, do |-> Task(r), slot |-> rec[r].slot, gid |-> rec[r].gid] IN w \in Works /\ Due(w)
  <2>1. rec[r] \in Blocks
    OBVIOUS
  <2>2. Task(r) \in {"insert", "patch", "delete"}
    BY <1>3, <2>1 DEF Task, Blocks
  <2>3. IF Task(r) = "insert" THEN rec[r].gid = None ELSE rec[r].gid # None
    BY <1>3, <2>1 DEF Task
  <2>4. Task(r) # "delete" => rec[r].slot \in Slots
    BY <1>3, <2>1 DEF Task, SlotInv
  <2> QED
    BY <2>1, <2>2, <2>3, <2>4 DEF Works, Blocks, Due
<1>4. T \in SUBSET Works /\ \A w \in T : Due(w)
  <2>1. ASSUME NEW w \in T PROVE w \in Works /\ Due(w)
    <3>1. PICK r \in Recs : Task(r) # "none" /\ w = [rec |-> r, do |-> Task(r), slot |-> rec[r].slot, gid |-> rec[r].gid]
      BY <2>1 DEF WorkFor
    <3> QED
      BY <1>3, <3>1
  <2> QED
    BY <2>1
<1>5. \A v, w \in T : v.rec = w.rec => v = w
  BY DEF WorkFor
<1>6. Continue(p, T)
  BY DEF LoadWriteBack
<1> HIDE DEF T
<1>7. /\ JobTypes'
      /\ \/ job'[p] = Idle /\ p \in Syncs /\ lease' = (IF lease = p THEN None ELSE lease)
         \/ /\ job'[p] \in JobRecords /\ job'[p].pc = "call" /\ job'[p].todo = T
            /\ job'[p].token = job[p].token /\ lease' = lease
      /\ \A q \in Jobs \ {p} : job'[q] = job[q]
  BY <1>1, <1>4, <1>6, ContinueStep
<1>8. UNCHANGED <<event, seq, oldest, granted, copies, row, mirror, rec, lost, wiped>>
  BY DEF LoadWriteBack
<1>9. Types'
  BY <1>7, <1>8
<1> QED
  BY <1>1, <1>2, <1>4, <1>5, <1>7, <1>8, <1>9

\* A noted answer changes the row of its block only.
LEMMA NoteStep ==
  ASSUME Types, NEW p \in Jobs, SaveWriteBack(p), job[p].made \in Made
  PROVE  /\ Types'
         /\ UNCHANGED <<event, seq, copies, row, mirror, lost, wiped>>
         /\ At(p, "note") /\ job[p] \in JobRecords
         /\ \/ job'[p] = Idle /\ p \in Syncs /\ lease' = (IF lease = p THEN None ELSE lease)
            \/ /\ job'[p] \in JobRecords /\ job'[p].pc = "call" /\ job'[p].todo = job[p].todo
               /\ job'[p].token = job[p].token /\ lease' = lease
         /\ \A q \in Jobs \ {p} : job'[q] = job[q]
         /\ LET m == job[p].made IN
            /\ rec'[m.rec].gid = m.gid /\ rec'[m.rec].synced = m.slot
            /\ \A r \in Recs : /\ rec'[r].status = rec[r].status /\ rec'[r].slot = rec[r].slot /\ rec'[r].chosen = rec[r].chosen /\ rec'[r].time = rec[r].time
                               /\ r # m.rec => rec'[r] = rec[r]
<1> USE DEF Types, GoogleTypes, AppTypes, google
<1>1. At(p, "note") /\ ~At(p, "off")
  BY DEF SaveWriteBack, At
<1>2. job[p] \in JobRecords
  BY <1>1, JobKinds
<1>3. job[p].todo \in SUBSET Works
  BY <1>2 DEF JobRecords
<1>4. Continue(p, job[p].todo)
  BY DEF SaveWriteBack
<1>5. /\ JobTypes'
      /\ \/ job'[p] = Idle /\ p \in Syncs /\ lease' = (IF lease = p THEN None ELSE lease)
         \/ /\ job'[p] \in JobRecords /\ job'[p].pc = "call" /\ job'[p].todo = job[p].todo
            /\ job'[p].token = job[p].token /\ lease' = lease
      /\ \A q \in Jobs \ {p} : job'[q] = job[q]
  BY <1>1, <1>3, <1>4, ContinueStep
<1> DEFINE m == job[p].made
           b == [rec[m.rec] EXCEPT !.gid = m.gid, !.synced = m.slot]
<1>6. m.rec \in Recs /\ m.gid \in Ids /\ m.slot \in Slots \cup {None}
  BY DEF Made
<1>7. /\ b \in Blocks
      /\ b.gid = m.gid
      /\ b.synced = m.slot
      /\ b.status = rec[m.rec].status
      /\ b.slot = rec[m.rec].slot
      /\ b.chosen = rec[m.rec].chosen
      /\ b.time = rec[m.rec].time
  <2>1. rec[m.rec] \in Blocks
    BY <1>6
  <2> QED
    BY <1>6, <2>1 DEF Blocks
<1>8. rec' = [rec EXCEPT ![m.rec] = b]
  BY <1>6 DEF SaveWriteBack
<1>9. UNCHANGED <<event, seq, oldest, granted, copies, row, mirror, lost, wiped>>
  BY DEF SaveWriteBack
<1> HIDE DEF b
<1>10. rec' \in [Recs -> Blocks] /\ rec'[m.rec] = b /\ \A r \in Recs : r # m.rec => rec'[r] = rec[r]
  BY <1>6, <1>7, <1>8
<1>11. Types'
  <2>1. lease' \in Syncs \cup {"dead", None}
    BY <1>5
  <2> QED
    BY <1>5, <1>9, <1>10, <2>1
<1> HIDE DEF m
<1>12. \A r \in Recs : rec'[r].status = rec[r].status /\ rec'[r].slot = rec[r].slot /\ rec'[r].chosen = rec[r].chosen /\ rec'[r].time = rec[r].time
  BY <1>7, <1>10
<1>13. rec'[m.rec].gid = m.gid /\ rec'[m.rec].synced = m.slot /\ \A r \in Recs : r # m.rec => rec'[r] = rec[r]
  BY <1>7, <1>10
<1> QED
  BY <1>1, <1>2, <1>5, <1>9, <1>11, <1>12, <1>13 DEF m

\* What one call of Google does, and what the job makes of the answer.
LEMMA CallStep ==
  ASSUME Types, CalendarAssumption, IdInv, NEW p \in Jobs, CallGoogle(p), \A w \in job[p].todo : Due(w)
  PROVE  /\ Types'
         /\ UNCHANGED <<event, seq, row, mirror, rec, lease, lost, wiped>>
         /\ At(p, "call") /\ job[p] \in JobRecords /\ job'[p] \in JobRecords
         /\ job'[p].pc = "note" /\ job'[p].token = job[p].token
         /\ \A q \in Jobs \ {p} : job'[q] = job[q]
         /\ \E w \in job[p].todo :
              /\ job'[p].todo = job[p].todo \ {w}
              /\ job'[p].made \in Made /\ job'[p].made.rec = w.rec
              /\ (job'[p].made.gid = None) <=> (job'[p].made.slot = None)
              /\ \/ /\ w.do = "insert" /\ job'[p].made.gid = NewId
                    /\ copies' = copies \cup {[id |-> NewId, rec |-> w.rec, slot |-> w.slot]}
                 \/ /\ w.do = "patch" /\ job'[p].made.gid = w.gid
                    /\ copies' = {IF c.id = w.gid THEN [c EXCEPT !.slot = w.slot] ELSE c : c \in copies}
                 \/ /\ w.do = "delete" /\ job'[p].made.gid = None
                    /\ copies' = {c \in copies : c.id # w.gid}
<1> USE DEF Types, GoogleTypes, AppTypes, google
<1>1. At(p, "call") /\ ~At(p, "off")
  BY DEF CallGoogle, At
<1>2. job[p] \in JobRecords
  BY <1>1, JobKinds
<1>3. NewId \in Nat
  BY NewIdIsNew
<1> DEFINE made(w) == [rec |-> w.rec, gid |-> CASE w.do = "insert" -> NewId [] w.do = "patch" -> w.gid [] OTHER -> None,
                       slot |-> IF w.do = "delete" THEN None ELSE w.slot]
<1>4. PICK w \in job[p].todo :
        /\ copies' = Sent(w)
        /\ job' = [job EXCEPT ![p].pc = "note", ![p].made = made(w), ![p].todo = @ \ {w}]
  BY DEF CallGoogle
<1>5. w \in Works /\ Due(w)
  BY <1>2, <1>4 DEF JobRecords
<1>6. made(w) \in Made /\ made(w).rec = w.rec /\ (made(w).gid = None <=> made(w).slot = None)
  <2>1. CASE w.do = "insert"
    BY <1>3, <1>5, <2>1, CalendarAssumption DEF Works, Made, Ids, Due
  <2>2. CASE w.do = "patch"
    BY <1>3, <1>5, <2>2, CalendarAssumption DEF Works, Made, Ids, Due
  <2>3. CASE w.do = "delete"
    BY <1>3, <1>5, <2>3, CalendarAssumption DEF Works, Made, Ids, Due
  <2> QED
    BY <1>5, <2>1, <2>2, <2>3 DEF Works
<1>7. /\ w.do = "insert" => made(w).gid = NewId /\ copies' = copies \cup {[id |-> NewId, rec |-> w.rec, slot |-> w.slot]}
      /\ w.do = "patch" => made(w).gid = w.gid /\ copies' = {IF c.id = w.gid THEN [c EXCEPT !.slot = w.slot] ELSE c : c \in copies}
      /\ w.do = "delete" => made(w).gid = None /\ copies' = {c \in copies : c.id # w.gid}
  BY <1>4 DEF Sent
<1> DEFINE x == [job[p] EXCEPT !.pc = "note", !.made = made(w), !.todo = job[p].todo \ {w}]
<1>8. job' = [job EXCEPT ![p] = x]
  BY <1>4 DEF JobTypes
<1> HIDE DEF made
<1>9. /\ x \in JobRecords
      /\ x.pc = "note"
      /\ x.made = made(w)
      /\ x.todo = job[p].todo \ {w}
      /\ x.token = job[p].token
  BY <1>2, <1>6 DEF JobRecords, Stages
<1> HIDE DEF x
<1>10. JobTypes' /\ job'[p] = x /\ \A q \in Jobs \ {p} : job'[q] = job[q]
  BY <1>8, <1>9, JobStep
<1>11. IsFiniteSet(copies') /\ \A c \in copies' : c.id \in Nat /\ c.rec \in Recs
  <2>1. CASE w.do = "insert"
    <3> DEFINE n == [id |-> NewId, rec |-> w.rec, slot |-> w.slot]
    <3>1. n.id \in Nat /\ n.rec \in Recs
      BY <1>3, <1>5 DEF Works
    <3>2. copies' = copies \cup {n}
      BY <1>7, <2>1
    <3> HIDE DEF n
    <3>3. IsFiniteSet(copies \cup {n})
      BY FS_AddElement
    <3> QED
      BY <3>1, <3>2, <3>3
  <2>2. CASE w.do = "patch"
    <3> DEFINE F(c) == IF c.id = w.gid THEN [c EXCEPT !.slot = w.slot] ELSE c
    <3>1. copies' = {F(c) : c \in copies}
      BY <1>7, <2>2
    <3>2. \A c \in copies : F(c).id = c.id /\ F(c).rec = c.rec
      OBVIOUS
    <3> HIDE DEF F
    <3>3. IsFiniteSet(copies')
      <4> DEFINE f == [c \in copies |-> F(c)]
      <4>1. f \in Surjection(copies, copies')
        BY <3>1 DEF Surjection
      <4> HIDE DEF f
      <4> QED
        BY <4>1, FS_Surjection
    <3> QED
      BY <3>1, <3>2, <3>3
  <2>3. CASE w.do = "delete"
    BY <1>7, <2>3, FS_Subset
  <2> QED
    BY <1>5, <2>1, <2>2, <2>3 DEF Works
<1>12. UNCHANGED <<event, seq, oldest, granted, row, mirror, rec, lease, lost, wiped>>
  BY DEF CallGoogle
<1>13. Types'
  BY <1>10, <1>11, <1>12
<1>14. w.do \in {"insert", "patch", "delete"}
  BY <1>5 DEF Works
<1> QED
  BY <1>1, <1>2, <1>4, <1>6, <1>7, <1>9, <1>10, <1>12, <1>13, <1>14

\* A job that fails or is killed is gone; what it left undone counts, unless Google has refused it.
LEMMA EndStep ==
  ASSUME Types, NEW p \in Jobs, Fail(p) \/ Kill(p)
  PROVE  /\ Types' /\ row'.token = row.token
         /\ UNCHANGED <<event, seq, copies, mirror, rec, wiped>>
         /\ ~At(p, "off") /\ job'[p] = Idle
         /\ lost' = lost + 1 \/ (lost' = lost /\ ~At(p, "note"))
         /\ lease' = lease \/ (lease = p /\ lease' \in {None, "dead"})
         /\ \A q \in Jobs \ {p} : job'[q] = job[q]
<1> USE DEF Types, GoogleTypes, AppTypes, google
<1>1. CASE Fail(p)
  <2>1. JobTypes' /\ job'[p] = Idle /\ \A q \in Jobs \ {p} : job'[q] = job[q]
    BY <1>1, JobStep DEF Fail
  <2>2. row' \in Rows /\ row'.token = row.token
    BY <1>1 DEF Fail, Saved, Rows
  <2>3. lost' = lost + 1 \/ (lost' = lost /\ ~At(p, "note"))
    BY <1>1 DEF Fail, At
  <2> QED
    BY <1>1, <2>1, <2>2, <2>3 DEF Fail
<1>2. CASE Kill(p)
  <2>1. JobTypes' /\ job'[p] = Idle /\ \A q \in Jobs \ {p} : job'[q] = job[q]
    BY <1>2, JobStep DEF Kill
  <2> QED
    BY <1>2, <2>1 DEF Kill
<1> QED
  BY <1>1, <1>2

\* The switch and the disconnect start with a delete for each copy the rows name.
LEMMA UserStartStep ==
  ASSUME Types, ~Racing, NEW p \in Jobs, UserStart(p)
  PROVE  /\ Types'
         /\ UNCHANGED <<event, seq, copies, row, mirror, rec, lease, wiped>> /\ lost' \in {lost, lost + 1}
         /\ Quiet /\ p \in {"switch", "disconnect"} /\ job'[p] \in JobRecords /\ job'[p].pc = "call"
         /\ \A w \in job'[p].todo : Due(w)
         /\ \A v, w \in job'[p].todo : v.rec = w.rec => v = w
         /\ \A q \in Jobs \ {p} : job'[q] = job[q]
<1> USE DEF Types, GoogleTypes, AppTypes, google
<1>0. PICK T \in {Mirrored, {}} : Clearing(p, T)
  BY DEF UserStart
<1> DEFINE x == [Loaded(p, "call", FALSE) EXCEPT !.todo = T]
<1>1. T \in SUBSET Works /\ \A w \in T : Due(w)
  <2>1. ASSUME NEW w \in Mirrored PROVE w \in Works /\ Due(w)
    <3>1. PICK r \in Recs : rec[r].gid # None /\ w = [rec |-> r, do |-> "delete", slot |-> rec[r].slot, gid |-> rec[r].gid]
      BY <2>1 DEF Mirrored
    <3>2. rec[r] \in Blocks
      OBVIOUS
    <3> QED
      BY <3>1, <3>2 DEF Works, Blocks, Due
  <2> QED
    BY <2>1
<1>2. \A v, w \in T : v.rec = w.rec => v = w
  BY DEF Mirrored
<1>3. job' = [job EXCEPT ![p] = x]
  BY <1>0 DEF Clearing
<1>4. Loaded(p, "call", FALSE) \in JobRecords
  BY LoadedTyped DEF Stages
<1>5. Loaded(p, "call", FALSE).pc = "call"
  BY DEF Loaded
<1>6. x \in JobRecords /\ x.pc = "call" /\ x.todo = T
  <2> DEFINE y == Loaded(p, "call", FALSE)
  <2>1. y \in JobRecords /\ y.pc = "call" /\ x = [y EXCEPT !.todo = T]
    BY <1>4, <1>5
  <2> HIDE DEF x, y
  <2> QED
    BY <1>1, <2>1 DEF JobRecords
<1> HIDE DEF x
<1>7. JobTypes' /\ job'[p] = x /\ \A q \in Jobs \ {p} : job'[q] = job[q]
  BY <1>3, <1>6, JobStep
<1>8. UNCHANGED <<event, seq, oldest, granted, copies, row, mirror, rec, lease, wiped>>
      /\ lost' \in {lost, lost + 1}
  BY DEF UserStart
<1>9. Quiet /\ p \in {"switch", "disconnect"}
  BY DEF UserStart, MayStart
<1>10. Types'
  BY <1>7, <1>8
<1> QED
  BY <1>1, <1>2, <1>6, <1>7, <1>8, <1>9, <1>10

\* What the switch and the disconnect do then.
LEMMA UserStepEffect ==
  ASSUME Types, UserStep
  PROVE  /\ Types'
         /\ UNCHANGED <<event, seq, copies, rec, lease, lost, wiped>>
         /\ \E p \in {"switch", "disconnect"} :
              /\ ~At(p, "off") /\ (job'[p] = Idle \/ (p = "disconnect" /\ job'[p].pc \in {"delete", "wipe"}))
              /\ \/ p = "disconnect" /\ row'.token = None /\ mirror' = mirror
                 \/ row'.token = row.token /\ mirror' = mirror /\ job'[p].pc # "wipe"
                 \/ At(p, "wipe") /\ p = "disconnect" /\ row' = row /\ mirror' = [e \in Events |-> Gone] /\ job'[p] = Idle
              /\ \A q \in Jobs \ {p} : job'[q] = job[q]
<1> USE DEF Types, GoogleTypes, AppTypes, google
<1>0. "switch" \in Jobs /\ "disconnect" \in Jobs
  BY DEF Jobs
<1>1. CASE SwitchOff
  <2>1. JobTypes' /\ job'["switch"] = Idle /\ \A q \in Jobs \ {"switch"} : job'[q] = job[q]
    BY <1>0, <1>1, JobStep DEF SwitchOff
  <2>2. row' \in Rows /\ row'.token = row.token
    BY <1>1 DEF SwitchOff, Saved, Rows
  <2>3. Idle.pc # "wipe"
    BY DEF Idle
  <2>4. ~At("switch", "off")
    BY <1>1 DEF SwitchOff, At
  <2>5. UNCHANGED <<event, seq, oldest, granted, copies, mirror, rec, lease, lost, wiped>>
    BY <1>1 DEF SwitchOff
  <2>6. Types'
    BY <2>1, <2>2, <2>5
  <2> QED
    BY <2>1, <2>2, <2>3, <2>4, <2>5, <2>6
<1>2. CASE Revoke
  <2>1. ~At("disconnect", "off") /\ Goto("disconnect", "delete")
    BY <1>2 DEF Revoke, At
  <2>2. job["disconnect"] \in JobRecords
    BY <1>0, <2>1, JobKinds
  <2>3. /\ JobTypes'
        /\ job'["disconnect"] = [job["disconnect"] EXCEPT !.pc = "delete"]
        /\ \A q \in Jobs \ {"disconnect"} : job'[q] = job[q]
    BY <1>0, <2>1, GoStep DEF Stages
  <2>4. job'["disconnect"].pc = "delete"
    BY <2>2, <2>3 DEF JobRecords
  <2>5. UNCHANGED <<event, seq, oldest, copies, row, mirror, rec, lease, lost, wiped>> /\ granted' \in BOOLEAN
    BY <1>2 DEF Revoke
  <2>6. Types'
    BY <2>3, <2>5
  <2> QED
    BY <2>1, <2>3, <2>4, <2>5, <2>6
<1>3. CASE DeleteState
  <2>1. At("disconnect", "delete") /\ ~At("disconnect", "off") /\ Goto("disconnect", "wipe")
    BY <1>3 DEF DeleteState, At
  <2>2. job["disconnect"] \in JobRecords
    BY <1>0, <2>1, JobKinds
  <2>3. /\ JobTypes'
        /\ job'["disconnect"] = [job["disconnect"] EXCEPT !.pc = "wipe"]
        /\ \A q \in Jobs \ {"disconnect"} : job'[q] = job[q]
    BY <1>0, <2>1, GoStep DEF Stages
  <2>4. job'["disconnect"].pc = "wipe"
    BY <2>2, <2>3 DEF JobRecords
  <2>5. row' \in Rows /\ row'.token = None
    BY <1>3 DEF DeleteState, NoRow, Rows, Ids
  <2>6. UNCHANGED <<event, seq, oldest, granted, copies, mirror, rec, lease, lost, wiped>>
    BY <1>3 DEF DeleteState
  <2>7. Types'
    BY <2>3, <2>5, <2>6
  <2>8. ~At("disconnect", "wipe")
    BY <2>1 DEF At
  <2> QED
    BY <2>1, <2>3, <2>4, <2>5, <2>6, <2>7, <2>8
<1>4. CASE WipeEvents
  <2>1. JobTypes' /\ job'["disconnect"] = Idle /\ \A q \in Jobs \ {"disconnect"} : job'[q] = job[q]
    BY <1>0, <1>4, JobStep DEF WipeEvents
  <2>2. At("disconnect", "wipe") /\ ~At("disconnect", "off")
    BY <1>4 DEF WipeEvents, At
  <2>3. mirror' = [e \in Events |-> Gone] /\ mirror' \in [Events -> Changes]
    BY <1>4 DEF WipeEvents, WipeMirror, Gone, Changes
  <2>4. UNCHANGED <<event, seq, oldest, granted, copies, row, rec, lease, lost, wiped>>
    BY <1>4 DEF WipeEvents
  <2>5. Types'
    BY <2>1, <2>3, <2>4
  <2> QED
    BY <2>1, <2>2, <2>3, <2>4, <2>5
<1> QED
  BY <1>1, <1>2, <1>3, <1>4 DEF UserStep

\* A change of Google's is the latest one.
LEMMA EditStep ==
  ASSUME Types, CalendarAssumption, NEW e \in Events, NEW slot \in Meetings \cup {None}, EditEvent(e, slot)
  PROVE  /\ Types'
         /\ UNCHANGED <<copies, row, mirror, rec, lease, job, lost, wiped>>
         /\ seq' = seq + 1 /\ event'[e].seq = seq + 1
         /\ \A f \in Events \ {e} : event'[f] = event[f]
BY CalendarAssumption DEF EditEvent, Types, GoogleTypes, AppTypes, JobTypes, google, Changes

Others(p) == \A q \in Jobs \ {p} : job'[q] = job[q]

\* From the list to the end of the write-back; the confirm opens its channel in between.
Holding(p) ==
  \/ job[p].pc \in {"list", "wipe", "upsert", "mark", "save", "writeback", "call", "note"}
  \/ p = "confirm" /\ At(p, "channel")

LeaseInv ==
  /\ \A p \in Syncs : (Holding(p) => lease = p) /\ ~At(p, "delete")
  /\ ~At("push", "channel")
  /\ \A p \in {"switch", "disconnect"} : ~At(p, "off") => \A q \in Jobs \ {p} : At(q, "off")
  /\ job["switch"].pc \in {"off", "call", "note"}
  /\ job["disconnect"].pc \in {"off", "call", "note", "delete", "wipe"}
  /\ At("disconnect", "wipe") => row.token = None

\* A sync on its way holds the lease while it works, and no other does.
LEMMA LeaseSync ==
  ASSUME CalendarAssumption, LeaseInv, NEW p \in Syncs, ~At(p, "off"), Others(p),
         Holding(p)' => lease' = p,
         lease' = lease \/ lease = p \/ lease = None,
         ~(p = "push" /\ job'[p].pc = "channel"), job'[p].pc # "delete"
  PROVE  LeaseInv'
<1>1. /\ Syncs \subseteq Jobs
      /\ p # "switch"
      /\ p # "disconnect"
      /\ "switch" \in Jobs
      /\ "disconnect" \in Jobs
      /\ "push" \in Syncs
  BY DEF Jobs, Syncs
<1>2. At("switch", "off") /\ At("disconnect", "off")
  BY <1>1 DEF LeaseInv
<1>3. job'["switch"] = job["switch"] /\ job'["disconnect"] = job["disconnect"]
  BY <1>1 DEF Others
<1>4. ASSUME NEW q \in Syncs PROVE (Holding(q)' => lease' = q) /\ ~At(q, "delete")'
  <2>1. CASE q = p
    BY <2>1 DEF At
  <2>2. CASE q # p
    <3>1. job'[q] = job[q]
      BY <1>1, <2>2 DEF Others
    <3>2. q # None
      BY CalendarAssumption DEF Syncs
    <3> QED
      BY <2>2, <3>1, <3>2 DEF LeaseInv, Holding, At
  <2> QED
    BY <2>1, <2>2
<1>5. ~At("push", "channel")'
  <2>1. CASE p = "push"
    BY <2>1 DEF At
  <2>2. CASE p # "push"
    BY <1>1, <2>2 DEF LeaseInv, At, Others
  <2> QED
    BY <2>1, <2>2
<1>6. At("switch", "off")' /\ At("disconnect", "off")'
  BY <1>2, <1>3 DEF At
<1> QED
  BY <1>4, <1>5, <1>6 DEF LeaseInv, At

\* A sync that starts does so beside no call of the user's.
LEMMA LeaseStart ==
  ASSUME CalendarAssumption, LeaseInv, NEW p \in Syncs, UNCHANGED lease,
         At("switch", "off"), At("disconnect", "off"),
         job'[p].pc \in {"lease", "channel"}, job'[p].pc = "channel" => p = "sweep", Others(p)
  PROVE  LeaseInv'
<1>1. /\ Syncs \subseteq Jobs
      /\ p # "switch"
      /\ p # "disconnect"
      /\ "switch" \in Jobs
      /\ "disconnect" \in Jobs
      /\ "push" \in Syncs
  BY DEF Jobs, Syncs
<1>3. job'["switch"] = job["switch"] /\ job'["disconnect"] = job["disconnect"]
  BY <1>1 DEF Others
<1>4. ASSUME NEW q \in Syncs PROVE (Holding(q)' => lease' = q) /\ ~At(q, "delete")'
  <2>1. CASE q = p
    BY <2>1 DEF At, Holding
  <2>2. CASE q # p
    <3>1. job'[q] = job[q]
      BY <1>1, <2>2 DEF Others
    <3> QED
      BY <3>1 DEF LeaseInv, Holding, At
  <2> QED
    BY <2>1, <2>2
<1>5. ~At("push", "channel")'
  <2>1. CASE p = "push"
    BY <2>1 DEF At
  <2>2. CASE p # "push"
    BY <1>1, <2>2 DEF LeaseInv, At, Others
  <2> QED
    BY <2>1, <2>2
<1>6. At("switch", "off")' /\ At("disconnect", "off")'
  BY <1>3 DEF At
<1> QED
  BY <1>4, <1>5, <1>6 DEF LeaseInv, At

\* The switch and the disconnect are alone.
LEMMA LeaseUser ==
  ASSUME LeaseInv, NEW p \in {"switch", "disconnect"}, UNCHANGED lease, Others(p),
         \A q \in Jobs \ {p} : At(q, "off"),
         job'[p].pc \in {"off", "call", "note"} \/ (p = "disconnect" /\ job'[p].pc \in {"delete", "wipe"}),
         job'[p].pc = "wipe" => row'.token = None
  PROVE  LeaseInv'
<1>1. \A q \in Jobs \ {p} : At(q, "off")'
  BY DEF Others, At
<1>2. Syncs \subseteq Jobs \ {p} /\ "push" \in Syncs
  BY DEF Jobs, Syncs
<1>3. \A q \in Syncs : At(q, "off")'
  BY <1>1, <1>2
<1>4. \A q \in Syncs : ~Holding(q)' /\ ~At(q, "delete")' /\ ~At(q, "channel")'
  BY <1>3 DEF Holding, At
<1>5. \A q \in {"switch", "disconnect"} : ~At(q, "off")' => q = p
  BY <1>1 DEF Jobs
<1>6. \A q \in {"switch", "disconnect"} : ~At(q, "off")' => \A o \in Jobs \ {q} : At(o, "off")'
  BY <1>1, <1>5
<1>7. /\ job'["switch"].pc \in {"off", "call", "note"}
      /\ job'["disconnect"].pc \in {"off", "call", "note", "delete", "wipe"}
  BY <1>5 DEF At
<1>8. At("disconnect", "wipe")' => row'.token = None
  BY <1>5 DEF At
<1> QED
  BY <1>2, <1>4, <1>6, <1>7, <1>8 DEF LeaseInv

\* Without a step of a job, the lease can only expire.
LEMMA LeaseStill ==
  ASSUME CalendarAssumption, LeaseInv, UNCHANGED job, row'.token = row.token,
         lease' = lease \/ (lease' = None /\ lease = "dead")
  PROVE  LeaseInv'
<1>1. \A p \in Syncs : p # "dead"
  BY DEF Syncs
<1> QED
  BY <1>1 DEF LeaseInv, Holding, At
-----------------------------------------------------------------------------
Filling(p) == job[p].pc \in {"upsert", "mark", "save"}

EventInv ==
  \A e \in Events : /\ event[e].seq <= seq /\ (event[e].seq = 0 => event[e] = Gone)
                    /\ mirror[e].seq <= event[e].seq /\ (mirror[e].seq = 0 => mirror[e] = Gone)

TokenInv ==
  /\ row.token # None => row.token <= seq
  /\ \A p \in Syncs :
       /\ ~At(p, "off") /\ job[p].token # None => row.token # None /\ job[p].token <= row.token
       /\ Filling(p) => job[p].upTo <= seq /\ (row.token # None => row.token <= job[p].upTo)

DeltaInv ==
  \A p \in Syncs : At(p, "upsert") =>
    /\ \A d \in job[p].delta : /\ d.at.seq <= job[p].upTo /\ d.at.seq <= event[d.event].seq
                               /\ (event[d.event].seq <= job[p].upTo => d.at = event[d.event])
                               /\ d.at.seq > 0
    /\ \A e \in Events :
         (\A d \in job[p].delta : d.event # e) => mirror[e].seq <= (IF job[p].token = None THEN 0 ELSE job[p].token)

Missing(e) == wiped /\ mirror[e] = Gone

MirrorInv ==
  row.token # None => \A e \in Events : event[e].seq <= row.token => mirror[e] = event[e] \/ Missing(e)

ReachInv ==
  \A p \in Syncs : Filling(p) =>
    \A e \in Events : event[e].seq <= job[p].upTo =>
      \/ At(p, "upsert") /\ \E d \in job[p].delta : d.event = e
      \/ mirror[e] = event[e]
      \/ Missing(e) /\ job[p].token # None

AsPlanned(r) == rec[r].status \in Open /\ ~rec[r].chosen /\ rec[r].time = "ahead"

MeetInv ==
  row.token # None =>
    \A r \in Recs, e \in Events : AsPlanned(r) =>
      /\ event[e].seq <= row.token /\ event[e].slot = rec[r].slot => wiped
      /\ mirror[e].seq <= row.token /\ mirror[e].slot = rec[r].slot => wiped

MeetDelta ==
  row.token # None =>
    \A p \in Syncs : At(p, "upsert") =>
      \A r \in Recs, d \in job[p].delta : AsPlanned(r) /\ d.at.seq <= row.token /\ d.at.slot = rec[r].slot => wiped

MeetMark ==
  \A p \in Syncs : job[p].pc \in {"mark", "save"} =>
    \A r \in Recs, e \in Events : AsPlanned(r) /\ mirror[e].slot = rec[r].slot =>
      (At(p, "mark") /\ r \in job[p].ids) \/ (wiped /\ job[p].token # None)

ImportInv == EventInv /\ TokenInv /\ DeltaInv /\ MirrorInv /\ ReachInv /\ SlotInv /\ MeetInv /\ MeetDelta /\ MeetMark

\* What an import has in hand stays as it is, or the job is on its way to one.
Stays(p) ==
  \/ job'[p] = job[p]
  \/ /\ job'[p].pc \notin {"upsert", "mark", "save"}
     /\ \/ job'[p].pc = "off"
        \/ job'[p].token = None \/ job'[p].token = row.token
        \/ ~At(p, "off") /\ job'[p].token = job[p].token

\* A step beside the import: calendar, mirror and token stay, and no block is newly planned.
LEMMA ImportKept ==
  ASSUME Types, Types', ImportInv, UNCHANGED <<event, mirror, wiped>>, seq <= seq', row'.token = row.token,
         \A r \in Recs : (rec'[r].status \in Open => rec'[r].slot \in Slots)
                         /\ (AsPlanned(r)' => AsPlanned(r) /\ rec'[r].slot = rec[r].slot),
         \A p \in Syncs : Stays(p)
  PROVE  ImportInv'
<1> USE DEF ImportInv
<1>0. /\ seq \in Nat /\ seq' \in Nat /\ row.token \in Ids
      /\ \A e \in Events : event[e] \in Changes /\ mirror[e] \in Changes
      /\ \A p \in Syncs : ~At(p, "off") => job[p] \in JobRecords
  BY JobKinds DEF Types, GoogleTypes, AppTypes, Rows, Jobs
<1>1. EventInv'
  BY <1>0 DEF EventInv, Changes
<1>2. \A p \in Syncs : /\ Filling(p)' => job'[p] = job[p] /\ Filling(p) /\ ~At(p, "off")
                       /\ At(p, "upsert")' => At(p, "upsert")
                       /\ At(p, "mark")' => At(p, "mark")
  BY DEF Stays, Filling, At
<1>3. TokenInv'
  <2>1. row'.token # None => row'.token <= seq'
    BY <1>0 DEF TokenInv, Ids
  <2>2. ASSUME NEW p \in Syncs, ~At(p, "off")', job'[p].token # None
        PROVE row'.token # None /\ job'[p].token <= row'.token
    <3>1. CASE job'[p] = job[p]
      BY <2>2, <3>1 DEF TokenInv, At
    <3>2. CASE job'[p].token = row.token
      BY <1>0, <2>2, <3>2 DEF Ids
    <3>3. CASE ~At(p, "off") /\ job'[p].token = job[p].token
      BY <2>2, <3>3 DEF TokenInv
    <3> QED
      BY <2>2, <3>1, <3>2, <3>3 DEF Stays, At
  <2>3. ASSUME NEW p \in Syncs, Filling(p)'
        PROVE job'[p].upTo <= seq' /\ (row'.token # None => row'.token <= job'[p].upTo)
    <3>1. job[p].upTo \in Nat
      BY <1>0, <1>2, <2>3 DEF JobRecords
    <3> QED
      BY <1>0, <1>2, <2>3, <3>1 DEF TokenInv
  <2> QED
    BY <2>1, <2>2, <2>3 DEF TokenInv
<1>4. DeltaInv'
  BY <1>2 DEF DeltaInv, Filling, At
<1>5. MirrorInv'
  BY DEF MirrorInv, Missing
<1>6. ReachInv'
  BY <1>2 DEF ReachInv, Missing, Filling, At
<1>7. SlotInv'
  BY DEF SlotInv
<1>8. MeetInv'
  BY DEF MeetInv
<1>9. MeetDelta'
  BY <1>2 DEF MeetDelta, Filling, At
<1>10. MeetMark'
  BY <1>2 DEF MeetMark, Filling, At
<1> QED
  BY <1>1, <1>3, <1>4, <1>5, <1>6, <1>7, <1>8, <1>9, <1>10

\* While nobody holds the lease, nothing is half imported.
LEMMA NoneFilling ==
  ASSUME CalendarAssumption, LeaseInv, lease = None, NEW p \in Syncs
  PROVE  ~Filling(p) /\ ~At(p, "upsert")
BY CalendarAssumption DEF LeaseInv, Holding, Filling, Syncs, At

\* Beside the holder of the lease nobody imports.
LEMMA OneFilling ==
  ASSUME LeaseInv, NEW p \in Syncs, Holding(p), NEW q \in Syncs, q # p
  PROVE  ~Filling(q) /\ ~At(q, "upsert")
BY DEF LeaseInv, Holding, Filling, At

\* A change of Google's is newer than any token, saved or listed.
LEMMA EditImport ==
  ASSUME Types, Types', CalendarAssumption, ImportInv, NEW e \in Events,
         NEW slot \in Meetings \cup {None}, EditEvent(e, slot)
  PROVE  ImportInv'
<1> USE DEF ImportInv
<1>1. /\ UNCHANGED <<copies, row, mirror, rec, lease, job, lost, wiped>>
      /\ seq' = seq + 1 /\ event'[e].seq = seq + 1
      /\ \A f \in Events \ {e} : event'[f] = event[f]
  BY EditStep
<1>2. /\ seq \in Nat /\ row.token \in Ids
      /\ \A f \in Events : event[f].seq \in Nat /\ mirror[f].seq \in Nat /\ event'[f].seq \in Nat
      /\ \A p \in Syncs : ~At(p, "off") => job[p] \in JobRecords
  BY JobKinds DEF Types, GoogleTypes, AppTypes, Rows, Jobs, Changes
<1>3. \A p \in Syncs : Filling(p) => job[p].upTo \in Nat /\ job[p].upTo <= seq /\ job[p].delta \subseteq Deltas
  BY <1>2 DEF TokenInv, Filling, At, JobRecords
<1>4. row.token # None => row.token \in Nat /\ row.token <= seq
  BY <1>2 DEF TokenInv, Ids
<1>5. EventInv'
  BY <1>1, <1>2 DEF EventInv
<1>6. TokenInv'
  <2>1. \A p \in Syncs : Filling(p) => job[p].upTo <= seq + 1
    BY <1>2, <1>3
  <2>2. row.token # None => row.token <= seq + 1
    BY <1>2, <1>4
  <2> QED
    BY <1>1, <2>1, <2>2 DEF TokenInv, Filling, At
<1>7. DeltaInv'
  <2> SUFFICES ASSUME NEW p \in Syncs, At(p, "upsert"), NEW d \in job[p].delta
               PROVE  /\ d.at.seq <= event'[d.event].seq
                      /\ (event'[d.event].seq <= job[p].upTo => d.at = event'[d.event])
    BY <1>1 DEF DeltaInv, At
  <2>1. Filling(p) /\ d \in Deltas /\ d.event \in Events /\ d.at.seq \in Nat
    BY <1>3 DEF Filling, At, Deltas, Changes
  <2>2. /\ d.at.seq <= event[d.event].seq /\ event[d.event].seq <= seq
        /\ (event[d.event].seq <= job[p].upTo => d.at = event[d.event])
    BY <2>1 DEF DeltaInv, EventInv
  <2>3. CASE d.event = e
    BY <1>1, <1>2, <1>3, <2>1, <2>2, <2>3
  <2>4. CASE d.event # e
    BY <1>1, <2>1, <2>2, <2>4
  <2> QED
    BY <2>3, <2>4
<1>8. MirrorInv'
  <2> SUFFICES ASSUME row.token # None, NEW f \in Events, event'[f].seq <= row.token
               PROVE  mirror[f] = event'[f] \/ Missing(f)
    BY <1>1 DEF MirrorInv, Missing
  <2>1. f # e
    BY <1>1, <1>2, <1>4
  <2> QED
    BY <1>1, <2>1 DEF MirrorInv
<1>9. ReachInv'
  <2> SUFFICES ASSUME NEW p \in Syncs, Filling(p), NEW f \in Events, event'[f].seq <= job[p].upTo
               PROVE  \/ At(p, "upsert") /\ \E d \in job[p].delta : d.event = f
                      \/ mirror[f] = event'[f]
                      \/ Missing(f) /\ job[p].token # None
    BY <1>1 DEF ReachInv, Missing, Filling, At
  <2>1. f # e
    BY <1>1, <1>2, <1>3
  <2> QED
    BY <1>1, <2>1 DEF ReachInv
<1>10. SlotInv'
  BY <1>1 DEF SlotInv
<1>11. MeetInv'
  <2> SUFFICES ASSUME row.token # None, NEW r \in Recs, NEW f \in Events, AsPlanned(r),
                      event'[f].seq <= row.token, event'[f].slot = rec[r].slot
               PROVE  wiped
    BY <1>1 DEF MeetInv, AsPlanned
  <2>1. f # e
    BY <1>1, <1>2, <1>4
  <2> QED
    BY <1>1, <2>1 DEF MeetInv
<1>12. MeetDelta' /\ MeetMark'
  BY <1>1 DEF MeetDelta, MeetMark, AsPlanned, At
<1> QED
  BY <1>5, <1>6, <1>7, <1>8, <1>9, <1>10, <1>11, <1>12

\* A plan is placed while no job writes, around the events it sees.
LEMMA PlaceImport ==
  ASSUME Types, Types', CalendarAssumption, ~Racing, LeaseInv, ImportInv, NEW r \in Recs,
         NEW slot \in Planned, Place(r, slot)
  PROVE  ImportInv'
<1> USE DEF ImportInv
<1>1. /\ UNCHANGED <<event, seq, copies, row, mirror, lease, job, lost, wiped>>
      /\ \A q \in Recs \ {r} : rec'[q] = rec[q]
  BY PlanStep
<1>2. lease = None /\ ~BusyAt(slot) /\ rec'[r].slot = slot /\ slot \in Slots
  BY CalendarAssumption DEF Place, Types, AppTypes, Blocks
<1>3. \A p \in Syncs : ~Filling(p) /\ ~At(p, "upsert")
  BY <1>2, NoneFilling
<1>4. \A e \in Events : mirror[e].slot # slot
  BY <1>2 DEF BusyAt
<1>5. EventInv' /\ TokenInv' /\ MirrorInv'
  BY <1>1 DEF EventInv, TokenInv, MirrorInv, Missing, Filling, At
<1>6. DeltaInv' /\ ReachInv' /\ MeetDelta'
  BY <1>1, <1>3 DEF DeltaInv, ReachInv, MeetDelta, Filling, At
<1>7. MeetMark'
  BY <1>1, <1>3 DEF MeetMark, Filling
<1>8. SlotInv'
  BY <1>1, <1>2 DEF SlotInv
<1>9. MeetInv'
  <2> SUFFICES ASSUME row.token # None, NEW q \in Recs, NEW e \in Events, AsPlanned(q)'
               PROVE  /\ event[e].seq <= row.token /\ event[e].slot = rec'[q].slot => wiped
                      /\ mirror[e].seq <= row.token /\ mirror[e].slot = rec'[q].slot => wiped
    BY <1>1 DEF MeetInv
  <2>1. CASE q = r
    BY <1>2, <1>4, <2>1 DEF MirrorInv, Missing
  <2>2. CASE q # r
    BY <1>1, <2>2 DEF MeetInv, AsPlanned
  <2> QED
    BY <2>1, <2>2
<1> QED
  BY <1>5, <1>6, <1>7, <1>8, <1>9

\* A list names every event the mirror lacks.
LEMMA ListImport ==
  ASSUME Types, Types', LeaseInv, ImportInv, NEW p \in Syncs, List(p)
  PROVE  ImportInv'
<1> USE DEF ImportInv
<1>0. p \in Jobs
  BY DEF Jobs
<1>1. /\ UNCHANGED <<event, seq, copies, row, mirror, rec, lease, lost, wiped>>
      /\ At(p, "list") /\ job[p] \in JobRecords /\ job'[p] \in JobRecords
      /\ job'[p].token = job[p].token
      /\ \A q \in Jobs \ {p} : job'[q] = job[q]
  BY <1>0, ListStep
<1>2. \A q \in Syncs \ {p} : job'[q] = job[q]
  BY <1>1 DEF Jobs
<1>3. CASE job'[p].pc = "wipe"
  <2>1. \A q \in Syncs : Stays(q)
    BY <1>1, <1>2, <1>3 DEF Stays, At
  <2>2. \A r \in Recs : (rec'[r].status \in Open => rec'[r].slot \in Slots) /\ (AsPlanned(r)' => AsPlanned(r) /\ rec'[r].slot = rec[r].slot)
    BY <1>1 DEF SlotInv, AsPlanned
  <2>3. seq <= seq'
    BY <1>1 DEF Types, GoogleTypes
  <2> QED
    BY <1>1, <2>1, <2>2, <2>3, ImportKept
<1>4. CASE job'[p].pc # "wipe"
  <2>1. /\ job'[p].pc = "upsert" /\ job'[p].upTo = seq
        /\ job'[p].delta = {[event |-> e, at |-> event[e]] : e \in Since(job[p].token)}
    BY <1>0, <1>4, ListStep
  <2>2. /\ seq \in Nat /\ row.token \in Ids /\ job[p].token \in Ids
        /\ \A f \in Events : event[f].seq \in Nat /\ mirror[f].seq \in Nat
    BY <1>1 DEF Types, GoogleTypes, AppTypes, Rows, Changes, JobRecords
  <2>3. Holding(p) /\ ~At(p, "off")
    BY <1>1 DEF Holding, At
  <2>4. \A q \in Syncs \ {p} : ~Filling(q) /\ ~At(q, "upsert") /\ ~Filling(q)' /\ ~At(q, "upsert")'
    BY <1>2, <2>3, OneFilling DEF Filling, At
  <2> DEFINE from == IF job[p].token = None THEN 0 ELSE job[p].token
  <2>5. \A d \in job'[p].delta : d.event \in Events /\ d.at = event[d.event] /\ d.at.seq > from
    BY <2>1 DEF Since
  <2>6. \A e \in Events : event[e].seq > from => \E d \in job'[p].delta : d.event = e
    <3> SUFFICES ASSUME NEW e \in Events, event[e].seq > from PROVE \E d \in job'[p].delta : d.event = e
      OBVIOUS
    <3>1. [event |-> e, at |-> event[e]] \in job'[p].delta
      BY <2>1 DEF Since
    <3> QED
      BY <3>1
  <2>7. from \in Nat
    BY <2>2 DEF Ids
  <2>8. job[p].token # None => row.token # None /\ job[p].token <= row.token
    BY <2>3 DEF TokenInv
  <2>9. ASSUME NEW e \in Events, ~(event[e].seq > from)
        PROVE  mirror[e] = event[e] \/ (Missing(e) /\ job[p].token # None)
    <3>1. CASE job[p].token = None
      BY <2>2, <2>9, <3>1 DEF EventInv
    <3>2. CASE job[p].token # None
      <4>1. job[p].token \in Nat /\ row.token \in Nat
        BY <2>2, <2>8, <3>2 DEF Ids
      <4>2. event[e].seq <= row.token
        BY <2>2, <2>8, <2>9, <3>2, <4>1
      <4> QED
        BY <2>8, <3>2, <4>2 DEF MirrorInv
    <3> QED
      BY <3>1, <3>2
  <2>10. EventInv' /\ SlotInv' /\ MirrorInv' /\ MeetInv'
    BY <1>1 DEF EventInv, SlotInv, MirrorInv, MeetInv, Missing, AsPlanned
  <2>11. TokenInv'
    <3>1. ASSUME NEW q \in Syncs, Filling(q)'
          PROVE job'[q].upTo <= seq' /\ (row'.token # None => row'.token <= job'[q].upTo)
      <4>1. q = p
        BY <2>4, <3>1
      <4> QED
        BY <1>1, <2>1, <2>2, <4>1 DEF TokenInv
    <3>2. ASSUME NEW q \in Syncs, ~At(q, "off")', job'[q].token # None
          PROVE row'.token # None /\ job'[q].token <= row'.token
      <4>1. CASE q = p
        BY <1>1, <2>8, <3>2, <4>1
      <4>2. CASE q # p
        BY <1>1, <1>2, <3>2, <4>2 DEF TokenInv, At
      <4> QED
        BY <4>1, <4>2
    <3> QED
      BY <1>1, <3>1, <3>2 DEF TokenInv
  <2>12. DeltaInv'
    <3> SUFFICES ASSUME NEW q \in Syncs, At(q, "upsert")' PROVE
          /\ \A d \in job'[q].delta : /\ d.at.seq <= job'[q].upTo /\ d.at.seq <= event[d.event].seq
                               /\ (event[d.event].seq <= job'[q].upTo => d.at = event[d.event])
                               /\ d.at.seq > 0
          /\ \A e \in Events :
               (\A d \in job'[q].delta : d.event # e) => mirror[e].seq <= (IF job'[q].token = None THEN 0 ELSE job'[q].token)
      BY <1>1 DEF DeltaInv
    <3>1. q = p
      BY <2>4
    <3>2. \A d \in job'[p].delta : d.at.seq <= seq /\ d.at.seq <= event[d.event].seq /\ d.at.seq > 0
      BY <2>2, <2>5, <2>7 DEF EventInv
    <3>3. ASSUME NEW e \in Events, \A d \in job'[p].delta : d.event # e PROVE mirror[e].seq <= from
      BY <2>2, <2>6, <2>7, <3>3 DEF EventInv
    <3> QED
      BY <1>1, <2>1, <2>5, <3>1, <3>2, <3>3
  <2>13. ReachInv'
    <3> SUFFICES ASSUME NEW q \in Syncs, Filling(q)', NEW e \in Events PROVE
            \/ At(q, "upsert")' /\ \E d \in job'[q].delta : d.event = e
            \/ mirror[e] = event[e]
            \/ Missing(e) /\ job'[q].token # None
      BY <1>1 DEF ReachInv, Missing
    <3>1. q = p
      BY <2>4
    <3> QED
      BY <1>1, <2>1, <2>6, <2>9, <3>1 DEF At
  <2>14. MeetDelta'
    <3> SUFFICES ASSUME row.token # None, NEW q \in Syncs, At(q, "upsert")', NEW r \in Recs, NEW d \in job'[q].delta,
                        AsPlanned(r), d.at.seq <= row.token, d.at.slot = rec[r].slot PROVE wiped
      BY <1>1 DEF MeetDelta, AsPlanned
    <3>1. q = p
      BY <2>4
    <3> QED
      BY <2>5, <3>1 DEF MeetInv
  <2>15. MeetMark'
    BY <2>1, <2>4 DEF MeetMark, Filling
  <2> QED
    BY <2>10, <2>11, <2>12, <2>13, <2>14, <2>15
<1> QED
  BY <1>3, <1>4

\* A wipe leaves the holder with everything to list.
LEMMA WipeImport ==
  ASSUME Types, Types', LeaseInv, ImportInv, NEW p \in Syncs, WipeForFull(p)
  PROVE  ImportInv'
<1> USE DEF ImportInv
<1>0. p \in Jobs
  BY DEF Jobs
<1>1. /\ UNCHANGED <<event, seq, copies, row, rec, lease, lost>>
      /\ At(p, "wipe") /\ job'[p].pc = "list" /\ job'[p].token = None
      /\ wiped' /\ \A e \in Events : mirror'[e] = Gone
      /\ \A q \in Jobs \ {p} : job'[q] = job[q]
  BY <1>0, WipeStep
<1>2. \A q \in Syncs \ {p} : job'[q] = job[q]
  BY <1>1 DEF Jobs
<1>3. \A q \in Syncs : ~Filling(q)' /\ ~At(q, "upsert")'
  BY <1>1, <1>2, OneFilling DEF Holding, Filling, At
<1>4. \A e \in Events : event[e].seq \in Nat /\ Gone.seq = 0
  BY DEF Types, GoogleTypes, Changes, Gone
<1>5. EventInv'
  BY <1>1, <1>4 DEF EventInv
<1>6. TokenInv'
  BY <1>1, <1>2, <1>3 DEF TokenInv, At
<1>7. DeltaInv' /\ ReachInv' /\ MeetDelta' /\ MeetMark'
  BY <1>3 DEF DeltaInv, ReachInv, MeetDelta, MeetMark, Filling
<1>8. MirrorInv' /\ MeetInv' /\ SlotInv'
  BY <1>1 DEF MirrorInv, Missing, MeetInv, SlotInv
<1> QED
  BY <1>5, <1>6, <1>7, <1>8

\* After the upsert the mirror has all that was listed, and what it overlaps is about to be displaced.
LEMMA UpsertImport ==
  ASSUME Types, Types', CalendarAssumption, LeaseInv, ImportInv, NEW p \in Syncs, Upsert(p)
  PROVE  ImportInv'
<1> USE DEF ImportInv
<1>0. p \in Jobs
  BY DEF Jobs
<1>1. /\ UNCHANGED <<event, seq, copies, row, rec, lease, lost, wiped>>
      /\ At(p, "upsert") /\ job[p] \in JobRecords /\ job'[p] \in JobRecords
      /\ job'[p].pc = "mark" /\ job'[p].token = job[p].token /\ job'[p].upTo = job[p].upTo
      /\ job'[p].ids = Overlapped(p)
      /\ \A e \in Events :
           \/ mirror'[e] = mirror[e] /\ \A d \in job[p].delta : d.event # e
           \/ \E d \in job[p].delta : d.event = e /\ mirror'[e] = d.at
      /\ \A q \in Jobs \ {p} : job'[q] = job[q]
  BY <1>0, UpsertStep
<1>2. \A q \in Syncs \ {p} : job'[q] = job[q]
  BY <1>1 DEF Jobs
<1>3. Holding(p) /\ Filling(p) /\ ~At(p, "off")
  BY <1>1 DEF Holding, Filling, At
<1>4. \A q \in Syncs : /\ q # p => ~Filling(q) /\ ~At(q, "upsert") /\ ~Filling(q)'
                       /\ ~At(q, "upsert")'
  BY <1>1, <1>2, <1>3, OneFilling DEF Filling, At
<1>5. /\ seq \in Nat /\ row.token \in Ids /\ job[p].token \in Ids /\ job[p].upTo \in Nat
      /\ \A f \in Events : event[f].seq \in Nat /\ mirror[f].seq \in Nat /\ mirror'[f].seq \in Nat
      /\ job[p].delta \subseteq Deltas
      /\ \A r \in Recs : rec[r] \in Blocks
  BY <1>1 DEF Types, GoogleTypes, AppTypes, Rows, Changes, JobRecords
<1>6. \A d \in job[p].delta : /\ d.event \in Events /\ d.at.seq \in Nat
                              /\ d.at.seq <= job[p].upTo /\ d.at.seq <= event[d.event].seq
                              /\ (event[d.event].seq <= job[p].upTo => d.at = event[d.event])
                              /\ d.at.seq > 0
  BY <1>1, <1>5 DEF DeltaInv, Deltas, Changes
<1>7. ASSUME NEW e \in Events, \A d \in job[p].delta : d.event # e
      PROVE  mirror[e].seq <= (IF job[p].token = None THEN 0 ELSE job[p].token)
  BY <1>1, <1>7 DEF DeltaInv
<1>8. EventInv'
  <2> SUFFICES ASSUME NEW e \in Events
               PROVE  mirror'[e].seq <= event[e].seq /\ (mirror'[e].seq = 0 => mirror'[e] = Gone)
    BY <1>1 DEF EventInv
  <2>1. CASE mirror'[e] = mirror[e]
    BY <2>1 DEF EventInv
  <2>2. CASE \E d \in job[p].delta : d.event = e /\ mirror'[e] = d.at
    BY <1>5, <1>6, <2>2
  <2> QED
    BY <1>1, <2>1, <2>2
<1>9. TokenInv'
  <2>1. ASSUME NEW q \in Syncs, Filling(q)'
        PROVE job'[q].upTo <= seq' /\ (row'.token # None => row'.token <= job'[q].upTo)
    <3>1. q = p
      BY <1>4, <2>1
    <3> QED
      BY <1>1, <1>3, <3>1 DEF TokenInv
  <2>2. ASSUME NEW q \in Syncs, ~At(q, "off")', job'[q].token # None
        PROVE row'.token # None /\ job'[q].token <= row'.token
    <3>1. CASE q = p
      BY <1>1, <1>3, <2>2, <3>1 DEF TokenInv
    <3>2. CASE q # p
      BY <1>1, <1>2, <2>2, <3>2 DEF TokenInv, At
    <3> QED
      BY <3>1, <3>2
  <2> QED
    BY <1>1, <2>1, <2>2 DEF TokenInv
<1>10. DeltaInv' /\ MeetDelta'
  BY <1>4 DEF DeltaInv, MeetDelta
<1>11. ASSUME NEW e \in Events, event[e].seq <= job[p].upTo
       PROVE  mirror'[e] = event[e] \/ (wiped /\ mirror'[e] = Gone /\ job[p].token # None)
  <2>1. CASE mirror'[e] = mirror[e] /\ \A d \in job[p].delta : d.event # e
    BY <1>3, <1>11, <2>1 DEF ReachInv, Missing
  <2>2. CASE \E d \in job[p].delta : d.event = e /\ mirror'[e] = d.at
    BY <1>6, <1>11, <2>2
  <2> QED
    BY <1>1, <2>1, <2>2
<1>12. row.token # None => row.token \in Nat /\ row.token <= job[p].upTo
  BY <1>3, <1>5 DEF TokenInv, Ids
<1>13. MirrorInv'
  <2> SUFFICES ASSUME row.token # None, NEW e \in Events, event[e].seq <= row.token
               PROVE  mirror'[e] = event[e] \/ (wiped /\ mirror'[e] = Gone)
    BY <1>1 DEF MirrorInv, Missing
  <2>1. event[e].seq <= job[p].upTo
    BY <1>5, <1>12
  <2> QED
    BY <1>11, <2>1
<1>14. ReachInv'
  <2> SUFFICES ASSUME NEW q \in Syncs, Filling(q)', NEW e \in Events, event[e].seq <= job'[q].upTo
               PROVE  mirror'[e] = event[e] \/ (wiped /\ mirror'[e] = Gone /\ job'[q].token # None)
    BY <1>1 DEF ReachInv, Missing
  <2>1. q = p
    BY <1>4
  <2> QED
    BY <1>1, <1>11, <2>1
<1>15. SlotInv'
  BY <1>1 DEF SlotInv
<1>16. MeetInv'
  <2> SUFFICES ASSUME row.token # None, NEW r \in Recs, NEW e \in Events, AsPlanned(r),
                      mirror'[e].seq <= row.token, mirror'[e].slot = rec[r].slot
               PROVE  wiped
    BY <1>1 DEF MeetInv, AsPlanned
  <2>1. CASE mirror'[e] = mirror[e]
    BY <2>1 DEF MeetInv
  <2>2. CASE \E d \in job[p].delta : d.event = e /\ mirror'[e] = d.at
    BY <1>1, <2>2 DEF MeetDelta
  <2> QED
    BY <1>1, <2>1, <2>2
<1>17. ASSUME NEW r \in Recs, NEW e \in Events, AsPlanned(r), mirror'[e].slot = rec[r].slot, ~(wiped /\ job[p].token # None)
       PROVE  r \in Overlapped(p)
  <2>1. CASE \E d \in job[p].delta : d.event = e /\ mirror'[e] = d.at
    BY <1>17, <2>1 DEF Overlapped, AsPlanned
  <2>2. CASE mirror'[e] = mirror[e] /\ \A d \in job[p].delta : d.event # e
    <3>1. mirror[e].seq <= (IF job[p].token = None THEN 0 ELSE job[p].token)
      BY <1>7, <2>2
    <3>2. CASE job[p].token = None
      <4>1. mirror[e] = Gone
        BY <1>5, <3>1, <3>2 DEF EventInv
      <4>2. rec[r].slot = None
        BY <1>17, <2>2, <4>1 DEF Gone
      <4>3. rec[r].slot \in Slots
        BY <1>17 DEF SlotInv, AsPlanned
      <4> QED
        BY <4>2, <4>3, CalendarAssumption
    <3>3. CASE job[p].token # None
      <4>1. row.token # None /\ job[p].token <= row.token
        BY <1>3, <3>3 DEF TokenInv
      <4>2. mirror[e].seq <= row.token
        <5>1. job[p].token \in Nat /\ row.token \in Nat
          BY <1>5, <3>3, <4>1 DEF Ids
        <5> QED
          BY <1>5, <3>1, <3>3, <4>1, <5>1
      <4>3. wiped
        BY <1>17, <2>2, <4>1, <4>2 DEF MeetInv
      <4> QED
        BY <1>17, <3>3, <4>3
    <3> QED
      BY <3>2, <3>3
  <2> QED
    BY <1>1, <2>1, <2>2
<1>18. MeetMark'
  <2> SUFFICES ASSUME NEW q \in Syncs, job'[q].pc \in {"mark", "save"}, NEW r \in Recs, NEW e \in Events, AsPlanned(r),
                      mirror'[e].slot = rec[r].slot
               PROVE  (At(q, "mark")' /\ r \in job'[q].ids) \/ (wiped /\ job'[q].token # None)
    BY <1>1 DEF MeetMark, AsPlanned
  <2>1. q = p
    BY <1>4 DEF Filling
  <2> QED
    BY <1>1, <1>17, <2>1 DEF At
<1> QED
  BY <1>8, <1>9, <1>10, <1>13, <1>14, <1>15, <1>16, <1>18

\* The overlapped blocks are displaced.
LEMMA MarkImport ==
  ASSUME Types, Types', LeaseInv, ImportInv, NEW p \in Syncs, MarkDisplaced(p)
  PROVE  ImportInv'
<1> USE DEF ImportInv
<1>0. p \in Jobs
  BY DEF Jobs
<1>1. /\ UNCHANGED <<event, seq, copies, row, mirror, lease, lost, wiped>>
      /\ At(p, "mark") /\ job'[p].pc = "save" /\ job'[p].token = job[p].token /\ job'[p].upTo = job[p].upTo
      /\ \A r \in Recs : rec'[r].status \in Open => rec'[r] = rec[r] /\ r \notin job[p].ids
      /\ \A q \in Jobs \ {p} : job'[q] = job[q]
  BY <1>0, MarkStep
<1>2. \A q \in Syncs \ {p} : job'[q] = job[q]
  BY <1>1 DEF Jobs
<1>3. /\ Holding(p)
      /\ Filling(p)
      /\ ~At(p, "off")
      /\ ~At(p, "upsert")
      /\ Filling(p)'
      /\ ~At(p, "upsert")'
      /\ ~At(p, "mark")'
  BY <1>1 DEF Holding, Filling, At
<1>4. \A q \in Syncs \ {p} : ~Filling(q) /\ ~At(q, "upsert") /\ ~Filling(q)' /\ ~At(q, "upsert")'
  BY <1>2, <1>3, OneFilling DEF Filling, At
<1>5. \A r \in Recs : AsPlanned(r)' => AsPlanned(r) /\ rec'[r] = rec[r] /\ r \notin job[p].ids
  BY <1>1 DEF AsPlanned
<1>6. EventInv' /\ MirrorInv'
  BY <1>1 DEF EventInv, MirrorInv, Missing
<1>7. TokenInv'
  <2>1. ASSUME NEW q \in Syncs PROVE
       /\ ~At(q, "off")' /\ job'[q].token # None => row.token # None /\ job'[q].token <= row.token
       /\ Filling(q)' => job'[q].upTo <= seq /\ (row.token # None => row.token <= job'[q].upTo)
    <3>1. CASE q = p
      BY <1>1, <1>3, <3>1 DEF TokenInv
    <3>2. CASE q # p
      BY <1>2, <1>4, <3>2 DEF TokenInv, At
    <3> QED
      BY <3>1, <3>2
  <2> QED
    BY <1>1, <2>1 DEF TokenInv
<1>8. DeltaInv' /\ MeetDelta'
  BY <1>3, <1>4 DEF DeltaInv, MeetDelta
<1>9. ReachInv'
  <2> SUFFICES ASSUME NEW q \in Syncs, Filling(q)', NEW e \in Events, event[e].seq <= job'[q].upTo
               PROVE  mirror[e] = event[e] \/ (Missing(e) /\ job'[q].token # None)
    BY <1>1 DEF ReachInv, Missing
  <2>1. q = p
    BY <1>4
  <2> QED
    BY <1>1, <1>3, <2>1 DEF ReachInv
<1>10. SlotInv'
  BY <1>1 DEF SlotInv
<1>11. MeetInv'
  BY <1>1, <1>5 DEF MeetInv
<1>12. MeetMark'
  <2> SUFFICES ASSUME NEW q \in Syncs, job'[q].pc \in {"mark", "save"}, NEW r \in Recs, NEW e \in Events, AsPlanned(r)',
                      mirror[e].slot = rec'[r].slot
               PROVE  wiped /\ job'[q].token # None
    BY <1>1 DEF MeetMark
  <2>1. q = p
    BY <1>4 DEF Filling
  <2>2. AsPlanned(r) /\ mirror[e].slot = rec[r].slot /\ r \notin job[p].ids
    BY <1>5
  <2> QED
    BY <1>1, <2>1, <2>2 DEF MeetMark, At
<1> QED
  BY <1>6, <1>7, <1>8, <1>9, <1>10, <1>11, <1>12

\* The token that is saved vouches for what was listed; a full listing has brought back what was wiped.
LEMMA SaveImport ==
  ASSUME Types, Types', CalendarAssumption, LeaseInv, ImportInv, NEW p \in Syncs, SaveToken(p)
  PROVE  ImportInv'
<1> USE DEF ImportInv
<1>0. p \in Jobs
  BY DEF Jobs
<1>1. /\ row'.token = job[p].upTo
      /\ UNCHANGED <<event, seq, copies, mirror, rec, lease, lost>>
      /\ wiped' = (wiped /\ job[p].token # None)
      /\ At(p, "save") /\ job[p] \in JobRecords
      /\ job'[p].pc = (IF p = "confirm" THEN "channel" ELSE "writeback") /\ job'[p].token = None
      /\ \A q \in Jobs \ {p} : job'[q] = job[q]
  BY <1>0, SaveStep
<1>2. \A q \in Syncs \ {p} : job'[q] = job[q]
  BY <1>1 DEF Jobs
<1>3. Holding(p) /\ Filling(p) /\ ~At(p, "off") /\ ~At(p, "upsert") /\ ~Filling(p)' /\ ~At(p, "mark")
  BY <1>1 DEF Holding, Filling, At
<1>4. \A q \in Syncs : ~Filling(q)' /\ ~At(q, "upsert")'
  BY <1>2, <1>3, OneFilling DEF Filling, At
<1>5. job[p].upTo \in Nat /\ row.token \in Ids /\ job[p].upTo # None /\ seq \in Nat
  <2>1. row' \in Rows
    BY DEF Types, AppTypes
  <2>2. job[p].upTo \in Nat /\ row.token \in Ids /\ seq \in Nat
    BY <1>1 DEF Types, GoogleTypes, AppTypes, Rows, JobRecords
  <2> QED
    BY <2>2, CalendarAssumption
<1>6. EventInv' /\ SlotInv'
  BY <1>1 DEF EventInv, SlotInv
<1>7. DeltaInv' /\ ReachInv' /\ MeetDelta' /\ MeetMark'
  BY <1>4 DEF DeltaInv, ReachInv, MeetDelta, MeetMark, Filling
<1>8. job[p].upTo <= seq /\ (row.token # None => row.token <= job[p].upTo)
  BY <1>3 DEF TokenInv
<1>9. TokenInv'
  <2>1. ASSUME NEW q \in Syncs, ~At(q, "off")', job'[q].token # None
        PROVE row'.token # None /\ job'[q].token <= row'.token
    <3>1. q # p
      BY <1>1, <2>1
    <3>2. row.token # None /\ job[q].token <= row.token /\ job'[q].token = job[q].token /\ job[q] \in JobRecords
      <4>1. job'[q] = job[q] /\ q \in Jobs /\ ~At(q, "off")
        BY <1>2, <2>1, <3>1 DEF At, Jobs
      <4> QED
        BY <2>1, <4>1, JobKinds DEF TokenInv, Types
    <3>3. job[q].token \in Nat /\ row.token \in Nat
      BY <1>5, <2>1, <3>2 DEF JobRecords, Ids
    <3> QED
      BY <1>1, <1>5, <1>8, <3>2, <3>3
  <2> QED
    BY <1>1, <1>4, <1>8, <2>1 DEF TokenInv
<1>10. \A e \in Events : event[e].seq <= job[p].upTo => mirror[e] = event[e] \/ (Missing(e) /\ job[p].token # None)
  BY <1>3 DEF ReachInv
<1>11. MirrorInv'
  BY <1>1, <1>10 DEF MirrorInv, Missing
<1>12. MeetInv'
  <2> SUFFICES ASSUME NEW r \in Recs, NEW e \in Events, AsPlanned(r)
               PROVE  /\ event[e].seq <= job[p].upTo /\ event[e].slot = rec[r].slot => wiped /\ job[p].token # None
                      /\ mirror[e].slot = rec[r].slot => wiped /\ job[p].token # None
    BY <1>1 DEF MeetInv, AsPlanned
  <2>1. mirror[e].slot = rec[r].slot => wiped /\ job[p].token # None
    BY <1>1, <1>3 DEF MeetMark, At
  <2> QED
    BY <1>10, <2>1 DEF Missing
<1> QED
  BY <1>6, <1>7, <1>9, <1>11, <1>12

\* Beside the switch and the disconnect no sync runs; the row they delete has no token.
LEMMA UserImport ==
  ASSUME Types, Types', LeaseInv, ImportInv, UserStep
  PROVE  ImportInv'
<1> USE DEF ImportInv
<1>1. /\ UNCHANGED <<event, seq, copies, rec, lease, lost, wiped>>
      /\ row'.token \in {row.token, None}
      /\ mirror' = mirror \/ (row'.token = None /\ mirror' = [e \in Events |-> Gone])
      /\ \A q \in Syncs : At(q, "off") /\ job'[q] = job[q]
  <2>1. PICK p \in {"switch", "disconnect"} :
              /\ ~At(p, "off")
              /\ \/ p = "disconnect" /\ row'.token = None /\ mirror' = mirror
                 \/ row'.token = row.token /\ mirror' = mirror
                 \/ At(p, "wipe") /\ p = "disconnect" /\ row' = row /\ mirror' = [e \in Events |-> Gone]
              /\ \A q \in Jobs \ {p} : job'[q] = job[q]
    BY UserStepEffect
  <2>2. Syncs \subseteq Jobs \ {p}
    BY DEF Jobs, Syncs
  <2>3. \A q \in Syncs : At(q, "off") /\ job'[q] = job[q]
    BY <2>1, <2>2 DEF LeaseInv
  <2>4. UNCHANGED <<event, seq, copies, rec, lease, lost, wiped>>
    BY UserStepEffect
  <2> QED
    BY <2>1, <2>3, <2>4 DEF LeaseInv
<1>2. \A q \in Syncs : At(q, "off")' /\ ~Filling(q)' /\ ~At(q, "upsert")'
  BY <1>1 DEF At, Filling
<1>3. EventInv'
  <2>1. \A e \in Events : event[e].seq \in Nat /\ Gone.seq = 0
    BY DEF Types, GoogleTypes, Changes, Gone
  <2> QED
    BY <1>1, <2>1 DEF EventInv
<1>4. TokenInv'
  BY <1>1, <1>2 DEF TokenInv
<1>5. DeltaInv' /\ ReachInv' /\ MeetDelta' /\ MeetMark'
  BY <1>2 DEF DeltaInv, ReachInv, MeetDelta, MeetMark, Filling
<1>6. MirrorInv' /\ MeetInv' /\ SlotInv'
  BY <1>1 DEF MirrorInv, MeetInv, SlotInv, Missing, AsPlanned
<1> QED
  BY <1>3, <1>4, <1>5, <1>6

Calls(p) == job[p].pc \in {"call", "note"}

Owns == \A r \in Recs : (rec[r].gid = None) = (rec[r].synced = None)

TodoInv ==
  \A p \in Jobs : Calls(p) =>
    /\ \A w \in job[p].todo : Due(w)
    /\ \A v, w \in job[p].todo : v.rec = w.rec => v = w

\* What Google has answered and the row does not say yet.
Answered(m) ==
  /\ m \in Made /\ (m.gid = None) = (m.slot = None)
  /\ m.gid # None =>
       /\ rec[m.rec].gid \in {None, m.gid}
       /\ \A c \in copies : c.id = m.gid => c.rec = m.rec
       /\ \A r \in Recs : rec[r].gid = m.gid => r = m.rec

MadeInv ==
  \A p \in Jobs : At(p, "note") => Answered(job[p].made) /\ \A w \in job[p].todo : w.rec # job[p].made.rec

OwnInv ==
  /\ \A c, d \in copies : c.id = d.id => c = d
  /\ \A c \in copies, r \in Recs : rec[r].gid = c.id => c.rec = r
  /\ \A q, r \in Recs : rec[q].gid # None /\ rec[q].gid = rec[r].gid => q = r

Orphans == {c \in copies : rec[c.rec].gid # c.id}
Noted == {c \in copies : \E p \in Jobs : At(p, "note") /\ c.id = job[p].made.gid}
\* The copies that no row names or will, and the one whose delete has failed and whose id is forgotten next.
Left == {c \in copies : \E p \in Jobs : At(p, "note") /\ job[p].made.gid = None /\ rec[job[p].made.rec].gid = c.id}
Owed == (Orphans \ Noted) \cup Left
CountInv == Cardinality(Owed) <= lost

CopyInv == Owns /\ TodoInv /\ MadeInv /\ OwnInv /\ IdInv /\ CountInv

\* Beside the holder of the lease, or a switch or disconnect, nobody calls Google.
LEMMA OneCaller ==
  ASSUME LeaseInv, NEW p \in Jobs, ~At(p, "off"), p \in Syncs => Holding(p), NEW q \in Jobs, Calls(q), q # p
  PROVE  FALSE
<1>1. ~At(q, "off")
  BY DEF Calls, At
<1>2. CASE p \in Syncs /\ q \in Syncs
  BY <1>2 DEF LeaseInv, Holding, Calls
<1>3. CASE p \in {"switch", "disconnect"}
  BY <1>1, <1>3 DEF LeaseInv
<1>4. CASE q \in {"switch", "disconnect"}
  BY <1>1, <1>4 DEF LeaseInv
<1> QED
  BY <1>2, <1>3, <1>4 DEF Jobs

\* The copies no row names can be counted.
LEMMA OrphansFinite ==
  ASSUME Types
  PROVE  IsFiniteSet(Owed) /\ Cardinality(Owed) \in Nat
<1>1. IsFiniteSet(copies) /\ Owed \subseteq copies
  BY DEF Types, GoogleTypes, Owed, Orphans, Left
<1> QED
  BY <1>1, FS_Subset, FS_CardinalityType

\* With no copy more that nobody accounts for, the count stays.
LEMMA CountFewer ==
  ASSUME Types, Types', CountInv, lost' \in {lost, lost + 1}, Owed' \subseteq Owed
  PROVE  CountInv'
<1>1. Cardinality(Owed') <= Cardinality(Owed)
  BY OrphansFinite, FS_Subset
<1>2. Cardinality(Owed') \in Nat /\ Cardinality(Owed) \in Nat /\ lost \in Nat
  BY OrphansFinite, FS_Subset, FS_CardinalityType DEF Types, AppTypes
<1> HIDE DEF Owed
<1>3. Cardinality(Owed)' = Cardinality(Owed')
  OBVIOUS
<1> QED
  BY <1>1, <1>2, <1>3 DEF CountInv

\* One copy more is made up for by one call more that failed.
LEMMA CountMore ==
  ASSUME Types, Types', CountInv, lost' = lost + 1, NEW x, Owed' \subseteq Owed \cup {x}
  PROVE  CountInv'
<1> DEFINE A == Owed
           B == Owed'
<1>1. IsFiniteSet(A) /\ Cardinality(A) \in Nat /\ Cardinality(A) <= lost /\ lost \in Nat
  BY OrphansFinite DEF CountInv, Types, AppTypes
<1>2. B \subseteq A \cup {x}
  OBVIOUS
<1> HIDE DEF A, B
<1>3. IsFiniteSet(A \cup {x}) /\ Cardinality(A \cup {x}) <= Cardinality(A) + 1
  <2>1. /\ IsFiniteSet(A \cup {x})
        /\ Cardinality(A \cup {x}) = IF x \in A THEN Cardinality(A) ELSE Cardinality(A) + 1
    BY <1>1, FS_AddElement
  <2> QED
    BY <1>1, <2>1
<1>4. /\ IsFiniteSet(B)
      /\ Cardinality(B) <= Cardinality(A \cup {x})
      /\ Cardinality(A \cup {x}) \in Nat
      /\ Cardinality(B) \in Nat
  BY <1>2, <1>3, FS_Subset, FS_CardinalityType
<1>5. Cardinality(B) <= lost + 1
  BY <1>1, <1>3, <1>4
<1>6. Cardinality(Owed)' = Cardinality(B)
  BY DEF B
<1> QED
  BY <1>5, <1>6 DEF CountInv

\* A step beside the calls of Google.
LEMMA CopyKept ==
  ASSUME Types, Types', CopyInv, UNCHANGED copies, lost' \in {lost, lost + 1},
         \A r \in Recs : rec'[r].gid = rec[r].gid /\ rec'[r].synced = rec[r].synced,
         \A p \in Jobs : \/ job'[p] = job[p]
                         \/ ~At(p, "note") /\ job'[p].pc \notin {"call", "note"}
                         \/ ~At(p, "note") /\ job'[p].pc = "call" /\ (\A w \in job'[p].todo : Due(w))
                            /\ (\A v, w \in job'[p].todo : v.rec = w.rec => v = w)
  PROVE  CopyInv'
<1> USE DEF CopyInv
<1>1. \A p \in Jobs : At(p, "note") <=> At(p, "note")'
  BY DEF At
<1>2. \A p \in Jobs : At(p, "note") => job'[p] = job[p]
  BY DEF At
<1>3. \A c \in copies : c.rec \in Recs
  BY DEF Types, GoogleTypes
<1>4. \A p \in Jobs : Calls(p) => job[p] \in JobRecords
  BY JobKinds DEF Types, Calls, At
<1>5. \A p \in Jobs : Calls(p)' => job'[p] \in JobRecords
  BY DEF Types, JobTypes, Idle, Calls
<1>6. Owns' /\ OwnInv' /\ IdInv'
  BY DEF Owns, OwnInv, IdInv
<1>7. \A w \in Works : Due(w) => Due(w)'
  BY DEF Due, Works
<1>8. TodoInv'
  <2> SUFFICES ASSUME NEW p \in Jobs, Calls(p)'
               PROVE  /\ \A w \in job'[p].todo : Due(w)'
                      /\ \A v, w \in job'[p].todo : v.rec = w.rec => v = w
    BY DEF TodoInv
  <2>1. job'[p].todo \subseteq Works
    BY <1>5 DEF JobRecords
  <2>2. CASE job'[p] = job[p]
    <3>1. Calls(p)
      BY <2>2 DEF Calls
    <3> QED
      BY <1>7, <2>1, <2>2, <3>1 DEF TodoInv
  <2>3. CASE job'[p] # job[p]
    BY <1>7, <2>1, <2>3 DEF Calls
  <2> QED
    BY <2>2, <2>3
<1>9. MadeInv'
  <2> SUFFICES ASSUME NEW p \in Jobs, At(p, "note")
               PROVE  Answered(job[p].made)' /\ \A w \in job[p].todo : w.rec # job[p].made.rec
    BY <1>1, <1>2 DEF MadeInv
  <2>1. Answered(job[p].made) /\ \A w \in job[p].todo : w.rec # job[p].made.rec
    BY DEF MadeInv
  <2>2. job'[p].made = job[p].made
    BY <1>2
  <2> QED
    BY <2>1, <2>2 DEF Answered, Made
<1>10. Owed' \subseteq Owed
  <2>1. Orphans' = Orphans
    BY <1>3 DEF Orphans
  <2>2. Noted' = Noted
    BY <1>1, <1>2 DEF Noted
  <2>3. \A p \in Jobs : At(p, "note") => job'[p] = job[p] /\ rec'[job[p].made.rec].gid = rec[job[p].made.rec].gid
    BY <1>2 DEF MadeInv, Answered, Made
  <2>4. Left' = Left
    BY <1>1, <2>3 DEF Left
  <2> QED
    BY <2>1, <2>2, <2>4 DEF Owed
<1>11. CountInv'
  BY <1>10, CountFewer
<1> QED
  BY <1>6, <1>8, <1>9, <1>11

\* A call that dies, or gives up, between Google's answer and the row leaves at most one copy more
\* unaccounted for.
LEMMA CopyEnd ==
  ASSUME Types, Types', CalendarAssumption, LeaseInv, CopyInv, UNCHANGED <<copies, rec>>, NEW p \in Jobs,
         ~At(p, "off"), Others(p), job'[p].pc \in {"off", "call"}, job'[p].pc = "call" => job'[p].todo = {},
         lost' = lost + 1 \/ (lost' = lost /\ ~At(p, "note"))
  PROVE  CopyInv'
<1> USE DEF CopyInv
<1>1. ~At(p, "note")' /\ (Calls(p)' => job'[p].todo = {})
  BY DEF At, Calls
<1>2. Owns' /\ OwnInv' /\ IdInv'
  BY DEF Owns, OwnInv, IdInv
<1>3. TodoInv'
  <2> SUFFICES ASSUME NEW q \in Jobs, Calls(q)'
               PROVE  /\ \A w \in job'[q].todo : Due(w)'
                      /\ \A v, w \in job'[q].todo : v.rec = w.rec => v = w
    BY DEF TodoInv
  <2>1. CASE q = p
    BY <1>1, <2>1
  <2>2. CASE q # p
    <3>1. job'[q] = job[q]
      BY <2>2 DEF Others
    <3>2. Calls(q)
      BY <3>1 DEF Calls
    <3> QED
      BY <3>1, <3>2 DEF TodoInv, Due
  <2> QED
    BY <2>1, <2>2
<1>4. MadeInv'
  <2> SUFFICES ASSUME NEW q \in Jobs, At(q, "note")'
               PROVE  Answered(job[q].made)' /\ \A w \in job'[q].todo : w.rec # job'[q].made.rec
    BY DEF MadeInv
  <2>1. q # p /\ job'[q] = job[q]
    BY <1>1 DEF Others
  <2>2. At(q, "note")
    BY <2>1 DEF At
  <2>3. Answered(job[q].made) /\ \A w \in job[q].todo : w.rec # job[q].made.rec
    BY <2>2 DEF MadeInv
  <2>4. job'[q].made = job[q].made /\ job'[q].todo = job[q].todo
    BY <2>1
  <2> QED
    BY <2>3, <2>4 DEF Answered
<1>5. Orphans' = Orphans
  BY DEF Orphans
<1>6. Left' \subseteq Left
  BY <1>1 DEF Left, At, Others
<1>7. CASE lost' = lost /\ ~At(p, "note")
  <2>1. Noted' = Noted
    BY <1>1, <1>7 DEF Noted, At, Others
  <2>2. Owed' \subseteq Owed
    BY <1>5, <1>6, <2>1 DEF Owed
  <2> QED
    BY <1>2, <1>3, <1>4, <1>7, <2>2, CountFewer
<1>8. CASE lost' = lost + 1
  <2>1. PICK x : Orphans \ Noted' \subseteq (Orphans \ Noted) \cup {x}
    <3>1. CASE Noted = {}
      BY <3>1
    <3>2. CASE Noted # {}
      <4>1. PICK c \in Noted : TRUE
        BY <3>2
      <4>2. ASSUME NEW d \in Noted PROVE d = c
        <5>1. PICK i \in Jobs : At(i, "note") /\ c.id = job[i].made.gid
          BY <4>1 DEF Noted
        <5>2. PICK j \in Jobs : At(j, "note") /\ d.id = job[j].made.gid
          BY <4>2 DEF Noted
        <5>3. i = j
          BY <5>1, <5>2, OneCaller DEF Calls, At, Holding
        <5> QED
          BY <4>1, <4>2, <5>1, <5>2, <5>3 DEF OwnInv, Noted
      <4> QED
        BY <4>2
    <3> QED
      BY <3>1, <3>2
  <2>2. Owed' \subseteq Owed \cup {x}
    BY <1>5, <1>6, <2>1 DEF Owed
  <2> QED
    BY <1>2, <1>3, <1>4, <1>8, <2>2, CountMore
<1> QED
  BY <1>7, <1>8

\* Google's copies after a call: the ids stay the blocks' own.
LEMMA CopyCall ==
  ASSUME Types, Types', CalendarAssumption, LeaseInv, CopyInv, NEW p \in Jobs, CallGoogle(p)
  PROVE  CopyInv'
<1> USE DEF CopyInv
<1>1. At(p, "call") /\ Calls(p) /\ ~At(p, "off") /\ Holding(p)
  BY DEF CallGoogle, At, Calls, Holding
<1>2. (\A w \in job[p].todo : Due(w)) /\ \A v, w \in job[p].todo : v.rec = w.rec => v = w
  BY <1>1 DEF TodoInv
<1>3. /\ UNCHANGED <<event, seq, row, mirror, rec, lease, lost, wiped>>
      /\ job[p] \in JobRecords /\ job'[p] \in JobRecords
      /\ job'[p].pc = "note"
      /\ \A q \in Jobs \ {p} : job'[q] = job[q]
      /\ \E w \in job[p].todo :
              /\ job'[p].todo = job[p].todo \ {w}
              /\ job'[p].made \in Made /\ job'[p].made.rec = w.rec
              /\ (job'[p].made.gid = None) <=> (job'[p].made.slot = None)
              /\ \/ /\ w.do = "insert" /\ job'[p].made.gid = NewId
                    /\ copies' = copies \cup {[id |-> NewId, rec |-> w.rec, slot |-> w.slot]}
                 \/ /\ w.do = "patch" /\ job'[p].made.gid = w.gid
                    /\ copies' = {IF c.id = w.gid THEN [c EXCEPT !.slot = w.slot] ELSE c : c \in copies}
                 \/ /\ w.do = "delete" /\ job'[p].made.gid = None
                    /\ copies' = {c \in copies : c.id # w.gid}
  BY <1>2, CallStep
<1>4. PICK w \in job[p].todo :
              /\ job'[p].todo = job[p].todo \ {w}
              /\ job'[p].made \in Made /\ job'[p].made.rec = w.rec
              /\ (job'[p].made.gid = None) <=> (job'[p].made.slot = None)
              /\ \/ /\ w.do = "insert" /\ job'[p].made.gid = NewId
                    /\ copies' = copies \cup {[id |-> NewId, rec |-> w.rec, slot |-> w.slot]}
                 \/ /\ w.do = "patch" /\ job'[p].made.gid = w.gid
                    /\ copies' = {IF c.id = w.gid THEN [c EXCEPT !.slot = w.slot] ELSE c : c \in copies}
                 \/ /\ w.do = "delete" /\ job'[p].made.gid = None
                    /\ copies' = {c \in copies : c.id # w.gid}
  BY <1>3
<1> DEFINE m == job'[p].made
<1>5. /\ w \in Works /\ Due(w) /\ w.rec \in Recs /\ w.gid \in Ids
      /\ \A c \in copies : c.id \in Nat /\ c.rec \in Recs /\ c.id # None
      /\ \A r \in Recs : rec[r].gid \in Ids
  BY <1>2, <1>3, CalendarAssumption DEF JobRecords, Works, Types, GoogleTypes, AppTypes, Blocks
<1>6. /\ NewId \in Nat /\ NewId # None
      /\ \A c \in copies : c.id # NewId
      /\ \A r \in Recs : rec[r].gid # NewId
  <2>1. /\ NewId \in Nat
        /\ (\A c \in copies : c.id < NewId)
        /\ \A r \in Recs : rec[r].gid # None => rec[r].gid < NewId
    BY NewIdIsNew
  <2> QED
    BY <1>5, <2>1, CalendarAssumption DEF Ids
<1>7. \A q \in Jobs : q # p => ~Calls(q) /\ ~At(q, "note") /\ ~Calls(q)' /\ ~At(q, "note")'
  <2>1. \A q \in Jobs : q # p => ~Calls(q)
    BY <1>1, OneCaller
  <2> QED
    BY <1>3, <2>1 DEF Calls, At
<1>8. Noted = {}
  BY <1>1, <1>7 DEF Noted, At
<1>9. OwnInv' /\ Answered(job[p].made)' /\ Orphans' \ Noted' \subseteq Orphans
  <2>1. CASE w.do = "insert"
    <3> DEFINE n == [id |-> NewId, rec |-> w.rec, slot |-> w.slot]
    <3>1. copies' = copies \cup {n} /\ m.gid = NewId
      BY <1>4, <2>1
    <3>2. n.id = NewId /\ n.rec = w.rec
      OBVIOUS
    <3> HIDE DEF n
    <3>3. OwnInv'
      BY <1>3, <1>6, <3>1, <3>2 DEF OwnInv
    <3>4. rec[w.rec].gid = None
      BY <1>5, <2>1 DEF Due
    <3>5. Answered(job[p].made)'
      BY <1>3, <1>4, <1>6, <3>1, <3>2, <3>4 DEF Answered
    <3>6. n \in Noted'
      BY <1>3, <3>1, <3>2 DEF Noted, At
    <3>7. Orphans' \subseteq Orphans \cup {n}
      BY <1>3, <3>1 DEF Orphans
    <3> QED
      BY <3>3, <3>5, <3>6, <3>7
  <2>2. CASE w.do = "patch"
    <3> DEFINE F(c) == IF c.id = w.gid THEN [c EXCEPT !.slot = w.slot] ELSE c
    <3>1. copies' = {F(c) : c \in copies} /\ m.gid = w.gid /\ w.gid # None /\ w.gid = rec[w.rec].gid
      BY <1>4, <1>5, <2>2 DEF Due
    <3>2. \A c \in copies : F(c).id = c.id /\ F(c).rec = c.rec /\ (c.id # w.gid => F(c) = c)
      OBVIOUS
    <3> HIDE DEF F
    <3>3. OwnInv'
      <4>1. \A c, d \in copies' : c.id = d.id => c = d
        BY <3>1, <3>2 DEF OwnInv
      <4>2. \A c \in copies', r \in Recs : rec[r].gid = c.id => c.rec = r
        BY <3>1, <3>2 DEF OwnInv
      <4> QED
        BY <1>3, <4>1, <4>2 DEF OwnInv
    <3>4. \A c \in copies' : c.id = w.gid => c.rec = w.rec
      BY <1>5, <3>1, <3>2 DEF OwnInv
    <3>5. \A r \in Recs : rec[r].gid = w.gid => r = w.rec
      BY <1>5, <3>1 DEF OwnInv
    <3>6. Answered(job[p].made)'
      BY <1>3, <1>4, <3>1, <3>4, <3>5 DEF Answered
    <3>7. Orphans' \subseteq Orphans
      <4> SUFFICES ASSUME NEW d \in copies', rec[d.rec].gid # d.id PROVE d \in copies
        BY <1>3 DEF Orphans
      <4>1. PICK c \in copies : d = F(c)
        BY <3>1
      <4>2. c.id # w.gid
        BY <3>1, <3>2, <3>4, <4>1
      <4> QED
        BY <3>2, <4>1, <4>2
    <3> QED
      BY <3>3, <3>6, <3>7
  <2>3. CASE w.do = "delete"
    <3>1. copies' = {c \in copies : c.id # w.gid} /\ m.gid = None /\ w.gid = rec[w.rec].gid
      BY <1>4, <1>5, <2>3 DEF Due
    <3>2. OwnInv'
      BY <1>3, <3>1 DEF OwnInv
    <3>3. Answered(job[p].made)'
      BY <1>3, <1>4, <3>1 DEF Answered
    <3>4. Orphans' \subseteq Orphans
      BY <1>3, <3>1 DEF Orphans
    <3> QED
      BY <3>2, <3>3, <3>4
  <2> QED
    BY <1>5, <2>1, <2>2, <2>3 DEF Works
<1>10. Owns'
  BY <1>3 DEF Owns
<1>11. TodoInv'
  <2> SUFFICES ASSUME NEW q \in Jobs, Calls(q)'
               PROVE  /\ \A v \in job'[q].todo : Due(v)'
                      /\ \A v, u \in job'[q].todo : v.rec = u.rec => v = u
    BY DEF TodoInv
  <2>1. q = p
    BY <1>7
  <2> QED
    BY <1>2, <1>3, <1>4, <2>1 DEF Due
<1>12. MadeInv'
  <2> SUFFICES ASSUME NEW q \in Jobs, At(q, "note")'
               PROVE  Answered(job[q].made)' /\ \A v \in job'[q].todo : v.rec # job'[q].made.rec
    BY DEF MadeInv
  <2>1. q = p
    BY <1>7
  <2> QED
    BY <1>2, <1>4, <1>9, <2>1
<1>13. IdInv'
  <2>1. PICK n \in Nat : (\A c \in copies : c.id <= n) /\ \A r \in Recs : rec[r].gid # None => rec[r].gid <= n
    BY DEF IdInv
  <2> DEFINE k == n + NewId
  <2>2. k \in Nat /\ n <= k /\ NewId <= k
    BY <1>6
  <2> HIDE DEF k
  <2>3. \A c \in copies' : c.id = NewId \/ \E d \in copies : c.id = d.id
    <3>1. CASE w.do = "insert"
      BY <1>4, <3>1
    <3>2. CASE w.do = "patch"
      <4> DEFINE F(c) == IF c.id = w.gid THEN [c EXCEPT !.slot = w.slot] ELSE c
      <4>1. copies' = {F(c) : c \in copies}
        BY <1>4, <3>2
      <4>2. \A c \in copies : F(c).id = c.id
        OBVIOUS
      <4> HIDE DEF F
      <4> QED
        BY <4>1, <4>2
    <3>3. CASE w.do = "delete"
      BY <1>4, <3>3
    <3> QED
      BY <1>5, <3>1, <3>2, <3>3 DEF Works
  <2>4. \A c \in copies : c.id <= k
    BY <1>5, <2>1, <2>2
  <2>5. \A r \in Recs : rec[r].gid # None => rec[r].gid <= k
    BY <1>5, <2>1, <2>2 DEF Ids
  <2>6. \A c \in copies' : c.id <= k
    BY <2>2, <2>3, <2>4
  <2> QED
    BY <1>3, <2>2, <2>5, <2>6 DEF IdInv
<1>14. CountInv'
  <2>1. Left' = {}
    <3> SUFFICES ASSUME NEW c \in copies', NEW q \in Jobs, At(q, "note")', job'[q].made.gid = None,
                        rec'[job'[q].made.rec].gid = c.id
                 PROVE  FALSE
      BY DEF Left
    <3>1. q = p
      BY <1>7
    <3>2. w.do = "delete"
      BY <1>4, <1>5, <1>6, <3>1 DEF Due
    <3> QED
      BY <1>3, <1>4, <1>5, <3>1, <3>2 DEF Due
  <2>2. Owed' \subseteq Owed
    BY <1>8, <1>9, <2>1 DEF Owed
  <2> QED
    BY <1>3, <2>2, CountFewer
<1> QED
  BY <1>9, <1>10, <1>11, <1>12, <1>13, <1>14

\* The row names what Google answered.
LEMMA CopyNote ==
  ASSUME Types, Types', CalendarAssumption, LeaseInv, CopyInv, NEW p \in Jobs, SaveWriteBack(p)
  PROVE  CopyInv'
<1> USE DEF CopyInv
<1> DEFINE m == job[p].made
<1>1. At(p, "note") /\ Calls(p) /\ ~At(p, "off") /\ Holding(p)
  BY DEF SaveWriteBack, At, Calls, Holding
<1>2. Answered(m) /\ m \in Made /\ m.rec \in Recs /\ m.gid \in Ids /\ \A w \in job[p].todo : w.rec # m.rec
  BY <1>1 DEF MadeInv, Answered, Made
<1>3. /\ UNCHANGED <<event, seq, copies, row, mirror, lost, wiped>>
      /\ job[p] \in JobRecords
      /\ \/ job'[p] = Idle
         \/ job'[p].pc = "call" /\ job'[p].todo = job[p].todo
      /\ \A q \in Jobs \ {p} : job'[q] = job[q]
      /\ rec'[m.rec].gid = m.gid /\ rec'[m.rec].synced = m.slot
      /\ \A r \in Recs : r # m.rec => rec'[r] = rec[r]
  BY <1>2, NoteStep
<1>4. /\ \A c \in copies : c.id \in Nat /\ c.rec \in Recs /\ c.id # None
      /\ \A r \in Recs : rec[r].gid \in Ids
      /\ job[p].todo \subseteq Works
  BY <1>3, CalendarAssumption DEF JobRecords, Types, GoogleTypes, AppTypes, Blocks
<1>5. \A q \in Jobs : q # p => ~Calls(q) /\ ~At(q, "note") /\ ~Calls(q)' /\ ~At(q, "note")'
  <2>1. \A q \in Jobs : q # p => ~Calls(q)
    BY <1>1, OneCaller
  <2> QED
    BY <1>3, <2>1 DEF Calls, At
<1>6. ~At(p, "note")'
  BY <1>3 DEF At, Idle
<1>7. Owns'
  BY <1>2, <1>3 DEF Owns, Answered
<1>8. OwnInv'
  <2>1. \A c \in copies, r \in Recs : rec'[r].gid = c.id => c.rec = r
    BY <1>2, <1>3, <1>4 DEF OwnInv, Answered
  <2>2. \A q, r \in Recs : rec'[q].gid # None /\ rec'[q].gid = rec'[r].gid => q = r
    BY <1>2, <1>3, <1>4 DEF OwnInv, Answered
  <2> QED
    BY <1>3, <2>1, <2>2 DEF OwnInv
<1>9. TodoInv'
  <2> SUFFICES ASSUME NEW q \in Jobs, Calls(q)'
               PROVE  /\ \A v \in job'[q].todo : Due(v)'
                      /\ \A v, u \in job'[q].todo : v.rec = u.rec => v = u
    BY DEF TodoInv
  <2>1. q = p
    BY <1>5
  <2>2. job'[p].todo = job[p].todo
    BY <1>3, <2>1 DEF Calls, Idle
  <2>3. (\A v \in job[p].todo : Due(v)) /\ \A v, u \in job[p].todo : v.rec = u.rec => v = u
    BY <1>1 DEF TodoInv
  <2>4. \A v \in job[p].todo : rec'[v.rec] = rec[v.rec]
    BY <1>2, <1>3, <1>4 DEF Works
  <2> QED
    BY <2>1, <2>2, <2>3, <2>4 DEF Due
<1>10. MadeInv'
  BY <1>5, <1>6 DEF MadeInv
<1>11. IdInv'
  <2>1. PICK n \in Nat : (\A c \in copies : c.id <= n) /\ \A r \in Recs : rec[r].gid # None => rec[r].gid <= n
    BY DEF IdInv
  <2> DEFINE k == IF m.gid = None THEN n ELSE n + m.gid
  <2>2. k \in Nat /\ n <= k /\ (m.gid # None => m.gid <= k)
    BY <1>2 DEF Ids
  <2> HIDE DEF k
  <2>4. \A c \in copies : c.id <= k
    BY <1>4, <2>1, <2>2
  <2>5. \A r \in Recs : rec'[r].gid # None => rec'[r].gid <= k
    <3> SUFFICES ASSUME NEW r \in Recs, rec'[r].gid # None PROVE rec'[r].gid <= k
      OBVIOUS
    <3>1. CASE r = m.rec
      BY <1>3, <2>2, <3>1
    <3>2. CASE r # m.rec
      BY <1>3, <1>4, <2>1, <2>2, <3>2 DEF Ids
    <3> QED
      BY <3>1, <3>2
  <2> QED
    BY <1>3, <2>2, <2>4, <2>5 DEF IdInv
<1>12. Owed' \subseteq Owed
  <2>1. Left' = {}
    BY <1>5, <1>6 DEF Left
  <2> SUFFICES ASSUME NEW c \in copies, rec'[c.rec].gid # c.id PROVE c \in Owed
    BY <1>3, <2>1 DEF Owed, Orphans
  <2>2. c \in Noted => c.id = m.gid
    BY <1>5 DEF Noted
  <2>3. CASE c.rec # m.rec
    <3>1. rec[c.rec].gid # c.id
      BY <1>3, <1>4, <2>3
    <3>2. c \notin Noted
      BY <1>2, <1>4, <2>2, <2>3 DEF Answered
    <3> QED
      BY <3>1, <3>2 DEF Owed, Orphans
  <2>4. CASE c.rec = m.rec
    <3>1. c.id # m.gid /\ c \notin Noted
      BY <1>3, <2>2, <2>4
    <3>2. CASE m.gid = None /\ rec[m.rec].gid = c.id
      BY <1>1, <3>2 DEF Owed, Left
    <3>3. CASE rec[m.rec].gid # c.id
      BY <2>4, <3>1, <3>3 DEF Owed, Orphans
    <3>4. CASE m.gid # None /\ rec[m.rec].gid = c.id
      BY <1>2, <1>4, <3>1, <3>4 DEF Answered
    <3> QED
      BY <3>2, <3>3, <3>4
  <2> QED
    BY <2>3, <2>4
<1>13. CountInv'
  BY <1>3, <1>12, CountFewer
<1> QED
  BY <1>7, <1>8, <1>9, <1>10, <1>11, <1>13

IInv == Types /\ LeaseInv /\ ImportInv /\ CopyInv

\* Before the first consent nothing is imported, written back or under way.
THEOREM InitInv ==
  ASSUME CalendarAssumption
  PROVE  Init => IInv
<1> SUFFICES ASSUME Init PROVE IInv
  OBVIOUS
<1>1. Types
  <2>1. GoogleTypes
    BY FS_EmptySet DEF Init, GoogleTypes, Changes, Gone
  <2>2. AppTypes
    BY DEF Init, AppTypes, NoRow, Rows, Ids, Changes, Gone, Blocks, Open
  <2>3. JobTypes
    BY DEF Init, JobTypes, Idle
  <2> QED
    BY <2>1, <2>2, <2>3 DEF Types
<1>2. \A p \in Jobs : job[p].pc = "off"
  BY DEF Init, Idle
<1>3. row.token = None /\ copies = {} /\ seq = 0 /\ lost = 0
  BY DEF Init, NoRow
<1>4. \A e \in Events : event[e] = Gone /\ mirror[e] = Gone /\ Gone.seq = 0
  BY DEF Init, Gone
<1>5. \A r \in Recs : rec[r].status = "none" /\ rec[r].gid = None /\ rec[r].synced = None
  BY DEF Init
<1>6. LeaseInv
  BY <1>2 DEF LeaseInv, Holding, At, Jobs, Syncs
<1>7. ImportInv
  <2>1. EventInv
    BY <1>3, <1>4 DEF EventInv
  <2>2. TokenInv /\ DeltaInv /\ MirrorInv /\ ReachInv /\ MeetInv /\ MeetDelta /\ MeetMark
    BY <1>2, <1>3 DEF TokenInv, DeltaInv, MirrorInv, ReachInv, MeetInv, MeetDelta, MeetMark, At, Filling, Jobs
  <2>3. SlotInv
    BY <1>5 DEF SlotInv, Open
  <2> QED
    BY <2>1, <2>2, <2>3 DEF ImportInv
<1>8. CopyInv
  <2>1. Owns /\ OwnInv
    BY <1>3, <1>5 DEF Owns, OwnInv
  <2>2. TodoInv /\ MadeInv
    BY <1>2 DEF TodoInv, MadeInv, Calls, At
  <2>3. IdInv
    BY <1>3, <1>5 DEF IdInv
  <2>4. CountInv
    <3>1. Owed = {}
      BY <1>3 DEF Owed, Orphans, Left
    <3> QED
      BY <1>3, <3>1, FS_EmptySet DEF CountInv
  <2> QED
    BY <2>1, <2>2, <2>3, <2>4 DEF CopyInv
<1> QED
  BY <1>1, <1>6, <1>7, <1>8 DEF IInv

\* Consent, channel and the start of a call: nothing is imported or written back.
LEMMA ConsentInv ==
  ASSUME CalendarAssumption, IInv,
         (\E scope \in {"read", "write"} : StartConsent(scope)) \/ Callback \/ Purge \/ WriteBackOn \/ LeaseExpires \/ ExpireTokens
  PROVE  IInv'
<1> USE DEF IInv
<1>1. /\ Types' /\ row'.token = row.token /\ seq <= seq'
      /\ UNCHANGED <<event, copies, mirror, rec, job, lost, wiped>>
      /\ lease' = lease \/ (lease' = None /\ lease = "dead")
  BY ConsentStep
<1>2. LeaseInv'
  BY <1>1, LeaseStill
<1>3. ImportInv'
  <2>1. \A r \in Recs : (rec'[r].status \in Open => rec'[r].slot \in Slots)
                        /\ (AsPlanned(r)' => AsPlanned(r) /\ rec'[r].slot = rec[r].slot)
    BY <1>1 DEF AsPlanned, ImportInv, SlotInv
  <2>2. \A p \in Syncs : Stays(p)
    BY <1>1 DEF Stays
  <2> QED
    BY <1>1, <2>1, <2>2, ImportKept
<1>4. CopyInv'
  BY <1>1, CopyKept
<1> QED
  BY <1>1, <1>2, <1>3, <1>4

\* A push, a sweep or a confirmation that starts.
LEMMA StartInv ==
  ASSUME CalendarAssumption, ~Racing, IInv, Confirm \/ PushStart \/ \E due \in BOOLEAN : SweepStart(due)
  PROVE  IInv'
<1> USE DEF IInv
<1>1. /\ Types' /\ row'.token = row.token
      /\ UNCHANGED <<event, seq, copies, mirror, rec, lease, lost, wiped>>
      /\ \E p \in Syncs, at \in {"lease", "channel"}, due \in BOOLEAN :
           /\ At(p, "off") /\ (at = "channel" => p = "sweep")
           /\ At("switch", "off") /\ At("disconnect", "off")
           /\ job'[p] = Loaded(p, at, due)
           /\ \A q \in Jobs \ {p} : job'[q] = job[q]
  BY StartStep
<1>2. PICK p \in Syncs, at \in {"lease", "channel"}, due \in BOOLEAN :
           /\ At(p, "off") /\ (at = "channel" => p = "sweep")
           /\ At("switch", "off") /\ At("disconnect", "off")
           /\ job'[p] = Loaded(p, at, due)
           /\ \A q \in Jobs \ {p} : job'[q] = job[q]
  BY <1>1
<1>3. job'[p].pc = at /\ job'[p].token = row.token /\ p \in Jobs
  BY <1>2 DEF Loaded, Jobs
<1>4. LeaseInv'
  BY <1>1, <1>2, <1>3, LeaseStart DEF Others
<1>5. ImportInv'
  <2>1. \A r \in Recs : (rec'[r].status \in Open => rec'[r].slot \in Slots)
                        /\ (AsPlanned(r)' => AsPlanned(r) /\ rec'[r].slot = rec[r].slot)
    BY <1>1 DEF AsPlanned, ImportInv, SlotInv
  <2>2. \A q \in Syncs : Stays(q)
    BY <1>2, <1>3 DEF Stays, Jobs
  <2>3. seq <= seq'
    BY <1>1 DEF Types, GoogleTypes
  <2> QED
    BY <1>1, <2>1, <2>2, <2>3, ImportKept
<1>6. CopyInv'
  <2>1. \A q \in Jobs : job'[q] = job[q] \/ (~At(q, "note") /\ job'[q].pc \notin {"call", "note"})
    BY <1>2, <1>3 DEF At
  <2> QED
    BY <1>1, <2>1, CopyKept
<1> QED
  BY <1>1, <1>4, <1>5, <1>6

\* The planner and the device.
LEMMA PlanInv ==
  ASSUME CalendarAssumption, ~Racing, IInv, NEW r \in Recs,
         (\E slot \in Planned : Place(r, slot)) \/ (\E slot \in Slots : MoveBlock(r, slot))
         \/ CloseBlock(r) \/ SlotEnds(r) \/ DayEnds(r)
  PROVE  IInv'
<1> USE DEF IInv
<1>1. /\ Types'
      /\ \A q \in Recs : rec'[q].gid = rec[q].gid /\ rec'[q].synced = rec[q].synced
      /\ \A q \in Recs \ {r} : rec'[q] = rec[q]
      /\ UNCHANGED <<event, seq, copies, row, mirror, lease, job, lost, wiped>>
  BY PlanStep
<1>2. LeaseInv'
  BY <1>1, LeaseStill
<1>3. CopyInv'
  BY <1>1, CopyKept
<1>4. ImportInv'
  <2>1. CASE \E slot \in Planned : Place(r, slot)
    BY <1>1, <2>1, PlaceImport
  <2>2. CASE (\E slot \in Slots : MoveBlock(r, slot)) \/ CloseBlock(r) \/ SlotEnds(r) \/ DayEnds(r)
    <3>1. \A p \in Syncs : Stays(p)
      BY <1>1 DEF Stays
    <3>2. rec \in [Recs -> Blocks] /\ seq <= seq'
      BY <1>1 DEF Types, AppTypes, GoogleTypes
    <3>3. (rec'[r].status \in Open => rec'[r].slot \in Slots) /\ ~AsPlanned(r)'
      <4>1. CASE \E slot \in Slots : MoveBlock(r, slot)
        <5>1. PICK slot \in Slots : MoveBlock(r, slot)
          BY <4>1
        <5>2. rec' = [rec EXCEPT ![r] = [rec[r] EXCEPT !.status = "moved", !.slot = slot, !.chosen = TRUE, !.time = "ahead"]]
          BY <5>1 DEF MoveBlock
        <5>3. rec'[r] = [rec[r] EXCEPT !.status = "moved", !.slot = slot, !.chosen = TRUE, !.time = "ahead"]
              /\ rec[r] \in Blocks
          BY <3>2, <5>2
        <5>4. rec'[r].slot = slot /\ rec'[r].chosen = TRUE
          BY <5>3 DEF Blocks
        <5> QED
          BY <5>4 DEF AsPlanned
      <4>2. CASE CloseBlock(r)
        BY <3>2, <4>2 DEF CloseBlock, AsPlanned, Blocks, Open
      <4>3. CASE SlotEnds(r) \/ DayEnds(r)
        <5>1. PICK t \in {"ended", "out"} : rec' = [rec EXCEPT ![r].time = t]
          BY <4>3 DEF SlotEnds, DayEnds
        <5>2. rec'[r].time = t /\ rec'[r].status = rec[r].status /\ rec'[r].slot = rec[r].slot
          BY <3>2, <5>1 DEF Blocks
        <5> QED
          BY <5>2 DEF AsPlanned, ImportInv, SlotInv
      <4> QED
        BY <2>2, <4>1, <4>2, <4>3
    <3>4. \A q \in Recs : (rec'[q].status \in Open => rec'[q].slot \in Slots)
                          /\ (AsPlanned(q)' => AsPlanned(q) /\ rec'[q].slot = rec[q].slot)
      BY <1>1, <3>3 DEF AsPlanned, ImportInv, SlotInv
    <3> QED
      BY <1>1, <3>1, <3>2, <3>4, ImportKept
  <2> QED
    BY <2>1, <2>2
<1> QED
  BY <1>1, <1>2, <1>3, <1>4

\* A change of Google's concerns neither the jobs nor the copies.
LEMMA EditInv ==
  ASSUME CalendarAssumption, IInv, NEW e \in Events, NEW slot \in Meetings \cup {None}, EditEvent(e, slot)
  PROVE  IInv'
<1> USE DEF IInv
<1>1. Types' /\ UNCHANGED <<copies, row, mirror, rec, lease, job, lost, wiped>>
  BY EditStep
<1>2. LeaseInv'
  BY <1>1, LeaseStill
<1>3. ImportInv'
  BY <1>1, EditImport
<1>4. CopyInv'
  BY <1>1, CopyKept
<1> QED
  BY <1>1, <1>2, <1>3, <1>4

\* A step of a job that leaves calendar and mirror alone, on its way or over.
LEMMA BesideImport ==
  ASSUME Types, Types', ImportInv, NEW p \in Jobs, UNCHANGED <<event, seq, mirror, wiped>>, row'.token = row.token, Others(p),
         \A r \in Recs : /\ rec'[r].status = rec[r].status /\ rec'[r].slot = rec[r].slot
                         /\ rec'[r].chosen = rec[r].chosen /\ rec'[r].time = rec[r].time,
         \/ job'[p].pc = "off"
         \/ /\ job'[p].pc \notin {"upsert", "mark", "save"}
            /\ job'[p].token = None \/ (~At(p, "off") /\ job'[p].token = job[p].token)
         \/ p \in {"switch", "disconnect"}
  PROVE  ImportInv'
<1>1. \A q \in Syncs : Stays(q)
  BY DEF Stays, Others, Jobs, Syncs
<1>2. seq <= seq'
  BY DEF Types, GoogleTypes
<1>3. \A r \in Recs : (rec'[r].status \in Open => rec'[r].slot \in Slots)
                      /\ (AsPlanned(r)' => AsPlanned(r) /\ rec'[r].slot = rec[r].slot)
  BY DEF AsPlanned, ImportInv, SlotInv
<1> QED
  BY <1>1, <1>2, <1>3, ImportKept

\* A sync from its channel to the token it saves.
LEMMA SyncInv ==
  ASSUME CalendarAssumption, ~Impatient, IInv, NEW p \in Syncs, SyncStep(p)
  PROVE  IInv'
<1> USE DEF IInv
<1>0. p \in Jobs /\ (p = "push" => ~At(p, "channel"))
  BY DEF Jobs, LeaseInv
<1>1. CASE EnsureChannel(p)
  <2>1. /\ Types' /\ row'.token = row.token
        /\ UNCHANGED <<event, seq, copies, mirror, rec, lease, lost, wiped>>
        /\ At(p, "channel") /\ job[p] \in JobRecords
        /\ job'[p] = [job[p] EXCEPT !.pc = IF p = "sweep" THEN "lease" ELSE "writeback"]
        /\ \A q \in Jobs \ {p} : job'[q] = job[q]
    BY <1>0, <1>1, ChannelStep
  <2>2. job'[p].pc = (IF p = "sweep" THEN "lease" ELSE "writeback") /\ job'[p].token = job[p].token
    BY <2>1 DEF JobRecords
  <2>3. p = "confirm" \/ p = "sweep"
    BY <1>0, <2>1 DEF Syncs
  <2>4. Holding(p)' => lease' = p
    BY <2>1, <2>2, <2>3 DEF Holding, At, LeaseInv
  <2>5. LeaseInv'
    BY <2>1, <2>2, <2>4, LeaseSync DEF Others, At
  <2>6. ImportInv'
    BY <1>0, <2>1, <2>2, BesideImport DEF Others, At
  <2>7. CopyInv'
    <3>1. \A q \in Jobs : job'[q] = job[q] \/ (~At(q, "note") /\ job'[q].pc \notin {"call", "note"})
      BY <2>1, <2>2 DEF At
    <3> QED
      BY <2>1, <3>1, CopyKept
  <2> QED
    BY <2>1, <2>5, <2>6, <2>7
<1>2. CASE Acquire(p)
  <2>1. /\ Types'
        /\ UNCHANGED <<event, seq, copies, row, mirror, rec, lost, wiped>>
        /\ At(p, "lease") /\ job[p] \in JobRecords /\ lease = None /\ lease' = p
        /\ job'[p] \in JobRecords
        /\ \/ job'[p].pc = "list" /\ job'[p].token = job[p].token
           \/ job'[p].pc = "writeback" /\ job'[p].token = None
        /\ \A q \in Jobs \ {p} : job'[q] = job[q]
    BY <1>2, AcquireStep
  <2>2. LeaseInv'
    BY <2>1, LeaseSync DEF Others, At
  <2>3. ImportInv'
    BY <1>0, <2>1, BesideImport DEF Others, At
  <2>4. CopyInv'
    <3>1. \A q \in Jobs : job'[q] = job[q] \/ (~At(q, "note") /\ job'[q].pc \notin {"call", "note"})
      BY <2>1 DEF At
    <3> QED
      BY <2>1, <3>1, CopyKept
  <2> QED
    BY <2>1, <2>2, <2>3, <2>4
<1>3. CASE List(p)
  <2>1. /\ Types'
        /\ UNCHANGED <<event, seq, copies, row, mirror, rec, lease, lost, wiped>>
        /\ At(p, "list") /\ job'[p].pc \in {"wipe", "upsert"}
        /\ \A q \in Jobs \ {p} : job'[q] = job[q]
    BY <1>0, <1>3, ListStep
  <2>2. lease = p
    BY <2>1 DEF LeaseInv, Holding, At
  <2>3. LeaseInv'
    BY <2>1, <2>2, LeaseSync DEF Others, At
  <2>4. ImportInv'
    BY <1>3, <2>1, ListImport
  <2>5. CopyInv'
    <3>1. \A q \in Jobs : job'[q] = job[q] \/ (~At(q, "note") /\ job'[q].pc \notin {"call", "note"})
      BY <2>1 DEF At
    <3> QED
      BY <2>1, <3>1, CopyKept
  <2> QED
    BY <2>1, <2>3, <2>4, <2>5
<1>4. CASE WipeForFull(p)
  <2>1. /\ Types'
        /\ UNCHANGED <<event, seq, copies, row, rec, lease, lost>>
        /\ At(p, "wipe") /\ job'[p].pc = "list"
        /\ \A q \in Jobs \ {p} : job'[q] = job[q]
    BY <1>0, <1>4, WipeStep
  <2>2. lease = p
    BY <2>1 DEF LeaseInv, Holding, At
  <2>3. LeaseInv'
    BY <2>1, <2>2, LeaseSync DEF Others, At
  <2>4. ImportInv'
    BY <1>4, <2>1, WipeImport
  <2>5. CopyInv'
    <3>1. \A q \in Jobs : job'[q] = job[q] \/ (~At(q, "note") /\ job'[q].pc \notin {"call", "note"})
      BY <2>1 DEF At
    <3> QED
      BY <2>1, <3>1, CopyKept
  <2> QED
    BY <2>1, <2>3, <2>4, <2>5
<1>5. CASE Upsert(p)
  <2>1. /\ Types'
        /\ UNCHANGED <<event, seq, copies, row, rec, lease, lost, wiped>>
        /\ At(p, "upsert") /\ job'[p].pc = "mark"
        /\ \A q \in Jobs \ {p} : job'[q] = job[q]
    BY <1>0, <1>5, UpsertStep
  <2>2. lease = p
    BY <2>1 DEF LeaseInv, Holding, At
  <2>3. LeaseInv'
    BY <2>1, <2>2, LeaseSync DEF Others, At
  <2>4. ImportInv'
    BY <1>5, <2>1, UpsertImport
  <2>5. CopyInv'
    <3>1. \A q \in Jobs : job'[q] = job[q] \/ (~At(q, "note") /\ job'[q].pc \notin {"call", "note"})
      BY <2>1 DEF At
    <3> QED
      BY <2>1, <3>1, CopyKept
  <2> QED
    BY <2>1, <2>3, <2>4, <2>5
<1>6. CASE MarkDisplaced(p)
  <2>1. /\ Types'
        /\ UNCHANGED <<event, seq, copies, row, mirror, lease, lost, wiped>>
        /\ At(p, "mark") /\ job'[p].pc = "save"
        /\ \A r \in Recs : rec'[r].gid = rec[r].gid /\ rec'[r].synced = rec[r].synced
        /\ \A q \in Jobs \ {p} : job'[q] = job[q]
    BY <1>0, <1>6, MarkStep
  <2>2. lease = p
    BY <2>1 DEF LeaseInv, Holding, At
  <2>3. LeaseInv'
    BY <2>1, <2>2, LeaseSync DEF Others, At
  <2>4. ImportInv'
    BY <1>6, <2>1, MarkImport
  <2>5. CopyInv'
    <3>1. \A q \in Jobs : job'[q] = job[q] \/ (~At(q, "note") /\ job'[q].pc \notin {"call", "note"})
      BY <2>1 DEF At
    <3> QED
      BY <2>1, <3>1, CopyKept
  <2> QED
    BY <2>1, <2>3, <2>4, <2>5
<1>7. CASE SaveToken(p)
  <2>1. /\ Types'
        /\ UNCHANGED <<event, seq, copies, mirror, rec, lease, lost>>
        /\ At(p, "save") /\ job'[p].pc = (IF p = "confirm" THEN "channel" ELSE "writeback")
        /\ \A q \in Jobs \ {p} : job'[q] = job[q]
    BY <1>0, <1>7, SaveStep
  <2>2. lease = p
    BY <2>1 DEF LeaseInv, Holding, At
  <2>3. LeaseInv'
    BY <2>1, <2>2, LeaseSync DEF Others, At
  <2>4. ImportInv'
    BY <1>7, <2>1, SaveImport
  <2>5. CopyInv'
    <3>1. \A q \in Jobs : job'[q] = job[q] \/ (~At(q, "note") /\ job'[q].pc \notin {"call", "note"})
      BY <2>1 DEF At
    <3> QED
      BY <2>1, <3>1, CopyKept
  <2> QED
    BY <2>1, <2>3, <2>4, <2>5
<1>8. CASE LoadWriteBack(p)
  <2>1. SlotInv
    BY DEF ImportInv
  <2>2. /\ Types'
        /\ UNCHANGED <<event, seq, copies, row, mirror, rec, lost, wiped>>
        /\ At(p, "writeback") /\ job[p] \in JobRecords
        /\ \/ job'[p] = Idle /\ p \in Syncs /\ lease' = (IF lease = p THEN None ELSE lease)
           \/ /\ job'[p] \in JobRecords /\ job'[p].pc = "call"
              /\ \A w \in job'[p].todo : Due(w)
              /\ \A v, w \in job'[p].todo : v.rec = w.rec => v = w
              /\ job'[p].token = job[p].token /\ lease' = lease
        /\ \A q \in Jobs \ {p} : job'[q] = job[q]
    BY <1>0, <1>8, <2>1, LoadStep
  <2>3. lease = p /\ job'[p].pc \in {"off", "call"}
    BY <2>2 DEF LeaseInv, Holding, At, Idle
  <2>4. Holding(p)' => lease' = p
    BY <2>2, <2>3 DEF Holding, At, Idle
  <2>5. LeaseInv'
    BY <2>2, <2>3, <2>4, LeaseSync DEF Others, At
  <2>6. ImportInv'
    BY <1>0, <2>2, <2>3, BesideImport DEF Others, At, Idle
  <2>7. CopyInv'
    <3>1. \A q \in Jobs : \/ job'[q] = job[q]
                          \/ ~At(q, "note") /\ job'[q].pc \notin {"call", "note"}
                          \/ ~At(q, "note") /\ job'[q].pc = "call" /\ (\A w \in job'[q].todo : Due(w))
                             /\ (\A v, w \in job'[q].todo : v.rec = w.rec => v = w)
      BY <2>2 DEF At, Idle
    <3> QED
      BY <2>2, <3>1, CopyKept
  <2> QED
    BY <2>2, <2>5, <2>6, <2>7
<1> QED
  BY <1>1, <1>2, <1>3, <1>4, <1>5, <1>6, <1>7, <1>8 DEF SyncStep

\* A sync, or the switch or the disconnect in a step that ends it or takes it to another call.
LEMMA LeaseCall ==
  ASSUME CalendarAssumption, LeaseInv, NEW p \in Jobs, Calls(p), Others(p), row'.token = row.token,
         \/ job'[p].pc \in {"call", "note"} /\ lease' = lease
         \/ job'[p].pc = "off" /\ p \in Syncs /\ lease' = (IF lease = p THEN None ELSE lease)
  PROVE  LeaseInv'
<1>1. ~At(p, "off")
  BY DEF Calls, At
<1>2. CASE p \in Syncs
  <2>1. lease = p
    BY <1>2 DEF LeaseInv, Holding, Calls
  <2>2. Holding(p)' => lease' = p
    BY <2>1 DEF Holding, At
  <2> QED
    BY <1>1, <1>2, <2>1, <2>2, LeaseSync
<1>3. CASE p \in {"switch", "disconnect"}
  <2>1. p \notin Syncs /\ \A q \in Jobs \ {p} : At(q, "off")
    BY <1>1, <1>3 DEF LeaseInv, Syncs
  <2> QED
    BY <1>3, <2>1, LeaseUser
<1> QED
  BY <1>2, <1>3 DEF Jobs

\* A call of Google and its note.
LEMMA CopyStepInv ==
  ASSUME CalendarAssumption, IInv, NEW p \in Jobs, CopyStep(p)
  PROVE  IInv'
<1> USE DEF IInv
<1>1. CASE CallGoogle(p)
  <2>1. At(p, "call") /\ Calls(p)
    BY <1>1 DEF CallGoogle, At, Calls
  <2>2. IdInv /\ \A w \in job[p].todo : Due(w)
    BY <2>1 DEF CopyInv, TodoInv
  <2>3. /\ Types'
        /\ UNCHANGED <<event, seq, row, mirror, rec, lease, lost, wiped>>
        /\ job'[p].pc = "note" /\ job'[p].token = job[p].token
        /\ \A q \in Jobs \ {p} : job'[q] = job[q]
    BY <1>1, <2>2, CallStep
  <2>4. LeaseInv'
    BY <2>1, <2>3, LeaseCall DEF Others
  <2>5. ImportInv'
    BY <2>1, <2>3, BesideImport DEF Others, At
  <2>6. CopyInv'
    BY <1>1, <2>3, CopyCall
  <2> QED
    BY <2>3, <2>4, <2>5, <2>6
<1>2. CASE SaveWriteBack(p)
  <2>1. At(p, "note") /\ Calls(p)
    BY <1>2 DEF SaveWriteBack, At, Calls
  <2>2. job[p].made \in Made
    BY <2>1 DEF CopyInv, MadeInv, Answered
  <2>3. /\ Types'
        /\ UNCHANGED <<event, seq, copies, row, mirror, lost, wiped>>
        /\ \/ job'[p] = Idle /\ p \in Syncs /\ lease' = (IF lease = p THEN None ELSE lease)
           \/ /\ job'[p].pc = "call"
              /\ job'[p].token = job[p].token /\ lease' = lease
        /\ \A q \in Jobs \ {p} : job'[q] = job[q]
        /\ \A r \in Recs : rec'[r].status = rec[r].status /\ rec'[r].slot = rec[r].slot /\ rec'[r].chosen = rec[r].chosen /\ rec'[r].time = rec[r].time
    BY <1>2, <2>2, NoteStep
  <2>4. LeaseInv'
    BY <2>1, <2>3, LeaseCall DEF Others, Idle
  <2>5. ImportInv'
    BY <2>1, <2>3, BesideImport DEF Others, At, Idle
  <2>6. CopyInv'
    BY <1>2, <2>3, CopyNote
  <2> QED
    BY <2>3, <2>4, <2>5, <2>6
<1> QED
  BY <1>1, <1>2 DEF CopyStep

\* A delete that fails, or a row that cannot be saved, while the user's call clears the calendar.
LEMMA ClearStep ==
  ASSUME Types, CalendarAssumption, NEW p \in Jobs, DeleteFails(p) \/ ClearingStops(p)
  PROVE  /\ Types'
         /\ UNCHANGED <<event, seq, copies, row, mirror, rec, lease, wiped>> /\ lost' = lost + 1
         /\ p \in {"switch", "disconnect"} /\ Calls(p) /\ job[p] \in JobRecords
         /\ \A q \in Jobs \ {p} : job'[q] = job[q]
         /\ job'[p].token = job[p].token
         /\ \/ /\ At(p, "call") /\ job'[p].pc = "note"
               /\ \E w \in job[p].todo : /\ w \in Works /\ job'[p].todo = job[p].todo \ {w}
                                         /\ job'[p].made = [rec |-> w.rec, gid |-> None, slot |-> None]
            \/ job'[p].pc = "call" /\ job'[p].todo = {}
<1> USE DEF Types, GoogleTypes, AppTypes, google
<1>1. p \in {"switch", "disconnect"} /\ Calls(p) /\ ~At(p, "off")
  BY DEF DeleteFails, ClearingStops, Calls, At, Jobs
<1>2. job[p] \in JobRecords
  BY <1>1, JobKinds
<1>3. UNCHANGED <<event, seq, oldest, granted, copies, row, mirror, rec, lease, wiped>> /\ lost' = lost + 1
  BY DEF DeleteFails, ClearingStops
<1>4. CASE DeleteFails(p)
  <2>1. PICK w \in job[p].todo :
          job' = [job EXCEPT ![p].pc = "note", ![p].todo = @ \ {w},
                             ![p].made = [rec |-> w.rec, gid |-> None, slot |-> None]]
    BY <1>4 DEF DeleteFails
  <2>2. w \in Works
    BY <1>2 DEF JobRecords
  <2> DEFINE m == [rec |-> w.rec, gid |-> None, slot |-> None]
             x == [job[p] EXCEPT !.pc = "note", !.todo = job[p].todo \ {w}, !.made = m]
  <2>3. m \in Made
    BY <2>2 DEF Works, Made, Ids
  <2>4. job' = [job EXCEPT ![p] = x]
    BY <2>1 DEF JobTypes
  <2> HIDE DEF m
  <2>5. /\ x \in JobRecords /\ x.pc = "note" /\ x.made = m /\ x.todo = job[p].todo \ {w}
        /\ x.token = job[p].token
    BY <1>2, <2>3 DEF JobRecords, Stages
  <2> HIDE DEF x
  <2>6. JobTypes' /\ job'[p] = x /\ \A q \in Jobs \ {p} : job'[q] = job[q]
    BY <2>4, <2>5, JobStep
  <2>7. At(p, "call")
    BY <1>4 DEF DeleteFails
  <2> QED
    BY <1>1, <1>2, <1>3, <2>2, <2>5, <2>6, <2>7 DEF m
<1>5. CASE ClearingStops(p)
  <2> DEFINE x == [job[p] EXCEPT !.todo = {}, !.made = None, !.pc = "call"]
  <2>1. job' = [job EXCEPT ![p] = x]
    BY <1>5 DEF ClearingStops, JobTypes
  <2>2. x \in JobRecords /\ x.pc = "call" /\ x.todo = {} /\ x.token = job[p].token
    BY <1>2 DEF JobRecords, Stages
  <2> HIDE DEF x
  <2>3. JobTypes' /\ job'[p] = x /\ \A q \in Jobs \ {p} : job'[q] = job[q]
    BY <2>1, <2>2, JobStep
  <2> QED
    BY <1>1, <1>2, <1>3, <2>2, <2>3
<1> QED
  BY <1>4, <1>5

\* The copy whose delete failed is one more that nobody accounts for.
LEMMA CopyFail ==
  ASSUME Types, Types', CalendarAssumption, LeaseInv, CopyInv, UNCHANGED <<copies, rec>>, lost' = lost + 1,
         NEW p \in Jobs, At(p, "call"), Others(p), job'[p].pc = "note",
         NEW w \in job[p].todo, w \in Works, job'[p].todo = job[p].todo \ {w},
         job'[p].made = [rec |-> w.rec, gid |-> None, slot |-> None]
  PROVE  CopyInv'
<1> USE DEF CopyInv
<1>1. ~At(p, "off") /\ Calls(p) /\ Holding(p)
  BY DEF At, Calls, Holding
<1>2. /\ (\A v \in job[p].todo : Due(v)) /\ \A v, u \in job[p].todo : v.rec = u.rec => v = u
      /\ w.rec \in Recs
  BY <1>1 DEF TodoInv, Works
<1>3. \A c \in copies : c.id # None
  BY CalendarAssumption DEF Types, GoogleTypes
<1>4. \A q \in Jobs : q # p => ~Calls(q) /\ ~At(q, "note") /\ ~Calls(q)' /\ ~At(q, "note")'
  <2>1. \A q \in Jobs : q # p => ~Calls(q)
    BY <1>1, OneCaller
  <2> QED
    BY <2>1 DEF Calls, At, Others
<1>5. Owns' /\ OwnInv' /\ IdInv'
  BY DEF Owns, OwnInv, IdInv
<1>6. TodoInv'
  <2> SUFFICES ASSUME NEW q \in Jobs, Calls(q)'
               PROVE  /\ \A v \in job'[q].todo : Due(v)'
                      /\ \A v, u \in job'[q].todo : v.rec = u.rec => v = u
    BY DEF TodoInv
  <2>1. q = p
    BY <1>4
  <2> QED
    BY <1>2, <2>1 DEF Due
<1>7. MadeInv'
  <2> SUFFICES ASSUME NEW q \in Jobs, At(q, "note")'
               PROVE  Answered(job[q].made)' /\ \A v \in job'[q].todo : v.rec # job'[q].made.rec
    BY DEF MadeInv
  <2>1. q = p
    BY <1>4
  <2>2. Answered(job[p].made)'
    BY <1>2 DEF Answered, Made, Ids
  <2> QED
    BY <1>2, <2>1, <2>2
<1>8. Noted = {} /\ Noted' = {} /\ Left = {}
  BY <1>3, <1>4 DEF Noted, Left, At
<1>9. Left' = {c \in copies : rec[w.rec].gid = c.id}
  BY <1>4 DEF Left, At
<1>10. PICK x : Left' \subseteq {x}
  <2>1. CASE Left' = {}
    BY <2>1
  <2>2. CASE Left' # {}
    <3>1. PICK c \in Left' : TRUE
      BY <2>2
    <3> QED
      BY <1>9, <3>1 DEF OwnInv
  <2> QED
    BY <2>1, <2>2
<1>11. Owed' \subseteq Owed \cup {x}
  BY <1>8, <1>10 DEF Owed, Orphans
<1>12. CountInv'
  BY <1>11, CountMore
<1> QED
  BY <1>5, <1>6, <1>7, <1>12

\* The failures that a clearing passes over.
LEMMA ClearInv ==
  ASSUME CalendarAssumption, IInv, NEW p \in Jobs, DeleteFails(p) \/ ClearingStops(p)
  PROVE  IInv'
<1> USE DEF IInv
<1>1. /\ Types'
      /\ UNCHANGED <<event, seq, copies, row, mirror, rec, lease, wiped>> /\ lost' = lost + 1
      /\ p \in {"switch", "disconnect"} /\ Calls(p) /\ job[p] \in JobRecords
      /\ \A q \in Jobs \ {p} : job'[q] = job[q]
      /\ job'[p].token = job[p].token
      /\ \/ /\ At(p, "call") /\ job'[p].pc = "note"
            /\ \E w \in job[p].todo : /\ w \in Works /\ job'[p].todo = job[p].todo \ {w}
                                      /\ job'[p].made = [rec |-> w.rec, gid |-> None, slot |-> None]
         \/ job'[p].pc = "call" /\ job'[p].todo = {}
  BY ClearStep
<1>2. LeaseInv'
  BY <1>1, LeaseCall DEF Others
<1>3. ImportInv'
  BY <1>1, BesideImport DEF Others
<1>4. CopyInv'
  <2>1. ~At(p, "off") /\ Others(p)
    BY <1>1 DEF Calls, At, Others
  <2>2. CASE At(p, "call") /\ job'[p].pc = "note"
             /\ \E w \in job[p].todo : /\ w \in Works /\ job'[p].todo = job[p].todo \ {w}
                                       /\ job'[p].made = [rec |-> w.rec, gid |-> None, slot |-> None]
    BY <1>1, <2>1, <2>2, CopyFail
  <2>3. CASE job'[p].pc = "call" /\ job'[p].todo = {}
    BY <1>1, <2>1, <2>3, CopyEnd
  <2> QED
    BY <1>1, <2>2, <2>3
<1> QED
  BY <1>1, <1>2, <1>3, <1>4

\* A job that fails or is killed.
LEMMA EndInv ==
  ASSUME CalendarAssumption, IInv, NEW p \in Jobs, Fail(p) \/ Kill(p)
  PROVE  IInv'
<1> USE DEF IInv
<1>1. /\ Types' /\ row'.token = row.token
      /\ UNCHANGED <<event, seq, copies, mirror, rec, wiped>>
      /\ ~At(p, "off") /\ job'[p] = Idle
      /\ lost' = lost + 1 \/ (lost' = lost /\ ~At(p, "note"))
      /\ lease' = lease \/ (lease = p /\ lease' \in {None, "dead"})
      /\ \A q \in Jobs \ {p} : job'[q] = job[q]
  BY EndStep
<1>2. LeaseInv'
  <2>1. \A q \in Jobs : q # p => (Holding(q)' <=> Holding(q))
    BY <1>1 DEF Holding, At
  <2>2. ~Holding(p)' /\ At(p, "off")'
    BY <1>1 DEF Holding, At, Idle
  <2>3. \A q \in Syncs : Holding(q)' => lease' = q
    BY <1>1, <2>1, <2>2 DEF LeaseInv, Jobs
  <2>4. \A q \in Jobs : job'[q] = job[q] \/ At(q, "off")'
    BY <1>1, <2>2
  <2> QED
    BY <1>1, <2>3, <2>4 DEF LeaseInv, At, Jobs, Syncs
<1>3. ImportInv'
  BY <1>1, BesideImport DEF Others, Idle
<1>4. CopyInv'
  BY <1>1, CopyEnd DEF Others, Idle
<1> QED
  BY <1>1, <1>2, <1>3, <1>4

\* The switch and the disconnect.
LEMMA UserInv ==
  ASSUME CalendarAssumption, ~Racing, IInv, UserStep \/ \E p \in Jobs : UserStart(p)
  PROVE  IInv'
<1> USE DEF IInv
<1>1. CASE \E p \in Jobs : UserStart(p)
  <2>1. PICK p \in Jobs : UserStart(p)
    BY <1>1
  <2>2. /\ Types'
        /\ UNCHANGED <<event, seq, copies, row, mirror, rec, lease, wiped>> /\ lost' \in {lost, lost + 1}
        /\ Quiet /\ p \in {"switch", "disconnect"} /\ job'[p] \in JobRecords /\ job'[p].pc = "call"
        /\ \A w \in job'[p].todo : Due(w)
        /\ \A v, w \in job'[p].todo : v.rec = w.rec => v = w
        /\ \A q \in Jobs \ {p} : job'[q] = job[q]
    BY <2>1, UserStartStep
  <2>3. \A q \in Jobs : At(q, "off")
    BY <2>2 DEF Quiet, At
  <2>4. LeaseInv'
    BY <2>2, <2>3, LeaseUser DEF Others
  <2>5. ImportInv'
    BY <2>2, BesideImport DEF Others
  <2>6. CopyInv'
    <3>1. \A q \in Jobs : \/ job'[q] = job[q]
                          \/ ~At(q, "note") /\ job'[q].pc \notin {"call", "note"}
                          \/ ~At(q, "note") /\ job'[q].pc = "call" /\ (\A w \in job'[q].todo : Due(w))
                             /\ (\A v, w \in job'[q].todo : v.rec = w.rec => v = w)
      BY <2>2, <2>3 DEF At
    <3> QED
      BY <2>2, <3>1, CopyKept
  <2> QED
    BY <2>2, <2>4, <2>5, <2>6
<1>2. CASE UserStep
  <2>1. Types' /\ ImportInv' /\ UNCHANGED <<event, seq, copies, rec, lease, lost, wiped>>
    BY <1>2, UserStepEffect, UserImport
  <2>2. PICK p \in {"switch", "disconnect"} :
              /\ ~At(p, "off") /\ (job'[p] = Idle \/ (p = "disconnect" /\ job'[p].pc \in {"delete", "wipe"}))
              /\ \/ p = "disconnect" /\ row'.token = None /\ mirror' = mirror
                 \/ row'.token = row.token /\ mirror' = mirror /\ job'[p].pc # "wipe"
                 \/ At(p, "wipe") /\ p = "disconnect" /\ row' = row /\ mirror' = [e \in Events |-> Gone] /\ job'[p] = Idle
              /\ \A q \in Jobs \ {p} : job'[q] = job[q]
    BY <1>2, UserStepEffect
  <2>3. p \in Jobs /\ \A q \in Jobs \ {p} : At(q, "off")
    BY <2>2 DEF LeaseInv, Jobs
  <2>4. LeaseInv'
    BY <2>1, <2>2, <2>3, LeaseUser DEF Others, Idle
  <2>5. CopyInv'
    <3>1. ~At(p, "note")
      <4>1. PICK q \in {"switch", "disconnect"} : job[q].pc \in {"call", "delete", "wipe"}
        BY <1>2 DEF UserStep, SwitchOff, Revoke, DeleteState, WipeEvents, At
      <4>2. q = p
        BY <2>3, <4>1 DEF Jobs, At
      <4> QED
        BY <4>1, <4>2 DEF At
    <3>2. \A q \in Jobs : job'[q] = job[q] \/ (~At(q, "note") /\ job'[q].pc \notin {"call", "note"})
      BY <2>2, <3>1 DEF Idle
    <3> QED
      BY <2>1, <3>2, CopyKept
  <2> QED
    BY <2>1, <2>4, <2>5
<1> QED
  BY <1>1, <1>2

\* No step breaks the invariant.
THEOREM NextInv ==
  ASSUME CalendarAssumption, ~Racing, ~Impatient, IInv, [Next]_vars
  PROVE  IInv'
<1>1. CASE \E e \in Events, slot \in Meetings \cup {None} : EditEvent(e, slot)
  BY <1>1, EditInv
<1>2. CASE \/ \E r \in Recs : CloseBlock(r) \/ \E slot \in Planned : Place(r, slot)
           \/ \E r \in Recs : SlotEnds(r) \/ DayEnds(r)
  BY <1>2, PlanInv
<1>3. CASE \E r \in Recs, slot \in Slots : MoveBlock(r, slot)
  <2>1. PICK r \in Recs : \E slot \in Slots : MoveBlock(r, slot)
    BY <1>3
  <2> QED
    BY <2>1, PlanInv
<1>4. CASE \/ \E scope \in {"read", "write"} : StartConsent(scope)
           \/ Callback \/ Purge \/ WriteBackOn \/ LeaseExpires \/ ExpireTokens
  BY <1>4, ConsentInv
<1>5. CASE Confirm \/ PushStart \/ \E due \in BOOLEAN : SweepStart(due)
  BY <1>5, StartInv
<1>6. CASE \E p \in Syncs : SyncStep(p)
  BY <1>6, SyncInv
<1>7. CASE \E p \in Jobs : Fail(p) \/ Kill(p)
  BY <1>7, EndInv
<1>8. CASE \E p \in Jobs : CopyStep(p)
  BY <1>8, CopyStepInv
<1>9. CASE UserStep \/ \E p \in Jobs : UserStart(p)
  BY <1>9, UserInv
<1>10. CASE UNCHANGED vars
  <2>1. UNCHANGED <<event, seq, copies, row, mirror, rec, lease, job, lost, wiped>>
    BY <1>10 DEF vars
  <2>2. Types'
    BY <1>10 DEF IInv, vars, Types, GoogleTypes, AppTypes, JobTypes
  <2>3. LeaseInv'
    BY <2>1, LeaseStill DEF IInv
  <2>4. ImportInv'
    <3>1. \A p \in Syncs : Stays(p)
      BY <2>1 DEF Stays
    <3>2. \A r \in Recs : (rec'[r].status \in Open => rec'[r].slot \in Slots)
                          /\ (AsPlanned(r)' => AsPlanned(r) /\ rec'[r].slot = rec[r].slot)
      BY <2>1 DEF AsPlanned, ImportInv, SlotInv, IInv
    <3>3. seq <= seq'
      BY <2>1 DEF IInv, Types, GoogleTypes
    <3> QED
      BY <2>1, <2>2, <3>1, <3>2, <3>3, ImportKept DEF IInv
  <2>5. CopyInv'
    BY <2>1, <2>2, CopyKept DEF IInv
  <2> QED
    BY <2>2, <2>3, <2>4, <2>5 DEF IInv
<1>11. CASE \E p \in Jobs : DeleteFails(p) \/ ClearingStops(p)
  BY <1>11, ClearInv
<1>12. \A p \in Syncs : Fail(p) => p \in Jobs
  BY DEF Jobs
<1> QED
  BY <1>1, <1>2, <1>3, <1>4, <1>5, <1>6, <1>7, <1>8, <1>9, <1>10, <1>11, <1>12 DEF Next

\* The calls in flight work on what the rows were: that is the type of their todo.
THEOREM InvSound ==
  ASSUME CalendarAssumption, IInv
  PROVE  CalendarSound
<1> USE DEF IInv
<1>1. TypeOK
  <2>1. seq \in Nat /\ granted \in BOOLEAN /\ lease \in Syncs \cup {"dead", None}
    BY DEF Types, GoogleTypes, AppTypes
  <2>2. \A e \in Events : event[e].slot \in Slots \cup {None} /\ mirror[e].seq <= event[e].seq
    BY DEF Types, GoogleTypes, ImportInv, EventInv, Changes
  <2>3. row.token \in 0 .. seq \cup {None} /\ row.scope \in {"read", "write"}
    BY <2>1 DEF Types, AppTypes, Rows, Ids, ImportInv, TokenInv
  <2>4. \A r \in Recs : /\ rec[r].status \in Open \cup {"none", "closed", "displaced"}
                        /\ (rec[r].gid = None) = (rec[r].synced = None) /\ rec[r].time \in {"ahead", "ended", "out"}
    BY DEF Types, AppTypes, Blocks, CopyInv, Owns
  <2>5. ASSUME NEW p \in Jobs, ~At(p, "off")
        PROVE  job[p].todo \subseteq WorkFor(Recs) \cup
                 [rec : Recs, do : {"insert", "patch", "delete"}, slot : Slots \cup {None}, gid : Nat \cup {None}]
    <3>1. job[p] \in JobRecords
      BY <2>5, JobKinds DEF Types
    <3>2. job[p].todo \subseteq Works
      BY <3>1 DEF JobRecords
    <3> QED
      BY <3>2 DEF Works, Ids
  <2> QED
    BY <2>1, <2>2, <2>3, <2>4, <2>5 DEF TypeOK
<1>2. MirrorCurrent
  BY DEF MirrorCurrent, ImportInv, MirrorInv, Missing
<1>3. MeetingsDisplace
  BY DEF MeetingsDisplace, ImportInv, MeetInv, AsPlanned
<1>4. CopiesAccounted
  <2> SUFFICES ASSUME Quiet PROVE Cardinality(Orphans) <= lost
    BY DEF CopiesAccounted, Orphans
  <2>1. Noted = {} /\ Left = {}
    BY DEF Noted, Left, Quiet, At
  <2>2. Owed = Orphans
    BY <2>1 DEF Owed
  <2> QED
    BY <2>2 DEF CopyInv, CountInv
<1> QED
  BY <1>1, <1>2, <1>3, <1>4 DEF CalendarSound

\* Without racing calls, and with jobs that wait for their lease, whatever Google forgets and whichever
\* job dies: the saved token vouches for calendar_events, a meeting it acknowledges has displaced the
\* blocks to come in its way, and beside the copy its row names a block has no other in Google but those
\* that calls which failed half-way, or deletes passed over, have left there: one for each at most.
THEOREM CalendarIsSound ==
  ASSUME ~Racing, ~Impatient
  PROVE  Spec => []CalendarSound
<1>1. Init => IInv
  BY CalendarAssumption, InitInv
<1>2. IInv /\ [Next]_vars => IInv'
  BY CalendarAssumption, NextInv
<1>3. IInv => CalendarSound
  BY CalendarAssumption, InvSound
<1> QED
  BY <1>1, <1>2, <1>3, PTL DEF Spec
===============================================================================
