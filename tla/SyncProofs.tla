----------------------------- MODULE SyncProofs -----------------------------
(***************************************************************************)
(* Proofs about SyncLease and SyncEngine, which share no state.            *)
(*                                                                         *)
(* SyncLease: as long as every writer has held an unexpired lease          *)
(* (AllHeld), no device ever skips a row, for any number of devices,       *)
(* writers, crashes and lost answers.                                      *)
(*                                                                         *)
(* Proofs about SyncEngine: for any batch size, round limit, writes and    *)
(* kills, no write is left behind without a sync to come, the status is    *)
(* `syncing` exactly while a request is awaited, and a plan request gets   *)
(* what was pending pushed.                                                *)
(***************************************************************************)
EXTENDS SyncLease, SyncEngine, FiniteSetTheorems, TLAPS

\* Every request, lease row, page and cursor keeps its type, whatever dies or expires.
THEOREM LeaseTypeCorrect == LeaseSpec => []LeaseTypeOK
<1>1. LeaseInit => LeaseTypeOK
  BY DEF LeaseInit, LeaseTypeOK, Procs, NoAnswer, Answers
<1>2. LeaseTypeOK /\ [LeaseNext]_leaseVars => LeaseTypeOK'
  <2> SUFFICES ASSUME LeaseTypeOK, [LeaseNext]_leaseVars PROVE LeaseTypeOK'
    OBVIOUS
  <2> USE DEF LeaseTypeOK, rows, devices, counters
  <2>1. CASE UNCHANGED leaseVars
    BY <2>1 DEF leaseVars
  <2>2. CASE Expire \/ Overrun
    <3>1. [lease EXCEPT !.live = FALSE] \in [holder: Procs \cup {Nobody}, live: BOOLEAN]
      OBVIOUS
    <3>2. CASE Expire
      BY <3>1, <3>2 DEF Expire
    <3>3. CASE Overrun
      BY <3>1, <3>3 DEF Overrun
    <3>4. QED
      BY <2>2, <3>2, <3>3
  <2>3. ASSUME NEW p \in Procs,
               Request(p) \/ Acquire(p) \/ Refuse(p) \/ GiveUp(p) \/ Finish(p)
        PROVE  LeaseTypeOK'
    <3>1. CASE Request(p)
      BY <3>1 DEF Request
    <3>2. CASE Acquire(p)
      BY <3>2 DEF Acquire
    <3>3. CASE Refuse(p)
      BY <3>3 DEF Refuse
    <3>4. CASE GiveUp(p)
      BY <3>4 DEF GiveUp
    <3>5. CASE Finish(p)
      BY <3>5 DEF Finish
    <3>6. QED
      BY <2>3, <3>1, <3>2, <3>3, <3>4, <3>5
  <2>4. ASSUME NEW p \in Procs, Draw(p) \/ Commit(p)
        PROVE  LeaseTypeOK'
    <3>1. CASE Draw(p)
      BY <3>1 DEF Draw
    <3>2. CASE Commit(p)
      BY <3>2 DEF Commit
    <3>3. QED
      BY <2>4, <3>1, <3>2
  <2>5. ASSUME NEW p \in Procs, Release(p) \/ ReleaseFails(p)
        PROVE  LeaseTypeOK'
    <3>1. CASE Release(p)
      BY <3>1 DEF Release, Released
    <3>2. CASE ReleaseFails(p)
      BY <3>2 DEF ReleaseFails
    <3>3. QED
      BY <2>5, <3>1, <3>2
  <2>6. ASSUME NEW p \in Procs, Pull(p)
        PROVE  LeaseTypeOK'
    <3>1. Page(p) \in SUBSET Nat
      BY DEF Page, Above
    <3>2. PICK top \in Page(p) \cup {cursor[p]} :
            answer' = [answer EXCEPT ![p] = [page |-> Page(p), top |-> top]]
      BY <2>6 DEF Pull
    <3>3. p \in Devices /\ [page |-> Page(p), top |-> top] \in Answers
      BY <2>6, <3>1 DEF Pull, Answers
    <3>4. QED
      BY <2>6, <3>2, <3>3 DEF Pull
  <2>7. ASSUME NEW p \in Procs, Receive(p) \/ LoseAnswer(p)
        PROVE  LeaseTypeOK'
    <3>1. NoAnswer \in Answers
      BY DEF NoAnswer, Answers
    <3>2. CASE Receive(p)
      <4>1. p \in Devices /\ answer[p].page \subseteq Nat /\ answer[p].top \in Nat
        BY <3>2 DEF Receive, Answers
      <4>2. QED
        BY <3>1, <3>2, <4>1 DEF Receive
    <3>3. CASE LoseAnswer(p)
      BY <3>1, <3>3 DEF LoseAnswer
    <3>4. QED
      BY <2>7, <3>2, <3>3
  <2>8. ASSUME NEW p \in Procs, Crash(p)
        PROVE  LeaseTypeOK'
    BY <2>8 DEF Crash, Answers, NoAnswer
  <2>9. QED
    BY <2>1, <2>2, <2>3, <2>4, <2>5, <2>6, <2>7, <2>8 DEF LeaseNext
<1>3. QED
  BY <1>1, <1>2, PTL DEF LeaseSpec
-----------------------------------------------------------------------------
\* Whoever has a token holds the live lease; whoever writes has a token.
HeldInv == \A p \in Procs :
    /\ token[p] => lease = [holder |-> p, live |-> TRUE]
    /\ phase[p] \in {"working", "leaving"} => token[p]
    /\ open[p] # 0 => phase[p] = "working"

\* Nothing above the last drawn seq has been committed, pulled or seen.
DrawnInv ==
    /\ committed \subseteq 1..nextSeq
    /\ \A p \in Procs : open[p] <= nextSeq
    /\ \A d \in Devices : cursor[d] <= nextSeq /\ answer[d].top <= nextSeq

\* An open transaction will commit above every cursor, present or on its way.
FreshInv == \A p \in Procs, d \in Devices :
    open[p] # 0 => cursor[d] < open[p] /\ answer[d].top < open[p]

\* A page leaves no gap between the device's cursor and its own top.
PageInv == \A d \in Devices : \A s \in committed :
    cursor[d] < s /\ s <= answer[d].top => s \in answer[d].page

\* A device has received what is committed at or below its cursor.
NoGap == \A d \in Devices : \A s \in committed : s <= cursor[d] => s \in seen[d]

LeaseInv == LeaseTypeOK /\ HeldInv /\ DrawnInv /\ FreshInv /\ PageInv /\ NoGap

\* A page of the lowest rows is complete up to its highest one.
LEMMA PageComplete ==
  ASSUME LeaseTypeOK, DrawnInv, NEW d \in Devices, NEW top \in Page(d), NEW s \in committed,
         cursor[d] < s, s <= top
  PROVE  s \in Page(d)
<1> DEFINE below(x) == {t \in Above(d) : t < x}
<1>1. Above(d) \subseteq 0..nextSeq /\ s \in Above(d) /\ top \in Nat /\ s \in Nat
  <2>1. /\ committed \subseteq 1..nextSeq /\ nextSeq \in Nat /\ top \in committed
        /\ cursor[d] \in Nat
    BY DEF LeaseTypeOK, DrawnInv, Above, Page
  <2>2. s \in 1..nextSeq /\ top \in 1..nextSeq
    BY <2>1
  <2>3. Above(d) \subseteq 1..nextSeq /\ s \in Above(d)
    BY <2>1, <2>2 DEF Above
  <2>4. QED
    BY <2>1, <2>2, <2>3
<1>2. IsFiniteSet(0..nextSeq)
  BY FS_Interval DEF LeaseTypeOK
<1>3. IsFiniteSet(below(top)) /\ below(s) \subseteq below(top)
  <2>1. \A t \in 0..nextSeq : t \in Nat
    BY DEF LeaseTypeOK
  <2>2. below(s) \subseteq below(top)
    BY <1>1, <2>1
  <2>3. below(top) \subseteq 0..nextSeq
    BY <1>1
  <2>4. QED
    BY <1>2, <2>2, <2>3, FS_Subset
<1>4. IsFiniteSet(below(s)) /\ Cardinality(below(s)) <= Cardinality(below(top))
  BY <1>3, FS_Subset
<1>5. Cardinality(below(top)) \in Nat /\ Cardinality(below(s)) \in Nat
  BY <1>3, <1>4, FS_CardinalityType
<1>6. Cardinality(below(top)) < PageSize
  BY DEF Page
<1>7. QED
  BY <1>1, <1>4, <1>5, <1>6, LeaseAssumption DEF Page

\* While a token is out, nobody else works and the lease is not free.
LEMMA Alone ==
  ASSUME HeldInv, NEW p \in Procs, token[p]
  PROVE  ~Free /\ \A q \in Procs : token[q] => q = p
  BY LeaseAssumption DEF HeldInv, Free, Procs

\* Each step that leaves every write under the lease keeps the inductive invariant.
LEMMA LeaseNextInv ==
  ASSUME LeaseInv, AllHeld', LeaseTypeOK', [LeaseNext]_leaseVars
  PROVE  LeaseInv'
<1> USE DEF rows, devices, counters
<1>0. /\ LeaseTypeOK /\ HeldInv /\ DrawnInv /\ FreshInv /\ PageInv /\ NoGap
      /\ giveUps \in Nat /\ overruns \in Nat
  BY DEF LeaseInv, LeaseTypeOK
<1>1. CASE UNCHANGED leaseVars
  BY <1>0, <1>1 DEF leaseVars, LeaseInv, HeldInv, DrawnInv, FreshInv, PageInv, NoGap
<1>2. CASE Overrun
  BY <1>0, <1>2 DEF Overrun, AllHeld
<1>3. CASE Expire
  <2>1. HeldInv'
    BY <1>0, <1>3 DEF Expire, Orphaned, HeldInv
  <2>2. DrawnInv' /\ FreshInv' /\ PageInv' /\ NoGap'
    BY <1>0, <1>3 DEF Expire, DrawnInv, FreshInv, PageInv, NoGap
  <2>3. QED
    BY <2>1, <2>2 DEF LeaseInv
<1>4. ASSUME NEW p \in Procs, Request(p) \/ Refuse(p)
      PROVE  LeaseInv'
  <2>1. HeldInv'
    BY <1>0, <1>4 DEF Request, Refuse, HeldInv, LeaseTypeOK
  <2>2. DrawnInv' /\ FreshInv' /\ PageInv' /\ NoGap'
    BY <1>0, <1>4 DEF Request, Refuse, DrawnInv, FreshInv, PageInv, NoGap
  <2>3. QED
    BY <2>1, <2>2 DEF LeaseInv
<1>5. ASSUME NEW p \in Procs, Acquire(p)
      PROVE  LeaseInv'
  <2>1. \A q \in Procs : ~token[q]
    BY <1>0, <1>5, Alone DEF Acquire, LeaseTypeOK
  <2>2. HeldInv'
    BY <1>0, <1>5, <2>1 DEF Acquire, HeldInv, LeaseTypeOK
  <2>3. DrawnInv' /\ FreshInv' /\ PageInv' /\ NoGap'
    BY <1>0, <1>5 DEF Acquire, DrawnInv, FreshInv, PageInv, NoGap
  <2>4. QED
    BY <2>2, <2>3 DEF LeaseInv
<1>6. ASSUME NEW p \in Procs, GiveUp(p)
      PROVE  LeaseInv'
  BY <1>0, <1>6 DEF GiveUp, AllHeld
<1>7. ASSUME NEW p \in Procs, Draw(p)
      PROVE  LeaseInv'
  <2>1. HeldInv'
    BY <1>0, <1>7 DEF Draw, HeldInv, LeaseTypeOK
  <2>2. DrawnInv'
    <3>1. open' = [open EXCEPT ![p] = nextSeq + 1] /\ nextSeq' = nextSeq + 1
          /\ UNCHANGED <<committed, cursor, answer>>
      BY <1>7 DEF Draw
    <3>2. nextSeq \in Nat /\ \A q \in Procs : open'[q] = open[q] \/ open'[q] = nextSeq + 1
      BY <1>0, <3>1 DEF LeaseTypeOK
    <3>3. \A d \in Devices : cursor[d] \in Nat /\ answer[d].top \in Nat
      BY <1>0 DEF LeaseTypeOK, Answers
    <3>4. \A q \in Procs : open[q] \in Nat
      BY <1>0 DEF LeaseTypeOK
    <3>5. QED
      BY <1>0, <3>1, <3>2, <3>3, <3>4 DEF DrawnInv
  <2>3. FreshInv'
    <3>1. \A d \in Devices : cursor[d] \in Nat /\ answer[d].top \in Nat
      BY <1>0 DEF LeaseTypeOK, Answers
    <3>2. open' = [open EXCEPT ![p] = nextSeq + 1] /\ UNCHANGED <<cursor, answer>>
      BY <1>7 DEF Draw
    <3>3. QED
      BY <1>0, <3>1, <3>2 DEF FreshInv, DrawnInv, LeaseTypeOK
  <2>4. PageInv' /\ NoGap'
    BY <1>0, <1>7 DEF Draw, PageInv, NoGap
  <2>5. QED
    BY <2>1, <2>2, <2>3, <2>4 DEF LeaseInv
<1>8. ASSUME NEW p \in Procs, Commit(p)
      PROVE  LeaseInv'
  <2>1. HeldInv'
    BY <1>0, <1>8 DEF Commit, HeldInv, LeaseTypeOK
  <2>2. DrawnInv'
    BY <1>0, <1>8 DEF Commit, DrawnInv, LeaseTypeOK
  <2>3. FreshInv'
    BY <1>0, <1>8 DEF Commit, FreshInv, LeaseTypeOK
  <2>4. \A d \in Devices : cursor[d] < open[p] /\ answer[d].top < open[p]
                           /\ cursor[d] \in Nat /\ answer[d].top \in Nat /\ open[p] \in Nat
    BY <1>0, <1>8 DEF Commit, FreshInv, LeaseTypeOK, Answers
  <2>5. PageInv' /\ NoGap'
    BY <1>0, <1>8, <2>4 DEF Commit, PageInv, NoGap
  <2>6. QED
    BY <2>1, <2>2, <2>3, <2>5 DEF LeaseInv
<1>9. ASSUME NEW p \in Procs, Pull(p)
      PROVE  LeaseInv'
  <2>1. PICK top \in Page(p) \cup {cursor[p]} :
          /\ \A s \in Page(p) \cup {cursor[p]} : s <= top
          /\ answer' = [answer EXCEPT ![p] = [page |-> Page(p), top |-> top]]
    BY <1>9 DEF Pull
  <2>2. /\ p \in Devices /\ answer'[p].page = Page(p) /\ answer'[p].top = top
        /\ \A d \in Devices \ {p} : answer'[d] = answer[d]
        /\ Page(p) \subseteq committed /\ top \in Nat /\ cursor[p] \in Nat
    BY <1>0, <1>9, <2>1 DEF Pull, LeaseTypeOK, Page, Above
  <2>3. HeldInv'
    BY <1>0, <1>9 DEF Pull, HeldInv, LeaseTypeOK
  <2>4. DrawnInv'
    BY <1>0, <1>9, <2>1, <2>2 DEF Pull, DrawnInv, LeaseTypeOK
  <2>5. \A q \in Procs : open[q] = 0
    BY <1>0, <1>9, Alone DEF Pull, HeldInv
  <2>6. FreshInv' /\ NoGap'
    BY <1>0, <1>9, <2>5 DEF Pull, FreshInv, NoGap
  <2>7. \A s \in committed : cursor[p] < s /\ s <= top => s \in Page(p)
    <3> SUFFICES ASSUME NEW s \in committed, cursor[p] < s, s <= top PROVE s \in Page(p)
      OBVIOUS
    <3>1. top \in Page(p)
      BY <1>0, <2>1, <2>2 DEF LeaseTypeOK
    <3>2. QED
      BY <1>0, <2>2, <3>1, PageComplete
  <2>8. PageInv'
    BY <1>0, <1>9, <2>2, <2>7 DEF Pull, PageInv
  <2>9. QED
    BY <2>3, <2>4, <2>6, <2>8 DEF LeaseInv
<1>10. ASSUME NEW p \in Procs, Finish(p)
       PROVE  LeaseInv'
  <2>1. HeldInv'
    BY <1>0, <1>10 DEF Finish, HeldInv, LeaseTypeOK
  <2>2. DrawnInv' /\ FreshInv' /\ PageInv' /\ NoGap'
    BY <1>0, <1>10 DEF Finish, DrawnInv, FreshInv, PageInv, NoGap
  <2>3. QED
    BY <2>1, <2>2 DEF LeaseInv
<1>11. ASSUME NEW p \in Procs, Release(p) \/ ReleaseFails(p)
       PROVE  LeaseInv'
  <2>1. HeldInv'
    BY <1>0, <1>11, Alone DEF Release, ReleaseFails, Released, HeldInv, LeaseTypeOK
  <2>2. DrawnInv' /\ FreshInv' /\ PageInv' /\ NoGap'
    BY <1>0, <1>11 DEF Release, ReleaseFails, DrawnInv, FreshInv, PageInv, NoGap
  <2>3. QED
    BY <2>1, <2>2 DEF LeaseInv
<1>12. ASSUME NEW p \in Procs, Receive(p)
       PROVE  LeaseInv'
  <2>1. HeldInv'
    BY <1>0, <1>12 DEF Receive, HeldInv
  <2>2. /\ p \in Devices
        /\ cursor'[p] = IF answer[p].top > cursor[p] THEN answer[p].top ELSE cursor[p]
        /\ seen'[p] = seen[p] \cup answer[p].page
        /\ answer'[p].top = 0 /\ answer'[p].page = {}
        /\ \A d \in Devices \ {p} :
             cursor'[d] = cursor[d] /\ seen'[d] = seen[d] /\ answer'[d] = answer[d]
        /\ UNCHANGED <<open, nextSeq, committed>>
    BY <1>0, <1>12 DEF Receive, LeaseTypeOK, NoAnswer
  <2>3. \A d \in Devices : cursor[d] \in Nat /\ answer[d].top \in Nat
    BY <1>0 DEF LeaseTypeOK, Answers
  <2>4. DrawnInv'
    BY <1>0, <2>2, <2>3 DEF DrawnInv, LeaseTypeOK
  <2>5. FreshInv'
    BY <1>0, <2>2, <2>3 DEF FreshInv, LeaseTypeOK
  <2>6. PageInv'
    BY <1>0, <2>2, <2>3 DEF PageInv, LeaseTypeOK
  <2>7. NoGap'
    <3> SUFFICES ASSUME NEW d \in Devices, NEW s \in committed, s <= cursor'[d]
                 PROVE  s \in seen'[d]
      BY <2>2 DEF NoGap
    <3>1. CASE d # p
      BY <1>0, <2>2, <3>1 DEF NoGap
    <3>2. CASE d = p /\ s <= cursor[p]
      BY <1>0, <2>2, <3>2 DEF NoGap
    <3>3. CASE d = p /\ ~(s <= cursor[p])
      <4>1. cursor[p] < s /\ s <= answer[p].top
        BY <1>0, <2>2, <2>3, <3>3 DEF LeaseTypeOK
      <4>2. QED
        BY <1>0, <2>2, <3>3, <4>1 DEF PageInv
    <3>4. QED
      BY <3>1, <3>2, <3>3
  <2>8. QED
    BY <2>1, <2>4, <2>5, <2>6, <2>7 DEF LeaseInv
<1>13. ASSUME NEW p \in Procs, LoseAnswer(p) \/ Crash(p)
       PROVE  LeaseInv'
  <2>1. HeldInv'
    BY <1>0, <1>13 DEF LoseAnswer, Crash, HeldInv, LeaseTypeOK
  <2>2. /\ \A d \in Devices : answer'[d] = answer[d] \/ answer'[d] = NoAnswer
        /\ \A q \in Procs : open'[q] = open[q] \/ open'[q] = 0
        /\ UNCHANGED <<nextSeq, committed, cursor, seen>>
    BY <1>0, <1>13 DEF LoseAnswer, Crash, LeaseTypeOK
  <2>3. /\ NoAnswer.top = 0 /\ nextSeq \in Nat
        /\ \A d \in Devices : cursor[d] \in Nat /\ answer[d].top \in Nat
        /\ \A q \in Procs : open[q] \in Nat
        /\ committed \subseteq Nat
    BY <1>0 DEF NoAnswer, LeaseTypeOK, Answers
  <2>4. DrawnInv'
    BY <1>0, <2>2, <2>3 DEF DrawnInv
  <2>5. FreshInv'
    BY <1>0, <2>2, <2>3 DEF FreshInv
  <2>6. PageInv'
    BY <1>0, <2>2, <2>3 DEF PageInv
  <2>7. NoGap'
    BY <1>0, <2>2 DEF NoGap
  <2>8. QED
    BY <2>1, <2>4, <2>5, <2>6, <2>7 DEF LeaseInv
<1>14. QED
  BY <1>1, <1>2, <1>3, <1>4, <1>5, <1>6, <1>7, <1>8, <1>9, <1>10, <1>11, <1>12, <1>13 DEF LeaseNext

\* The initial state satisfies the inductive invariant.
LEMMA LeaseInitInv == LeaseInit => LeaseInv
<1> SUFFICES ASSUME LeaseInit PROVE LeaseInv
  OBVIOUS
<1>1. LeaseTypeOK
  BY DEF LeaseInit, LeaseTypeOK, Procs, NoAnswer, Answers
<1>2. \A d \in Devices : answer[d].top = 0
  BY DEF LeaseInit, NoAnswer
<1>3. HeldInv /\ DrawnInv /\ FreshInv /\ PageInv /\ NoGap
  BY <1>2 DEF LeaseInit, HeldInv, DrawnInv, FreshInv, PageInv, NoGap
<1>4. QED
  BY <1>1, <1>3 DEF LeaseInv

\* Writing without the lease is never forgotten.
LEMMA HeldBefore ==
  ASSUME LeaseTypeOK, [LeaseNext]_leaseVars, AllHeld'
  PROVE  AllHeld
<1> USE DEF counters, devices, rows
<1>1. giveUps \in Nat /\ overruns \in Nat
  BY DEF LeaseTypeOK
<1>2. giveUps' \in {giveUps, giveUps + 1} /\ overruns' \in {overruns, overruns + 1}
  BY DEF LeaseNext, leaseVars, Request, Acquire, Refuse, GiveUp, Draw, Commit, Pull, Finish, Release,
         ReleaseFails, Receive, LoseAnswer, Crash, Expire, Overrun
<1>3. QED
  BY <1>1, <1>2 DEF AllHeld

\* Whoever works holds the lease, so the pages are complete and the inductive invariant
\* holds in every reachable state in which nobody has written without the lease.
THEOREM LeaseInvariance == LeaseSpec => [](AllHeld => LeaseInv)
<1>1. LeaseTypeOK /\ LeaseTypeOK' /\ [LeaseNext]_leaseVars /\ (AllHeld => LeaseInv) => (AllHeld => LeaseInv)'
  BY LeaseNextInv, HeldBefore
<1>2. QED
  BY LeaseInitInv, <1>1, LeaseTypeCorrect, PTL DEF LeaseSpec

\* While every writer holds the lease, advancing the cursor never skips a row.
THEOREM NothingIsSkipped == LeaseSpec => []NothingSkipped
<1>1. (AllHeld => LeaseInv) => NothingSkipped
  BY DEF LeaseInv, NoGap, NothingSkipped
<1>2. QED
  BY <1>1, LeaseInvariance, PTL

\* While every writer holds the lease, no pull reads between a draw and its commit.
THEOREM PullsAreOutsideWrites == LeaseSpec => PullOutsideWrites
<1>1. (AllHeld => LeaseInv) =>
        \A d \in Devices : AllHeld /\ Pull(d) => \A p \in Procs : open[p] = 0
  <2> SUFFICES ASSUME LeaseInv, NEW d \in Devices, Pull(d), NEW p \in Procs PROVE open[p] = 0
    OBVIOUS
  <2>1. d \in Procs /\ HeldInv
    BY DEF Procs, LeaseInv
  <2>2. QED
    BY <2>1, Alone DEF Pull, HeldInv
<1>2. QED
  BY <1>1, LeaseInvariance, PTL DEF PullOutsideWrites

\* A lease row that is freed is freed by its own holder's release, whatever expired, died or
\* was taken over before: no request frees the lease of the next one.
THEOREM OnlyOwnRelease == LeaseSpec => ReleaseIsOwn
<1>1. LeaseTypeOK /\ [LeaseNext]_leaseVars =>
        [\A p \in Procs : lease.holder = p /\ lease'.holder = Nobody => Release(p)]_leaseVars
  <2> SUFFICES ASSUME LeaseTypeOK, LeaseNext, NEW p \in Procs, lease.holder = p, lease'.holder = Nobody
               PROVE  Release(p)
    OBVIOUS
  <2>1. Nobody \notin Procs
    BY LeaseAssumption DEF Procs
  <2>2. lease' # lease
    BY <2>1
  <2>3. ~Expire /\ ~Overrun
    <3>1. [lease EXCEPT !.live = FALSE].holder = lease.holder
      BY DEF LeaseTypeOK
    <3> QED
      BY <2>1, <3>1 DEF Expire, Overrun
  <2>4. \A q \in Procs : ~Acquire(q)
    BY <2>1 DEF Acquire
  <2>5. PICK q \in Procs : Release(q)
    BY <2>2, <2>3, <2>4 DEF LeaseNext, Request, Refuse, GiveUp, Draw, Commit, Pull, Finish,
                            ReleaseFails, Receive, LoseAnswer, Crash
  <2>6. lease.holder = q
    BY <2>2, <2>5 DEF Release, Released
  <2> QED
    BY <2>5, <2>6
<1>2. QED
  BY <1>1, LeaseTypeCorrect, PTL DEF LeaseSpec, ReleaseIsOwn
-----------------------------------------------------------------------------
RunRecords ==
    [phase: {"session", "call"}, reason: Reasons, retry: BOOLEAN,
     rounds: 0..MaxRounds, batch: SUBSET (1..written)]

Asked == [reason: Reasons, retry: BOOLEAN]

\* The part of TypeOK the scheduler works on.
SchedulerTypes ==
    /\ run \in RunRecords \cup {NoRun}
    /\ followUp \in Triggers /\ timer \in Triggers
    /\ retryingBusy \in BOOLEAN
    /\ status \in {"idle", "syncing", "offline", "no_session", "error"}
    /\ last \in [kind: Kinds, rounds: 0..MaxRounds]
    /\ plan \in {NoPlan} \cup SUBSET (1..written)

OutboxTypes ==
    /\ written \in 0..MaxWrites
    /\ pending \in SUBSET (1..written) /\ sent \in SUBSET (1..written)

WorldTypes ==
    /\ active \in BOOLEAN /\ online \in BOOLEAN /\ signedIn \in BOOLEAN /\ calm \in BOOLEAN
    /\ kills \in 0..MaxKills

LEMMA TypeParts == TypeOK <=> SchedulerTypes /\ OutboxTypes /\ WorldTypes
BY DEF TypeOK, SchedulerTypes, OutboxTypes, WorldTypes, RunRecords
-----------------------------------------------------------------------------
\* A trigger that is not "none" has a reason, and the run it starts is none yet with the server.
LEMMA Starts ==
    ASSUME NEW t \in Triggers, t # NoTrigger
    PROVE  /\ t \in Asked
           /\ Started(t) \in RunRecords /\ Started(t).phase = "session" /\ Started(t) # NoRun
BY ConstantsAssumption DEF Triggers, NoTrigger, Started, RunRecords, Asked, NoRun

\* Coalescing keeps the reason of the newer trigger.
LEMMA Coalesces ==
    ASSUME NEW t \in Asked, NEW old \in Triggers
    PROVE  /\ Coalesced(t, old) \in Asked /\ Coalesced(t, old) \in Triggers
           /\ Coalesced(t, old) # NoTrigger
BY DEF Asked, Triggers, NoTrigger, Coalesced, Reasons

\* A run that is not the empty record has a phase of its own, the empty one none.
LEMMA RunPhase ==
    ASSUME SchedulerTypes
    PROVE  /\ run = NoRun <=> run.phase = "none"
           /\ run # NoRun => run \in RunRecords
BY DEF SchedulerTypes, RunRecords, NoRun

\* A run goes to the server with a batch, for the first time or again.
LEMMA Calls ==
    ASSUME NEW r \in RunRecords, NEW n \in 0..MaxRounds, NEW batch \in SUBSET (1..written),
           NEW next,
           \/ next = [r EXCEPT !.phase = "call", !.rounds = n, !.batch = batch]
           \/ r.phase = "call" /\ next = [r EXCEPT !.rounds = n, !.batch = batch]
    PROVE  next \in RunRecords /\ next.phase = "call" /\ next # NoRun
<1>1. CASE next = [r EXCEPT !.phase = "call", !.rounds = n, !.batch = batch]
  BY <1>1 DEF RunRecords, NoRun
<1>2. CASE r.phase = "call" /\ next = [r EXCEPT !.rounds = n, !.batch = batch]
  BY <1>2 DEF RunRecords, NoRun
<1>3. QED
  BY <1>1, <1>2

\* syncNow leaves a run under way, and never one that is already with the server unless
\* it was there before.
LEMMA Asks ==
    ASSUME SchedulerTypes, NEW t \in Asked, SyncNow(t)
    PROVE  /\ run' \in RunRecords /\ run' # NoRun /\ followUp' \in Triggers
           /\ run'.phase = "call" <=> run.phase = "call"
<1>1. t \in Triggers /\ t # NoTrigger
  BY DEF Asked, Triggers, NoTrigger, Reasons
<1>2. CASE run = NoRun
  <2>1. run' = Started(t) /\ UNCHANGED followUp
    BY <1>2 DEF SyncNow
  <2> QED
    BY <1>1, <1>2, <2>1, Starts DEF SchedulerTypes, NoRun
<1>3. CASE run # NoRun
  BY <1>3, Coalesces, RunPhase DEF SyncNow, SchedulerTypes
<1>4. QED
  BY <1>2, <1>3

\* What a run leaves when it returns.
LEMMA Resolves ==
    ASSUME SchedulerTypes, NEW kind \in Kinds, NEW rounds \in 0..MaxRounds, Resolved(kind, rounds)
    PROVE  /\ run' \in RunRecords \cup {NoRun} /\ run'.phase # "call"
           /\ followUp' \in Triggers
           /\ last' \in [kind: Kinds, rounds: 0..MaxRounds]
           /\ last'.kind = kind /\ last'.rounds = rounds /\ plan' = NoPlan
<1>1. CASE followUp = NoTrigger
  BY <1>1 DEF Resolved, NoRun, Triggers
<1>2. CASE followUp # NoTrigger
  <2>1. run' = Started(followUp)
    BY <1>2 DEF Resolved
  <2>2. Started(followUp) \in RunRecords /\ Started(followUp).phase = "session"
    BY <1>2, Starts DEF SchedulerTypes
  <2> QED
    BY <2>1, <2>2 DEF Resolved, Triggers
<1>3. QED
  BY <1>1, <1>2

\* A run that ends is never with the server any more, and its status says so.
LEMMA Ends ==
    ASSUME SchedulerTypes, NEW kind \in {"synced", "offline", "busy", "failed"},
           run.phase = "call", End(kind)
    PROVE  /\ run' \in RunRecords \cup {NoRun} /\ run'.phase # "call"
           /\ followUp' \in Triggers /\ timer' \in Triggers
           /\ retryingBusy' \in BOOLEAN
           /\ status' \in {"idle", "offline", "error"}
           /\ last' \in [kind: Kinds, rounds: 0..MaxRounds]
           /\ last'.kind = kind /\ last'.rounds = run.rounds /\ plan' = NoPlan
<1>1. run \in RunRecords
  BY RunPhase DEF NoRun
<1>2. run.rounds \in 0..MaxRounds /\ run.reason \in Reasons
  BY <1>1 DEF RunRecords
<1>3. Resolved(kind, run.rounds) /\ kind \in Kinds
  BY DEF End, Kinds
<1>4. timer' \in Triggers
  <2>1. [reason |-> run.reason, retry |-> TRUE] \in Asked
    BY <1>2 DEF Asked
  <2>2. Scheduled([reason |-> run.reason, retry |-> TRUE]) \in Triggers
    BY <2>1, Coalesces DEF Scheduled, SchedulerTypes
  <2> QED
    BY <2>2 DEF End, SchedulerTypes
<1>5. retryingBusy' \in BOOLEAN
  BY DEF End, Retry, SchedulerTypes
<1>6. status' \in {"idle", "offline", "error"}
  BY DEF End, StatusAfter
<1>7. QED
  BY <1>2, <1>3, <1>4, <1>5, <1>6, Resolves

\* A run that does not go on to another round below the limit has sent all that is pending.
LEMMA NothingUnsent ==
    ASSUME NEW more \in BOOLEAN, NEW conflicts \in BOOLEAN, ~AnotherRound(more, conflicts),
           run.rounds < MaxRounds
    PROVE  pending' \subseteq sent
BY DEF AnotherRound
-----------------------------------------------------------------------------
\* The inductive invariant is EngineSound itself, its types taken apart.
Inv == SchedulerTypes /\ OutboxTypes /\ WorldTypes /\ NoOrphanWrite /\ SyncingIsTrue

\* A step that leaves the outbox alone and a run under way.
LEMMA AskedKeeps ==
    ASSUME Inv, NEW t \in Asked, SyncNow(t), timer' \in Triggers, plan' \in {plan, pending},
           WorldTypes', UNCHANGED <<written, pending, sent, retryingBusy, status, last>>
    PROVE  Inv'
<1> USE DEF Inv
<1>1. RunRecords' = RunRecords
  BY DEF RunRecords
<1>2. SchedulerTypes'
  BY <1>1, Asks DEF SchedulerTypes, OutboxTypes
<1>3. OutboxTypes'
  BY DEF OutboxTypes
<1>4. NoOrphanWrite' /\ SyncingIsTrue'
  BY Asks DEF NoOrphanWrite, SyncingIsTrue
<1>5. QED
  BY <1>2, <1>3, <1>4

\* The triggers: the poll, the user, the app and the network coming back, a sign-in.
LEMMA TriggersKeep ==
    ASSUME Inv, Poll \/ Manual \/ Foreground \/ SignIn \/ SyncBeforePlan \/ TimerFires \/ Reconnect
    PROVE  Inv'
<1> USE DEF world
<1>1. /\ [reason |-> "poll", retry |-> FALSE] \in Asked /\ [reason |-> "other", retry |-> FALSE] \in Asked
      /\ timer \in Triggers /\ NoTrigger \in Triggers
  BY DEF Asked, Reasons, Inv, SchedulerTypes, Triggers
<1>2. WorldTypes
  BY DEF Inv
<1>3. CASE Poll
  BY <1>1, <1>2, <1>3, AskedKeeps DEF Poll, Trigger, WorldTypes
<1>4. CASE Manual
  BY <1>1, <1>2, <1>4, AskedKeeps DEF Manual, Trigger, WorldTypes
<1>5. CASE Foreground
  BY <1>1, <1>2, <1>5, AskedKeeps DEF Foreground, Trigger, WorldTypes
<1>6. CASE SignIn
  BY <1>1, <1>2, <1>6, AskedKeeps DEF SignIn, Trigger, WorldTypes
<1>7. CASE SyncBeforePlan
  BY <1>1, <1>2, <1>7, AskedKeeps DEF SyncBeforePlan, Trigger, WorldTypes
<1>8. CASE TimerFires
  <2>1. timer \in Asked
    BY <1>1, <1>8, Starts DEF TimerFires
  <2> QED
    BY <1>1, <1>2, <1>8, <2>1, AskedKeeps DEF TimerFires, WorldTypes
<1>9. CASE Reconnect
  <2>1. CASE status = "offline"
    BY <1>1, <1>2, <1>9, <2>1, AskedKeeps DEF Reconnect, Trigger, WorldTypes
  <2>2. CASE status # "offline"
    BY <1>2, <1>9, <2>2 DEF Reconnect, Inv, SchedulerTypes, OutboxTypes, WorldTypes, RunRecords,
                            NoOrphanWrite, SyncingIsTrue
  <2> QED
    BY <2>1, <2>2
<1>10. QED
  BY <1>3, <1>4, <1>5, <1>6, <1>7, <1>8, <1>9

\* A local write always leaves the timer running.
LEMMA WriteKeeps == ASSUME Inv, Write PROVE Inv'
<1> USE DEF Inv
<1>1. /\ written' = written + 1 /\ pending' = pending \cup {written + 1} /\ written < MaxWrites
      /\ timer' = Scheduled([reason |-> "other", retry |-> FALSE])
      /\ UNCHANGED <<run, sent, followUp, retryingBusy, status, last, plan, world>>
  BY DEF Write
<1>2. written \in Nat /\ 1..written \subseteq 1..written' /\ written' \in 0..MaxWrites
  BY <1>1, ConstantsAssumption DEF OutboxTypes
<1>3. timer' \in Triggers /\ timer' # NoTrigger
  <2>1. [reason |-> "other", retry |-> FALSE] \in Asked
    BY DEF Asked, Reasons
  <2> QED
    BY <1>1, <2>1, Coalesces DEF Scheduled, SchedulerTypes
<1>4. RunRecords \subseteq RunRecords'
  BY <1>2 DEF RunRecords
<1>5. SchedulerTypes'
  <2>1. plan' \in {NoPlan} \cup SUBSET (1..written')
    BY <1>1, <1>2 DEF SchedulerTypes
  <2>2. run' \in RunRecords' \cup {NoRun}
    BY <1>1, <1>4 DEF SchedulerTypes
  <2> QED
    BY <1>1, <1>3, <2>1, <2>2 DEF SchedulerTypes
<1>6. OutboxTypes'
  BY <1>1, <1>2 DEF OutboxTypes
<1>7. WorldTypes' /\ NoOrphanWrite' /\ SyncingIsTrue'
  BY <1>1, <1>3 DEF WorldTypes, world, NoOrphanWrite, SyncingIsTrue
<1>8. QED
  BY <1>5, <1>6, <1>7

\* A run: no session, the first batch, an answer, a failure.
LEMMA RunKeeps == ASSUME Inv, NoSession \/ Session \/ Answer \/ Fail PROVE Inv'
<1> USE DEF Inv
<1>1. WorldTypes' /\ RunRecords' = RunRecords /\ UNCHANGED written
  BY DEF NoSession, Session, Answer, Fail, world, WorldTypes, RunRecords
<1>2. CASE NoSession
  <2>1. PICK kind \in {"no-session", "offline"} :
          Resolved(kind, 0) /\ status' \in {"no_session", "offline"}
    BY <1>2 DEF NoSession
  <2>2. 0 \in 0..MaxRounds /\ kind \in Kinds
    BY ConstantsAssumption DEF Kinds
  <2>3. /\ run' \in RunRecords \cup {NoRun} /\ run'.phase # "call" /\ followUp' \in Triggers
        /\ last' \in [kind: Kinds, rounds: 0..MaxRounds] /\ last'.kind = kind /\ plan' = NoPlan
    BY <2>1, <2>2, Resolves
  <2>4. UNCHANGED <<pending, sent, timer, retryingBusy>>
    BY <1>2 DEF NoSession
  <2> QED
    BY <1>1, <2>1, <2>3, <2>4 DEF SchedulerTypes, OutboxTypes, NoOrphanWrite, SyncingIsTrue
<1>3. CASE Session
  <2>1. run \in RunRecords
    BY <1>3, RunPhase DEF Session, NoRun
  <2>2. FirstOf(pending) \in SUBSET (1..written)
    BY DEF FirstOf, OutboxTypes
  <2>3. 1 \in 0..MaxRounds
    BY ConstantsAssumption
  <2>4. run' \in RunRecords /\ run'.phase = "call" /\ run' # NoRun
    <3>1. run' = [run EXCEPT !.phase = "call", !.rounds = 1, !.batch = FirstOf(pending)]
      BY <1>3 DEF Session
    <3> QED
      BY <2>1, <2>2, <2>3, <3>1, Calls
  <2> QED
    BY <1>1, <1>3, <2>2, <2>4 DEF Session, SchedulerTypes, OutboxTypes, NoOrphanWrite, SyncingIsTrue
<1>4. CASE Answer
  <2>1. run.phase = "call" /\ run \in RunRecords
    BY <1>4, RunPhase DEF Answer, NoRun
  <2>2. PICK kept \in SUBSET run.batch, more \in BOOLEAN, conflicts \in BOOLEAN :
          /\ pending' = pending \ (run.batch \ kept)
          /\ IF AnotherRound(more, conflicts)
             THEN /\ run' = [run EXCEPT !.rounds = @ + 1, !.batch = FirstOf(pending')]
                  /\ sent' = sent \cup FirstOf(pending')
                  /\ UNCHANGED <<followUp, timer, retryingBusy, status, last, plan>>
             ELSE End("synced") /\ UNCHANGED sent
    BY <1>4 DEF Answer
  <2>3. pending' \in SUBSET (1..written)
    BY <2>2 DEF OutboxTypes
  <2>4. CASE AnotherRound(more, conflicts)
    <3>1. FirstOf(pending') \in SUBSET (1..written)
      BY <2>3 DEF FirstOf
    <3>2. run.rounds + 1 \in 0..MaxRounds
      BY <2>1, <2>4, ConstantsAssumption DEF AnotherRound, RunRecords
    <3>3. run' = [run EXCEPT !.rounds = run.rounds + 1, !.batch = FirstOf(pending')]
      BY <2>2, <2>4
    <3>4. run' \in RunRecords /\ run'.phase = "call" /\ run' # NoRun
      BY <2>1, <3>1, <3>2, <3>3, Calls
    <3> QED
      BY <1>1, <2>1, <2>2, <2>3, <2>4, <3>1, <3>4
         DEF SchedulerTypes, OutboxTypes, NoOrphanWrite, SyncingIsTrue
  <2>5. CASE ~AnotherRound(more, conflicts)
    <3>1. End("synced") /\ UNCHANGED sent
      BY <2>2, <2>5
    <3>2. run.rounds < MaxRounds => pending' \subseteq sent'
      BY <2>5, <3>1, NothingUnsent
    <3> QED
      BY <1>1, <2>1, <2>3, <3>1, <3>2, Ends
         DEF SchedulerTypes, OutboxTypes, NoOrphanWrite, SyncingIsTrue
  <2> QED
    BY <2>4, <2>5
<1>5. CASE Fail
  <2>1. PICK kind \in {"offline", "busy", "failed"} : End(kind)
    BY <1>5 DEF Fail
  <2>2. run.phase = "call" /\ pending' \subseteq pending /\ UNCHANGED sent
    BY <1>5 DEF Fail
  <2> QED
    BY <1>1, <2>1, <2>2, Ends DEF SchedulerTypes, OutboxTypes, NoOrphanWrite, SyncingIsTrue
<1>6. QED
  BY <1>2, <1>3, <1>4, <1>5

\* A kill leaves the outbox only; a new run starts if the user is signed in.
LEMMA KillKeeps == ASSUME Inv, Kill PROVE Inv'
<1> USE DEF Inv
<1>1. [reason |-> "other", retry |-> FALSE] \in Triggers /\ [reason |-> "other", retry |-> FALSE] # NoTrigger
  BY DEF Triggers, Reasons, NoTrigger
<1>2. run' \in RunRecords \cup {NoRun} /\ run'.phase # "call"
  BY <1>1, Starts DEF Kill, NoRun
<1>3. RunRecords' = RunRecords
  BY DEF Kill, RunRecords
<1>4. last' \in [kind: Kinds, rounds: 0..MaxRounds] /\ last'.kind = "none"
  BY ConstantsAssumption DEF Kill, Kinds
<1>5. kills' \in 0..MaxKills
  BY ConstantsAssumption DEF Kill, WorldTypes
<1>6. QED
  BY <1>2, <1>3, <1>4, <1>5 DEF Kill, SchedulerTypes, OutboxTypes, WorldTypes, Triggers,
                                NoOrphanWrite, SyncingIsTrue

LEMMA InitInv == Init => Inv
<1> SUFFICES ASSUME Init PROVE Inv
  OBVIOUS
<1> USE DEF Init
<1>0. 0 \in 0..MaxRounds /\ 0 \in 0..MaxKills
  BY ConstantsAssumption
<1>1. SchedulerTypes
  <2>1. [kind |-> "none", rounds |-> 0] \in [kind: Kinds, rounds: 0..MaxRounds]
    BY <1>0 DEF Kinds
  <2>2. retryingBusy \in BOOLEAN
    OBVIOUS
  <2> QED
    BY <2>1, <2>2 DEF SchedulerTypes, Triggers
<1>2. OutboxTypes
  BY ConstantsAssumption DEF OutboxTypes
<1>3. WorldTypes
  BY <1>0 DEF WorldTypes
<1>4. NoOrphanWrite /\ SyncingIsTrue
  BY DEF NoOrphanWrite, SyncingIsTrue, NoRun
<1>5. QED
  BY <1>1, <1>2, <1>3, <1>4 DEF Inv

LEMMA NextInv == Inv /\ [Next]_vars => Inv'
<1> SUFFICES ASSUME Inv, [Next]_vars PROVE Inv'
  OBVIOUS
<1>1. CASE Background \/ Disconnect \/ ServerTurns \/ UNCHANGED vars
  <2>1. WorldTypes'
    BY <1>1 DEF Background, Disconnect, ServerTurns, vars, world, Inv, WorldTypes
  <2>2. UNCHANGED <<written, pending, engine>>
    BY <1>1 DEF Background, Disconnect, ServerTurns, vars
  <2> QED
    BY <2>1, <2>2 DEF engine, Inv, SchedulerTypes, OutboxTypes, RunRecords, NoOrphanWrite,
                      SyncingIsTrue
<1>2. QED
  BY <1>1, TriggersKeep, WriteKeeps, RunKeeps, KillKeeps DEF Next

LEMMA Invariance == Spec => []Inv
BY InitInv, NextInv, PTL DEF Spec
-----------------------------------------------------------------------------
\* engine.ts: every variable keeps its type, no op is left in the outbox with no sync under way
\* or due after a run that neither failed nor ran out of rounds, and the store says `syncing`
\* exactly while a request is awaited.
THEOREM Sound == Spec => []EngineSound
<1>1. Inv => EngineSound
  BY TypeParts DEF Inv, EngineSound
<1>2. QED
  BY Invariance, <1>1, PTL

\* syncBeforePlan: with a synced outcome inside the round limit, what was pending when the plan
\* request asked has been pushed, whichever run it joined.
THEOREM PlanSeesItsWrites == Spec => PrePlanPushed
<1>1. Inv /\ [Next]_vars =>
        [plan # NoPlan /\ plan' = NoPlan /\ last'.kind = "synced" /\ last'.rounds < MaxRounds
         => plan \cap pending' \subseteq sent]_vars
  <2> SUFFICES ASSUME Inv, Next, plan # NoPlan, plan' = NoPlan, last'.kind = "synced",
                      last'.rounds < MaxRounds
               PROVE  pending' \subseteq sent
    OBVIOUS
  <2>1. SchedulerTypes /\ OutboxTypes
    BY DEF Inv
  <2>2. ~NoSession /\ ~Fail /\ ~Kill
    <3>1. ~NoSession
      BY DEF NoSession, Resolved
    <3>2. ~Fail
      BY DEF Fail, End, Resolved
    <3>3. ~Kill
      BY DEF Kill
    <3> QED
      BY <3>1, <3>2, <3>3
  <2>3. ~SyncBeforePlan
    BY DEF SyncBeforePlan
  <2>4. Answer
    BY <2>2, <2>3 DEF Next, Write, TimerFires, Poll, Manual, Foreground, Background, Reconnect,
                      Disconnect, SignIn, ServerTurns, Session, engine
  <2>5. PICK more \in BOOLEAN, conflicts \in BOOLEAN : End("synced") /\ ~AnotherRound(more, conflicts)
    BY <2>4 DEF Answer
  <2>6. run.rounds < MaxRounds
    BY <2>5 DEF End, Resolved
  <2> QED
    BY <2>5, <2>6, NothingUnsent
<1>2. QED
  BY Invariance, <1>1, PTL DEF Spec, PrePlanPushed
=============================================================================
