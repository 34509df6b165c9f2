--------------------------- MODULE TaskSyncProofs ---------------------------
(***************************************************************************)
(* Proofs about TaskSync: type correctness, at-most-once application of    *)
(* every op, durability of every ack and soundness of the pull cursor, for *)
(* any number of devices, writes and losses, and the proof that the        *)
(* protocol implements OpLog.                                              *)
(***************************************************************************)
EXTENDS TaskSync, FiniteSetTheorems, TLAPS

\* A device's outbox never outgrows the writes it made.
BoundInv ==
    /\ clock <= MaxWrites
    /\ \A d \in Devices : Len(outbox[d]) <= clock

\* A round trip carries ops of its own device.
SentInv == \A d \in Devices :
    /\ flight[d].sent \subseteq 1..Len(outbox[d])
    /\ \A a \in flight[d].acks : a.op \in flight[d].sent

LeaseInv == \A d, e \in Devices :
    flight[d].phase = "serving" /\ flight[e].phase = "serving" => d = e

\* The open transaction extends the committed state by what its acks say.
JobInv == \A d \in Devices : flight[d].phase = "serving" =>
    /\ job.todo \subseteq flight[d].sent
    /\ srv.ledger \subseteq job.ledger
    /\ \A w \in job.wrote : w[1] \in job.ledger \ srv.ledger
    /\ \A v, w \in job.wrote : v[1] = w[1] => v = w
    /\ \A o \in job.ledger \ srv.ledger : o[1] = d /\ o[2] \in flight[d].sent
    /\ \A a \in job.acks : a.op \in flight[d].sent
    /\ \A a \in job.acks : a.outcome \in Settled => <<d, a.op>> \in job.ledger

\* A settling answer reports what was committed.
AnswerInv == \A d \in Devices : \A a \in flight[d].acks :
    a.outcome \in Settled => <<d, a.op>> \in srv.ledger

EffectInv == \A e \in effects : e[1] \in srv.ledger

LedgerInv == \A o \in srv.ledger : o[2] \in 1..Len(outbox[o[1]])

Inv == /\ TypeOK /\ BoundInv /\ SentInv /\ LeaseInv /\ JobInv /\ AnswerInv
       /\ EffectInv /\ LedgerInv /\ ExactlyOnce /\ AckedIsDurable
-----------------------------------------------------------------------------
LEMMA NoRowType == NoRow \in Rows
  BY DEF NoRow, Rows, Statuses

LEMMA IdleType == Idle \in Flights
  BY NoRowType DEF Idle, Flights

LEMMA NoJobType == NoJob \in Jobs
  BY NoRowType DEF NoJob, Jobs

\* mergeTask returns a row, one version above the server's.
LEMMA MergeType ==
  ASSUME NEW l \in Rows, NEW s \in Rows
  PROVE  /\ Merge(l, s) \in Rows
         /\ Merge(l, s).version = s.version + 1
<1>1. MergeStatus(l, s, TRUE) \in Statuses /\ MergeStatus(l, s, FALSE) \in Statuses
  BY DEF MergeStatus, Rank, Rows, Statuses
<1>2. /\ MergeStatus(l, s, l.at >= s.at) \in Statuses
      /\ s.version + 1 \in Nat
  BY <1>1 DEF MergeStatus, Rank, Rows, Statuses
<1>3. \A user \in {l, s} :
        [title |-> user.title, deleted |-> user.deleted,
         status |-> MergeStatus(l, s, l.at >= s.at),
         version |-> s.version + 1, at |-> user.at] \in Rows
  BY <1>2 DEF Rows
<1>4. QED
  BY <1>2, <1>3 DEF Merge

LEMMA NewRowType ==
  ASSUME clock \in Nat, NEW cur \in Rows, NEW op \in Ops
  PROVE  NewRow(cur, op) \in Rows
<1>1. op.row \in Rows /\ op.row.at \in Nat /\ cur.version + 1 \in Nat /\ 2 * clock + 1 \in Nat
  BY DEF Ops, Rows
<1>2. [cur EXCEPT !.deleted = TRUE, !.at = op.row.at, !.version = cur.version + 1] \in Rows
  BY <1>1 DEF Rows
<1>3. [op.row EXCEPT !.version = cur.version + 1] \in Rows
  BY <1>1 DEF Rows
<1>4. \A row \in Rows : Touched(cur, row) \in Rows
  <2>1. \A row \in Rows, n \in Nat : [row EXCEPT !.at = n] \in Rows
    BY DEF Rows
  <2>2. QED
    BY <1>1, <2>1 DEF Touched
<1>5. QED
  BY <1>1, <1>2, <1>3, <1>4 DEF NewRow

\* The row a conflict merges into, when there is a conflict.
LEMMA MergedRowType ==
  ASSUME TypeOK, NEW d \in Devices, NEW acks \in SUBSET Acks, FirstConflict(acks) # {}
  PROVE  MergedRow(d, acks) \in Rows /\ MergedRow(d, acks).version - 1 \in Nat
<1> DEFINE c == CHOOSE a \in FirstConflict(acks) : TRUE
<1>1. c \in Acks
  BY DEF FirstConflict
<1>2. c.row \in Rows /\ c.row.version \in Nat
  BY <1>1 DEF Acks, Rows
<1>3. local[d] \in Rows
  BY DEF TypeOK
<1>4. Merge(local[d], c.row) \in Rows /\ Merge(local[d], c.row).version = c.row.version + 1
  BY <1>2, <1>3, MergeType
<1>5. QED
  BY <1>2, <1>4 DEF MergedRow

\* Ack handling rewrites ops in place.
LEMMA AckedOpType ==
  ASSUME TypeOK, NEW d \in Devices, NEW acks \in SUBSET Acks, NEW i \in 1..Len(outbox[d])
  PROVE  AckedOp(d, acks, i) \in Ops
<1> DEFINE op == outbox[d][i]
<1>0. outbox[d] \in Seq(Ops)
  BY DEF TypeOK
<1>1. op \in Ops /\ op.attempts + 1 \in Nat
  <2>1. op \in Ops
    BY <1>0
  <2>2. QED
    BY <2>1 DEF Ops
<1>2. CASE op.state = "unacked" /\ Absorbs(acks, i)
  <2>1. FirstConflict(acks) # {}
    BY <1>2 DEF Absorbs
  <2>2. [op EXCEPT !.kind = "upsert", !.row = MergedRow(d, acks),
                   !.base = MergedBase(d, acks)] \in Ops
    BY <2>1, <1>1, MergedRowType DEF Ops, MergedBase
  <2>3. QED
    BY <1>2, <2>2 DEF AckedOp, Handled
<1>3. CASE ~(op.state = "unacked" /\ Absorbs(acks, i))
  <2>1. /\ [op EXCEPT !.state = "acked"] \in Ops
        /\ [op EXCEPT !.state = "dead", !.attempts = op.attempts + 1] \in Ops
        /\ [op EXCEPT !.state = "collapsed"] \in Ops
        /\ [op EXCEPT !.attempts = op.attempts + 1] \in Ops
    BY <1>1 DEF Ops
  <2>2. QED
    BY <1>1, <1>3, <2>1 DEF AckedOp, Handled
<1>4. QED
  BY <1>2, <1>3

LEMMA BoxAfterType ==
  ASSUME TypeOK, NEW d \in Devices, NEW acks \in SUBSET Acks
  PROVE  BoxAfter(d, acks) \in Seq(Ops) /\ Len(BoxAfter(d, acks)) = Len(outbox[d])
<1>1. outbox[d] \in Seq(Ops) /\ Len(outbox[d]) \in Nat
  BY DEF TypeOK
<1>2. \A i \in 1..Len(outbox[d]) : AckedOp(d, acks, i) \in Ops
  BY AckedOpType
<1>3. QED
  BY <1>1, <1>2 DEF BoxAfter

LEMMA RowAfterType ==
  ASSUME TypeOK, NEW d \in Devices, NEW acks \in SUBSET Acks
  PROVE  RowAfter(d, acks) \in Rows
<1>1. CASE FirstConflict(acks) # {}
  BY <1>1, MergedRowType DEF RowAfter
<1>2. CASE FirstConflict(acks) = {} /\ Adopted(d, acks) # {}
  <2> DEFINE a == CHOOSE x \in Adopted(d, acks) : TRUE
  <2>1. a \in Acks
    BY <1>2 DEF Adopted
  <2>2. a.row.version \in Nat
    BY <2>1 DEF Acks, Rows
  <2>3. [local[d] EXCEPT !.version = a.row.version] \in Rows /\ local[d] \in Rows
    BY <2>2 DEF TypeOK, Rows
  <2>4. QED
    BY <1>2, <2>3 DEF RowAfter
<1>3. CASE FirstConflict(acks) = {} /\ Adopted(d, acks) = {}
  BY <1>3 DEF RowAfter, TypeOK
<1>4. QED
  BY <1>1, <1>2, <1>3
-----------------------------------------------------------------------------
(* Local writes. *)

\* Every user action is the one transaction Write, on some row.
LEMMA UserWriteIsWrite ==
  ASSUME TypeOK, NEW d \in Devices, UserWrite(d)
  PROVE  \E kind \in {"upsert", "delete"}, next \in Rows : Write(d, kind, next)
<1>0. local[d] \in Rows /\ clock + 1 \in Nat
  BY DEF TypeOK
<1>1. /\ [NoRow EXCEPT !.title = clock + 1] \in Rows
      /\ [local[d] EXCEPT !.title = clock + 1] \in Rows
      /\ \A s \in Statuses : [local[d] EXCEPT !.status = s] \in Rows
      /\ \A b \in BOOLEAN : [local[d] EXCEPT !.deleted = b] \in Rows
  BY <1>0, NoRowType DEF Rows
<1>2. CASE Create(d)
  BY <1>1, <1>2 DEF Create
<1>3. CASE UpdateTask(d)
  BY <1>1, <1>3 DEF UpdateTask
<1>4. CASE CompleteTask(d)
  BY <1>1, <1>4 DEF CompleteTask, Statuses
<1>5. CASE MirrorPlan(d)
  BY <1>1, <1>5 DEF MirrorPlan, Statuses
<1>6. CASE ArchiveTask(d)
  BY <1>1, <1>6 DEF ArchiveTask, Statuses
<1>7. CASE SoftDelete(d)
  BY <1>1, <1>7 DEF SoftDelete
<1>8. CASE Restore(d)
  BY <1>1, <1>8 DEF Restore
<1>9. QED
  BY <1>2, <1>3, <1>4, <1>5, <1>6, <1>7, <1>8 DEF UserWrite

\* A write appends one unacked op and leaves the others where they were.
LEMMA WriteOutbox ==
  ASSUME TypeOK, NEW d \in Devices, NEW kind \in {"upsert", "delete"}, NEW next \in Rows,
         Write(d, kind, next)
  PROVE  /\ local' \in [Devices -> Rows]
         /\ outbox' \in [Devices -> Seq(Ops)]
         /\ Len(outbox'[d]) = Len(outbox[d]) + 1
         /\ \A i \in 1..Len(outbox[d]) : outbox'[d][i] = outbox[d][i]
         /\ outbox'[d][Len(outbox[d]) + 1].state = "unacked"
         /\ \A e \in Devices \ {d} : outbox'[e] = outbox[e]
<1> DEFINE row == [next EXCEPT !.at = 2 * (clock + 1), !.version = local[d].version + 1]
           op == [kind |-> kind, base |-> local[d].version, row |-> row,
                  attempts |-> 0, state |-> "unacked"]
<1>1. local[d] \in Rows /\ 2 * (clock + 1) \in Nat
  BY DEF TypeOK
<1>2. local[d].version \in Nat
  BY <1>1 DEF Rows
<1>3. row \in Rows
  <2>1. \A a, v \in Nat : [next EXCEPT !.at = a, !.version = v] \in Rows
    BY DEF Rows
  <2>2. local[d].version + 1 \in Nat
    BY <1>2
  <2>3. QED
    BY <1>1, <2>1, <2>2
<1>4. op \in Ops
  BY <1>2, <1>3 DEF Ops
<1>5. local' = [local EXCEPT ![d] = row] /\ outbox' = [outbox EXCEPT ![d] = Append(@, op)]
  BY DEF Write
<1>6. local \in [Devices -> Rows] /\ outbox \in [Devices -> Seq(Ops)] /\ outbox[d] \in Seq(Ops)
  BY DEF TypeOK
<1> HIDE DEF row, op
<1>7. /\ Append(outbox[d], op) \in Seq(Ops)
      /\ Len(Append(outbox[d], op)) = Len(outbox[d]) + 1
      /\ \A i \in 1..Len(outbox[d]) : Append(outbox[d], op)[i] = outbox[d][i]
      /\ Append(outbox[d], op)[Len(outbox[d]) + 1] = op
  BY <1>4, <1>6
<1>8. op.state = "unacked"
  BY DEF op
<1>9. QED
  BY <1>3, <1>5, <1>6, <1>7, <1>8

LEMMA WriteInv ==
  ASSUME Inv, NEW d \in Devices, NEW kind \in {"upsert", "delete"}, NEW next \in Rows,
         Write(d, kind, next)
  PROVE  Inv'
<1>0. TypeOK /\ clock \in Nat /\ MaxWrites \in Nat
  BY ConstantsAssumption DEF Inv, TypeOK
<1>1. /\ clock < MaxWrites /\ clock' = clock + 1
      /\ UNCHANGED <<cursor, flight, srv, job, losses, errors, effects>>
  BY DEF Write
<1>2. /\ local' \in [Devices -> Rows]
      /\ outbox' \in [Devices -> Seq(Ops)]
      /\ Len(outbox'[d]) = Len(outbox[d]) + 1
      /\ \A i \in 1..Len(outbox[d]) : outbox'[d][i] = outbox[d][i]
      /\ outbox'[d][Len(outbox[d]) + 1].state = "unacked"
      /\ \A e \in Devices \ {d} : outbox'[e] = outbox[e]
  BY <1>0, WriteOutbox
<1>3. \A e \in Devices : Len(outbox[e]) \in Nat /\ 1..Len(outbox[e]) \subseteq 1..Len(outbox'[e])
  <2>1. \A e \in Devices : outbox[e] \in Seq(Ops)
    BY <1>0 DEF TypeOK
  <2>2. \A e \in Devices : Len(outbox[e]) \in Nat
    BY <2>1
  <2>3. QED
    BY <1>2, <2>2
<1>4. TypeOK'
  BY <1>0, <1>1, <1>2 DEF TypeOK
<1>5. BoundInv'
  BY <1>0, <1>1, <1>2, <1>3 DEF Inv, BoundInv
<1>6. SentInv'
  BY <1>1, <1>3 DEF Inv, SentInv
<1>7. LeaseInv' /\ JobInv' /\ AnswerInv' /\ EffectInv' /\ ExactlyOnce'
  BY <1>1 DEF Inv, LeaseInv, JobInv, AnswerInv, EffectInv, ExactlyOnce
<1>8. LedgerInv'
  <2>1. \A o \in srv.ledger : o[1] \in Devices
    BY <1>0 DEF TypeOK, Servers, OpIds
  <2>2. QED
    BY <1>1, <1>3, <2>1 DEF Inv, LedgerInv
<1>9. AckedIsDurable'
  <2> SUFFICES ASSUME NEW e \in Devices, NEW i \in 1..Len(outbox'[e]),
                      outbox'[e][i].state = "acked"
               PROVE  <<e, i>> \in srv.ledger
    BY <1>1 DEF AckedIsDurable
  <2>1. i \in 1..Len(outbox[e]) /\ outbox[e][i].state = "acked"
    BY <1>2, <1>3
  <2>2. QED
    BY <2>1 DEF Inv, AckedIsDurable
<1>10. QED
  BY <1>4, <1>5, <1>6, <1>7, <1>8, <1>9 DEF Inv
-----------------------------------------------------------------------------
(* The requests and the server's transaction. *)

\* A round trip that is over holds nothing.
LEMMA IdleInv ==
  ASSUME Inv, NEW d \in Devices, flight' = [flight EXCEPT ![d] = Idle],
         job' = job \/ (flight[d].phase = "serving" /\ job' = NoJob),
         UNCHANGED <<deviceVars, srv, clock, errors, effects>>, losses' \in Nat
  PROVE  Inv'
<1>1. /\ flight'[d] = Idle /\ Idle.phase = "idle" /\ Idle.sent = {} /\ Idle.acks = {}
      /\ \A e \in Devices \ {d} : flight'[e] = flight[e]
      /\ flight' \in [Devices -> Flights]
  BY IdleType DEF Inv, TypeOK, Idle
<1>2. TypeOK'
  BY <1>1, NoJobType DEF Inv, TypeOK, deviceVars
<1>3. BoundInv' /\ LedgerInv' /\ EffectInv' /\ ExactlyOnce' /\ AckedIsDurable'
  BY DEF Inv, BoundInv, LedgerInv, EffectInv, ExactlyOnce, AckedIsDurable, deviceVars
<1>4. SentInv' /\ AnswerInv' /\ LeaseInv'
  BY <1>1 DEF Inv, SentInv, AnswerInv, LeaseInv, deviceVars
<1>5. JobInv'
  <2> SUFFICES ASSUME NEW e \in Devices, flight'[e].phase = "serving"
               PROVE  JobInv!(e)!2'
    BY DEF JobInv
  <2>1. e # d /\ flight'[e] = flight[e]
    BY <1>1
  <2>2. job' = job
    BY <2>1 DEF Inv, LeaseInv
  <2>3. QED
    BY <2>1, <2>2 DEF Inv, JobInv
<1>6. QED
  BY <1>2, <1>3, <1>4, <1>5 DEF Inv

LEMMA SentFlight ==
  ASSUME NEW b \in SUBSET (Nat \ {0}), NEW f,
         f = [Idle EXCEPT !.phase = "sent", !.sent = b]
  PROVE  f \in Flights /\ f.phase = "sent" /\ f.sent = b /\ f.acks = {}
<1>1. /\ Idle \in [phase: {"idle", "sent", "serving", "answered", "refetch"},
                   sent: SUBSET (Nat \ {0}), acks: SUBSET Acks, page: Rows, seq: Nat]
      /\ Idle.acks = {}
  BY IdleType DEF Flights, Idle
<1>2. QED
  BY <1>1 DEF Flights

LEMMA SendInv ==
  ASSUME Inv, NEW d \in Devices, Send(d)
  PROVE  Inv'
<1> DEFINE f == [Idle EXCEPT !.phase = "sent", !.sent = Batch(outbox[d])]
<1>1. Batch(outbox[d]) \subseteq 1..Len(outbox[d])
  BY DEF Batch, Unacked
<1>3. Batch(outbox[d]) \in SUBSET (Nat \ {0})
  <2>1. outbox[d] \in Seq(Ops)
    BY DEF Inv, TypeOK
  <2>2. Len(outbox[d]) \in Nat
    BY <2>1
  <2>3. 1..Len(outbox[d]) \subseteq Nat \ {0}
    BY <2>2
  <2>4. QED
    BY <1>1, <2>3
<1>4. f \in Flights /\ f.phase = "sent" /\ f.sent = Batch(outbox[d]) /\ f.acks = {}
  BY <1>3, SentFlight
<1>5. /\ flight'[d] = f /\ \A e \in Devices \ {d} : flight'[e] = flight[e]
      /\ flight' \in [Devices -> Flights]
      /\ UNCHANGED <<local, outbox, cursor, srv, job, clock, losses, errors, effects>>
  BY <1>4 DEF Send, Inv, TypeOK, deviceVars
<1> HIDE DEF f
<1>6. TypeOK'
  BY <1>5 DEF Inv, TypeOK
<1>7. BoundInv' /\ LedgerInv' /\ EffectInv' /\ ExactlyOnce' /\ AckedIsDurable'
  BY <1>5 DEF Inv, BoundInv, LedgerInv, EffectInv, ExactlyOnce, AckedIsDurable
<1>8. SentInv' /\ AnswerInv' /\ LeaseInv'
  BY <1>1, <1>4, <1>5 DEF Inv, SentInv, AnswerInv, LeaseInv
<1>9. JobInv'
  <2> SUFFICES ASSUME NEW e \in Devices, flight'[e].phase = "serving"
               PROVE  JobInv!(e)!2'
    BY DEF JobInv
  <2>1. e # d /\ flight'[e] = flight[e]
    BY <1>4, <1>5
  <2>2. QED
    BY <1>5, <2>1 DEF Inv, JobInv
<1>10. QED
  BY <1>6, <1>7, <1>8, <1>9 DEF Inv

\* The lease is free, so the new transaction is the only one.
LEMMA ServeInv ==
  ASSUME Inv, NEW d \in Devices, Serve(d)
  PROVE  Inv'
<1>1. /\ flight' = [flight EXCEPT ![d].phase = "serving"] /\ flight[d].phase = "sent"
      /\ job' = [NoJob EXCEPT !.row = srv.row, !.seq = srv.seq, !.ledger = srv.ledger,
                              !.todo = flight[d].sent]
      /\ UNCHANGED <<local, outbox, cursor, srv, clock, losses, errors, effects>>
      /\ \A e \in Devices : flight[e].phase # "serving"
  BY DEF Serve, LeaseFree, deviceVars
<1>2. /\ job'.row = srv.row /\ job'.seq = srv.seq /\ job'.ledger = srv.ledger
      /\ job'.todo = flight[d].sent /\ job'.acks = {} /\ job'.wrote = {}
      /\ job' = [row |-> srv.row, seq |-> srv.seq, ledger |-> srv.ledger,
                 todo |-> flight[d].sent, acks |-> {}, wrote |-> {}]
  BY <1>1 DEF NoJob
<1>3. job' \in Jobs
  BY <1>2 DEF Inv, TypeOK, Servers, Flights, Jobs
<1>4. /\ flight' \in [Devices -> Flights]
      /\ flight'[d].phase = "serving" /\ flight'[d].sent = flight[d].sent
      /\ flight'[d].acks = flight[d].acks
      /\ \A e \in Devices \ {d} : flight'[e] = flight[e]
  BY <1>1 DEF Inv, TypeOK, Flights
<1>5. TypeOK'
  BY <1>1, <1>3, <1>4 DEF Inv, TypeOK
<1>6. BoundInv' /\ LedgerInv' /\ EffectInv' /\ ExactlyOnce' /\ AckedIsDurable'
  BY <1>1 DEF Inv, BoundInv, LedgerInv, EffectInv, ExactlyOnce, AckedIsDurable
<1>7. SentInv'
  BY <1>1, <1>4 DEF Inv, SentInv
<1>8. AnswerInv'
  BY <1>1, <1>4 DEF Inv, AnswerInv
<1>9. LeaseInv'
  BY <1>1, <1>4 DEF LeaseInv
<1>10. JobInv'
  BY <1>1, <1>2, <1>4 DEF JobInv
<1>11. QED
  BY <1>5, <1>6, <1>7, <1>8, <1>9, <1>10 DEF Inv

\* An op in a batch is an op of the outbox, and its id is an op id.
LEMMA SentOps ==
  ASSUME Inv, NEW d \in Devices, NEW i \in flight[d].sent
  PROVE  outbox[d][i] \in Ops /\ <<d, i>> \in OpIds
<1>1. outbox[d] \in Seq(Ops) /\ i \in 1..Len(outbox[d])
  BY DEF Inv, TypeOK, SentInv
<1>2. outbox[d][i] \in Ops /\ Len(outbox[d]) \in Nat
  BY <1>1
<1>3. Len(outbox[d]) <= MaxWrites
  BY <1>2, ConstantsAssumption DEF Inv, BoundInv, TypeOK
<1>4. QED
  BY <1>1, <1>2, <1>3, ConstantsAssumption DEF OpIds

\* A replay step only changes the transaction, so the rest of Inv carries over.
LEMMA JobStepInv ==
  ASSUME Inv, NEW d \in Devices, flight[d].phase = "serving", job' \in Jobs, errors' \in Nat,
         UNCHANGED <<deviceVars, flight, srv, clock, losses, effects>>,
         job'.todo \subseteq job.todo,
         srv.ledger \subseteq job'.ledger,
         \A w \in job'.wrote : w[1] \in job'.ledger \ srv.ledger,
         \A v, w \in job'.wrote : v[1] = w[1] => v = w,
         \A o \in job'.ledger \ srv.ledger : o[1] = d /\ o[2] \in flight[d].sent,
         \A a \in job'.acks : a.op \in flight[d].sent,
         \A a \in job'.acks : a.outcome \in Settled => <<d, a.op>> \in job'.ledger
  PROVE  Inv'
<1>1. TypeOK'
  BY DEF Inv, TypeOK, deviceVars
<1>2. BoundInv' /\ LedgerInv' /\ EffectInv' /\ ExactlyOnce' /\ AckedIsDurable'
  BY DEF Inv, BoundInv, LedgerInv, EffectInv, ExactlyOnce, AckedIsDurable, deviceVars
<1>3. SentInv' /\ AnswerInv' /\ LeaseInv'
  BY DEF Inv, SentInv, AnswerInv, LeaseInv, deviceVars
<1>4. JobInv'
  <2> SUFFICES ASSUME NEW e \in Devices, flight'[e].phase = "serving"
               PROVE  JobInv!(e)!2'
    BY DEF JobInv
  <2>1. e = d
    BY DEF Inv, LeaseInv
  <2>2. job.todo \subseteq flight[d].sent
    BY DEF Inv, JobInv
  <2>3. QED
    BY <2>1, <2>2
<1>5. QED
  BY <1>1, <1>2, <1>3, <1>4 DEF Inv

LEMMA ReplayInv ==
  ASSUME Inv, NEW d \in Devices, Replay(d)
  PROVE  Inv'
<1>1. PICK i \in job.todo : Replay(d)!(i)
  BY DEF Replay
<1> DEFINE op == outbox[d][i]
           result == IF <<d, i>> \in job.ledger THEN "duplicate" ELSE Outcome(job.row, op)
           written == IF result = "applied" THEN NewRow(job.row, op) ELSE job.row
           seq == IF result = "applied" THEN job.seq + 1 ELSE job.seq
           acks == job.acks \cup {[op |-> i, outcome |-> result, row |-> written]}
           ledger == IF result = "conflict" THEN job.ledger ELSE job.ledger \cup {<<d, i>>}
           wrote == IF result = "applied" THEN job.wrote \cup {<<<<d, i>>, seq>>} ELSE job.wrote
<1>2. /\ flight[d].phase = "serving" /\ errors' = errors
      /\ UNCHANGED <<deviceVars, flight, srv, clock, losses, effects>>
      /\ job' = [row |-> written, seq |-> seq, todo |-> job.todo \ {i},
                 acks |-> acks, ledger |-> ledger, wrote |-> wrote]
  BY <1>1 DEF NextOp, Answer, Known
<1>3. /\ job.row \in Rows /\ job.seq \in Nat /\ job.ledger \subseteq OpIds
      /\ job.todo \in SUBSET (Nat \ {0}) /\ job.acks \subseteq Acks
      /\ job.wrote \subseteq (OpIds \X Nat) /\ errors \in Nat /\ clock \in Nat
  BY DEF Inv, TypeOK, Jobs
<1>4. /\ job.todo \subseteq flight[d].sent
      /\ srv.ledger \subseteq job.ledger
      /\ \A w \in job.wrote : w[1] \in job.ledger \ srv.ledger
      /\ \A v, w \in job.wrote : v[1] = w[1] => v = w
      /\ \A o \in job.ledger \ srv.ledger : o[1] = d /\ o[2] \in flight[d].sent
      /\ \A a \in job.acks : a.op \in flight[d].sent
      /\ \A a \in job.acks : a.outcome \in Settled => <<d, a.op>> \in job.ledger
  BY <1>2 DEF Inv, JobInv
<1>5. op \in Ops /\ <<d, i>> \in OpIds /\ i \in flight[d].sent /\ i \in Nat \ {0}
  BY <1>3, <1>4, SentOps
<1>6. result \in Outcomes /\ (result = "applied" => <<d, i>> \notin job.ledger)
  BY DEF Outcome, Outcomes, Known
<1>7. NewRow(job.row, op) \in Rows
  BY <1>3, <1>5, NewRowType
<1>8. result \in Settled => <<d, i>> \in ledger
  BY DEF Settled
<1> HIDE DEF op, result
<1>9. written \in Rows /\ seq \in Nat
  BY <1>3, <1>7
<1>10. acks \subseteq Acks /\ ledger \subseteq OpIds /\ wrote \subseteq (OpIds \X Nat)
  BY <1>3, <1>5, <1>6, <1>9 DEF Acks
<1>11. /\ job.ledger \subseteq ledger
       /\ \A o \in ledger \ job.ledger : o = <<d, i>>
       /\ \A a \in acks \ job.acks : a.op = i /\ a.outcome = result
       /\ \A w \in wrote \ job.wrote : w = <<<<d, i>>, seq>> /\ result = "applied"
       /\ result = "applied" => <<d, i>> \in ledger
  OBVIOUS
<1> HIDE DEF written, seq, acks, ledger, wrote
<1>12. /\ job' \in Jobs /\ job'.todo = job.todo \ {i} /\ job'.acks = acks
       /\ job'.ledger = ledger /\ job'.wrote = wrote
  BY <1>2, <1>3, <1>9, <1>10 DEF Jobs
<1>13. \A w \in wrote : w[1] \in ledger \ srv.ledger
  BY <1>4, <1>6, <1>11
<1>14. \A v, w \in wrote : v[1] = w[1] => v = w
  BY <1>4, <1>6, <1>11
<1>15. \A o \in ledger \ srv.ledger : o[1] = d /\ o[2] \in flight[d].sent
  BY <1>4, <1>5, <1>11
<1>16. \A a \in acks : a.op \in flight[d].sent /\ (a.outcome \in Settled => <<d, a.op>> \in ledger)
  BY <1>4, <1>5, <1>8, <1>11
<1>17. QED
  BY <1>2, <1>3, <1>4, <1>11, <1>12, <1>13, <1>14, <1>15, <1>16, JobStepInv

LEMMA ReplayRaisesInv ==
  ASSUME Inv, NEW d \in Devices, ReplayRaises(d)
  PROVE  Inv'
<1>1. PICK i \in job.todo : ReplayRaises(d)!(i)
  BY DEF ReplayRaises
<1> DEFINE ack == [op |-> i, outcome |-> "error", row |-> NoRow]
<1>2. /\ flight[d].phase = "serving" /\ errors' = errors + 1
      /\ UNCHANGED <<deviceVars, flight, srv, clock, losses, effects>>
      /\ job' = [job EXCEPT !.todo = @ \ {i}, !.acks = job.acks \cup {ack}]
  BY <1>1 DEF NextOp, Answer, Known
<1>3. i \in Nat \ {0} /\ errors' \in Nat
  BY <1>2 DEF Inv, TypeOK, Jobs
<1>4. ack \in Acks /\ ack.outcome \notin Settled /\ ack.op = i
  BY <1>3, NoRowType DEF Acks, Outcomes, Settled
<1>5. /\ job' \in Jobs /\ job'.todo = job.todo \ {i} /\ job'.acks = job.acks \cup {ack}
      /\ job'.ledger = job.ledger /\ job'.wrote = job.wrote
  <2>1. job \in Jobs
    BY DEF Inv, TypeOK
  <2> HIDE DEF ack
  <2>2. QED
    BY <1>2, <1>4, <2>1 DEF Jobs
<1>6. /\ job.todo \subseteq flight[d].sent
      /\ srv.ledger \subseteq job.ledger
      /\ \A w \in job.wrote : w[1] \in job.ledger \ srv.ledger
      /\ \A v, w \in job.wrote : v[1] = w[1] => v = w
      /\ \A o \in job.ledger \ srv.ledger : o[1] = d /\ o[2] \in flight[d].sent
      /\ \A a \in job.acks : a.op \in flight[d].sent
      /\ \A a \in job.acks : a.outcome \in Settled => <<d, a.op>> \in job.ledger
  BY <1>2 DEF Inv, JobInv
<1> HIDE DEF ack
<1>7. QED
  BY <1>2, <1>3, <1>4, <1>5, <1>6, JobStepInv

\* The commit publishes the ops of one device, none of them published before.
LEMMA CommitInv ==
  ASSUME Inv, NEW d \in Devices, Commit(d)
  PROVE  Inv'
<1> DEFINE page == IF job.seq > cursor[d] THEN job.row ELSE NoRow
           f == [flight[d] EXCEPT !.phase = "answered", !.acks = job.acks,
                                  !.seq = job.seq, !.page = page]
<1>1. /\ flight[d].phase = "serving"
      /\ srv' = [row |-> job.row, seq |-> job.seq, ledger |-> job.ledger]
      /\ effects' = effects \cup job.wrote
      /\ flight' = [flight EXCEPT ![d] = f]
      /\ job' = NoJob
      /\ UNCHANGED <<local, outbox, cursor, clock, losses, errors>>
  BY DEF Commit, deviceVars
<1>2. /\ job.row \in Rows /\ job.seq \in Nat /\ job.ledger \subseteq OpIds
      /\ job.acks \in SUBSET Acks /\ job.wrote \subseteq (OpIds \X Nat)
      /\ flight[d] \in Flights
  BY DEF Inv, TypeOK, Jobs
<1>3. /\ srv.ledger \subseteq job.ledger
      /\ \A w \in job.wrote : w[1] \in job.ledger \ srv.ledger
      /\ \A v, w \in job.wrote : v[1] = w[1] => v = w
      /\ \A o \in job.ledger \ srv.ledger : o[1] = d /\ o[2] \in flight[d].sent
      /\ \A a \in job.acks : a.op \in flight[d].sent
      /\ \A a \in job.acks : a.outcome \in Settled => <<d, a.op>> \in job.ledger
  BY <1>1 DEF Inv, JobInv
<1>4. page \in Rows
  BY <1>2, NoRowType
<1>5. f \in Flights /\ f.phase = "answered" /\ f.acks = job.acks /\ f.sent = flight[d].sent
  <2> HIDE DEF page
  <2>1. QED
    BY <1>2, <1>4 DEF Flights
<1> HIDE DEF f, page
<1>6. /\ flight'[d] = f /\ \A e \in Devices \ {d} : flight'[e] = flight[e]
      /\ flight' \in [Devices -> Flights]
  BY <1>1, <1>5 DEF Inv, TypeOK
<1>7. srv'.ledger = job.ledger /\ srv' \in Servers
  BY <1>1, <1>2 DEF Servers
<1>8. TypeOK'
  BY <1>1, <1>2, <1>6, <1>7, NoJobType DEF Inv, TypeOK
<1>9. BoundInv'
  BY <1>1 DEF Inv, BoundInv
<1>10. SentInv'
  BY <1>1, <1>3, <1>5, <1>6 DEF Inv, SentInv
<1>11. LeaseInv'
  BY <1>5, <1>6 DEF Inv, LeaseInv
<1>12. JobInv'
  BY <1>1, <1>5, <1>6 DEF Inv, LeaseInv, JobInv
<1>13. AnswerInv'
  BY <1>3, <1>5, <1>6, <1>7 DEF Inv, AnswerInv
<1>14. EffectInv'
  BY <1>1, <1>3, <1>7 DEF Inv, EffectInv
<1>15. LedgerInv'
  <2> SUFFICES ASSUME NEW o \in job.ledger PROVE o[2] \in 1..Len(outbox[o[1]])
    BY <1>1, <1>7 DEF LedgerInv
  <2>1. CASE o \in srv.ledger
    BY <2>1 DEF Inv, LedgerInv
  <2>2. CASE o \notin srv.ledger
    BY <1>3, <2>2 DEF Inv, SentInv
  <2>3. QED
    BY <2>1, <2>2
<1>16. ExactlyOnce'
  <2>1. \A e \in effects, w \in job.wrote : e[1] # w[1]
    BY <1>3 DEF Inv, EffectInv
  <2>2. QED
    BY <1>1, <1>3, <2>1 DEF Inv, ExactlyOnce
<1>17. AckedIsDurable'
  BY <1>1, <1>3, <1>7 DEF Inv, AckedIsDurable
<1>18. QED
  BY <1>8, <1>9, <1>10, <1>11, <1>12, <1>13, <1>14, <1>15, <1>16, <1>17 DEF Inv
-----------------------------------------------------------------------------
(* The device's side. *)

\* Only a settling answer marks an op acked, and no op becomes unacked again.
LEMMA BoxAfterStates ==
  ASSUME TypeOK, NEW d \in Devices, NEW acks \in SUBSET Acks, NEW i \in 1..Len(outbox[d])
  PROVE  LET old == outbox[d][i].state  new == BoxAfter(d, acks)[i].state
         IN /\ old # "unacked" => new = old
            /\ new = "acked" => old = "acked" \/ Answered(acks, i, Settled)
<1>1. outbox[d] \in Seq(Ops)
  BY DEF TypeOK
<1>2. outbox[d][i] \in Ops
  BY <1>1
<1>3. BoxAfter(d, acks)[i] = AckedOp(d, acks, i)
  BY DEF BoxAfter
<1> DEFINE op == outbox[d][i]
<1>4. /\ \A x : [op EXCEPT !.state = x].state = x
      /\ \A x, n : [op EXCEPT !.state = x, !.attempts = n].state = x
      /\ \A n : [op EXCEPT !.attempts = n].state = op.state
      /\ \A k, r, b : [op EXCEPT !.kind = k, !.row = r, !.base = b].state = op.state
  BY <1>2 DEF Ops
<1>5. CASE op.state # "unacked"
  BY <1>3, <1>5 DEF AckedOp, Handled
<1>6. CASE op.state = "unacked"
  BY <1>3, <1>4, <1>6 DEF AckedOp, Handled
<1>7. QED
  BY <1>5, <1>6

\* A step of the device that ends its round trip and rewrites its outbox in place.
LEMMA DeviceInv ==
  ASSUME Inv, NEW d \in Devices, NEW box \in Seq(Ops), NEW f \in Flights,
         Len(box) = Len(outbox[d]),
         \A i \in 1..Len(box) : box[i].state = "acked" =>
            outbox[d][i].state = "acked" \/ <<d, i>> \in srv.ledger,
         outbox' = [outbox EXCEPT ![d] = box],
         f.phase # "serving", f.sent = {}, f.acks = {},
         flight' = [flight EXCEPT ![d] = f], flight[d].phase # "serving",
         local' \in [Devices -> Rows], cursor' \in [Devices -> Nat], losses' \in Nat,
         UNCHANGED <<srv, job, clock, errors, effects>>
  PROVE  Inv'
<1>1. /\ flight'[d] = f /\ \A e \in Devices \ {d} : flight'[e] = flight[e]
      /\ flight' \in [Devices -> Flights]
  BY DEF Inv, TypeOK
<1>2. /\ outbox'[d] = box /\ \A e \in Devices \ {d} : outbox'[e] = outbox[e]
      /\ \A e \in Devices : Len(outbox'[e]) = Len(outbox[e])
      /\ outbox' \in [Devices -> Seq(Ops)]
  BY DEF Inv, TypeOK
<1>3. TypeOK'
  BY <1>1, <1>2 DEF Inv, TypeOK
<1>4. BoundInv' /\ EffectInv' /\ ExactlyOnce'
  BY <1>2 DEF Inv, BoundInv, EffectInv, ExactlyOnce
<1>5. SentInv' /\ AnswerInv' /\ LeaseInv'
  BY <1>1, <1>2 DEF Inv, SentInv, AnswerInv, LeaseInv
<1>6. JobInv'
  BY <1>1 DEF Inv, JobInv
<1>7. LedgerInv'
  <2>1. \A o \in srv.ledger : o[1] \in Devices
    BY DEF Inv, TypeOK, Servers, OpIds
  <2>2. QED
    BY <1>2, <2>1 DEF Inv, LedgerInv
<1>8. AckedIsDurable'
  <2> SUFFICES ASSUME NEW e \in Devices, NEW i \in 1..Len(outbox'[e]),
                      outbox'[e][i].state = "acked"
               PROVE  <<e, i>> \in srv.ledger
    BY DEF AckedIsDurable
  <2>1. CASE e = d
    BY <1>2, <2>1 DEF Inv, AckedIsDurable
  <2>2. CASE e # d
    BY <1>2, <2>2 DEF Inv, AckedIsDurable
  <2>3. QED
    BY <2>1, <2>2
<1>9. QED
  BY <1>3, <1>4, <1>5, <1>6, <1>7, <1>8 DEF Inv

\* What handling an answer leaves in the outbox and in the row.
LEMMA AnswerHandled ==
  ASSUME Inv, NEW d \in Devices
  PROVE  LET box == BoxAfter(d, flight[d].acks)
         IN /\ box \in Seq(Ops) /\ Len(box) = Len(outbox[d])
            /\ \A i \in 1..Len(box) : box[i].state = "acked" =>
                  outbox[d][i].state = "acked" \/ <<d, i>> \in srv.ledger
            /\ RowAfter(d, flight[d].acks) \in Rows /\ ApplyPage(d) \in Rows
<1>1. TypeOK /\ flight[d].acks \in SUBSET Acks /\ flight[d].page \in Rows
  BY DEF Inv, TypeOK, Flights
<1>2. \A i \in 1..Len(outbox[d]) : Answered(flight[d].acks, i, Settled) => <<d, i>> \in srv.ledger
  BY DEF Inv, AnswerInv, Answered
<1>3. RowAfter(d, flight[d].acks) \in Rows /\ ApplyPage(d) \in Rows
  BY <1>1, RowAfterType DEF ApplyPage
<1>4. QED
  BY <1>1, <1>2, <1>3, BoxAfterType, BoxAfterStates

LEMMA EndFlights ==
  /\ Idle \in Flights /\ Idle.phase = "idle" /\ Idle.sent = {} /\ Idle.acks = {}
  /\ [Idle EXCEPT !.phase = "refetch"] \in Flights
  /\ [Idle EXCEPT !.phase = "refetch"].phase = "refetch"
  /\ [Idle EXCEPT !.phase = "refetch"].sent = {}
  /\ [Idle EXCEPT !.phase = "refetch"].acks = {}
<1>1. Idle \in Flights /\ Idle.phase = "idle" /\ Idle.sent = {} /\ Idle.acks = {}
  BY IdleType DEF Idle
<1>2. QED
  BY <1>1 DEF Flights

LEMMA ReceiveInv ==
  ASSUME Inv, NEW d \in Devices, Receive(d)
  PROVE  Inv'
<1> DEFINE box == BoxAfter(d, flight[d].acks)
           f == IF DeadLettered(d) THEN [Idle EXCEPT !.phase = "refetch"] ELSE Idle
<1>1. /\ flight[d].phase = "answered" /\ outbox' = [outbox EXCEPT ![d] = box]
      /\ local' = [local EXCEPT ![d] = ApplyPage(d)]
      /\ cursor' = [cursor EXCEPT ![d] = IF flight[d].seq > @ THEN flight[d].seq ELSE @]
      /\ flight' = [flight EXCEPT ![d] = f]
      /\ UNCHANGED <<srv, job, clock, losses, errors, effects>>
  BY DEF Receive, HandleAcks
<1>2. f \in Flights /\ f.phase # "serving" /\ f.sent = {} /\ f.acks = {}
  BY EndFlights
<1> HIDE DEF f
<1>3. local' \in [Devices -> Rows] /\ cursor' \in [Devices -> Nat] /\ losses' \in Nat
  BY <1>1, AnswerHandled DEF Inv, TypeOK, Flights
<1>4. QED
  BY <1>1, <1>2, <1>3, AnswerHandled, DeviceInv

LEMMA KilledInv ==
  ASSUME Inv, NEW d \in Devices, Killed(d)
  PROVE  Inv'
<1>1. /\ flight[d].phase = "answered"
      /\ outbox' = [outbox EXCEPT ![d] = BoxAfter(d, flight[d].acks)]
      /\ \E row \in {RowAfter(d, flight[d].acks), ApplyPage(d)} :
            local' = [local EXCEPT ![d] = row]
      /\ flight' = [flight EXCEPT ![d] = Idle] /\ losses' = losses + 1
      /\ UNCHANGED <<cursor, srv, job, clock, errors, effects>>
  BY DEF Killed, HandleAcks
<1>2. local' \in [Devices -> Rows] /\ cursor' \in [Devices -> Nat] /\ losses' \in Nat
  BY <1>1, AnswerHandled DEF Inv, TypeOK
<1>3. QED
  BY <1>1, <1>2, AnswerHandled, EndFlights, DeviceInv

LEMMA RefetchInv ==
  ASSUME Inv, NEW d \in Devices, Refetch(d)
  PROVE  Inv'
<1>1. /\ flight[d].phase = "refetch" /\ flight' = [flight EXCEPT ![d] = Idle]
      /\ \E row \in {local[d], srv.row} : local' = [local EXCEPT ![d] = row]
      /\ UNCHANGED <<outbox, cursor, srv, job, clock, losses, errors, effects>>
  BY DEF Refetch, Inv, TypeOK
<1>2. local' \in [Devices -> Rows] /\ cursor' \in [Devices -> Nat] /\ losses' \in Nat
  BY <1>1 DEF Inv, TypeOK, Servers
<1>3. outbox[d] \in Seq(Ops) /\ outbox' = [outbox EXCEPT ![d] = outbox[d]]
  BY <1>1 DEF Inv, TypeOK
<1>4. QED
  BY <1>1, <1>2, <1>3, EndFlights, DeviceInv
-----------------------------------------------------------------------------
LEMMA InitInv == Init => Inv
<1> SUFFICES ASSUME Init PROVE Inv
  OBVIOUS
<1>1. TypeOK
  BY NoRowType, IdleType, NoJobType DEF Init, TypeOK, Servers
<1>2. \A d \in Devices : /\ Len(outbox[d]) = 0 /\ flight[d].phase = "idle"
                         /\ flight[d].sent = {} /\ flight[d].acks = {}
  BY DEF Init, Idle
<1>3. BoundInv
  BY <1>2, ConstantsAssumption DEF Init, BoundInv
<1>4. SentInv /\ LeaseInv /\ JobInv /\ AnswerInv
  BY <1>2 DEF SentInv, LeaseInv, JobInv, AnswerInv
<1>5. EffectInv /\ LedgerInv /\ ExactlyOnce /\ AckedIsDurable
  BY <1>2 DEF Init, EffectInv, LedgerInv, ExactlyOnce, AckedIsDurable
<1>6. QED
  BY <1>1, <1>3, <1>4, <1>5 DEF Inv

LEMMA StutterInv == Inv /\ UNCHANGED vars => Inv'
<1> SUFFICES ASSUME Inv, UNCHANGED vars PROVE Inv'
  OBVIOUS
<1>1. UNCHANGED <<local, outbox, cursor, flight, srv, job, clock, losses, errors, effects>>
  BY DEF vars
<1>2. TypeOK'
  BY <1>1 DEF Inv, TypeOK
<1>3. BoundInv' /\ SentInv' /\ LeaseInv' /\ JobInv' /\ AnswerInv'
  BY <1>1 DEF Inv, BoundInv, SentInv, LeaseInv, JobInv, AnswerInv
<1>4. EffectInv' /\ LedgerInv' /\ ExactlyOnce' /\ AckedIsDurable'
  BY <1>1 DEF Inv, EffectInv, LedgerInv, ExactlyOnce, AckedIsDurable
<1>5. QED
  BY <1>2, <1>3, <1>4 DEF Inv

LEMMA NextInv == Inv /\ Next => Inv'
<1> SUFFICES ASSUME Inv, Next PROVE Inv'
  OBVIOUS
<1>1. PICK d \in Devices : Next!(d)
  BY DEF Next
<1>2. TypeOK /\ losses \in Nat /\ losses + 1 \in Nat
  BY DEF Inv, TypeOK
<1>3. CASE UserWrite(d)
  BY <1>2, <1>3, UserWriteIsWrite, WriteInv
<1>4. CASE Send(d)
  BY <1>4, SendInv
<1>5. CASE Serve(d)
  BY <1>5, ServeInv
<1>6. CASE Busy(d)
  BY <1>2, <1>6, IdleInv DEF Busy
<1>7. CASE Replay(d)
  BY <1>7, ReplayInv
<1>8. CASE ReplayRaises(d)
  BY <1>8, ReplayRaisesInv
<1>9. CASE Commit(d)
  BY <1>9, CommitInv
<1>10. CASE Lose(d)
  BY <1>2, <1>10, IdleInv DEF Lose
<1>11. CASE Receive(d)
  BY <1>11, ReceiveInv
<1>12. CASE Killed(d)
  BY <1>12, KilledInv
<1>13. CASE Refetch(d)
  BY <1>13, RefetchInv
<1>14. QED
  BY <1>1, <1>3, <1>4, <1>5, <1>6, <1>7, <1>8, <1>9, <1>10, <1>11, <1>12, <1>13

\* The inductive invariant: the ledger, the open transaction, the answers under
\* way and the acked ops agree in every reachable state.
THEOREM Invariance == Spec => []Inv
<1>1. Inv /\ [Next]_vars => Inv'
  BY NextInv, StutterInv
<1>2. QED
  BY InitInv, <1>1, PTL DEF Spec

\* Every variable keeps its type.
THEOREM TypeCorrect == Spec => []TypeOK
<1>1. Inv => TypeOK
  BY DEF Inv
<1>2. QED
  BY <1>1, Invariance, PTL

\* A duplicate replay is a no-op: no op changes the server's row twice, for any
\* number of devices, losses, retries and kills.
THEOREM AtMostOnce == Spec => []ExactlyOnce
<1>1. Inv => ExactlyOnce
  BY DEF Inv
<1>2. QED
  BY <1>1, Invariance, PTL

\* No device ever forgets an op the server does not have.
THEOREM AckDurability == Spec => []AckedIsDurable
<1>1. Inv => AckedIsDurable
  BY DEF Inv
<1>2. QED
  BY <1>1, Invariance, PTL
-----------------------------------------------------------------------------
(***************************************************************************)
(* The cursor.  A device may advance past a row it did not take only       *)
(* because an op it still has to push will bring the row back.  The danger *)
(* is an op the server took while its answer was lost: it is unacked here, *)
(* settles as a duplicate and writes nothing, so the row must reach the    *)
(* device in the very answer that settles it.  That is SeenInv: while a    *)
(* queue holds such an op, the device is behind the server.                *)
(***************************************************************************)

\* The ops of d the server has taken and d does not know it has.
Taken(d) == {i \in Unacked(outbox[d]) : <<d, i>> \in srv.ledger}

\* A server_seq is handed out with a row; no op writes "no such row".
RowInv ==
    /\ srv.seq > 0 => Exists(srv.row)
    /\ \A d \in Devices : cursor[d] <= srv.seq
    /\ \A d \in Devices : \A i \in 1..Len(outbox[d]) : Exists(outbox[d][i].row)

\* An op that changed the ledger changed the row, unless there is none.
OpenInv == \A d \in Devices : flight[d].phase = "serving" =>
    /\ job.seq >= srv.seq
    /\ job.seq = srv.seq => job.row = srv.row
    /\ job.seq > 0 => Exists(job.row)
    /\ Exists(job.row) /\ job.ledger # srv.ledger => job.seq > srv.seq
    /\ \A i \in flight[d].sent \ job.todo : \E a \in job.acks : a.op = i
    /\ \A a \in job.acks : a.op \notin job.todo
    /\ \A a \in job.acks : <<d, a.op>> \in job.ledger => a.outcome \in Settled

\* An answer acks its whole batch and carries the row if that is news.
PageInv == \A d \in Devices : flight[d].phase = "answered" =>
    /\ flight[d].seq <= srv.seq
    /\ flight[d].seq > cursor[d] <=> Exists(flight[d].page)
    /\ Exists(flight[d].page) /\ flight[d].seq = srv.seq => flight[d].page = srv.row
    /\ \A i \in flight[d].sent : \E a \in flight[d].acks : a.op = i
    /\ \A a \in flight[d].acks : <<d, a.op>> \in srv.ledger => a.outcome \in Settled

\* What the server took without the device knowing is in the batch it sends next,
\* and in the batch it is waiting for.
BatchInv == \A d \in Devices :
    /\ Taken(d) \subseteq Batch(outbox[d])
    /\ flight[d].phase \in {"sent", "serving", "answered"} =>
          /\ flight[d].sent \subseteq Batch(outbox[d])
          /\ Taken(d) \subseteq flight[d].sent

SeenInv == \A d \in Devices :
    Taken(d) # {} /\ Exists(srv.row) => cursor[d] < srv.seq

CInv == /\ Inv /\ RowInv /\ OpenInv /\ PageInv /\ BatchInv /\ SeenInv /\ CursorSound

LEMMA Boxes ==
  ASSUME TypeOK, NEW d \in Devices
  PROVE  /\ outbox[d] \in Seq(Ops) /\ Len(outbox[d]) \in Nat
         /\ \A i \in 1..Len(outbox[d]) : outbox[d][i] \in Ops
<1>1. outbox[d] \in Seq(Ops)
  BY DEF TypeOK
<1>2. QED
  BY <1>1

\* An op stays in the batch as long as no older op becomes unacked before it.
LEMMA BatchStays ==
  ASSUME NEW box, NEW box2, Len(box) \in Nat, NEW i \in Batch(box), i \in Unacked(box2),
         \A j \in Unacked(box2) : j < i => j \in Unacked(box)
  PROVE  i \in Batch(box2)
<1> DEFINE S == {j \in Unacked(box) : j < i}
           T == {j \in Unacked(box2) : j < i}
<1>1. S \subseteq 1..Len(box) /\ T \subseteq S
  BY DEF Unacked
<1>2. IsFiniteSet(1..Len(box))
  BY FS_Interval
<1>3. IsFiniteSet(S) /\ IsFiniteSet(T) /\ Cardinality(T) <= Cardinality(S)
  BY <1>1, <1>2, FS_Subset
<1>4. Cardinality(S) \in Nat /\ Cardinality(T) \in Nat /\ MaxBatch \in Nat
  BY <1>3, FS_CardinalityType, ConstantsAssumption
<1>5. Cardinality(S) < MaxBatch
  BY DEF Batch
<1> HIDE DEF S, T
<1>6. Cardinality(T) < MaxBatch
  BY <1>3, <1>4, <1>5
<1>7. QED
  BY <1>6 DEF Batch, T

\* The row of an op, and what an op makes of the row it finds.
LEMMA NewRowExists ==
  ASSUME clock \in Nat, NEW cur \in Rows, NEW op \in Ops, Exists(op.row)
  PROVE  Exists(NewRow(cur, op))
<1>1. op.row \in Rows /\ op.row.at \in Nat /\ cur.version \in Nat /\ cur.version + 1 > 0
      /\ cur.version + 1 \in Nat /\ 2 * clock + 1 \in Nat
  BY DEF Ops, Rows
<1>2. \A row \in Rows : Exists(row) => Exists(Touched(cur, row))
  <2>1. \A row \in Rows, n \in Nat : [row EXCEPT !.at = n].version = row.version
    BY DEF Rows
  <2>2. QED
    BY <1>1, <2>1 DEF Touched, Exists
<1>3. /\ [cur EXCEPT !.deleted = TRUE, !.at = op.row.at, !.version = cur.version + 1] \in Rows
      /\ [cur EXCEPT !.deleted = TRUE, !.at = op.row.at, !.version = cur.version + 1].version
           = cur.version + 1
  BY <1>1 DEF Rows
<1>4. /\ [op.row EXCEPT !.version = cur.version + 1] \in Rows
      /\ [op.row EXCEPT !.version = cur.version + 1].version = cur.version + 1
  BY <1>1 DEF Rows
<1>5. QED
  BY <1>1, <1>2, <1>3, <1>4 DEF NewRow, Exists

LEMMA InitCInv == Init => CInv
<1> SUFFICES ASSUME Init PROVE CInv
  OBVIOUS
<1>1. \A d \in Devices : /\ outbox[d] = <<>> /\ Len(outbox[d]) = 0
                         /\ cursor[d] = 0 /\ flight[d].phase = "idle"
  BY DEF Init, Idle
<1>2. srv.seq = 0 /\ ~Exists(srv.row) /\ srv.ledger = {}
  BY DEF Init, NoRow, Exists
<1>3. \A d \in Devices : Taken(d) = {}
  BY <1>2 DEF Taken
<1>4. RowInv /\ OpenInv /\ PageInv /\ BatchInv /\ SeenInv /\ CursorSound
  BY <1>1, <1>2, <1>3 DEF RowInv, OpenInv, PageInv, BatchInv, SeenInv, CursorSound
<1>5. QED
  BY <1>4, InitInv DEF CInv

LEMMA WriteCursor ==
  ASSUME CInv, Inv', NEW d \in Devices, NEW kind \in {"upsert", "delete"}, NEW next \in Rows,
         Write(d, kind, next)
  PROVE  CInv'
<1> DEFINE n == Len(outbox[d]) + 1
<1>0. TypeOK /\ TypeOK' /\ LedgerInv
  BY DEF CInv, Inv
<1>1. UNCHANGED <<cursor, flight, srv, job>>
  BY DEF Write
<1>2. /\ Len(outbox'[d]) = n
      /\ \A i \in 1..Len(outbox[d]) : outbox'[d][i] = outbox[d][i]
      /\ outbox'[d][n].state = "unacked"
      /\ \A e \in Devices \ {d} : outbox'[e] = outbox[e] /\ local'[e] = local[e]
  BY <1>0, WriteOutbox DEF Write, TypeOK
<1>3. Len(outbox[d]) \in Nat /\ n \in 1..n
      /\ \A i \in 1..n : i \in 1..Len(outbox[d]) \/ i = n
  BY <1>0, Boxes
<1>4. Exists(outbox'[d][n].row)
  <2> DEFINE row == [next EXCEPT !.at = 2 * (clock + 1), !.version = local[d].version + 1]
             op == [kind |-> kind, base |-> local[d].version, row |-> row,
                    attempts |-> 0, state |-> "unacked"]
  <2>1. row.version = local[d].version + 1 /\ local[d].version \in Nat
    BY <1>0 DEF TypeOK, Rows
  <2>2. op.row = row
    OBVIOUS
  <2>3. outbox' = [outbox EXCEPT ![d] = Append(@, op)]
    BY DEF Write
  <2> HIDE DEF row, op
  <2>4. outbox[d] \in Seq(Ops) /\ outbox'[d] = Append(outbox[d], op)
    BY <1>0, <2>3, Boxes DEF TypeOK
  <2>5. outbox'[d][n] = op
    BY <2>4
  <2>6. QED
    BY <2>1, <2>2, <2>5 DEF Exists
<1> HIDE DEF n
<1>5. Unacked(outbox'[d]) = Unacked(outbox[d]) \cup {n} /\ n \notin Unacked(outbox[d])
  BY <1>2, <1>3 DEF Unacked, n
<1>6. Taken(d)' = Taken(d) /\ \A e \in Devices : Taken(e)' = Taken(e)
  <2>1. <<d, n>> \notin srv.ledger
    BY <1>0, <1>3 DEF LedgerInv, n
  <2>2. Taken(d)' = Taken(d)
    BY <1>1, <1>5, <2>1 DEF Taken
  <2>3. QED
    BY <1>1, <1>2, <2>2 DEF Taken
<1>7. \A e \in Devices : Batch(outbox[e]) \subseteq Batch(outbox'[e])
  <2> SUFFICES ASSUME NEW i \in Batch(outbox[d]) PROVE i \in Batch(outbox'[d])
    BY <1>2
  <2>1. i \in Unacked(outbox'[d]) /\ i \in 1..Len(outbox[d])
    BY <1>5 DEF Batch, Unacked
  <2>2. \A j \in Unacked(outbox'[d]) : j < i => j \in Unacked(outbox[d])
    BY <1>3, <1>5, <2>1 DEF n
  <2>3. QED
    BY <1>3, <2>1, <2>2, BatchStays
<1>8. RowInv'
  <2>1. \A e \in Devices : \A i \in 1..Len(outbox'[e]) : Exists(outbox'[e][i].row)
    BY <1>2, <1>3, <1>4 DEF CInv, RowInv
  <2>2. QED
    BY <1>1, <2>1 DEF CInv, RowInv
<1>9. OpenInv' /\ PageInv'
  BY <1>1 DEF CInv, OpenInv, PageInv
<1>10. BatchInv'
  BY <1>1, <1>6, <1>7 DEF CInv, BatchInv
<1>11. SeenInv'
  BY <1>1, <1>6 DEF CInv, SeenInv
<1>12. CursorSound'
  <2>1. Pending(d)'
    BY <1>5 DEF Pending
  <2>2. QED
    BY <1>1, <1>2, <2>1 DEF CInv, CursorSound, Pending, DeadOps
<1>13. QED
  BY <1>8, <1>9, <1>10, <1>11, <1>12 DEF CInv

\* A round trip begins, changes hands or is lost.
LEMMA FlightCursor ==
  ASSUME CInv, Inv', NEW d \in Devices,
         UNCHANGED <<local, outbox, cursor, srv>>,
         \A e \in Devices \ {d} : flight'[e] = flight[e],
         flight'[d].phase \in {"sent", "serving"} =>
            /\ flight'[d].sent \subseteq Batch(outbox[d])
            /\ Taken(d) \subseteq flight'[d].sent,
         flight'[d].phase # "answered",
         \A e \in Devices : flight'[e].phase = "serving" => OpenInv!(e)!2'
  PROVE  CInv'
<1>1. \A e \in Devices : Taken(e)' = Taken(e)
  BY DEF Taken
<1>2. RowInv' /\ SeenInv' /\ CursorSound'
  BY <1>1 DEF CInv, RowInv, SeenInv, CursorSound, Pending, DeadOps
<1>3. OpenInv'
  BY DEF OpenInv
<1>4. PageInv'
  BY DEF CInv, PageInv
<1>5. BatchInv'
  BY <1>1 DEF CInv, BatchInv
<1>6. QED
  BY <1>2, <1>3, <1>4, <1>5 DEF CInv

LEMMA SendCursor ==
  ASSUME CInv, Inv', NEW d \in Devices, Send(d)
  PROVE  CInv'
<1> DEFINE f == [Idle EXCEPT !.phase = "sent", !.sent = Batch(outbox[d])]
<1>1. /\ flight' = [flight EXCEPT ![d] = f]
      /\ UNCHANGED <<local, outbox, cursor, srv, job>>
  BY DEF Send, deviceVars
<1>2. f.phase = "sent" /\ f.sent = Batch(outbox[d])
  BY DEF Idle
<1> HIDE DEF f
<1>3. flight'[d] = f /\ \A e \in Devices \ {d} : flight'[e] = flight[e]
  BY <1>1 DEF CInv, Inv, TypeOK
<1>4. Taken(d) \subseteq Batch(outbox[d])
  BY DEF CInv, BatchInv
<1>5. \A e \in Devices : flight'[e].phase = "serving" => OpenInv!(e)!2'
  BY <1>1, <1>2, <1>3 DEF CInv, OpenInv
<1>6. QED
  BY <1>1, <1>2, <1>3, <1>4, <1>5, FlightCursor

LEMMA ServeCursor ==
  ASSUME CInv, Inv', NEW d \in Devices, Serve(d)
  PROVE  CInv'
<1>1. /\ flight' = [flight EXCEPT ![d].phase = "serving"] /\ flight[d].phase = "sent"
      /\ job' = [NoJob EXCEPT !.row = srv.row, !.seq = srv.seq, !.ledger = srv.ledger,
                              !.todo = flight[d].sent]
      /\ UNCHANGED <<local, outbox, cursor, srv>>
      /\ \A e \in Devices : flight[e].phase # "serving"
  BY DEF Serve, LeaseFree, deviceVars
<1>2. /\ job'.row = srv.row /\ job'.seq = srv.seq /\ job'.ledger = srv.ledger
      /\ job'.todo = flight[d].sent /\ job'.acks = {}
  BY <1>1 DEF NoJob
<1>3. flight[d] \in Flights /\ flight \in [Devices -> Flights] /\ srv.seq \in Nat
  BY DEF CInv, Inv, TypeOK, Servers
<1>4. flight'[d].phase = "serving" /\ flight'[d].sent = flight[d].sent
      /\ \A e \in Devices \ {d} : flight'[e] = flight[e]
  BY <1>1, <1>3 DEF Flights
<1>5. flight[d].sent \subseteq Batch(outbox[d]) /\ Taken(d) \subseteq flight[d].sent
  BY <1>1 DEF CInv, BatchInv
<1>6. \A e \in Devices : flight'[e].phase = "serving" => OpenInv!(e)!2'
  <2> SUFFICES OpenInv!(d)!2'
    BY <1>1, <1>4
  <2>1. srv.seq > 0 => Exists(srv.row)
    BY DEF CInv, RowInv
  <2>2. QED
    BY <1>1, <1>2, <1>3, <1>4, <2>1 DEF Exists
<1>7. QED
  BY <1>1, <1>4, <1>5, <1>6, FlightCursor

LEMMA IdleCursor ==
  ASSUME CInv, Inv', NEW d \in Devices, flight' = [flight EXCEPT ![d] = Idle],
         job' = job \/ (flight[d].phase = "serving" /\ job' = NoJob),
         UNCHANGED <<local, outbox, cursor, srv>>
  PROVE  CInv'
<1>1. /\ flight'[d].phase = "idle"
      /\ \A e \in Devices \ {d} : flight'[e] = flight[e]
  BY DEF CInv, Inv, TypeOK, Idle
<1>2. \A e \in Devices : flight'[e].phase = "serving" => OpenInv!(e)!2'
  <2> SUFFICES ASSUME NEW e \in Devices, flight'[e].phase = "serving"
               PROVE  OpenInv!(e)!2'
    OBVIOUS
  <2>1. e # d /\ flight'[e] = flight[e]
    BY <1>1
  <2>2. job' = job
    BY <2>1 DEF CInv, Inv, LeaseInv
  <2>3. QED
    BY <2>1, <2>2 DEF CInv, OpenInv
<1>3. QED
  BY <1>1, <1>2, FlightCursor

\* A replay step: the transaction alone changes.
LEMMA JobCursor ==
  ASSUME CInv, Inv', NEW d \in Devices, flight[d].phase = "serving",
         UNCHANGED <<local, outbox, cursor, flight, srv>>, OpenInv!(d)!2'
  PROVE  CInv'
<1>1. \A e \in Devices : flight'[e].phase = "serving" => e = d
  BY DEF CInv, Inv, LeaseInv
<1>2. OpenInv'
  BY <1>1 DEF OpenInv
<1>3. \A e \in Devices : Taken(e)' = Taken(e)
  BY DEF Taken
<1>4. RowInv' /\ PageInv' /\ BatchInv' /\ SeenInv' /\ CursorSound'
  BY <1>3 DEF CInv, RowInv, PageInv, BatchInv, SeenInv, CursorSound, Pending, DeadOps
<1>5. QED
  BY <1>2, <1>4 DEF CInv

LEMMA ReplayCursor ==
  ASSUME CInv, Inv', NEW d \in Devices, Replay(d)
  PROVE  CInv'
<1>1. PICK i \in job.todo : Replay(d)!(i)
  BY DEF Replay
<1> DEFINE op == outbox[d][i]
           result == IF <<d, i>> \in job.ledger THEN "duplicate" ELSE Outcome(job.row, op)
           written == IF result = "applied" THEN NewRow(job.row, op) ELSE job.row
           seq == IF result = "applied" THEN job.seq + 1 ELSE job.seq
           ack == [op |-> i, outcome |-> result, row |-> written]
           ledger == IF result = "conflict" THEN job.ledger ELSE job.ledger \cup {<<d, i>>}
           wrote == IF result = "applied" THEN job.wrote \cup {<<<<d, i>>, seq>>} ELSE job.wrote
<1>2. /\ flight[d].phase = "serving"
      /\ UNCHANGED <<local, outbox, cursor, flight, srv>>
      /\ job' = [row |-> written, seq |-> seq, todo |-> job.todo \ {i},
                 acks |-> job.acks \cup {ack}, ledger |-> ledger, wrote |-> wrote]
  BY <1>1 DEF NextOp, Answer, Known, deviceVars
<1>3. /\ job.row \in Rows /\ job.seq \in Nat /\ srv.seq \in Nat /\ clock \in Nat
      /\ job.row.version \in Nat
  BY DEF CInv, Inv, TypeOK, Jobs, Servers, Rows
<1>4. OpenInv!(d)!2
  BY <1>2 DEF CInv, OpenInv
<1>5. op \in Ops /\ i \in flight[d].sent /\ Exists(op.row)
  <2>1. i \in flight[d].sent
    BY <1>2 DEF CInv, Inv, JobInv
  <2>2. i \in 1..Len(outbox[d])
    BY <2>1 DEF CInv, Inv, SentInv
  <2>3. QED
    BY <2>1, <2>2, SentOps DEF CInv, RowInv
<1>6. Exists(NewRow(job.row, op))
  BY <1>3, <1>5, NewRowExists
<1>7. /\ result \in {"duplicate", "superseded", "conflict", "applied"}
      /\ result = "duplicate" <=> <<d, i>> \in job.ledger
      /\ result = "superseded" => ~Exists(job.row)
  BY DEF Outcome
<1> HIDE DEF op, result
<1>8. ack.op = i /\ ack.outcome = result
  OBVIOUS
<1> HIDE DEF ack
<1>9. /\ job'.row = written /\ job'.seq = seq /\ job'.todo = job.todo \ {i}
      /\ job'.acks = job.acks \cup {ack} /\ job'.ledger = ledger
  BY <1>2
<1>10. seq \in Nat /\ seq >= srv.seq
  BY <1>3, <1>4
<1>11. seq = srv.seq => written = srv.row
  BY <1>3, <1>4
<1>12. seq > 0 => Exists(written)
  BY <1>3, <1>4, <1>6
<1>13. Exists(written) /\ ledger # srv.ledger => seq > srv.seq
  <2>1. CASE result = "applied"
    BY <1>3, <1>4, <2>1
  <2>2. CASE result = "duplicate"
    BY <1>3, <1>4, <1>7, <2>2
  <2>3. CASE result = "superseded"
    BY <1>7, <2>3
  <2>4. CASE result = "conflict"
    BY <1>3, <1>4, <2>4
  <2>5. QED
    BY <1>7, <2>1, <2>2, <2>3, <2>4
<1>14. \A a \in job.acks \cup {ack} : <<d, a.op>> \in ledger => a.outcome \in Settled
  <2> SUFFICES ASSUME NEW a \in job.acks \cup {ack}, <<d, a.op>> \in ledger
               PROVE  a.outcome \in Settled
    OBVIOUS
  <2>1. CASE a = ack
    BY <1>7, <1>8, <2>1 DEF Settled
  <2>2. CASE a \in job.acks
    BY <1>4, <2>2
  <2>3. QED
    BY <2>1, <2>2
<1>15. \A j \in flight[d].sent \ (job.todo \ {i}) : \E a \in job.acks \cup {ack} : a.op = j
  BY <1>4, <1>8
<1>16. \A a \in job.acks \cup {ack} : a.op \notin job.todo \ {i}
  BY <1>4, <1>8
<1> HIDE DEF written, seq, ledger
<1>17. OpenInv!(d)!2'
  BY <1>2, <1>9, <1>10, <1>11, <1>12, <1>13, <1>14, <1>15, <1>16
<1>18. QED
  BY <1>2, <1>17, JobCursor

LEMMA RaisesCursor ==
  ASSUME CInv, Inv', NEW d \in Devices, ReplayRaises(d)
  PROVE  CInv'
<1>1. PICK i \in job.todo : ReplayRaises(d)!(i)
  BY DEF ReplayRaises
<1> DEFINE ack == [op |-> i, outcome |-> "error", row |-> NoRow]
<1>2. /\ flight[d].phase = "serving" /\ <<d, i>> \notin job.ledger
      /\ UNCHANGED <<local, outbox, cursor, flight, srv>>
      /\ job' = [job EXCEPT !.todo = @ \ {i}, !.acks = job.acks \cup {ack}]
  BY <1>1 DEF NextOp, Answer, Known, deviceVars
<1>3. ack.op = i
  OBVIOUS
<1> HIDE DEF ack
<1>4. /\ job'.row = job.row /\ job'.seq = job.seq /\ job'.todo = job.todo \ {i}
      /\ job'.acks = job.acks \cup {ack} /\ job'.ledger = job.ledger
  <2>1. job \in Jobs
    BY DEF CInv, Inv, TypeOK
  <2>2. QED
    BY <1>2, <2>1 DEF Jobs
<1>5. OpenInv!(d)!2
  BY <1>2 DEF CInv, OpenInv
<1>6. OpenInv!(d)!2'
  BY <1>2, <1>3, <1>4, <1>5
<1>7. QED
  BY <1>2, <1>6, JobCursor

\* The commit publishes the row and, to the device that pushed, the page.
LEMMA CommitCursor ==
  ASSUME CInv, Inv', NEW d \in Devices, Commit(d)
  PROVE  CInv'
<1> DEFINE page == IF job.seq > cursor[d] THEN job.row ELSE NoRow
           f == [flight[d] EXCEPT !.phase = "answered", !.acks = job.acks,
                                  !.seq = job.seq, !.page = page]
<1>1. /\ flight[d].phase = "serving" /\ job.todo = {}
      /\ srv' = [row |-> job.row, seq |-> job.seq, ledger |-> job.ledger]
      /\ flight' = [flight EXCEPT ![d] = f]
      /\ UNCHANGED <<local, outbox, cursor>>
  BY DEF Commit, deviceVars
<1>2. /\ job.seq \in Nat /\ srv.seq \in Nat /\ flight[d] \in Flights
      /\ \A e \in Devices : cursor[e] \in Nat /\ flight[e].seq \in Nat
  BY DEF CInv, Inv, TypeOK, Jobs, Servers, Flights
<1>3. f.phase = "answered" /\ f.acks = job.acks /\ f.sent = flight[d].sent
      /\ f.seq = job.seq /\ f.page = page
  <2> HIDE DEF page
  <2>1. QED
    BY <1>2 DEF Flights
<1> HIDE DEF f
<1>4. flight'[d] = f /\ \A e \in Devices \ {d} : flight'[e] = flight[e]
  BY <1>1 DEF CInv, Inv, TypeOK
<1>5. srv'.row = job.row /\ srv'.seq = job.seq /\ srv'.ledger = job.ledger
  BY <1>1
<1>6. OpenInv!(d)!2
  BY <1>1 DEF CInv, OpenInv
<1>7. \A o \in job.ledger \ srv.ledger : o[1] = d /\ o[2] \in flight[d].sent
  BY <1>1 DEF CInv, Inv, JobInv
<1>8. srv.ledger \subseteq job.ledger
  BY <1>1 DEF CInv, Inv, JobInv
<1>9. \A e \in Devices \ {d} : Taken(e)' = Taken(e)
  BY <1>1, <1>5, <1>7, <1>8 DEF Taken
<1>10. flight[d].sent \subseteq Batch(outbox[d]) /\ Taken(d) \subseteq flight[d].sent
  BY <1>1 DEF CInv, BatchInv
<1>11. Taken(d)' \subseteq flight[d].sent
  <2> SUFFICES ASSUME NEW i \in Unacked(outbox[d]), <<d, i>> \in job.ledger
               PROVE  i \in flight[d].sent
    BY <1>1, <1>5 DEF Taken
  <2>1. CASE <<d, i>> \in srv.ledger
    BY <1>10, <2>1 DEF Taken
  <2>2. CASE <<d, i>> \notin srv.ledger
    BY <1>7, <2>2
  <2>3. QED
    BY <2>1, <2>2
<1>12. \A e \in Devices : cursor[e] <= srv.seq
  BY DEF CInv, RowInv
<1>13. Exists(job.row) /\ ~Exists(srv.row) => job.seq > srv.seq
  BY <1>2, <1>6
<1>14. RowInv'
  BY <1>1, <1>2, <1>5, <1>6, <1>12 DEF CInv, RowInv
<1>15. OpenInv'
  BY <1>1, <1>3, <1>4 DEF CInv, Inv, LeaseInv, OpenInv
<1>16. PageInv'
  <2> SUFFICES ASSUME NEW e \in Devices, flight'[e].phase = "answered"
               PROVE  PageInv!(e)!2'
    BY DEF PageInv
  <2>1. CASE e # d
    <3>1. PageInv!(e)!2 /\ flight'[e] = flight[e]
      BY <1>4, <2>1 DEF CInv, PageInv
    <3>2. \A a \in flight[e].acks : <<e, a.op>> \in job.ledger => <<e, a.op>> \in srv.ledger
      BY <1>7, <2>1
    <3>3. flight[e].seq = job.seq => job.row = srv.row /\ flight[e].seq = srv.seq
      BY <1>2, <1>6, <3>1
    <3>4. flight[e].seq <= job.seq
      BY <1>2, <1>6, <3>1
    <3>5. QED
      BY <1>1, <1>5, <3>1, <3>2, <3>3, <3>4
  <2>2. CASE e = d
    <3>1. job.seq > cursor[d] <=> Exists(page)
      <4>1. job.seq > cursor[d] => job.seq > 0
        BY <1>2
      <4>2. QED
        BY <1>6, <4>1 DEF NoRow, Exists
    <3>2. Exists(page) => page = job.row
      BY DEF NoRow, Exists
    <3>3. \A i \in flight[d].sent : \E a \in job.acks : a.op = i
      BY <1>1, <1>6
    <3> HIDE DEF page
    <3>4. QED
      BY <1>1, <1>2, <1>3, <1>4, <1>5, <1>6, <2>2, <3>1, <3>2, <3>3
  <2>3. QED
    BY <2>1, <2>2
<1>17. BatchInv'
  BY <1>1, <1>3, <1>4, <1>9, <1>10, <1>11 DEF CInv, BatchInv
<1>18. SeenInv'
  <2> SUFFICES ASSUME NEW e \in Devices, Taken(e)' # {}, Exists(job.row)
               PROVE  cursor[e] < job.seq
    BY <1>1, <1>5 DEF SeenInv
  <2>1. CASE job.ledger # srv.ledger \/ ~Exists(srv.row)
    BY <1>2, <1>6, <1>12, <1>13, <2>1
  <2>2. CASE job.ledger = srv.ledger /\ Exists(srv.row)
    <3>1. Taken(e)' = Taken(e)
      BY <1>1, <1>5, <2>2 DEF Taken
    <3>2. cursor[e] < srv.seq
      BY <2>2, <3>1 DEF CInv, SeenInv
    <3>3. QED
      BY <1>2, <1>6, <3>2
  <2>3. QED
    BY <2>1, <2>2
<1>19. CursorSound'
  <2> SUFFICES ASSUME NEW e \in Devices, cursor[e] >= job.seq, Exists(job.row)
               PROVE  Pending(e) \/ DeadOps(e) \/ local[e] = job.row
    BY <1>1, <1>5 DEF CursorSound, Pending, DeadOps
  <2>1. job.seq = srv.seq /\ cursor[e] >= srv.seq
    BY <1>2, <1>6, <1>12
  <2>2. QED
    BY <1>6, <2>1 DEF CInv, CursorSound
<1>20. QED
  BY <1>14, <1>15, <1>16, <1>17, <1>18, <1>19 DEF CInv

\* What handling an op leaves of it: the conflicting op absorbs the queue, and
\* every other op of an answer with a conflict leaves the queue.
LEMMA HandledOp ==
  ASSUME CInv, NEW d \in Devices, NEW acks \in SUBSET Acks, NEW i \in Unacked(outbox[d])
  PROVE  /\ Exists(BoxAfter(d, acks)[i].row)
         /\ BoxAfter(d, acks)[i].state = "unacked" /\ FirstConflict(acks) # {}
              => Absorbs(acks, i)
         /\ Absorbs(acks, i) => BoxAfter(d, acks)[i].state = "unacked"
         /\ FirstConflict(acks) = {} /\ Answered(acks, i, Settled)
              => BoxAfter(d, acks)[i].state = "acked"
         /\ FirstConflict(acks) = {} /\ BoxAfter(d, acks)[i].state \notin {"acked", "dead"}
              => BoxAfter(d, acks)[i].state = "unacked"
<1> DEFINE op == outbox[d][i]
           new == BoxAfter(d, acks)[i]
<1>1. TypeOK /\ i \in 1..Len(outbox[d]) /\ op.state = "unacked"
  BY DEF CInv, Inv, Unacked
<1>2. op \in Ops /\ Exists(op.row)
  BY <1>1, Boxes DEF CInv, RowInv
<1>3. new = Handled(d, acks, i)
  BY <1>1 DEF BoxAfter, AckedOp
<1>4. FirstConflict(acks) # {} => Exists(MergedRow(d, acks))
  <2> DEFINE c == CHOOSE a \in FirstConflict(acks) : TRUE
  <2> SUFFICES ASSUME FirstConflict(acks) # {} PROVE Exists(MergedRow(d, acks))
    OBVIOUS
  <2>1. c \in Acks
    BY DEF FirstConflict
  <2>2. c.row \in Rows /\ local[d] \in Rows
    BY <1>1, <2>1 DEF Acks, TypeOK
  <2>3. c.row.version \in Nat
    BY <2>2 DEF Rows
  <2>4. Merge(local[d], c.row).version = c.row.version + 1
    BY <2>2, MergeType
  <2>5. QED
    BY <2>3, <2>4 DEF MergedRow, Exists
<1>5. Absorbs(acks, i) => FirstConflict(acks) # {}
  BY DEF Absorbs
<1>6. /\ \A x : [op EXCEPT !.state = x].state = x /\ [op EXCEPT !.state = x].row = op.row
      /\ \A x, n : [op EXCEPT !.state = x, !.attempts = n].state = x
                   /\ [op EXCEPT !.state = x, !.attempts = n].row = op.row
      /\ \A n : [op EXCEPT !.attempts = n].state = op.state
                /\ [op EXCEPT !.attempts = n].row = op.row
      /\ \A k, r, b : [op EXCEPT !.kind = k, !.row = r, !.base = b].state = op.state
                      /\ [op EXCEPT !.kind = k, !.row = r, !.base = b].row = r
  BY <1>2 DEF Ops
<1> HIDE DEF op, new
<1>7. CASE Absorbs(acks, i)
  BY <1>1, <1>3, <1>4, <1>5, <1>6, <1>7 DEF Handled, op, new
<1>8. CASE ~Absorbs(acks, i) /\ FirstConflict(acks) # {}
  BY <1>1, <1>2, <1>3, <1>6, <1>8 DEF Handled, op, new
<1>9. CASE FirstConflict(acks) = {} /\ ~Absorbs(acks, i)
  BY <1>1, <1>2, <1>3, <1>6, <1>9 DEF Handled, op, new
<1>10. QED
  BY <1>5, <1>7, <1>8, <1>9 DEF new

\* Handling the answer settles or drops every op the server had taken.
LEMMA AnswerClears ==
  ASSUME CInv, NEW d \in Devices, flight[d].phase = "answered",
         NEW i \in Unacked(outbox[d]), <<d, i>> \in srv.ledger
  PROVE  BoxAfter(d, flight[d].acks)[i].state # "unacked"
<1> DEFINE acks == flight[d].acks
<1>1. acks \in SUBSET Acks
  BY DEF CInv, Inv, TypeOK, Flights
<1>2. i \in flight[d].sent
  BY DEF CInv, BatchInv, Taken
<1>3. PICK a \in acks : a.op = i /\ a.outcome \in Settled
  BY <1>2 DEF CInv, PageInv
<1>4. ~Absorbs(acks, i)
  BY DEF CInv, PageInv, Absorbs, FirstConflict, Settled
<1>5. Answered(acks, i, Settled)
  BY <1>3 DEF Answered
<1>6. QED
  BY <1>1, <1>4, <1>5, HandledOp

\* An answer that brings no row to a device level with the server, and leaves
\* nothing to push, leaves it with the server's row.
LEMMA QuietAnswer ==
  ASSUME CInv, NEW d \in Devices, flight[d].phase = "answered",
         cursor[d] >= srv.seq, Exists(srv.row),
         \A i \in 1..Len(outbox[d]) :
            BoxAfter(d, flight[d].acks)[i].state \notin {"unacked", "dead"}
  PROVE  RowAfter(d, flight[d].acks) = srv.row
<1> DEFINE acks == flight[d].acks
<1>0. TypeOK /\ acks \in SUBSET Acks
  BY DEF CInv, Inv, TypeOK, Flights
<1>1. flight[d].sent \subseteq Unacked(outbox[d]) /\ \A a \in acks : a.op \in flight[d].sent
  BY DEF CInv, Inv, BatchInv, SentInv, Batch
<1>2. FirstConflict(acks) = {}
  <2> SUFFICES ASSUME NEW c \in FirstConflict(acks) PROVE FALSE
    OBVIOUS
  <2>1. Absorbs(acks, c.op) /\ c \in acks
    BY DEF Absorbs, FirstConflict
  <2>2. BoxAfter(d, acks)[c.op].state = "unacked"
    BY <1>0, <1>1, <2>1, HandledOp
  <2>3. QED
    BY <1>1, <2>1, <2>2 DEF Unacked
<1>3. Unacked(outbox[d]) = {}
  <2> SUFFICES ASSUME NEW i \in Unacked(outbox[d]) PROVE FALSE
    OBVIOUS
  <2>1. i \in 1..Len(outbox[d]) /\ outbox[d][i].state = "unacked"
    BY DEF Unacked
  <2>2. BoxAfter(d, acks)[i].state = "acked"
    BY <1>0, <1>2, <2>1, HandledOp
  <2>3. Answered(acks, i, Settled)
    BY <1>0, <2>1, <2>2, BoxAfterStates
  <2>4. <<d, i>> \in srv.ledger
    BY <2>3 DEF CInv, Inv, AnswerInv, Answered
  <2>5. cursor[d] < srv.seq
    BY <2>4 DEF CInv, SeenInv, Taken
  <2>6. QED
    BY <1>0, <2>5 DEF TypeOK, Servers
<1>4. acks = {}
  BY <1>1, <1>3
<1>5. RowAfter(d, acks) = local[d]
  BY <1>2, <1>4 DEF RowAfter, Adopted
<1>6. ~Pending(d) /\ ~DeadOps(d)
  BY <1>0, <1>3, BoxAfterStates DEF Pending, DeadOps
<1>7. QED
  BY <1>5, <1>6 DEF CInv, CursorSound

\* The device handles an answer, whether or not it lives to move its cursor.
LEMMA AnswerCursor ==
  ASSUME CInv, Inv', NEW d \in Devices, NEW row, NEW c,
         flight[d].phase = "answered", HandleAcks(d),
         local' = [local EXCEPT ![d] = row],
         cursor' = [cursor EXCEPT ![d] = c], c \in Nat, cursor[d] <= c,
         c # cursor[d] => c = flight[d].seq,
         row = ApplyPage(d) \/ (row = RowAfter(d, flight[d].acks) /\ c = cursor[d]),
         flight'[d].phase \in {"idle", "refetch"},
         \A e \in Devices \ {d} : flight'[e] = flight[e],
         UNCHANGED <<srv, job>>
  PROVE  CInv'
<1> DEFINE acks == flight[d].acks
           box == BoxAfter(d, acks)
<1>0. /\ TypeOK /\ acks \in SUBSET Acks /\ srv.seq \in Nat
      /\ cursor[d] \in Nat /\ flight[d].seq \in Nat
  BY DEF CInv, Inv, TypeOK, Flights, Servers
<1>1. /\ outbox'[d] = box /\ Len(box) = Len(outbox[d])
      /\ \A e \in Devices \ {d} : outbox'[e] = outbox[e]
  BY <1>0, BoxAfterType DEF HandleAcks, TypeOK
<1>2. /\ local'[d] = row /\ cursor'[d] = c
      /\ \A e \in Devices \ {d} : local'[e] = local[e] /\ cursor'[e] = cursor[e]
  BY <1>0 DEF TypeOK
<1>3. Taken(d)' = {}
  <2> SUFFICES ASSUME NEW i \in Unacked(box), <<d, i>> \in srv.ledger PROVE FALSE
    BY <1>1 DEF Taken
  <2>1. i \in 1..Len(outbox[d]) /\ box[i].state = "unacked"
    BY <1>1 DEF Unacked
  <2>2. i \in Unacked(outbox[d])
    BY <1>0, <2>1, BoxAfterStates DEF Unacked
  <2>3. QED
    BY <2>1, <2>2, AnswerClears
<1>4. \A e \in Devices \ {d} : Taken(e)' = Taken(e)
  BY <1>1 DEF Taken
<1>5. PageInv!(d)!2
  BY DEF CInv, PageInv
<1>6. RowInv'
  <2>1. \A i \in 1..Len(outbox[d]) : Exists(box[i].row)
    <3> SUFFICES ASSUME NEW i \in 1..Len(outbox[d]) PROVE Exists(box[i].row)
      OBVIOUS
    <3>1. CASE i \in Unacked(outbox[d])
      BY <1>0, <3>1, HandledOp
    <3>2. CASE i \notin Unacked(outbox[d])
      BY <3>2 DEF CInv, RowInv, Unacked, BoxAfter, AckedOp
    <3>3. QED
      BY <3>1, <3>2
  <2>2. \A e \in Devices : cursor'[e] <= srv.seq
    BY <1>0, <1>2, <1>5 DEF CInv, RowInv
  <2>3. QED
    BY <1>1, <2>1, <2>2 DEF CInv, RowInv
<1>7. OpenInv' /\ PageInv'
  BY <1>2 DEF CInv, OpenInv, PageInv
<1>8. BatchInv'
  BY <1>1, <1>3, <1>4 DEF CInv, BatchInv
<1>9. SeenInv'
  BY <1>2, <1>3, <1>4 DEF CInv, SeenInv
<1>10. CursorSound'
  <2> SUFFICES ASSUME NEW e \in Devices, cursor'[e] >= srv.seq, Exists(srv.row),
                      ~Pending(e)', ~DeadOps(e)'
               PROVE  local'[e] = srv.row
    BY DEF CursorSound
  <2>1. CASE e # d
    BY <1>1, <1>2, <2>1 DEF CInv, CursorSound, Pending, DeadOps
  <2>2. CASE e = d
    <3>1. \A i \in 1..Len(outbox[d]) : box[i].state \notin {"unacked", "dead"}
      BY <1>1, <2>2 DEF Pending, DeadOps, Unacked
    <3>2. CASE Exists(flight[d].page)
      <4>1. flight[d].seq = srv.seq /\ c # cursor[d]
        BY <1>0, <1>2, <1>5, <2>2, <3>2
      <4>2. row = flight[d].page
        BY <1>1, <3>1, <3>2, <4>1 DEF ApplyPage, Unacked
      <4>3. QED
        BY <1>2, <1>5, <2>2, <3>2, <4>1, <4>2
    <3>3. CASE ~Exists(flight[d].page)
      <4>1. row = RowAfter(d, acks)
        BY <3>3 DEF ApplyPage
      <4>2. cursor[d] >= srv.seq
        BY <1>0, <1>2, <1>5, <2>2, <3>3
      <4>3. QED
        BY <1>2, <2>2, <3>1, <4>1, <4>2, QuietAnswer
    <3>4. QED
      BY <3>2, <3>3
  <2>3. QED
    BY <2>1, <2>2
<1>11. QED
  BY <1>6, <1>7, <1>8, <1>9, <1>10 DEF CInv

LEMMA ReceiveCursor ==
  ASSUME CInv, Inv', NEW d \in Devices, Receive(d)
  PROVE  CInv'
<1> DEFINE c == IF flight[d].seq > cursor[d] THEN flight[d].seq ELSE cursor[d]
           f == IF DeadLettered(d) THEN [Idle EXCEPT !.phase = "refetch"] ELSE Idle
<1>1. /\ flight[d].phase = "answered" /\ HandleAcks(d)
      /\ local' = [local EXCEPT ![d] = ApplyPage(d)]
      /\ cursor' = [cursor EXCEPT ![d] = c]
      /\ flight' = [flight EXCEPT ![d] = f]
      /\ UNCHANGED <<srv, job>>
  BY DEF Receive
<1>2. f.phase \in {"idle", "refetch"}
  BY EndFlights
<1>3. cursor[d] \in Nat /\ flight[d].seq \in Nat /\ flight \in [Devices -> Flights]
  BY DEF CInv, Inv, TypeOK, Flights
<1>4. c \in Nat /\ cursor[d] <= c /\ (c # cursor[d] => c = flight[d].seq)
  BY <1>3
<1> HIDE DEF c, f
<1>5. flight'[d].phase \in {"idle", "refetch"}
      /\ \A e \in Devices \ {d} : flight'[e] = flight[e]
  BY <1>1, <1>2, <1>3
<1>6. QED
  BY <1>1, <1>4, <1>5, AnswerCursor

LEMMA KilledCursor ==
  ASSUME CInv, Inv', NEW d \in Devices, Killed(d)
  PROVE  CInv'
<1>1. PICK row \in {RowAfter(d, flight[d].acks), ApplyPage(d)} :
        local' = [local EXCEPT ![d] = row]
  BY DEF Killed
<1>2. /\ flight[d].phase = "answered" /\ HandleAcks(d)
      /\ flight' = [flight EXCEPT ![d] = Idle]
      /\ UNCHANGED <<cursor, srv, job>>
  BY DEF Killed
<1>3. cursor[d] \in Nat /\ cursor' = [cursor EXCEPT ![d] = cursor[d]]
      /\ cursor[d] <= cursor[d]
  BY <1>2 DEF CInv, Inv, TypeOK
<1>4. flight'[d].phase \in {"idle", "refetch"}
      /\ \A e \in Devices \ {d} : flight'[e] = flight[e]
  BY <1>2, EndFlights DEF CInv, Inv, TypeOK
<1>5. QED
  BY <1>1, <1>2, <1>3, <1>4, AnswerCursor

LEMMA RefetchCursor ==
  ASSUME CInv, Inv', NEW d \in Devices, Refetch(d)
  PROVE  CInv'
<1>1. /\ flight[d].phase = "refetch" /\ flight' = [flight EXCEPT ![d] = Idle]
      /\ local' = local \/ local' = [local EXCEPT ![d] = srv.row]
      /\ UNCHANGED <<outbox, cursor, srv, job>>
  BY DEF Refetch
<1>2. flight'[d].phase = "idle" /\ \A e \in Devices \ {d} : flight'[e] = flight[e]
  BY <1>1, EndFlights DEF CInv, Inv, TypeOK
<1>3. \A e \in Devices : local'[e] = local[e] \/ local'[e] = srv.row
  BY <1>1 DEF CInv, Inv, TypeOK
<1>4. \A e \in Devices : Taken(e)' = Taken(e)
  BY <1>1 DEF Taken
<1>5. RowInv' /\ SeenInv'
  BY <1>1, <1>4 DEF CInv, RowInv, SeenInv
<1>6. OpenInv' /\ PageInv' /\ BatchInv'
  BY <1>1, <1>2, <1>4 DEF CInv, OpenInv, PageInv, BatchInv
<1>7. CursorSound'
  BY <1>1, <1>3 DEF CInv, CursorSound, Pending, DeadOps
<1>8. QED
  BY <1>5, <1>6, <1>7 DEF CInv

LEMMA NextCursor == CInv /\ Next => CInv'
<1> SUFFICES ASSUME CInv, Next PROVE CInv'
  OBVIOUS
<1>1. PICK d \in Devices : Next!(d)
  BY DEF Next
<1>2. TypeOK /\ Inv'
  BY NextInv DEF CInv, Inv
<1>3. CASE UserWrite(d)
  BY <1>2, <1>3, UserWriteIsWrite, WriteCursor
<1>4. CASE Send(d)
  BY <1>2, <1>4, SendCursor
<1>5. CASE Serve(d)
  BY <1>2, <1>5, ServeCursor
<1>6. CASE Busy(d)
  BY <1>2, <1>6, IdleCursor DEF Busy, deviceVars
<1>7. CASE Replay(d)
  BY <1>2, <1>7, ReplayCursor
<1>8. CASE ReplayRaises(d)
  BY <1>2, <1>8, RaisesCursor
<1>9. CASE Commit(d)
  BY <1>2, <1>9, CommitCursor
<1>10. CASE Lose(d)
  BY <1>2, <1>10, IdleCursor DEF Lose, deviceVars
<1>11. CASE Receive(d)
  BY <1>2, <1>11, ReceiveCursor
<1>12. CASE Killed(d)
  BY <1>2, <1>12, KilledCursor
<1>13. CASE Refetch(d)
  BY <1>2, <1>13, RefetchCursor
<1>14. QED
  BY <1>1, <1>3, <1>4, <1>5, <1>6, <1>7, <1>8, <1>9, <1>10, <1>11, <1>12, <1>13

LEMMA StutterCursor == CInv /\ UNCHANGED vars => CInv'
<1> SUFFICES ASSUME CInv, UNCHANGED vars PROVE CInv'
  OBVIOUS
<1>1. UNCHANGED <<local, outbox, cursor, flight, srv, job>> /\ Inv'
  BY StutterInv DEF vars, CInv
<1>2. \A e \in Devices : Taken(e)' = Taken(e)
  BY <1>1 DEF Taken
<1>3. RowInv' /\ OpenInv' /\ PageInv' /\ BatchInv' /\ SeenInv' /\ CursorSound'
  BY <1>1, <1>2 DEF CInv, RowInv, OpenInv, PageInv, BatchInv, SeenInv, CursorSound,
                    Pending, DeadOps
<1>4. QED
  BY <1>1, <1>3 DEF CInv

\* A device that has advanced its cursor past a row it did not take still has an
\* op to push, or was told that one was given up: no row is lost between two
\* devices, whatever is lost, raised, merged or killed on the way.
THEOREM CursorIsSound == Spec => []CursorSound
<1>1. CInv /\ [Next]_vars => CInv'
  BY NextCursor, StutterCursor
<1>2. CInv => CursorSound
  BY DEF CInv
<1>3. QED
  BY InitCInv, <1>1, <1>2, PTL DEF Spec
-----------------------------------------------------------------------------
(* The refinement of OpLog. *)

AllStates == {"unacked", "acked", "collapsed", "dead"}

\* Which ops the outboxes hold depends on the outboxes alone.
LEMMA LogStutter ==
  ASSUME UNCHANGED <<outbox, effects>>, srv'.ledger = srv.ledger
  PROVE  UNCHANGED Log!vars
  BY DEF Log!vars, OpsIn

LEMMA OpIdOf ==
  ASSUME Inv, NEW d \in Devices, NEW i \in 1..Len(outbox[d])
  PROVE  <<d, i>> \in OpIds /\ outbox[d][i] \in Ops
<1>1. outbox[d] \in Seq(Ops)
  BY DEF Inv, TypeOK
<1>2. outbox[d][i] \in Ops /\ Len(outbox[d]) \in Nat
  BY <1>1
<1>3. Len(outbox[d]) <= MaxWrites
  BY <1>2, ConstantsAssumption DEF Inv, BoundInv, TypeOK
<1>4. QED
  BY <1>2, <1>3, ConstantsAssumption DEF OpIds

LEMMA WriteRefines ==
  ASSUME Inv, Inv', NEW d \in Devices, NEW kind \in {"upsert", "delete"}, NEW next \in Rows,
         Write(d, kind, next)
  PROVE  Log!Enqueue
<1> DEFINE n == Len(outbox[d]) + 1
<1>0. TypeOK /\ \A e \in Devices : Len(outbox[e]) \in Nat
  <2>1. TypeOK /\ \A e \in Devices : outbox[e] \in Seq(Ops)
    BY DEF Inv, TypeOK
  <2>2. QED
    BY <2>1
<1>1. /\ Len(outbox'[d]) = n
      /\ \A i \in 1..Len(outbox[d]) : outbox'[d][i] = outbox[d][i]
      /\ outbox'[d][n].state = "unacked"
      /\ \A e \in Devices \ {d} : outbox'[e] = outbox[e]
      /\ UNCHANGED <<srv, effects>>
  BY <1>0, WriteOutbox DEF Write
<1>2. <<d, n>> \in OpIds
  <2>1. n <= MaxWrites /\ n \in 1..MaxWrites
    BY <1>0, <1>1, ConstantsAssumption DEF Inv, BoundInv, TypeOK
  <2>2. QED
    BY <2>1 DEF OpIds
<1>3. \A o \in OpIds : o[1] \in Devices /\ o = <<o[1], o[2]>>
  BY DEF OpIds
<1>4. OpsIn(AllStates)' = OpsIn(AllStates) \cup {<<d, n>>} /\ <<d, n>> \notin OpsIn(AllStates)
  BY <1>0, <1>1, <1>2, <1>3 DEF OpsIn, AllStates
<1>5. OpsIn({"acked"})' = OpsIn({"acked"})
  BY <1>0, <1>1, <1>3 DEF OpsIn
<1>6. OpsIn({"collapsed", "dead"})' = OpsIn({"collapsed", "dead"})
  BY <1>0, <1>1, <1>3 DEF OpsIn
<1>7. QED
  BY <1>1, <1>2, <1>4, <1>5, <1>6 DEF Log!Enqueue, AllStates

LEMMA CommitRefines ==
  ASSUME Inv, Inv', NEW d \in Devices, Commit(d)
  PROVE  Log!Take
<1>1. /\ flight[d].phase = "serving" /\ srv'.ledger = job.ledger
      /\ effects' = effects \cup job.wrote /\ outbox' = outbox
  BY DEF Commit, deviceVars
<1>2. /\ srv.ledger \subseteq job.ledger
      /\ \A w \in job.wrote : w[1] \in job.ledger \ srv.ledger
      /\ \A v, w \in job.wrote : v[1] = w[1] => v = w
  BY <1>1 DEF Inv, JobInv
<1>3. job.ledger \subseteq OpsIn(AllStates)
  <2> SUFFICES ASSUME NEW o \in job.ledger PROVE o \in OpsIn(AllStates)
    OBVIOUS
  <2>1. o \in OpIds /\ o[1] \in Devices /\ o[2] \in 1..Len(outbox[o[1]])
    BY <1>1 DEF Inv, LedgerInv, TypeOK, Servers, OpIds
  <2>2. outbox[o[1]][o[2]].state \in AllStates
    BY <2>1, OpIdOf DEF Ops, AllStates
  <2>3. QED
    BY <2>1, <2>2 DEF OpsIn
<1>4. \A states : OpsIn(states)' = OpsIn(states)
  BY <1>1 DEF OpsIn
<1>5. QED
  BY <1>1, <1>2, <1>3, <1>4 DEF Log!Take, AllStates

LEMMA AnswerRefines ==
  ASSUME Inv, Inv', NEW d \in Devices, HandleAcks(d), UNCHANGED <<srv, effects>>
  PROVE  Log!Settle
<1> DEFINE box == BoxAfter(d, flight[d].acks)
<1>1. /\ TypeOK /\ flight[d].acks \in SUBSET Acks /\ outbox' = [outbox EXCEPT ![d] = box]
      /\ \A o \in OpIds : o[1] \in Devices /\ o = <<o[1], o[2]>>
  <2>1. TypeOK
    BY DEF Inv
  <2>2. flight[d].acks \in SUBSET Acks
    BY <2>1 DEF TypeOK, Flights
  <2>3. \A o \in OpIds : o[1] \in Devices /\ o = <<o[1], o[2]>>
    BY DEF OpIds
  <2>4. QED
    BY <2>1, <2>2, <2>3 DEF HandleAcks
<1>2. /\ outbox'[d] = box /\ Len(box) = Len(outbox[d])
      /\ \A e \in Devices \ {d} : outbox'[e] = outbox[e]
      /\ \A e \in Devices : Len(outbox'[e]) = Len(outbox[e])
  BY <1>1, BoxAfterType DEF TypeOK
<1>3. \A e \in Devices : \A i \in 1..Len(outbox[e]) :
        outbox[e][i].state # "unacked" => outbox'[e][i].state = outbox[e][i].state
  BY <1>1, <1>2, BoxAfterStates
<1>4. \A e \in Devices : \A i \in 1..Len(outbox[e]) : outbox[e][i].state \in AllStates
  BY OpIdOf DEF Ops, AllStates
<1>5. \A e \in Devices : \A i \in 1..Len(outbox'[e]) : outbox'[e][i].state \in AllStates
  <2>1. \A e \in Devices : outbox'[e] \in Seq(Ops)
    BY DEF Inv, TypeOK
  <2>2. \A e \in Devices : \A i \in 1..Len(outbox'[e]) : outbox'[e][i] \in Ops
    BY <2>1
  <2>3. QED
    BY <2>2 DEF Ops, AllStates
<1>6. OpsIn(AllStates)' = OpsIn(AllStates)
  BY <1>1, <1>2, <1>4, <1>5 DEF OpsIn
<1>7. /\ OpsIn({"acked"}) \subseteq OpsIn({"acked"})'
      /\ OpsIn({"collapsed", "dead"}) \subseteq OpsIn({"collapsed", "dead"})'
  BY <1>1, <1>2, <1>3 DEF OpsIn
<1>8. OpsIn({"acked"})' \subseteq srv.ledger
  BY <1>1 DEF Inv, AckedIsDurable, OpsIn
<1>9. OpsIn({"collapsed", "dead"})' \subseteq OpsIn(AllStates)' \ OpsIn({"acked"})'
  BY DEF OpsIn, AllStates
<1>10. QED
  BY <1>6, <1>7, <1>8, <1>9 DEF Log!Settle, AllStates

LEMMA NextRefines ==
  ASSUME Inv, Inv', [Next]_vars
  PROVE  [Log!Next]_(Log!vars)
<1>1. CASE UNCHANGED vars
  BY <1>1, LogStutter DEF vars
<1>2. CASE Next
  <2>1. PICK d \in Devices : Next!(d)
    BY <1>2 DEF Next
  <2>2. CASE UserWrite(d)
    BY <2>2, UserWriteIsWrite, WriteRefines DEF Log!Next, Inv
  <2>3. CASE Send(d)
    BY <2>3, LogStutter DEF Send, deviceVars
  <2>4. CASE Serve(d)
    BY <2>4, LogStutter DEF Serve, deviceVars
  <2>5. CASE Busy(d)
    BY <2>5, LogStutter DEF Busy, deviceVars
  <2>6. CASE Replay(d)
    BY <2>6, LogStutter DEF Replay, NextOp, deviceVars
  <2>7. CASE ReplayRaises(d)
    BY <2>7, LogStutter DEF ReplayRaises, NextOp, deviceVars
  <2>8. CASE Commit(d)
    BY <2>8, CommitRefines DEF Log!Next
  <2>9. CASE Lose(d)
    BY <2>9, LogStutter DEF Lose, deviceVars
  <2>10. CASE Receive(d)
    BY <2>10, AnswerRefines DEF Receive, Log!Next
  <2>11. CASE Killed(d)
    BY <2>11, AnswerRefines DEF Killed, Log!Next
  <2>12. CASE Refetch(d)
    BY <2>12, LogStutter DEF Refetch
  <2>13. QED
    BY <2>1, <2>2, <2>3, <2>4, <2>5, <2>6, <2>7, <2>8, <2>9, <2>10, <2>11, <2>12
<1>3. QED
  BY <1>1, <1>2

\* The protocol implements the op log: each op is taken at most once, settled
\* only after it was taken, and never resumed after it was given up.
THEOREM Refinement == Spec => ImplementsOpLog
<1>1. Init => Log!Init
  <2> SUFFICES ASSUME Init PROVE Log!Init
    OBVIOUS
  <2>1. \A d \in Devices : outbox[d] = <<>> /\ Len(outbox[d]) = 0
    BY DEF Init
  <2>2. \A o \in OpIds : o[1] \in Devices
    BY DEF OpIds
  <2>3. \A states : OpsIn(states) = {}
    BY <2>1, <2>2 DEF OpsIn
  <2>4. QED
    BY <2>3 DEF Init, Log!Init
<1>2. Inv /\ Inv' /\ [Next]_vars => [Log!Next]_(Log!vars)
  BY NextRefines
<1>3. QED
  BY <1>1, <1>2, Invariance, PTL DEF Spec, ImplementsOpLog, Log!Spec
=============================================================================
