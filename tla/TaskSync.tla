------------------------------ MODULE TaskSync ------------------------------
(***************************************************************************)
(* The push-then-pull synchronisation of one task row between several      *)
(* devices of a user and the server (apps/mobile/src/sync/engine.ts,       *)
(* pull.ts, merge.ts; sync_replay and sync_apply_task in                   *)
(* supabase/migrations/20260828120000_p8_sync.sql).                        *)
(*                                                                         *)
(* Every local write changes the local row and appends an op to the        *)
(* outbox in one SQLite transaction.  A sync sends the unacked ops in seq  *)
(* order; the server, holding the user's lease, replays them one by one in *)
(* one transaction (ledger, base_version check, trigger-bumped version),   *)
(* then reads the rows above the device's cursor.  The device handles the  *)
(* acks (a conflict merges and collapses its queue), applies the page and  *)
(* advances the cursor.  Requests, answers and the app itself may die at   *)
(* any point.                                                              *)
(*                                                                         *)
(* A row keeps what the protocol tells apart: title stands for the         *)
(* user-owned fields and is the time of the edit that wrote them, at is    *)
(* updated_at, version 0 means "no such row".                              *)
(***************************************************************************)
EXTENDS Integers, Sequences, FiniteSets

CONSTANTS
    Devices,      \* the user's devices
    MaxBatch,     \* MAX_OPS_PER_BATCH
    MaxAttempts,  \* MAX_ATTEMPTS before an op is dead-lettered
    MaxWrites,    \* bound: local writes in a behaviour
    MaxQueued,    \* bound: unacked ops a device may have when it writes
    MaxLosses,    \* bound: lost requests, lost answers, kills, failed re-reads
    MaxFaults     \* bound: those and the ops whose replay raises, together

ASSUME ConstantsAssumption ==
    /\ MaxBatch \in Nat \ {0}
    /\ MaxAttempts \in Nat \ {0}
    /\ MaxWrites \in Nat
    /\ MaxQueued \in Nat
    /\ MaxLosses \in Nat
    /\ MaxFaults \in Nat

VARIABLES
    local,    \* local[d]: the device's row
    outbox,   \* outbox[d]: op_outbox in seq order, acked rows included
    cursor,   \* cursor[d]: max server_seq seen
    flight,   \* flight[d]: the round trip of device d
    srv,      \* committed server state: row, its server_seq, the sync_ops ledger
    job,      \* the replay transaction of the lease holder
    clock,    \* wall clock, one tick per local write (edits are stamped 2 * clock)
    losses,   \* losses so far
    errors,   \* raised replays so far
    effects   \* history: how many committed row writes each op caused

deviceVars == <<local, outbox, cursor>>
vars == <<local, outbox, cursor, flight, srv, job, clock, losses, errors, effects>>
-----------------------------------------------------------------------------
(* Rows, ops and messages *)

Statuses == {"inbox", "scheduled", "archived", "done"}

Rows == [title: Nat, status: Statuses, deleted: BOOLEAN, version: Nat, at: Nat]

NoRow == [title |-> 0, status |-> "inbox", deleted |-> FALSE, version |-> 0, at |-> 0]

Exists(r) == r.version > 0

OpIds == Devices \X (1..MaxWrites)

\* base_version null (a create) is 0: no row has version 0, so it never matches.
Ops == [kind: {"upsert", "delete"}, base: Nat, row: Rows, attempts: Nat,
        state: {"unacked", "acked", "collapsed", "dead"}]

Unacked(box) == {i \in 1..Len(box) : box[i].state = "unacked"}

Outcomes == {"applied", "duplicate", "superseded", "conflict", "error"}

\* An answer for the op with seq op; row is the server row of a conflict and
\* carries the new version of an applied op.
Acks == [op: Nat \ {0}, outcome: Outcomes, row: Rows]

Idle == [phase |-> "idle", sent |-> {}, acks |-> {}, page |-> NoRow, seq |-> 0]

Flights == [phase: {"idle", "sent", "serving", "answered", "refetch"},
            sent: SUBSET (Nat \ {0}), acks: SUBSET Acks, page: Rows, seq: Nat]

Servers == [row: Rows, seq: Nat, ledger: SUBSET OpIds]

Jobs == [row: Rows, seq: Nat, ledger: SUBSET OpIds, todo: SUBSET (Nat \ {0}),
         acks: SUBSET Acks, wrote: SUBSET (OpIds \X Nat)]

NoJob == [row |-> NoRow, seq |-> 0, ledger |-> {}, todo |-> {}, acks |-> {}, wrote |-> {}]

\* The seqs of a batch: the MaxBatch oldest unacked ops (pendingOpsFor).
Batch(box) ==
    {i \in Unacked(box) : Cardinality({j \in Unacked(box) : j < i}) < MaxBatch}

LeaseFree == \A d \in Devices : flight[d].phase # "serving"
-----------------------------------------------------------------------------
(* mergeTask: LWW by updated_at for the user-owned fields, monotone facts. *)

Rank(s) == IF s = "done" THEN 2 ELSE IF s = "archived" THEN 1 ELSE 0

MergeStatus(l, s, localWins) ==
    IF Rank(l.status) = 0 /\ Rank(s.status) = 0
    THEN IF localWins THEN l.status ELSE s.status
    ELSE IF Rank(l.status) >= Rank(s.status) THEN l.status ELSE s.status

Merge(l, s) ==
    LET localWins == l.at >= s.at
        user == IF localWins THEN l ELSE s
    IN [title |-> user.title, deleted |-> user.deleted,
        status |-> MergeStatus(l, s, localWins),
        version |-> s.version + 1, at |-> user.at]

(* sync_apply_task: what one op does to the row it finds. *)

\* Mutant: no version check.
OutcomeUnchecked(cur, op) ==
    IF ~Exists(cur) /\ op.kind = "delete" THEN "superseded" ELSE "applied"

Outcome(cur, op) ==
    IF ~Exists(cur) THEN IF op.kind = "delete" THEN "superseded" ELSE "applied"
    ELSE IF cur.version # op.base THEN "conflict" ELSE "applied"

\* tasks_touch: an update that leaves updated_at as it was is stamped with the
\* server's clock, later than every edit made so far.
Touched(cur, row) == IF row.at = cur.at THEN [row EXCEPT !.at = 2 * clock + 1] ELSE row

NewRow(cur, op) ==
    IF ~Exists(cur) THEN op.row                  \* create, or the self-healing insert
    ELSE IF op.kind = "delete"
         THEN Touched(cur, [cur EXCEPT !.deleted = TRUE, !.at = op.row.at,
                                       !.version = cur.version + 1])
         ELSE Touched(cur, [op.row EXCEPT !.version = cur.version + 1])
-----------------------------------------------------------------------------
Init ==
    /\ local = [d \in Devices |-> NoRow]
    /\ outbox = [d \in Devices |-> <<>>]
    /\ cursor = [d \in Devices |-> 0]
    /\ flight = [d \in Devices |-> Idle]
    /\ srv = [row |-> NoRow, seq |-> 0, ledger |-> {}]
    /\ job = NoJob
    /\ clock = 0 /\ losses = 0 /\ errors = 0
    /\ effects = {}

(* Local writes: the row and its op in one SQLite transaction. *)

Write(d, kind, next) ==
    /\ clock < MaxWrites
    /\ Cardinality(Unacked(outbox[d])) < MaxQueued
    /\ clock' = clock + 1
    /\ LET row == [next EXCEPT !.at = 2 * (clock + 1), !.version = local[d].version + 1]
       IN /\ local' = [local EXCEPT ![d] = row]
          /\ outbox' = [outbox EXCEPT ![d] = Append(@,
                [kind |-> kind, base |-> local[d].version, row |-> row,
                 attempts |-> 0, state |-> "unacked"])]
    /\ UNCHANGED <<cursor, flight, srv, job, losses, errors, effects>>

\* createTask: the id is a fresh UUID, so one device creates the row, once.
Create(d) ==
    /\ clock = 0
    /\ Write(d, "upsert", [NoRow EXCEPT !.title = clock + 1])

UpdateTask(d) ==
    /\ Exists(local[d]) /\ ~local[d].deleted
    /\ Write(d, "upsert", [local[d] EXCEPT !.title = clock + 1])

CompleteTask(d) ==
    /\ Exists(local[d]) /\ local[d].status # "done"
    /\ Write(d, "upsert", [local[d] EXCEPT !.status = "done"])

\* The plan mirror (inbox <-> scheduled) and deferTask (scheduled -> inbox).
MirrorPlan(d) ==
    /\ Exists(local[d]) /\ ~local[d].deleted
    /\ \E s \in {"inbox", "scheduled"} \ {local[d].status} :
          /\ local[d].status \in {"inbox", "scheduled"}
          /\ Write(d, "upsert", [local[d] EXCEPT !.status = s])

\* answerSkipDiagnostic, "not_important": no look at the status it replaces.
ArchiveTask(d) ==
    /\ Exists(local[d])
    /\ Write(d, "upsert", [local[d] EXCEPT !.status = "archived"])

SoftDelete(d) ==
    /\ Exists(local[d]) /\ ~local[d].deleted
    /\ Write(d, "delete", [local[d] EXCEPT !.deleted = TRUE])

Restore(d) ==
    /\ Exists(local[d]) /\ local[d].deleted
    /\ Write(d, "upsert", [local[d] EXCEPT !.deleted = FALSE])

UserWrite(d) ==
    \/ Create(d) \/ UpdateTask(d) \/ CompleteTask(d) \/ MirrorPlan(d)
    \/ ArchiveTask(d) \/ SoftDelete(d) \/ Restore(d)
-----------------------------------------------------------------------------
(* The server's half of a round trip, under the user's lease. *)

Send(d) ==
    /\ flight[d].phase = "idle"
    /\ flight' = [flight EXCEPT ![d] = [Idle EXCEPT !.phase = "sent", !.sent = Batch(outbox[d])]]
    /\ UNCHANGED <<deviceVars, srv, job, clock, losses, errors, effects>>

Serve(d) ==
    /\ flight[d].phase = "sent"
    /\ LeaseFree
    /\ flight' = [flight EXCEPT ![d].phase = "serving"]
    /\ job' = [NoJob EXCEPT !.row = srv.row, !.seq = srv.seq, !.ledger = srv.ledger,
                            !.todo = flight[d].sent]
    /\ UNCHANGED <<deviceVars, srv, clock, losses, errors, effects>>

\* 409: the lease is held for another device of the user.
Busy(d) ==
    /\ flight[d].phase = "sent"
    /\ ~LeaseFree
    /\ flight' = [flight EXCEPT ![d] = Idle]
    /\ UNCHANGED <<deviceVars, srv, job, clock, losses, errors, effects>>

\* The op the replay loop is at.
NextOp(d, i) ==
    /\ flight[d].phase = "serving"
    /\ i \in job.todo
    /\ \A j \in job.todo : i <= j
    /\ UNCHANGED <<deviceVars, flight, srv, clock, losses, effects>>

\* Mutant: the ledger is not consulted.
Forgotten(d, i) == FALSE

\* sync_ops already holds the op: an earlier answer was lost.
Known(d, i) == <<d, i>> \in job.ledger

Answer(i, outcome, row) == job.acks \cup {[op |-> i, outcome |-> outcome, row |-> row]}

\* One iteration of sync_replay: the ledger first, then sync_apply_task.
Replay(d) ==
    \E i \in job.todo :
        /\ NextOp(d, i)
        /\ errors' = errors
        /\ LET op == outbox[d][i]
               result == IF Known(d, i) THEN "duplicate" ELSE Outcome(job.row, op)
               written == IF result = "applied" THEN NewRow(job.row, op) ELSE job.row
               seq == IF result = "applied" THEN job.seq + 1 ELSE job.seq
           IN job' = [row |-> written, seq |-> seq, todo |-> job.todo \ {i},
                      acks |-> Answer(i, result, written),
                      ledger |-> IF result = "conflict" THEN job.ledger
                                 ELSE job.ledger \cup {<<d, i>>},
                      wrote |-> IF result = "applied"
                                THEN job.wrote \cup {<<<<d, i>>, seq>>} ELSE job.wrote]

\* sync_apply_task raised: the op's subtransaction is rolled back, the batch goes on.
ReplayRaises(d) ==
    \E i \in job.todo :
        /\ NextOp(d, i)
        /\ ~Known(d, i)
        /\ losses + errors < MaxFaults
        /\ errors' = errors + 1
        /\ job' = [job EXCEPT !.todo = @ \ {i}, !.acks = Answer(i, "error", NoRow)]

\* The batch commits, the rows above the cursor are read, the lease is released.
Commit(d) ==
    /\ flight[d].phase = "serving"
    /\ job.todo = {}
    /\ srv' = [row |-> job.row, seq |-> job.seq, ledger |-> job.ledger]
    /\ effects' = effects \cup job.wrote
    /\ flight' = [flight EXCEPT ![d] =
          [@ EXCEPT !.phase = "answered", !.acks = job.acks, !.seq = job.seq,
                    !.page = IF job.seq > cursor[d] THEN job.row ELSE NoRow]]
    /\ job' = NoJob
    /\ UNCHANGED <<deviceVars, clock, losses, errors>>

\* The request or the answer is lost, the server dies before it commits, or
\* the app is killed while it waits.
Lose(d) ==
    /\ flight[d].phase \in {"sent", "serving", "answered", "refetch"}
    /\ losses < MaxLosses /\ losses + errors < MaxFaults
    /\ losses' = losses + 1
    /\ flight' = [flight EXCEPT ![d] = Idle]
    /\ job' = IF flight[d].phase = "serving" THEN NoJob ELSE job
    /\ UNCHANGED <<deviceVars, srv, clock, errors, effects>>
-----------------------------------------------------------------------------
(* The device's half: applyAcks, applyPull, advanceSyncCursor. *)

\* Mutant: an op that raised counts as taken.
SettledOrRaised == {"applied", "duplicate", "superseded", "error"}

Settled == {"applied", "duplicate", "superseded"}

Answered(acks, i, outcomes) == \E a \in acks : a.op = i /\ a.outcome \in outcomes

\* The first conflict of the batch: its op absorbs the row's whole queue.
FirstConflict(acks) ==
    {a \in acks : /\ a.outcome = "conflict"
                  /\ \A b \in acks : b.outcome = "conflict" => a.op <= b.op}

Absorbs(acks, i) == \E a \in FirstConflict(acks) : a.op = i

MergedRow(d, acks) == Merge(local[d], (CHOOSE a \in FirstConflict(acks) : TRUE).row)

\* Mutant: the merged op claims the version it wants to write.
MergedBaseNext(d, acks) == MergedRow(d, acks).version

\* The version the merged row is based on: the server's.
MergedBase(d, acks) == MergedRow(d, acks).version - 1

\* What handling the acks in order leaves of the unacked op i: ops answered before
\* the first conflict are settled or counted, the rest of the queue collapses.
Handled(d, acks, i) ==
    LET op == outbox[d][i]
        before == \A c \in FirstConflict(acks) : i < c.op
        exhausted == op.attempts + 1 >= MaxAttempts
    IN IF Absorbs(acks, i)
       THEN [op EXCEPT !.kind = "upsert", !.row = MergedRow(d, acks),
                       !.base = MergedBase(d, acks)]
       ELSE IF before /\ Answered(acks, i, Settled) THEN [op EXCEPT !.state = "acked"]
       ELSE IF before /\ Answered(acks, i, {"error"}) /\ exhausted
       THEN [op EXCEPT !.state = "dead", !.attempts = op.attempts + 1]
       ELSE IF FirstConflict(acks) # {} THEN [op EXCEPT !.state = "collapsed"]
       ELSE IF Answered(acks, i, {"error"}) THEN [op EXCEPT !.attempts = op.attempts + 1]
       ELSE op

AckedOp(d, acks, i) ==
    IF outbox[d][i].state = "unacked" THEN Handled(d, acks, i) ELSE outbox[d][i]

BoxAfter(d, acks) == [i \in 1..Len(outbox[d]) |-> AckedOp(d, acks, i)]

\* adoptServerVersion: the applied op that was the last of the row's queue.
Adopted(d, acks) ==
    {a \in acks : a.outcome = "applied" /\ \A j \in Unacked(outbox[d]) : j <= a.op}

RowAfter(d, acks) ==
    IF FirstConflict(acks) # {} THEN MergedRow(d, acks)
    ELSE IF Unacked(BoxAfter(d, acks)) = {} /\ Adopted(d, acks) # {}
    THEN [local[d] EXCEPT !.version = (CHOOSE a \in Adopted(d, acks) : TRUE).row.version]
    ELSE local[d]

HandleAcks(d) == outbox' = [outbox EXCEPT ![d] = BoxAfter(d, flight[d].acks)]

\* Mutants: the page is applied before the acks; it ignores the unacked ops.
PageBeforeAcks(d) ==
    IF Exists(flight[d].page) /\ Unacked(outbox[d]) = {}
    THEN flight[d].page ELSE RowAfter(d, flight[d].acks)

PageOverPending(d) ==
    IF Exists(flight[d].page) THEN flight[d].page ELSE RowAfter(d, flight[d].acks)

\* applyPull: a row with an unacked op is left to the push.
ApplyPage(d) ==
    IF Exists(flight[d].page) /\ Unacked(BoxAfter(d, flight[d].acks)) = {}
    THEN flight[d].page ELSE RowAfter(d, flight[d].acks)

DeadLettered(d) ==
    \E i \in 1..Len(outbox[d]) :
        outbox[d][i].state = "unacked" /\ BoxAfter(d, flight[d].acks)[i].state = "dead"

\* The whole answer is handled without an await in between.
Receive(d) ==
    /\ flight[d].phase = "answered"
    /\ HandleAcks(d)
    /\ local' = [local EXCEPT ![d] = ApplyPage(d)]
    /\ cursor' = [cursor EXCEPT ![d] = IF flight[d].seq > @ THEN flight[d].seq ELSE @]
    /\ flight' = [flight EXCEPT ![d] =
          IF DeadLettered(d) THEN [Idle EXCEPT !.phase = "refetch"] ELSE Idle]
    /\ UNCHANGED <<srv, job, clock, losses, errors, effects>>

\* The app is killed between the transactions: after the acks, or after the page.
Killed(d) ==
    /\ flight[d].phase = "answered"
    /\ losses < MaxLosses /\ losses + errors < MaxFaults
    /\ losses' = losses + 1
    /\ HandleAcks(d)
    /\ \E row \in {RowAfter(d, flight[d].acks), ApplyPage(d)} :
          local' = [local EXCEPT ![d] = row]
    /\ flight' = [flight EXCEPT ![d] = Idle]
    /\ UNCHANGED <<cursor, srv, job, clock, errors, effects>>

\* refetchDeadLettered: re-read the row unless a later op owns it.
Refetch(d) ==
    /\ flight[d].phase = "refetch"
    /\ local' = IF Exists(srv.row) /\ Unacked(outbox[d]) = {}
                THEN [local EXCEPT ![d] = srv.row] ELSE local
    /\ flight' = [flight EXCEPT ![d] = Idle]
    /\ UNCHANGED <<outbox, cursor, srv, job, clock, losses, errors, effects>>

Next ==
    \E d \in Devices :
        \/ UserWrite(d)
        \/ Send(d) \/ Serve(d) \/ Busy(d) \/ Replay(d) \/ ReplayRaises(d) \/ Commit(d)
        \/ Lose(d) \/ Receive(d) \/ Killed(d) \/ Refetch(d)

Spec == Init /\ [][Next]_vars

(***************************************************************************)
(* The 60 s poll keeps every device syncing, a started replay commits      *)
(* unless it dies, an answer is handled in one turn of the event loop.     *)
(* Two devices race for the lease, so a device's turn needs strong         *)
(* fairness.  Nothing makes the user write or a message get lost.          *)
(***************************************************************************)
Fairness ==
    \A d \in Devices :
        /\ SF_vars(Send(d) /\ LeaseFree) /\ SF_vars(Serve(d))
        /\ WF_vars(Replay(d)) /\ WF_vars(Commit(d))
        /\ WF_vars(Receive(d)) /\ WF_vars(Refetch(d))

FairSpec == Spec /\ Fairness
-----------------------------------------------------------------------------
TypeOK ==
    /\ local \in [Devices -> Rows]
    /\ outbox \in [Devices -> Seq(Ops)]
    /\ cursor \in [Devices -> Nat]
    /\ flight \in [Devices -> Flights]
    /\ srv \in Servers
    /\ job \in Jobs
    /\ clock \in Nat /\ losses \in Nat /\ errors \in Nat
    /\ effects \in SUBSET (OpIds \X Nat)

\* A duplicate replay is a no-op: whatever is lost and retried, rewritten by a
\* merge or raised in between, an op changes the server's row at most once.
ExactlyOnce ==
    \A e, f \in effects : e[1] = f[1] => e = f

\* The device never forgets an op the server has not taken: an op acked without
\* a dead-letter or collapse note is in the sync_ops ledger.
AckedIsDurable ==
    \A d \in Devices : \A i \in 1..Len(outbox[d]) :
        outbox[d][i].state = "acked" => <<d, i>> \in srv.ledger

Pending(d) == Unacked(outbox[d]) # {}

DeadOps(d) == \E i \in 1..Len(outbox[d]) : outbox[d][i].state = "dead"

\* Advancing the cursor past a row the pull skipped is safe: a device that has
\* seen the row's server_seq shows that row or still has an op to push (unless
\* an op was dead-lettered, whose re-read may fail).
CursorSound ==
    \A d \in Devices :
        cursor[d] >= srv.seq /\ Exists(srv.row) =>
            Pending(d) \/ DeadOps(d) \/ local[d] = srv.row

\* Facts never regress (merge.ts): no sync lowers a completion the server holds
\* to an open status; only the user's own archiving may replace it.
DoneNeverRegresses ==
    [][srv.row.status = "done" => srv'.row.status \in {"done", "archived"}]_srv

\* The device shows what the server has; a row that never got there, its create
\* having been given up, stays on the device alone.
Agrees(d) ==
    \/ local[d] = srv.row
    \/ DeadOps(d) /\ ~Exists(srv.row)

\* Once the writes stop and the network recovers, every queue drains and every
\* device shows the server's row, also one whose op was given up and re-read.
EventuallyConverges ==
    <>[](\A d \in Devices : ~Pending(d) /\ Agrees(d))
-----------------------------------------------------------------------------
(* The outbox seen as the log of ops it promises to be. *)

OpsIn(states) ==
    {o \in OpIds : o[2] \in 1..Len(outbox[o[1]]) /\ outbox[o[1]][o[2]].state \in states}

Log == INSTANCE OpLog WITH
    Ids <- OpIds,
    queued <- OpsIn({"unacked", "acked", "collapsed", "dead"}),
    taken <- srv.ledger,
    written <- effects,
    settled <- OpsIn({"acked"}),
    dropped <- OpsIn({"collapsed", "dead"})

\* The sync implements the op log: under loss, retry, merge and kill an op is
\* queued once, taken once, and never un-settled or resumed after it was dropped.
ImplementsOpLog == Log!Spec
=============================================================================
