------------------------------ MODULE Profile ------------------------------
(***************************************************************************)
(* The profile row on two devices of one account: every edit is the whole  *)
(* row and an op with its snapshot, a conflict is merged on the device and *)
(* replayed over the server's row.                                         *)
(*                                                                         *)
(* st = [row, ops, server]: each device's row and queued ops, the server's *)
(* row.  A settings blob is the edit that wrote it, Blank before any.      *)
(***************************************************************************)
EXTENDS Integers, Sequences, SequencesExt, Grid

Owners == 1 .. 2
Blank == 0

NoRow == [version |-> 0, at |-> 0, locale |-> 0, settings |-> Never, done |-> FALSE]
NoProfiles == [row |-> [d \in Owners |-> NoRow], ops |-> [d \in Owners |-> <<>>], server |-> NoRow]

\* saveProfile: the row, and an op with the snapshot; a draft without settings leaves the stored ones.
SaveProfile(st, d, draft, at) ==
  LET old  == st.row[d]
      sent == [draft EXCEPT !.version = old.version + 1, !.at = at]
  IN [st EXCEPT !.row[d] = [sent EXCEPT !.settings = IF @ = Never THEN old.settings ELSE @],
                !.ops[d] = Append(@, [id |-> at, base |-> old.version, row |-> sent])]

\* The last onboarding step writes the row whether or not there is one.
CompleteOnboarding(st, d, at) ==
  SaveProfile(st, d, [NoRow EXCEPT !.version = st.row[d].version, !.locale = at, !.done = TRUE], at)

UpdateSettings(st, d, at) ==
  IF st.row[d] = NoRow THEN st ELSE SaveProfile(st, d, [st.row[d] EXCEPT !.settings = at], at)

UpdateLocale(st, d, at) ==
  IF st.row[d] = NoRow THEN st ELSE SaveProfile(st, d, [st.row[d] EXCEPT !.locale = at], at)

\* sync_apply_profile: the answer and the row after it.
ApplyOp(server, op) ==
  LET settings(kept) == IF op.row.settings = Never THEN kept ELSE op.row.settings
      applied == [op.row EXCEPT !.version = server.version + 1, !.done = @ \/ server.done,
                                !.settings = settings(IF server = NoRow THEN Blank ELSE server.settings)]
  IN IF server # NoRow /\ op.base # server.version
     THEN [outcome |-> "conflict", row |-> server]
     ELSE [outcome |-> "applied", row |-> applied]

\* sync_replay over a batch, one answer per op.
ApplyBatch(server, ops) ==
  FoldLeft(LAMBDA acks, op : Append(acks, ApplyOp(IF acks = <<>> THEN server ELSE Last(acks).row, op)), <<>>, ops)

\* Mutant: the server's row wins whatever the times.
MergeProfileServer(mine, server) ==
  [server EXCEPT !.done = mine.done \/ server.done, !.version = server.version + 1]

\* The later edit wins the row; completion is never undone, absent settings are the other side's.
MergeProfile(mine, server) ==
  LET winner == IF mine.at >= server.at THEN mine ELSE server
      other  == IF mine.at >= server.at THEN server ELSE mine
  IN [winner EXCEPT !.done = mine.done \/ server.done, !.version = server.version + 1,
                    !.settings = IF @ = Never THEN other.settings ELSE @]

\* The last ack adopts the server's version.
AckProfile(st, d, op, ack) ==
  LET rest == SelectSeq(st.ops[d], LAMBDA o : o.id # op.id)
  IN [st EXCEPT !.ops[d] = rest, !.row[d].version = IF rest = <<>> THEN ack.row.version ELSE @]

\* The op's snapshot is merged, and every other queued op collapses into it.
ResolveConflict(st, d, op, ack) ==
  LET merged == MergeProfile(op.row, ack.row)
  IN [st EXCEPT !.row[d] = merged, !.ops[d] = <<[op EXCEPT !.base = ack.row.version, !.row = merged]>>]

\* A push and its acks, in order; an op collapsed meanwhile is passed over.
PushRound(st, d) ==
  LET sent == st.ops[d]
      acks == ApplyBatch(st.server, sent)
      step(acc, i) ==
        CASE \A j \in DOMAIN acc.ops[d] : acc.ops[d][j].id # sent[i].id -> acc
          [] acks[i].outcome = "applied" -> AckProfile(acc, d, sent[i], acks[i])
          [] OTHER -> ResolveConflict(acc, d, sent[i], acks[i])
  IN FoldLeftDomain(step, [st EXCEPT !.server = IF acks = <<>> THEN @ ELSE Last(acks).row], sent)

\* A pulled row is taken only while none of its ops waits, and queues none.
PullProfile(st, d) ==
  IF st.ops[d] # <<>> \/ st.server = NoRow THEN st ELSE [st EXCEPT !.row[d] = st.server]

SyncProfile(st, d) == PullProfile(PushRound(PushRound(PushRound(st, d), d), d), d)
=============================================================================
