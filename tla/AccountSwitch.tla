--------------------------- MODULE AccountSwitch ---------------------------
(***************************************************************************)
(* One install, several accounts (apps/mobile/src/auth/session.ts and      *)
(* accountTransition.ts).  The mirror, the outbox and the pull cursor      *)
(* belong to the install; server_seq is one sequence for all users.  A     *)
(* sign-in by another account wipes the mirror, or, when the account that  *)
(* leaves has unsynced ops, resets the cursor and keeps the rows until a   *)
(* banner is answered.                                                     *)
(*                                                                         *)
(* A sync run reads the account once and the access token at each request, *)
(* so a sign-in can fall between any two of its steps, and a run can start *)
(* before the transition of a sign-in that has just happened.              *)
(***************************************************************************)
EXTENDS Integers, Sequences, FiniteSets

CONSTANTS
    Accounts,
    Nobody,        \* no session, no last user, and the pre-auth local placeholder
    MaxRows,       \* bound: server rows
    MaxWrites,     \* bound: local ops
    MaxSwitches,   \* bound: sign-ins by another account than the last one
    MaxOverlaps    \* bound: sign-ins during a run, runs begun before a transition

ASSUME ConstantsAssumption ==
    /\ Nobody \notin Accounts
    /\ MaxRows \in Nat /\ MaxWrites \in Nat
    /\ MaxSwitches \in Nat /\ MaxOverlaps \in Nat

VARIABLES
    rows,       \* owner of the row with each server_seq
    ledger,     \* ids of the ops the server has taken
    session,    \* the live session's account
    toHandle,   \* a SIGNED_IN event whose handleSignedIn has not run yet
    device,     \* what the install stores, see Devices
    run,        \* the sync under way
    written,    \* ids given to ops
    switches, overlaps

vars == <<rows, ledger, session, toHandle, device, run, written, switches, overlaps>>
-----------------------------------------------------------------------------
Owners == Accounts \cup {Nobody}

Ops == [owner: Owners, id: 1..MaxWrites]

\* ops: unacked; mirror: server_seqs of the mirrored rows; last: lastUserId;
\* wipe: pendingWipeUserId.
Devices == [ops: SUBSET Ops, mirror: SUBSET (1..MaxRows), cursor: 0..MaxRows,
            last: Owners, wipe: Owners]

NoRun == [phase |-> "none", uid |-> Nobody, batch |-> {}, page |-> {}, top |-> 0]

OpsOf(dev, a) == {o \in dev.ops : o.owner = a}

RowsOf(dev, a) == {s \in dev.mirror : rows[s] = a}

Current == IF session # Nobody THEN session ELSE device.last

Init ==
    /\ rows = <<>> /\ ledger = {}
    /\ session = Nobody /\ toHandle = Nobody
    /\ device = [ops |-> {}, mirror |-> {}, cursor |-> 0, last |-> Nobody, wipe |-> Nobody]
    /\ run = NoRun
    /\ written = 0 /\ switches = 0 /\ overlaps = 0
-----------------------------------------------------------------------------
\* Another device of an account writes a row.
ServerWrite(a) ==
    /\ Len(rows) < MaxRows
    /\ rows' = Append(rows, a)
    /\ UNCHANGED <<ledger, session, toHandle, device, run, written, switches, overlaps>>

\* A local write is owned by currentUserId(); nobody writes in the one turn of the
\* event loop between a sign-in and its handler.
Write ==
    /\ written < MaxWrites
    /\ toHandle = Nobody
    /\ written' = written + 1
    /\ device' = [device EXCEPT !.ops = @ \cup {[owner |-> Current, id |-> written + 1]}]
    /\ UNCHANGED <<rows, ledger, session, toHandle, run, switches, overlaps>>

\* A deep link or an OTP exchanges for a session; another one may be live.
SignIn(a) ==
    /\ session # a
    /\ toHandle = Nobody
    /\ session' = a /\ toHandle' = a
    /\ switches' = IF device.last \in {Nobody, a} THEN switches ELSE switches + 1
    /\ switches' <= MaxSwitches
    /\ overlaps' = IF run = NoRun THEN overlaps ELSE overlaps + 1
    /\ overlaps' <= MaxOverlaps
    /\ UNCHANGED <<rows, ledger, device, run, written>>

SignOut ==
    /\ session # Nobody /\ toHandle = Nobody
    /\ session' = Nobody
    /\ UNCHANGED <<rows, ledger, toHandle, device, run, written, switches, overlaps>>

\* adoptLocalData: the placeholder's ops become the account's.
Adopted(dev, a) ==
    [dev EXCEPT !.ops = {IF o.owner = Nobody THEN [o EXCEPT !.owner = a] ELSE o : o \in @}]

\* Mutant: the mirrored tables are forgotten.
WipedQueue(dev) == [dev EXCEPT !.ops = {}, !.cursor = 0]

\* wipeLocalMirror and wipeRowsOf.
Wiped(dev) == [dev EXCEPT !.ops = {}, !.mirror = {}, !.cursor = 0]

WipedOf(dev, a) ==
    [dev EXCEPT !.ops = @ \ OpsOf(dev, a), !.mirror = @ \ RowsOf(dev, a)]

\* Mutants: the cursor survives a deferred wipe; the wipe is never deferred.
TransitionKeepsCursor(dev) ==
    IF OpsOf(dev, dev.last) = {} THEN Wiped(dev) ELSE [dev EXCEPT !.wipe = dev.last]

TransitionWipes(dev) == Wiped(dev)

\* transitionToAccount: wipe now, or keep everything and ask.
Transition(dev) ==
    IF OpsOf(dev, dev.last) = {} THEN Wiped(dev)
    ELSE [dev EXCEPT !.cursor = 0, !.wipe = dev.last]

\* reconcilePendingWipe: the owner is back, nothing is left to protect, or ask again.
Reconciled(dev, a) ==
    IF dev.wipe = a THEN [dev EXCEPT !.wipe = Nobody]
    ELSE IF dev.wipe # Nobody /\ OpsOf(dev, dev.wipe) = {}
         THEN [WipedOf(dev, dev.wipe) EXCEPT !.wipe = Nobody]
         ELSE dev

HandleSignedIn ==
    /\ toHandle # Nobody
    /\ device' = [Reconciled(CASE device.last = toHandle -> device
                               [] device.last = Nobody -> Adopted(device, toHandle)
                               [] OTHER -> Transition(device), toHandle)
                  EXCEPT !.last = toHandle]
    /\ toHandle' = Nobody
    /\ UNCHANGED <<rows, ledger, session, run, written, switches, overlaps>>

\* The banner: Discard drops the other account's rows and ops, Keep asks no more.
Discard ==
    /\ device.wipe # Nobody
    /\ device' = [WipedOf(device, device.wipe) EXCEPT !.wipe = Nobody]
    /\ UNCHANGED <<rows, ledger, session, toHandle, run, written, switches, overlaps>>

Keep ==
    /\ device.wipe # Nobody
    /\ device' = [device EXCEPT !.wipe = Nobody]
    /\ UNCHANGED <<rows, ledger, session, toHandle, run, written, switches, overlaps>>
-----------------------------------------------------------------------------
\* run reads the session's account, once.
StartRun ==
    /\ run = NoRun
    /\ session # Nobody
    /\ run' = [NoRun EXCEPT !.phase = "round", !.uid = session]
    /\ overlaps' = IF toHandle = Nobody THEN overlaps ELSE overlaps + 1
    /\ overlaps' <= MaxOverlaps
    /\ UNCHANGED <<rows, ledger, session, toHandle, device, written, switches>>

\* Mutant: the queue of the install is pushed, whoever wrote it.
BatchOfAll(uid) == device.ops

\* pendingOpsFor: the ops of the run's account.
Batch(uid) == OpsOf(device, uid)

Accepted(ops) == {o \in ops : o.owner = session}

Above(s) == {t \in 1..Len(rows') : t > s /\ rows'[t] = session}

\* Mutant: the cursor names the next row to read.
TopNext(page, cursor) == IF page = {} THEN cursor ELSE 1 + CHOOSE s \in page : \A t \in page : t <= s

Top(page, cursor) == IF page = {} THEN cursor ELSE CHOOSE s \in page : \A t \in page : t <= s

\* A round: the batch, the cursor and the token are read now.  The server takes the
\* ops of the token's account, rejects the others, and pulls that account's rows.
Round ==
    /\ run.phase = "round"
    /\ session # Nobody
    /\ \E new \in {Cardinality({o \in Accepted(Batch(run.uid)) : o.id \notin ledger})} :
          /\ Len(rows) + new <= MaxRows
          /\ rows' = rows \o [i \in 1..new |-> session]
    /\ ledger' = ledger \cup {o.id : o \in Accepted(Batch(run.uid))}
    /\ LET page == Above(device.cursor) IN
       run' = [run EXCEPT !.phase = "answer", !.batch = Batch(run.uid), !.page = page,
                          !.top = Top(page, device.cursor)]
    /\ UNCHANGED <<session, toHandle, device, written, switches, overlaps>>

\* applyAcks (applied ops are acked, rejected ones dead-lettered), applyPull (rows of
\* the run's account only), advanceSyncCursor; then another round or the end.
Receive ==
    /\ run.phase = "answer"
    /\ device' = [device EXCEPT
          !.ops = {o \in @ : \A b \in run.batch : b.id # o.id},
          !.mirror = @ \cup {s \in run.page : rows[s] = run.uid},
          !.cursor = IF run.top > @ THEN run.top ELSE @]
    /\ run' \in {NoRun, [NoRun EXCEPT !.phase = "round", !.uid = run.uid]}
    /\ UNCHANGED <<rows, ledger, session, toHandle, written, switches, overlaps>>

\* The request or its answer is lost, refused, or finds no session.
Fail ==
    /\ run # NoRun
    /\ run' = NoRun
    /\ UNCHANGED <<rows, ledger, session, toHandle, device, written, switches, overlaps>>

\* The app is killed and opened again: INITIAL_SESSION is handled like a sign-in.
Kill ==
    /\ run' = NoRun
    /\ toHandle' = session
    /\ UNCHANGED <<rows, ledger, session, device, written, switches, overlaps>>

Next ==
    \/ \E a \in Accounts : ServerWrite(a) \/ SignIn(a)
    \/ Write \/ SignOut \/ HandleSignedIn \/ Discard \/ Keep
    \/ StartRun \/ Round \/ Receive \/ Fail \/ Kill

Spec == Init /\ [][Next]_vars
-----------------------------------------------------------------------------
TypeOK ==
    /\ rows \in UNION {[1..n -> Accounts] : n \in 0..MaxRows}
    /\ ledger \subseteq 1..MaxWrites
    /\ session \in Owners /\ toHandle \in Owners
    /\ device \in Devices
    /\ run.phase \in {"none", "round", "answer"} /\ run.uid \in Owners
    /\ run.batch \subseteq Ops /\ run.page \subseteq 1..MaxRows /\ run.top \in 0..MaxRows
    /\ device.cursor <= Len(rows) /\ run.top <= Len(rows)
    /\ written \in 0..MaxWrites /\ switches \in 0..MaxSwitches /\ overlaps \in 0..MaxOverlaps

\* The new account never silently skips a row below the previous one's high-water
\* mark: once a sign-in has been handled, the mirror holds every row of the account at
\* or below the cursor.
NothingSkipped ==
    session # Nobody /\ toHandle = Nobody =>
        \A s \in 1..Len(rows) :
            rows[s] = session /\ s <= device.cursor => s \in device.mirror

\* The engine pushes only the signed-in account's ops: what a request carries belongs
\* to the account of the token it is sent with.
PushedByOwner ==
    [][Round => \A o \in run'.batch : o.owner = session]_vars

\* An unsynced op leaves the device only once the server has it, or when the user
\* discards it on the banner.
UnsyncedKept ==
    [][\A o \in device.ops :
         o.id \in ledger \/ Discard \/ \E p \in device'.ops : p.id = o.id]_vars

\* The same, as far as the code gives it: until a second account change.
UnsyncedKeptOnce ==
    [][\A o \in device.ops :
         \/ o.id \in ledger \/ switches' > 1
         \/ Discard \/ \E p \in device'.ops : p.id = o.id]_vars

\* Rows of another account stay on the device only with unsynced ops of that account.
PrivacyDefault ==
    \A a \in Accounts \ {device.last} : RowsOf(device, a) # {} => OpsOf(device, a) # {}

\* An account's rows are shown to no other account, and its ops are pushed by no other.
OwnOnly == [](TypeOK /\ PrivacyDefault) /\ PushedByOwner

=============================================================================
