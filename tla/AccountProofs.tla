--------------------------- MODULE AccountProofs ---------------------------
(***************************************************************************)
(* Proofs about AccountSwitch: when accounts do not change during a sync   *)
(* run (MaxOverlaps = 0), and for any accounts, rows, ops and switches, a  *)
(* new account's mirror skips no row, its rows and ops are its own, and    *)
(* until a second change an unsynced op is kept.                           *)
(*                                                                         *)
(* Without the hypothesis the first property fails: a run that began under *)
(* the previous account moves the cursor of the install.                   *)
(***************************************************************************)
EXTENDS AccountSwitch, FiniteSetTheorems, SequenceTheorems, WellFoundedInduction, TLAPS

Runs == [phase: {"none", "round", "answer"}, uid: Owners, batch: SUBSET Ops,
         page: SUBSET (1..MaxRows), top: 0..MaxRows]

Types ==
    /\ rows \in Seq(Accounts) /\ Len(rows) <= MaxRows
    /\ ledger \subseteq 1..MaxWrites
    /\ session \in Owners /\ toHandle \in Owners
    /\ device \in Devices
    /\ device.mirror \subseteq 1..Len(rows) /\ device.cursor <= Len(rows)
    /\ run \in Runs
    /\ run.page \subseteq 1..Len(rows) /\ run.top <= Len(rows)
    /\ written \in 0..MaxWrites /\ switches \in 0..MaxSwitches /\ overlaps \in 0..MaxOverlaps
-----------------------------------------------------------------------------
(* The inductive invariant. *)

\* The session is the last account's, or its sign-in is still to be handled.
SessionInv ==
    /\ toHandle # Nobody => toHandle = session
    /\ session # Nobody => session \in {toHandle, device.last}

\* A run belongs to the last account; the session may have ended under it.
RunInv ==
    IF run.phase = "none" THEN run = NoRun
    ELSE /\ run.uid # Nobody /\ run.uid = device.last
         /\ session \in {Nobody, run.uid} /\ toHandle = Nobody

\* An install nobody has signed in to has nothing; a pending wipe is another account's.
DeviceInv ==
    /\ device.last = Nobody => device.cursor = 0 /\ device.mirror = {} /\ device.wipe = Nobody
    /\ device.wipe # Nobody => device.wipe # device.last

\* An id is given once.
OpsInv ==
    /\ \A o \in device.ops \cup run.batch : o.id <= written
    /\ \A o, p \in device.ops : o.id = p.id => o = p

\* What a run has on the wire is its own and taken, and its page lacks nothing up to its top.
AnswerInv ==
    run.phase = "answer" =>
        /\ \A b \in run.batch : /\ b.owner = run.uid /\ b.id \in ledger
                                /\ \A o \in device.ops : o.id = b.id => o = b
        /\ \A s \in 1..Len(rows) :
              rows[s] = run.uid /\ device.cursor < s /\ s <= run.top => s \in run.page

\* The mirror holds every row of the last account up to the cursor.
MirrorInv ==
    \A s \in 1..Len(rows) : rows[s] = device.last /\ s <= device.cursor => s \in device.mirror

AllMine == \A o \in device.ops : o.owner = device.last

Changing == device.last # Nobody /\ toHandle \notin {Nobody, device.last}

\* Up to the first account change every op is the last account's.
SwitchInv ==
    /\ switches = 0 => ~Changing /\ AllMine
    /\ switches = 1 /\ Changing => AllMine

Inv == /\ SessionInv /\ RunInv /\ DeviceInv /\ OpsInv /\ AnswerInv
       /\ MirrorInv /\ PrivacyDefault /\ SwitchInv
-----------------------------------------------------------------------------
(* What the operators return. *)

\* A nonempty set of numbers that has a bound has a greatest element.
LEMMA Greatest ==
    ASSUME NEW n \in Nat, NEW S \in SUBSET (0..n), S # {}
    PROVE  \E s \in S : \A t \in S : t <= s
<1> DEFINE R == OpToRel(<, Nat)
           Rest == {n - s : s \in S}
<1>1. IsWellFoundedOn(R, Nat)
  BY NatLessThanWellFounded
<1>2. \A x, y \in Nat : x < y => <<x, y>> \in R
  BY DEF OpToRel
<1>3. Rest \subseteq Nat /\ Rest # {}
  <2>1. \A s \in S : n - s \in Nat
    OBVIOUS
  <2> QED
    BY <2>1
<1> HIDE DEF R, Rest
<1>4. PICK x \in Rest : \A y \in Rest : ~(<<y, x>> \in R)
  BY <1>1, <1>3, WFMin
<1>5. PICK s \in S : x = n - s
  BY <1>4 DEF Rest
<1>6. \A t \in S : t <= s
  <2> TAKE t \in S
  <2>1. n - t \in Rest /\ n - t \in Nat /\ x \in Nat
    BY <1>3 DEF Rest
  <2>2. ~(n - t < x)
    BY <1>2, <1>4, <2>1
  <2> QED
    BY <1>5, <2>2
<1>7. QED
  BY <1>6

\* The top of a page is in it and above all of it; of an empty page it is the cursor.
LEMMA TopOfPage ==
    ASSUME NEW n \in Nat, NEW page \in SUBSET (1..n), NEW cursor \in 0..n
    PROVE  /\ Top(page, cursor) \in 0..n
           /\ page = {} => Top(page, cursor) = cursor
           /\ \A t \in page : t <= Top(page, cursor)
<1>1. CASE page = {}
  BY <1>1 DEF Top
<1>2. CASE page # {}
  <2>1. page \in SUBSET (0..n)
    OBVIOUS
  <2>2. \E s \in page : \A t \in page : t <= s
    BY <1>2, <2>1, Greatest
  <2>3. Top(page, cursor) = CHOOSE s \in page : \A t \in page : t <= s
    BY <1>2 DEF Top
  <2>4. Top(page, cursor) \in page /\ \A t \in page : t <= Top(page, cursor)
    BY <2>2, <2>3
  <2>5. Top(page, cursor) \in 1..n
    BY <2>4
  <2> HIDE DEF Top
  <2> QED
    BY <1>2, <2>4, <2>5
<1>3. QED
  BY <1>1, <1>2

\* The ops of one account are finitely many.
LEMMA OpsCount ==
    ASSUME NEW a, NEW S \in SUBSET Ops, \A o \in S : o.owner = a
    PROVE  Cardinality(S) \in Nat
<1> DEFINE f == [o \in S |-> o.id]
<1>1. MaxWrites \in Nat
  BY ConstantsAssumption
<1>2. f \in [S -> 1..MaxWrites]
  BY DEF Ops
<1>3. \A o, p \in S : f[o] = f[p] => o = p
  BY DEF Ops
<1>4. f \in Injection(S, 1..MaxWrites)
  BY <1>2, <1>3 DEF Injection, IsInjective
<1>5. IsFiniteSet(1..MaxWrites)
  BY <1>1, FS_Interval
<1>6. QED
  BY <1>4, <1>5, FS_Injection, FS_CardinalityType

\* A device after part of its ops, rows, cursor and marks have changed.
LEMMA DeviceSet ==
    ASSUME NEW dev \in Devices, NEW ops \in SUBSET Ops, NEW mirror \in SUBSET (1..MaxRows),
           NEW cursor \in 0..MaxRows, NEW last \in Owners, NEW wipe \in Owners
    PROVE  /\ [dev EXCEPT !.ops = ops] \in Devices
           /\ [dev EXCEPT !.mirror = mirror] \in Devices
           /\ [dev EXCEPT !.cursor = cursor] \in Devices
           /\ [dev EXCEPT !.last = last] \in Devices
           /\ [dev EXCEPT !.wipe = wipe] \in Devices
  BY DEF Devices

\* What becomes of a device at the first sign-in of an install.
LEMMA AdoptedDevice ==
    ASSUME NEW dev \in Devices, NEW a \in Accounts
    PROVE  /\ Adopted(dev, a) \in Devices
           /\ Adopted(dev, a).mirror = dev.mirror /\ Adopted(dev, a).cursor = dev.cursor
           /\ Adopted(dev, a).wipe = dev.wipe /\ Adopted(dev, a).last = dev.last
           /\ \A o \in Adopted(dev, a).ops : \E p \in dev.ops :
                 p.id = o.id /\ o.owner = IF p.owner = Nobody THEN a ELSE p.owner
           /\ \A p \in dev.ops : \E o \in Adopted(dev, a).ops :
                 p.id = o.id /\ o.owner = IF p.owner = Nobody THEN a ELSE p.owner
<1> DEFINE mine(o) == IF o.owner = Nobody THEN [o EXCEPT !.owner = a] ELSE o
           ops == {mine(o) : o \in dev.ops}
<1>1. \A o \in Ops : /\ mine(o) \in Ops /\ mine(o).id = o.id
                     /\ mine(o).owner = IF o.owner = Nobody THEN a ELSE o.owner
  BY DEF Ops, Owners
<1>2. dev.ops \subseteq Ops
  BY DEF Devices
<1>3. Adopted(dev, a) = [dev EXCEPT !.ops = ops]
  BY DEF Adopted
<1> HIDE DEF mine
<1>4. ops \in SUBSET Ops
  BY <1>1, <1>2
<1>5. /\ \A o \in ops : \E p \in dev.ops :
            p.id = o.id /\ o.owner = IF p.owner = Nobody THEN a ELSE p.owner
      /\ \A p \in dev.ops : \E o \in ops :
            p.id = o.id /\ o.owner = IF p.owner = Nobody THEN a ELSE p.owner
  BY <1>1, <1>2
<1> HIDE DEF ops
<1>6. QED
  BY <1>3, <1>4, <1>5 DEF Devices

\* reconcilePendingWipe takes no op away; it takes the rows of an account without ops.
LEMMA ReconciledDevice ==
    ASSUME NEW dev \in Devices, NEW a \in Owners
    PROVE  LET new == Reconciled(dev, a) IN
           /\ new \in Devices /\ new.ops = dev.ops
           /\ new.cursor = dev.cursor /\ new.last = dev.last
           /\ new.wipe \in {Nobody, dev.wipe} /\ (new.wipe = a => a = Nobody)
           /\ new.mirror \subseteq dev.mirror
           /\ \A s \in dev.mirror : s \notin new.mirror =>
                 rows[s] = dev.wipe /\ dev.wipe \notin {a, Nobody}
<1> DEFINE new == Reconciled(dev, a)
<1>1. Nobody \in Owners
  BY DEF Owners
<1>2. CASE dev.wipe = a
  <2>1. new = [dev EXCEPT !.wipe = Nobody]
    BY <1>2 DEF Reconciled
  <2> QED
    BY <1>1, <1>2, <2>1 DEF Devices
<1>3. CASE dev.wipe # a /\ dev.wipe # Nobody /\ OpsOf(dev, dev.wipe) = {}
  <2> DEFINE ops == dev.ops \ OpsOf(dev, dev.wipe)
             mirror == dev.mirror \ RowsOf(dev, dev.wipe)
  <2>1. new = [[dev EXCEPT !.ops = ops, !.mirror = mirror] EXCEPT !.wipe = Nobody]
    BY <1>3 DEF Reconciled, WipedOf
  <2>2. ops = dev.ops
    BY <1>3
  <2>3. mirror \subseteq dev.mirror /\ \A s \in dev.mirror : s \notin mirror => rows[s] = dev.wipe
    BY DEF RowsOf
  <2> HIDE DEF ops, mirror
  <2> QED
    BY <1>1, <1>3, <2>1, <2>2, <2>3 DEF Devices
<1>4. CASE dev.wipe # a /\ ~(dev.wipe # Nobody /\ OpsOf(dev, dev.wipe) = {})
  <2>1. new = dev
    BY <1>4 DEF Reconciled
  <2> QED
    BY <1>4, <2>1
<1>5. QED
  BY <1>2, <1>3, <1>4

\* transitionToAccount empties the install, or keeps all but the cursor.
LEMMA TransitionDevice ==
    ASSUME NEW dev \in Devices
    PROVE  LET new == Transition(dev) IN
           /\ new \in Devices /\ new.cursor = 0 /\ new.last = dev.last
           /\ \/ /\ OpsOf(dev, dev.last) = {} /\ new.ops = {} /\ new.mirror = {}
                 /\ new.wipe = dev.wipe
              \/ /\ OpsOf(dev, dev.last) # {} /\ new.ops = dev.ops /\ new.mirror = dev.mirror
                 /\ new.wipe = dev.last
<1>1. 0 \in 0..MaxRows
  BY ConstantsAssumption
<1>2. CASE OpsOf(dev, dev.last) = {}
  BY <1>1, <1>2 DEF Transition, Wiped, Devices
<1>3. CASE OpsOf(dev, dev.last) # {}
  BY <1>1, <1>3 DEF Transition, Devices
<1>4. QED
  BY <1>2, <1>3


\* What handleSignedIn makes of the install: it gets its new last account, loses its cursor
\* and its place at a change, everything at a change without unsynced ops, and no op otherwise.
LEMMA Handled ==
    ASSUME Types, SessionInv, DeviceInv, HandleSignedIn
    PROVE  /\ device' \in Devices /\ device'.last = toHandle /\ toHandle \in Accounts
           /\ device'.wipe # toHandle /\ device'.mirror \subseteq device.mirror
           /\ IF Changing
              THEN /\ device'.cursor = 0
                   /\ IF OpsOf(device, device.last) = {}
                      THEN device'.ops = {} /\ device'.mirror = {}
                      ELSE device'.ops = device.ops
              ELSE /\ device'.cursor = device.cursor
                   /\ IF device.last = Nobody THEN device'.ops = Adopted(device, toHandle).ops
                      ELSE device'.ops = device.ops
                   /\ \A s \in device.mirror : s \notin device'.mirror =>
                         rows[s] = device.wipe /\ device.wipe \notin {Nobody, toHandle}
<1> DEFINE a == toHandle
           dev == CASE device.last = a -> device
                    [] device.last = Nobody -> Adopted(device, a)
                    [] OTHER -> Transition(device)
           new == Reconciled(dev, a)
<1>0. device' = [new EXCEPT !.last = a]
  BY DEF HandleSignedIn
<1>1. /\ device \in Devices /\ device.last \in Owners /\ a \in Accounts /\ a \in Owners
      /\ Nobody \notin Accounts
  <2>1. toHandle # Nobody
    BY DEF HandleSignedIn
  <2>2. device \in Devices /\ toHandle \in Owners
    BY DEF Types
  <2>3. device.last \in Owners
    BY <2>2 DEF Devices
  <2> QED
    BY <2>1, <2>2, <2>3, ConstantsAssumption DEF Owners
<1>2. device.last = a => dev = device
  BY <1>1
<1>3. device.last = Nobody => dev = Adopted(device, a)
  BY <1>1
<1>4. device.last \notin {Nobody, a} => dev = Transition(device)
  BY <1>1
<1>5. Changing <=> device.last \notin {Nobody, a}
  BY <1>1 DEF Changing
<1> HIDE DEF dev
<1>6. dev \in Devices
  BY <1>1, <1>2, <1>3, <1>4, AdoptedDevice, TransitionDevice
<1>7. /\ new \in Devices /\ new.ops = dev.ops /\ new.cursor = dev.cursor
      /\ new.wipe # a /\ new.mirror \subseteq dev.mirror
      /\ \A s \in dev.mirror : s \notin new.mirror =>
            rows[s] = dev.wipe /\ dev.wipe \notin {a, Nobody}
  BY <1>1, <1>6, ReconciledDevice
<1> HIDE DEF new
<1>8. /\ device' \in Devices /\ device'.last = a /\ device'.ops = new.ops
      /\ device'.cursor = new.cursor /\ device'.wipe = new.wipe /\ device'.mirror = new.mirror
  BY <1>0, <1>1, <1>7 DEF Devices
<1>9. CASE Changing
  <2>1. dev = Transition(device) /\ dev.cursor = 0 /\ dev.mirror \subseteq device.mirror
        /\ IF OpsOf(device, device.last) = {} THEN dev.ops = {} /\ dev.mirror = {}
           ELSE dev.ops = device.ops
    BY <1>1, <1>4, <1>5, <1>9, TransitionDevice
  <2> QED
    BY <1>1, <1>7, <1>8, <1>9, <2>1
<1>10. CASE ~Changing
  <2>1. /\ dev.cursor = device.cursor /\ dev.mirror = device.mirror /\ dev.wipe = device.wipe
        /\ IF device.last = Nobody THEN dev.ops = Adopted(device, a).ops
           ELSE dev.ops = device.ops
    BY <1>1, <1>2, <1>3, <1>5, <1>10, AdoptedDevice
  <2> QED
    BY <1>1, <1>7, <1>8, <1>10, <2>1
<1>11. QED
  BY <1>9, <1>10
-----------------------------------------------------------------------------
(* Types. *)

LEMMA InitTypes == Init => Types
<1> SUFFICES ASSUME Init PROVE Types
  OBVIOUS
<1>1. 0 \in 0..MaxRows /\ 0 \in 0..MaxWrites /\ 0 \in 0..MaxSwitches /\ 0 \in 0..MaxOverlaps
  BY ConstantsAssumption
<1>2. rows \in Seq(Accounts) /\ Len(rows) = 0
  BY EmptySeq DEF Init
<1>3. Nobody \in Owners
  BY DEF Owners
<1>4. device \in Devices /\ device.mirror = {} /\ device.cursor = 0
  BY <1>1, <1>3 DEF Init, Devices
<1>5. run \in Runs /\ run.page = {} /\ run.top = 0
  BY <1>1, <1>3 DEF Init, Runs, NoRun
<1>6. QED
  BY <1>1, <1>2, <1>3, <1>4, <1>5, ConstantsAssumption DEF Init, Types

\* A round adds rows of the session's account behind those that are there.
LEMMA RoundRows ==
    ASSUME Types, Round
    PROVE  /\ rows' \in Seq(Accounts) /\ Len(rows') <= MaxRows /\ Len(rows) <= Len(rows')
           /\ \A s \in 1..Len(rows) : rows'[s] = rows[s]
           /\ session \in Accounts
<1>1. session \in Accounts
  BY DEF Round, Types, Owners
<1> DEFINE fresh == {o \in Accepted(Batch(run.uid)) : o.id \notin ledger}
           new == Cardinality(fresh)
           more == [i \in 1..new |-> session]
<1>2. rows' = rows \o more /\ Len(rows) + new <= MaxRows
  BY DEF Round
<1>3. fresh \in SUBSET Ops /\ \A o \in fresh : o.owner = run.uid
  BY DEF Accepted, Batch, OpsOf, Types, Devices
<1> HIDE DEF fresh
<1>4. new \in Nat
  BY <1>3, OpsCount
<1> HIDE DEF new
<1>5. more \in Seq(Accounts) /\ Len(more) = new
  BY <1>1, <1>4
<1> HIDE DEF more
<1>6. rows \in Seq(Accounts) /\ Len(rows) \in Nat
  BY LenProperties DEF Types
<1>7. /\ rows' \in Seq(Accounts) /\ Len(rows') = Len(rows) + new
      /\ \A s \in 1..Len(rows) : rows'[s] = rows[s]
  <2>1. /\ rows \o more \in Seq(Accounts) /\ Len(rows \o more) = Len(rows) + Len(more)
        /\ \A i \in 1 .. Len(rows) + Len(more) : (rows \o more)[i] =
                     IF i <= Len(rows) THEN rows[i] ELSE more[i - Len(rows)]
    BY <1>5, <1>6, ConcatProperties
  <2>2. \A s \in 1..Len(rows) : s \in 1..Len(rows) + Len(more) /\ s <= Len(rows)
    BY <1>4, <1>5, <1>6
  <2> QED
    BY <1>2, <1>5, <2>1, <2>2
<1>8. QED
  BY <1>1, <1>2, <1>4, <1>6, <1>7, ConstantsAssumption

\* What a round asks for and is answered.
LEMMA RoundRun ==
    ASSUME Types, Round
    PROVE  /\ run' \in Runs /\ run'.phase = "answer" /\ run'.uid = run.uid
           /\ run'.batch = OpsOf(device, run.uid)
           /\ run'.page = {t \in 1..Len(rows') : t > device.cursor /\ rows'[t] = session}
           /\ run'.top <= Len(rows') /\ (run'.page = {} => run'.top = device.cursor)
           /\ \A t \in run'.page : t <= run'.top
<1> DEFINE page == Above(device.cursor)
           top == Top(page, device.cursor)
<1>1. run' = [run EXCEPT !.phase = "answer", !.batch = Batch(run.uid), !.page = page, !.top = top]
  BY DEF Round
<1>2. page = {t \in 1..Len(rows') : t > device.cursor /\ rows'[t] = session}
  BY DEF Above
<1>3. /\ Len(rows') \in Nat /\ Len(rows') <= MaxRows /\ MaxRows \in Nat
      /\ device.cursor \in Nat /\ device.cursor <= Len(rows')
  BY RoundRows, LenProperties, ConstantsAssumption DEF Types, Devices
<1>4. page \in SUBSET (1..Len(rows')) /\ device.cursor \in 0..Len(rows')
  BY <1>2, <1>3
<1> HIDE DEF page
<1>5. /\ top \in 0..Len(rows') /\ (page = {} => top = device.cursor)
      /\ \A t \in page : t <= top
  BY <1>3, <1>4, TopOfPage
<1> HIDE DEF top
<1>6. page \in SUBSET (1..MaxRows) /\ top \in 0..MaxRows
  BY <1>3, <1>4, <1>5
<1>7. Batch(run.uid) = OpsOf(device, run.uid) /\ Batch(run.uid) \in SUBSET Ops
  BY DEF Batch, OpsOf, Types, Devices
<1>8. /\ run'.phase = "answer" /\ run'.uid = run.uid /\ run'.batch = OpsOf(device, run.uid)
      /\ run'.page = page /\ run'.top = top /\ run' \in Runs
  BY <1>1, <1>6, <1>7 DEF Types, Runs
<1>9. QED
  BY <1>2, <1>3, <1>5, <1>8

LEMMA NextTypes == Types /\ SessionInv /\ DeviceInv /\ [Next]_vars => Types'
<1> SUFFICES ASSUME Types, SessionInv, DeviceInv, [Next]_vars PROVE Types'
  OBVIOUS
<1>1. /\ Len(rows) \in Nat /\ MaxRows \in Nat /\ MaxWrites \in Nat /\ MaxSwitches \in Nat
      /\ MaxOverlaps \in Nat /\ Nobody \in Owners /\ Accounts \subseteq Owners
      /\ device.last \in Owners
  BY ConstantsAssumption, LenProperties DEF Types, Devices, Owners
<1>2. NoRun \in Runs /\ NoRun.page = {} /\ NoRun.top = 0
  BY <1>1 DEF NoRun, Runs
<1>3. CASE UNCHANGED vars
  BY <1>3 DEF vars, Types
<1>4. ASSUME NEW a \in Accounts, ServerWrite(a) PROVE Types'
  <2>1. /\ rows' \in Seq(Accounts) /\ Len(rows') = Len(rows) + 1
        /\ Len(rows) < MaxRows /\ Len(rows) + 1 <= MaxRows
    BY <1>1, <1>4, AppendProperties DEF ServerWrite, Types
  <2>2. 1..Len(rows) \subseteq 1..Len(rows')
    BY <1>1, <2>1
  <2>3. device.cursor \in Nat /\ run.top \in Nat
    BY DEF Types, Devices, Runs
  <2> QED
    BY <1>1, <1>4, <2>1, <2>2, <2>3 DEF ServerWrite, Types
<1>5. CASE Write
  <2>1. [owner |-> Current, id |-> written + 1] \in Ops /\ written + 1 \in 0..MaxWrites
    BY <1>1, <1>5 DEF Write, Types, Ops, Current
  <2>2. /\ device' \in Devices /\ device'.mirror = device.mirror
        /\ device'.cursor = device.cursor
    BY <1>5, <2>1 DEF Write, Types, Devices
  <2> QED
    BY <1>5, <2>1, <2>2 DEF Write, Types
<1>6. ASSUME NEW a \in Accounts, SignIn(a) PROVE Types'
  <2>1. switches' \in 0..MaxSwitches /\ overlaps' \in 0..MaxOverlaps
    BY <1>1, <1>6 DEF SignIn, Types
  <2> QED
    BY <1>1, <1>6, <2>1 DEF SignIn, Types
<1>7. CASE SignOut
  BY <1>1, <1>7 DEF SignOut, Types
<1>8. CASE HandleSignedIn
  <2>1. device' \in Devices /\ device'.mirror \subseteq device.mirror
        /\ device'.cursor \in {0, device.cursor}
    BY <1>8, Handled
  <2> QED
    BY <1>1, <1>8, <2>1 DEF HandleSignedIn, Types
<1>9. CASE Discard \/ Keep
  <2>1. /\ device' \in Devices /\ device'.mirror \subseteq device.mirror
        /\ device'.cursor = device.cursor
    <3>1. CASE Discard
      <4>1. /\ device.ops \ OpsOf(device, device.wipe) \in SUBSET Ops
            /\ device.mirror \ RowsOf(device, device.wipe) \in SUBSET (1..MaxRows)
        BY DEF Types, Devices
      <4> QED
        BY <1>1, <3>1, <4>1 DEF Discard, WipedOf, Types, Devices
    <3>2. CASE Keep
      BY <1>1, <3>2 DEF Keep, Types, Devices
    <3> QED
      BY <1>9, <3>1, <3>2
  <2> QED
    BY <1>9, <2>1 DEF Discard, Keep, Types
<1>10. CASE StartRun
  <2>1. run' \in Runs /\ run'.page = {} /\ run'.top = 0
    BY <1>1, <1>10 DEF StartRun, Types, Runs, NoRun
  <2>2. overlaps' \in 0..MaxOverlaps
    BY <1>1, <1>10 DEF StartRun, Types
  <2> QED
    BY <1>1, <1>10, <2>1, <2>2 DEF StartRun, Types
<1>11. CASE Round
  <2>1. /\ rows' \in Seq(Accounts) /\ Len(rows') <= MaxRows /\ Len(rows) <= Len(rows')
        /\ Len(rows') \in Nat
    BY <1>11, RoundRows, LenProperties
  <2>2. run' \in Runs /\ run'.page \subseteq 1..Len(rows') /\ run'.top <= Len(rows')
    BY <1>11, RoundRun
  <2>3. ledger' \subseteq 1..MaxWrites
    BY <1>11 DEF Round, Accepted, Batch, OpsOf, Types, Devices, Ops
  <2>4. 1..Len(rows) \subseteq 1..Len(rows') /\ device.cursor \in Nat
    BY <1>1, <2>1 DEF Types, Devices
  <2>5. UNCHANGED <<session, toHandle, device, written, switches, overlaps>>
    BY <1>11 DEF Round
  <2> QED
    BY <1>1, <2>1, <2>2, <2>3, <2>4, <2>5 DEF Types
<1>12. CASE Receive
  <2>1. run' \in Runs /\ run'.page = {} /\ run'.top = 0
    BY <1>2, <1>12 DEF Receive, NoRun, Types, Runs
  <2> DEFINE ops == {o \in device.ops : \A b \in run.batch : b.id # o.id}
             mirror == device.mirror \cup {s \in run.page : rows[s] = run.uid}
             cursor == IF run.top > device.cursor THEN run.top ELSE device.cursor
  <2>2. device' = [device EXCEPT !.ops = ops, !.mirror = mirror, !.cursor = cursor]
    BY <1>12 DEF Receive
  <2>3. /\ ops \in SUBSET Ops /\ mirror \in SUBSET (1..MaxRows) /\ mirror \subseteq 1..Len(rows)
        /\ cursor \in 0..MaxRows /\ cursor <= Len(rows)
    BY DEF Types, Devices, Runs
  <2> HIDE DEF ops, mirror, cursor
  <2>4. device' \in Devices /\ device'.mirror = mirror /\ device'.cursor = cursor
    BY <2>2, <2>3 DEF Types, Devices
  <2> QED
    BY <1>1, <1>12, <2>1, <2>3, <2>4 DEF Receive, Types
<1>13. CASE Fail \/ Kill
  <2>1. run' = NoRun /\ toHandle' \in {toHandle, session}
        /\ UNCHANGED <<rows, ledger, session, device, written, switches, overlaps>>
    BY <1>13 DEF Fail, Kill
  <2>2. run' \in Runs /\ run'.page = {} /\ run'.top = 0
    BY <1>2, <2>1
  <2> QED
    BY <1>1, <2>1, <2>2 DEF Types
<1>14. QED
  BY <1>3, <1>4, <1>5, <1>6, <1>7, <1>8, <1>9, <1>10, <1>11, <1>12, <1>13 DEF Next
-----------------------------------------------------------------------------
(* The steps preserve the invariant, when accounts do not change during a run. *)

Calm == Types /\ Inv /\ MaxOverlaps = 0

LEMMA Facts ==
    ASSUME Types
    PROVE  /\ Len(rows) \in Nat /\ device.cursor \in Nat /\ device.last \in Owners
           /\ device.wipe \in Owners /\ device.ops \subseteq Ops /\ run.batch \subseteq Ops
           /\ run.top \in Nat /\ written \in Nat /\ switches \in Nat
           /\ Nobody \notin Accounts /\ Owners = Accounts \cup {Nobody}
           /\ \A o \in Ops : o.id \in Nat /\ o.owner \in Owners
           /\ \A s \in 1..Len(rows) : rows[s] \in Accounts
           /\ NoRun.phase = "none" /\ NoRun.batch = {}
  BY ConstantsAssumption, LenProperties DEF Types, Devices, Runs, Owners, Ops, NoRun

\* A step that only starts or ends a session, while no run is under way, or ends the run.
LEMMA SessionSteps ==
    ASSUME Calm, UNCHANGED <<rows, ledger, device, written>>, run' = NoRun,
           SessionInv', SwitchInv'
    PROVE  Inv'
<1>1. Types /\ Inv
  BY DEF Calm
<1>2. RunInv' /\ AnswerInv'
  BY <1>1, Facts DEF RunInv, AnswerInv
<1>3. DeviceInv' /\ MirrorInv' /\ PrivacyDefault'
  BY <1>1 DEF Inv, DeviceInv, MirrorInv, PrivacyDefault, RowsOf, OpsOf
<1>4. OpsInv'
  BY <1>1, Facts DEF Inv, OpsInv
<1>5. QED
  BY <1>2, <1>3, <1>4 DEF Inv

LEMMA SignInInv ==
    ASSUME Calm, NEW a \in Accounts, SignIn(a)
    PROVE  Inv'
<1>1. Types /\ SessionInv /\ RunInv /\ SwitchInv /\ overlaps = 0
  BY DEF Calm, Inv, Types
<1>2. /\ UNCHANGED <<rows, ledger, device, written, run>> /\ toHandle = Nobody
      /\ session' = a /\ toHandle' = a /\ run = NoRun /\ a # Nobody
      /\ switches' = IF device.last \in {Nobody, a} THEN switches ELSE switches + 1
  BY <1>1, Facts DEF SignIn, Calm
<1>3. SessionInv'
  BY <1>2 DEF SessionInv
<1>4. Changing' <=> device.last \notin {Nobody, a}
  BY <1>2 DEF Changing
<1>5. SwitchInv'
  BY <1>1, <1>2, <1>4, Facts DEF SwitchInv, AllMine
<1>6. QED
  BY <1>2, <1>3, <1>5, SessionSteps

LEMMA SessionEndInv ==
    ASSUME Calm, SignOut \/ Fail \/ Kill
    PROVE  Inv'
<1>1. Types /\ SessionInv /\ RunInv /\ SwitchInv
  BY DEF Calm, Inv
<1>2. CASE SignOut
  <2>1. /\ UNCHANGED <<rows, ledger, device, written, run, toHandle, switches>>
        /\ session' = Nobody /\ toHandle = Nobody
    BY <1>2 DEF SignOut
  <2>2. SessionInv' /\ SwitchInv'
    BY <1>1, <2>1 DEF SessionInv, SwitchInv, Changing, AllMine
  <2>3. RunInv'
    BY <1>1, <2>1 DEF RunInv
  <2>4. DeviceInv' /\ MirrorInv' /\ PrivacyDefault' /\ OpsInv' /\ AnswerInv'
    BY <2>1 DEF Calm, Inv, DeviceInv, MirrorInv, PrivacyDefault, RowsOf, OpsOf, OpsInv, AnswerInv
  <2> QED
    BY <2>2, <2>3, <2>4 DEF Inv
<1>3. CASE Fail \/ Kill
  <2>1. /\ UNCHANGED <<rows, ledger, device, written, session, switches>>
        /\ run' = NoRun /\ toHandle' \in {toHandle, session}
    BY <1>3 DEF Fail, Kill
  <2>2. SessionInv' /\ (Changing' => Changing)
    BY <1>1, <2>1 DEF SessionInv, Changing
  <2>3. SwitchInv'
    BY <1>1, <2>1, <2>2 DEF SwitchInv, AllMine
  <2> QED
    BY <2>1, <2>2, <2>3, SessionSteps
<1>4. QED
  BY <1>2, <1>3

LEMMA ServerWriteInv ==
    ASSUME Calm, NEW a \in Accounts, ServerWrite(a)
    PROVE  Inv'
<1>1. /\ Types /\ Inv
      /\ UNCHANGED <<ledger, session, toHandle, device, run, written, switches>>
      /\ Len(rows') = Len(rows) + 1 /\ \A s \in 1..Len(rows) : rows'[s] = rows[s]
  <2>1. rows \in Seq(Accounts)
    BY DEF Calm, Types
  <2> QED
    BY <2>1, AppendProperties DEF ServerWrite, Calm
<1>2. SessionInv' /\ RunInv' /\ DeviceInv' /\ OpsInv' /\ SwitchInv'
  BY <1>1 DEF Inv, SessionInv, RunInv, DeviceInv, OpsInv, SwitchInv, Changing, AllMine
<1>3. \A s \in 1..Len(rows') : s \in 1..Len(rows) \/ s > Len(rows)
  BY <1>1, Facts
<1>4. AnswerInv'
  BY <1>1, <1>3, Facts DEF Inv, AnswerInv, Types
<1>5. MirrorInv'
  BY <1>1, <1>3, Facts DEF Inv, MirrorInv, Types
<1>6. \A b \in Accounts : RowsOf(device, b)' = RowsOf(device, b)
  BY <1>1 DEF RowsOf, Types
<1>7. PrivacyDefault'
  BY <1>1, <1>6 DEF Inv, PrivacyDefault, OpsOf
<1>8. QED
  BY <1>2, <1>4, <1>5, <1>7 DEF Inv

LEMMA WriteInv ==
    ASSUME Calm, Write
    PROVE  Inv'
<1> DEFINE op == [owner |-> Current, id |-> written + 1]
<1>1. Types /\ Inv /\ toHandle = Nobody
  BY DEF Calm, Write
<1>2. /\ UNCHANGED <<rows, ledger, session, toHandle, run, switches>> /\ written' = written + 1
      /\ device'.ops = device.ops \cup {op} /\ device'.mirror = device.mirror
      /\ device'.cursor = device.cursor /\ device'.last = device.last
      /\ device'.wipe = device.wipe
  BY <1>1 DEF Write, Types, Devices
<1>3. op.owner = device.last /\ op.id = written + 1
  BY <1>1 DEF Current, Inv, SessionInv
<1> HIDE DEF op
<1>4. SessionInv' /\ RunInv' /\ DeviceInv' /\ MirrorInv'
  BY <1>1, <1>2 DEF Inv, SessionInv, RunInv, DeviceInv, MirrorInv
<1>5. OpsInv'
  BY <1>1, <1>2, <1>3, Facts DEF Inv, OpsInv
<1>6. AnswerInv'
  BY <1>1, <1>2, <1>3, Facts DEF Inv, AnswerInv, OpsInv
<1>7. PrivacyDefault'
  BY <1>1, <1>2 DEF Inv, PrivacyDefault, RowsOf, OpsOf
<1>8. SwitchInv'
  BY <1>1, <1>2, <1>3 DEF Inv, SwitchInv, Changing, AllMine
<1>9. QED
  BY <1>4, <1>5, <1>6, <1>7, <1>8 DEF Inv

LEMMA HandledInv ==
    ASSUME Calm, HandleSignedIn
    PROVE  Inv'
<1>1. Types /\ Inv /\ SessionInv /\ DeviceInv /\ toHandle = session /\ toHandle' = Nobody
  BY DEF Calm, Inv, SessionInv, HandleSignedIn
<1>2. /\ UNCHANGED <<rows, ledger, session, run, written, switches>>
      /\ device' \in Devices /\ device'.last = toHandle /\ toHandle \in Accounts
      /\ device'.wipe # toHandle /\ device'.mirror \subseteq device.mirror
  BY <1>1, Handled DEF HandleSignedIn
<1>3. Changing =>
        /\ device'.cursor = 0
        /\ IF OpsOf(device, device.last) = {} THEN device'.ops = {} /\ device'.mirror = {}
           ELSE device'.ops = device.ops
  BY <1>1, Handled
<1>4. ~Changing =>
        /\ device'.cursor = device.cursor
        /\ IF device.last = Nobody THEN device'.ops = Adopted(device, toHandle).ops
           ELSE device'.ops = device.ops
        /\ \A s \in device.mirror : s \notin device'.mirror =>
              rows[s] = device.wipe /\ device.wipe \notin {Nobody, toHandle}
  BY <1>1, Handled
<1>5. Changing <=> device.last \notin {Nobody, toHandle}
  BY <1>1, <1>2, Facts DEF Changing
<1>6. /\ device \in Devices /\ device'.ops \subseteq Ops
      /\ \A o \in Adopted(device, toHandle).ops : \E p \in device.ops :
            p.id = o.id /\ o.owner = IF p.owner = Nobody THEN toHandle ELSE p.owner
  BY <1>1, <1>2, AdoptedDevice DEF Types, Devices
<1>7. run.phase = "none" /\ run = NoRun
  BY <1>1, <1>2, Facts DEF Inv, RunInv
<1>8. SessionInv' /\ RunInv' /\ AnswerInv' /\ DeviceInv'
  BY <1>1, <1>2, <1>7, Facts DEF SessionInv, RunInv, AnswerInv, DeviceInv
<1>9. \A o \in device'.ops : \E p \in device.ops : p.id = o.id /\ p.owner \in {Nobody, o.owner}
  BY <1>3, <1>4, <1>6
<1>10. OpsInv'
  <2>1. \A o \in device'.ops \cup run'.batch : o.id <= written'
    BY <1>1, <1>2, <1>7, <1>9, Facts DEF Inv, OpsInv
  <2>2. ASSUME NEW o \in device'.ops, NEW q \in device'.ops, o.id = q.id PROVE o = q
    <3>1. CASE device'.ops = device.ops
      BY <1>1, <2>2, <3>1 DEF Inv, OpsInv
    <3>2. CASE device'.ops = Adopted(device, toHandle).ops
      <4>1. PICK x \in device.ops :
                x.id = o.id /\ o.owner = IF x.owner = Nobody THEN toHandle ELSE x.owner
        BY <1>6, <3>2
      <4>2. PICK y \in device.ops :
                y.id = q.id /\ q.owner = IF y.owner = Nobody THEN toHandle ELSE y.owner
        BY <1>6, <3>2
      <4>3. x = y
        BY <1>1, <2>2, <4>1, <4>2 DEF Inv, OpsInv
      <4>4. o.owner = q.owner /\ o \in Ops /\ q \in Ops
        BY <1>6, <4>1, <4>2, <4>3
      <4> QED
        BY <2>2, <4>4 DEF Ops
    <3>3. CASE device'.ops = {}
      BY <3>3
    <3> QED
      BY <1>3, <1>4, <3>1, <3>2, <3>3
  <2> QED
    BY <2>1, <2>2 DEF OpsInv
<1>11. MirrorInv'
  <2> SUFFICES ASSUME NEW s \in 1..Len(rows), rows[s] = toHandle, s <= device'.cursor
               PROVE  s \in device'.mirror
    BY <1>2 DEF MirrorInv
  <2>1. device'.cursor = device.cursor /\ device.last = toHandle
    BY <1>1, <1>3, <1>4, <1>5, Facts DEF DeviceInv
  <2>2. s \in device.mirror /\ ~Changing
    BY <1>1, <1>5, <2>1 DEF Inv, MirrorInv
  <2> QED
    BY <1>4, <2>2
<1>12. PrivacyDefault'
  <2> SUFFICES ASSUME NEW a \in Accounts \ {toHandle}, NEW s \in device'.mirror, rows[s] = a
               PROVE  OpsOf(device, a)' # {}
    BY <1>2 DEF PrivacyDefault, RowsOf
  <2>1. RowsOf(device, a) # {}
    BY <1>2 DEF RowsOf
  <2>2. device'.ops = device.ops
    <3>1. device.last # Nobody
      BY <1>1, <1>2 DEF DeviceInv
    <3> QED
      BY <1>3, <1>4, <3>1
  <2>3. OpsOf(device, a) # {}
    <3>1. CASE a = device.last
      BY <1>1, <1>3, <1>5, <3>1, Facts
    <3>2. CASE a # device.last
      BY <1>1, <2>1, <3>2 DEF Inv, PrivacyDefault
    <3> QED
      BY <3>1, <3>2
  <2> QED
    BY <2>2, <2>3 DEF OpsOf
<1>13. SwitchInv'
  <2>1. ~Changing'
    BY <1>1 DEF Changing
  <2>2. ASSUME switches = 0 PROVE AllMine'
    <3>1. ~Changing /\ AllMine
      BY <1>1, <2>2 DEF Inv, SwitchInv
    <3>2. device.last \in {Nobody, toHandle}
      BY <1>5, <3>1
    <3>3. ASSUME NEW o \in device'.ops PROVE o.owner = toHandle
      <4>1. CASE device.last = Nobody
        BY <1>4, <1>6, <3>1, <3>3, <4>1 DEF AllMine
      <4>2. CASE device.last # Nobody
        BY <1>4, <3>1, <3>2, <3>3, <4>2 DEF AllMine
      <4> QED
        BY <4>1, <4>2
    <3> QED
      BY <1>2, <3>3 DEF AllMine
  <2> QED
    BY <1>2, <2>1, <2>2 DEF SwitchInv
<1>14. QED
  BY <1>8, <1>10, <1>11, <1>12, <1>13 DEF Inv

LEMMA BannerInv ==
    ASSUME Calm, Discard \/ Keep
    PROVE  Inv'
<1>1. Types /\ Inv
  BY DEF Calm
<1>2. /\ UNCHANGED <<rows, ledger, session, toHandle, run, written, switches>>
      /\ device'.wipe = Nobody /\ device'.last = device.last /\ device'.cursor = device.cursor
      /\ device.wipe # Nobody
      /\ \/ device'.ops = device.ops /\ device'.mirror = device.mirror
         \/ /\ device'.ops = device.ops \ OpsOf(device, device.wipe)
            /\ device'.mirror = device.mirror \ RowsOf(device, device.wipe)
  BY <1>1 DEF Discard, Keep, WipedOf, Types, Devices
<1>3. device.wipe # device.last
  BY <1>1, <1>2 DEF Inv, DeviceInv
<1>4. device'.ops \subseteq device.ops
  BY <1>2
<1>5. SessionInv' /\ RunInv' /\ OpsInv' /\ AnswerInv' /\ SwitchInv'
  BY <1>1, <1>2, <1>4
     DEF Inv, SessionInv, RunInv, OpsInv, AnswerInv, SwitchInv, Changing, AllMine
<1>6. DeviceInv'
  BY <1>1, <1>2 DEF Inv, DeviceInv
<1>7. MirrorInv'
  BY <1>1, <1>2, <1>3 DEF Inv, MirrorInv, RowsOf
<1>8. PrivacyDefault'
  BY <1>1, <1>2 DEF Inv, PrivacyDefault, RowsOf, OpsOf
<1>9. QED
  BY <1>5, <1>6, <1>7, <1>8 DEF Inv

LEMMA StartRunInv ==
    ASSUME Calm, StartRun
    PROVE  Inv'
<1>1. Types /\ Inv /\ overlaps = 0
  BY DEF Calm, Types
<1>2. /\ UNCHANGED <<rows, ledger, session, toHandle, device, written, switches>>
      /\ toHandle = Nobody /\ session # Nobody
      /\ run'.phase = "round" /\ run'.uid = session /\ run'.batch = {}
  BY <1>1 DEF StartRun, NoRun, Calm
<1>3. session = device.last
  BY <1>1, <1>2 DEF Inv, SessionInv
<1>4. SessionInv' /\ RunInv' /\ AnswerInv'
  BY <1>1, <1>2, <1>3 DEF Inv, SessionInv, RunInv, AnswerInv
<1>5. DeviceInv' /\ OpsInv' /\ MirrorInv' /\ PrivacyDefault' /\ SwitchInv'
  BY <1>1, <1>2 DEF Inv, DeviceInv, OpsInv, MirrorInv, PrivacyDefault, RowsOf, OpsOf,
                    SwitchInv, Changing, AllMine
<1>6. QED
  BY <1>4, <1>5 DEF Inv

LEMMA RoundInv ==
    ASSUME Calm, Round
    PROVE  Inv'
<1>1. Types /\ Inv /\ UNCHANGED <<session, toHandle, device, written, switches>>
  BY DEF Calm, Round
<1>2. /\ \A s \in 1..Len(rows) : rows'[s] = rows[s]
      /\ Len(rows) <= Len(rows') /\ session \in Accounts
  BY <1>1, RoundRows
<1>3. /\ run'.phase = "answer" /\ run'.uid = run.uid
      /\ run'.batch = OpsOf(device, run.uid)
      /\ run'.page = {t \in 1..Len(rows') : t > device.cursor /\ rows'[t] = session}
  BY <1>1, RoundRun
<1>4. /\ run.uid = session /\ run.uid = device.last /\ run.uid # Nobody /\ toHandle = Nobody
  BY <1>1, <1>2, Facts DEF Inv, RunInv, Round
<1>5. SessionInv' /\ RunInv' /\ DeviceInv' /\ SwitchInv'
  BY <1>1, <1>3, <1>4
     DEF Inv, SessionInv, RunInv, DeviceInv, SwitchInv, Changing, AllMine
<1>6. OpsInv'
  BY <1>1, <1>3 DEF Inv, OpsInv, OpsOf
<1>7. \A b \in run'.batch : b.owner = session /\ b.id \in ledger'
  BY <1>3, <1>4 DEF Round, Accepted, Batch, OpsOf
<1>8. AnswerInv'
  BY <1>1, <1>3, <1>4, <1>6, <1>7 DEF AnswerInv, OpsInv, OpsOf
<1>9. device.mirror \subseteq 1..Len(rows) /\ device.cursor <= Len(rows)
  BY <1>1 DEF Types
<1>10. MirrorInv'
  BY <1>1, <1>2, <1>9, Facts DEF Inv, MirrorInv
<1>11. \A a \in Accounts : RowsOf(device, a)' = RowsOf(device, a)
  BY <1>1, <1>2, <1>9 DEF RowsOf
<1>12. PrivacyDefault'
  BY <1>1, <1>11 DEF Inv, PrivacyDefault, OpsOf
<1>13. QED
  BY <1>5, <1>6, <1>8, <1>10, <1>12 DEF Inv

LEMMA ReceiveInv ==
    ASSUME Calm, Receive
    PROVE  Inv'
<1>1. /\ Types /\ Inv /\ run.phase = "answer"
      /\ UNCHANGED <<rows, ledger, session, toHandle, written, switches>>
  BY DEF Calm, Receive
<1>2. /\ device'.ops = {o \in device.ops : \A b \in run.batch : b.id # o.id}
      /\ device'.mirror = device.mirror \cup {s \in run.page : rows[s] = run.uid}
      /\ device'.cursor = IF run.top > device.cursor THEN run.top ELSE device.cursor
      /\ device'.last = device.last /\ device'.wipe = device.wipe
  BY <1>1 DEF Receive, Types, Devices
<1>3. /\ run'.batch = {}
      /\ run' = NoRun \/ (run'.phase = "round" /\ run'.uid = run.uid)
  <2>1. CASE run' = NoRun
    BY <2>1 DEF NoRun
  <2>2. CASE run' = [NoRun EXCEPT !.phase = "round", !.uid = run.uid]
    BY <2>2 DEF NoRun
  <2> QED
    BY <2>1, <2>2 DEF Receive
<1>4. /\ run.uid = device.last /\ run.uid # Nobody /\ session \in {Nobody, run.uid}
      /\ toHandle = Nobody
  BY <1>1 DEF Inv, RunInv
<1>5. SessionInv' /\ RunInv' /\ AnswerInv' /\ DeviceInv'
  BY <1>1, <1>2, <1>3, <1>4, Facts DEF Inv, SessionInv, RunInv, AnswerInv, DeviceInv
<1>6. OpsInv'
  BY <1>1, <1>2, <1>3 DEF Inv, OpsInv
<1>7. SwitchInv'
  BY <1>1, <1>2 DEF Inv, SwitchInv, Changing, AllMine
<1>8. MirrorInv'
  BY <1>1, <1>2, <1>4, Facts DEF Inv, MirrorInv, AnswerInv
<1>9. PrivacyDefault'
  <2> SUFFICES ASSUME NEW a \in Accounts \ {device.last}, RowsOf(device, a)' # {}
               PROVE  OpsOf(device, a)' # {}
    BY <1>2 DEF PrivacyDefault
  <2>1. RowsOf(device, a) # {}
    BY <1>1, <1>2, <1>4 DEF RowsOf
  <2>2. PICK o \in device.ops : o.owner = a
    BY <1>1, <2>1 DEF Inv, PrivacyDefault, OpsOf
  <2>3. \A b \in run.batch : b.id # o.id
    BY <1>1, <1>4, <2>2 DEF Inv, AnswerInv
  <2> QED
    BY <1>2, <2>2, <2>3 DEF OpsOf
<1>10. QED
  BY <1>5, <1>6, <1>7, <1>8, <1>9 DEF Inv

LEMMA InitInv == Init => Inv
<1> SUFFICES ASSUME Init PROVE Inv
  OBVIOUS
<1>1. /\ Len(rows) = 0 /\ session = Nobody /\ toHandle = Nobody /\ run = NoRun
      /\ run.phase = "none" /\ run.batch = {} /\ switches = 0
      /\ device.ops = {} /\ device.mirror = {} /\ device.cursor = 0
      /\ device.last = Nobody /\ device.wipe = Nobody
  BY DEF Init, NoRun
<1>2. QED
  BY <1>1 DEF Inv, SessionInv, RunInv, DeviceInv, OpsInv, AnswerInv, MirrorInv, PrivacyDefault,
              RowsOf, SwitchInv, Changing, AllMine

LEMMA NextInv == Calm /\ [Next]_vars => Inv'
<1> SUFFICES ASSUME Calm, [Next]_vars PROVE Inv'
  OBVIOUS
<1>1. CASE UNCHANGED vars
  BY <1>1 DEF Calm, vars, Inv, SessionInv, RunInv, DeviceInv, OpsInv, AnswerInv, MirrorInv,
              PrivacyDefault, RowsOf, OpsOf, SwitchInv, Changing, AllMine
<1>2. QED
  BY <1>1, SignInInv, SessionEndInv, ServerWriteInv, WriteInv, HandledInv, BannerInv, StartRunInv,
     RoundInv, ReceiveInv DEF Next

LEMMA Invariance == ASSUME MaxOverlaps = 0 PROVE Spec => [](Types /\ Inv)
<1>1. Init => Types /\ Inv
  BY InitTypes, InitInv
<1>2. Types /\ Inv /\ [Next]_vars => Types' /\ Inv'
  BY NextTypes, NextInv DEF Calm, Inv
<1>3. QED
  BY <1>1, <1>2, PTL DEF Spec

\* accountTransition.ts: the new account never silently skips a row below the previous one's
\* high-water mark, when accounts do not change during a sync run.
THEOREM NoRowSkipped == ASSUME MaxOverlaps = 0 PROVE Spec => []NothingSkipped
<1>1. Types /\ Inv => NothingSkipped
  BY Facts DEF Inv, SessionInv, MirrorInv, NothingSkipped
<1>2. QED
  BY <1>1, Invariance, PTL

LEMMA TypesAreTypeOK == Types => TypeOK
<1> SUFFICES ASSUME Types PROVE TypeOK
  OBVIOUS
<1>1. rows \in [1..Len(rows) -> Accounts] /\ Len(rows) \in 0..MaxRows
  BY LenProperties, ConstantsAssumption DEF Types
<1>2. rows \in UNION {[1..n -> Accounts] : n \in 0..MaxRows}
  BY <1>1
<1>3. QED
  BY <1>2 DEF Types, TypeOK, Runs

\* transitionToAccount, pendingOpsFor: an account's rows are shown to no other account, and what a
\* request carries belongs to the account of its token.
THEOREM OwnRowsAndOps == ASSUME MaxOverlaps = 0 PROVE Spec => OwnOnly
<1>1. Types /\ Inv => TypeOK /\ PrivacyDefault
  BY TypesAreTypeOK DEF Inv
<1>2. Types /\ Inv /\ [Next]_vars => [Round => \A o \in run'.batch : o.owner = session]_vars
  <2> SUFFICES ASSUME Types, Inv, Round PROVE \A o \in run'.batch : o.owner = session
    OBVIOUS
  <2>1. run'.batch = OpsOf(device, run.uid) /\ session \in Accounts
    BY RoundRun, RoundRows
  <2>2. run.uid = session
    BY <2>1, Facts DEF Inv, RunInv, Round
  <2> QED
    BY <2>1, <2>2 DEF OpsOf
<1>3. QED
  BY <1>1, <1>2, Invariance, PTL DEF Spec, OwnOnly, PushedByOwner

\* wipeLocalMirror: until a second account change an unsynced op leaves the device only once the
\* server has it, or by the banner.
THEOREM FirstChangeKeepsOps == ASSUME MaxOverlaps = 0 PROVE Spec => UnsyncedKeptOnce
<1> DEFINE Kept == \A o \in device.ops :
                      \/ o.id \in ledger \/ switches' > 1
                      \/ Discard \/ \E p \in device'.ops : p.id = o.id
<1>1. Types /\ Inv /\ [Next]_vars => [Kept]_vars
  <2> SUFFICES ASSUME Types, Inv, Next, NEW o \in device.ops, o.id \notin ledger,
                      ~(switches' > 1), ~Discard
               PROVE  \E p \in device'.ops : p.id = o.id
    OBVIOUS
  <2>1. SUFFICES ASSUME device'.ops # device.ops
                 PROVE  \E p \in device'.ops : p.id = o.id
    OBVIOUS
  <2>2. CASE Write
    BY <2>2 DEF Write, Types, Devices
  <2>3. CASE Receive
    <3>1. /\ device'.ops = {p \in device.ops : \A b \in run.batch : b.id # p.id}
          /\ \A b \in run.batch : b.id \in ledger
      BY <2>3 DEF Receive, Types, Devices, Inv, AnswerInv
    <3> QED
      BY <3>1
  <2>4. CASE HandleSignedIn
    <3>1. /\ Changing =>
                IF OpsOf(device, device.last) = {} THEN device'.ops = {}
                ELSE device'.ops = device.ops
          /\ ~Changing => device'.ops = Adopted(device, toHandle).ops
          /\ toHandle \in Accounts /\ switches' = switches
      BY <2>1, <2>4, Handled DEF Inv, HandleSignedIn
    <3>2. CASE Changing
      <4>1. OpsOf(device, device.last) = {} /\ switches \in {0, 1}
        BY <2>1, <3>1, <3>2, Facts
      <4>2. o.owner = device.last
        BY <3>2, <4>1 DEF Inv, SwitchInv, AllMine
      <4> QED
        BY <4>1, <4>2 DEF OpsOf
    <3>3. CASE ~Changing
      <4>1. device \in Devices
        BY DEF Types
      <4> QED
        BY <3>1, <3>3, <4>1, AdoptedDevice
    <3> QED
      BY <3>2, <3>3
  <2>5. CASE Keep
    BY <2>1, <2>5 DEF Keep, Types, Devices
  <2> QED
    BY <2>1, <2>2, <2>3, <2>4, <2>5
       DEF Next, ServerWrite, SignIn, SignOut, StartRun, Round, Fail, Kill
<1>2. QED
  BY <1>1, Invariance, PTL DEF Spec, UnsyncedKeptOnce
=============================================================================
