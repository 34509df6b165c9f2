-------------------- MODULE PrivacyNotifyProofs --------------------
(***************************************************************************)
(* Proofs about Privacy and Notify, which share no state.                  *)
(*                                                                         *)
(* Privacy: for any accounts, invocations and faults, an erased account    *)
(* has its proof and one completed row at most; what an account has not    *)
(* synced leaves the device in the ways named and no other; and nothing of *)
(* an account whose erasure was confirmed comes back, unless a page of it  *)
(* was on its way.                                                         *)
(*                                                                         *)
(* Notify: for any blocks, caps, slots, days and ritual times, no more     *)
(* different reminders fire on a day than its cap, and its ritual once,    *)
(* unless something was delivered that no ledger can know of.              *)
(***************************************************************************)
EXTENDS Privacy, Notify, FiniteSetTheorems, WellFoundedInduction, TLAPS

Rows == [account: Accounts, job: Jobs, completed: BOOLEAN]

Steps == {"free", "next", "checked", "audited", "deleted", "done", "failed", "refused"}

JobRecords ==
    [step: Steps, reason: {"none", "user_request", "operator", "anonymous_retention"},
     at: Accounts \cup {Nobody}, left: SUBSET Accounts]

Owners == Accounts \cup {Nobody}

Devices ==
    [session: Owners, last: Owners, data: SUBSET Accounts, unsynced: SUBSET Accounts, wipe: Owners,
     asking: {"no", "asked", "confirmed", "cleared", "forgotten"},
     ticket: Jobs \cup {Nobody}, erasing: Owners]

Syncs == [phase: {"none", "asked", "answer"}, uid: Owners, page: BOOLEAN]

Types ==
    /\ users \subseteq Accounts /\ trials \subseteq Accounts /\ idle \subseteq Accounts
    /\ audits \subseteq Rows
    /\ jobs \in [Jobs -> JobRecords]
    /\ device \in Devices
    /\ sync \in Syncs
    /\ told \subseteq Accounts /\ late \subseteq Accounts
    /\ faults \in Nat

\* An invocation beyond its check works on an account, has written its audit row before it
\* deletes, and has deleted before it stamps the row.
JobInv ==
    \A j \in Jobs :
        /\ jobs[j].step \in {"checked", "audited", "deleted"} => jobs[j].at \in Accounts
        /\ jobs[j].step \in {"audited", "deleted"} =>
               \E r \in audits : r.account = jobs[j].at
        /\ jobs[j].step = "deleted" =>
               /\ jobs[j].at \notin users
               /\ \A r \in audits : r.account = jobs[j].at => ~r.completed
        /\ jobs[j].step = "next" => jobs[j].reason = "anonymous_retention"
        /\ jobs[j].reason = "user_request" =>
               (jobs[j].step = "done" => jobs[j].at \notin users)

\* One invocation deletes an account: auth.users has it once.
SoleInv ==
    \A j, k \in Jobs :
        (jobs[j].step = "deleted" /\ jobs[k].step = "deleted" /\ jobs[j].at = jobs[k].at) => j = k

\* The audit table.
AuditInv ==
    /\ \A a \in Accounts \ users : \E r \in audits : r.account = a
    /\ \A r \in audits : r.completed => r.account \notin users
    /\ \A r, s \in audits : (r.completed /\ s.completed /\ r.account = s.account) => r = s

\* The device goes on from an answer only if the account it asked for is erased.
AskInv ==
    /\ device.asking = "asked" =>
           /\ device.ticket \in Jobs /\ device.erasing \in Accounts
           /\ jobs[device.ticket].reason = "user_request"
           /\ jobs[device.ticket].at = device.erasing
    /\ device.asking \in {"confirmed", "cleared", "forgotten"} => device.erasing \in Accounts \ users

\* An account the install is rid of, or that the next step will confirm, is signed in no
\* more, and can come back only with a page that was on its way at the wipe.
Gone(a) == a \in told \/ (device.asking = "forgotten" /\ device.erasing = a)

MirrorInv ==
    /\ told \cap users = {}
    /\ device.session \notin told
    /\ sync.phase # "none" \/ sync.page => sync.uid \in Accounts
    /\ sync.page => (Gone(sync.uid) => sync.uid \in late)
    /\ \A a \in device.data : Gone(a) => a \in late

DeviceInv == AskInv /\ MirrorInv

Inv == Types /\ JobInv /\ SoleInv /\ AuditInv /\ DeviceInv
-----------------------------------------------------------------------------
\* Nothing is erased and nothing asked for at the start.
LEMMA InitInv == Init => Inv
<1> SUFFICES ASSUME Init PROVE Inv
  OBVIOUS
<1> USE DEF Init
<1>1. Types
  <2>1. device \in Devices
    BY DEF NewDevice, Devices, Owners
  <2>2. sync \in Syncs
    BY DEF NoSync, Syncs, Owners
  <2>3. jobs \in [Jobs -> JobRecords]
    BY DEF NoJob, JobRecords, Steps
  <2> QED
    BY <2>1, <2>2, <2>3 DEF Types
<1>2. JobInv /\ SoleInv
  BY DEF JobInv, SoleInv, NoJob
<1>3. AuditInv
  BY DEF AuditInv
<1>4. DeviceInv
  BY DEF DeviceInv, AskInv, MirrorInv, Gone, NoSync, NewDevice
<1>5. QED
  BY <1>1, <1>2, <1>3, <1>4 DEF Inv

\* The records of a sync under way.
LEMMA SyncRecords ==
    /\ NoSync \in Syncs
    /\ \A a \in Accounts : [NoSync EXCEPT !.phase = "asked", !.uid = a] \in Syncs
    /\ \A s \in Syncs : [s EXCEPT !.phase = "asked", !.page = FALSE] \in Syncs
    /\ \A s \in Syncs : \A b \in BOOLEAN : [s EXCEPT !.phase = "answer", !.page = b] \in Syncs
BY DEF NoSync, Syncs, Owners

\* What the wipes of an account change leave of the device, and whom they drop.
LEMMA Transitioned ==
    ASSUME NEW dev \in Devices
    PROVE  /\ Transition(dev) \in Devices
           /\ Transition(dev).asking = dev.asking /\ Transition(dev).erasing = dev.erasing
           /\ Transition(dev).ticket = dev.ticket
           /\ Transition(dev).data \subseteq dev.data
           /\ dev.unsynced \subseteq Transition(dev).unsynced \/ dev.last \notin dev.unsynced
BY DEF Transition, Wiped, Devices, Owners

LEMMA ReconciledDevice ==
    ASSUME NEW dev \in Devices, NEW a \in Accounts
    PROVE  /\ Reconciled(dev, a) \in Devices
           /\ Reconciled(dev, a).asking = dev.asking /\ Reconciled(dev, a).erasing = dev.erasing
           /\ Reconciled(dev, a).ticket = dev.ticket
           /\ Reconciled(dev, a).data \subseteq dev.data
           /\ dev.unsynced \subseteq Reconciled(dev, a).unsynced
BY DEF Reconciled, WipedOf, Devices, Owners

LEMMA SignedInDevice ==
    ASSUME NEW dev \in Devices, NEW a \in Accounts
    PROVE  /\ SignedIn(dev, a) \in Devices
           /\ SignedIn(dev, a).session = a /\ SignedIn(dev, a).last = a
           /\ SignedIn(dev, a).asking = dev.asking /\ SignedIn(dev, a).erasing = dev.erasing
           /\ SignedIn(dev, a).ticket = dev.ticket
           /\ SignedIn(dev, a).data \subseteq dev.data
           /\ \/ dev.unsynced \subseteq SignedIn(dev, a).unsynced
              \/ dev.last \notin dev.unsynced \cup {a, Nobody}
<1> DEFINE moved == IF dev.last \in {Nobody, a} THEN dev ELSE Transition(dev)
           rec == Reconciled(moved, a)
<1>1. /\ moved \in Devices /\ moved.asking = dev.asking /\ moved.erasing = dev.erasing
      /\ moved.ticket = dev.ticket /\ moved.data \subseteq dev.data
      /\ \/ dev.unsynced \subseteq moved.unsynced
         \/ dev.last \notin dev.unsynced \cup {a, Nobody}
  BY Transitioned
<1>2. SignedIn(dev, a) = [rec EXCEPT !.session = a, !.last = a]
  BY DEF SignedIn
<1> HIDE DEF moved
<1>3. /\ rec \in Devices /\ rec.asking = moved.asking /\ rec.erasing = moved.erasing
      /\ rec.ticket = moved.ticket /\ rec.data \subseteq moved.data
      /\ moved.unsynced \subseteq rec.unsynced
  BY <1>1, ReconciledDevice
<1> HIDE DEF rec
<1>4. QED
  BY <1>1, <1>2, <1>3 DEF Devices, Owners

\* The record an invocation starts with.
LEMMA Started ==
    ASSUME NEW a \in Accounts
    PROVE  /\ OperatorJob(a) \in JobRecords /\ SelfJob(a) \in JobRecords
           /\ OperatorJob(a).step \in {"checked", "refused"} /\ SelfJob(a).step \in {"checked", "refused"}
           /\ OperatorJob(a).at = a /\ SelfJob(a).at = a
           /\ OperatorJob(a).reason = "operator" /\ SelfJob(a).reason = "user_request"
BY DEF OperatorJob, SelfJob, NoJob, JobRecords, Steps

\* How a call's failure and its last step leave the record.
LEMMA Ended ==
    ASSUME NEW job \in JobRecords
    PROVE  /\ Thrown(job) \in JobRecords /\ Stamped(job) \in JobRecords
           /\ Thrown(job).step \in {"next", "failed"} /\ Stamped(job).step \in {"next", "done"}
           /\ Thrown(job).step = "next" => job.reason = "anonymous_retention"
           /\ Stamped(job).step = "next" => job.reason = "anonymous_retention"
           /\ Thrown(job).at = job.at /\ Stamped(job).at = job.at
           /\ Thrown(job).reason = job.reason /\ Stamped(job).reason = job.reason
BY DEF Thrown, Stamped, JobRecords, Steps

\* An invocation's record goes on to another step.
LEMMA SteppedTo ==
    ASSUME Types, NEW j \in Jobs, NEW step \in Steps, jobs' = [jobs EXCEPT ![j].step = step]
    PROVE  /\ jobs' \in [Jobs -> JobRecords]
           /\ jobs'[j].step = step /\ jobs'[j].at = jobs[j].at /\ jobs'[j].reason = jobs[j].reason
           /\ \A k \in Jobs \ {j} : jobs'[k] = jobs[k]
BY DEF Types, JobRecords

\* An invocation's record is replaced.
LEMMA Replaced ==
    ASSUME Types, NEW j \in Jobs, NEW job \in JobRecords, jobs' = [jobs EXCEPT ![j] = job]
    PROVE  /\ jobs' \in [Jobs -> JobRecords]
           /\ jobs'[j] = job /\ \A k \in Jobs \ {j} : jobs'[k] = jobs[k]
BY DEF Types

\* The sweep takes its next candidate, or is done.
LEMMA SweepOn ==
    ASSUME Types, NEW j \in Jobs, SweepNext(j)
    PROVE  /\ jobs' \in [Jobs -> JobRecords]
           /\ jobs[j].step = "next" /\ jobs'[j].reason = jobs[j].reason
           /\ \/ jobs'[j].step = "done"
              \/ jobs'[j].step = "checked" /\ jobs'[j].at \in Accounts
           /\ \A k \in Jobs \ {j} : jobs'[k] = jobs[k]
<1>1. jobs[j] \in JobRecords
  BY DEF Types
<1>2. CASE jobs' = [jobs EXCEPT ![j].step = "done", ![j].at = Nobody]
  <2>1. jobs' = [jobs EXCEPT ![j] = [jobs[j] EXCEPT !.step = "done", !.at = Nobody]]
    BY <1>2 DEF Types
  <2>2. [jobs[j] EXCEPT !.step = "done", !.at = Nobody] \in JobRecords
    BY <1>1 DEF JobRecords, Steps
  <2> QED
    BY <1>1, <2>1, <2>2, Replaced DEF SweepNext, JobRecords
<1>3. ASSUME NEW a \in jobs[j].left,
             jobs' = [jobs EXCEPT ![j].step = "checked", ![j].at = a, ![j].left = @ \ {a}]
      PROVE  /\ jobs' \in [Jobs -> JobRecords]
             /\ jobs'[j].reason = jobs[j].reason
             /\ jobs'[j].step = "checked" /\ jobs'[j].at \in Accounts
             /\ \A k \in Jobs \ {j} : jobs'[k] = jobs[k]
  <2> DEFINE job == [jobs[j] EXCEPT !.step = "checked", !.at = a, !.left = @ \ {a}]
  <2>1. jobs' = [jobs EXCEPT ![j] = job]
    BY <1>3 DEF Types
  <2>2. job \in JobRecords /\ job.reason = jobs[j].reason /\ job.step = "checked" /\ job.at \in Accounts
    BY <1>1 DEF JobRecords, Steps
  <2> QED
    BY <2>1, <2>2, Replaced
<1>4. QED
  BY <1>2, <1>3 DEF SweepNext

\* What the server's steps and the device's keep of the types.
LEMMA TypesKept == Inv /\ [Next]_vars => Types'
<1> SUFFICES ASSUME Inv, [Next]_vars PROVE Types'
  OBVIOUS
<1> USE ConstantsAssumption DEF Inv, Types, server, memory
<1>1. ASSUME NEW a \in Accounts, GrowIdle(a) \/ Upgrade(a) PROVE Types'
  BY <1>1 DEF GrowIdle, Upgrade
<1>2. ASSUME NEW j \in Jobs, Operator(j) PROVE Types'
  BY <1>2, Started DEF Operator
<1>3. ASSUME NEW j \in Jobs, Sweep(j) PROVE Types'
  BY <1>3 DEF Sweep, Candidates, NoJob, JobRecords, Steps
<1>4. ASSUME NEW j \in Jobs, SweepNext(j) PROVE Types'
  BY <1>4, SweepOn DEF SweepNext
<1>5. ASSUME NEW j \in Jobs, Audit(j) PROVE Types'
  <2>1. jobs' \in [Jobs -> JobRecords]
    BY <1>5, SteppedTo DEF Audit, Steps
  <2>2. jobs[j].at \in Accounts
    BY <1>5 DEF Audit, JobInv
  <2> DEFINE row == [account |-> jobs[j].at, job |-> j, completed |-> FALSE]
  <2>3. row \in Rows
    BY <2>2 DEF Rows
  <2>4. audits \subseteq Rows /\ audits' = audits \cup {row}
    BY <1>5 DEF Audit
  <2> HIDE DEF row
  <2>5. audits' \subseteq Rows
    BY <2>3, <2>4
  <2> QED
    BY <1>5, <2>1, <2>5 DEF Audit
<1>6. ASSUME NEW j \in Jobs, Delete(j) PROVE Types'
  <2>1. CASE jobs' = [jobs EXCEPT ![j].step = "deleted"]
    <3>1. jobs' \in [Jobs -> JobRecords]
      BY <2>1, SteppedTo DEF Steps
    <3> QED
      BY <1>6, <3>1 DEF Delete
  <2>2. CASE jobs' = [jobs EXCEPT ![j] = Thrown(@)]
    BY <1>6, <2>2, Ended, Replaced DEF Delete
  <2> QED
    BY <1>6, <2>1, <2>2 DEF Delete
<1>7. ASSUME NEW j \in Jobs, Complete(j) PROVE Types'
  <2>1. jobs' \in [Jobs -> JobRecords]
    BY <1>7, Ended, Replaced DEF Complete
  <2>2. audits' \subseteq Rows
    BY <1>7 DEF Complete, Rows
  <2> QED
    BY <1>7, <2>1, <2>2 DEF Complete
<1>8. ASSUME NEW j \in Jobs, JobFault(j) PROVE Types'
  BY <1>8, Ended, Replaced DEF JobFault, Fault
<1>9. ASSUME NEW j \in Jobs, Ask(j) PROVE Types'
  <2>1. device.session \in Accounts
    BY <1>9 DEF Ask, Devices, Owners
  <2> QED
    BY <1>9, <2>1, Started DEF Ask, Devices, Owners
<1>10. ASSUME Use \/ Answered PROVE Types'
  <2>1. CASE Use
    BY <2>1 DEF Use, Devices, Owners
  <2>2. CASE Answered
    BY <2>2 DEF Answered, Devices
  <2> QED
    BY <1>10, <2>1, <2>2
<1>11. ASSUME LoseAnswer \/ Kill PROVE Types'
  <2>1. device' \in Devices
    <3>1. CASE LoseAnswer
      BY <3>1 DEF LoseAnswer, Devices
    <3>2. CASE Kill
      <4>1. device.session \in Accounts
        BY <3>2 DEF Kill, Devices, Owners
      <4> DEFINE dev == SignedIn(device, device.session)
      <4>2. dev \in Devices
        BY <4>1, SignedInDevice
      <4>3. device' = [dev EXCEPT !.asking = "no", !.ticket = Nobody]
        BY <3>2 DEF Kill
      <4> HIDE DEF dev
      <4> QED
        BY <4>2, <4>3 DEF Devices
    <3> QED
      BY <1>11, <3>1, <3>2
  <2>2. sync' = sync \/ sync' = NoSync
    BY <1>11 DEF LoseAnswer, Kill
  <2>3. sync' \in Syncs
    BY <2>2, SyncRecords
  <2>4. faults' \in Nat /\ UNCHANGED <<server, jobs, memory>>
    BY <1>11 DEF LoseAnswer, Kill, Fault
  <2> QED
    BY <2>1, <2>3, <2>4
<1>12. ASSUME ClearNotifications \/ ForgetLocal \/ SignOutLocal PROVE Types'
  <2>1. CASE ClearNotifications
    BY <2>1 DEF ClearNotifications, Devices
  <2>2. CASE ForgetLocal
    BY <2>2 DEF ForgetLocal, Forgotten, Wiped, Devices, Owners, DeviceInv, MirrorInv
  <2>3. CASE SignOutLocal
    BY <2>3 DEF SignOutLocal, Devices, Owners, DeviceInv, AskInv
  <2> QED
    BY <1>12, <2>1, <2>2, <2>3
<1>13. ASSUME StartSync \/ SyncRead PROVE Types'
  <2>1. CASE StartSync
    <3>1. device.session \in Accounts
      BY <2>1 DEF StartSync, Devices, Owners
    <3> QED
      BY <2>1, <3>1, SyncRecords DEF StartSync
  <2>2. CASE SyncRead
    <3>1. (sync.uid = device.session) \in BOOLEAN
      OBVIOUS
    <3>2. sync' \in Syncs
      BY <2>2, <3>1, SyncRecords DEF SyncRead
    <3> QED
      BY <2>2, <3>2 DEF SyncRead
  <2> QED
    BY <1>13, <2>1, <2>2
<1>14. ASSUME SyncApply PROVE Types'
  <2>1. sync.uid \in Accounts
    BY <1>14 DEF SyncApply, DeviceInv, MirrorInv
  <2>2. PICK left \in {device.unsynced, device.unsynced \ {sync.uid}} :
           device' = [device EXCEPT !.data = IF sync.page THEN @ \cup {sync.uid} ELSE @,
                                    !.unsynced = left]
    BY <1>14 DEF SyncApply
  <2>3. device' \in Devices
    BY <2>1, <2>2 DEF Devices
  <2> QED
    BY <1>14, <2>3, SyncRecords DEF SyncApply
<1>17. ASSUME NEW a \in Accounts, SignIn(a) PROVE Types'
  <2>1. device' \in Devices
    BY <1>17, SignedInDevice DEF SignIn
  <2> QED
    BY <1>17, <2>1 DEF SignIn
<1>18. ASSUME DiscardWipe \/ KeepWipe PROVE Types'
  <2>1. device' \in Devices
    <3>1. CASE DiscardWipe
      BY <3>1 DEF DiscardWipe, WipedOf, Devices, Owners
    <3>2. CASE KeepWipe
      BY <3>2 DEF KeepWipe, Devices, Owners
    <3> QED
      BY <1>18, <3>1, <3>2
  <2> QED
    BY <1>18, <2>1 DEF DiscardWipe, KeepWipe
<1>15. CASE UNCHANGED vars
  BY <1>15 DEF vars
<1>16. QED
  BY <1>1, <1>2, <1>3, <1>4, <1>5, <1>6, <1>7, <1>8, <1>9, <1>10, <1>11, <1>12, <1>13,
     <1>14, <1>15, <1>17, <1>18 DEF Next

\* The device's steps leave the server alone.
DeviceStep ==
    \/ \E a \in Accounts : SignIn(a)
    \/ Use \/ DiscardWipe \/ KeepWipe \/ Answered \/ LoseAnswer \/ Kill
    \/ ClearNotifications \/ ForgetLocal \/ SignOutLocal
    \/ StartSync \/ SyncRead \/ SyncApply

LEMMA DeviceLeavesServer == DeviceStep => UNCHANGED <<server, jobs>>
BY DEF DeviceStep, SignIn, Use, DiscardWipe, KeepWipe, Answered, LoseAnswer, Kill,
       ClearNotifications, ForgetLocal, SignOutLocal, StartSync, SyncRead, SyncApply, server

\* An invocation's steps keep the chain of its record, its audit row and the account.
LEMMA ServerKept == Inv /\ [Next]_vars => (JobInv /\ SoleInv /\ AuditInv)'
<1> SUFFICES ASSUME Inv, [Next]_vars PROVE (JobInv /\ SoleInv /\ AuditInv)'
  OBVIOUS
<1> USE DEF Inv
<1>0. Types /\ \A j \in Jobs : jobs[j] \in JobRecords
  BY DEF Types
<1>1. ASSUME NEW a \in Accounts, GrowIdle(a) \/ Upgrade(a) PROVE (JobInv /\ SoleInv /\ AuditInv)'
  BY <1>1 DEF GrowIdle, Upgrade, JobInv, SoleInv, AuditInv
<1>2. ASSUME NEW j \in Jobs, Operator(j) \/ Ask(j) PROVE (JobInv /\ SoleInv /\ AuditInv)'
  <2>1. PICK a \in Accounts : \/ jobs' = [jobs EXCEPT ![j] = OperatorJob(a)]
                              \/ jobs' = [jobs EXCEPT ![j] = SelfJob(a)]
    BY <1>2, <1>0 DEF Operator, Ask, Types, Devices, Owners
  <2>2. UNCHANGED server
    BY <1>2 DEF Operator, Ask
  <2>3. /\ jobs'[j].step \in {"checked", "refused"} /\ jobs'[j].at = a
        /\ \A k \in Jobs \ {j} : jobs'[k] = jobs[k]
    BY <2>1, Started DEF Types
  <2> QED
    BY <2>2, <2>3 DEF server, JobInv, SoleInv, AuditInv
<1>3. ASSUME NEW j \in Jobs, Sweep(j) \/ SweepNext(j) PROVE (JobInv /\ SoleInv /\ AuditInv)'
  <2>1. CASE Sweep(j)
    BY <2>1 DEF Sweep, NoJob, server, Types, JobRecords, JobInv, SoleInv, AuditInv
  <2>2. CASE SweepNext(j)
    <3>1. UNCHANGED server
      BY <2>2 DEF SweepNext
    <3> QED
      BY <2>2, <3>1, SweepOn DEF server, JobInv, SoleInv, AuditInv
  <2> QED
    BY <1>3, <2>1, <2>2
<1>4. ASSUME NEW j \in Jobs, Audit(j) PROVE (JobInv /\ SoleInv /\ AuditInv)'
  <2> DEFINE row == [account |-> jobs[j].at, job |-> j, completed |-> FALSE]
  <2>1. /\ jobs[j].step = "checked" /\ audits' = audits \cup {row} /\ UNCHANGED users
        /\ jobs' = [jobs EXCEPT ![j].step = "audited"]
    BY <1>4 DEF Audit
  <2>2. /\ jobs'[j].step = "audited" /\ jobs'[j].at = jobs[j].at
        /\ \A k \in Jobs \ {j} : jobs'[k] = jobs[k]
    BY <2>1, SteppedTo DEF Steps
  <2>3. row.account = jobs[j].at /\ ~row.completed
    OBVIOUS
  <2>4. JobInv'
    <3>1. \A r \in audits' : r \in audits \/ r = row
      BY <2>1
    <3>2. row \in audits' /\ audits \subseteq audits'
      BY <2>1
    <3> HIDE DEF row
    <3> QED
      BY <2>1, <2>2, <2>3, <3>1, <3>2 DEF JobInv
  <2>5. SoleInv'
    BY <2>2 DEF SoleInv
  <2>6. AuditInv'
    BY <2>1, <2>3 DEF AuditInv
  <2> QED
    BY <2>4, <2>5, <2>6
<1>5. ASSUME NEW j \in Jobs, Delete(j) PROVE (JobInv /\ SoleInv /\ AuditInv)'
  <2>1. jobs[j].step = "audited" /\ UNCHANGED audits
    BY <1>5 DEF Delete, Deletable
  <2>2. CASE jobs[j].at \in users
    <3>1. /\ users' = users \ {jobs[j].at}
          /\ jobs'[j].step = "deleted" /\ jobs'[j].at = jobs[j].at
          /\ \A k \in Jobs \ {j} : jobs'[k] = jobs[k]
      BY <1>5, <2>2, SteppedTo DEF Delete, Steps
    <3> QED
      BY <2>1, <2>2, <3>1 DEF JobInv, SoleInv, AuditInv
  <2>3. CASE jobs[j].at \notin users
    <3>1. UNCHANGED users /\ jobs' = [jobs EXCEPT ![j] = Thrown(@)]
      BY <1>5, <2>3 DEF Delete
    <3>2. /\ jobs'[j].step \in {"next", "failed"} /\ jobs'[j].reason = jobs[j].reason
          /\ jobs'[j].step = "next" => jobs[j].reason = "anonymous_retention"
          /\ \A k \in Jobs \ {j} : jobs'[k] = jobs[k]
      <4>1. jobs[j] \in JobRecords /\ jobs' = [jobs EXCEPT ![j] = Thrown(jobs[j])]
        BY <1>0, <3>1
      <4>2. jobs'[j] = Thrown(jobs[j]) /\ \A k \in Jobs \ {j} : jobs'[k] = jobs[k]
        BY <1>0, <4>1, Ended, Replaced
      <4> QED
        BY <4>1, <4>2, Ended
    <3> QED
      BY <2>1, <3>1, <3>2 DEF JobInv, SoleInv, AuditInv
  <2> QED
    BY <2>2, <2>3
<1>6. ASSUME NEW j \in Jobs, Complete(j) PROVE (JobInv /\ SoleInv /\ AuditInv)'
  <2> DEFINE a == jobs[j].at
             stamp(r) == IF r.job = j /\ r.account = a THEN [r EXCEPT !.completed = TRUE] ELSE r
  <2>1. /\ jobs[j].step = "deleted" /\ a \in Accounts /\ a \notin users /\ UNCHANGED users
        /\ \A r \in audits : stamp(r) \in audits'
        /\ \A x \in audits' : \E r \in audits : x = stamp(r)
        /\ jobs' = [jobs EXCEPT ![j] = Stamped(@)]
    BY <1>6 DEF Complete, JobInv
  <2>2. \A r \in audits : stamp(r).account = r.account /\ stamp(r).job = r.job
                          /\ (stamp(r).completed => r.completed \/ (r.account = a /\ r.job = j))
    BY DEF Types, Rows
  <2>9. \A r, s \in audits : r.account = a /\ s.account = a /\ r.job = j /\ s.job = j => stamp(r) = stamp(s)
    BY DEF Types, Rows
  <2>10. \A r \in audits : r.account # a => stamp(r) = r
    OBVIOUS
  <2> HIDE DEF stamp
  <2>3. \A r \in audits : r.account = a => ~r.completed
    BY <2>1 DEF JobInv
  <2>4. /\ jobs'[j].step \in {"next", "done"} /\ jobs'[j].at = a
        /\ jobs'[j].step = "next" => jobs'[j].reason = "anonymous_retention"
        /\ \A k \in Jobs \ {j} : jobs'[k] = jobs[k]
    <3>1. jobs[j] \in JobRecords /\ jobs' = [jobs EXCEPT ![j] = Stamped(jobs[j])]
      BY <1>0, <2>1
    <3>2. jobs'[j] = Stamped(jobs[j]) /\ \A k \in Jobs \ {j} : jobs'[k] = jobs[k]
      BY <1>0, <3>1, Ended, Replaced
    <3> QED
      BY <3>1, <3>2, Ended
  <2>5. \A k \in Jobs \ {j} : jobs'[k] = jobs[k]
    BY <2>4
  <2>6. SoleInv'
    BY <2>4, <2>5 DEF SoleInv
  <2>7. JobInv'
    <3> SUFFICES ASSUME NEW k \in Jobs
                 PROVE  /\ jobs'[k].step \in {"checked", "audited", "deleted"} => jobs'[k].at \in Accounts
                        /\ jobs'[k].step \in {"audited", "deleted"} =>
                               \E r \in audits' : r.account = jobs'[k].at
                        /\ jobs'[k].step = "deleted" =>
                               /\ jobs'[k].at \notin users'
                               /\ \A r \in audits' : r.account = jobs'[k].at => ~r.completed
                        /\ jobs'[k].step = "next" => jobs'[k].reason = "anonymous_retention"
                        /\ jobs'[k].reason = "user_request" =>
                               (jobs'[k].step = "done" => jobs'[k].at \notin users')
      BY DEF JobInv
    <3>1. CASE k = j
      BY <3>1, <2>1, <2>4 DEF JobInv
    <3>2. CASE k # j
      <4>1. jobs'[k] = jobs[k]
        BY <3>2, <2>5
      <4>2. jobs[k].step = "deleted" => jobs[k].at # a
        BY <3>2, <2>1 DEF SoleInv
      <4>3. jobs[k].step \in {"audited", "deleted"} => \E r \in audits' : r.account = jobs[k].at
        BY <2>1, <2>2 DEF JobInv
      <4>4. jobs[k].step = "deleted" => \A r \in audits' : r.account = jobs[k].at => ~r.completed
        BY <4>2, <2>1, <2>2 DEF JobInv
      <4> QED
        BY <4>1, <4>3, <4>4, <2>1 DEF JobInv
    <3> QED
      BY <3>1, <3>2
  <2>8. AuditInv'
    <3>1. \A b \in Accounts \ users' : \E r \in audits' : r.account = b
      BY <2>1, <2>2 DEF AuditInv
    <3>2. \A r \in audits' : r.completed => r.account \notin users'
      BY <2>1, <2>2 DEF AuditInv
    <3>3. ASSUME NEW r \in audits, NEW s \in audits, stamp(r).completed, stamp(s).completed,
                 stamp(r).account = stamp(s).account
          PROVE  stamp(r) = stamp(s)
      <4>1. CASE r.account = a
        <5>1. r.job = j /\ s.job = j /\ s.account = a
          BY <4>1, <3>3, <2>2, <2>3
        <5> QED
          BY <5>1, <4>1, <2>9
      <4>2. CASE r.account # a
        BY <4>2, <3>3, <2>2, <2>10 DEF AuditInv
      <4> QED
        BY <4>1, <4>2
    <3> QED
      BY <3>1, <3>2, <3>3, <2>1 DEF AuditInv
  <2> QED
    BY <2>6, <2>7, <2>8
<1>7. ASSUME NEW j \in Jobs, JobFault(j) PROVE (JobInv /\ SoleInv /\ AuditInv)'
  <2>1. /\ UNCHANGED server
        /\ \/ jobs[j].step \in {"checked", "audited"} /\ jobs' = [jobs EXCEPT ![j] = Thrown(@)]
           \/ jobs[j].step = "deleted" /\ jobs' = [jobs EXCEPT ![j] = Stamped(@)]
    BY <1>7 DEF JobFault
  <2>2. /\ \/ jobs'[j].step \in {"next", "failed"}
           \/ jobs[j].step = "deleted" /\ jobs'[j].step \in {"next", "done"}
        /\ jobs'[j].step = "next" => jobs'[j].reason = "anonymous_retention"
        /\ jobs'[j].at = jobs[j].at
        /\ \A k \in Jobs \ {j} : jobs'[k] = jobs[k]
    <3>1. jobs[j] \in JobRecords
      BY <1>0
    <3>2. CASE jobs' = [jobs EXCEPT ![j] = Thrown(jobs[j])]
      <4>1. jobs'[j] = Thrown(jobs[j]) /\ \A k \in Jobs \ {j} : jobs'[k] = jobs[k]
        BY <1>0, <3>1, <3>2, Ended, Replaced
      <4> QED
        BY <3>1, <4>1, Ended
    <3>3. CASE jobs[j].step = "deleted" /\ jobs' = [jobs EXCEPT ![j] = Stamped(jobs[j])]
      <4>1. jobs'[j] = Stamped(jobs[j]) /\ \A k \in Jobs \ {j} : jobs'[k] = jobs[k]
        BY <1>0, <3>1, <3>3, Ended, Replaced
      <4> QED
        BY <3>1, <3>3, <4>1, Ended
    <3> QED
      BY <2>1, <3>2, <3>3
  <2> QED
    BY <2>1, <2>2 DEF server, JobInv, SoleInv, AuditInv
<1>8. CASE DeviceStep \/ UNCHANGED vars
  <2>1. UNCHANGED <<server, jobs>>
    BY <1>8, DeviceLeavesServer DEF vars, server
  <2> QED
    BY <2>1 DEF server, JobInv, SoleInv, AuditInv
<1>9. QED
  BY <1>1, <1>2, <1>3, <1>4, <1>5, <1>6, <1>7, <1>8 DEF Next, DeviceStep

\* An account that is gone stays gone; only Delete takes one away.
LEMMA UsersShrink == Inv /\ [Next]_vars => users' \subseteq users
BY DEF Next, vars, server, GrowIdle, Upgrade, Operator, Sweep, SweepNext, Audit, Delete, Complete,
       JobFault, Ask, SignIn, Use, DiscardWipe, KeepWipe, Answered, LoseAnswer, Kill,
       ClearNotifications, ForgetLocal, SignOutLocal, StartSync, SyncRead, SyncApply

\* An invocation the user asked for keeps its reason and its account.
LEMMA RequestKept ==
    ASSUME Inv, [Next]_vars, NEW k \in Jobs, jobs[k].reason = "user_request"
    PROVE  jobs'[k].reason = "user_request" /\ jobs'[k].at = jobs[k].at
<1> USE DEF Inv, Types
<1>1. jobs[k] # NoJob /\ jobs[k].step # "next"
  BY DEF NoJob, JobInv
<1>2. CASE \E j \in Jobs : Operator(j) \/ Sweep(j) \/ SweepNext(j) \/ Ask(j)
  BY <1>1, <1>2 DEF Operator, Sweep, SweepNext, Ask
<1>3. CASE \E j \in Jobs : Audit(j) \/ Delete(j) \/ Complete(j) \/ JobFault(j)
  BY <1>3 DEF Audit, Delete, Complete, JobFault, Thrown, Stamped, JobRecords
<1>4. CASE (\E a \in Accounts : GrowIdle(a) \/ Upgrade(a)) \/ DeviceStep \/ UNCHANGED vars
  BY <1>4, DeviceLeavesServer DEF GrowIdle, Upgrade, vars
<1>5. QED
  BY <1>2, <1>3, <1>4 DEF Next, DeviceStep

\* The device's part: what it asked for, and what may come back to it.
LEMMA DeviceKept == Inv /\ [Next]_vars => DeviceInv'
<1> SUFFICES ASSUME Inv, [Next]_vars PROVE DeviceInv'
  OBVIOUS
<1> USE ConstantsAssumption DEF Inv, Types, DeviceInv
<1>1. users' \subseteq users
  BY UsersShrink
<1>2. CASE UNCHANGED <<device, sync, memory>>
  <2>1. device.asking = "asked" => /\ jobs'[device.ticket].reason = "user_request"
                                  /\ jobs'[device.ticket].at = device.erasing
    BY RequestKept DEF AskInv
  <2> QED
    BY <1>1, <1>2, <2>1 DEF memory, AskInv, MirrorInv, Gone
<1>3. ASSUME NEW j \in Jobs, Ask(j) PROVE DeviceInv'
  <2>1. device.session \in Accounts /\ jobs'[j] = SelfJob(device.session)
    BY <1>3 DEF Ask, Devices, Owners
  <2>2. /\ device'.asking = "asked" /\ device'.ticket = j /\ device'.erasing = device.session
        /\ device'.session = device.session /\ device'.data = device.data
        /\ UNCHANGED <<sync, told, late>> /\ device.asking = "no" /\ UNCHANGED users
    BY <1>3 DEF Ask, Devices, memory, server
  <2>3. AskInv'
    BY <2>1, <2>2, Started DEF AskInv
  <2>4. MirrorInv'
    BY <2>2 DEF MirrorInv, Gone
  <2> QED
    BY <2>3, <2>4
<1>4. ASSUME Use PROVE DeviceInv'
  <2>1. /\ device'.data = device.data \cup {device.session} /\ device.asking # "forgotten"
        /\ device'.asking = device.asking /\ device'.erasing = device.erasing
        /\ device'.ticket = device.ticket /\ device'.session = device.session
        /\ UNCHANGED <<sync, told, late, users, jobs>>
    BY <1>4 DEF Use, Devices, memory, server
  <2> QED
    BY <2>1 DEF AskInv, MirrorInv, Gone
<1>5. ASSUME Answered PROVE DeviceInv'
  <2>1. Confirmed(jobs[device.ticket].step) => device.erasing \in Accounts \ users
    BY <1>5 DEF Answered, Confirmed, AskInv, JobInv
  <2>2. /\ device'.asking = IF Confirmed(jobs[device.ticket].step) THEN "confirmed" ELSE "no"
        /\ device'.erasing = device.erasing /\ device'.session = device.session
        /\ device'.data = device.data /\ device.asking = "asked"
        /\ UNCHANGED <<sync, told, late, users>>
    BY <1>5 DEF Answered, Devices, memory, server
  <2> QED
    BY <2>1, <2>2 DEF AskInv, MirrorInv, Gone
<1>6. ASSUME LoseAnswer \/ Kill PROVE DeviceInv'
  <2>1. /\ device'.asking = "no" /\ device'.session = device.session
        /\ device'.data \subseteq device.data
    <3>1. CASE LoseAnswer
      BY <3>1 DEF LoseAnswer, Devices
    <3>2. CASE Kill
      <4>1. device.session \in Accounts
        BY <3>2 DEF Kill, Devices, Owners
      <4> DEFINE dev == SignedIn(device, device.session)
      <4>2. dev \in Devices /\ dev.session = device.session /\ dev.data \subseteq device.data
        BY <4>1, SignedInDevice
      <4>3. device' = [dev EXCEPT !.asking = "no", !.ticket = Nobody]
        BY <3>2 DEF Kill
      <4> HIDE DEF dev
      <4> QED
        BY <4>2, <4>3 DEF Devices
    <3> QED
      BY <1>6, <3>1, <3>2
  <2>2. sync' = sync \/ (sync'.phase = "none" /\ ~sync'.page)
    BY <1>6 DEF LoseAnswer, Kill, NoSync
  <2>3. UNCHANGED <<told, late, users>>
    BY <1>6 DEF LoseAnswer, Kill, memory, server
  <2> QED
    BY <2>1, <2>2, <2>3 DEF AskInv, MirrorInv, Gone
<1>7. ASSUME ClearNotifications PROVE DeviceInv'
  <2>1. /\ device.asking = "confirmed" /\ device'.asking = "cleared"
        /\ device'.erasing = device.erasing /\ device'.session = device.session
        /\ device'.data = device.data /\ UNCHANGED <<sync, told, late, users>>
    BY <1>7 DEF ClearNotifications, Devices, memory, server
  <2> QED
    BY <2>1 DEF AskInv, MirrorInv, Gone
<1>8. ASSUME ForgetLocal PROVE DeviceInv'
  <2>1. /\ device.asking = "cleared" /\ device'.asking = "forgotten"
        /\ device'.erasing = device.erasing /\ device'.session = device.session
        /\ device'.data = {} /\ UNCHANGED <<sync, told, users>>
        /\ sync.page => sync.uid \in late'
    BY <1>8 DEF ForgetLocal, Forgotten, Wiped, Devices, server
  <2> QED
    BY <2>1 DEF AskInv, MirrorInv, Gone
<1>9. ASSUME SignOutLocal PROVE DeviceInv'
  <2>1. /\ device.asking = "forgotten" /\ device'.asking = "no"
        /\ device'.session = Nobody /\ device'.data = device.data
        /\ told' = told \cup {device.erasing} /\ UNCHANGED <<sync, late, users>>
    BY <1>9 DEF SignOutLocal, Devices, server
  <2>2. device.erasing \in Accounts \ users /\ Nobody \notin told'
    BY <2>1 DEF AskInv
  <2> QED
    BY <2>1, <2>2 DEF AskInv, MirrorInv, Gone
<1>10. ASSUME StartSync \/ SyncRead PROVE DeviceInv'
  <2>1. UNCHANGED <<device, jobs, told, late, users>>
    BY <1>10 DEF StartSync, SyncRead, memory, server
  <2>2. CASE StartSync
    <3>1. device.session \in Accounts /\ sync'.uid = device.session /\ ~sync'.page
      BY <2>2 DEF StartSync, NoSync, Devices, Owners
    <3> QED
      BY <2>1, <3>1 DEF AskInv, MirrorInv, Gone
  <2>3. CASE SyncRead
    <3>1. /\ sync'.phase # "none" \/ sync'.page => sync'.uid \in Accounts
          /\ sync'.page => sync'.uid \in users
      <4>1. sync.phase = "asked" /\ sync.uid \in Accounts
        BY <2>3 DEF SyncRead, MirrorInv
      <4>2. CASE sync' = NoSync
        BY <4>2 DEF NoSync
      <4>3. CASE /\ device.session \in users
                 /\ sync' = [sync EXCEPT !.phase = "answer", !.page = sync.uid = device.session]
        <5> DEFINE same == sync.uid = device.session
        <5>1. sync'.uid = sync.uid /\ (sync'.page <=> same)
          <6>1. sync' = [sync EXCEPT !.phase = "answer", !.page = same]
            BY <4>3
          <6> HIDE DEF same
          <6> QED
            BY <6>1 DEF Syncs
        <5> QED
          BY <4>1, <4>3, <5>1
      <4> QED
        BY <2>3, <4>2, <4>3 DEF SyncRead
    <3>2. sync'.page => ~Gone(sync'.uid)
      BY <3>1 DEF AskInv, MirrorInv, Gone
    <3> QED
      BY <2>1, <3>1, <3>2 DEF AskInv, MirrorInv, Gone
  <2> QED
    BY <1>10, <2>2, <2>3
<1>11. ASSUME SyncApply PROVE DeviceInv'
  <2>1. PICK left \in {device.unsynced, device.unsynced \ {sync.uid}} :
           device' = [device EXCEPT !.data = IF sync.page THEN @ \cup {sync.uid} ELSE @,
                                    !.unsynced = left]
    BY <1>11 DEF SyncApply
  <2>2. /\ device'.asking = device.asking /\ device'.erasing = device.erasing
        /\ device'.ticket = device.ticket /\ device'.session = device.session
        /\ device'.data = IF sync.page THEN device.data \cup {sync.uid} ELSE device.data
    BY <2>1 DEF Devices
  <2>3. /\ UNCHANGED <<jobs, told, late, users>> /\ sync.uid \in Accounts
        /\ ~sync'.page /\ (sync'.phase # "none" => sync'.uid = sync.uid)
    <3>1. UNCHANGED <<jobs, told, late, users>> /\ sync.uid \in Accounts
      BY <1>11 DEF SyncApply, MirrorInv, memory, server
    <3>2. sync' = NoSync \/ sync' = [sync EXCEPT !.phase = "asked", !.page = FALSE]
      BY <1>11 DEF SyncApply
    <3>3. ~NoSync.page /\ NoSync.phase = "none"
      BY DEF NoSync
    <3>4. LET next == [sync EXCEPT !.phase = "asked", !.page = FALSE] IN ~next.page /\ next.uid = sync.uid
      BY DEF Syncs
    <3> QED
      BY <3>1, <3>2, <3>3, <3>4
  <2> QED
    BY <2>2, <2>3 DEF AskInv, MirrorInv, Gone
<1>12. ASSUME NEW a \in Accounts, SignIn(a) PROVE DeviceInv'
  <2>1. /\ a \in users /\ UNCHANGED <<jobs, sync, told, late, users>>
        /\ device'.session = a /\ device'.data \subseteq device.data
        /\ device'.asking = device.asking /\ device'.erasing = device.erasing
        /\ device'.ticket = device.ticket
    BY <1>12, SignedInDevice DEF SignIn, memory, server
  <2> QED
    BY <2>1 DEF AskInv, MirrorInv, Gone
<1>13. ASSUME DiscardWipe \/ KeepWipe PROVE DeviceInv'
  <2>1. /\ device'.data \subseteq device.data /\ device'.session = device.session
        /\ device'.asking = device.asking /\ device'.erasing = device.erasing
        /\ device'.ticket = device.ticket /\ UNCHANGED <<jobs, sync, told, late, users>>
    BY <1>13 DEF DiscardWipe, KeepWipe, WipedOf, Devices, memory, server
  <2> QED
    BY <2>1 DEF AskInv, MirrorInv, Gone
<1>14. QED
  <2>1. CASE UNCHANGED vars
    BY <2>1, <1>2 DEF vars, memory
  <2>2. ASSUME NEW a \in Accounts, GrowIdle(a) \/ Upgrade(a) PROVE DeviceInv'
    BY <2>2, <1>2 DEF GrowIdle, Upgrade
  <2>3. ASSUME NEW j \in Jobs,
               Operator(j) \/ Sweep(j) \/ SweepNext(j) \/ Audit(j) \/ Delete(j) \/ Complete(j) \/ JobFault(j)
        PROVE  DeviceInv'
    BY <2>3, <1>2 DEF Operator, Sweep, SweepNext, Audit, Delete, Complete, JobFault
  <2> QED
    BY <2>1, <2>2, <2>3, <1>3, <1>4, <1>5, <1>6, <1>7, <1>8, <1>9, <1>10, <1>11, <1>12, <1>13
       DEF Next

\* The inductive invariant.
THEOREM Invariance == Spec => []Inv
<1>1. Inv /\ [Next]_vars => Inv'
  BY TypesKept, ServerKept, DeviceKept DEF Inv
<1>2. QED
  BY InitInv, <1>1, PTL DEF Spec
-----------------------------------------------------------------------------
\* Every variable keeps its type.
THEOREM TypeCorrect == Spec => []Types
BY Invariance, PTL DEF Inv

\* delete-account: an account that is gone has an audit row, one that is there has no completed
\* one, and no account has two completed ones.
THEOREM ProofOfErasure == Spec => []ErasureProven
<1>1. Inv => ErasureProven
  <2> SUFFICES ASSUME Inv, NEW a \in Accounts
               PROVE  LET done == {r \in AuditsOf(a) : r.completed} IN
                      /\ a \notin users => AuditsOf(a) # {}
                      /\ done # {} => a \notin users
                      /\ Cardinality(done) <= 1
    BY DEF ErasureProven
  <2> DEFINE done == {r \in AuditsOf(a) : r.completed}
  <2>1. a \notin users => AuditsOf(a) # {}
    BY DEF Inv, AuditInv, AuditsOf
  <2>2. done # {} => a \notin users
    BY DEF Inv, AuditInv, AuditsOf
  <2>3. Cardinality(done) <= 1
    <3>1. CASE done = {}
      BY <3>1, FS_EmptySet
    <3>2. CASE done # {}
      <4>1. PICK r : r \in done
        BY <3>2
      <4>2. done = {r}
        BY <4>1 DEF Inv, AuditInv, AuditsOf
      <4>3. Cardinality({r}) = 1
        BY FS_Singleton
      <4> QED
        BY <4>2, <4>3
    <3> QED
      BY <3>1, <3>2
  <2> QED
    BY <2>1, <2>2, <2>3
<1>2. QED
  BY Invariance, <1>1, PTL

\* deleteAccount.ts: once the screen has confirmed an erasure, nothing of the account is on the
\* install again, but for a page that was on its way at the wipe.
THEOREM NothingStays == Spec => []ForgottenUnlessLate
<1>1. Inv => ForgottenUnlessLate
  BY DEF Inv, DeviceInv, MirrorInv, Gone, ForgottenUnlessLate
<1>2. QED
  BY Invariance, <1>1, PTL

\* A sign-in drops unsynced ops only with the wipe it makes for a synced account that leaves.
LEMMA SignInDrops ==
    ASSUME Types, NEW b \in Accounts, NEW a \in device.unsynced,
           a \notin SignedIn(device, b).unsynced, device'.last = SignedIn(device, b).last
    PROVE  WipedForAnother(a)
<1>1. device \in Devices
  BY DEF Types
<1>2. device'.last = b /\ device.last \notin device.unsynced \cup {b, Nobody}
  BY <1>1, SignedInDevice
<1>3. QED
  BY <1>2 DEF WipedForAnother

\* deleteAccount.ts and accountTransition.ts: what is unsynced leaves the device with the server's
\* answer, with the account, by the banner, or with the wipe for another account that is synced
\* or, by an erasure, gone.
THEOREM ForgettingIsLate == Spec => ForgetsOnlyErased
<1>1. ASSUME Inv, [Next]_vars, NEW a \in device.unsynced \ device'.unsynced
      PROVE  \/ a \notin users
             \/ SyncApply /\ sync.uid = a
             \/ DiscardWipe /\ device.wipe = a
             \/ WipedForAnother(a)
  <2> USE <1>1
  <2>1. device \in Devices /\ device' # device
    BY DEF Inv, Types
  <2>2. ASSUME NEW b \in Accounts, SignIn(b) PROVE WipedForAnother(a)
    BY <2>2, SignInDrops DEF SignIn, Inv
  <2>3. CASE Kill
    <3>1. device.session \in Accounts
      BY <2>1, <2>3 DEF Kill, Devices, Owners
    <3> DEFINE dev == SignedIn(device, device.session)
    <3>2. dev \in Devices
      BY <2>1, <3>1, SignedInDevice
    <3>3. device' = [dev EXCEPT !.asking = "no", !.ticket = Nobody]
      BY <2>3 DEF Kill
    <3>4. device'.last = dev.last /\ device'.unsynced = dev.unsynced
      <4> HIDE DEF dev
      <4> QED
        BY <3>2, <3>3 DEF Devices
    <3> QED
      BY <3>1, <3>4, SignInDrops DEF Inv
  <2>4. CASE ForgetLocal
    <3>1. device.erasing \in Accounts \ users
      BY <2>4 DEF ForgetLocal, Inv, DeviceInv, AskInv
    <3> QED
      BY <2>4, <3>1, ConstantsAssumption DEF WipedForAnother
  <2>5. CASE DiscardWipe
    <3>1. device'.unsynced = device.unsynced \ {device.wipe}
      BY <2>1, <2>5 DEF DiscardWipe, WipedOf, Devices
    <3> QED
      BY <2>5, <3>1
  <2>6. CASE SyncApply
    <3>1. device'.unsynced \in {device.unsynced, device.unsynced \ {sync.uid}}
      BY <2>1, <2>6 DEF SyncApply, Devices
    <3> QED
      BY <2>6, <3>1
  <2>7. ~(Use \/ KeepWipe \/ Answered \/ LoseAnswer \/ ClearNotifications \/ SignOutLocal)
    BY <2>1 DEF Use, KeepWipe, Answered, LoseAnswer, ClearNotifications, SignOutLocal, Devices
  <2>8. ~(StartSync \/ SyncRead \/ UNCHANGED vars)
    BY <2>1 DEF StartSync, SyncRead, vars
  <2>9. ASSUME NEW b \in Accounts PROVE ~(GrowIdle(b) \/ Upgrade(b))
    BY <2>1 DEF GrowIdle, Upgrade
  <2>10. ASSUME NEW j \in Jobs
         PROVE  ~(Operator(j) \/ Sweep(j) \/ SweepNext(j) \/ Audit(j) \/ Delete(j) \/ Complete(j) \/ JobFault(j))
    BY <2>1 DEF Operator, Sweep, SweepNext, Audit, Delete, Complete, JobFault
  <2>11. ASSUME NEW j \in Jobs PROVE ~Ask(j)
    BY <2>1 DEF Ask, Devices
  <2> QED
    BY <2>2, <2>3, <2>4, <2>5, <2>6, <2>7, <2>8, <2>9, <2>10, <2>11 DEF Next
<1>2. Inv /\ [Next]_vars =>
        [\A a \in device.unsynced \ device'.unsynced :
            \/ a \notin users
            \/ SyncApply /\ sync.uid = a
            \/ DiscardWipe /\ device.wipe = a
            \/ WipedForAnother(a)]_vars
  BY <1>1
<1>3. QED
  BY Invariance, <1>2, PTL DEF Spec, ForgetsOnlyErased
-----------------------------------------------------------------------------
(* Notify: its types, and the inductive invariant. *)

Ids == {<<"block", b>> : b \in Blocks} \cup ({"ritual"} \X Offered)
Requests == [id : Ids, at : Nat, slot : Nat \cup {None}]
Marks == [id : Ids, day : Nat]
Ledgers == [delivered : SUBSET Marks, scheduled : SUBSET Requests]
Passes == [pc : {"idle", "cancel", "dismiss", "schedule"}, clock : Nat,
           todo : SUBSET Requests, done : SUBSET Requests, open : SUBSET [id : Ids, slot : Nat]]

NotifyTypes ==
  /\ now \in 0 .. MaxTime /\ ritual \in RitualTimes \cup {None} /\ profile \in BOOLEAN
  /\ block \in [Blocks -> [slot : Nat, open : BOOLEAN]]
  /\ os \in SUBSET Requests
  /\ fired \in SUBSET [id : Ids, at : Nat, when : Nat]
  /\ ledger \in Ledgers /\ pass \in Passes
  /\ again \in BOOLEAN /\ timer \in BOOLEAN /\ mounted \in BOOLEAN /\ slip \in BOOLEAN
  /\ timer => mounted
  /\ IsFiniteSet(ledger.delivered) /\ IsFiniteSet(ledger.scheduled)
  /\ IsFiniteSet(pass.todo) /\ IsFiniteSet(pass.done)

\* What the pass asks for, and whether it has settled the ledger.
Asked == pass.todo \cup pass.done
Planned == pass.pc \in {"dismiss", "schedule"}

\* One request for an id; a ritual on its day.
Unique(R) == \A r, q \in R : r.id = q.id => r = q
DayTrue(R) == \A r \in R : Kind(r) = "ritual" => Day(r.at) = r.id[2]

\* A request is the only one of its id, and a ritual's is on the ritual's day.
RequestInv ==
  /\ Unique(os) /\ Unique(ledger.scheduled) /\ Unique(Asked)
  /\ DayTrue(os) /\ DayTrue(ledger.scheduled) /\ DayTrue(Asked) /\ DayTrue(fired)

\* A pass is over before what it asks for is due; at work the OS holds what it has handed over,
\* else what the ledger expects.
PassInv ==
  /\ ~Idle => pass.clock <= now /\ now < pass.clock + MinLead
  /\ \A r \in Asked : r.at >= pass.clock + MinLead
  /\ ~Planned => Asked = {}
  /\ pass.pc = "dismiss" => pass.done = {}
  /\ Planned => os \subseteq pass.done
  /\ ~Planned /\ ~slip => os \subseteq ledger.scheduled

\* Nothing fires late: the OS holds what is ahead, and no delivery is later than the pass at work.
TimeInv ==
  /\ \A r \in os : r.at > now
  /\ \A f \in fired : f.at <= now /\ f.when = f.at
  /\ ~Idle /\ ~slip => \A f \in fired : f.at <= pass.clock

\* What the ledger knows of a delivery.
Marked(f) == [id |-> f.id, day |-> Day(f.at)] \in ledger.delivered
Expected(f) == \E r \in ledger.scheduled : r.id = f.id /\ r.at = f.at

\* The ledger knows of today's deliveries, and a pass that has settled it has them marked.
KnownInv ==
  ~slip => \A f \in fired : Day(f.at) >= Today => (Marked(f) \/ (~Planned /\ Expected(f)))

\* No ritual is asked for that the ledger has delivered.
FreshInv ==
  \A r \in ledger.scheduled \cup Asked : Kind(r) = "ritual" => \A m \in ledger.delivered : m.id # r.id

\* The ids, and the day, that the cap counts.
IdsOf(R) == {r.id : r \in R}
On(R, day) == {r \in R : Day(r.at) = day}
MarkedIds(day) == IdsOf(DeliveredOn(ledger.delivered, day))

\* With what the ledger expects, or with what the pass will commit, no day is over its cap.
CapInv ==
  \A day \in Nat :
    /\ Cardinality(MarkedIds(day) \cup IdsOf(On(ledger.scheduled, day))) <= Cap
    /\ Cardinality(MarkedIds(day) \cup IdsOf(On(Asked, day))) <= Cap

NotifyIInv ==
  /\ NotifyTypes /\ RequestInv /\ PassInv /\ TimeInv /\ KnownInv /\ FreshInv /\ CapInv

NotifyInv == NotifyIInv /\ CapKeptById /\ RitualOnce
-----------------------------------------------------------------------------
\* What division gives: days do not go back, and the ritual of a day is on that day.
LEMMA DayFacts ==
  /\ \A t \in Nat : Day(t) \in Nat
  /\ \A s, t \in Nat : s <= t => Day(s) <= Day(t)
<1>1. DayLength \in Nat \ {0}
  BY NotifyAssumption
<1>2. ASSUME NEW t \in Nat, NEW D \in Nat \ {0}
      PROVE  t \div D \in Nat /\ t % D \in 0 .. D - 1 /\ t = D * (t \div D) + (t % D)
  OBVIOUS
<1>3. ASSUME NEW s \in Nat, NEW t \in Nat, NEW D \in Nat \ {0}, s <= t PROVE s \div D <= t \div D
  BY <1>3
<1> QED BY <1>1, <1>2, <1>3 DEF Day

LEMMA RitualDay ==
  ASSUME NEW d \in Nat, NEW x \in 0 .. DayLength - 1
  PROVE  d * DayLength + x \in Nat /\ Day(d * DayLength + x) = d
<1>1. DayLength \in Nat \ {0}
  BY NotifyAssumption
<1>2. ASSUME NEW D \in Nat \ {0}, NEW y \in 0 .. D - 1 PROVE d * D + y \in Nat /\ (d * D + y) \div D = d
  OBVIOUS
<1> QED BY <1>1, <1>2 DEF Day

\* A set of ids is no larger than the set it is taken from.
LEMMA IdsCount ==
  ASSUME NEW R, IsFiniteSet(R)
  PROVE  IsFiniteSet(IdsOf(R)) /\ Cardinality(IdsOf(R)) <= Cardinality(R)
<1> DEFINE f == [r \in R |-> r.id]
<1>1. f \in Surjection(R, IdsOf(R))
  BY DEF IdsOf, Surjection
<1> QED BY <1>1, FS_Surjection

\* A day's deliveries are as many as their ids.
LEMMA MarksCount ==
  ASSUME NEW D \in SUBSET Marks, IsFiniteSet(D), NEW day \in Nat
  PROVE  /\ IsFiniteSet(DeliveredOn(D, day)) /\ IsFiniteSet(IdsOf(DeliveredOn(D, day)))
         /\ Cardinality(DeliveredOn(D, day)) = Cardinality(IdsOf(DeliveredOn(D, day)))
<1> DEFINE M == DeliveredOn(D, day)
<1>1. IsFiniteSet(M)
  BY FS_Subset DEF DeliveredOn
<1>2. IsFiniteSet(IdsOf(M)) /\ Cardinality(IdsOf(M)) <= Cardinality(M)
  BY <1>1, IdsCount
<1> DEFINE g == [i \in IdsOf(M) |-> [id |-> i, day |-> day]]
<1>3. g \in Surjection(IdsOf(M), M)
  <2>1. ASSUME NEW i \in IdsOf(M) PROVE g[i] \in M
    BY DEF IdsOf, DeliveredOn, Marks
  <2>2. ASSUME NEW m \in M PROVE \E i \in IdsOf(M) : g[i] = m
    <3>1. m \in Marks /\ m.day = day
      BY DEF DeliveredOn
    <3>2. m = [id |-> m.id, day |-> day]
      BY <3>1 DEF Marks
    <3>3. m.id \in IdsOf(M)
      BY DEF IdsOf
    <3> QED BY <3>2, <3>3
  <2>3. g \in [IdsOf(M) -> M]
    BY <2>1
  <2> QED BY <2>2, <2>3 DEF Surjection
<1>4. Cardinality(M) <= Cardinality(IdsOf(M))
  BY <1>2, <1>3, FS_Surjection
<1>5. Cardinality(M) \in Nat /\ Cardinality(IdsOf(M)) \in Nat
  BY <1>1, <1>2, FS_CardinalityType
<1> QED BY <1>1, <1>2, <1>4, <1>5
-----------------------------------------------------------------------------
\* The plan.
AllCandidates(clock, D) == BlockCandidates(clock) \cup RitualCandidates(clock, D)

\* Max and Min of two numbers.
LEMMA SmallestOfTwo ==
  ASSUME NEW a \in Nat, NEW b \in Nat
  PROVE  Max({b, 0}) = b /\ Min({a, b}) <= b
<1>1. \E x \in {b, 0} : \A y \in {b, 0} : x >= y
  OBVIOUS
<1>2. Max({b, 0}) \in {b, 0} /\ \A y \in {b, 0} : Max({b, 0}) >= y
  BY <1>1 DEF Max
<1>3. \E x \in {a, b} : \A y \in {a, b} : x <= y
  OBVIOUS
<1>4. Min({a, b}) \in {a, b} /\ \A y \in {a, b} : Min({a, b}) <= y
  BY <1>3 DEF Min
<1> QED BY <1>2, <1>4

\* What is chosen stays within the budget.
LEMMA ChosenFacts ==
  ASSUME NEW C, IsFiniteSet(C), NEW b \in Nat, NEW S \in Chosen(C, b)
  PROVE  S \subseteq C /\ IsFiniteSet(S) /\ Cardinality(S) <= b
<1>1. S \subseteq C /\ Cardinality(S) = Min({Cardinality(C), Max({b, 0})})
  BY DEF Chosen
<1>2. Cardinality(C) \in Nat
  BY FS_CardinalityType
<1>3. Max({b, 0}) = b /\ Min({Cardinality(C), b}) <= b
  BY <1>2, SmallestOfTwo
<1>4. IsFiniteSet(S)
  BY <1>1, FS_Subset
<1> QED BY <1>1, <1>3, <1>4

\* The candidates for blocks, and for the ritual.
LEMMA BlockFacts ==
  ASSUME NotifyTypes, NEW clock \in Nat
  PROVE  /\ IsFiniteSet(BlockCandidates(clock)) /\ BlockCandidates(clock) \subseteq Requests
         /\ \A r \in BlockCandidates(clock) :
              \E b \in Blocks : r = BlockRequest(b) /\ r.at >= clock + MinLead /\ r.id = <<"block", b>>
<1> DEFINE C == {c \in OpenAhead(clock) \ Muted : block[c].slot - Lead >= clock + MinLead}
<1> DEFINE f == [b \in C |-> BlockRequest(b)]
<1>0. MinLead \in Nat /\ Lead \in Nat /\ IsFiniteSet(Blocks)
  BY NotifyAssumption
<1>1. C \subseteq Blocks /\ BlockCandidates(clock) = {BlockRequest(b) : b \in C}
  BY DEF OpenAhead, BlockCandidates
<1>2. IsFiniteSet(C)
  BY <1>0, <1>1, FS_Subset
<1>3. f \in Surjection(C, BlockCandidates(clock))
  BY <1>1 DEF Surjection
<1>4. IsFiniteSet(BlockCandidates(clock))
  BY <1>2, <1>3, FS_Surjection
<1>5. ASSUME NEW b \in C
      PROVE  /\ BlockRequest(b) \in Requests /\ BlockRequest(b).at >= clock + MinLead
             /\ BlockRequest(b).id = <<"block", b>>
  <2>1. b \in Blocks /\ block[b].slot \in Nat /\ block[b].slot - Lead >= clock + MinLead
    BY <1>1 DEF NotifyTypes
  <2>2. <<"block", b>> \in Ids
    BY <2>1 DEF Ids
  <2>3. block[b].slot - Lead \in Nat
    BY <1>0, <2>1
  <2> QED BY <2>1, <2>2, <2>3 DEF BlockRequest, Requests
<1> QED BY <1>1, <1>4, <1>5

LEMMA RitualFacts ==
  ASSUME NotifyTypes, NEW clock \in Nat, NEW D
  PROVE  /\ IsFiniteSet(RitualCandidates(clock, D)) /\ RitualCandidates(clock, D) \subseteq Requests
         /\ \A r \in RitualCandidates(clock, D) :
              /\ \E d \in Nat : r = RitualRequest(d) /\ r.id = <<"ritual", d>> /\ Day(r.at) = d
              /\ r.at >= clock + MinLead
              /\ \A m \in D : m.id # r.id
<1>0. MinLead \in Nat /\ RitualTimes \subseteq 0 .. DayLength - 1 /\ DayLength \in Nat
  BY NotifyAssumption
<1>1. CASE ritual = None
  <2>1. RitualCandidates(clock, D) = {}
    BY <1>1 DEF RitualCandidates
  <2> QED BY <2>1, FS_EmptySet
<1>2. CASE ritual # None
  <2> DEFINE days == {Day(clock), Day(clock) + 1} \cap Offered
  <2> DEFINE R == {RitualRequest(d) : d \in days}
  <2>1. RitualCandidates(clock, D) = {r \in R : r.at >= clock + MinLead /\ ~\E m \in D : m.id = r.id}
    BY <1>2 DEF RitualCandidates
  <2>2. ritual \in 0 .. DayLength - 1
    BY <1>0, <1>2 DEF NotifyTypes
  <2>3. Day(clock) \in Nat
    BY DayFacts
  <2>4. ASSUME NEW d \in days
        PROVE  /\ d \in Nat /\ RitualRequest(d) \in Requests
               /\ RitualRequest(d).id = <<"ritual", d>> /\ Day(RitualRequest(d).at) = d
    <3>1. d \in Nat /\ d \in Offered
      BY <2>3
    <3>2. d * DayLength + ritual \in Nat /\ Day(d * DayLength + ritual) = d
      BY <2>2, <3>1, RitualDay
    <3>3. <<"ritual", d>> \in Ids
      BY <3>1 DEF Ids
    <3> QED BY <3>1, <3>2, <3>3 DEF RitualRequest, Requests
  <2>5. IsFiniteSet(days)
    <3> DEFINE c == Day(clock)
    <3>1. c \in Int /\ days \subseteq c .. c + 1
      BY <2>3
    <3> HIDE DEF c
    <3>2. IsFiniteSet(c .. c + 1)
      BY <3>1, FS_Interval
    <3> QED BY <3>1, <3>2, FS_Subset
  <2> HIDE DEF days
  <2>6. IsFiniteSet(R)
    <3> DEFINE f == [d \in days |-> RitualRequest(d)]
    <3>1. f \in Surjection(days, R)
      BY DEF Surjection
    <3> QED BY <2>5, <3>1, FS_Surjection
  <2>7. IsFiniteSet(RitualCandidates(clock, D))
    BY <2>1, <2>6, FS_Subset
  <2>8. \A r \in R : r \in Requests /\ \E d \in Nat : r = RitualRequest(d) /\ r.id = <<"ritual", d>> /\ Day(r.at) = d
    BY <2>4
  <2> HIDE DEF R
  <2> QED BY <2>1, <2>7, <2>8
<1> QED BY <1>1, <1>2

\* What a plan is taken from: requests in time for the clock, one for an id, no ritual a second time.
LEMMA CandidateFacts ==
  ASSUME NotifyTypes, NEW clock \in Nat, NEW D
  PROVE  LET all == AllCandidates(clock, D) IN
         /\ IsFiniteSet(all) /\ all \subseteq Requests /\ Unique(all) /\ DayTrue(all)
         /\ \A r \in all : r.at >= clock + MinLead
         /\ \A r \in all : Kind(r) = "ritual" => \A m \in D : m.id # r.id
<1> DEFINE all == AllCandidates(clock, D)
<1>1. all = BlockCandidates(clock) \cup RitualCandidates(clock, D)
  BY DEF AllCandidates
<1>2. IsFiniteSet(all)
  <2>1. IsFiniteSet(BlockCandidates(clock)) /\ IsFiniteSet(RitualCandidates(clock, D))
    BY BlockFacts, RitualFacts
  <2> QED BY <1>1, <2>1, FS_Union
<1>3. all \subseteq Requests /\ \A r \in all : r.at >= clock + MinLead
  BY <1>1, BlockFacts, RitualFacts
<1>4. ASSUME NEW r \in all
      PROVE  \/ Kind(r) = "block" /\ \E b \in Blocks : r = BlockRequest(b) /\ r.id = <<"block", b>>
             \/ /\ Kind(r) = "ritual" /\ \E d \in Nat : r = RitualRequest(d) /\ r.id = <<"ritual", d>> /\ Day(r.at) = d
                /\ \A m \in D : m.id # r.id
  <2>1. CASE r \in BlockCandidates(clock)
    BY <2>1, BlockFacts DEF Kind
  <2>2. CASE r \in RitualCandidates(clock, D)
    BY <2>2, RitualFacts DEF Kind
  <2> QED BY <1>1, <2>1, <2>2
<1> HIDE DEF all
<1>5. Unique(all)
  <2> SUFFICES ASSUME NEW r \in all, NEW q \in all, r.id = q.id PROVE r = q
    BY DEF Unique
  <2>1. Kind(r) = Kind(q)
    BY DEF Kind
  <2>2. CASE Kind(r) = "block"
    <3>1. PICK b \in Blocks : r = BlockRequest(b) /\ r.id = <<"block", b>>
      BY <1>4, <2>2
    <3>2. PICK c \in Blocks : q = BlockRequest(c) /\ q.id = <<"block", c>>
      BY <1>4, <2>1, <2>2
    <3>3. b = c
      BY <3>1, <3>2
    <3> QED BY <3>1, <3>2, <3>3
  <2>3. CASE Kind(r) = "ritual"
    <3>1. PICK b \in Nat : r = RitualRequest(b) /\ r.id = <<"ritual", b>>
      BY <1>4, <2>3
    <3>2. PICK c \in Nat : q = RitualRequest(c) /\ q.id = <<"ritual", c>>
      BY <1>4, <2>1, <2>3
    <3>3. b = c
      BY <3>1, <3>2
    <3> QED BY <3>1, <3>2, <3>3
  <2> QED BY <1>4, <2>2, <2>3
<1>6. DayTrue(all) /\ \A r \in all : Kind(r) = "ritual" => \A m \in D : m.id # r.id
  BY <1>4 DEF DayTrue
<1> QED BY <1>2, <1>3, <1>5, <1>6 DEF all

\* A plan fills what is left of each day's cap.
LEMMA PlanFacts ==
  ASSUME NotifyTypes, NEW clock \in Nat, NEW D \in SUBSET Marks, IsFiniteSet(D),
         \A day \in Nat : Cardinality(IdsOf(DeliveredOn(D, day))) <= Cap,
         NEW plan \in PlanFor(clock, D)
  PROVE  /\ plan \subseteq AllCandidates(clock, D) /\ IsFiniteSet(plan)
         /\ \A day \in Nat : Cardinality(IdsOf(DeliveredOn(D, day)) \cup IdsOf(On(plan, day))) <= Cap
<1> DEFINE all == AllCandidates(clock, D)
<1> DEFINE c == Day(clock)
<1> DEFINE left(day) == Cap - Cardinality(DeliveredOn(D, day))
<1>0. Cap \in Nat /\ c \in Nat
  BY NotifyAssumption, DayFacts
<1>1. ASSUME NEW day \in Nat PROVE left(day) \in Nat
  <2>1. Cardinality(DeliveredOn(D, day)) = Cardinality(IdsOf(DeliveredOn(D, day))) /\ IsFiniteSet(DeliveredOn(D, day))
    BY MarksCount
  <2>2. Cardinality(DeliveredOn(D, day)) \in Nat
    BY <2>1, FS_CardinalityType
  <2> QED BY <1>0, <2>1, <2>2
<1>2. IsFiniteSet(all)
  BY CandidateFacts
<1>3. ASSUME NEW day \in Nat, NEW S \in PlanOf(clock, D, day)
      PROVE  S \subseteq On(all, day) /\ IsFiniteSet(S) /\ Cardinality(S) <= left(day)
  <2>1. S \in Chosen(On(all, day), left(day))
    BY DEF PlanOf, On, AllCandidates
  <2>2. IsFiniteSet(On(all, day))
    BY <1>2, FS_Subset DEF On
  <2> HIDE DEF left
  <2> QED BY <1>1, <2>1, <2>2, ChosenFacts
<1>4. PICK S \in PlanOf(clock, D, c), T \in PlanOf(clock, D, c + 1), U \in PlanOf(clock, D, c + 2) :
        plan = S \cup T \cup U
  BY DEF PlanFor
<1>5. c + 1 \in Nat /\ c + 2 \in Nat
  BY <1>0
<1>6. /\ S \subseteq On(all, c) /\ IsFiniteSet(S) /\ Cardinality(S) <= left(c)
      /\ T \subseteq On(all, c + 1) /\ IsFiniteSet(T) /\ Cardinality(T) <= left(c + 1)
      /\ U \subseteq On(all, c + 2) /\ IsFiniteSet(U) /\ Cardinality(U) <= left(c + 2)
  BY <1>0, <1>3, <1>5
<1> HIDE DEF all, left, c
<1>7. plan \subseteq all /\ IsFiniteSet(plan)
  <2>1. IsFiniteSet(S \cup T)
    BY <1>6, FS_Union
  <2>2. IsFiniteSet((S \cup T) \cup U)
    BY <1>6, <2>1, FS_Union
  <2> QED BY <1>4, <1>6, <2>2 DEF On
<1>8. ASSUME NEW day \in Nat
      PROVE  Cardinality(IdsOf(DeliveredOn(D, day)) \cup IdsOf(On(plan, day))) <= Cap
  <2> DEFINE M == IdsOf(DeliveredOn(D, day))
  <2> DEFINE P == On(plan, day)
  <2>1. P = {} \/ (IsFiniteSet(P) /\ Cardinality(P) <= left(day))
    <3>1. CASE day = c
      <4>1. P = S
        BY <1>0, <1>4, <1>6, <3>1 DEF On
      <4> QED BY <1>6, <3>1, <4>1
    <3>2. CASE day = c + 1
      <4>1. P = T
        BY <1>0, <1>4, <1>6, <3>2 DEF On
      <4> QED BY <1>6, <3>2, <4>1
    <3>3. CASE day = c + 2
      <4>1. P = U
        BY <1>0, <1>4, <1>6, <3>3 DEF On
      <4> QED BY <1>6, <3>3, <4>1
    <3>4. CASE day \notin {c, c + 1, c + 2}
      BY <1>4, <1>6, <3>4 DEF On
    <3> QED BY <3>1, <3>2, <3>3, <3>4
  <2>2. IsFiniteSet(M) /\ Cardinality(M) = Cardinality(DeliveredOn(D, day)) /\ Cardinality(M) <= Cap
    BY MarksCount
  <2>3. Cardinality(M) \in Nat
    BY <2>2, FS_CardinalityType
  <2>4. CASE P = {}
    <3>1. IdsOf(P) = {}
      BY <2>4 DEF IdsOf
    <3>2. M \cup IdsOf(P) = M
      BY <3>1
    <3> QED BY <2>2, <3>2
  <2>5. CASE IsFiniteSet(P) /\ Cardinality(P) <= left(day)
    <3>1. IsFiniteSet(IdsOf(P)) /\ Cardinality(IdsOf(P)) <= Cardinality(P)
      BY <2>5, IdsCount
    <3>2. Cardinality(IdsOf(P)) \in Nat /\ Cardinality(P) \in Nat
      BY <2>5, <3>1, FS_CardinalityType
    <3>3. Cardinality(M \cup IdsOf(P)) = Cardinality(M) + Cardinality(IdsOf(P)) - Cardinality(M \cap IdsOf(P))
      BY <2>2, <3>1, FS_Union
    <3>4. Cardinality(M \cap IdsOf(P)) \in Nat
      BY <2>2, FS_Subset, FS_CardinalityType
    <3>5. left(day) = Cap - Cardinality(M)
      BY <2>2 DEF left
    <3> HIDE DEF M, P
    <3>6. Cardinality(M) + Cardinality(IdsOf(P)) <= Cap
      BY <1>0, <2>3, <2>5, <3>1, <3>2, <3>5
    <3>7. Cardinality(M \cup IdsOf(P)) <= Cap
      BY <1>0, <2>3, <3>2, <3>3, <3>4, <3>6
    <3> QED BY <3>7 DEF M, P
  <2> QED BY <2>1, <2>4, <2>5
<1> QED BY <1>7, <1>8 DEF all
-----------------------------------------------------------------------------
\* Between two passes, and before a pass has done anything.

AtRest == pass = NoPass \/ pass = [NoPass EXCEPT !.pc = "cancel", !.clock = now]

RestCore ==
  /\ Unique(os) /\ Unique(ledger.scheduled)
  /\ DayTrue(os) /\ DayTrue(ledger.scheduled) /\ DayTrue(fired)
  /\ ~slip => os \subseteq ledger.scheduled
  /\ \A r \in os : r.at > now
  /\ \A f \in fired : f.at <= now /\ f.when = f.at
  /\ ~slip => \A f \in fired : Day(f.at) >= Today => Marked(f) \/ Expected(f)
  /\ \A r \in ledger.scheduled : Kind(r) = "ritual" => \A m \in ledger.delivered : m.id # r.id
  /\ \A day \in Nat : Cardinality(MarkedIds(day) \cup IdsOf(On(ledger.scheduled, day))) <= Cap

\* The sets the cap counts are finite.
LEMMA Finite ==
  ASSUME NotifyTypes, NEW day \in Nat
  PROVE  /\ IsFiniteSet(MarkedIds(day)) /\ IsFiniteSet(IdsOf(On(ledger.scheduled, day)))
         /\ IsFiniteSet(IdsOf(On(Asked, day)))
         /\ IsFiniteSet(MarkedIds(day) \cup IdsOf(On(ledger.scheduled, day)))
<1>1. IsFiniteSet(MarkedIds(day))
  BY MarksCount DEF NotifyTypes, Ledgers, MarkedIds
<1>2. IsFiniteSet(On(ledger.scheduled, day))
  BY FS_Subset DEF NotifyTypes, On
<1>3. IsFiniteSet(Asked)
  BY FS_Union DEF NotifyTypes, Asked
<1>4. IsFiniteSet(On(Asked, day))
  BY <1>3, FS_Subset DEF On
<1>5. IsFiniteSet(IdsOf(On(ledger.scheduled, day))) /\ IsFiniteSet(IdsOf(On(Asked, day)))
  BY <1>2, <1>4, IdsCount
<1> QED BY <1>1, <1>5, FS_Union

\* Fewer ids are no more.
LEMMA Fewer ==
  ASSUME NEW A, NEW B, IsFiniteSet(B), A \subseteq B, Cardinality(B) <= Cap
  PROVE  Cardinality(A) <= Cap
<1>1. Cardinality(A) <= Cardinality(B) /\ IsFiniteSet(A)
  BY FS_Subset
<1>2. Cardinality(A) \in Nat /\ Cardinality(B) \in Nat /\ Cap \in Nat
  BY <1>1, FS_CardinalityType, NotifyAssumption
<1> QED BY <1>1, <1>2

\* At rest, the shorter list is all the invariant says.
LEMMA Rest ==
  NotifyTypes /\ AtRest /\ RestCore => RequestInv /\ PassInv /\ TimeInv /\ KnownInv /\ FreshInv /\ CapInv
<1> SUFFICES ASSUME NotifyTypes, AtRest, RestCore
             PROVE  RequestInv /\ PassInv /\ TimeInv /\ KnownInv /\ FreshInv /\ CapInv
  OBVIOUS
<1>1. /\ Asked = {} /\ ~Planned /\ (Idle \/ pass.clock = now) /\ pass.pc # "dismiss"
      /\ now \in Nat /\ MinLead \in Nat /\ MinLead > 1
  <2>1. now \in Nat /\ MinLead \in Nat /\ MinLead > 1
    BY NotifyAssumption DEF NotifyTypes
  <2>2. CASE pass = NoPass
    <3>1. pass.pc = "idle" /\ pass.todo = {} /\ pass.done = {}
      BY <2>2 DEF NoPass
    <3> QED BY <2>1, <3>1 DEF Asked, Planned, Idle
  <2>3. CASE pass = [NoPass EXCEPT !.pc = "cancel", !.clock = now]
    <3>1. pass.pc = "cancel" /\ pass.todo = {} /\ pass.done = {} /\ pass.clock = now
      BY <2>3 DEF NoPass
    <3> QED BY <2>1, <3>1 DEF Asked, Planned, Idle
  <2> QED BY <2>2, <2>3 DEF AtRest
<1>2. RequestInv
  BY <1>1 DEF RestCore, RequestInv, Unique, DayTrue
<1>3. PassInv
  BY <1>1 DEF RestCore, PassInv
<1>4. TimeInv
  BY <1>1 DEF RestCore, TimeInv
<1>5. KnownInv
  BY <1>1 DEF RestCore, KnownInv
<1>6. FreshInv
  BY <1>1 DEF RestCore, FreshInv
<1>7. CapInv
  <2> SUFFICES ASSUME NEW day \in Nat PROVE Cardinality(MarkedIds(day) \cup IdsOf(On(Asked, day))) <= Cap
    BY DEF RestCore, CapInv
  <2>1. MarkedIds(day) \cup IdsOf(On(Asked, day)) \subseteq MarkedIds(day) \cup IdsOf(On(ledger.scheduled, day))
    BY <1>1 DEF On, IdsOf
  <2>2. Cardinality(MarkedIds(day) \cup IdsOf(On(ledger.scheduled, day))) <= Cap
    BY DEF RestCore
  <2> QED BY <2>1, <2>2, Finite, Fewer
<1> QED BY <1>2, <1>3, <1>4, <1>5, <1>6, <1>7

LEMMA RestAfter ==
  (NotifyTypes /\ AtRest /\ RestCore)' => (RequestInv /\ PassInv /\ TimeInv /\ KnownInv /\ FreshInv /\ CapInv)'
BY Rest, PTL

\* What the invariant says outside the work of a pass.
LEMMA RestBefore ==
  ASSUME NotifyIInv, ~Planned
  PROVE  RestCore
BY DEF NotifyIInv, RequestInv, PassInv, TimeInv, KnownInv, FreshInv, CapInv, RestCore

\* A step that leaves pass, OS, ledger and deliveries alone.
LEMMA SameInv ==
  ASSUME NotifyInv, UNCHANGED <<now, os, fired, ledger, pass, slip>>,
         block' \in [Blocks -> [slot : Nat, open : BOOLEAN]], ritual' \in RitualTimes \cup {None},
         profile' \in BOOLEAN, again' \in BOOLEAN, timer' \in BOOLEAN, mounted' \in BOOLEAN, timer' => mounted'
  PROVE  NotifyInv'
<1>1. NotifyTypes'
  BY DEF NotifyInv, NotifyIInv, NotifyTypes
<1>2. RequestInv'
  BY DEF NotifyInv, NotifyIInv, RequestInv, Asked
<1>3. PassInv'
  BY DEF NotifyInv, NotifyIInv, PassInv, Idle, Planned, Asked
<1>4. TimeInv' /\ KnownInv'
  BY DEF NotifyInv, NotifyIInv, TimeInv, KnownInv, Idle, Planned, Marked, Expected, Today
<1>5. FreshInv' /\ CapInv'
  BY DEF NotifyInv, NotifyIInv, FreshInv, CapInv, Asked, MarkedIds
<1>6. CapKeptById' /\ RitualOnce'
  BY DEF NotifyInv, CapKeptById, RitualOnce, DeliveriesOn, Today
<1> QED BY <1>1, <1>2, <1>3, <1>4, <1>5, <1>6 DEF NotifyInv, NotifyIInv

\* A call starts a pass, or asks for one more.
LEMMA StartInv ==
  ASSUME NotifyInv, Start, UNCHANGED <<now, block, profile, os, fired, ledger, slip>>,
         ritual' \in RitualTimes \cup {None}, timer' \in BOOLEAN, mounted' \in BOOLEAN, timer' => mounted'
  PROVE  NotifyInv'
<1>0. NotifyTypes
  BY DEF NotifyInv, NotifyIInv
<1>1. CASE Idle
  <2>1. pass' = [NoPass EXCEPT !.pc = "cancel", !.clock = now] /\ again' = again
    BY <1>1 DEF Start
  <2>2. NotifyTypes'
    <3>1. now \in Nat
      BY <1>0, NotifyAssumption DEF NotifyTypes
    <3>2. pass' = [pc |-> "cancel", clock |-> now, todo |-> {}, done |-> {}, open |-> {}]
      BY <2>1 DEF NoPass
    <3>3. pass' \in Passes
      BY <3>1, <3>2 DEF Passes
    <3>4. pass'.todo = {} /\ pass'.done = {}
      BY <3>2
    <3> QED BY <1>0, <2>1, <3>3, <3>4, FS_EmptySet DEF NotifyTypes
  <2>3. RestCore
    BY <1>1, RestBefore DEF NotifyInv, Idle, Planned
  <2>4. RestCore'
    BY <2>3 DEF RestCore, Marked, Expected, Today, MarkedIds
  <2>5. AtRest'
    BY <2>1 DEF AtRest
  <2>6. CapKeptById' /\ RitualOnce'
    BY DEF NotifyInv, CapKeptById, RitualOnce, DeliveriesOn, Today
  <2> QED BY <2>2, <2>4, <2>5, <2>6, RestAfter DEF NotifyInv, NotifyIInv
<1>2. CASE ~Idle
  <2>1. pass' = pass /\ again' = TRUE
    BY <1>2 DEF Start
  <2>2. block' \in [Blocks -> [slot : Nat, open : BOOLEAN]] /\ profile' \in BOOLEAN
    BY <1>0 DEF NotifyTypes
  <2> QED BY <2>1, <2>2, SameInv
<1> QED BY <1>1, <1>2

\* It holds at first: the ledger is empty and the ritual at its earliest time.
LEMMA NotifyInitInv ==
  NotifyInit => NotifyInv
<1> SUFFICES ASSUME NotifyInit PROVE NotifyInv
  OBVIOUS
<1> USE DEF NotifyInit
<1>1. FirstRitual \in RitualTimes \cup {None}
  <2>1. CASE RitualTimes = {}
    BY <2>1 DEF FirstRitual
  <2>2. CASE RitualTimes # {}
    <3> DEFINE R == OpToRel(<, Nat)
    <3>1. RitualTimes \subseteq Nat
      BY NotifyAssumption
    <3>2. \A a, b \in Nat : <<a, b>> \in R <=> a < b
      BY DEF OpToRel
    <3>3. PICK x \in RitualTimes : \A y \in RitualTimes : x <= y
      <4>1. PICK x \in RitualTimes : \A y \in RitualTimes : ~(<<y, x>> \in R)
        BY <2>2, <3>1, NatLessThanWellFounded, WFMin
      <4> HIDE DEF R
      <4>2. ASSUME NEW y \in RitualTimes PROVE x <= y
        <5>1. x \in Nat /\ y \in Nat
          BY <3>1
        <5>2. ~(y < x)
          BY <3>2, <4>1, <5>1
        <5> QED BY <5>1, <5>2
      <4> QED BY <4>2
    <3>4. Min(RitualTimes) \in RitualTimes
      BY <3>3 DEF Min
    <3> QED BY <2>2, <3>4 DEF FirstRitual
  <2> QED BY <2>1, <2>2
<1>2. NotifyTypes
  <2>1. block \in [Blocks -> [slot : Nat, open : BOOLEAN]] /\ 0 \in 0 .. MaxTime
    BY NotifyAssumption
  <2>2. ledger \in Ledgers /\ pass \in Passes
    BY DEF EmptyLedger, NoPass, Ledgers, Passes
  <2> QED BY <1>1, <2>1, <2>2, FS_EmptySet DEF NotifyTypes, EmptyLedger, NoPass
<1>3. \A day \in Nat : MarkedIds(day) \cup IdsOf(On(ledger.scheduled, day)) = {}
  BY DEF MarkedIds, IdsOf, On, DeliveredOn, EmptyLedger
<1>4. Cap \in Nat /\ Cardinality({}) = 0
  BY NotifyAssumption, FS_EmptySet
<1>5. RestCore
  BY <1>3, <1>4 DEF RestCore, Unique, DayTrue, EmptyLedger
<1>6. AtRest
  BY DEF AtRest
<1>7. CapKeptById /\ RitualOnce
  <2>1. \A day \in 0 .. Today : {f.id : f \in DeliveriesOn(day)} = {}
    BY DEF DeliveriesOn
  <2>2. \A day \in 0 .. Today : Cardinality({f.id : f \in DeliveriesOn(day)}) <= Cap
    <3> SUFFICES ASSUME NEW day \in 0 .. Today PROVE Cardinality({f.id : f \in DeliveriesOn(day)}) <= Cap
      OBVIOUS
    <3> DEFINE F == {f.id : f \in DeliveriesOn(day)}
    <3>1. F = {}
      BY <2>1
    <3> HIDE DEF F
    <3>2. Cardinality(F) <= Cap
      BY <1>4, <3>1
    <3> QED BY <3>2 DEF F
  <2>4. CapKeptById
    BY <2>2 DEF CapKeptById
  <2>3. RitualOnce
    BY DEF RitualOnce
  <2> QED BY <2>3, <2>4
<1> QED BY <1>2, <1>5, <1>6, <1>7, Rest DEF NotifyInv, NotifyIInv
-----------------------------------------------------------------------------
\* What settling the ledger gives: no id is lost or counted anew, and every delivery is marked.
LEMMA SettledFacts ==
  ASSUME NotifyIInv, pass.pc = "cancel"
  PROVE  LET L == Settled(pass.clock) IN
         /\ L.delivered \subseteq Marks /\ IsFiniteSet(L.delivered)
         /\ L.scheduled \subseteq ledger.scheduled /\ IsFiniteSet(L.scheduled)
         /\ \A day \in Nat : IdsOf(DeliveredOn(L.delivered, day)) \cup IdsOf(On(L.scheduled, day))
                               \subseteq MarkedIds(day) \cup IdsOf(On(ledger.scheduled, day))
         /\ \A r \in L.scheduled : Kind(r) = "ritual" => \A m \in L.delivered : m.id # r.id
         /\ ~slip => \A f \in fired : Day(f.at) >= Today => [id |-> f.id, day |-> Day(f.at)] \in L.delivered
<1> DEFINE c == pass.clock
<1> DEFINE old == {m \in ledger.delivered : m.day >= Day(c) - 1}
<1> DEFINE due == {s \in ledger.scheduled : s.at <= c /\ Day(s.at) >= Day(c) - 1}
<1> DEFINE new == {[id |-> r.id, day |-> Day(r.at)] : r \in due}
<1> DEFINE ahead == {r \in ledger.scheduled : r.at > c}
<1>1. Settled(pass.clock) = [delivered |-> old \cup new, scheduled |-> ahead]
  BY DEF Settled
<1>2. /\ ledger.delivered \subseteq Marks /\ ledger.scheduled \subseteq Requests
      /\ IsFiniteSet(ledger.delivered) /\ IsFiniteSet(ledger.scheduled) /\ c \in Nat /\ now \in Nat
  BY NotifyAssumption DEF NotifyIInv, NotifyTypes, Ledgers, Passes
<1>3. due \subseteq ledger.scheduled /\ \A r \in due : r.at \in Nat /\ Day(r.at) \in Nat /\ r.id \in Ids
  BY <1>2, DayFacts DEF Requests
<1>4. old \cup new \subseteq Marks
  BY <1>2, <1>3 DEF Marks
<1>5. IsFiniteSet(new)
  <2> DEFINE f == [r \in due |-> [id |-> r.id, day |-> Day(r.at)]]
  <2>1. f \in Surjection(due, new)
    BY DEF Surjection
  <2>2. IsFiniteSet(due)
    BY <1>2, <1>3, FS_Subset
  <2> QED BY <2>1, <2>2, FS_Surjection
<1>6. IsFiniteSet(old \cup new)
  <2>1. IsFiniteSet(old)
    BY <1>2, FS_Subset
  <2> QED BY <1>5, <2>1, FS_Union
<1>7. ahead \subseteq ledger.scheduled /\ IsFiniteSet(ahead)
  BY <1>2, FS_Subset
<1>8. ASSUME NEW day \in Nat
      PROVE  IdsOf(DeliveredOn(old \cup new, day)) \cup IdsOf(On(ahead, day))
               \subseteq MarkedIds(day) \cup IdsOf(On(ledger.scheduled, day))
  <2>1. ASSUME NEW m \in DeliveredOn(old \cup new, day)
        PROVE  m.id \in MarkedIds(day) \cup IdsOf(On(ledger.scheduled, day))
    <3>1. CASE m \in old
      BY <3>1 DEF DeliveredOn, MarkedIds, IdsOf
    <3>2. CASE m \in new
      <4>1. PICK r \in due : m = [id |-> r.id, day |-> Day(r.at)]
        BY <3>2
      <4>2. r \in On(ledger.scheduled, day) /\ m.id = r.id
        BY <1>3, <4>1 DEF DeliveredOn, On
      <4> QED BY <4>2 DEF IdsOf
    <3> QED BY <3>1, <3>2 DEF DeliveredOn
  <2>2. IdsOf(On(ahead, day)) \subseteq IdsOf(On(ledger.scheduled, day))
    BY <1>7 DEF IdsOf, On
  <2> HIDE DEF old, new, ahead
  <2> QED BY <2>1, <2>2 DEF IdsOf
<1>9. ASSUME NEW r \in ahead, Kind(r) = "ritual", NEW m \in old \cup new PROVE m.id # r.id
  <2>1. CASE m \in old
    BY <1>9, <2>1 DEF NotifyIInv, FreshInv
  <2>2. CASE m \in new
    <3>1. PICK q \in due : m = [id |-> q.id, day |-> Day(q.at)]
      BY <2>2
    <3>2. q \in ledger.scheduled /\ r \in ledger.scheduled /\ q.at <= c /\ r.at > c /\ q.at \in Nat /\ r.at \in Nat
      BY <1>2, <1>3 DEF Requests
    <3>3. q # r
      BY <1>2, <3>2
    <3>4. q.id # r.id
      BY <3>2, <3>3 DEF NotifyIInv, RequestInv, Unique
    <3> QED BY <3>1, <3>4
  <2> QED BY <1>9, <2>1, <2>2
<1>10. ASSUME ~slip, NEW f \in fired, Day(f.at) >= Today
       PROVE  [id |-> f.id, day |-> Day(f.at)] \in old \cup new
  <2>1. ~Planned /\ ~Idle
    BY DEF Planned, Idle
  <2>2. c <= now /\ f.at <= c /\ f.at \in Nat
    BY <1>10, <2>1 DEF NotifyIInv, PassInv, TimeInv, NotifyTypes, Passes
  <2>3. Day(c) <= Today /\ Day(c) \in Nat /\ Today \in Nat /\ Day(f.at) \in Nat
    BY <1>2, <2>2, DayFacts DEF Today
  <2>4. Day(f.at) >= Day(c) - 1
    BY <1>10, <2>3
  <2>5. CASE Marked(f)
    BY <2>4, <2>5 DEF Marked
  <2>6. CASE Expected(f)
    <3>1. PICK r \in ledger.scheduled : r.id = f.id /\ r.at = f.at
      BY <2>6 DEF Expected
    <3>2. r \in due
      BY <2>2, <2>4, <3>1
    <3> QED BY <3>1, <3>2
  <2> QED BY <1>10, <2>5, <2>6 DEF NotifyIInv, KnownInv
<1> DEFINE L == Settled(pass.clock)
<1>11. L.delivered = old \cup new /\ L.scheduled = ahead
  BY <1>1
<1> HIDE DEF old, new, ahead, L
<1>12. /\ L.delivered \subseteq Marks /\ IsFiniteSet(L.delivered)
       /\ L.scheduled \subseteq ledger.scheduled /\ IsFiniteSet(L.scheduled)
  BY <1>4, <1>6, <1>7, <1>11
<1>13. \A day \in Nat : IdsOf(DeliveredOn(L.delivered, day)) \cup IdsOf(On(L.scheduled, day))
                            \subseteq MarkedIds(day) \cup IdsOf(On(ledger.scheduled, day))
  BY <1>8, <1>11
<1>14. \A r \in L.scheduled : Kind(r) = "ritual" => \A m \in L.delivered : m.id # r.id
  BY <1>9, <1>11
<1>15. ~slip => \A f \in fired : Day(f.at) >= Today => [id |-> f.id, day |-> Day(f.at)] \in L.delivered
  BY <1>10, <1>11
<1> QED BY <1>12, <1>13, <1>14, <1>15 DEF L

\* A pass that ends leaves the scheduler at rest.
LEMMA FinishFacts ==
  ASSUME NotifyTypes, Finish, now' = now
  PROVE  AtRest' /\ again' \in BOOLEAN /\ pass' \in Passes /\ ~Planned' /\ pass'.todo = {} /\ pass'.done = {}
<1>1. now \in Nat
  BY NotifyAssumption DEF NotifyTypes
<1>2. CASE again
  <2>1. pass' = [NoPass EXCEPT !.pc = "cancel", !.clock = now]
    BY <1>2 DEF Finish
  <2> QED BY <1>1, <2>1 DEF Finish, AtRest, NoPass, Passes, Planned
<1>3. CASE ~again
  <2>1. pass' = NoPass
    BY <1>3 DEF Finish
  <2>2. AtRest'
    BY <2>1 DEF AtRest, NoPass
  <2>3. again' \in BOOLEAN
    BY DEF Finish
  <2> QED BY <1>1, <2>1, <2>2, <2>3 DEF NoPass, Passes, Planned
<1> QED BY <1>2, <1>3

\* Cancel, settle and plan.
LEMMA SettleInv ==
  ASSUME NotifyInv, CancelAndSettle
  PROVE  NotifyInv'
<1> DEFINE L == Settled(pass.clock)
<1>0. /\ NotifyIInv /\ NotifyTypes /\ pass.pc = "cancel" /\ ~Planned /\ os' = {}
      /\ UNCHANGED <<now, block, ritual, profile, fired, timer, mounted, slip>>
  BY DEF NotifyInv, NotifyIInv, CancelAndSettle, data, Planned
<1>1. /\ L.delivered \subseteq Marks /\ IsFiniteSet(L.delivered)
      /\ L.scheduled \subseteq ledger.scheduled /\ IsFiniteSet(L.scheduled)
      /\ \A day \in Nat : IdsOf(DeliveredOn(L.delivered, day)) \cup IdsOf(On(L.scheduled, day))
                            \subseteq MarkedIds(day) \cup IdsOf(On(ledger.scheduled, day))
      /\ \A r \in L.scheduled : Kind(r) = "ritual" => \A m \in L.delivered : m.id # r.id
      /\ ~slip => \A f \in fired : Day(f.at) >= Today => [id |-> f.id, day |-> Day(f.at)] \in L.delivered
  BY <1>0, SettledFacts
<1>2. /\ L.scheduled \subseteq Requests /\ Unique(L.scheduled) /\ DayTrue(L.scheduled)
  BY <1>0, <1>1 DEF NotifyIInv, NotifyTypes, Ledgers, RequestInv, Unique, DayTrue
<1>3. ASSUME NEW day \in Nat
      PROVE  Cardinality(IdsOf(DeliveredOn(L.delivered, day)) \cup IdsOf(On(L.scheduled, day))) <= Cap
  <2>1. Cardinality(MarkedIds(day) \cup IdsOf(On(ledger.scheduled, day))) <= Cap
    BY <1>0 DEF NotifyIInv, CapInv
  <2> HIDE DEF L
  <2> QED BY <1>0, <1>1, <2>1, Finite, Fewer
<1>4. ASSUME NEW day \in Nat PROVE Cardinality(IdsOf(DeliveredOn(L.delivered, day))) <= Cap
  <2> DEFINE A == IdsOf(DeliveredOn(L.delivered, day))
  <2> DEFINE B == MarkedIds(day) \cup IdsOf(On(ledger.scheduled, day))
  <2>1. Cardinality(B) <= Cap /\ IsFiniteSet(B)
    BY <1>0, Finite DEF NotifyIInv, CapInv
  <2>2. A \subseteq B
    BY <1>1
  <2> HIDE DEF A, B
  <2>3. Cardinality(A) <= Cap
    BY <2>1, <2>2, Fewer
  <2> QED BY <2>3 DEF A
<1>5. RestCore
  BY <1>0, RestBefore
<1>6. CapKeptById' /\ RitualOnce'
  BY <1>0 DEF NotifyInv, CapKeptById, RitualOnce, DeliveriesOn, Today
<1>7. CASE profile
  <2>1. ledger' = L /\ again' = again
    BY <1>7 DEF CancelAndSettle
  <2>2. PICK plan \in PlanFor(pass.clock, L.delivered) :
          pass' = [pass EXCEPT !.pc = "dismiss", !.todo = plan,
                     !.open = {[id |-> <<"block", b>>, slot |-> block[b].slot] : b \in OpenAhead(pass.clock)}]
    BY <1>7 DEF CancelAndSettle
  <2>3. pass.clock \in Nat
    BY <1>0 DEF NotifyTypes, Passes
  <2> DEFINE all == AllCandidates(pass.clock, L.delivered)
  <2>4. /\ Unique(all) /\ DayTrue(all) /\ all \subseteq Requests
        /\ \A r \in all : r.at >= pass.clock + MinLead
        /\ \A r \in all : Kind(r) = "ritual" => \A m \in L.delivered : m.id # r.id
    BY <1>0, <2>3, CandidateFacts
  <2>5. /\ plan \subseteq all /\ IsFiniteSet(plan)
        /\ \A day \in Nat : Cardinality(IdsOf(DeliveredOn(L.delivered, day)) \cup IdsOf(On(plan, day))) <= Cap
    <3> HIDE DEF L, all
    <3>1. plan \subseteq AllCandidates(pass.clock, L.delivered) /\ IsFiniteSet(plan)
          /\ \A day \in Nat : Cardinality(IdsOf(DeliveredOn(L.delivered, day)) \cup IdsOf(On(plan, day))) <= Cap
      BY <1>0, <1>1, <1>4, <2>3, PlanFacts
    <3> QED BY <3>1 DEF all
  <2> HIDE DEF L, all
  <2>6. /\ pass'.pc = "dismiss" /\ pass'.clock = pass.clock /\ pass'.todo = plan /\ pass'.done = {}
        /\ Asked' = plan /\ Planned' /\ ~Idle'
    <3>1. pass.done = {}
      BY <1>0 DEF NotifyIInv, PassInv, Asked
    <3>3. pass'.pc = "dismiss" /\ pass'.clock = pass.clock /\ pass'.todo = plan /\ pass'.done = {}
      BY <1>0, <2>2, <3>1 DEF NotifyTypes, Passes
    <3> QED BY <3>3 DEF Asked, Planned, Idle
  <2>7. NotifyTypes'
    <3>1. ASSUME NEW b \in OpenAhead(pass.clock)
          PROVE  [id |-> <<"block", b>>, slot |-> block[b].slot] \in [id : Ids, slot : Nat]
      BY <1>0 DEF OpenAhead, NotifyTypes, Ids
    <3> DEFINE open == {[id |-> <<"block", b>>, slot |-> block[b].slot] : b \in OpenAhead(pass.clock)}
    <3>2. open \in SUBSET [id : Ids, slot : Nat] /\ pass' = [pass EXCEPT !.pc = "dismiss", !.todo = plan, !.open = open]
      BY <2>2, <3>1
    <3> HIDE DEF open
    <3>3. plan \in SUBSET Requests
      BY <2>4, <2>5
    <3>4. pass' \in Passes
      BY <1>0, <3>2, <3>3 DEF NotifyTypes, Passes
    <3>5. ledger' \in Ledgers
      BY <1>1, <1>2, <2>1 DEF Ledgers, L, Settled
    <3> QED BY <1>0, <1>1, <2>1, <2>5, <2>6, <3>4, <3>5, FS_EmptySet DEF NotifyTypes
  <2>8. RequestInv'
    BY <1>0, <1>2, <2>1, <2>4, <2>5, <2>6 DEF NotifyIInv, RequestInv, Unique, DayTrue
  <2>9. PassInv'
    BY <1>0, <2>4, <2>5, <2>6 DEF NotifyIInv, PassInv, Idle
  <2>10. TimeInv'
    BY <1>0, <2>6 DEF NotifyIInv, TimeInv, Idle
  <2>11. KnownInv'
    BY <1>0, <1>1, <2>1 DEF KnownInv, Marked, Today
  <2>12. FreshInv'
    BY <1>1, <2>1, <2>4, <2>5, <2>6 DEF FreshInv
  <2>13. CapInv'
    BY <1>3, <2>1, <2>5, <2>6 DEF CapInv, MarkedIds
  <2> QED BY <1>6, <2>7, <2>8, <2>9, <2>10, <2>11, <2>12, <2>13 DEF NotifyInv, NotifyIInv
<1>8. CASE ~profile
  <2>1. ledger' = [L EXCEPT !.scheduled = {}] /\ Finish
    BY <1>8 DEF CancelAndSettle
  <2>2. ledger'.delivered = L.delivered /\ ledger'.scheduled = {}
    BY <2>1 DEF Settled
  <2>3. /\ AtRest' /\ again' \in BOOLEAN /\ pass' \in Passes /\ ~Planned' /\ pass'.todo = {} /\ pass'.done = {}
    BY <1>0, <2>1, FinishFacts
  <2> HIDE DEF L
  <2>4. NotifyTypes'
    <3>1. ledger' \in Ledgers
      BY <1>1, <2>1, <2>2 DEF Ledgers, L, Settled
    <3> QED BY <1>0, <1>1, <2>2, <2>3, <3>1, FS_EmptySet DEF NotifyTypes
  <2>5. RestCore'
    <3>1. /\ Unique(os)' /\ Unique(ledger.scheduled)' /\ DayTrue(os)' /\ DayTrue(ledger.scheduled)' /\ DayTrue(fired)'
          /\ (~slip => os \subseteq ledger.scheduled)' /\ (\A r \in os : r.at > now)'
          /\ (\A f \in fired : f.at <= now /\ f.when = f.at)'
      BY <1>0, <1>5, <2>2 DEF RestCore, Unique, DayTrue
    <3>2. (~slip => \A f \in fired : Day(f.at) >= Today => Marked(f) \/ Expected(f))'
      BY <1>0, <1>1, <2>2 DEF Marked, Today
    <3>3. (\A r \in ledger.scheduled : Kind(r) = "ritual" => \A m \in ledger.delivered : m.id # r.id)'
      BY <2>2
    <3>4. (\A day \in Nat : Cardinality(MarkedIds(day) \cup IdsOf(On(ledger.scheduled, day))) <= Cap)'
      <4> SUFFICES ASSUME NEW day \in Nat
                   PROVE  Cardinality(IdsOf(DeliveredOn(L.delivered, day)) \cup IdsOf(On({}, day))) <= Cap
        BY <2>2 DEF MarkedIds
      <4>1. IdsOf(On({}, day)) = {}
        BY DEF IdsOf, On
      <4>2. IdsOf(DeliveredOn(L.delivered, day)) \cup IdsOf(On({}, day)) = IdsOf(DeliveredOn(L.delivered, day))
        BY <4>1
      <4> QED BY <1>4, <4>2
    <3> QED BY <3>1, <3>2, <3>3, <3>4 DEF RestCore
  <2> QED BY <1>6, <2>3, <2>4, <2>5, RestAfter DEF NotifyInv, NotifyIInv
<1> QED BY <1>7, <1>8
-----------------------------------------------------------------------------
\* The rest of a pass.
LEMMA DismissInv ==
  ASSUME NotifyInv, Dismiss
  PROVE  NotifyInv'
<1>0. /\ NotifyIInv /\ NotifyTypes /\ pass.pc = "dismiss" /\ pass \in Passes
      /\ UNCHANGED <<now, block, ritual, profile, os, fired, ledger, again, timer, mounted, slip>>
      /\ pass' = [pass EXCEPT !.pc = "schedule", !.open = {}]
  BY DEF NotifyInv, NotifyIInv, NotifyTypes, Dismiss, data
<1>1. /\ pass' \in Passes /\ pass'.pc = "schedule" /\ pass'.clock = pass.clock
      /\ pass'.todo = pass.todo /\ pass'.done = pass.done
  BY <1>0 DEF Passes
<1>2. Planned /\ Planned' /\ ~Idle /\ ~Idle' /\ Asked' = Asked
  BY <1>0, <1>1 DEF Planned, Idle, Asked
<1>3. NotifyTypes'
  BY <1>0, <1>1 DEF NotifyTypes
<1>4. RequestInv'
  BY <1>0, <1>2 DEF NotifyIInv, RequestInv
<1>5. PassInv'
  BY <1>0, <1>1, <1>2 DEF NotifyIInv, PassInv
<1>6. TimeInv' /\ KnownInv'
  BY <1>0, <1>1, <1>2 DEF NotifyIInv, TimeInv, KnownInv, Marked, Today
<1>7. FreshInv' /\ CapInv'
  BY <1>0, <1>2 DEF NotifyIInv, FreshInv, CapInv, MarkedIds
<1>8. CapKeptById' /\ RitualOnce'
  BY <1>0 DEF NotifyInv, CapKeptById, RitualOnce, DeliveriesOn, Today
<1> QED BY <1>3, <1>4, <1>5, <1>6, <1>7, <1>8 DEF NotifyInv, NotifyIInv

\* A request reaches the OS before it is due.
LEMMA ScheduleInv ==
  ASSUME NotifyInv, NEW r \in pass.todo, Schedule(r)
  PROVE  NotifyInv'
<1>0. /\ NotifyIInv /\ NotifyTypes /\ pass.pc = "schedule" /\ pass \in Passes
      /\ UNCHANGED <<now, block, ritual, profile, fired, ledger, again, timer, mounted, slip>>
      /\ os' = {q \in os : q.id # r.id} \cup {r}
      /\ pass' = [pass EXCEPT !.todo = @ \ {r}, !.done = @ \cup {r}]
  BY DEF NotifyInv, NotifyIInv, NotifyTypes, Schedule, data
<1>1. /\ pass' \in Passes /\ pass'.pc = "schedule" /\ pass'.clock = pass.clock
      /\ pass'.todo = pass.todo \ {r} /\ pass'.done = pass.done \cup {r}
  BY <1>0 DEF Passes
<1>2. Planned /\ Planned' /\ ~Idle /\ ~Idle' /\ Asked' = Asked /\ r \in Asked
  BY <1>0, <1>1 DEF Planned, Idle, Asked
<1>3. r \in Requests /\ pass.clock \in Nat /\ r.at \in Nat /\ now \in Nat /\ MinLead \in Nat
  BY <1>0, NotifyAssumption DEF Passes, Requests, NotifyTypes
<1>4. NotifyTypes'
  <2>1. IsFiniteSet(pass.todo \ {r}) /\ IsFiniteSet(pass.done \cup {r})
    BY <1>0, FS_RemoveElement, FS_AddElement DEF NotifyTypes
  <2>2. os' \in SUBSET Requests
    BY <1>0, <1>3 DEF NotifyTypes
  <2> QED BY <1>0, <1>1, <2>1, <2>2 DEF NotifyTypes
<1>5. RequestInv'
  <2>1. Unique(os')
    BY <1>0 DEF NotifyIInv, RequestInv, Unique
  <2>2. DayTrue(os')
    BY <1>0, <1>2 DEF NotifyIInv, RequestInv, DayTrue
  <2> QED BY <1>0, <1>2, <2>1, <2>2 DEF NotifyIInv, RequestInv
<1>6. PassInv'
  BY <1>0, <1>1, <1>2 DEF NotifyIInv, PassInv
<1>7. TimeInv' /\ KnownInv'
  <2>1. r.at > now
    BY <1>0, <1>2, <1>3 DEF NotifyIInv, PassInv
  <2>2. TimeInv'
    BY <1>0, <1>1, <1>2, <2>1 DEF NotifyIInv, TimeInv
  <2>3. KnownInv'
    BY <1>0, <1>2 DEF NotifyIInv, KnownInv, Marked, Today
  <2> QED BY <2>2, <2>3
<1>8. FreshInv' /\ CapInv'
  BY <1>0, <1>2 DEF NotifyIInv, FreshInv, CapInv, MarkedIds
<1>9. CapKeptById' /\ RitualOnce'
  BY <1>0 DEF NotifyInv, CapKeptById, RitualOnce, DeliveriesOn, Today
<1> QED BY <1>4, <1>5, <1>6, <1>7, <1>8, <1>9 DEF NotifyInv, NotifyIInv

\* What the pass asked for becomes what the ledger expects.
LEMMA CommitInv ==
  ASSUME NotifyInv, Commit
  PROVE  NotifyInv'
<1>0. /\ NotifyIInv /\ NotifyTypes /\ pass.pc = "schedule" /\ pass \in Passes /\ ledger \in Ledgers
      /\ UNCHANGED <<now, block, ritual, profile, os, fired, timer, mounted, slip>>
      /\ pass.todo = {} /\ Planned /\ ~Idle
  BY DEF NotifyInv, NotifyIInv, NotifyTypes, Commit, data, Planned, Idle
<1>1. ledger' \in Ledgers /\ ledger'.delivered = ledger.delivered /\ ledger'.scheduled = pass.done /\ pass.done = Asked
  BY <1>0 DEF Commit, Passes, Ledgers, Asked
<1>2. /\ AtRest' /\ again' \in BOOLEAN /\ pass' \in Passes /\ pass'.todo = {} /\ pass'.done = {}
  BY <1>0, FinishFacts DEF Commit
<1>3. NotifyTypes'
  BY <1>0, <1>1, <1>2, FS_EmptySet DEF NotifyTypes
<1>4. RestCore'
  <2>1. /\ Unique(os)' /\ Unique(ledger.scheduled)' /\ DayTrue(os)' /\ DayTrue(ledger.scheduled)' /\ DayTrue(fired)'
    BY <1>0, <1>1 DEF NotifyIInv, RequestInv
  <2>2. (~slip => os \subseteq ledger.scheduled)'
    BY <1>0, <1>1 DEF NotifyIInv, PassInv
  <2>3. (\A r \in os : r.at > now)' /\ (\A f \in fired : f.at <= now /\ f.when = f.at)'
    BY <1>0 DEF NotifyIInv, TimeInv
  <2>4. (~slip => \A f \in fired : Day(f.at) >= Today => Marked(f) \/ Expected(f))'
    BY <1>0, <1>1 DEF NotifyIInv, KnownInv, Marked, Today
  <2>5. (\A r \in ledger.scheduled : Kind(r) = "ritual" => \A m \in ledger.delivered : m.id # r.id)'
    BY <1>0, <1>1 DEF NotifyIInv, FreshInv
  <2>6. (\A day \in Nat : Cardinality(MarkedIds(day) \cup IdsOf(On(ledger.scheduled, day))) <= Cap)'
    BY <1>0, <1>1 DEF NotifyIInv, CapInv, MarkedIds
  <2> QED BY <2>1, <2>2, <2>3, <2>4, <2>5, <2>6 DEF RestCore
<1>5. CapKeptById' /\ RitualOnce'
  BY <1>0 DEF NotifyInv, CapKeptById, RitualOnce, DeliveriesOn, Today
<1> QED BY <1>2, <1>3, <1>4, <1>5, RestAfter DEF NotifyInv, NotifyIInv

\* The app is killed: what a pass had not committed is known to nobody, which `slip` tells.
LEMMA KillInv ==
  ASSUME NotifyInv, KillApp
  PROVE  NotifyInv'
<1>0. /\ NotifyIInv /\ NotifyTypes /\ pass \in Passes /\ pass' = NoPass
      /\ UNCHANGED <<now, block, ritual, profile, os, fired, ledger>>
      /\ again' = FALSE /\ timer' = FALSE /\ mounted' = FALSE
      /\ slip' = (slip \/ (pass.pc = "schedule" /\ pass.done # {})) /\ slip \in BOOLEAN
  BY DEF NotifyInv, NotifyIInv, NotifyTypes, KillApp, data
<1>1. AtRest' /\ pass' \in Passes /\ pass'.todo = {} /\ pass'.done = {} /\ slip' \in BOOLEAN
  BY <1>0 DEF AtRest, NoPass, Passes
<1>2. NotifyTypes'
  BY <1>0, <1>1, FS_EmptySet DEF NotifyTypes
<1>3. ~slip' => ~slip /\ (Planned => pass.done = {})
  BY <1>0 DEF NotifyIInv, PassInv, Planned
<1>4. RestCore'
  <2>1. /\ Unique(os)' /\ Unique(ledger.scheduled)' /\ DayTrue(os)' /\ DayTrue(ledger.scheduled)' /\ DayTrue(fired)'
    BY <1>0 DEF NotifyIInv, RequestInv
  <2>2. (~slip => os \subseteq ledger.scheduled)'
    BY <1>0, <1>3 DEF NotifyIInv, PassInv
  <2>3. (\A r \in os : r.at > now)' /\ (\A f \in fired : f.at <= now /\ f.when = f.at)'
    BY <1>0 DEF NotifyIInv, TimeInv
  <2>4. (~slip => \A f \in fired : Day(f.at) >= Today => Marked(f) \/ Expected(f))'
    BY <1>0, <1>3 DEF NotifyIInv, KnownInv, Marked, Expected, Today
  <2>5. (\A r \in ledger.scheduled : Kind(r) = "ritual" => \A m \in ledger.delivered : m.id # r.id)'
    BY <1>0 DEF NotifyIInv, FreshInv
  <2>6. (\A day \in Nat : Cardinality(MarkedIds(day) \cup IdsOf(On(ledger.scheduled, day))) <= Cap)'
    BY <1>0 DEF NotifyIInv, CapInv, MarkedIds
  <2> QED BY <2>1, <2>2, <2>3, <2>4, <2>5, <2>6 DEF RestCore
<1>5. CapKeptById' /\ RitualOnce'
  BY <1>0, <1>3 DEF NotifyInv, CapKeptById, RitualOnce, DeliveriesOn, Today
<1> QED BY <1>1, <1>2, <1>4, <1>5, RestAfter DEF NotifyInv, NotifyIInv

\* The account leaves, and everything it was promised with it.
LEMMA LeaveInv ==
  ASSUME NotifyInv, Leave
  PROVE  NotifyInv'
<1>0. /\ NotifyIInv /\ NotifyTypes /\ ledger \in Ledgers /\ pass \in Passes
      /\ UNCHANGED <<now, ritual, pass, again, mounted>>
      /\ os' = {} /\ fired' = {} /\ ledger' = EmptyLedger /\ slip' = ~Idle /\ timer' = mounted /\ profile' = FALSE
  BY DEF NotifyInv, NotifyIInv, NotifyTypes, Leave
<1>1. ledger'.delivered = {} /\ ledger'.scheduled = {} /\ ledger' \in Ledgers
  BY <1>0 DEF EmptyLedger, Ledgers
<1>2. block' \in [Blocks -> [slot : Nat, open : BOOLEAN]]
  BY <1>0 DEF Leave, NotifyTypes
<1>3. NotifyTypes'
  BY <1>0, <1>1, <1>2, FS_EmptySet DEF NotifyTypes, Idle
<1>4. Planned' = Planned /\ Idle' = Idle /\ Asked' = Asked
  BY <1>0 DEF Planned, Idle, Asked
<1>5. RequestInv'
  BY <1>0, <1>1, <1>4 DEF NotifyIInv, RequestInv, Unique, DayTrue
<1>6. PassInv'
  BY <1>0, <1>1, <1>4 DEF NotifyIInv, PassInv
<1>7. TimeInv' /\ KnownInv' /\ FreshInv'
  BY <1>0, <1>1 DEF TimeInv, KnownInv, FreshInv
<1>8. CapInv'
  <2> SUFFICES ASSUME NEW day \in Nat
               PROVE  /\ Cardinality(MarkedIds(day)' \cup IdsOf(On(ledger'.scheduled, day))) <= Cap
                      /\ Cardinality(MarkedIds(day)' \cup IdsOf(On(Asked', day))) <= Cap
    BY DEF CapInv
  <2>1. MarkedIds(day)' = {} /\ IdsOf(On(ledger'.scheduled, day)) = {}
    BY <1>1 DEF MarkedIds, IdsOf, DeliveredOn, On
  <2>2. Cardinality(IdsOf(On(Asked, day))) <= Cap
    <3> DEFINE A == IdsOf(On(Asked, day))
    <3> DEFINE B == MarkedIds(day) \cup A
    <3>1. IsFiniteSet(B) /\ Cardinality(B) <= Cap
      <4>1. IsFiniteSet(MarkedIds(day)) /\ IsFiniteSet(A)
        BY <1>0, Finite
      <4> QED BY <1>0, <4>1, FS_Union DEF NotifyIInv, CapInv
    <3>2. A \subseteq B
      OBVIOUS
    <3> HIDE DEF A, B
    <3>3. Cardinality(A) <= Cap
      BY <3>1, <3>2, Fewer
    <3> QED BY <3>3 DEF A
  <2>3. Cardinality({}) = 0 /\ Cap \in Nat
    BY FS_EmptySet, NotifyAssumption
  <2>4. MarkedIds(day)' \cup IdsOf(On(ledger'.scheduled, day)) = {}
    BY <2>1
  <2>5. MarkedIds(day)' \cup IdsOf(On(Asked', day)) = IdsOf(On(Asked, day))
    BY <1>4, <2>1
  <2>6. Cardinality(MarkedIds(day)' \cup IdsOf(On(Asked', day))) <= Cap
    BY <2>2, <2>5
  <2>7. Cardinality(MarkedIds(day)' \cup IdsOf(On(ledger'.scheduled, day))) <= Cap
    <3> DEFINE A == MarkedIds(day)' \cup IdsOf(On(ledger'.scheduled, day))
    <3>1. A = {}
      BY <2>4
    <3> HIDE DEF A
    <3>2. Cardinality(A) <= Cap
      BY <2>3, <3>1
    <3> QED BY <3>2 DEF A
  <2> QED BY <2>6, <2>7
<1>9. RitualOnce'
  BY <1>0 DEF RitualOnce
<1>10. CapKeptById'
  <2> SUFFICES ASSUME NEW day \in (0 .. Today)' PROVE Cardinality({f.id : f \in DeliveriesOn(day)'}) <= Cap
    BY DEF CapKeptById
  <2> DEFINE A == {f.id : f \in DeliveriesOn(day)'}
  <2>1. A = {}
    BY <1>0 DEF DeliveriesOn
  <2>2. Cardinality({}) = 0 /\ Cap \in Nat
    BY FS_EmptySet, NotifyAssumption
  <2> HIDE DEF A
  <2>3. Cardinality(A) <= Cap
    BY <2>1, <2>2
  <2> QED BY <2>3 DEF A
<1> QED BY <1>3, <1>5, <1>6, <1>7, <1>8, <1>9, <1>10 DEF NotifyInv, NotifyIInv
-----------------------------------------------------------------------------
\* Time passes: what fires was in the ledger, or will be, and is on the day it is counted on.
LEMMA TickInv ==
  ASSUME NotifyInv, Tick
  PROVE  NotifyInv'
<1> DEFINE due == {r \in os : r.at <= now + 1}
<1> DEFINE new == {[id |-> r.id, at |-> r.at, when |-> now + 1] : r \in due}
<1>0. /\ NotifyIInv /\ NotifyTypes /\ pass \in Passes /\ ledger \in Ledgers
      /\ UNCHANGED <<block, ritual, profile, ledger, pass, again, timer, mounted>>
      /\ now \in Nat /\ now < MaxTime /\ MaxTime \in Nat /\ now' = now + 1 /\ now' \in 0 .. MaxTime
      /\ os' = os \ due /\ fired' = fired \cup new
      /\ slip' = (slip \/ (pass.pc = "cancel" /\ due # {})) /\ slip \in BOOLEAN
      /\ Idle \/ now + 1 < pass.clock + MinLead
      /\ os \subseteq Requests /\ MinLead \in Nat /\ pass.clock \in Nat
  BY NotifyAssumption DEF NotifyInv, NotifyIInv, NotifyTypes, Tick, data, Passes
<1>1. \A r \in due : r \in os /\ r.at = now + 1 /\ r.at \in Nat /\ r.id \in Ids /\ r \in Requests
  BY <1>0 DEF NotifyIInv, TimeInv, Requests
<1>2. Planned' = Planned /\ Idle' = Idle /\ Asked' = Asked
  BY <1>0 DEF Planned, Idle, Asked
\* During the work of a pass nothing is due yet.
<1>3. ~slip' => ~slip /\ (due = {} \/ Idle)
  <2>1. ASSUME Planned PROVE due = {}
    <3>1. \A r \in os : r.at >= pass.clock + MinLead /\ r.at \in Nat
      BY <1>0, <2>1 DEF NotifyIInv, PassInv, Asked, Requests
    <3>2. now + 1 < pass.clock + MinLead
      BY <1>0, <2>1 DEF Planned, Idle
    <3> QED BY <1>0, <3>1, <3>2
  <2>2. pass.pc = "cancel" \/ Idle \/ Planned
    BY <1>0 DEF Passes, Idle, Planned
  <2> QED BY <1>0, <2>1, <2>2
<1>4. /\ Day(now + 1) \in Nat /\ Today \in Nat /\ Today <= Day(now + 1) /\ Today' = Day(now + 1)
      /\ \A f \in fired : Day(f.at) \in Nat /\ Day(f.at) <= Today /\ f.at \in Nat /\ f.at <= now
  <2>1. \A f \in fired : f.at \in Nat /\ f.at <= now
    BY <1>0 DEF NotifyIInv, NotifyTypes, TimeInv
  <2> QED BY <1>0, <2>1, DayFacts DEF Today
<1>5. \A f \in new : \E r \in due : f.id = r.id /\ f.at = now + 1 /\ f.when = now + 1 /\ r.at = now + 1
  BY <1>1
<1>6. \A r \in due : ~slip' => r \in ledger.scheduled
  BY <1>0, <1>2, <1>3 DEF NotifyIInv, PassInv, Idle, Planned
<1>7. ASSUME ~slip', NEW f \in fired', Day(f.at) >= Today' PROVE Marked(f) \/ (~Planned /\ Expected(f))
  <2>1. CASE f \in fired
    <3>1. Day(f.at) >= Today
      BY <1>4, <1>7, <2>1
    <3> QED BY <1>0, <1>3, <1>7, <2>1, <3>1 DEF NotifyIInv, KnownInv
  <2>2. CASE f \in new
    <3>1. PICK r \in due : f.id = r.id /\ f.at = r.at
      BY <1>5, <2>2
    <3>2. r \in ledger.scheduled /\ ~Planned
      BY <1>3, <1>6, <1>7 DEF Planned, Idle
    <3> QED BY <3>1, <3>2 DEF Expected
  <2> QED BY <1>0, <1>7, <2>1, <2>2
<1> HIDE DEF due, new
<1>10. NotifyTypes'
  <2>1. new \in SUBSET [id : Ids, at : Nat, when : Nat]
    BY <1>0, <1>1 DEF new
  <2>2. os' \in SUBSET Requests /\ fired' \in SUBSET [id : Ids, at : Nat, when : Nat] /\ slip' \in BOOLEAN
    BY <1>0, <2>1 DEF NotifyTypes
  <2> QED BY <1>0, <2>2 DEF NotifyTypes
<1>11. RequestInv'
  <2>1. Unique(os') /\ DayTrue(os')
    BY <1>0 DEF NotifyIInv, RequestInv, Unique, DayTrue
  <2>2. DayTrue(fired')
    <3>1. ASSUME NEW f \in fired', Kind(f) = "ritual" PROVE Day(f.at) = f.id[2]
      <4>1. CASE f \in fired
        BY <1>0, <3>1, <4>1 DEF NotifyIInv, RequestInv, DayTrue
      <4>2. CASE f \in new
        <5>1. PICK r \in due : f.id = r.id /\ f.at = r.at
          BY <1>5, <4>2
        <5>2. r \in os
          BY <1>1
        <5> QED BY <1>0, <3>1, <5>1, <5>2 DEF NotifyIInv, RequestInv, DayTrue, Kind
      <4> QED BY <1>0, <4>1, <4>2
    <3> QED BY <3>1 DEF DayTrue
  <2> QED BY <1>0, <1>2, <2>1, <2>2 DEF NotifyIInv, RequestInv
<1>12. PassInv'
  <2>1. os' \subseteq os
    BY <1>0
  <2>2. ~Idle => pass.clock <= now + 1 /\ now + 1 < pass.clock + MinLead
    BY <1>0 DEF NotifyIInv, PassInv
  <2>3. (~Planned /\ ~slip)' => os' \subseteq ledger'.scheduled
    BY <1>0, <1>2, <1>3, <2>1 DEF NotifyIInv, PassInv
  <2> QED BY <1>0, <1>2, <2>1, <2>2, <2>3 DEF NotifyIInv, PassInv
<1>13. TimeInv'
  <2>1. \A r \in os' : r.at > now + 1
    BY <1>0 DEF due, Requests
  <2>2. \A f \in fired' : f.at <= now + 1 /\ f.when = f.at
    BY <1>0, <1>4, <1>5 DEF NotifyIInv, TimeInv
  <2>3. ASSUME ~Idle, ~slip', NEW f \in fired' PROVE f.at <= pass.clock
    <3>1. due = {} /\ ~slip
      BY <1>3, <2>3
    <3>2. f \in fired
      BY <1>0, <3>1 DEF new
    <3> QED BY <1>0, <2>3, <3>1, <3>2 DEF NotifyIInv, TimeInv
  <2> QED BY <1>0, <1>2, <2>1, <2>2, <2>3 DEF TimeInv
<1>14. KnownInv'
  BY <1>0, <1>2, <1>7 DEF KnownInv, Marked, Expected
<1>15. FreshInv' /\ CapInv'
  BY <1>0, <1>2 DEF NotifyIInv, FreshInv, CapInv, MarkedIds
\* A day that is over gets no deliveries; today's are all known to the ledger.
<1>16. CapKeptById'
  <2> SUFFICES ASSUME ~slip', NEW day \in 0 .. Day(now + 1)
               PROVE  Cardinality({f.id : f \in {g \in fired' : Day(g.at) = day}}) <= Cap
    BY <1>4 DEF CapKeptById, DeliveriesOn
  <2> DEFINE A == {f.id : f \in {g \in fired' : Day(g.at) = day}}
  <2>1. CASE day = Day(now + 1)
    <3> DEFINE B == MarkedIds(day) \cup IdsOf(On(ledger.scheduled, day))
    <3>1. day \in Nat
      BY <1>4, <2>1
    <3>2. IsFiniteSet(B) /\ Cardinality(B) <= Cap
      BY <1>0, <3>1, Finite DEF NotifyIInv, CapInv
    <3>3. ASSUME NEW f \in fired', Day(f.at) = day PROVE f.id \in B
      <4>1. Day(f.at) >= Today'
        BY <1>4, <2>1, <3>3
      <4>2. CASE Marked(f)
        BY <3>3, <4>2 DEF Marked, MarkedIds, IdsOf, DeliveredOn
      <4>3. CASE Expected(f)
        <5>1. PICK r \in ledger.scheduled : r.id = f.id /\ r.at = f.at
          BY <4>3 DEF Expected
        <5>2. r \in On(ledger.scheduled, day)
          BY <3>3, <5>1 DEF On
        <5> QED BY <5>1, <5>2 DEF IdsOf
      <4> QED BY <1>7, <4>1, <4>2, <4>3
    <3>4. A \subseteq B
      BY <3>3
    <3> HIDE DEF A, B
    <3>5. Cardinality(A) <= Cap
      BY <3>2, <3>4, Fewer
    <3> QED BY <3>5 DEF A
  <2>2. CASE day # Day(now + 1)
    <3>1. \A f \in new : Day(f.at) # day
      BY <1>5, <2>2
    <3>2. {g \in fired' : Day(g.at) = day} = {g \in fired : Day(g.at) = day}
      BY <1>0, <3>1
    <3>3. CASE day \in 0 .. Today
      <4>1. Cardinality({f.id : f \in DeliveriesOn(day)}) <= Cap
        BY <1>3, <3>3 DEF NotifyInv, CapKeptById
      <4> QED BY <3>2, <4>1 DEF DeliveriesOn
    <3>4. CASE day \notin 0 .. Today
      <4>1. {g \in fired : Day(g.at) = day} = {}
        BY <1>4, <3>4
      <4>2. A = {}
        BY <3>2, <4>1
      <4>3. Cardinality({}) = 0 /\ Cap \in Nat
        BY FS_EmptySet, NotifyAssumption
      <4> HIDE DEF A
      <4>4. Cardinality(A) <= Cap
        BY <4>2, <4>3
      <4> QED BY <4>4 DEF A
    <3> QED BY <3>3, <3>4
  <2> QED BY <2>1, <2>2
\* A ritual that fired is known to the ledger, which asks for no second one of its day.
<1>17. RitualOnce'
  <2>1. ASSUME ~slip', NEW f \in fired, NEW g \in new, f.id[1] = "ritual", f.id = g.id PROVE FALSE
    <3>1. PICK r \in due : g.id = r.id /\ r.at = now + 1
      BY <1>5
    <3>2. r \in os /\ r \in ledger.scheduled /\ Kind(r) = "ritual"
      BY <1>1, <1>6, <2>1, <3>1 DEF Kind
    <3>3. Day(f.at) = f.id[2] /\ Day(r.at) = r.id[2]
      BY <1>0, <2>1, <3>2 DEF NotifyIInv, RequestInv, DayTrue, Kind
    <3>4. Day(f.at) = Day(now + 1)
      BY <2>1, <3>1, <3>3
    <3>5. Marked(f) \/ Expected(f)
      BY <1>0, <1>4, <1>7, <2>1, <3>4
    <3>6. ~Marked(f)
      BY <1>0, <2>1, <3>1, <3>2 DEF NotifyIInv, FreshInv, Marked
    <3>7. PICK q \in ledger.scheduled : q.id = f.id /\ q.at = f.at
      BY <3>5, <3>6 DEF Expected
    <3>8. q = r
      BY <1>0, <2>1, <3>1, <3>2, <3>7 DEF NotifyIInv, RequestInv, Unique
    <3>9. f.at <= now
      BY <1>4
    <3> QED BY <1>0, <3>1, <3>7, <3>8, <3>9
  <2>2. ASSUME NEW f \in new, NEW g \in new, f.id = g.id PROVE f = g
    <3>1. PICK r \in due : f = [id |-> r.id, at |-> r.at, when |-> now + 1]
      BY DEF new
    <3>2. PICK q \in due : g = [id |-> q.id, at |-> q.at, when |-> now + 1]
      BY DEF new
    <3>3. r = q
      BY <1>0, <1>1, <2>2, <3>1, <3>2 DEF NotifyIInv, RequestInv, Unique
    <3> QED BY <3>1, <3>2, <3>3
  <2>3. ASSUME ~slip', NEW f \in fired, NEW g \in fired, f.id[1] = "ritual", f.id = g.id PROVE f = g
    BY <1>3, <2>3 DEF NotifyInv, RitualOnce
  <2> SUFFICES ASSUME ~slip', NEW f \in fired', NEW g \in fired', f.id[1] = "ritual", f.id = g.id PROVE f = g
    BY DEF RitualOnce
  <2>4. f \in fired \/ f \in new
    BY <1>0
  <2>5. g \in fired \/ g \in new
    BY <1>0
  <2> QED BY <2>1, <2>2, <2>3, <2>4, <2>5
<1> QED BY <1>10, <1>11, <1>12, <1>13, <1>14, <1>15, <1>16, <1>17 DEF NotifyInv, NotifyIInv
-----------------------------------------------------------------------------
\* Every step keeps the invariant.
LEMMA NotifyNextInv ==
  NotifyInv /\ [NotifyNext]_notifyVars => NotifyInv'
<1> SUFFICES ASSUME NotifyInv, [NotifyNext]_notifyVars PROVE NotifyInv'
  OBVIOUS
<1>0. NotifyTypes
  BY DEF NotifyInv, NotifyIInv
<1>1. CASE Launch
  BY <1>0, <1>1, StartInv DEF Launch, data, NotifyTypes
<1>2. CASE Foreground
  BY <1>0, <1>2, StartInv DEF Foreground, data, NotifyTypes
<1>3. CASE Elapse
  BY <1>0, <1>3, StartInv DEF Elapse, data, NotifyTypes
<1>4. CASE Tick
  BY <1>4, TickInv
<1>5. CASE Pass
  BY <1>5, SettleInv, DismissInv, ScheduleInv, CommitInv DEF Pass
<1>6. CASE Leave
  BY <1>6, LeaveInv
<1>7. CASE KillApp
  BY <1>7, KillInv
<1>8. ASSUME NEW b \in Blocks, CloseBlock(b) PROVE NotifyInv'
  <2>1. block' \in [Blocks -> [slot : Nat, open : BOOLEAN]]
    BY <1>0, <1>8 DEF CloseBlock, NotifyTypes
  <2> QED BY <1>0, <1>8, <2>1, SameInv DEF CloseBlock, Edited, NotifyTypes
<1>9. ASSUME NEW b \in Blocks, NEW slot \in Slots, MoveBlock(b, slot) PROVE NotifyInv'
  <2>1. slot \in Nat
    BY NotifyAssumption
  <2>2. block' \in [Blocks -> [slot : Nat, open : BOOLEAN]]
    BY <1>0, <1>9, <2>1 DEF MoveBlock, NotifyTypes
  <2> QED BY <1>0, <1>9, <2>2, SameInv DEF MoveBlock, Edited, NotifyTypes
<1>10. ASSUME NEW time \in RitualTimes \cup {None}, MoveRitual(time) PROVE NotifyInv'
  BY <1>0, <1>10, StartInv DEF MoveRitual, NotifyTypes
<1>11. ASSUME NEW n \in shade, Tap(n) PROVE NotifyInv'
  BY <1>0, <1>11, SameInv DEF Tap, data, NotifyTypes
<1>12. CASE UNCHANGED notifyVars
  BY <1>0, <1>12, SameInv DEF notifyVars, NotifyTypes
<1> QED BY <1>1, <1>2, <1>3, <1>4, <1>5, <1>6, <1>7, <1>8, <1>9, <1>10, <1>11, <1>12 DEF NotifyNext

\* Types, cap and ritual follow.
LEMMA SparingFollows ==
  NotifyInv => FiresSparingly
<1> SUFFICES ASSUME NotifyInv PROVE FiresSparingly
  OBVIOUS
<1>1. NotifyIInv /\ NotifyTypes /\ pass \in Passes /\ ledger \in Ledgers
  BY DEF NotifyInv, NotifyIInv, NotifyTypes
<1>2. Requests \subseteq [id : Ids, at : Int, slot : Nat \cup {None}]
  BY DEF Requests
<1>3. os \cup pass.todo \cup pass.done \cup ledger.scheduled \subseteq Requests
  BY <1>1 DEF NotifyTypes, Passes, Ledgers
<1>4. TypeOK
  BY <1>1, <1>2, <1>3 DEF TypeOK, NotifyTypes, Ids, NotifyIInv, RequestInv, Unique
<1> QED BY <1>4 DEF NotifyInv, FiresSparingly

\* plan.ts, ledger.ts and scheduler.ts together: whatever is moved, closed or reset, and whenever
\* the app is opened, killed or left, no more different reminders fire on a day than its cap, and
\* the ritual of a day once, unless something was delivered that no ledger can know of.
THEOREM ReminderSparing == NotifySpec => []FiresSparingly
<1>1. NotifyInit => NotifyInv
  BY NotifyInitInv
<1>2. NotifyInv /\ [NotifyNext]_notifyVars => NotifyInv'
  BY NotifyNextInv
<1>3. NotifyInv => FiresSparingly
  BY SparingFollows
<1> QED BY <1>1, <1>2, <1>3, PTL DEF NotifySpec
=============================================================================
