------------------------------ MODULE Learning ------------------------------
(***************************************************************************)
(* How the rewards and belief labels of one user reach the learned state:  *)
(* the delivery stage of a reward pass (attribute-rewards/handler.ts,      *)
(* db.ts, feedback.ts) and the service that applies what it is sent        *)
(* (services/recsys, feedback.py and repo.py).                             *)
(*                                                                         *)
(* Passes of a user exclude each other by the lease.  Calls of the service *)
(* do not: a call whose caller has timed out or died runs on, and it reads *)
(* the state, the id set and the stored tuples in transactions of their    *)
(* own before it writes everything back in one.                            *)
(*                                                                         *)
(* The learned state is abstracted to the evidence in it: how often each   *)
(* tuple was counted with which reward, and the label in force.            *)
(***************************************************************************)
EXTENDS Integers, FiniteSets

CONSTANTS
    Keys,        \* (recommendation_id, kind)
    Calls,       \* calls of the service that may run at once
    Nobody,      \* the caller of a call that nobody waits for
    MaxLabels,   \* bound: belief labels
    MaxFailures  \* bound: kinds of failure in one behaviour

ASSUME ConstantsAssumption ==
    /\ Nobody \notin {"sync", "sweep"}
    /\ MaxLabels \in Nat /\ MaxFailures \in Nat

VARIABLES
    tuples,    \* feedback_rewards
    labels,    \* belief_labels: how many, and how many are delivered
    state,     \* bandit_state, beta_cells and blend_state
    applied,   \* recsys_applied_tuples
    lease,
    pass,      \* the passes of the sync and of the sweep
    call,      \* the calls of the service
    failures   \* what has gone wrong so far, each kind once

ledger == <<tuples, labels>>
learned == <<state, applied>>
vars == <<ledger, learned, lease, pass, call, failures>>
-----------------------------------------------------------------------------
Passes == {"sync", "sweep"}

\* The reward first attributed, and the one of a correction.
Rewards == {"first", "better"}

Tuples == [reward: Rewards \cup {"none"}, excluded: BOOLEAN, delivered: BOOLEAN]

\* A tuple on the wire; it is a correction when its reward is the better one.
Wire == [key: Keys, reward: Rewards, excluded: BOOLEAN]

NoEvidence == [count |-> [k \in Keys |-> [r \in Rewards |-> 0]], label |-> 0]

NoPass == [phase |-> "idle", sent |-> {}, label |-> 0]

NoCall == [phase |-> "idle", kind |-> "none", by |-> Nobody, sent |-> {},
           state |-> NoEvidence, keys |-> {}]

\* timeout: the caller stops waiting; error: the service fails before it writes; crash: a
\* pass dies; overrun: the lease expires under a pass; overlap: a call starts while another
\* one runs.
Failures == {"timeout", "error", "crash", "overrun", "overlap"}

Fails(kind) ==
    /\ kind \notin failures
    /\ Cardinality(failures) < MaxFailures
    /\ failures' = failures \cup {kind}

Init ==
    /\ tuples = [k \in Keys |-> [reward |-> "none", excluded |-> FALSE, delivered |-> FALSE]]
    /\ labels = [last |-> 0, delivered |-> 0]
    /\ state = NoEvidence /\ applied = {}
    /\ lease = Nobody
    /\ pass = [p \in Passes |-> NoPass]
    /\ call = [c \in Calls |-> NoCall]
    /\ failures = {}

Phase(p, phase) == pass' = [pass EXCEPT ![p].phase = phase]
-----------------------------------------------------------------------------
(* The pass. *)

Start(p) ==
    /\ pass[p] = NoPass /\ lease = Nobody
    /\ lease' = p
    /\ Phase(p, "write")
    /\ UNCHANGED <<ledger, learned, call, failures>>

\* The replay of a belief_label event inside a sync; a trigger makes the row.
NewLabel ==
    /\ pass["sync"].phase = "write"
    /\ labels.last < MaxLabels
    /\ labels' = [labels EXCEPT !.last = @ + 1]
    /\ UNCHANGED <<tuples, learned, lease, pass, call, failures>>

\* writeTuples: an insert.
NewTuple(p, k) ==
    /\ pass[p].phase = "write"
    /\ tuples[k].reward = "none"
    /\ \E excluded \in BOOLEAN :
          tuples' = [tuples EXCEPT ![k] = [reward |-> "first", excluded |-> excluded,
                                           delivered |-> FALSE]]
    /\ UNCHANGED <<labels, learned, lease, pass, call, failures>>

\* Mutant: the marker is not reset.
CorrectionKeepsMarker(k) == [tuples EXCEPT ![k].reward = "better"]

Correction(k) == [tuples EXCEPT ![k].reward = "better", ![k].delivered = FALSE]

\* writeTuples: an uncorrected tuple that counts is replaced, once.
CorrectTuple(p, k) ==
    /\ pass[p].phase = "write"
    /\ tuples[k].reward = "first" /\ ~tuples[k].excluded
    /\ tuples' = Correction(k)
    /\ UNCHANGED <<labels, learned, lease, pass, call, failures>>

Undelivered == {k \in Keys : tuples[k].reward # "none" /\ ~tuples[k].delivered}

OnWire(k) == [key |-> k, reward |-> tuples[k].reward, excluded |-> tuples[k].excluded]

Running(c) == call[c].phase # "idle"

Send(p, kind, sent) ==
    /\ \E c \in Calls : ~Running(c)
    /\ call' = [call EXCEPT ![CHOOSE c \in Calls : ~Running(c)] =
          [NoCall EXCEPT !.phase = "load", !.kind = kind, !.by = p, !.sent = sent]]
    /\ IF \E c \in Calls : Running(c) THEN Fails("overlap") ELSE UNCHANGED failures

\* deliverPending: what is undelivered is read and posted.
Deliver(p) ==
    /\ pass[p].phase = "write"
    /\ IF Undelivered = {}
       THEN Phase(p, "labels") /\ UNCHANGED <<call, failures>>
       ELSE /\ Send(p, "feedback", {OnWire(k) : k \in Undelivered})
            /\ pass' = [pass EXCEPT ![p].phase = "wait", ![p].sent = Undelivered]
    /\ UNCHANGED <<ledger, learned, lease>>

\* Mutant: only the tuples that teach.
ToMarkTaught(p) == {k \in pass[p].sent : ~tuples[k].excluded}

\* The keys that were posted, whatever their rows have become.
ToMark(p) == pass[p].sent

MarkDelivered(p) ==
    /\ pass[p].phase = "mark"
    /\ tuples' = [k \in Keys |-> IF k \in ToMark(p) THEN [tuples[k] EXCEPT !.delivered = TRUE]
                                 ELSE tuples[k]]
    /\ Phase(p, "labels")
    /\ UNCHANGED <<labels, learned, lease, call, failures>>

Released(p) == IF lease = p THEN Nobody ELSE lease

\* The pass is over; the lease is released if it is still its own.
End(p) ==
    /\ pass' = [pass EXCEPT ![p] = NoPass]
    /\ lease' = Released(p)

\* deliverLabels.
DeliverLabels(p) ==
    /\ pass[p].phase = "labels"
    /\ IF labels.delivered = labels.last
       THEN End(p) /\ UNCHANGED <<call, failures>>
       ELSE /\ Send(p, "labels", {})
            /\ pass' = [pass EXCEPT ![p].phase = "waitLabels", ![p].label = labels.last]
            /\ UNCHANGED lease
    /\ UNCHANGED <<ledger, learned>>

MarkLabels(p) ==
    /\ pass[p].phase = "markLabels"
    /\ labels' = [labels EXCEPT !.delivered = IF pass[p].label > @ THEN pass[p].label ELSE @]
    /\ End(p)
    /\ UNCHANGED <<tuples, learned, call, failures>>

Waiting == {"wait", "waitLabels"}

\* Mutant: the failure of a call is not noticed.
GoOnStays(p) == UNCHANGED <<pass, lease>>

\* Where a pass goes on when its call has failed, and when it was answered.
GoOn(p) ==
    IF pass[p].phase = "wait" THEN Phase(p, "labels") /\ UNCHANGED lease ELSE End(p)

Answered(p) == Phase(p, IF pass[p].phase = "wait" THEN "mark" ELSE "markLabels")

Orphaned(p) ==
    [c \in Calls |-> IF call[c].by = p THEN [call[c] EXCEPT !.by = Nobody] ELSE call[c]]

\* AbortSignal.timeout: the call runs on, nobody waits for it.
TimeOut(p) ==
    /\ pass[p].phase \in Waiting
    /\ Fails("timeout")
    /\ GoOn(p)
    /\ call' = Orphaned(p)
    /\ UNCHANGED <<ledger, learned>>

\* The function dies; its lease expires.
Crash(p) ==
    /\ pass[p] # NoPass
    /\ Fails("crash")
    /\ End(p)
    /\ call' = Orphaned(p)
    /\ UNCHANGED <<ledger, learned>>

Overrun ==
    /\ lease # Nobody
    /\ Fails("overrun")
    /\ lease' = Nobody
    /\ UNCHANGED <<ledger, learned, pass, call>>
-----------------------------------------------------------------------------
(* The service. *)

\* load_cells, load_bandit, load_blend.
LoadState(c) ==
    /\ call[c].phase = "load"
    /\ call' = [call EXCEPT ![c].state = state,
                            ![c].phase = IF call[c].kind = "labels" THEN "rebuild" ELSE "keys"]
    /\ UNCHANGED <<ledger, learned, lease, pass, failures>>

\* Mutant: the id set is not looked at.
FreshOfAll(c) == {t \in call[c].sent : ~t.excluded}

\* The tuples that teach: not excluded, not applied.
FreshOf(c) == {t \in call[c].sent : ~t.excluded /\ t.key \notin applied}

\* bandit.update, apply_reward and the blend step, for each of them.
Taught(s, fresh) ==
    [s EXCEPT !.count = [k \in Keys |-> [r \in Rewards |->
        @[k][r] + Cardinality({t \in fresh : t.key = k /\ t.reward = r})]]]

\* apply_feedback up to the decision to rebuild.
Apply(c) ==
    /\ call[c].phase = "keys"
    /\ LET fresh == FreshOf(c) IN
       call' = [call EXCEPT ![c].state = Taught(@, fresh),
                            ![c].keys = {t.key : t \in fresh},
                            ![c].phase = IF \E t \in call[c].sent : t.reward = "better"
                                         THEN "rebuild" ELSE "save"]
    /\ UNCHANGED <<ledger, learned, lease, pass, failures>>

\* load_tuples.
StoredKeys == {k \in Keys : tuples[k].reward # "none" /\ ~tuples[k].excluded}

\* rebuild_all: the evidence is a function of what is stored.
Rebuilt ==
    [count |-> [k \in Keys |-> [r \in Rewards |->
                   IF k \in StoredKeys /\ tuples[k].reward = r THEN 1 ELSE 0]],
     label |-> labels.last]

\* Mutant: the rebuilt tuples do not enter the id set.
RebuildForgetsKeys(c) ==
    /\ call[c].phase = "rebuild"
    /\ call' = [call EXCEPT ![c].state = Rebuilt, ![c].phase = "save"]
    /\ UNCHANGED <<ledger, learned, lease, pass, failures>>

Rebuild(c) ==
    /\ call[c].phase = "rebuild"
    /\ call' = [call EXCEPT ![c].state = Rebuilt, ![c].keys = @ \cup StoredKeys,
                            ![c].phase = "save"]
    /\ UNCHANGED <<ledger, learned, lease, pass, failures>>

\* A call is over: the pass that waits for it hears of it.
Return(c) ==
    /\ call' = [call EXCEPT ![c] = NoCall]
    /\ IF call[c].by = Nobody THEN UNCHANGED pass ELSE Answered(call[c].by)

\* save_all: one transaction, unless there is nothing to save.
Save(c) ==
    /\ call[c].phase = "save"
    /\ IF call[c].keys = {} /\ call[c].kind = "feedback"
       THEN UNCHANGED learned
       ELSE state' = call[c].state /\ applied' = applied \cup call[c].keys
    /\ Return(c)
    /\ UNCHANGED <<ledger, lease, failures>>

ServiceError(c) ==
    /\ call[c].phase \in {"load", "keys", "rebuild", "save"}
    /\ Fails("error")
    /\ call' = [call EXCEPT ![c] = NoCall]
    /\ IF call[c].by = Nobody THEN UNCHANGED <<pass, lease>> ELSE GoOn(call[c].by)
    /\ UNCHANGED <<ledger, learned>>
-----------------------------------------------------------------------------
PassStep(p) == Deliver(p) \/ MarkDelivered(p) \/ DeliverLabels(p) \/ MarkLabels(p)

CallStep(c) == LoadState(c) \/ Apply(c) \/ Rebuild(c) \/ Save(c)

Next ==
    \/ \E p \in Passes :
          \/ Start(p) \/ PassStep(p) \/ TimeOut(p) \/ Crash(p)
          \/ \E k \in Keys : NewTuple(p, k) \/ CorrectTuple(p, k)
    \/ NewLabel \/ Overrun
    \/ \E c \in Calls : CallStep(c) \/ ServiceError(c)

Spec == Init /\ [][Next]_vars

\* The sweep comes every fifteen minutes, so some pass always starts again; running
\* functions and calls go on.
Fairness ==
    /\ WF_vars(\E p \in Passes : Start(p))
    /\ \A p \in Passes : WF_vars(PassStep(p))
    /\ \A c \in Calls : WF_vars(CallStep(c))

FairSpec == Spec /\ Fairness
-----------------------------------------------------------------------------
(* Properties *)

TypeOK ==
    /\ tuples \in [Keys -> Tuples]
    /\ labels.last \in 0..MaxLabels /\ labels.delivered \in 0..labels.last
    /\ state.label \in 0..labels.last
    /\ applied \subseteq Keys
    /\ lease \in Passes \cup {Nobody}
    /\ \A p \in Passes :
          /\ pass[p].phase \in {"idle", "write", "wait", "mark", "labels", "waitLabels",
                                "markLabels"}
          /\ pass[p].sent \subseteq Keys /\ pass[p].label \in 0..MaxLabels
          /\ pass[p].phase \in Waiting <=> \E c \in Calls : call[c].by = p
    /\ \A c \in Calls :
          /\ call[c].phase \in {"idle", "load", "keys", "rebuild", "save"}
          /\ call[c].by \in Passes \cup {Nobody}
          /\ call[c].sent \subseteq Wire /\ call[c].keys \subseteq Keys
    /\ failures \subseteq Failures

Counted(k) == state.count[k]["first"] + state.count[k]["better"]

\* However calls overlap, time out and repeat, a tuple is never in the state twice, nor with
\* both rewards, and an excluded one is never in it (the id set, rebuilds, H3).
EvidenceOnce ==
    \A k \in Keys : Counted(k) <= 1 /\ (tuples[k].excluded => Counted(k) = 0)

\* Unless calls overlap, the id set is the set of the tuples in the state.
IdSetAgrees ==
    "overlap" \notin failures => \A k \in Keys : k \in applied <=> Counted(k) = 1

\* Unless calls overlap or a pass outlives its lease, what is marked delivered is in the state,
\* a corrected tuple with the corrected reward, and the labels are in force.
DeliveredIsLearned ==
    failures \cap {"overlap", "overrun"} = {} =>
        /\ \A k \in Keys : tuples[k].delivered /\ ~tuples[k].excluded =>
              state.count[k][tuples[k].reward] = 1
        /\ labels.delivered <= state.label

\* The two ledgers, the id set of the service and the delivered marker of the server, tell the truth.
LedgersTrue == IdSetAgrees /\ DeliveredIsLearned

\* A tuple that is stored is delivered in the end: a failed delivery is repeated by later
\* passes ("late, never lost").
EventuallyDelivered == <>[](Undelivered = {})

\* Once everything is delivered and no call runs, the state is what a rebuild would give.
NothingLost ==
    (\A c \in Calls : ~Running(c)) /\ Undelivered = {} /\ labels.delivered = labels.last
       /\ "overrun" \notin failures => state = Rebuilt
=============================================================================
