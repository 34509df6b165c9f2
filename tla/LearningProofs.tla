--------------------------- MODULE LearningProofs ---------------------------
(***************************************************************************)
(* Proofs about Learning: whatever overlaps, times out, dies or repeats,   *)
(* no tuple is in the learned state twice; as long as calls do not overlap *)
(* the id set says exactly what is in the state; and as long as no pass    *)
(* outlives its lease either, what is marked delivered is in it.  For any  *)
(* number of tuples, labels, calls and failures.                           *)
(***************************************************************************)
EXTENDS Learning, FiniteSetTheorems, TLAPS

States == [count: [Keys -> [Rewards -> Nat]], label: Nat]

PassRecords ==
    [phase: {"idle", "write", "wait", "mark", "labels", "waitLabels", "markLabels"},
     sent: SUBSET Keys, label: Nat]

CallRecords ==
    [phase: {"idle", "load", "keys", "rebuild", "save"},
     kind: {"none", "feedback", "labels"}, by: Passes \cup {Nobody},
     sent: SUBSET Wire, state: States, keys: SUBSET Keys]

Types ==
    /\ tuples \in [Keys -> Tuples]
    /\ labels \in [last: Nat, delivered: Nat]
    /\ state \in States
    /\ applied \subseteq Keys
    /\ lease \in Passes \cup {Nobody}
    /\ pass \in [Passes -> PassRecords]
    /\ call \in [Calls -> CallRecords]
    /\ failures \subseteq Failures
-----------------------------------------------------------------------------
(* What the service's operators return. *)

OfKind(fresh, k, r) == {t \in fresh : t.key = k /\ t.reward = r}

\* A key and a reward leave the exclusion open: at most two tuples.
LEMMA OfKindIsFinite ==
    ASSUME NEW fresh \in SUBSET Wire, NEW k, NEW r
    PROVE  IsFiniteSet(OfKind(fresh, k, r)) /\ Cardinality(OfKind(fresh, k, r)) \in Nat
<1>1. DEFINE w(e) == [key |-> k, reward |-> r, excluded |-> e]
             two == ({} \cup {w(TRUE)}) \cup {w(FALSE)}
<1>2. IsFiniteSet({} \cup {w(TRUE)})
  BY FS_EmptySet, FS_AddElement
<1>3. IsFiniteSet(two)
  <2> HIDE DEF w
  <2> QED
    BY <1>2, FS_AddElement
<1>4. OfKind(fresh, k, r) \subseteq two
  BY DEF OfKind, Wire
<1>5. QED
  BY <1>3, <1>4, FS_Subset, FS_CardinalityType

\* Teaching adds, per tuple and reward, the number of fresh ones.
LEMMA TaughtCounts ==
    ASSUME NEW s \in States, NEW fresh \in SUBSET Wire
    PROVE  /\ Taught(s, fresh) \in States
           /\ \A k \in Keys, r \in Rewards :
                 Taught(s, fresh).count[k][r]
                     = s.count[k][r] + Cardinality(OfKind(fresh, k, r))
<1>1. DEFINE count == [k \in Keys |-> [r \in Rewards |->
                          s.count[k][r] + Cardinality(OfKind(fresh, k, r))]]
<1>2. Taught(s, fresh) = [s EXCEPT !.count = count]
  BY DEF Taught, OfKind
<1>3. count \in [Keys -> [Rewards -> Nat]]
  BY OfKindIsFinite DEF States
<1>4. Taught(s, fresh) = [count |-> count, label |-> s.label]
  BY <1>2 DEF States
<1>5. QED
  BY <1>3, <1>4 DEF States

\* A rebuild gives a learned state.
LEMMA RebuiltIsState == Types => Rebuilt \in States
  BY DEF Types, Rebuilt, States, StoredKeys
-----------------------------------------------------------------------------
\* Every variable has the type the proofs use, whatever fails.
THEOREM Typed == Spec => []Types
<1>1. Init => Types
  BY DEF Init, Types, States, PassRecords, CallRecords, Tuples, Rewards, NoEvidence, NoPass,
         NoCall, Failures
<1>2. Types /\ [Next]_vars => Types'
  <2> SUFFICES ASSUME Types, [Next]_vars PROVE Types'
    OBVIOUS
  <2> USE DEF Types, ledger, learned
  <2>1. CASE UNCHANGED vars
    BY <2>1 DEF vars
  <2>2. ASSUME NEW p \in Passes, Start(p) \/ MarkDelivered(p) \/ MarkLabels(p) \/ Overrun
        PROVE  Types'
    <3>1. NoPass \in PassRecords
      BY DEF NoPass, PassRecords
    <3>2. \A ph \in {"idle", "write", "wait", "mark", "labels", "waitLabels", "markLabels"} :
             [pass EXCEPT ![p].phase = ph] \in [Passes -> PassRecords]
      BY DEF PassRecords
    <3>3. CASE Start(p)
      BY <3>2, <3>3 DEF Start, Phase
    <3>4. CASE MarkDelivered(p)
      <4>1. \A k \in Keys : [tuples[k] EXCEPT !.delivered = TRUE] \in Tuples
        BY DEF Tuples
      <4>2. tuples' \in [Keys -> Tuples]
        BY <3>4, <4>1 DEF MarkDelivered
      <4>3. QED
        BY <3>2, <3>4, <4>2 DEF MarkDelivered, Phase
    <3>5. CASE MarkLabels(p)
      <4>1. labels' \in [last: Nat, delivered: Nat]
        BY <3>5 DEF MarkLabels, PassRecords
      <4>2. QED
        BY <3>1, <3>5, <4>1 DEF MarkLabels, End, Released
    <3>6. CASE Overrun
      BY <3>6 DEF Overrun, Fails, Failures
    <3>7. QED
      BY <2>2, <3>3, <3>4, <3>5, <3>6
  <2>3. CASE NewLabel
    BY <2>3 DEF NewLabel
  <2>4. ASSUME NEW p \in Passes, NEW k \in Keys, NewTuple(p, k) \/ CorrectTuple(p, k)
        PROVE  Types'
    <3>1. CASE NewTuple(p, k)
      BY <3>1 DEF NewTuple, Tuples, Rewards
    <3>2. CASE CorrectTuple(p, k)
      BY <3>2 DEF CorrectTuple, Correction, Tuples, Rewards
    <3>3. QED
      BY <2>4, <3>1, <3>2
  <2>5. ASSUME NEW p \in Passes, Deliver(p) \/ DeliverLabels(p)
        PROVE  Types'
    <3>1. NoPass \in PassRecords
      BY DEF NoPass, PassRecords
    <3>2. ASSUME NEW kind \in {"feedback", "labels"}, NEW sent \in SUBSET Wire, Send(p, kind, sent)
          PROVE  call' \in [Calls -> CallRecords] /\ failures' \subseteq Failures
      <4>1. PICK c \in Calls : call' = [call EXCEPT ![c] =
                [NoCall EXCEPT !.phase = "load", !.kind = kind, !.by = p, !.sent = sent]]
        BY <3>2 DEF Send
      <4>2. [NoCall EXCEPT !.phase = "load", !.kind = kind, !.by = p, !.sent = sent]
                \in CallRecords
        BY DEF NoCall, CallRecords, NoEvidence, States
      <4>3. QED
        BY <3>2, <4>1, <4>2 DEF Send, Fails, Failures
    <3>3. CASE Deliver(p)
      <4>1. {OnWire(k) : k \in Undelivered} \in SUBSET Wire
        BY DEF OnWire, Undelivered, Wire, Tuples
      <4>2. pass' \in [Passes -> PassRecords]
        BY <3>3 DEF Deliver, Phase, PassRecords, Undelivered
      <4>3. QED
        BY <3>2, <3>3, <4>1, <4>2 DEF Deliver
    <3>4. CASE DeliverLabels(p)
      <4>1. pass' \in [Passes -> PassRecords] /\ lease' \in Passes \cup {Nobody}
        BY <3>1, <3>4 DEF DeliverLabels, End, Released, PassRecords
      <4>2. QED
        BY <3>2, <3>4, <4>1 DEF DeliverLabels
    <3>5. QED
      BY <2>5, <3>3, <3>4
  <2>6. ASSUME NEW p \in Passes
        PROVE  /\ Orphaned(p) \in [Calls -> CallRecords]
               /\ GoOn(p) \/ End(p) => pass' \in [Passes -> PassRecords]
                                      /\ lease' \in Passes \cup {Nobody}
               /\ Answered(p) => pass' \in [Passes -> PassRecords]
    <3>1. NoPass \in PassRecords
      BY DEF NoPass, PassRecords
    <3>2. Orphaned(p) \in [Calls -> CallRecords]
      BY DEF Orphaned, CallRecords
    <3>3. End(p) => pass' \in [Passes -> PassRecords] /\ lease' \in Passes \cup {Nobody}
      BY <3>1 DEF End, Released
    <3>4. \A ph \in {"mark", "labels", "markLabels"} :
             [pass EXCEPT ![p].phase = ph] \in [Passes -> PassRecords]
      BY DEF PassRecords
    <3>5. QED
      BY <3>2, <3>3, <3>4 DEF GoOn, Answered, Phase
  <2>7. ASSUME NEW p \in Passes, TimeOut(p) \/ Crash(p)
        PROVE  Types'
    BY <2>6, <2>7 DEF TimeOut, Crash, Fails, Failures
  <2>8. NoCall \in CallRecords
    BY DEF NoCall, CallRecords, NoEvidence, States
  <2>9. ASSUME NEW c \in Calls, LoadState(c)
        PROVE  Types'
    BY <2>9 DEF LoadState, CallRecords
  <2>10. ASSUME NEW c \in Calls, Apply(c)
         PROVE  Types'
    <3>1. FreshOf(c) \in SUBSET Wire
      BY DEF FreshOf, CallRecords
    <3>2. Taught(call[c].state, FreshOf(c)) \in States
      BY <3>1, TaughtCounts DEF CallRecords
    <3>3. {t.key : t \in FreshOf(c)} \subseteq Keys
      BY <3>1 DEF Wire
    <3>4. ASSUME NEW s \in States, NEW keys \in SUBSET Keys, NEW ph \in {"rebuild", "save"}
          PROVE  [call EXCEPT ![c].state = s, ![c].keys = keys, ![c].phase = ph]
                     \in [Calls -> CallRecords]
      <4>1. ASSUME NEW f \in [Calls -> CallRecords]
            PROVE  /\ [f EXCEPT ![c].state = s] \in [Calls -> CallRecords]
                   /\ [f EXCEPT ![c].keys = keys] \in [Calls -> CallRecords]
                   /\ [f EXCEPT ![c].phase = ph] \in [Calls -> CallRecords]
        <5>1. [f[c] EXCEPT !.state = s] \in CallRecords
          BY DEF CallRecords
        <5>2. [f[c] EXCEPT !.keys = keys] \in CallRecords
          BY DEF CallRecords
        <5>3. [f[c] EXCEPT !.phase = ph] \in CallRecords
          BY DEF CallRecords
        <5>4. QED
          BY <5>1, <5>2, <5>3
      <4>2. DEFINE f1 == [call EXCEPT ![c].state = s]
                   f2 == [f1 EXCEPT ![c].keys = keys]
      <4>3. f1 \in [Calls -> CallRecords]
        BY <4>1
      <4>4. f2 \in [Calls -> CallRecords]
        BY <4>1, <4>3
      <4>5. [f2 EXCEPT ![c].phase = ph] \in [Calls -> CallRecords]
        BY <4>1, <4>4
      <4>6. QED
        BY <4>5
    <3>5. call' \in [Calls -> CallRecords]
      <4>1. DEFINE ph == IF \E t \in call[c].sent : t.reward = "better" THEN "rebuild" ELSE "save"
      <4>2. call' = [call EXCEPT ![c].state = Taught(call[c].state, FreshOf(c)),
                                 ![c].keys = {t.key : t \in FreshOf(c)}, ![c].phase = ph]
        BY <2>10 DEF Apply
      <4>3. ph \in {"rebuild", "save"}
        OBVIOUS
      <4> HIDE DEF ph
      <4>4. QED
        BY <3>2, <3>3, <3>4, <4>2, <4>3
    <3>6. QED
      BY <2>10, <3>5 DEF Apply
  <2>11. ASSUME NEW c \in Calls, Rebuild(c)
         PROVE  Types'
    <3>1. call[c].keys \cup StoredKeys \in SUBSET Keys /\ Rebuilt \in States
      BY RebuiltIsState DEF CallRecords, StoredKeys
    <3>2. QED
      BY <2>11, <3>1 DEF Rebuild, CallRecords
  <2>12. ASSUME NEW c \in Calls, Save(c) \/ ServiceError(c)
         PROVE  Types'
    <3>1. call[c] \in CallRecords
      OBVIOUS
    <3>2. [call EXCEPT ![c] = NoCall] \in [Calls -> CallRecords]
      BY <2>8
    <3>3. CASE Save(c)
      BY <2>6, <3>1, <3>2, <3>3 DEF Save, Return, CallRecords
    <3>4. CASE ServiceError(c)
      BY <2>6, <3>1, <3>2, <3>4 DEF ServiceError, Fails, Failures, CallRecords
    <3>5. QED
      BY <2>12, <3>3, <3>4
  <2>13. QED
    BY <2>1, <2>2, <2>3, <2>4, <2>5, <2>7, <2>9, <2>10, <2>11, <2>12
       DEF Next, PassStep, CallStep, Passes
<1>3. QED
  BY <1>1, <1>2, PTL DEF Spec
-----------------------------------------------------------------------------
(* The rest of TypeOK relates variables: labels count up, and a pass waits exactly while *)
(* some call is its own.                                                                 *)

LabelInv ==
    /\ labels.last <= MaxLabels /\ labels.delivered <= labels.last
    /\ \A p \in Passes : pass[p].label <= labels.last
    /\ state.label <= labels.last
    /\ \A c \in Calls : call[c].state.label <= labels.last

\* Whoever holds a label number got it from a label that exists.
THEOREM LabelsBounded == Spec => []LabelInv
<1>1. Init => LabelInv
  BY ConstantsAssumption DEF Init, LabelInv, NoPass, NoCall, NoEvidence
<1>2. Types /\ LabelInv /\ [Next]_vars => LabelInv'
  <2> SUFFICES ASSUME Types, LabelInv, [Next]_vars PROVE LabelInv'
    OBVIOUS
  <2>1. /\ labels.last \in Nat /\ labels.delivered \in Nat /\ state.label \in Nat
        /\ \A p \in Passes : pass[p].label \in Nat
        /\ \A c \in Calls : call[c].state.label \in Nat
    BY DEF Types, PassRecords, CallRecords, States
  <2>2. NoPass.label = 0 /\ NoCall.state.label = 0
    BY DEF NoPass, NoCall, NoEvidence
  <2>3. SUFFICES
          /\ labels'.last \in Nat /\ labels.last <= labels'.last /\ labels'.last <= MaxLabels
          /\ labels'.delivered <= labels'.last
          /\ \A p \in Passes : pass'[p].label \in {0, pass[p].label, labels.last}
          /\ state'.label \in {state.label} \cup {call[c].state.label : c \in Calls}
          /\ \A c \in Calls :
                call'[c].state.label \in {0, call[c].state.label, state.label, labels.last}
    BY <2>1, ConstantsAssumption DEF LabelInv
  <2> USE <2>1 DEF LabelInv
  <2>4. CASE UNCHANGED vars
    BY <2>4 DEF vars, ledger, learned
  <2>5. ASSUME NEW p \in Passes, Start(p) \/ MarkDelivered(p) \/ MarkLabels(p)
        PROVE  /\ UNCHANGED <<learned, call>> /\ labels'.last = labels.last
               /\ labels'.delivered <= labels.last
               /\ \A q \in Passes : pass'[q].label \in {0, pass[q].label}
    <3>1. CASE Start(p)
      BY <3>1 DEF Start, Phase, ledger, Types, PassRecords
    <3>2. CASE MarkDelivered(p)
      BY <3>2 DEF MarkDelivered, Phase, Types, PassRecords
    <3>3. CASE MarkLabels(p)
      BY <3>3, <2>2 DEF MarkLabels, End, Types, PassRecords
    <3>4. QED
      BY <2>5, <3>1, <3>2, <3>3
  <2>6. ASSUME NewLabel
        PROVE  /\ UNCHANGED <<learned, pass, call>> /\ labels'.last = labels.last + 1
               /\ labels.last < MaxLabels /\ labels'.delivered = labels.delivered
    BY <2>6 DEF NewLabel, Types
  <2>7. ASSUME NEW p \in Passes, NEW k \in Keys, NewTuple(p, k) \/ CorrectTuple(p, k)
        PROVE  UNCHANGED <<labels, learned, pass, call>>
    BY <2>7 DEF NewTuple, CorrectTuple
  <2>8. ASSUME NEW p \in Passes, Deliver(p) \/ DeliverLabels(p)
        PROVE  /\ UNCHANGED <<labels, learned>>
               /\ \A q \in Passes : pass'[q].label \in {0, pass[q].label, labels.last}
               /\ \A c \in Calls : call'[c].state.label \in {0, call[c].state.label}
    <3>1. \A q \in Passes : pass'[q].label \in {0, pass[q].label, labels.last}
      BY <2>2, <2>8 DEF Deliver, DeliverLabels, Phase, End, Types, PassRecords
    <3>2. \A c \in Calls : call'[c].state.label \in {0, call[c].state.label}
      <4>1. ASSUME NEW kind, NEW sent, Send(p, kind, sent)
            PROVE  \A c \in Calls : call'[c].state.label \in {0, call[c].state.label}
        BY <2>2, <4>1 DEF Send, Types, NoCall
      <4>2. QED
        BY <2>8, <4>1 DEF Deliver, DeliverLabels
    <3>3. QED
      BY <2>8, <3>1, <3>2 DEF Deliver, DeliverLabels, ledger
  <2>9. ASSUME NEW p \in Passes, TimeOut(p) \/ Crash(p)
        PROVE  /\ UNCHANGED <<labels, learned>>
               /\ \A q \in Passes : pass'[q].label \in {0, pass[q].label}
               /\ \A c \in Calls : call'[c].state = call[c].state
    <3>1. \A q \in Passes : pass'[q].label \in {0, pass[q].label}
      BY <2>2, <2>9 DEF TimeOut, Crash, GoOn, Phase, End, Types, PassRecords
    <3>2. \A c \in Calls : call'[c].state = call[c].state
      BY <2>9 DEF TimeOut, Crash, Orphaned, Types, CallRecords
    <3>3. QED
      BY <2>9, <3>1, <3>2 DEF TimeOut, Crash, ledger
  <2>10. ASSUME Overrun
         PROVE  UNCHANGED <<labels, learned, pass, call>>
    BY <2>10 DEF Overrun, ledger
  <2>11. ASSUME NEW c \in Calls, LoadState(c) \/ Apply(c) \/ Rebuild(c)
         PROVE  /\ UNCHANGED <<labels, learned, pass>>
                /\ \A d \in Calls :
                      call'[d].state.label \in {call[d].state.label, state.label, labels.last}
    <3>1. UNCHANGED <<labels, learned, pass>>
      BY <2>11 DEF LoadState, Apply, Rebuild, ledger
    <3>2. \A d \in Calls \ {c} : call'[d] = call[d]
      BY <2>11 DEF LoadState, Apply, Rebuild, Types
    <3>3. CASE LoadState(c)
      BY <3>1, <3>2, <3>3 DEF LoadState, Types, CallRecords
    <3>4. CASE Apply(c)
      <4>1. call'[c].state = Taught(call[c].state, FreshOf(c))
        BY <3>4 DEF Apply, Types, CallRecords
      <4>2. Taught(call[c].state, FreshOf(c)).label = call[c].state.label
        BY DEF Taught, Types, CallRecords, States
      <4>3. QED
        BY <3>1, <3>2, <4>1, <4>2
    <3>5. CASE Rebuild(c)
      <4>1. call'[c].state = Rebuilt /\ Rebuilt.label = labels.last
        BY <3>5 DEF Rebuild, Rebuilt, Types, CallRecords
      <4>2. QED
        BY <3>1, <3>2, <4>1
    <3>6. QED
      BY <2>11, <3>3, <3>4, <3>5
  <2>12. ASSUME NEW c \in Calls, Save(c) \/ ServiceError(c)
         PROVE  /\ labels' = labels /\ state' \in {state, call[c].state}
                /\ \A q \in Passes : pass'[q].label \in {0, pass[q].label}
                /\ \A d \in Calls : call'[d].state.label \in {0, call[d].state.label}
    <3>1. labels' = labels /\ state' \in {state, call[c].state}
      BY <2>12 DEF Save, ServiceError, ledger, learned
    <3>2. \A d \in Calls : call'[d].state.label \in {0, call[d].state.label}
      BY <2>2, <2>12 DEF Save, Return, ServiceError, Types
    <3>3. \A q \in Passes : pass'[q].label \in {0, pass[q].label}
      BY <2>2, <2>12
         DEF Save, Return, Answered, ServiceError, GoOn, Phase, End, Types, PassRecords
    <3>4. QED
      BY <3>1, <3>2, <3>3
  <2>13. CASE \E p \in Passes : Start(p) \/ MarkDelivered(p) \/ MarkLabels(p)
    BY <2>5, <2>13 DEF learned
  <2>14. CASE NewLabel
    BY <2>6, <2>14, ConstantsAssumption DEF learned
  <2>15. CASE Overrun \/ \E p \in Passes, k \in Keys : NewTuple(p, k) \/ CorrectTuple(p, k)
    BY <2>7, <2>10, <2>15 DEF learned
  <2>16. CASE \E p \in Passes : Deliver(p) \/ DeliverLabels(p) \/ TimeOut(p) \/ Crash(p)
    BY <2>8, <2>9, <2>16 DEF learned
  <2>17. CASE \E c \in Calls : LoadState(c) \/ Apply(c) \/ Rebuild(c)
    BY <2>11, <2>17 DEF learned
  <2>18. CASE \E c \in Calls : Save(c) \/ ServiceError(c)
    BY <2>12, <2>18
  <2>19. QED
    BY <2>4, <2>13, <2>14, <2>15, <2>16, <2>17, <2>18 DEF Next, PassStep, CallStep
<1>3. QED
  BY <1>1, <1>2, Typed, PTL DEF Spec

CallerInv ==
    /\ \A c \in Calls : call[c].phase = "idle" => call[c].by = Nobody
    /\ \A c \in Calls : call[c].by # Nobody => pass[call[c].by].phase \in Waiting
    /\ \A c, d \in Calls : call[c].by = call[d].by /\ call[c].by # Nobody => c = d
    /\ \A p \in Passes : pass[p].phase \in Waiting => \E c \in Calls : call[c].by = p

\* A pass that waits has exactly one call, and a call that is over has no caller.
THEOREM CallersWait == Spec => []CallerInv
<1>1. Init => CallerInv
  BY DEF Init, CallerInv, NoPass, NoCall, Waiting
<1>2. Types /\ CallerInv /\ [Next]_vars => CallerInv'
  <2> SUFFICES ASSUME Types, CallerInv, [Next]_vars PROVE CallerInv'
    OBVIOUS
  <2>0. Nobody \notin Passes /\ \A c \in Calls : call[c].by \in Passes \cup {Nobody}
    BY ConstantsAssumption DEF Types, CallRecords, Passes
  <2>1. ASSUME \A p \in Passes : pass'[p].phase \in Waiting <=> pass[p].phase \in Waiting,
               \A c \in Calls : /\ call'[c].by = call[c].by
                                /\ call'[c].phase = "idle" => call[c].phase = "idle"
        PROVE  CallerInv'
    BY <2>0, <2>1 DEF CallerInv, Waiting
  <2>2. CASE UNCHANGED vars
    BY <2>1, <2>2 DEF vars
  <2>3. ASSUME NEW p \in Passes,
               Start(p) \/ MarkDelivered(p) \/ MarkLabels(p) \/ Deliver(p) \/ DeliverLabels(p),
               UNCHANGED call
        PROVE  CallerInv'
    <3>1. \A q \in Passes : pass'[q].phase \in Waiting <=> pass[q].phase \in Waiting
      <4>1. CASE Start(p)
        BY <4>1 DEF Start, Phase, NoPass, Waiting, Types, PassRecords
      <4>2. CASE MarkDelivered(p)
        BY <4>2 DEF MarkDelivered, Phase, Waiting, Types, PassRecords
      <4>3. CASE MarkLabels(p)
        BY <4>3 DEF MarkLabels, End, NoPass, Waiting, Types, PassRecords
      <4>4. \A kind, sent : ~Send(p, kind, sent)
        <5>1. ASSUME NEW kind, NEW sent, Send(p, kind, sent) PROVE FALSE
          BY <2>0, <2>3, <5>1 DEF Send, Running, Types, NoCall
        <5>2. QED
          BY <5>1
      <4>5. CASE Deliver(p)
        BY <4>4, <4>5 DEF Deliver, Phase, Waiting, Types, PassRecords
      <4>6. CASE DeliverLabels(p)
        BY <4>4, <4>6 DEF DeliverLabels, End, NoPass, Waiting, Types, PassRecords
      <4>7. QED
        BY <2>3, <4>1, <4>2, <4>3, <4>5, <4>6
    <3>2. QED
      BY <2>1, <2>3, <3>1
  <2>4. CASE NewLabel \/ Overrun \/ \E p \in Passes, k \in Keys : NewTuple(p, k) \/ CorrectTuple(p, k)
    BY <2>1, <2>4 DEF NewLabel, Overrun, NewTuple, CorrectTuple
  <2>5. ASSUME NEW p \in Passes, NEW kind, NEW sent, Send(p, kind, sent),
               pass[p].phase \notin Waiting, pass'[p].phase \in Waiting,
               \A q \in Passes \ {p} : pass'[q] = pass[q]
        PROVE  CallerInv'
    <3>1. PICK c \in Calls : /\ ~Running(c)
                             /\ call' = [call EXCEPT ![c] = [NoCall EXCEPT !.phase = "load",
                                    !.kind = kind, !.by = p, !.sent = sent]]
      BY <2>5 DEF Send
    <3>2. /\ call'[c].by = p /\ call'[c].phase = "load"
          /\ \A d \in Calls \ {c} : call'[d] = call[d]
      BY <3>1 DEF NoCall, Types
    <3>3. \A d \in Calls : call[d].by # p
      BY <2>0, <2>5 DEF CallerInv
    <3>4. call[c].by = Nobody
      BY <3>1 DEF Running, CallerInv
    <3>5. QED
      BY <2>0, <2>5, <3>2, <3>3, <3>4 DEF CallerInv, Waiting
  <2>6. ASSUME NEW p \in Passes, Deliver(p) \/ DeliverLabels(p)
        PROVE  CallerInv'
    <3>1. pass[p].phase \notin Waiting /\ \A q \in Passes \ {p} : pass'[q] = pass[q]
      BY <2>6 DEF Deliver, DeliverLabels, Phase, End, Waiting, Types
    <3>2. CASE Deliver(p)
      <4>1. CASE Undelivered = {}
        <5>1. UNCHANGED call
          BY <3>2, <4>1 DEF Deliver
        <5>2. QED
          BY <2>3, <3>2, <5>1
      <4>2. CASE Undelivered # {}
        <5>1. Send(p, "feedback", {OnWire(k) : k \in Undelivered})
          BY <3>2, <4>2 DEF Deliver
        <5>2. pass'[p].phase \in Waiting
          BY <3>2, <4>2 DEF Deliver, Waiting, Types, PassRecords
        <5>3. QED
          BY <2>5, <3>1, <5>1, <5>2
      <4>3. QED
        BY <4>1, <4>2
    <3>3. CASE DeliverLabels(p)
      <4>1. CASE labels.delivered = labels.last
        <5>1. UNCHANGED call
          BY <3>3, <4>1 DEF DeliverLabels
        <5>2. QED
          BY <2>3, <3>3, <5>1
      <4>2. CASE labels.delivered # labels.last
        <5>1. Send(p, "labels", {})
          BY <3>3, <4>2 DEF DeliverLabels
        <5>2. pass'[p].phase \in Waiting
          BY <3>3, <4>2 DEF DeliverLabels, Waiting, Types, PassRecords
        <5>3. QED
          BY <2>5, <3>1, <5>1, <5>2
      <4>3. QED
        BY <4>1, <4>2
    <3>4. QED
      BY <2>6, <3>2, <3>3
  <2>7. ASSUME NEW p \in Passes, pass'[p].phase \notin Waiting,
               \A q \in Passes \ {p} : pass'[q] = pass[q],
               \A c \in Calls : /\ call'[c].phase = "idle" => call'[c].by = Nobody
                                /\ call'[c].by = IF call[c].by = p THEN Nobody ELSE call[c].by
        PROVE  CallerInv'
    BY <2>0, <2>7 DEF CallerInv, Waiting
  <2>8. ASSUME NEW p \in Passes, GoOn(p) \/ Answered(p) \/ End(p)
        PROVE  pass'[p].phase \notin Waiting /\ \A q \in Passes \ {p} : pass'[q] = pass[q]
    BY <2>8 DEF GoOn, Answered, End, Phase, NoPass, Waiting, Types, PassRecords
  <2>9. ASSUME NEW p \in Passes, TimeOut(p) \/ Crash(p)
        PROVE  CallerInv'
    <3>1. call' = Orphaned(p) /\ (GoOn(p) \/ End(p))
      BY <2>9 DEF TimeOut, Crash
    <3>2. \A c \in Calls : /\ call'[c].phase = call[c].phase
                           /\ call'[c].by = IF call[c].by = p THEN Nobody ELSE call[c].by
      BY <3>1 DEF Orphaned, Types, CallRecords
    <3>3. QED
      BY <2>7, <2>8, <3>1, <3>2 DEF CallerInv
  <2>10. ASSUME NEW c \in Calls, LoadState(c) \/ Apply(c) \/ Rebuild(c)
         PROVE  CallerInv'
    <3>1. pass' = pass
      BY <2>10 DEF LoadState, Apply, Rebuild
    <3>2. \A d \in Calls \ {c} : call'[d] = call[d]
      BY <2>10 DEF LoadState, Apply, Rebuild, Types
    <3>3. call'[c].by = call[c].by /\ call'[c].phase # "idle"
      <4>1. CASE LoadState(c)
        BY <4>1 DEF LoadState, Types, CallRecords
      <4>2. CASE Apply(c)
        BY <4>2 DEF Apply, Types, CallRecords
      <4>3. CASE Rebuild(c)
        BY <4>3 DEF Rebuild, Types, CallRecords
      <4>4. QED
        BY <2>10, <4>1, <4>2, <4>3
    <3>4. QED
      BY <2>1, <3>1, <3>2, <3>3
  <2>11. ASSUME NEW c \in Calls, Save(c) \/ ServiceError(c)
         PROVE  CallerInv'
    <3>1. call' = [call EXCEPT ![c] = NoCall]
      BY <2>11 DEF Save, Return, ServiceError
    <3>2. call'[c].phase = "idle" /\ call'[c].by = Nobody /\ \A d \in Calls \ {c} : call'[d] = call[d]
      BY <3>1 DEF NoCall, Types
    <3>3. CASE call[c].by = Nobody
      <4>1. pass' = pass
        BY <2>11, <3>3 DEF Save, Return, ServiceError
      <4>2. QED
        BY <2>0, <3>2, <3>3, <4>1 DEF CallerInv, Waiting
    <3>4. CASE call[c].by # Nobody
      <4>1. PICK p \in Passes : call[c].by = p
        BY <2>0, <3>4
      <4>2. GoOn(p) \/ Answered(p)
        BY <2>11, <3>4, <4>1 DEF Save, Return, ServiceError
      <4>3. \A d \in Calls \ {c} : call[d].by # p
        BY <3>4, <4>1 DEF CallerInv
      <4>4. QED
        BY <2>7, <2>8, <3>2, <4>1, <4>2, <4>3 DEF CallerInv
    <3>5. QED
      BY <3>3, <3>4
  <2>12. ASSUME NEW p \in Passes, Start(p) \/ MarkDelivered(p) \/ MarkLabels(p)
         PROVE  CallerInv'
    BY <2>3, <2>12 DEF Start, MarkDelivered, MarkLabels
  <2>13. QED
    BY <2>2, <2>4, <2>6, <2>9, <2>10, <2>11, <2>12 DEF Next, PassStep, CallStep
<1>3. QED
  BY <1>1, <1>2, Typed, PTL DEF Spec

\* TypeOK: types, label numbers, and who waits for whom.
THEOREM TypeCorrect == Spec => []TypeOK
<1>1. Types /\ LabelInv /\ CallerInv => TypeOK
  <2> SUFFICES ASSUME Types, LabelInv, CallerInv PROVE TypeOK
    OBVIOUS
  <2>1. /\ labels.last \in 0..MaxLabels /\ labels.delivered \in 0..labels.last
        /\ state.label \in 0..labels.last
    BY ConstantsAssumption DEF Types, LabelInv, States
  <2>2. ASSUME NEW p \in Passes
        PROVE  /\ pass[p].phase \in {"idle", "write", "wait", "mark", "labels", "waitLabels",
                                     "markLabels"}
               /\ pass[p].sent \subseteq Keys /\ pass[p].label \in 0..MaxLabels
               /\ pass[p].phase \in Waiting <=> \E c \in Calls : call[c].by = p
    <3>1. p # Nobody
      BY ConstantsAssumption DEF Passes
    <3>2. pass[p].label \in Nat /\ pass[p].label <= labels.last /\ labels.last <= MaxLabels
          /\ labels.last \in Nat
      BY DEF Types, PassRecords, LabelInv
    <3>3. pass[p].label \in 0..MaxLabels
      BY <3>2, ConstantsAssumption
    <3>4. pass[p].phase \in Waiting <=> \E c \in Calls : call[c].by = p
      BY <3>1 DEF CallerInv
    <3>5. QED
      BY <3>3, <3>4 DEF Types, PassRecords
  <2>3. QED
    BY <2>1, <2>2 DEF TypeOK, Types, CallRecords
<1>2. QED
  BY <1>1, Typed, LabelsBounded, CallersWait, PTL
-----------------------------------------------------------------------------
(* The inductive invariant behind EvidenceOnce and IdSetAgrees. *)

Times(s, k) == s.count[k]["first"] + s.count[k]["better"]

\* Nothing is in s twice, and only what is in keys is in it.
OnlyFrom(s, keys) == \A k \in Keys : Times(s, k) <= 1 /\ (Times(s, k) > 0 => k \in keys)

AllOf(s, keys) == \A k \in keys : Times(s, k) = 1

\* What is on the wire is stored, with the same exclusion, and once.
WireInv ==
    \A c \in Calls : \A t \in call[c].sent :
        /\ tuples[t.key].reward # "none" /\ tuples[t.key].excluded = t.excluded
        /\ \A u \in call[c].sent : u.key = t.key => u = t

\* Only tuples that are stored and count enter the id set.
KeysInv ==
    /\ applied \subseteq StoredKeys
    /\ \A c \in Calls :
          /\ call[c].keys \subseteq StoredKeys
          /\ call[c].phase \in {"idle", "load", "keys"} => call[c].keys = {}

\* A call may carry an old state, but never evidence from outside the id set.
EvidenceInv ==
    /\ OnlyFrom(state, applied)
    /\ \A c \in Calls : OnlyFrom(call[c].state, applied \cup call[c].keys)

\* Unless calls overlap, the one call has what is stored.
SoloInv ==
    "overlap" \notin failures =>
        /\ \A c, d \in Calls : Running(c) /\ Running(d) => c = d
        /\ AllOf(state, applied)
        /\ \A c \in Calls :
              /\ call[c].phase = "keys" => call[c].state = state
              /\ call[c].phase = "save" => AllOf(call[c].state, applied \cup call[c].keys)

Inv == WireInv /\ KeysInv /\ EvidenceInv /\ SoloInv

\* A larger id set covers no less.
LEMMA MoreKeys ==
    ASSUME NEW s, NEW small, NEW large, OnlyFrom(s, small), small \subseteq large
    PROVE  OnlyFrom(s, large)
  BY DEF OnlyFrom

\* Teaching what is fresh and unrepeated counts each new key once.
LEMMA TeachesOnce ==
    ASSUME NEW s \in States, NEW keys \in SUBSET Keys, OnlyFrom(s, keys),
           NEW fresh \in SUBSET Wire,
           \A t, u \in fresh : t.key = u.key => t = u,
           \A t \in fresh : t.key \notin keys
    PROVE  /\ OnlyFrom(Taught(s, fresh), keys \cup {t.key : t \in fresh})
           /\ AllOf(s, keys) => AllOf(Taught(s, fresh), keys \cup {t.key : t \in fresh})
<1>0. /\ \A k \in Keys, r \in Rewards : Taught(s, fresh).count[k][r]
                 = s.count[k][r] + Cardinality(OfKind(fresh, k, r))
      /\ Cardinality({}) = 0
  BY TaughtCounts, FS_EmptySet
<1>1. ASSUME NEW k \in Keys, k \notin {t.key : t \in fresh}
      PROVE  Times(Taught(s, fresh), k) = Times(s, k)
  <2>1. \A r \in Rewards : OfKind(fresh, k, r) = {}
    BY <1>1 DEF OfKind
  <2>2. \A r \in Rewards : Taught(s, fresh).count[k][r] = s.count[k][r] + 0
    BY <1>0, <2>1
  <2>3. s.count[k]["first"] \in Nat /\ s.count[k]["better"] \in Nat
    BY DEF States, Rewards
  <2>4. QED
    BY <2>2, <2>3 DEF Times, Rewards
<1>2. ASSUME NEW t \in fresh
      PROVE  Times(Taught(s, fresh), t.key) = 1
  <2>1. t.key \in Keys /\ t.reward \in Rewards
    BY DEF Wire
  <2>2. OfKind(fresh, t.key, t.reward) = {t}
    BY DEF OfKind
  <2>3. \A r \in Rewards \ {t.reward} : OfKind(fresh, t.key, r) = {}
    BY DEF OfKind
  <2>4. \A r \in Rewards : Taught(s, fresh).count[t.key][r]
            = s.count[t.key][r] + (IF r = t.reward THEN 1 ELSE 0)
    <3>1. Cardinality({t}) = 1
      BY FS_Singleton
    <3>2. Cardinality(OfKind(fresh, t.key, t.reward)) = 1
      BY <2>2, <3>1
    <3>3. \A r \in Rewards \ {t.reward} : Cardinality(OfKind(fresh, t.key, r)) = 0
      BY <1>0, <2>3
    <3>4. QED
      BY <1>0, <2>1, <3>2, <3>3
  <2>5. s.count[t.key]["first"] \in Nat /\ s.count[t.key]["better"] \in Nat
    BY <2>1 DEF States, Rewards
  <2>6. s.count[t.key]["first"] = 0 /\ s.count[t.key]["better"] = 0
    BY <2>1, <2>5 DEF OnlyFrom, Times
  <2>7. QED
    BY <2>1, <2>4, <2>6 DEF Times, Rewards
<1>3. \A t \in fresh : t.key \in Keys
  BY DEF Wire
<1>4. QED
  BY <1>1, <1>2, <1>3 DEF OnlyFrom, AllOf

\* A rebuild counts each stored tuple that teaches once, and no other.
LEMMA RebuiltCounts ==
    /\ OnlyFrom(Rebuilt, StoredKeys)
    /\ Types => AllOf(Rebuilt, StoredKeys)
<1>1. ASSUME NEW k \in Keys \ StoredKeys
      PROVE  Times(Rebuilt, k) = 0
  BY DEF Rebuilt, Times, Rewards
<1>2. ASSUME NEW k \in Keys, k \in StoredKeys
      PROVE  Times(Rebuilt, k) <= 1 /\ (Types => Times(Rebuilt, k) = 1)
  BY <1>2 DEF Rebuilt, Times, Rewards, Types, Tuples, StoredKeys
<1>3. StoredKeys \subseteq Keys
  BY DEF StoredKeys
<1>4. QED
  BY <1>1, <1>2, <1>3 DEF OnlyFrom, AllOf

\* A step that leaves the learned state and what the calls carry alone.
LEMMA Undisturbed ==
    ASSUME Types, Inv, UNCHANGED learned, failures \subseteq failures',
           \A k \in Keys : tuples[k].reward # "none" =>
               tuples'[k].reward # "none" /\ tuples'[k].excluded = tuples[k].excluded,
           \A c \in Calls : /\ call'[c].phase = call[c].phase /\ call'[c].sent = call[c].sent
                            /\ call'[c].state = call[c].state /\ call'[c].keys = call[c].keys
    PROVE  Inv'
<1>1. StoredKeys \subseteq StoredKeys'
  BY DEF StoredKeys
<1>2. \A c \in Calls : \A t \in call[c].sent : t.key \in Keys
  BY DEF Types, CallRecords, Wire
<1>3. WireInv'
  BY <1>2 DEF Inv, WireInv
<1>4. KeysInv'
  BY <1>1 DEF Inv, KeysInv, learned
<1>5. EvidenceInv'
  BY DEF Inv, EvidenceInv, learned, OnlyFrom, Times
<1>6. SoloInv'
  BY DEF Inv, SoloInv, learned, AllOf, Times, Running
<1>7. QED
  BY <1>3, <1>4, <1>5, <1>6 DEF Inv

\* A call is sent, into a slot that is free.
LEMMA SentInv ==
    ASSUME Types, Inv, UNCHANGED <<ledger, learned>>,
           NEW p \in Passes, NEW kind, NEW sent \in SUBSET {OnWire(k) : k \in Undelivered},
           Send(p, kind, sent)
    PROVE  Inv'
<1>1. PICK c \in Calls : /\ ~Running(c)
                         /\ call' = [call EXCEPT ![c] = [NoCall EXCEPT !.phase = "load",
                                !.kind = kind, !.by = p, !.sent = sent]]
  BY DEF Send
<1>2. /\ call'[c].phase = "load" /\ call'[c].sent = sent
      /\ call'[c].state = NoEvidence /\ call'[c].keys = {}
      /\ \A d \in Calls \ {c} : call'[d] = call[d]
  BY <1>1 DEF Types, NoCall
<1>3. WireInv'
  <2>1. \A t \in sent : /\ tuples[t.key].reward # "none" /\ tuples[t.key].excluded = t.excluded
                        /\ \A u \in sent : u.key = t.key => u = t
    BY DEF OnWire, Undelivered
  <2>2. QED
    BY <1>2, <2>1 DEF Inv, WireInv, ledger
<1>4. StoredKeys' = StoredKeys
  BY DEF StoredKeys, ledger
<1>5. KeysInv'
  BY <1>2, <1>4 DEF Inv, KeysInv, learned
<1>6. OnlyFrom(NoEvidence, applied')
  BY DEF OnlyFrom, Times, NoEvidence, Rewards
<1>7. EvidenceInv'
  <2>1. \A d \in Calls : OnlyFrom(call'[d].state, applied' \cup call'[d].keys)
    BY <1>2, <1>6 DEF Inv, EvidenceInv, learned
  <2>2. OnlyFrom(state', applied')
    BY DEF Inv, EvidenceInv, learned
  <2>3. QED
    BY <2>1, <2>2 DEF EvidenceInv, OnlyFrom, Times
<1>8. SoloInv'
  <2>1. CASE \E d \in Calls : Running(d)
    BY <2>1 DEF Send, Fails, SoloInv
  <2>2. CASE ~\E d \in Calls : Running(d)
    <3>1. failures' = failures
      BY <2>2 DEF Send
    <3>2. \A d \in Calls \ {c} : call'[d].phase = "idle"
      BY <1>2, <2>2 DEF Running
    <3>3. QED
      BY <1>2, <3>1, <3>2 DEF Inv, SoloInv, AllOf, Times, Running, learned
  <2>3. QED
    BY <2>1, <2>2
<1>9. QED
  BY <1>3, <1>5, <1>7, <1>8 DEF Inv

\* The steps of a call that write nothing.
LEMMA WorkInv ==
    ASSUME Types, Inv, NEW c \in Calls, LoadState(c) \/ Apply(c) \/ Rebuild(c)
    PROVE  Inv'
<1>1. UNCHANGED <<ledger, learned, failures>> /\ StoredKeys' = StoredKeys
  BY DEF LoadState, Apply, Rebuild, StoredKeys, ledger
<1>2. \A d \in Calls \ {c} : call'[d] = call[d]
  BY DEF LoadState, Apply, Rebuild, Types
<1>3. call'[c].sent = call[c].sent /\ Running(c) /\ call'[c].phase # "idle"
  <2>1. CASE LoadState(c)
    BY <2>1 DEF LoadState, Types, CallRecords, Running
  <2>2. CASE Apply(c)
    BY <2>2 DEF Apply, Types, CallRecords, Running
  <2>3. CASE Rebuild(c)
    BY <2>3 DEF Rebuild, Types, CallRecords, Running
  <2>4. QED
    BY <2>1, <2>2, <2>3
<1>4. WireInv'
  BY <1>1, <1>2, <1>3 DEF Inv, WireInv, ledger
<1>5. \A d \in Calls : call'[d].phase # "idle" => call[d].phase # "idle"
  BY <1>2, <1>3 DEF Running
<1>6. SUFFICES
        /\ call'[c].keys \subseteq StoredKeys
        /\ call'[c].phase \in {"idle", "load", "keys"} => call'[c].keys = {}
        /\ OnlyFrom(call'[c].state, applied \cup call'[c].keys)
        /\ "overlap" \notin failures =>
              /\ call'[c].phase = "keys" => call'[c].state = state
              /\ call'[c].phase = "save" => AllOf(call'[c].state, applied \cup call'[c].keys)
  <2>1. KeysInv'
    BY <1>1, <1>2, <1>6 DEF Inv, KeysInv, learned
  <2>2. EvidenceInv'
    BY <1>1, <1>2, <1>6 DEF Inv, EvidenceInv, learned, OnlyFrom, Times
  <2>3. SoloInv'
    BY <1>1, <1>2, <1>5, <1>6 DEF Inv, SoloInv, learned, AllOf, Times, Running
  <2>4. QED
    BY <1>4, <2>1, <2>2, <2>3 DEF Inv
<1>7. CASE LoadState(c)
  <2>1. /\ call'[c].state = state /\ call'[c].keys = call[c].keys /\ call[c].phase = "load"
        /\ call'[c].phase \in {"rebuild", "keys"}
    BY <1>7 DEF LoadState, Types, CallRecords
  <2>2. call'[c].keys = {}
    BY <2>1 DEF Inv, KeysInv
  <2>3. QED
    BY <2>1, <2>2 DEF Inv, EvidenceInv
<1>8. CASE Apply(c)
  <2>1. DEFINE fresh == FreshOf(c)
  <2>2. /\ call[c].phase = "keys" /\ call'[c].state = Taught(call[c].state, fresh)
        /\ call'[c].keys = {t.key : t \in fresh} /\ call'[c].phase \in {"rebuild", "save"}
    BY <1>8 DEF Apply, Types, CallRecords
  <2>3. fresh \in SUBSET Wire /\ fresh \subseteq call[c].sent
    BY DEF FreshOf, Types, CallRecords
  <2>4. /\ \A t, u \in fresh : t.key = u.key => t = u
        /\ {t.key : t \in fresh} \subseteq StoredKeys
        /\ \A t \in fresh : t.key \notin applied
    BY <2>3 DEF Inv, WireInv, FreshOf, StoredKeys, Wire
  <2>5. call[c].keys = {} /\ OnlyFrom(call[c].state, applied)
    BY <2>2 DEF Inv, KeysInv, EvidenceInv
  <2>6. call[c].state \in States /\ applied \in SUBSET Keys
    BY DEF Types, CallRecords
  <2>7. /\ OnlyFrom(call'[c].state, applied \cup call'[c].keys)
        /\ AllOf(call[c].state, applied) => AllOf(call'[c].state, applied \cup call'[c].keys)
    <3> HIDE DEF fresh
    <3> QED
      BY <2>2, <2>3, <2>4, <2>5, <2>6, TeachesOnce
  <2>8. "overlap" \notin failures => AllOf(call[c].state, applied)
    BY <2>2 DEF Inv, SoloInv
  <2>9. QED
    BY <2>2, <2>4, <2>7, <2>8
<1>9. CASE Rebuild(c)
  <2>1. /\ call'[c].state = Rebuilt /\ call'[c].keys = call[c].keys \cup StoredKeys
        /\ call'[c].phase = "save"
    BY <1>9 DEF Rebuild, Types, CallRecords
  <2>2. applied \cup call'[c].keys = StoredKeys /\ call'[c].keys \subseteq StoredKeys
    BY <2>1 DEF Inv, KeysInv
  <2>3. QED
    BY <2>1, <2>2, RebuiltCounts
<1>10. QED
  BY <1>7, <1>8, <1>9

\* A call ends, with or without having saved.
LEMMA EndedInv ==
    ASSUME Types, Inv, NEW c \in Calls, Save(c) \/ ServiceError(c)
    PROVE  Inv'
<1>1. /\ call'[c] = NoCall
      /\ \A d \in Calls \ {c} : call'[d] = call[d]
      /\ failures \subseteq failures' /\ UNCHANGED ledger
  BY DEF Save, Return, ServiceError, Types, Fails
<1>2. /\ NoCall.phase = "idle" /\ NoCall.sent = {} /\ NoCall.state = NoEvidence
      /\ NoCall.keys = {}
  BY DEF NoCall
<1>3. StoredKeys' = StoredKeys
  BY <1>1 DEF StoredKeys, ledger
<1>4. \/ UNCHANGED learned
      \/ /\ call[c].phase = "save"
         /\ state' = call[c].state /\ applied' = applied \cup call[c].keys
  BY DEF Save, ServiceError
<1>5. WireInv'
  BY <1>1, <1>2 DEF Inv, WireInv, ledger
<1>6. KeysInv'
  BY <1>1, <1>2, <1>3, <1>4 DEF Inv, KeysInv, learned
<1>7. applied \subseteq applied' /\ OnlyFrom(state', applied')
  BY <1>4 DEF Inv, EvidenceInv, learned
<1>8. EvidenceInv'
  <2>1. OnlyFrom(NoEvidence, applied')
    BY DEF OnlyFrom, Times, NoEvidence, Rewards
  <2>2. \A d \in Calls \ {c} : OnlyFrom(call[d].state, applied' \cup call[d].keys)
    <3>1. ASSUME NEW d \in Calls
          PROVE  OnlyFrom(call[d].state, applied' \cup call[d].keys)
      <4>1. OnlyFrom(call[d].state, applied \cup call[d].keys)
        BY DEF Inv, EvidenceInv
      <4>2. QED
        BY <1>7, <4>1, MoreKeys
    <3>2. QED
      BY <3>1
  <2>3. \A d \in Calls : OnlyFrom(call'[d].state, applied' \cup call'[d].keys)
    BY <1>1, <1>2, <2>1, <2>2
  <2>4. QED
    BY <1>7, <2>3 DEF EvidenceInv, OnlyFrom, Times
<1>9. SoloInv'
  <2>1. SUFFICES ASSUME "overlap" \notin failures PROVE SoloInv'
    BY <1>1 DEF SoloInv
  <2>2. AllOf(state', applied')
    BY <1>4, <2>1 DEF Inv, SoloInv, learned
  <2>3. Running(c)
    BY DEF Save, ServiceError, Running
  <2>4. \A d \in Calls : call'[d].phase = "idle"
    BY <1>1, <1>2, <2>1, <2>3 DEF Inv, SoloInv, Running
  <2>5. QED
    BY <2>2, <2>4 DEF SoloInv, AllOf, Times, Running
<1>10. QED
  BY <1>5, <1>6, <1>8, <1>9 DEF Inv

\* The invariant, whatever overlaps, times out, dies or repeats.
THEOREM Invariance == Spec => []Inv
<1>1. Init => Inv
  <2> SUFFICES ASSUME Init PROVE Inv
    OBVIOUS
  <2>1. /\ state = NoEvidence /\ applied = {}
        /\ \A c \in Calls : /\ call[c].phase = "idle" /\ call[c].sent = {}
                            /\ call[c].state = NoEvidence /\ call[c].keys = {}
    BY DEF Init, NoCall
  <2>2. OnlyFrom(NoEvidence, {})
    BY DEF OnlyFrom, Times, NoEvidence, Rewards
  <2>3. QED
    BY <2>1, <2>2 DEF Inv, WireInv, KeysInv, EvidenceInv, SoloInv, AllOf, Running
<1>2. Types /\ Inv /\ [Next]_vars => Inv'
  <2> SUFFICES ASSUME Types, Inv, [Next]_vars PROVE Inv'
    OBVIOUS
  <2>1. CASE UNCHANGED vars
    BY <2>1, Undisturbed DEF vars, ledger
  <2>2. ASSUME NEW p \in Passes,
               Start(p) \/ MarkDelivered(p) \/ MarkLabels(p) \/ TimeOut(p) \/ Crash(p)
        PROVE  Inv'
    <3>1. UNCHANGED learned /\ failures \subseteq failures'
      BY <2>2 DEF Start, MarkDelivered, MarkLabels, TimeOut, Crash, Fails
    <3>2. \A k \in Keys : tuples'[k].reward = tuples[k].reward
                          /\ tuples'[k].excluded = tuples[k].excluded
      BY <2>2 DEF Start, MarkDelivered, MarkLabels, TimeOut, Crash, ledger, Types, Tuples
    <3>3. \A c \in Calls : /\ call'[c].phase = call[c].phase /\ call'[c].sent = call[c].sent
                           /\ call'[c].state = call[c].state /\ call'[c].keys = call[c].keys
      BY <2>2 DEF Start, MarkDelivered, MarkLabels, TimeOut, Crash, Orphaned, Types, CallRecords
    <3>4. QED
      BY <3>1, <3>2, <3>3, Undisturbed
  <2>3. CASE NewLabel \/ Overrun
    <3>1. UNCHANGED <<learned, tuples, call>> /\ failures \subseteq failures'
      BY <2>3 DEF NewLabel, Overrun, ledger, Fails
    <3>2. QED
      BY <3>1, Undisturbed
  <2>4. ASSUME NEW p \in Passes, NEW k \in Keys, NewTuple(p, k) \/ CorrectTuple(p, k)
        PROVE  Inv'
    <3>1. UNCHANGED <<learned, call, failures>>
      BY <2>4 DEF NewTuple, CorrectTuple
    <3>2. \A j \in Keys : tuples[j].reward # "none" =>
              tuples'[j].reward # "none" /\ tuples'[j].excluded = tuples[j].excluded
      BY <2>4 DEF NewTuple, CorrectTuple, Correction, Types, Tuples
    <3>3. QED
      BY <3>1, <3>2, Undisturbed
  <2>5. ASSUME NEW p \in Passes, Deliver(p) \/ DeliverLabels(p)
        PROVE  Inv'
    <3>1. UNCHANGED <<ledger, learned>>
      BY <2>5 DEF Deliver, DeliverLabels
    <3>2. CASE UNCHANGED <<call, failures>>
      BY <3>1, <3>2, Undisturbed DEF ledger
    <3>3. CASE Send(p, "feedback", {OnWire(k) : k \in Undelivered})
      BY <3>1, <3>3, SentInv
    <3>4. CASE Send(p, "labels", {})
      BY <3>1, <3>4, SentInv
    <3>5. QED
      BY <2>5, <3>2, <3>3, <3>4 DEF Deliver, DeliverLabels
  <2>6. QED
    BY <2>1, <2>2, <2>3, <2>4, <2>5, WorkInv, EndedInv DEF Next, PassStep, CallStep
<1>3. QED
  BY <1>1, <1>2, Typed, PTL DEF Spec

\* EvidenceOnce holds with any number of overlapping, repeated and dying calls.
THEOREM NeverTwice == Spec => []EvidenceOnce
<1>1. ASSUME Types, Inv, NEW k \in Keys
      PROVE  Counted(k) <= 1 /\ (tuples[k].excluded => Counted(k) = 0)
  <2>1. state.count[k]["first"] \in Nat /\ state.count[k]["better"] \in Nat
    BY <1>1 DEF Types, States, Rewards
  <2>2. Counted(k) <= 1 /\ (Counted(k) > 0 => k \in StoredKeys)
    BY <1>1 DEF Inv, KeysInv, EvidenceInv, OnlyFrom, Times, Counted
  <2>3. QED
    BY <2>1, <2>2 DEF Counted, StoredKeys
<1>2. Types /\ Inv => EvidenceOnce
  BY <1>1 DEF EvidenceOnce
<1>3. QED
  BY <1>2, Typed, Invariance, PTL

\* IdSetAgrees: without overlapping calls the id set neither lacks nor invents evidence.
THEOREM IdSetIsTrue == Spec => []IdSetAgrees
<1>1. Types /\ Inv => IdSetAgrees
  BY DEF Types, States, Rewards, Inv, EvidenceInv, SoloInv, OnlyFrom, AllOf, Times,
         IdSetAgrees, Counted
<1>2. QED
  BY <1>1, Typed, Invariance, PTL
-----------------------------------------------------------------------------
(***************************************************************************)
(* What is marked delivered is in the state.  While no calls overlap and   *)
(* no pass outlives its lease, one pass and one call are at work.  Beside  *)
(* the property itself the invariant says what the call will leave when it *)
(* saves, for what was delivered before and for what its caller waits for, *)
(* and that the pass that marks has this in the state.                     *)
(***************************************************************************)

\* The corrected reward is counted for corrected tuples only.
Better(s) == \A k \in Keys : s.count[k]["better"] > 0 => tuples[k].reward = "better"

BetterInv ==
    /\ Better(state)
    /\ \A c \in Calls :
          /\ Better(call[c].state)
          /\ \A t \in call[c].sent : t.reward = "better" => tuples[t.key].reward = "better"

Delivered == {k \in Keys : tuples[k].delivered}

\* The keys are stored, and s has each that counts with its reward of now.
Teaches(s, keys) ==
    \A k \in keys : /\ tuples[k].reward # "none"
                    /\ ~tuples[k].excluded => s.count[k][tuples[k].reward] = 1

\* The state after a call saves.
Outcome(c) == IF call[c].keys = {} /\ call[c].kind = "feedback" THEN state ELSE call[c].state

\* What the caller of c asked for.
Asked(c) ==
    LET p == call[c].by IN
    IF call[c].kind = "feedback"
    THEN /\ pass[p].phase = "wait"
         /\ call[c].sent = {OnWire(k) : k \in pass[p].sent}
         /\ \A k \in pass[p].sent : tuples[k].reward # "none"
    ELSE pass[p].phase = "waitLabels"

\* What the caller of c will mark.
Granted(c) ==
    LET p == call[c].by IN
    IF call[c].kind = "feedback" THEN Teaches(Outcome(c), pass[p].sent)
    ELSE pass[p].label <= Outcome(c).label

CallInv(c) ==
    /\ call[c].phase = "load" => call[c].kind # "none"
    /\ call[c].phase = "keys" => call[c].kind = "feedback"
    /\ call[c].by # Nobody => Asked(c)
    /\ call[c].phase = "save" =>
          /\ Teaches(Outcome(c), Delivered) /\ labels.delivered <= Outcome(c).label
          /\ call[c].by # Nobody => Granted(c)

PassInv(p) ==
    /\ pass[p].phase # "idle" <=> lease = p
    /\ pass[p].phase \in {"mark", "markLabels"} => \A c \in Calls : ~Running(c)
    /\ pass[p].phase = "mark" => Teaches(state, pass[p].sent)
    /\ pass[p].phase = "markLabels" => pass[p].label <= state.label

InTime == failures \cap {"overlap", "overrun"} = {}

DeliveryInv ==
    InTime => /\ Teaches(state, Delivered) /\ labels.delivered <= state.label
              /\ \A c \in Calls : CallInv(c)
              /\ \A p \in Passes : PassInv(p)

LEMMA InitDelivery == Init => BetterInv /\ DeliveryInv
<1> SUFFICES ASSUME Init PROVE BetterInv /\ DeliveryInv
  OBVIOUS
<1>1. /\ state = NoEvidence /\ labels.delivered = 0 /\ lease = Nobody
      /\ \A k \in Keys : tuples[k].delivered = FALSE
      /\ \A p \in Passes : pass[p].phase = "idle" /\ p # Nobody
      /\ \A c \in Calls : /\ call[c].phase = "idle" /\ call[c].sent = {} /\ call[c].by = Nobody
                          /\ call[c].state = NoEvidence
  BY ConstantsAssumption DEF Init, NoCall, NoPass, Passes
<1>2. Better(NoEvidence) /\ NoEvidence.label = 0
  BY DEF Better, NoEvidence, Rewards
<1>3. BetterInv
  BY <1>1, <1>2 DEF BetterInv
<1>4. Delivered = {} /\ Teaches(state, Delivered)
  BY <1>1 DEF Delivered, Teaches
<1>5. QED
  BY <1>1, <1>2, <1>3, <1>4 DEF DeliveryInv, CallInv, PassInv

\* A step that takes no reward back.
LEMMA BetterKept ==
    ASSUME Types, BetterInv, state' = state,
           \A k \in Keys : tuples[k].reward = "better" => tuples'[k].reward = "better",
           \A c \in Calls :
               \/ call'[c].state = call[c].state /\ call'[c].sent \subseteq call[c].sent
               \/ /\ call'[c].state = NoEvidence
                  /\ \A t \in call'[c].sent :
                        t.key \in Keys /\ (t.reward = "better" => tuples[t.key].reward = "better")
    PROVE  BetterInv'
<1>1. \A k \in Keys : NoEvidence.count[k]["better"] = 0
  BY DEF NoEvidence, Rewards
<1>2. Better(state)'
  BY DEF BetterInv, Better
<1>3. ASSUME NEW c \in Calls
      PROVE  /\ Better(call[c].state)'
             /\ \A t \in call'[c].sent : t.reward = "better" => tuples'[t.key].reward = "better"
  <2>1. call[c].sent \subseteq Wire /\ \A t \in Wire : t.key \in Keys
    BY DEF Types, CallRecords, Wire
  <2>2. CASE call'[c].state = call[c].state /\ call'[c].sent \subseteq call[c].sent
    BY <2>1, <2>2 DEF BetterInv, Better
  <2>3. CASE ~(call'[c].state = call[c].state /\ call'[c].sent \subseteq call[c].sent)
    BY <1>1, <2>3 DEF Better
  <2> QED
    BY <2>2, <2>3
<1>4. QED
  BY <1>2, <1>3 DEF BetterInv

\* Teaching keeps it when the tuples that teach have the reward of now.
LEMMA BetterTaught ==
    ASSUME NEW s \in States, Better(s), NEW fresh \in SUBSET Wire,
           \A t \in fresh : t.reward = "better" => tuples[t.key].reward = "better"
    PROVE  Better(Taught(s, fresh))
<1> SUFFICES ASSUME NEW k \in Keys, tuples[k].reward # "better"
             PROVE  ~(Taught(s, fresh).count[k]["better"] > 0)
  BY DEF Better
<1>1. OfKind(fresh, k, "better") = {}
  BY DEF OfKind
<1>2. Taught(s, fresh).count[k]["better"] = s.count[k]["better"] + Cardinality({})
  BY <1>1, TaughtCounts DEF Rewards
<1>3. Cardinality({}) = 0 /\ s.count[k]["better"] \in Nat
  BY FS_EmptySet DEF States, Rewards
<1>4. QED
  BY <1>2, <1>3 DEF Better

LEMMA NextBetter == Types /\ BetterInv /\ [Next]_vars => BetterInv'
<1> SUFFICES ASSUME Types, BetterInv, [Next]_vars PROVE BetterInv'
  OBVIOUS
<1>1. CASE UNCHANGED vars
  BY <1>1, BetterKept DEF vars, ledger, learned
<1>2. ASSUME NEW p \in Passes,
             Start(p) \/ MarkDelivered(p) \/ MarkLabels(p) \/ TimeOut(p) \/ Crash(p)
      PROVE  BetterInv'
  <2>1. state' = state
    BY <1>2 DEF Start, MarkDelivered, MarkLabels, TimeOut, Crash, learned
  <2>2. \A k \in Keys : tuples'[k].reward = tuples[k].reward
    BY <1>2 DEF Start, MarkDelivered, MarkLabels, TimeOut, Crash, ledger, Types, Tuples
  <2>3. \A c \in Calls : call'[c].state = call[c].state /\ call'[c].sent = call[c].sent
    BY <1>2 DEF Start, MarkDelivered, MarkLabels, TimeOut, Crash, Orphaned, Types, CallRecords
  <2> QED
    BY <2>1, <2>2, <2>3, BetterKept
<1>3. CASE NewLabel \/ Overrun
  BY <1>3, BetterKept DEF NewLabel, Overrun, ledger, learned
<1>4. ASSUME NEW p \in Passes, NEW k \in Keys, NewTuple(p, k) \/ CorrectTuple(p, k)
      PROVE  BetterInv'
  <2>1. state' = state /\ call' = call
    BY <1>4 DEF NewTuple, CorrectTuple, learned
  <2>2. \A j \in Keys : tuples[j].reward = "better" => tuples'[j].reward = "better"
    BY <1>4 DEF NewTuple, CorrectTuple, Correction, Types, Tuples
  <2> QED
    BY <2>1, <2>2, BetterKept
<1>5. ASSUME NEW p \in Passes, Deliver(p) \/ DeliverLabels(p)
      PROVE  BetterInv'
  <2>1. state' = state /\ tuples' = tuples
    BY <1>5 DEF Deliver, DeliverLabels, ledger, learned
  <2>2. CASE call' = call
    BY <2>1, <2>2, BetterKept
  <2>3. ASSUME NEW kind, NEW sent \in SUBSET {OnWire(k) : k \in Undelivered},
               Send(p, kind, sent)
        PROVE  BetterInv'
    <3>1. PICK c \in Calls : call' = [call EXCEPT ![c] =
              [NoCall EXCEPT !.phase = "load", !.kind = kind, !.by = p, !.sent = sent]]
      BY <2>3 DEF Send
    <3>2. /\ call'[c].state = NoEvidence /\ call'[c].sent = sent
          /\ \A d \in Calls \ {c} : call'[d] = call[d]
      BY <3>1 DEF NoCall, Types
    <3>3. \A t \in sent :
              t.key \in Keys /\ (t.reward = "better" => tuples[t.key].reward = "better")
      BY DEF OnWire, Undelivered
    <3> QED
      BY <2>1, <3>2, <3>3, BetterKept
  <2> QED
    BY <1>5, <2>2, <2>3 DEF Deliver, DeliverLabels
<1>6. ASSUME NEW c \in Calls, LoadState(c) \/ Apply(c) \/ Rebuild(c)
      PROVE  BetterInv'
  <2>1. /\ state' = state /\ tuples' = tuples
        /\ \A d \in Calls \ {c} : call'[d] = call[d]
    BY <1>6 DEF LoadState, Apply, Rebuild, ledger, learned, Types
  <2>2. call'[c].sent = call[c].sent
    <3>1. CASE LoadState(c)
      BY <3>1 DEF LoadState, Types, CallRecords
    <3>2. CASE Apply(c)
      BY <3>2 DEF Apply, Types, CallRecords
    <3>3. CASE Rebuild(c)
      BY <3>3 DEF Rebuild, Types, CallRecords
    <3> QED
      BY <1>6, <3>1, <3>2, <3>3
  <2>3. Better(call'[c].state)
    <3>1. CASE LoadState(c)
      BY <3>1 DEF LoadState, Types, CallRecords, BetterInv
    <3>2. CASE Apply(c)
      <4>1. call'[c].state = Taught(call[c].state, FreshOf(c))
        BY <3>2 DEF Apply, Types, CallRecords
      <4>2. FreshOf(c) \in SUBSET Wire /\ FreshOf(c) \subseteq call[c].sent
        BY DEF FreshOf, Types, CallRecords
      <4> QED
        BY <4>1, <4>2, BetterTaught DEF BetterInv, Types, CallRecords
    <3>3. CASE Rebuild(c)
      <4>1. call'[c].state = Rebuilt
        BY <3>3 DEF Rebuild, Types, CallRecords
      <4> QED
        BY <4>1 DEF Better, Rebuilt, Rewards
    <3> QED
      BY <1>6, <3>1, <3>2, <3>3
  <2> QED
    BY <2>1, <2>2, <2>3 DEF BetterInv, Better
<1>7. ASSUME NEW c \in Calls, Save(c) \/ ServiceError(c)
      PROVE  BetterInv'
  <2>1. /\ tuples' = tuples /\ (state' = state \/ state' = call[c].state)
        /\ call'[c] = NoCall /\ \A d \in Calls \ {c} : call'[d] = call[d]
    BY <1>7 DEF Save, Return, ServiceError, ledger, learned, Types
  <2>2. NoCall.sent = {} /\ NoCall.state = NoEvidence /\ Better(NoEvidence)
    BY DEF NoCall, Better, NoEvidence, Rewards
  <2> QED
    BY <2>1, <2>2 DEF BetterInv, Better
<1>8. QED
  BY <1>1, <1>2, <1>3, <1>4, <1>5, <1>6, <1>7 DEF Next, PassStep, CallStep

\* The invariants a step may use.
Known == Types /\ LabelInv /\ CallerInv /\ Inv /\ BetterInv /\ DeliveryInv

LEMMA StillInTime == [Next]_vars /\ InTime' => InTime
  BY DEF InTime, Next, vars, PassStep, CallStep, Start, Deliver, MarkDelivered, DeliverLabels,
         MarkLabels, TimeOut, Crash, NewTuple, CorrectTuple, NewLabel, Overrun, LoadState, Apply,
         Rebuild, Save, ServiceError, Fails, Send

\* While nothing is late, the holder of the lease is the one pass at work.
LEMMA OnePass ==
    ASSUME Types, DeliveryInv, InTime, NEW p \in Passes, pass[p].phase # "idle"
    PROVE  lease = p /\ \A q \in Passes \ {p} : pass[q].phase = "idle"
  BY DEF DeliveryInv, PassInv

\* A call has a caller only while its caller waits.
LEMMA CallerWaits ==
    ASSUME Known, InTime, NEW c \in Calls, call[c].by # Nobody
    PROVE  /\ call[c].by \in Passes /\ pass[call[c].by].phase \in Waiting
           /\ call[c].phase # "idle"
  BY DEF Known, CallerInv, Types, CallRecords

\* A step of a pass that leaves the state, the ledgers and every call's work alone.
LEMMA DeliveryKept ==
    ASSUME Known, InTime, UNCHANGED <<ledger, learned>>,
           \A c \in Calls :
               \/ call'[c] = call[c] /\ (call[c].by # Nobody => pass'[call[c].by] = pass[call[c].by])
               \/ /\ call'[c].phase = call[c].phase /\ call'[c].kind = call[c].kind
                  /\ call'[c].state = call[c].state /\ call'[c].keys = call[c].keys
                  /\ call'[c].by = Nobody,
           \A p \in Passes :
               /\ pass'[p].phase # "idle" <=> lease' = p
               /\ pass'[p].phase \in {"mark", "markLabels"} => pass'[p] = pass[p]
    PROVE  DeliveryInv'
<1>1. /\ Teaches(state, Delivered) /\ labels.delivered <= state.label
      /\ \A c \in Calls : CallInv(c)
      /\ \A p \in Passes : PassInv(p)
  BY DEF Known, DeliveryInv
<1>2. (Teaches(state, Delivered) /\ labels.delivered <= state.label)'
  BY <1>1 DEF ledger, learned, Teaches, Delivered
<1>3. ASSUME NEW c \in Calls PROVE CallInv(c)'
  <2>1. CallInv(c)
    BY <1>1
  <2>2. CASE call'[c] = call[c] /\ (call[c].by # Nobody => pass'[call[c].by] = pass[call[c].by])
    BY <2>1, <2>2 DEF CallInv, Asked, Granted, Outcome, Teaches, Delivered, OnWire, ledger, learned
  <2>3. CASE /\ call'[c].phase = call[c].phase /\ call'[c].kind = call[c].kind
             /\ call'[c].state = call[c].state /\ call'[c].keys = call[c].keys
             /\ call'[c].by = Nobody
    BY <2>1, <2>3 DEF CallInv, Outcome, Teaches, Delivered, ledger, learned
  <2> QED
    BY <2>2, <2>3
<1>4. \A c \in Calls : call'[c].phase = call[c].phase
  OBVIOUS
<1>5. ASSUME NEW p \in Passes PROVE PassInv(p)'
  <2>1. PassInv(p)
    BY <1>1
  <2> QED
    BY <1>4, <2>1 DEF PassInv, Teaches, Running, ledger, learned
<1>6. QED
  BY <1>2, <1>3, <1>5 DEF DeliveryInv

LEMMA StartDelivery ==
    ASSUME Known, InTime, NEW p \in Passes, Start(p) \/ TimeOut(p) \/ Crash(p)
    PROVE  DeliveryInv'
<1>1. /\ UNCHANGED <<ledger, learned>> /\ Types
      /\ \A q \in Passes : PassInv(q) /\ q # Nobody
  BY ConstantsAssumption DEF Start, TimeOut, Crash, Known, DeliveryInv, Passes
<1>2. CASE Start(p)
  <2>1. /\ call' = call /\ lease = Nobody /\ lease' = p
        /\ pass'[p].phase = "write" /\ \A q \in Passes \ {p} : pass'[q] = pass[q]
    BY <1>1, <1>2 DEF Start, Phase, Types, PassRecords
  <2>2. \A q \in Passes : pass[q].phase = "idle"
    BY <1>1, <2>1 DEF PassInv
  <2>3. \A c \in Calls : call[c].by = Nobody
    BY <2>2, CallerWaits DEF Waiting
  <2>4. \A q \in Passes : /\ pass'[q].phase # "idle" <=> lease' = q
                          /\ pass'[q].phase \in {"mark", "markLabels"} => pass'[q] = pass[q]
    BY <2>1, <2>2
  <2> QED
    BY <1>1, <2>1, <2>3, <2>4, DeliveryKept
<1>3. CASE TimeOut(p) \/ Crash(p)
  <2>1. call' = Orphaned(p) /\ (End(p) \/ GoOn(p))
    BY <1>3 DEF TimeOut, Crash
  <2>2. \A c \in Calls :
            \/ call'[c] = call[c] /\ call[c].by # p
            \/ /\ call'[c].phase = call[c].phase /\ call'[c].kind = call[c].kind
               /\ call'[c].state = call[c].state /\ call'[c].keys = call[c].keys
               /\ call'[c].by = Nobody
    BY <1>1, <2>1 DEF Orphaned, Types, CallRecords
  <2>3. /\ \A q \in Passes \ {p} : pass'[q] = pass[q]
        /\ \/ pass'[p].phase = "idle" /\ lease' = Released(p)
           \/ pass'[p].phase = "labels" /\ lease' = lease /\ pass[p].phase = "wait"
    BY <1>1, <2>1 DEF End, GoOn, Phase, NoPass, Types, PassRecords
  <2>4. \A q \in Passes : /\ pass'[q].phase # "idle" <=> lease' = q
                          /\ pass'[q].phase \in {"mark", "markLabels"} => pass'[q] = pass[q]
    BY <1>1, <2>3 DEF PassInv, Released
  <2>5. \A c \in Calls : call[c].by # Nobody /\ call[c].by # p => pass'[call[c].by] = pass[call[c].by]
    BY <2>3, CallerWaits
  <2> QED
    BY <1>1, <2>2, <2>4, <2>5, DeliveryKept
<1>4. QED
  BY <1>2, <1>3

LEMMA NewLabelDelivery == Known /\ InTime /\ NewLabel => DeliveryInv'
<1> SUFFICES ASSUME Known, InTime, NewLabel PROVE DeliveryInv'
  OBVIOUS
<1>1. /\ labels'.delivered = labels.delivered
      /\ UNCHANGED <<tuples, learned, lease, pass, call, failures>>
  BY DEF NewLabel, Known, Types
<1>2. QED
  BY <1>1 DEF Known, DeliveryInv, CallInv, PassInv, Asked, Granted, Outcome, Teaches, Delivered,
              OnWire, Running, learned, InTime

\* A pass that writes has nobody waiting beside it; what it writes is not delivered.
LEMMA WriteDelivery ==
    ASSUME Known, InTime, NEW p \in Passes, NEW k \in Keys, NewTuple(p, k) \/ CorrectTuple(p, k)
    PROVE  DeliveryInv'
<1>1. /\ UNCHANGED <<labels, learned, lease, pass, call, failures>> /\ pass[p].phase = "write"
      /\ tuples'[k].delivered = FALSE /\ tuples'[k].reward # "none"
      /\ \A j \in Keys \ {k} : tuples'[j] = tuples[j]
  BY DEF NewTuple, CorrectTuple, Correction, Known, Types, Tuples
<1>2. \A q \in Passes \ {p} : pass[q].phase = "idle"
  BY <1>1, OnePass DEF Known
<1>3. \A c \in Calls : call[c].by = Nobody
  BY <1>1, <1>2, CallerWaits DEF Waiting
<1>4. Delivered' \subseteq Delivered /\ \A j \in Delivered' : tuples'[j] = tuples[j]
  BY <1>1 DEF Delivered
<1>5. \A s : Teaches(s, Delivered) => \A j \in Delivered' :
                 /\ tuples'[j].reward # "none"
                 /\ ~tuples'[j].excluded => s.count[j][tuples'[j].reward] = 1
  BY <1>4 DEF Teaches
<1>6. /\ Teaches(state, Delivered) /\ labels.delivered <= state.label
      /\ \A c \in Calls : CallInv(c)
      /\ \A q \in Passes : PassInv(q)
  BY DEF Known, DeliveryInv
<1>7. Teaches(state, Delivered)' /\ (labels.delivered <= state.label)'
  BY <1>1, <1>5, <1>6 DEF Teaches, learned
<1>8. ASSUME NEW c \in Calls PROVE CallInv(c)'
  <2>1. CallInv(c) /\ call'[c].by = Nobody /\ Outcome(c)' = Outcome(c)
    BY <1>1, <1>3, <1>6 DEF Outcome, learned
  <2>2. Teaches(Outcome(c), Delivered) => Teaches(Outcome(c), Delivered)'
    BY <1>5, <2>1 DEF Teaches
  <2> QED
    BY <1>1, <2>1, <2>2 DEF CallInv
<1>9. ASSUME NEW q \in Passes PROVE PassInv(q)'
  <2>1. PassInv(q) /\ pass'[q].phase \notin {"mark", "markLabels"}
    BY <1>1, <1>2, <1>6
  <2> QED
    BY <1>1, <2>1 DEF PassInv
<1>10. QED
  BY <1>7, <1>8, <1>9 DEF DeliveryInv

\* A call is sent while no other runs.
LEMMA SendDelivery ==
    ASSUME Known, InTime, InTime', NEW p \in Passes, pass[p].phase \in {"write", "labels"},
           NEW kind \in {"feedback", "labels"}, NEW sent, Send(p, kind, sent),
           UNCHANGED <<ledger, learned, lease>>,
           \A q \in Passes \ {p} : pass'[q] = pass[q],
           IF kind = "feedback"
           THEN /\ pass'[p].phase = "wait" /\ pass'[p].sent = Undelivered
                /\ sent = {OnWire(k) : k \in Undelivered}
           ELSE pass'[p].phase = "waitLabels"
    PROVE  DeliveryInv'
<1>1. \A c \in Calls : ~Running(c)
  BY DEF Send, Fails, InTime
<1>2. PICK c \in Calls : call' = [call EXCEPT ![c] =
          [NoCall EXCEPT !.phase = "load", !.kind = kind, !.by = p, !.sent = sent]]
  BY DEF Send
<1>3. /\ call'[c].phase = "load" /\ call'[c].kind = kind /\ call'[c].by = p
      /\ call'[c].sent = sent
      /\ \A d \in Calls \ {c} : call'[d] = call[d] /\ call[d].phase = "idle"
  BY <1>1, <1>2 DEF NoCall, Known, Types, Running
<1>4. /\ Teaches(state, Delivered) /\ labels.delivered <= state.label
      /\ \A q \in Passes : PassInv(q)
  BY DEF Known, DeliveryInv
<1>5. (Teaches(state, Delivered) /\ labels.delivered <= state.label)'
  BY <1>4 DEF ledger, learned, Teaches, Delivered
<1>6. CallInv(c)'
  BY <1>3 DEF CallInv, Asked, Undelivered, OnWire, ledger
<1>7. \A d \in Calls \ {c} : call[d].by = Nobody
  BY <1>3 DEF Known, CallerInv
<1>8. \A d \in Calls \ {c} : CallInv(d)'
  BY <1>3, <1>7 DEF CallInv
<1>9. \A q \in Passes \ {p} : pass[q].phase = "idle" /\ lease = p
  BY OnePass DEF Known
<1>10. ASSUME NEW q \in Passes PROVE PassInv(q)'
  <2>1. pass'[q].phase # "idle" <=> lease' = q
    BY <1>4, <1>9 DEF PassInv
  <2>2. pass'[q].phase \notin {"mark", "markLabels"}
    BY <1>9
  <2> QED
    BY <2>1, <2>2 DEF PassInv
<1>11. QED
  BY <1>5, <1>6, <1>8, <1>10 DEF DeliveryInv

LEMMA DeliverDelivery ==
    ASSUME Known, InTime, InTime', NEW p \in Passes, Deliver(p) \/ DeliverLabels(p)
    PROVE  DeliveryInv'
<1>1. /\ UNCHANGED <<ledger, learned>> /\ Types
      /\ \A q \in Passes : PassInv(q) /\ q # Nobody
  BY ConstantsAssumption DEF Deliver, DeliverLabels, Known, DeliveryInv, Passes
<1>2. /\ pass[p].phase \in {"write", "labels"}
      /\ \A q \in Passes \ {p} : pass'[q] = pass[q] /\ pass[q].phase = "idle"
  <2>1. pass[p].phase \in {"write", "labels"} /\ \A q \in Passes \ {p} : pass'[q] = pass[q]
    BY <1>1 DEF Deliver, DeliverLabels, Phase, End, Types
  <2> QED
    BY <2>1, OnePass DEF Known
<1>3. CASE /\ call' = call
           /\ \/ pass'[p].phase = "labels" /\ lease' = lease
              \/ pass'[p].phase = "idle" /\ lease' = Released(p)
  <2>1. \A c \in Calls : call[c].by = Nobody
    BY <1>2, CallerWaits DEF Waiting
  <2>2. \A q \in Passes : /\ pass'[q].phase # "idle" <=> lease' = q
                          /\ pass'[q].phase \in {"mark", "markLabels"} => pass'[q] = pass[q]
    BY <1>1, <1>2, <1>3 DEF PassInv, Released
  <2> QED
    BY <1>1, <1>3, <2>1, <2>2, DeliveryKept
<1>4. CASE Deliver(p)
  <2>1. CASE Undelivered = {}
    BY <1>1, <1>3, <1>4, <2>1 DEF Deliver, Phase, Types, PassRecords
  <2>2. CASE Undelivered # {}
    <3>1. /\ Send(p, "feedback", {OnWire(k) : k \in Undelivered}) /\ lease' = lease
          /\ pass'[p].phase = "wait" /\ pass'[p].sent = Undelivered
      BY <1>1, <1>4, <2>2 DEF Deliver, Types, PassRecords
    <3> QED
      BY <1>1, <1>2, <3>1, SendDelivery
  <2> QED
    BY <2>1, <2>2
<1>5. CASE DeliverLabels(p)
  <2>1. CASE labels.delivered = labels.last
    BY <1>1, <1>3, <1>5, <2>1 DEF DeliverLabels, End, NoPass, Types, PassRecords
  <2>2. CASE labels.delivered # labels.last
    <3>1. /\ Send(p, "labels", {}) /\ lease' = lease
          /\ pass'[p].phase = "waitLabels"
      BY <1>1, <1>5, <2>2 DEF DeliverLabels, Types, PassRecords
    <3> QED
      BY <1>1, <1>2, <3>1, SendDelivery
  <2> QED
    BY <2>1, <2>2
<1>6. QED
  BY <1>4, <1>5

\* What a pass marks is in the state.
LEMMA MarkDelivery ==
    ASSUME Known, InTime, NEW p \in Passes, MarkDelivered(p) \/ MarkLabels(p)
    PROVE  DeliveryInv'
<1>1. /\ Types /\ Teaches(state, Delivered) /\ labels.delivered <= state.label
      /\ \A q \in Passes : PassInv(q) /\ q # Nobody
  BY ConstantsAssumption DEF Known, DeliveryInv, Passes
<1>2. pass[p].phase \in {"mark", "markLabels"} /\ call' = call /\ UNCHANGED learned
  BY DEF MarkDelivered, MarkLabels
<1>3. \A c \in Calls : call[c].phase = "idle" /\ call[c].by = Nobody
  BY <1>1, <1>2 DEF PassInv, Running, Known, CallerInv
<1>4. \A c \in Calls : CallInv(c)'
  BY <1>2, <1>3 DEF CallInv
<1>5. \A q \in Passes \ {p} : pass'[q] = pass[q] /\ pass[q].phase = "idle"
  <2>1. \A q \in Passes \ {p} : pass'[q] = pass[q]
    BY <1>1 DEF MarkDelivered, MarkLabels, Phase, End, Types
  <2> QED
    BY <1>2, <2>1, OnePass DEF Known
<1>6. \/ pass'[p].phase = "labels" /\ lease' = lease
      \/ pass'[p].phase = "idle" /\ lease' = Released(p)
  BY <1>1 DEF MarkDelivered, MarkLabels, Phase, End, NoPass, Types, PassRecords
<1>7. \A q \in Passes : PassInv(q)'
  BY <1>1, <1>2, <1>5, <1>6 DEF PassInv, Released
<1>8. (Teaches(state, Delivered) /\ labels.delivered <= state.label)'
  <2>1. CASE MarkDelivered(p)
    <3>1. /\ Teaches(state, pass[p].sent) /\ labels' = labels
          /\ \A k \in Keys : /\ tuples'[k].reward = tuples[k].reward
                             /\ tuples'[k].excluded = tuples[k].excluded
                             /\ tuples'[k].delivered => tuples[k].delivered \/ k \in pass[p].sent
      BY <1>1, <2>1 DEF MarkDelivered, ToMark, PassInv, Types, Tuples
    <3>2. \A k \in Delivered' : k \in Delivered \/ k \in pass[p].sent
      BY <3>1 DEF Delivered
    <3>3. Delivered' \subseteq Keys
      BY DEF Delivered
    <3>4. Teaches(state, Delivered)'
      BY <1>1, <1>2, <3>1, <3>2, <3>3 DEF Teaches, learned
    <3> QED
      BY <1>1, <1>2, <3>1, <3>4 DEF learned
  <2>2. CASE MarkLabels(p)
    <3>1. /\ tuples' = tuples /\ pass[p].label <= state.label
          /\ labels'.delivered \in {pass[p].label, labels.delivered}
      BY <1>1, <2>2 DEF MarkLabels, PassInv, Types
    <3> QED
      BY <1>1, <1>2, <3>1 DEF Teaches, Delivered, learned
  <2> QED
    BY <2>1, <2>2
<1>9. QED
  BY <1>4, <1>7, <1>8 DEF DeliveryInv

\* A call that teaches leaves what was in the state, and adds what it was sent.
LEMMA ApplyOutcome ==
    ASSUME Known, InTime, NEW c \in Calls, Apply(c), call'[c].phase = "save"
    PROVE  /\ Teaches(Outcome(c)', Delivered) /\ labels.delivered <= Outcome(c)'.label
           /\ call[c].by # Nobody => Teaches(Outcome(c)', pass[call[c].by].sent)
<1> DEFINE fresh == FreshOf(c)
           taught == Taught(state, fresh)
<1>1. Types /\ call[c].phase = "keys" /\ call[c].kind = "feedback" /\ call[c].state = state
  BY DEF Apply, Known, Inv, SoloInv, DeliveryInv, CallInv, InTime
<1>2. /\ call'[c].state = taught /\ call'[c].keys = {t.key : t \in fresh}
      /\ call'[c].kind = "feedback" /\ state' = state
      /\ \A t \in call[c].sent : t.reward # "better"
  BY <1>1 DEF Apply, Types, CallRecords, learned
<1>3. fresh \in SUBSET Wire /\ fresh \subseteq call[c].sent
  BY <1>1 DEF FreshOf, Types, CallRecords
<1>4. Outcome(c)' \in {state, taught} /\ (fresh # {} => Outcome(c)' = taught)
  BY <1>2 DEF Outcome
<1>5. /\ Teaches(state, Delivered) /\ labels.delivered <= state.label
      /\ AllOf(state, applied) /\ OnlyFrom(state, applied) /\ Better(state)
      /\ state \in States
  BY <1>1 DEF Known, DeliveryInv, Inv, SoloInv, EvidenceInv, BetterInv, InTime, Types
<1>6. \A k \in Keys : \A r \in Rewards : state.count[k][r] \in Nat
  BY <1>5 DEF States
<1>7. \A k \in Keys : (\A t \in fresh : t.key # k) =>
          \A r \in Rewards : taught.count[k][r] = state.count[k][r]
  <2> SUFFICES ASSUME NEW k \in Keys, \A t \in fresh : t.key # k, NEW r \in Rewards
               PROVE  taught.count[k][r] = state.count[k][r]
    OBVIOUS
  <2>1. OfKind(fresh, k, r) = {}
    BY DEF OfKind
  <2>2. taught.count[k][r] = state.count[k][r] + Cardinality({})
    BY <1>3, <1>5, <2>1, TaughtCounts
  <2> QED
    BY <1>6, <2>2, FS_EmptySet
<1>8. taught.label = state.label
  BY <1>5 DEF Taught, States
<1>9. \A k \in Keys : tuples[k].reward # "none" => tuples[k].reward \in Rewards
  BY <1>1 DEF Types, Tuples
<1>10. \A k \in Delivered : ~tuples[k].excluded => k \in applied
  <2> SUFFICES ASSUME NEW k \in Delivered, ~tuples[k].excluded PROVE k \in applied
    OBVIOUS
  <2>1. k \in Keys /\ state.count[k][tuples[k].reward] = 1 /\ tuples[k].reward \in Rewards
    BY <1>5, <1>9 DEF Teaches, Delivered
  <2>2. state.count[k]["first"] \in Nat /\ state.count[k]["better"] \in Nat
    BY <1>6, <2>1 DEF Rewards
  <2>3. Times(state, k) > 0
    BY <2>1, <2>2 DEF Times, Rewards
  <2> QED
    BY <1>5, <2>1, <2>3 DEF OnlyFrom
<1>11. \A k \in applied : \A t \in fresh : t.key # k
  BY DEF FreshOf
<1> HIDE DEF fresh, taught
<1>12. Teaches(taught, Delivered)
  BY <1>5, <1>7, <1>9, <1>10, <1>11 DEF Teaches, Delivered
<1>13. Teaches(Outcome(c)', Delivered) /\ labels.delivered <= Outcome(c)'.label
  BY <1>4, <1>5, <1>8, <1>12
<1>14. ASSUME call[c].by # Nobody PROVE Teaches(Outcome(c)', pass[call[c].by].sent)
  <2> DEFINE sent == pass[call[c].by].sent
  <2>1. /\ call[c].sent = {OnWire(k) : k \in sent} /\ sent \subseteq Keys
        /\ \A k \in sent : tuples[k].reward # "none"
    BY <1>1, <1>14, CallerWaits DEF Known, DeliveryInv, CallInv, Asked, Types, PassRecords
  <2>2. ASSUME NEW k \in sent PROVE tuples[k].reward = "first"
    <3>1. OnWire(k) \in call[c].sent /\ OnWire(k).reward = tuples[k].reward
      BY <2>1 DEF OnWire
    <3>2. tuples[k].reward \in Rewards /\ tuples[k].reward # "better"
      BY <1>2, <1>9, <2>1, <3>1
    <3> QED
      BY <3>2 DEF Rewards
  <2>3. ASSUME NEW k \in sent, ~tuples[k].excluded, k \in applied
        PROVE  state.count[k]["first"] = 1 /\ taught.count[k]["first"] = 1
    <3>1. Times(state, k) = 1 /\ ~(state.count[k]["better"] > 0)
      BY <1>5, <2>1, <2>2, <2>3 DEF AllOf, Better
    <3>2. state.count[k]["first"] \in Nat /\ state.count[k]["better"] \in Nat
      BY <1>6, <2>1 DEF Rewards
    <3>3. state.count[k]["first"] = 1
      BY <3>1, <3>2 DEF Times
    <3> QED
      BY <1>7, <1>11, <2>1, <2>3, <3>3 DEF Rewards
  <2>4. ASSUME NEW k \in sent, ~tuples[k].excluded, k \notin applied
        PROVE  fresh # {} /\ taught.count[k]["first"] = 1
    <3>1. OnWire(k) \in fresh /\ OnWire(k).key = k /\ OnWire(k).reward = "first"
      BY <2>1, <2>2, <2>4 DEF fresh, FreshOf, OnWire
    <3>2. OfKind(fresh, k, "first") = {OnWire(k)}
      <4>1. \A t \in fresh : t.key = k => t = OnWire(k)
        BY <1>3, <2>1 DEF OnWire
      <4> QED
        BY <3>1, <4>1 DEF OfKind
    <3>3. taught.count[k]["first"] = state.count[k]["first"] + Cardinality({OnWire(k)})
      BY <1>3, <1>5, <2>1, <3>2, TaughtCounts DEF taught, Rewards
    <3>4. Cardinality({OnWire(k)}) = 1
      BY FS_Singleton
    <3>5. ~(Times(state, k) > 0)
      BY <1>5, <2>1, <2>4 DEF OnlyFrom
    <3>6. state.count[k]["first"] \in Nat /\ state.count[k]["better"] \in Nat
      BY <1>6, <2>1 DEF Rewards
    <3>7. state.count[k]["first"] = 0
      BY <3>5, <3>6 DEF Times
    <3> QED
      BY <3>1, <3>3, <3>4, <3>7
  <2>5. Teaches(taught, sent)
    BY <2>1, <2>2, <2>3, <2>4 DEF Teaches
  <2>6. fresh = {} => Teaches(state, sent)
    BY <2>1, <2>2, <2>3, <2>4 DEF Teaches
  <2> QED
    BY <1>4, <2>5, <2>6
<1>15. QED
  BY <1>13, <1>14

\* A rebuild leaves everything that is stored, and every label.
LEMMA RebuildOutcome ==
    ASSUME Known, InTime, NEW c \in Calls, Rebuild(c)
    PROVE  /\ Teaches(Outcome(c)', Delivered) /\ labels.delivered <= Outcome(c)'.label
           /\ call[c].by # Nobody /\ Asked(c) => Granted(c)'
<1>1. /\ Types /\ call'[c].state = Rebuilt /\ call'[c].keys = call[c].keys \cup StoredKeys
      /\ call'[c].kind = call[c].kind /\ UNCHANGED <<ledger, learned, pass>>
      /\ call'[c].by = call[c].by
  BY DEF Rebuild, Known, Types, CallRecords
<1>2. Outcome(c)' = IF call'[c].keys = {} /\ call[c].kind = "feedback" THEN state ELSE Rebuilt
  BY <1>1 DEF Outcome, learned
<1>3. call'[c].keys = {} => StoredKeys = {}
  BY <1>1
<1>4. ASSUME NEW keys \in SUBSET Keys, \A k \in keys : tuples[k].reward # "none"
      PROVE  Teaches(Outcome(c)', keys)
  <2>1. \A k \in keys : ~tuples[k].excluded => k \in StoredKeys
    BY <1>4 DEF StoredKeys
  <2>2. Teaches(Rebuilt, keys)
    BY <1>1, <1>4, <2>1 DEF Teaches, Rebuilt, Types, Tuples
  <2>3. StoredKeys = {} => Teaches(state, keys)
    BY <1>4, <2>1 DEF Teaches
  <2> QED
    BY <1>2, <1>3, <2>2, <2>3
<1>5. Teaches(Outcome(c)', Delivered)
  <2>1. Delivered \in SUBSET Keys /\ \A k \in Delivered : tuples[k].reward # "none"
    BY DEF Delivered, Known, DeliveryInv, Teaches
  <2> QED
    BY <1>4, <2>1
<1>6. Rebuilt.label = labels.last /\ labels.delivered <= labels.last /\ labels.delivered <= state.label
  BY DEF Rebuilt, Known, LabelInv, DeliveryInv
<1>7. ASSUME call[c].by # Nobody, Asked(c) PROVE Granted(c)'
  <2>1. call[c].by \in Passes
    BY <1>7, CallerWaits
  <2>2. CASE call[c].kind = "feedback"
    <3>1. /\ pass[call[c].by].sent \in SUBSET Keys
          /\ \A k \in pass[call[c].by].sent : tuples[k].reward # "none"
      BY <1>1, <1>7, <2>1, <2>2 DEF Asked, Types, PassRecords
    <3>2. Teaches(Outcome(c)', pass[call[c].by].sent)
      BY <1>4, <3>1
    <3> QED
      BY <1>1, <2>2, <3>2 DEF Granted, Teaches, ledger
  <2>3. CASE call[c].kind # "feedback"
    <3>1. Outcome(c)' = Rebuilt /\ pass[call[c].by].label <= labels.last
      BY <1>2, <2>1, <2>3 DEF Known, LabelInv
    <3> QED
      BY <1>1, <1>6, <2>3, <3>1 DEF Granted
  <2> QED
    BY <2>2, <2>3
<1>8. QED
  BY <1>2, <1>5, <1>6, <1>7

\* The steps of the one call at work.
LEMMA WorkDelivery ==
    ASSUME Known, InTime, NEW c \in Calls, LoadState(c) \/ Apply(c) \/ Rebuild(c)
    PROVE  DeliveryInv'
<1>1. /\ UNCHANGED <<ledger, learned, lease, pass, failures>> /\ Types
      /\ \A d \in Calls \ {c} : call'[d] = call[d]
      /\ call[c].phase \in {"load", "keys", "rebuild"}
  BY DEF LoadState, Apply, Rebuild, Known, Types
<1>2. /\ call'[c].kind = call[c].kind /\ call'[c].by = call[c].by /\ call'[c].sent = call[c].sent
      /\ call'[c].phase \in {"keys", "rebuild", "save"}
      /\ call'[c].phase = "keys" =>
            LoadState(c) /\ call[c].phase = "load" /\ call[c].kind # "labels"
      /\ call'[c].phase = "save" => Apply(c) \/ Rebuild(c)
  <2>1. CASE LoadState(c)
    BY <1>1, <2>1 DEF LoadState, Types, CallRecords
  <2>2. CASE Apply(c)
    BY <1>1, <2>2 DEF Apply, Types, CallRecords
  <2>3. CASE Rebuild(c)
    BY <1>1, <2>3 DEF Rebuild, Types, CallRecords
  <2> QED
    BY <2>1, <2>2, <2>3
<1>3. /\ Teaches(state, Delivered) /\ labels.delivered <= state.label
      /\ CallInv(c) /\ \A q \in Passes : PassInv(q)
  BY DEF Known, DeliveryInv
<1>4. \A d \in Calls \ {c} : call[d].phase = "idle" /\ call[d].by = Nobody
  BY <1>1 DEF Known, Inv, SoloInv, CallerInv, InTime, Running
<1>5. (Teaches(state, Delivered) /\ labels.delivered <= state.label)'
  BY <1>1, <1>3 DEF ledger, learned, Teaches, Delivered
<1>6. \A d \in Calls \ {c} : CallInv(d)'
  BY <1>1, <1>4 DEF CallInv
<1>7. call'[c].phase = "keys" => call[c].kind = "feedback"
  BY <1>1, <1>2, <1>3 DEF CallInv, Types, CallRecords
<1>8. call[c].by # Nobody => Asked(c)'
  BY <1>1, <1>2, <1>3 DEF CallInv, Asked, OnWire, ledger
<1>9. ASSUME call'[c].phase = "save"
      PROVE  /\ Teaches(Outcome(c)', Delivered) /\ labels.delivered <= Outcome(c)'.label
             /\ call[c].by # Nobody => Granted(c)'
  <2>1. CASE Rebuild(c)
    BY <1>3, <2>1, RebuildOutcome DEF CallInv
  <2>2. CASE Apply(c)
    <3>1. call[c].kind = "feedback"
      BY <1>3, <2>2 DEF Apply, CallInv
    <3>2. /\ Teaches(Outcome(c)', Delivered) /\ labels.delivered <= Outcome(c)'.label
          /\ call[c].by # Nobody => Teaches(Outcome(c)', pass[call[c].by].sent)
      BY <1>9, <2>2, ApplyOutcome
    <3> QED
      BY <1>1, <1>2, <3>1, <3>2 DEF Granted, Teaches, ledger
  <2> QED
    BY <1>2, <1>9, <2>1, <2>2
<1>10. call'[c].phase = "save" =>
           (Teaches(Outcome(c), Delivered) /\ labels.delivered <= Outcome(c).label)'
  BY <1>1, <1>9 DEF Teaches, Delivered, ledger
<1>11. CallInv(c)'
  BY <1>2, <1>7, <1>8, <1>9, <1>10 DEF CallInv
<1>12. \A q \in Passes : PassInv(q)'
  BY <1>1, <1>3 DEF PassInv, Running
<1>13. QED
  BY <1>5, <1>6, <1>11, <1>12 DEF DeliveryInv

\* The one call ends, and its caller hears of it.
LEMMA EndDelivery ==
    ASSUME Known, InTime, NEW c \in Calls, Save(c) \/ ServiceError(c)
    PROVE  DeliveryInv'
<1>1. /\ UNCHANGED ledger /\ Types
      /\ call'[c] = NoCall /\ \A d \in Calls \ {c} : call'[d] = call[d]
      /\ call[c].phase # "idle"
  BY DEF Save, Return, ServiceError, Known, Types
<1>2. /\ Teaches(state, Delivered) /\ labels.delivered <= state.label
      /\ CallInv(c) /\ \A q \in Passes : PassInv(q) /\ q # Nobody
  BY ConstantsAssumption DEF Known, DeliveryInv, Passes
<1>3. \A d \in Calls : call'[d].phase = "idle" /\ call'[d].by = Nobody
  <2>1. NoCall.phase = "idle" /\ NoCall.by = Nobody
    BY DEF NoCall
  <2> QED
    BY <1>1, <2>1 DEF Known, Inv, SoloInv, CallerInv, InTime, Running
<1>4. \A d \in Calls : CallInv(d)'
  BY <1>3 DEF CallInv
<1>5. state' = state \/ (Save(c) /\ state' = Outcome(c))
  BY DEF Save, ServiceError, Outcome, learned
<1>6. Save(c) => call[c].phase = "save" /\ state' = Outcome(c)
  BY DEF Save, Outcome, learned
<1>7. Teaches(state', Delivered) /\ labels.delivered <= state'.label
  BY <1>2, <1>5, <1>6 DEF CallInv
<1>8. (Teaches(state, Delivered) /\ labels.delivered <= state.label)'
  BY <1>1, <1>7 DEF Teaches, Delivered, ledger
<1>9. CASE call[c].by = Nobody
  <2>1. UNCHANGED <<pass, lease>>
    BY <1>9 DEF Save, Return, ServiceError
  <2>2. \A q \in Passes : pass[q].phase \notin {"mark", "markLabels"}
    BY <1>1, <1>2 DEF PassInv, Running
  <2>3. \A q \in Passes : PassInv(q)'
    BY <1>2, <2>1, <2>2 DEF PassInv
  <2> QED
    BY <1>4, <1>8, <2>3 DEF DeliveryInv
<1>10. CASE call[c].by # Nobody
  <2>0. PICK p \in Passes : call[c].by = p
    BY <1>10, CallerWaits
  <2>1. pass[p].phase \in Waiting
    BY <1>10, <2>0, CallerWaits
  <2>2. \A q \in Passes \ {p} : pass[q].phase = "idle" /\ lease = p
    BY <2>1, OnePass DEF Known, Waiting
  <2>3. GoOn(p) \/ (Save(c) /\ Answered(p) /\ lease' = lease)
    BY <1>10, <2>0 DEF Save, Return, ServiceError
  <2>4. /\ \A q \in Passes \ {p} : pass'[q] = pass[q]
        /\ \/ pass'[p].phase = "labels" /\ lease' = lease
           \/ pass'[p].phase = "idle" /\ lease' = Released(p)
           \/ /\ Save(c) /\ lease' = lease /\ pass'[p].sent = pass[p].sent
              /\ pass'[p].label = pass[p].label
              /\ pass'[p].phase = IF pass[p].phase = "wait" THEN "mark" ELSE "markLabels"
    BY <1>1, <2>1, <2>3 DEF GoOn, Answered, End, NoPass, Phase, Types, PassRecords
  <2>5. \A q \in Passes \ {p} : PassInv(q)'
    <3> SUFFICES ASSUME NEW q \in Passes \ {p} PROVE PassInv(q)'
      OBVIOUS
    <3>1. pass'[q].phase = "idle" /\ lease' # q
      BY <1>2, <2>1, <2>2, <2>4 DEF Released
    <3> QED
      BY <3>1 DEF PassInv
  <2>6. PassInv(p)'
    <3>1. pass[p].phase # "idle" /\ lease = p /\ p # Nobody
      BY <1>2, <2>1 DEF PassInv, Waiting
    <3>2. CASE \/ pass'[p].phase = "labels" /\ lease' = lease
               \/ pass'[p].phase = "idle" /\ lease' = Released(p)
      BY <3>1, <3>2 DEF PassInv, Released
    <3>3. CASE /\ Save(c) /\ lease' = lease /\ pass'[p].sent = pass[p].sent
               /\ pass'[p].label = pass[p].label
               /\ pass'[p].phase = IF pass[p].phase = "wait" THEN "mark" ELSE "markLabels"
      <4>1. Granted(c) /\ Asked(c)
        BY <1>2, <1>6, <1>10, <3>3 DEF CallInv
      <4>2. pass[p].phase = "wait" => Teaches(state', pass[p].sent)
        BY <1>6, <2>0, <3>3, <4>1 DEF Granted, Asked
      <4>3. pass[p].phase = "waitLabels" => pass[p].label <= state'.label
        BY <1>6, <2>0, <3>3, <4>1 DEF Granted, Asked
      <4>4. pass'[p].phase = "mark" => Teaches(state, pass[p].sent)'
        BY <1>1, <3>3, <4>2 DEF Teaches, ledger
      <4>5. pass'[p].phase \in {"mark", "markLabels"}
        BY <3>3
      <4>6. pass'[p].phase = "markLabels" => pass[p].phase = "waitLabels"
        BY <2>1, <3>3 DEF Waiting
      <4> QED
        BY <1>3, <3>1, <3>3, <4>3, <4>4, <4>5, <4>6 DEF PassInv, Running
    <3> QED
      BY <2>4, <3>2, <3>3
  <2> QED
    BY <1>4, <1>8, <2>5, <2>6 DEF DeliveryInv
<1>11. QED
  BY <1>9, <1>10

LEMMA NextDelivery == Known /\ [Next]_vars => DeliveryInv'
<1> SUFFICES ASSUME Known, [Next]_vars, InTime' PROVE DeliveryInv'
  BY DEF DeliveryInv
<1>1. InTime
  BY StillInTime
<1>2. CASE UNCHANGED vars
  <2>1. /\ UNCHANGED <<ledger, learned, lease, pass, call>>
        /\ \A p \in Passes : pass[p].phase # "idle" <=> lease = p
    BY <1>1, <1>2 DEF vars, Known, DeliveryInv, PassInv
  <2> QED
    BY <1>1, <2>1, DeliveryKept
<1>3. ~Overrun
  BY DEF InTime, Overrun, Fails
<1>4. QED
  BY <1>1, <1>2, <1>3, StartDelivery, NewLabelDelivery, WriteDelivery, DeliverDelivery,
     MarkDelivery, WorkDelivery, EndDelivery DEF Next, PassStep, CallStep

LEMMA AllKnown == Spec => []Known
<1>1. Init => BetterInv /\ DeliveryInv
  BY InitDelivery
<1>2. Known /\ [Next]_vars => BetterInv' /\ DeliveryInv'
  BY NextBetter, NextDelivery DEF Known
<1>3. Known <=> (Types /\ LabelInv /\ CallerInv /\ Inv) /\ (BetterInv /\ DeliveryInv)
  BY DEF Known
<1>4. QED
  BY <1>1, <1>2, <1>3, Typed, LabelsBounded, CallersWait, Invariance, PTL DEF Spec

\* Unless calls overlap or a pass outlives its lease, what is marked delivered is in the state:
\* with any number of timeouts, errors and crashes, in any order.
THEOREM MarkedIsLearned == Spec => []DeliveredIsLearned
<1>1. Known => DeliveredIsLearned
  BY DEF Known, DeliveryInv, InTime, Teaches, Delivered, DeliveredIsLearned
<1>2. QED
  BY <1>1, AllKnown, PTL

\* The id set of the service and the delivered marker of the server tell the truth.
THEOREM LedgersAreTrue == Spec => []LedgersTrue
BY IdSetIsTrue, MarkedIsLearned, PTL DEF LedgersTrue
=============================================================================
