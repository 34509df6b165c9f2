------------------------------- MODULE Dialogs -------------------------------
(***************************************************************************)
(* The confirmation dialogs and the two-step erasure of the settings: one  *)
(* slot for the request that is open, the hosts that may render it (the    *)
(* last mounted does), and the screen, which lags behind by an exit        *)
(* animation.  Timers count down in ticks of two hundred milliseconds.     *)
(*                                                                         *)
(* st = [hosts, current, seq, kind, answer, seen, shown, arm, exit, flow,  *)
(* since, motion]: mounted hosts in order; the open request and how many   *)
(* there were, what each asks and was answered; per host, the request its  *)
(* effect last ran for, the one it renders, the ticks until it is armed,   *)
(* the exit under way; the erasure, and the ticks since its first step was *)
(* confirmed; whether motion is on.                                        *)
(***************************************************************************)
EXTENDS Integers, Sequences, SequencesExt

CONSTANTS MaxHosts, MaxRequests

ArmDelay == 2
ExitGrace == 1

Hosts == 1 .. MaxHosts
NoRequest == 0
NoExit == [id |-> NoRequest, left |-> 0]

NoDialogs(motion) ==
  [hosts |-> <<1>>, current |-> NoRequest, seq |-> 0, kind |-> <<>>, answer |-> <<>>,
   seen |-> [h \in Hosts |-> NoRequest], shown |-> [h \in Hosts |-> NoRequest],
   arm |-> [h \in Hosts |-> 0], exit |-> [h \in Hosts |-> NoExit],
   flow |-> "idle", since |-> 0, motion |-> motion]

Mounted(st) == ToSet(st.hosts)
ActiveHost(st) == IF st.hosts = <<>> THEN 0 ELSE Last(st.hosts)

-----------------------------------------------------------------------------
(* The store *)

RegisterHost(st, h) == [st EXCEPT !.hosts = Append(SelectSeq(@, LAMBDA g : g # h), h)]

\* Unmounting drops the host's timer with it.
UnregisterHost(st, h) ==
  [st EXCEPT !.hosts = SelectSeq(@, LAMBDA g : g # h), !.seen[h] = NoRequest, !.shown[h] = NoRequest,
             !.arm[h] = 0, !.exit[h] = NoExit]

\* One slot: the request that finds one open is answered as a cancel, and nothing changes.
RequestDialog(st, kind) ==
  IF st.current # NoRequest THEN st
  ELSE [st EXCEPT !.seq = @ + 1, !.current = st.seq + 1, !.kind = Append(@, kind), !.answer = Append(@, "none")]

\* Mutant: the answer counts for whatever request is open.
ResolveAny(st, id, result) ==
  IF st.current = NoRequest THEN st
  ELSE [st EXCEPT !.current = NoRequest, !.answer[st.current] = result]

\* Only the open request can be answered.
ResolveDialog(st, id, result) ==
  IF st.current # id THEN st
  ELSE [st EXCEPT !.current = NoRequest, !.answer[id] = result]

-----------------------------------------------------------------------------
(* A host *)

\* What the host's effect depends on.
Given(st, h) == IF ActiveHost(st) = h THEN st.current ELSE NoRequest

EffectDue(st, h) == h \in Mounted(st) /\ Given(st, h) # st.seen[h]

\* A new animation stops the one that has not ended; under reduced motion, and once the animation
\* has ended, the old exit's callback is still to come.
Interrupted(st, h) == IF st.motion /\ st.exit[h].left > 0 THEN NoExit ELSE st.exit[h]

\* Show, or start to hide what is shown.
Effect(st, h) ==
  LET now == [st EXCEPT !.seen[h] = Given(st, h)] IN
  CASE Given(st, h) # NoRequest ->
         [now EXCEPT !.shown[h] = Given(st, h), !.arm[h] = ArmDelay, !.exit[h] = Interrupted(st, h)]
    [] Given(st, h) = NoRequest /\ st.shown[h] # NoRequest ->
         [now EXCEPT !.exit[h] = [id |-> st.shown[h], left |-> ExitGrace]]
    [] OTHER -> now

\* Mutant: the exit clears whatever is shown by then.
ExitDoneBlind(st, h) == [st EXCEPT !.exit[h] = NoExit, !.shown[h] = NoRequest]

\* A stale exit must not clear a newer request.
ExitDone(st, h) ==
  [st EXCEPT !.exit[h] = NoExit,
             !.shown[h] = IF @ = st.exit[h].id THEN NoRequest ELSE @]

\* Mutant: a destructive confirm is armed from the start.
PressConfirmUnarmed(st, h) == ResolveDialog(st, st.shown[h], "confirmed")

PressConfirm(st, h) ==
  IF st.kind[st.shown[h]] = "destructive" /\ st.arm[h] > 0 THEN st
  ELSE ResolveDialog(st, st.shown[h], "confirmed")

\* The cancel button, the scrim, Android's back, and the surface going away.
PressCancel(st, h) == ResolveDialog(st, st.shown[h], "cancelled")

-----------------------------------------------------------------------------
(* The erasure: a neutral gate, then the destructive confirmation *)

Asks(st, kind, flow) ==
  LET next == RequestDialog(st, kind) IN
  IF next = st THEN [st EXCEPT !.flow = "idle"] ELSE [next EXCEPT !.flow = flow]

\* A second tap on the button finds the first one's dialog open.
TapDelete(st) == IF st.flow = "idle" THEN Asks(st, "neutral", "first") ELSE st

Answered(st, kind) == LET mine == {i \in DOMAIN st.kind : st.kind[i] = kind} IN
  IF mine = {} THEN "none" ELSE st.answer[CHOOSE i \in mine : \A j \in mine : j <= i]

\* The await returns.
GoOn(st) ==
  CASE st.flow = "first" /\ Answered(st, "neutral") = "confirmed"     -> [Asks(st, "destructive", "second") EXCEPT !.since = 0]
    [] st.flow = "second" /\ Answered(st, "destructive") = "confirmed" -> [st EXCEPT !.flow = "erasing"]
    [] st.flow \in {"first", "second"} /\
       "cancelled" = Answered(st, IF st.flow = "first" THEN "neutral" ELSE "destructive") -> [st EXCEPT !.flow = "idle"]
    [] OTHER -> st

Ticks(st) ==
  [st EXCEPT !.arm = [h \in Hosts |-> IF @[h] > 0 THEN @[h] - 1 ELSE 0],
             !.exit = [h \in Hosts |-> IF @[h].left > 0 THEN [@[h] EXCEPT !.left = @ - 1] ELSE @[h]],
             !.since = IF @ < ArmDelay THEN @ + 1 ELSE @]

Exiting(st) == {h \in Hosts : st.exit[h] # NoExit}
Visible(st) == {h \in Mounted(st) : st.shown[h] # NoRequest}

\* A screen with a host of its own comes and goes; settled: not during an exit.
Hosting(st, settled) ==
  IF settled /\ Exiting(st) # {} THEN {}
  ELSE {RegisterHost(st, h) : h \in {g \in Hosts : g = Len(st.hosts) + 1}}
       \cup (IF Len(st.hosts) < 2 THEN {}
             ELSE LET h == ActiveHost(st) IN
                  {UnregisterHost(st, h), UnregisterHost(PressCancel(st, h), h)})

ByUserOrTime(st, settled) ==
  {Ticks(st)}
  \cup Hosting(st, settled)
  \cup {ExitDone(st, h) : h \in {g \in Exiting(st) : st.exit[g].left = 0}}
  \cup {PressConfirm(st, h) : h \in Visible(st)} \cup {PressCancel(st, h) : h \in Visible(st)}
  \cup (IF Visible(st) = {} /\ st.seq < MaxRequests THEN {TapDelete(st), RequestDialog(st, "other")} ELSE {})

\* An await that can return does so before anything else but a render.
Successors(st, settled) ==
  {Effect(st, h) : h \in {g \in Hosts : EffectDue(st, g)}}
  \cup (IF GoOn(st) # st THEN {GoOn(st)} ELSE ByUserOrTime(st, settled))

-----------------------------------------------------------------------------

\* Once every effect and exit has run, the active host shows the open request and no other host any.
ShowsTheRequest(st) ==
  Exiting(st) = {} /\ (\A h \in Hosts : ~EffectDue(st, h)) =>
    \A h \in Mounted(st) : st.shown[h] = Given(st, h)

\* The erasure runs only on two confirmations, the second asked for after the first and pressed no
\* sooner than a tap that was meant for the first could be.
TwoConfirmations(st) ==
  st.flow = "erasing" =>
    /\ \E i \in DOMAIN st.kind :
         st.kind[i] = "neutral" /\ i < Len(st.kind) /\ st.kind[i + 1] = "destructive"
         /\ st.answer[i] = "confirmed" /\ st.answer[i + 1] = "confirmed"
    /\ st.since >= ArmDelay
=============================================================================
