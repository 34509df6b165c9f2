------------------------------- MODULE OpLog -------------------------------
(***************************************************************************)
(* What the outbox promises (NFR-R1): a queued op is taken by the server   *)
(* at most once, writes at most when it is taken, and is settled on the    *)
(* device only after that.  A device may give an op up instead, because it *)
(* was folded into another one or dead-lettered.  Nothing leaves the       *)
(* record again.                                                           *)
(***************************************************************************)
EXTENDS Naturals

CONSTANT Ids

VARIABLES
    queued,   \* ops ever queued
    taken,    \* ops the server has on record
    written,  \* <<op, seq>> pairs: the write an op caused
    settled,  \* ops the device knows the server has
    dropped   \* ops the device has given up

vars == <<queued, taken, written, settled, dropped>>

Init ==
    /\ queued = {} /\ taken = {} /\ written = {} /\ settled = {} /\ dropped = {}

Enqueue ==
    /\ \E o \in Ids \ queued : queued' = queued \cup {o}
    /\ UNCHANGED <<taken, written, settled, dropped>>

\* One batch: each op newly taken may have written once.
Take ==
    /\ taken \subseteq taken'
    /\ taken' \subseteq queued
    /\ written \subseteq written'
    /\ \A w \in written' \ written : w[1] \in taken' \ taken
    /\ \A v, w \in written' \ written : v[1] = w[1] => v = w
    /\ UNCHANGED <<queued, settled, dropped>>

Settle ==
    /\ settled \subseteq settled'
    /\ settled' \subseteq taken
    /\ dropped \subseteq dropped'
    /\ dropped' \subseteq queued \ settled'
    /\ UNCHANGED <<queued, taken, written>>

Next == Enqueue \/ Take \/ Settle

Spec == Init /\ [][Next]_vars
=============================================================================
