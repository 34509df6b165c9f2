------------------------------ MODULE Calendar ------------------------------
(***************************************************************************)
(* One user's Google Calendar: the consent, the push and the sweep that    *)
(* import busy events and displace blocks, the write-back of blocks, and   *)
(* the switch and the disconnect.  A job is one call of an edge function;  *)
(* between two of its awaits another may run.  Google's events carry the   *)
(* number of their last change, and a sync token is such a number.         *)
(***************************************************************************)
EXTENDS Integers, FiniteSets, FiniteSetsExt

CONSTANTS
  Events, Recs, Slots,
  Meetings,     \* the slots an event may take
  Planned,      \* the slots a plan may use
  None,
  Racing,       \* a user's call may overlap a job, a plan may rest on an older calendar
  Impatient,    \* a job may run without the lease it waited three seconds for
  FailingJobs,  \* the jobs that may fail or be killed
  MaxJobs,      \* calls in flight together
  MaxTrouble    \* changes of Google's, expiries, failures and moves together

ASSUME CalendarAssumption ==
  /\ None \notin Slots \cup Nat \cup {"push", "sweep", "confirm", "dead"}
  /\ Meetings \cup Planned \subseteq Slots /\ Racing \in BOOLEAN /\ Impatient \in BOOLEAN
  /\ {MaxJobs, MaxTrouble} \subseteq Nat

VARIABLES
  event,     \* Google: event -> [slot, seq], slot None when not busy
  seq,       \* Google: the number of the last change
  oldest,    \* Google: sync tokens below it are gone (410)
  granted,   \* Google: the tokens work
  copies,    \* Google: the Hourwell events written back, [id, rec, slot]
  row,       \* gcal_sync_state
  mirror,    \* calendar_events: event -> [slot, seq]
  rec,       \* recommendations: rec -> [status, slot, gid, synced, chosen], and time: its slot is
             \* "ahead", "ended", or "out", its day over too
  lease,     \* the job holding the user's lease, "dead" if it was killed
  job,       \* the calls in flight
  lost,      \* failures and kills so far, those that a call passed over among them
  wiped      \* a 410 has emptied the mirror, and no full listing has been saved since

vars == <<event, seq, oldest, granted, copies, row, mirror, rec, lease, job, lost, wiped>>
google == <<event, seq, oldest, granted>>

Syncs == {"push", "sweep", "confirm"}
Jobs == Syncs \cup {"switch", "disconnect"}
Open == {"shown", "moved"}      \* accepted and pinned are as shown to a calendar

NoRow == [stored |-> FALSE, nonce |-> None, refresh |-> FALSE, pending |-> FALSE, confirmed |-> FALSE,
          scope |-> "read", writeBack |-> FALSE, token |-> None, channel |-> FALSE]

\* An event that is cancelled, or that does not make its user busy, takes no slot.
Gone == [slot |-> None, seq |-> 0]
Idle == [pc |-> "off"]

Trouble == seq + lost + Cardinality({r \in Recs : rec[r].chosen}) < MaxTrouble

\* isConnected: a token, and the device that asked for it confirmed.
Connected == row.refresh /\ row.confirmed

\* saveState is an upsert: it creates the row when there is none.
Saved(r) == [r EXCEPT !.stored = TRUE]

\* loadState: what a job works with, whatever happens to the row afterwards.
Loaded(p, at, due) == [pc |-> at, token |-> row.token, writeBack |-> row.writeBack /\ row.scope = "write",
                  sync |-> due, delta |-> {}, upTo |-> 0, ids |-> {}, todo |-> {},
                  made |-> None, refresh |-> p = "disconnect" /\ row.refresh]

Goto(p, at) == job' = [job EXCEPT ![p].pc = at]
At(p, at) == job[p].pc = at
Quiet == \A p \in Jobs : job[p].pc = "off"
Few == Cardinality({p \in Jobs : job[p].pc # "off"}) < MaxJobs
MayStart == IF Racing THEN Few ELSE Quiet
\* The sync is over: of what the job loaded only the switch is still read.
Done(p, at) ==
  job' = [job EXCEPT ![p].delta = {}, ![p].upTo = 0, ![p].token = None, ![p].sync = FALSE, ![p].pc = at]

MaySync == Few /\ (Racing \/ (At("switch", "off") /\ At("disconnect", "off")))

-----------------------------------------------------------------------------
(* Google, and the planner and the device that place and move blocks *)

\* A user's event is added busy; then it is moved, freed or cancelled.
EditEvent(e, slot) ==
  /\ Trouble /\ (event[e].slot # None \/ slot # None)
  /\ seq' = seq + 1
  /\ event' = [event EXCEPT ![e] = [slot |-> slot, seq |-> seq + 1]]
  /\ UNCHANGED <<oldest, granted, copies, row, mirror, rec, lease, job, lost, wiped>>

\* Google forgets the tokens up to now: the next incremental list answers 410.
ExpireTokens ==
  /\ row.token # None /\ oldest <= row.token /\ Trouble
  /\ oldest' = seq + 1 /\ seq' = seq + 1
  /\ UNCHANGED <<event, granted, copies, row, mirror, rec, lease, job, lost, wiped>>

BusyAt(slot) == \E e \in Events : mirror[e].slot = slot

Place(r, slot) ==
  /\ rec[r].status = "none" /\ lease = None
  /\ Racing \/ ~BusyAt(slot)
  /\ rec' = [rec EXCEPT ![r].status = "shown", ![r].slot = slot]
  /\ UNCHANGED <<google, copies, row, mirror, lease, job, lost, wiped>>

\* A block's slot passes, and then its day; the server may settle it late.
SlotEnds(r) ==
  /\ rec[r].status # "none" /\ rec[r].time = "ahead"
  /\ rec' = [rec EXCEPT ![r].time = "ended"]
  /\ UNCHANGED <<google, copies, row, mirror, lease, job, lost, wiped>>

DayEnds(r) ==
  /\ rec[r].time = "ended"
  /\ rec' = [rec EXCEPT ![r].time = "out"]
  /\ UNCHANGED <<google, copies, row, mirror, lease, job, lost, wiped>>

\* The user puts a block where they like, once, from a slot that ended to a later one, or closes it.
MoveBlock(r, slot) ==
  /\ rec[r].status \in Open /\ ~rec[r].chosen /\ Trouble
  /\ rec[r].time = "ahead" \/ (rec[r].time = "ended" /\ slot # rec[r].slot)
  /\ rec' = [rec EXCEPT ![r].status = "moved", ![r].slot = slot, ![r].chosen = TRUE, ![r].time = "ahead"]
  /\ UNCHANGED <<google, copies, row, mirror, lease, job, lost, wiped>>

CloseBlock(r) ==
  /\ rec[r].status \in Open
  /\ rec' = [rec EXCEPT ![r].status = "closed"]
  /\ UNCHANGED <<google, copies, row, mirror, lease, job, lost, wiped>>

-----------------------------------------------------------------------------
(* The consent: start, Google's redirect, confirm *)

\* The settings screen offers the read scope to connect, the write scope to a reading connection.
Offered(scope) == IF Connected THEN scope = "write" /\ row.scope = "read" ELSE scope = "read"

\* A nonce of ten minutes, of which a row keeps the last.
WithNonce(scope) == Saved([row EXCEPT !.nonce = scope])

StartConsent(scope) ==
  /\ MayStart /\ Offered(scope)
  /\ row' = WithNonce(scope)
  /\ UNCHANGED <<google, copies, mirror, rec, lease, job, lost, wiped>>

\* scopeKeyOf: write once granted stays granted.
GrantedScope(scope, asked) == IF "write" \in {scope, asked} THEN "write" ELSE "read"

\* exchangeCode: the tokens, unconfirmed.
Exchanged(spent) == [spent EXCEPT !.refresh = TRUE, !.pending = TRUE,
                                  !.scope = GrantedScope(@, row.nonce),
                                  !.writeBack = @ \/ row.nonce = "write"]

\* gcal-callback: the nonce is spent whatever comes next; the tokens are stored unconfirmed.
Callback ==
  /\ row.nonce # None /\ MayStart
  /\ LET spent == [row EXCEPT !.nonce = None] IN
     \/ /\ row' = spent          \* denied, expired, or the exchange failed
        /\ UNCHANGED granted
     \/ row' = Exchanged(spent) /\ granted' = TRUE
  /\ UNCHANGED <<event, seq, oldest, copies, mirror, rec, lease, job, lost, wiped>>

\* gcal-connect confirm: activates the stored consent and starts the initial sync.
Confirm ==
  /\ row.pending /\ row.refresh /\ At("confirm", "off") /\ MayStart
  /\ row' = [row EXCEPT !.pending = FALSE, !.confirmed = TRUE]
  /\ job' = [job EXCEPT !["confirm"] = Loaded("confirm", "lease", TRUE)]
  /\ UNCHANGED <<google, copies, mirror, rec, lease, lost, wiped>>

\* A consent confirmed too late or by another account is purged.
Purge ==
  /\ row.pending /\ MayStart
  /\ row' = [row EXCEPT !.refresh = FALSE, !.pending = FALSE, !.confirmed = FALSE]
  /\ UNCHANGED <<google, copies, mirror, rec, lease, job, lost, wiped>>

-----------------------------------------------------------------------------
(* The push and the sweep, and the sync both run under the lease *)

\* A notification of a channel the row still names; it asks for no confirmation.
PushStart ==
  /\ row.channel /\ row.refresh /\ At("push", "off") /\ MaySync
  /\ seq > 0
  /\ job' = [job EXCEPT !["push"] = Loaded("push", "lease", TRUE)]
  /\ UNCHANGED <<google, copies, row, mirror, rec, lease, lost, wiped>>

\* pg_cron, every five minutes; a user synced less than five minutes ago is not due.
SweepStart(due) ==
  /\ Connected /\ At("sweep", "off") /\ MaySync /\ (due \/ row.token # None)
  /\ job' = [job EXCEPT !["sweep"] = Loaded("sweep", "channel", due)]
  /\ UNCHANGED <<google, copies, row, mirror, rec, lease, lost, wiped>>

\* watchEvents: Google notifies the channel from now on.
Watched == Saved([row EXCEPT !.channel = TRUE])

\* ensureChannel; the sweep opens it first, the confirm after its sync.
EnsureChannel(p) ==
  /\ At(p, "channel") /\ granted
  /\ \/ row.channel /\ UNCHANGED row        \* more than a day is left of it
     \/ row' = Watched
  /\ Goto(p, IF p = "sweep" THEN "lease" ELSE "writeback")
  /\ UNCHANGED <<google, copies, mirror, rec, lease, lost, wiped>>

AcquireAnyway(p) ==
  /\ At(p, "lease")
  /\ lease' = p
  /\ IF job[p].sync THEN Goto(p, "list") ELSE Done(p, "writeback")
  /\ UNCHANGED <<google, copies, row, mirror, rec, lost, wiped>>

Acquire(p) ==
  /\ At(p, "lease")
  /\ \/ lease = None /\ lease' = p
     \/ lease # None /\ Impatient /\ UNCHANGED lease
  /\ IF job[p].sync THEN Goto(p, "list") ELSE Done(p, "writeback")
  /\ UNCHANGED <<google, copies, row, mirror, rec, lost, wiped>>

\* What events.list reports as changed: everything, or what changed after the token.
Since(from) == {e \in Events : event[e].seq > (IF from = None THEN 0 ELSE from)}

\* events.list from the token on, or from scratch; 410 sends the job to the wipe.
List(p) ==
  /\ At(p, "list") /\ granted
  /\ LET from == job[p].token IN
     IF from # None /\ from < oldest
     THEN Goto(p, "wipe")
     ELSE job' = [job EXCEPT ![p].delta = {[event |-> e, at |-> event[e]] : e \in Since(from)},
                             ![p].upTo = seq, ![p].pc = "upsert"]
  /\ UNCHANGED <<google, copies, row, mirror, rec, lease, lost, wiped>>

WipeMirror == mirror' = [e \in Events |-> Gone]

WipeForFull(p) ==
  /\ At(p, "wipe")
  /\ WipeMirror /\ wiped' = TRUE
  /\ job' = [job EXCEPT ![p].token = None, ![p].pc = "list"]
  /\ UNCHANGED <<google, copies, row, rec, lease, lost>>

OverlappedMoved(p) ==
  {r \in Recs : rec[r].status = "moved" /\ rec[r].time = "ahead" /\ \E d \in job[p].delta : d.at.slot = rec[r].slot}

\* Which open blocks the busy events of this list overlap, of those whose slot has not ended.
Overlapped(p) ==
  {r \in Recs : rec[r].status \in Open /\ rec[r].time = "ahead" /\ \E d \in job[p].delta : d.at.slot = rec[r].slot}

\* upsertEvents, and the open blocks as they are then.
Upsert(p) ==
  /\ At(p, "upsert")
  /\ mirror' = [e \in Events |->
        IF \E d \in job[p].delta : d.event = e THEN (CHOOSE d \in job[p].delta : d.event = e).at
        ELSE mirror[e]]
  /\ job' = [job EXCEPT ![p].ids = Overlapped(p), ![p].delta = {}, ![p].pc = "mark"]
  /\ UNCHANGED <<google, copies, row, rec, lease, lost, wiped>>

\* markDisplaced: of those, the ones open still.
MarkDisplaced(p) ==
  /\ At(p, "mark")
  /\ rec' = [r \in Recs |-> IF r \in job[p].ids /\ rec[r].status \in Open
                            THEN [rec[r] EXCEPT !.status = "displaced"] ELSE rec[r]]
  /\ job' = [job EXCEPT ![p].ids = {}, ![p].pc = "save"]
  /\ UNCHANGED <<google, copies, row, mirror, lease, lost, wiped>>

SaveTokenFirst(p) ==
  /\ At(p, "upsert") \/ At(p, "save")
  /\ row' = Saved([row EXCEPT !.token = job[p].upTo])
  /\ wiped' = (wiped /\ job[p].token # None)
  /\ Done(p, IF p = "confirm" THEN "channel" ELSE "writeback")
  /\ UNCHANGED <<google, copies, mirror, rec, lease, lost>>

\* The token is saved last: what a job that dies leaves undone is listed again.
SaveToken(p) ==
  /\ At(p, "save")
  /\ row' = Saved([row EXCEPT !.token = job[p].upTo])
  /\ wiped' = (wiped /\ job[p].token # None)
  /\ Done(p, IF p = "confirm" THEN "channel" ELSE "writeback")
  /\ UNCHANGED <<google, copies, mirror, rec, lease, lost>>

-----------------------------------------------------------------------------
(* The write-back *)

\* What a block asks of its Google event.
Task(r) ==
  LET b == rec[r] IN
  CASE b.status \in Open /\ b.gid = None -> "insert"
    [] b.status \in Open /\ b.gid # None /\ b.synced # b.slot -> "patch"
    [] b.status \notin Open /\ b.gid # None -> "delete"
    [] OTHER -> "none"

WorkFor(rs) == {[rec |-> r, do |-> Task(r), slot |-> rec[r].slot, gid |-> rec[r].gid] : r \in rs}

ContinueHolding(p, todo) ==
  /\ job' = IF p \in Syncs /\ todo = {} THEN [job EXCEPT ![p] = Idle]
            ELSE [job EXCEPT ![p].todo = todo, ![p].made = None, ![p].pc = "call"]
  /\ UNCHANGED lease

\* On to the next call of Google; a sync with none left releases its lease and ends.
Continue(p, todo) ==
  IF p \in Syncs /\ todo = {}
  THEN job' = [job EXCEPT ![p] = Idle] /\ lease' = (IF lease = p THEN None ELSE lease)
  ELSE job' = [job EXCEPT ![p].todo = todo, ![p].made = None, ![p].pc = "call"] /\ UNCHANGED lease

\* writeBackWindow: the blocks of today and tomorrow, whatever their copies are in want of.
InWindow(r) == rec[r].time # "out"

LoadWriteBack(p) ==
  /\ At(p, "writeback")
  /\ Continue(p, IF job[p].writeBack THEN WorkFor({r \in Recs : Task(r) # "none" /\ InWindow(r)}) ELSE {})
  /\ UNCHANGED <<google, copies, row, mirror, rec, lost, wiped>>

\* Google never gives an id twice.
NewId == 1 + Max({0} \cup {c.id : c \in copies} \cup ({rec[r].gid : r \in Recs} \ {None}))

\* insertEvent, patchEvent, deleteEvent; a delete of what is gone succeeds.
Sent(w) ==
  CASE w.do = "insert" -> copies \cup {[id |-> NewId, rec |-> w.rec, slot |-> w.slot]}
    [] w.do = "patch"  -> {IF c.id = w.gid THEN [c EXCEPT !.slot = w.slot] ELSE c : c \in copies}
    [] OTHER           -> {c \in copies : c.id # w.gid}

\* One call of Google; its answer is noted in the next step.
CallGoogle(p) ==
  /\ At(p, "call") /\ granted
  /\ \E w \in job[p].todo :
       /\ copies' = Sent(w)
       /\ job' = [job EXCEPT ![p].pc = "note", ![p].made =
            [rec |-> w.rec, gid |-> CASE w.do = "insert" -> NewId [] w.do = "patch" -> w.gid [] OTHER -> None,
             slot |-> IF w.do = "delete" THEN None ELSE w.slot], ![p].todo = @ \ {w}]
  /\ UNCHANGED <<google, row, mirror, rec, lease, lost, wiped>>

SaveWriteBackId(p) ==
  /\ At(p, "note")
  /\ rec' = [rec EXCEPT ![job[p].made.rec].gid = job[p].made.gid]
  /\ Continue(p, job[p].todo)
  /\ UNCHANGED <<google, copies, row, mirror, lost, wiped>>

SaveWriteBack(p) ==
  /\ At(p, "note")
  /\ LET m == job[p].made IN rec' = [rec EXCEPT ![m.rec].gid = m.gid, ![m.rec].synced = m.slot]
  /\ Continue(p, job[p].todo)
  /\ UNCHANGED <<google, copies, row, mirror, lost, wiped>>

\* An error ends the call: the lease is released and the error saved, which may create the row.
Fail(p) ==
  /\ p \in Syncs /\ ~At(p, "off")
  /\ \/ p \in FailingJobs /\ Trouble /\ lost' = lost + 1
     \/ ~granted /\ job[p].pc \in {"channel", "list", "call"} /\ UNCHANGED lost
  /\ job' = [job EXCEPT ![p] = Idle]
  /\ lease' = IF lease = p THEN None ELSE lease
  /\ row' = Saved(row)
  /\ UNCHANGED <<google, copies, mirror, rec, wiped>>

\* The worker is killed: its lease stays until it expires.
Kill(p) ==
  /\ p \in FailingJobs /\ ~At(p, "off") /\ Trouble
  /\ lost' = lost + 1
  /\ job' = [job EXCEPT ![p] = Idle]
  /\ lease' = IF lease = p THEN "dead" ELSE lease
  /\ UNCHANGED <<google, copies, row, mirror, rec, wiped>>

LeaseExpires ==
  /\ lease = "dead" /\ lease' = None
  /\ UNCHANGED <<google, copies, row, mirror, rec, job, lost, wiped>>

-----------------------------------------------------------------------------
(* The switch and the disconnect: no lease, every copy removed first *)

WriteBackOn ==
  /\ MayStart /\ Connected /\ row.scope = "write" /\ ~row.writeBack
  /\ row' = [row EXCEPT !.writeBack = TRUE]
  /\ UNCHANGED <<google, copies, mirror, rec, lease, job, lost, wiped>>

Mirrored == {[rec |-> r, do |-> "delete", slot |-> rec[r].slot, gid |-> rec[r].gid] :
               r \in {q \in Recs : rec[q].gid # None}}

Clearing(p, todo) == job' = [job EXCEPT ![p] = [Loaded(p, "call", FALSE) EXCEPT !.todo = todo]]

\* set_write_back off and disconnect load what is mirrored, of any day; then delete and note, one by
\* one.  Without an access token nothing is removed, and both go on all the same.
UserStart(p) ==
  /\ p \in {"switch", "disconnect"} /\ At(p, "off") /\ MayStart
  /\ row.stored /\ (p = "switch" => Connected /\ row.writeBack)
  /\ \/ Clearing(p, IF row.refresh THEN Mirrored ELSE {}) /\ UNCHANGED lost
     \/ Clearing(p, {}) /\ IF granted THEN Trouble /\ lost' = lost + 1 ELSE UNCHANGED lost
  /\ UNCHANGED <<google, copies, row, mirror, rec, lease, wiped>>

\* clearWriteBack passes over a delete that fails, as each does once the tokens are revoked: the
\* copy stays, and its id is forgotten next.
DeleteFails(p) ==
  /\ p \notin Syncs /\ At(p, "call") /\ (Trouble \/ ~granted)
  /\ \E w \in job[p].todo :
       job' = [job EXCEPT ![p].pc = "note", ![p].todo = @ \ {w},
                          ![p].made = [rec |-> w.rec, gid |-> None, slot |-> None]]
  /\ lost' = lost + 1
  /\ UNCHANGED <<google, copies, row, mirror, rec, lease, wiped>>

\* A row that cannot be saved ends the clearing; the error is swallowed.
ClearingStops(p) ==
  /\ p \notin Syncs /\ At(p, "note") /\ Trouble
  /\ job' = [job EXCEPT ![p].todo = {}, ![p].made = None, ![p].pc = "call"]
  /\ lost' = lost + 1
  /\ UNCHANGED <<google, copies, row, mirror, rec, lease, wiped>>

SwitchOff ==
  /\ At("switch", "call") /\ job["switch"].todo = {}
  /\ row' = Saved([row EXCEPT !.writeBack = FALSE])
  /\ job' = [job EXCEPT !["switch"] = Idle]
  /\ UNCHANGED <<google, copies, mirror, rec, lease, lost, wiped>>

\* Channel stopped, token revoked; the row goes, then the imported events.
Revoke ==
  /\ At("disconnect", "call") /\ job["disconnect"].todo = {}
  /\ granted' = (granted /\ ~job["disconnect"].refresh)
  /\ Goto("disconnect", "delete")
  /\ UNCHANGED <<event, seq, oldest, copies, row, mirror, rec, lease, lost, wiped>>

DeleteStateOnly ==
  /\ At("disconnect", "delete")
  /\ row' = NoRow
  /\ job' = [job EXCEPT !["disconnect"] = Idle]
  /\ UNCHANGED <<google, copies, mirror, rec, lease, lost, wiped>>

DeleteState ==
  /\ At("disconnect", "delete")
  /\ row' = NoRow
  /\ Goto("disconnect", "wipe")
  /\ UNCHANGED <<google, copies, mirror, rec, lease, lost, wiped>>

WipeEvents ==
  /\ At("disconnect", "wipe")
  /\ WipeMirror
  /\ job' = [job EXCEPT !["disconnect"] = Idle]
  /\ UNCHANGED <<google, copies, row, rec, lease, lost, wiped>>

-----------------------------------------------------------------------------
Init ==
  /\ event = [e \in Events |-> Gone] /\ seq = 0 /\ oldest = 0 /\ granted = FALSE /\ copies = {}
  /\ row = NoRow /\ mirror = [e \in Events |-> Gone]
  /\ rec = [r \in Recs |-> [status |-> "none", slot |-> None, gid |-> None, synced |-> None,
                            chosen |-> FALSE, time |-> "ahead"]]
  /\ lease = None /\ job = [p \in Jobs |-> Idle] /\ lost = 0 /\ wiped = FALSE

SyncStep(p) ==
  \/ EnsureChannel(p) \/ Acquire(p) \/ List(p) \/ WipeForFull(p) \/ Upsert(p)
  \/ MarkDisplaced(p) \/ SaveToken(p) \/ LoadWriteBack(p)

CopyStep(p) == CallGoogle(p) \/ SaveWriteBack(p)

UserStep == SwitchOff \/ Revoke \/ DeleteState \/ WipeEvents

Next ==
  \/ \E e \in Events, slot \in Meetings \cup {None} : EditEvent(e, slot)
  \/ ExpireTokens
  \/ \E r \in Recs : CloseBlock(r) \/ \E slot \in Planned : Place(r, slot)
  \/ \E r \in Recs : SlotEnds(r) \/ DayEnds(r)
  \/ \E r \in Recs, slot \in Slots : MoveBlock(r, slot)
  \/ \E scope \in {"read", "write"} : StartConsent(scope)
  \/ Callback \/ Confirm \/ Purge \/ PushStart \/ LeaseExpires
  \/ \E p \in Syncs : SyncStep(p) \/ Fail(p)
  \/ \E p \in Jobs : CopyStep(p) \/ Kill(p) \/ UserStart(p) \/ DeleteFails(p) \/ ClearingStops(p)
  \/ \E due \in BOOLEAN : SweepStart(due)
  \/ WriteBackOn \/ UserStep

Spec == Init /\ [][Next]_vars

\* The sweep is started by pg_cron, every call goes on, time passes and leases expire.
FairSpec ==
  /\ Spec
  /\ SF_vars(SweepStart(TRUE)) /\ SF_vars(Acquire("sweep")) /\ WF_vars(LeaseExpires)
  /\ \A p \in Syncs : WF_vars(SyncStep(p) \/ CopyStep(p) \/ (~granted /\ Fail(p)))
  /\ WF_vars(UserStep \/ \E p \in Jobs \ Syncs : CopyStep(p) \/ (~granted /\ DeleteFails(p)))

-----------------------------------------------------------------------------
(* Type correctness: the shapes of the server's rows and of the jobs. *)
TypeOK ==
  /\ seq \in Nat /\ granted \in BOOLEAN /\ lease \in Syncs \cup {"dead", None}
  /\ \A e \in Events : event[e].slot \in Slots \cup {None} /\ mirror[e].seq <= event[e].seq
  /\ row.token \in 0 .. seq \cup {None} /\ row.scope \in {"read", "write"}
  /\ \A r \in Recs : /\ rec[r].status \in Open \cup {"none", "closed", "displaced"}
                     /\ (rec[r].gid = None) = (rec[r].synced = None) /\ rec[r].time \in {"ahead", "ended", "out"}
  /\ \A p \in Jobs : ~At(p, "off") => job[p].todo \subseteq WorkFor(Recs) \cup
        [rec : Recs, do : {"insert", "patch", "delete"}, slot : Slots \cup {None}, gid : Nat \cup {None}]

\* A saved sync token vouches for the mirror: every change of Google's up to it is in
\* calendar_events, whatever job died in between, except what a 410 has wiped and no full listing
\* has brought back.
MirrorCurrent ==
  row.token # None =>
    \A e \in Events : event[e].seq <= row.token => mirror[e] = event[e] \/ (wiped /\ mirror[e] = Gone)

\* A meeting acknowledged by the token has displaced every block to come that is in its way, except a
\* block its user put there, or one planned over a meeting that a 410 had wiped.
MeetingsDisplace ==
  row.token # None =>
    \A r \in Recs, e \in Events :
      rec[r].status \in Open /\ ~rec[r].chosen /\ rec[r].time = "ahead" /\ mirror[e].seq <= row.token
        => mirror[e].slot # rec[r].slot \/ wiped

\* A block has at most one copy in Google, the one its row names; each further one is due to a call
\* that died between Google's answer and the row, or to a delete that failed and was passed over.
CopiesAccounted ==
  Quiet => Cardinality({c \in copies : rec[c.rec].gid # c.id}) <= lost

\* What the app holds of the calendar, and the calendar of the app, is what the other side has.
CalendarSound == TypeOK /\ MirrorCurrent /\ MeetingsDisplace /\ CopiesAccounted

\* gcal-connect/handler.ts:9: disconnect drops the state and tombstones the imported events, so
\* without a connection there is no imported event and no token to go on from.
DisconnectForgets ==
  Quiet /\ ~row.refresh /\ ~row.confirmed /\ ~granted =>
    (\A e \in Events : mirror[e].slot = None) /\ row.token = None

\* _shared/gcal_sync.ts:187: when the token has expired, "wipe the mirror and start over", so a token
\* Google still takes leaves nothing out of the mirror.
WipedIsListed ==
  Quiet /\ row.token # None /\ row.token >= oldest =>
    \A e \in Events : event[e].seq <= row.token => mirror[e] = event[e]

\* A block that was closed or moved, and not written back before its day was out, keeps its copy.
Settled ==
  /\ \A e \in Events : mirror[e] = event[e]
  /\ row.writeBack /\ row.scope = "write" => \A r \in Recs : Task(r) = "none" \/ ~InWindow(r)

\* The mirror is wiped though the saved token still works, so that nothing lists it again.
Stranded == wiped /\ row.token # None /\ row.token >= oldest

\* While the connection stands, calendar and write-back catch up again and again (UC-09), through
\* failures, kills and expired tokens, unless a job wiped the mirror behind a newer token and died.
EventuallySettled ==
  <>[](Connected /\ granted /\ At("switch", "off") /\ At("disconnect", "off") /\ ~Stranded) => []<>Settled
=============================================================================
