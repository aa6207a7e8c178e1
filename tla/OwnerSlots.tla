----------------------------- MODULE OwnerSlots -----------------------------
(***************************************************************************)
(* The slot table of the streaming server (SessionPool) and main.cpp's     *)
(* handlers on it: /start with its slot choice and take-over, the standby  *)
(* leg of a quality switch, /quit, /stop-session, what the workers report, *)
(* and the /cancel that closes a host's app once nobody streams it, held   *)
(* back for a grace in case the browser relaunches.                        *)
(*                                                                         *)
(* Slots 0 and 1 are the owner's pair, the next kGuestSlots belong to      *)
(* invited players, the ones above are acquired by launches that may not   *)
(* use slot 0.  Every handler runs on the main thread and is atomic; a     *)
(* launch is not: it waits for the slot's previous process, then for the   *)
(* router (and the virtual display), and only then is its worker in the    *)
(* slot.  Of the players only what touches slots and hosts is here; their  *)
(* invitations and joins, and the process a guest's join may also have to  *)
(* wait for (g_PlayerRetiring), are PlayerStream's.                        *)
(*                                                                         *)
(* Left out: the in-process relays (stream_worker_enabled off), launches   *)
(* that send no uniqueid, session tokens (one per browser, like the        *)
(* uniqueid), the dual-stream hint, co-op sessions, metrics.  Time is      *)
(* abstract: a grace ends whenever it ends.                                *)
(***************************************************************************)
EXTENDS WorkerContract, FiniteSets, FiniteSetsExt

CONSTANTS
    Hosts,
    MultiUser,      \* hosts whose backend gives each device its own session
    SideBySide,     \* hosts whose apps run side by side (concurrentApps)
    Apps,
    Browsers,
    kGuestSlots,    \* ShareManager::kSlotCount
    kMaxSlots,
    Cap,            \* concurrentSessionCap
    NativeHost,     \* NativeHostBackend::hostUuid
    virtualDisplayAppId,    \* the native host's app that is the virtual display
    NoWorker, NoHost, NoUid, NoCancel, NoLaunch

ASSUME SlotAssumption ==
    /\ kGuestSlots \in Nat
    /\ kMaxSlots \in Nat
    /\ kMaxSlots >= kGuestSlots + 2
    /\ Cap \in Nat \ {0}
    /\ MultiUser \subseteq Hosts
    /\ SideBySide \subseteq Hosts
    /\ Apps \subseteq Nat /\ IsFiniteSet(Apps) /\ Apps # {}

Slots == 0..(kMaxSlots - 1)
kOwnerSlots == {0, 1}
GuestSlots == 2..(kGuestSlots + 1)
FreeSlots == {s \in Slots : s >= kGuestSlots + 2}

\* The browser sends one uniqueid for slot 0 and another, derived from it, for
\* the standby slot.  A guest's join makes up one of its own.
Uid(b, s) == <<b, IF s = 1 THEN 1 ELSE 0>>
Uids == (Browsers \X {0, 1}) \cup Workers

VARIABLES
    slot,       \* g_Pool: slot -> worker, clientUniqueId, hostUuid, appId
    launch,     \* worker -> the launch it was created for
    launchGen,  \* g_SlotLaunchGeneration
    guestUid,   \* g_PlayerUids
    pending,    \* g_PendingHostCancels: uid -> host, slot, is it a guest's?
    liveUids,   \* g_LiveSunshineUids
    app,        \* host -> does the host run an app for us?
    release,    \* VirtualDisplayJob's m_Release: the display goes off when it fires
    answers     \* worker -> how often its request was answered

vars == <<wk, slot, launch, launchGen, guestUid, pending, liveUids, app, release, answers>>

Empty == [worker |-> NoWorker, uid |-> NoUid, host |-> NoHost, app |-> 0]

SlotRec ==
    [worker : Workers \cup {NoWorker}, uid : Uids \cup {NoUid},
     host : Hosts \cup {NoHost}, app : Apps \cup {0}]

Launch ==
    [slot : Slots, host : Hosts, uid : Uids, app : Apps,
     kind  : {"fresh", "standby", "guest"},
     stage : {"waiting", "claiming", "spawned", "dropped"},
     prev  : Workers \cup {NoWorker},
     gen   : Nat,
     wired : BOOLEAN]

Cancel == [host : Hosts, slot : Slots, guest : BOOLEAN]

\* What stands for nothing is none of the things; a guest's uniqueid is no browser's.
ASSUME NullAssumption ==
    /\ NoWorker \notin Workers
    /\ NoHost \notin Hosts
    /\ NoUid \notin Uids
    /\ NoLaunch \notin Launch
    /\ Workers \cap (Browsers \X {0, 1}) = {}

TypeOK ==
    /\ WkTypeOK
    /\ slot \in [Slots -> SlotRec]
    /\ launch \in [Workers -> Launch \cup {NoLaunch}]
    /\ launchGen \in [Slots -> Nat]
    /\ guestUid \in [GuestSlots -> Workers \cup {NoUid}]
    /\ pending \in [Uids -> Cancel \cup {NoCancel}]
    /\ liveUids \subseteq Uids
    /\ app \in [Hosts -> BOOLEAN]
    /\ release \in BOOLEAN
    /\ answers \in [Workers -> Nat]

Init ==
    /\ WkInit
    /\ slot = [s \in Slots |-> Empty]
    /\ launch = [w \in Workers |-> NoLaunch]
    /\ launchGen = [s \in Slots |-> 0]
    /\ guestUid = [s \in GuestSlots |-> NoUid]
    /\ pending = [u \in Uids |-> NoCancel]
    /\ liveUids = {}
    /\ app = [h \in Hosts |-> FALSE]
    /\ release = FALSE
    /\ answers = [w \in Workers |-> 0]

-----------------------------------------------------------------------------
(***************************************************************************)
(* SessionPool.                                                            *)
(***************************************************************************)

live(s) == slot[s].worker # NoWorker

\* A slot whose host is not recorded yet counts as on the same host.
anyOtherLiveOnHost(s, h) == \E i \in Slots \ {s} : live(i) /\ slot[i].host \in {NoHost, h}

inUse(s) == live(s) \/ slot[s].uid # NoUid

\* The lowest free slot above the reserved ones; none if all are taken.
acquire == IF \A s \in FreeSlots : inUse(s) THEN {} ELSE {Min({s \in FreeSlots : ~inUse(s)})}

\* The first slot, if any, that this uniqueid holds.
indexOfClientUniqueId(u) ==
    IF \A s \in Slots : slot[s].uid # u THEN {} ELSE {Min({s \in Slots : slot[s].uid = u})}

-----------------------------------------------------------------------------
(***************************************************************************)
(* Shared pieces.                                                          *)
(***************************************************************************)

Held(S) == {slot[s].worker : s \in S} \ {NoWorker}

\* detachWorkerSlot on each slot of S: the slot is empty, ended() is no longer
\* handled, the child is asked to go.  responseReady() stays connected.
Unwired(W) == [w \in Workers |-> IF w \in W THEN [launch[w] EXCEPT !.wired = FALSE] ELSE launch[w]]
Emptied(S) == [s \in Slots |-> IF s \in S THEN Empty ELSE slot[s]]

onVirtualDisplay(h, a) == h = NativeHost /\ a = virtualDisplayAppId

\* Slots are detached one by one, guests first, and each asks whether another
\* slot streams its host at that moment.
DetachOrder(s) == IF s \in GuestSlots THEN s - kMaxSlots ELSE s

\* Mutant of ReleasedBy: detaching leaves the display to the ended handler.
ReleasedByNobody(S) == FALSE

ReleasedBy(S) ==
    \E s \in S :
        /\ onVirtualDisplay(slot[s].host, slot[s].app)
        /\ \A i \in Slots \ {s} :
              (live(i) /\ slot[i].host \in {NoHost, slot[s].host})
                  => i \in S /\ DetachOrder(i) < DetachOrder(s)

detachWorkerSlots(S) ==
    /\ slot' = Emptied(S)
    /\ launch' = Unwired(Held(S))
    /\ release' = (release \/ ReleasedBy(S))
    /\ AskAll(Held(S))

\* dropPendingHostCancel
Dropping(u, h) ==
    IF pending[u] # NoCancel /\ pending[u].host = h THEN [pending EXCEPT ![u] = NoCancel] ELSE pending

\* An owner's launch on the virtual display calls activate() before it claims
\* its ports, and that stops the timer.
StopsRelease(l) == l.kind # "guest" /\ onVirtualDisplay(l.host, l.app)

\* A launch enters slot s once the slots of `gone' are detached: a new
\* generation, queued behind the process that still holds the slot's ports.
Enter(w, s, gone, new) ==
    /\ launch[w] = NoLaunch
    /\ slot' = Emptied(gone)
    /\ AskAll(Held(gone))
    /\ release' = ((release \/ ReleasedBy(gone)) /\ ~(~live(s) /\ StopsRelease(new)))
    /\ launch' = [Unwired(Held(gone)) EXCEPT ![w] =
                    [slot |-> s, host |-> new.host, uid |-> new.uid, app |-> new.app,
                     kind |-> new.kind,
                     stage |-> IF live(s) THEN "waiting" ELSE "claiming",
                     prev |-> slot[s].worker,
                     gen |-> launchGen[s] + 1, wired |-> TRUE]]
    /\ launchGen' = [launchGen EXCEPT ![s] = @ + 1]

-----------------------------------------------------------------------------
(***************************************************************************)
(* POST /start.                                                            *)
(***************************************************************************)

slotHeldByAnotherDevice(s, u, h) ==
    h \in MultiUser /\ live(s) /\ slot[s].host = h /\ slot[s].uid # u

slotStreamsAnotherApp(s, h, a) ==
    h \in SideBySide /\ live(s) /\ slot[s].host = h /\ slot[s].app \notin {0, a}

\* Another host's stream, another device's, or another app's.
NotOurs(s, u, h, a) ==
    \/ live(s) /\ slot[s].host \notin {NoHost, h}
    \/ slotHeldByAnotherDevice(s, u, h)
    \/ slotStreamsAnotherApp(s, h, a)

\* What the host carries is counted by device, or by stream where one device
\* may hold several.
streamKey(u, h, a) == IF h \in SideBySide THEN <<u, a>> ELSE <<u>>

UnderCap(u, h, a) ==
    Cardinality({streamKey(slot[s].uid, h, slot[s].app) : s \in {i \in Slots : live(i) /\ slot[i].host = h}}
                \cup {streamKey(u, h, a)}) <= Cap

\* The slot of a fresh launch: slot 0 unless it is somebody else's; then the
\* one this browser already streams this from, or a new one.
LaunchSlot(u, h, a) ==
    LET mine == {s \in indexOfClientUniqueId(u) :
                    slot[s].host = h /\ ~slotStreamsAnotherApp(s, h, a)}
    IN  IF ~NotOurs(0, u, h, a) THEN {0} ELSE IF mine # {} THEN mine ELSE acquire

\* Mutant of TakenOver: slot 0 is reclaimed whoever streams from it.
TakenOverSlot0(s, u, h, a) == {0, s}

\* What a fresh launch on slot s tears down: what is ours of the owner's pair,
\* and the remnant in a slot above it.
TakenOver(s, u, h, a) ==
    {i \in kOwnerSlots : ~NotOurs(i, u, h, a)} \cup (IF s \in kOwnerSlots THEN {} ELSE {s})

Start(b, h, a, w) ==
    LET u == Uid(b, 0)
    IN  /\ UnderCap(u, h, a)
        /\ \E s \in LaunchSlot(u, h, a) :
              Enter(w, s, TakenOver(s, u, h, a), [host |-> h, uid |-> u, app |-> a, kind |-> "fresh"])
        /\ pending' = Dropping(u, h)
        /\ UNCHANGED <<guestUid, liveUids, app, answers>>

\* Refused once the take-over has happened: no valid app, or (by then the held
\* /cancel is dropped) no transport left.
StartRefused(b, h, a) ==
    LET u == Uid(b, 0)
    IN  /\ UnderCap(u, h, a)
        /\ \E s \in LaunchSlot(u, h, a) : detachWorkerSlots(TakenOver(s, u, h, a))
        /\ pending' \in {pending, Dropping(u, h)}
        /\ UNCHANGED <<launchGen, guestUid, liveUids, app, answers>>

\* standby:true.  The slot is the one the request names.
StartStandby(b, h, a, s, w) ==
    LET u == Uid(b, s)
    IN  /\ s \in kOwnerSlots
        /\ Enter(w, s, {s}, [host |-> h, uid |-> u, app |-> a, kind |-> "standby"])
        /\ pending' = Dropping(u, h)
        /\ UNCHANGED <<guestUid, liveUids, app, answers>>

\* A guest joins (startPlayerStream): a later rung comes back under the
\* uniqueid of the one before and keeps the app it left.
GuestStart(s, h, a, again, w) ==
    LET u == IF again THEN guestUid[s] ELSE w
    IN  /\ s \in GuestSlots
        /\ again => guestUid[s] # NoUid
        /\ Enter(w, s, {s}, [host |-> h, uid |-> u, app |-> a, kind |-> "guest"])
        /\ guestUid' = [guestUid EXCEPT ![s] = u]
        /\ pending' = IF again THEN Dropping(u, h) ELSE pending
        /\ UNCHANGED <<liveUids, app, answers>>

-----------------------------------------------------------------------------
(***************************************************************************)
(* A launch goes on: the previous process is gone, the router and the      *)
(* virtual display have answered.                                          *)
(***************************************************************************)

\* Mutant of IsLatest: a launch never notices that it was overtaken.
IsLatestAlways(w) == TRUE

IsLatest(w) == launchGen[launch[w].slot] = launch[w].gen

Answered(w) == answers' = [answers EXCEPT ![w] = @ + 1]

\* Mutant of Dropped: the answer is sent and the launch goes on.
DroppedGoesOn(w) ==
    /\ launch[w] # NoLaunch
    /\ launch[w].stage = "claiming"
    /\ Answered(w)
    /\ UNCHANGED <<wk, slot, launch, launchGen, guestUid, pending, liveUids, app, release>>

Dropped(w) ==
    /\ launch[w] # NoLaunch
    /\ launch[w].stage = "claiming"
    /\ launch' = [launch EXCEPT ![w].stage = "dropped"]
    /\ Answered(w)
    /\ UNCHANGED <<wk, slot, launchGen, guestUid, pending, liveUids, app, release>>

\* A newer launch on the slot: 409, or dual_unavailable.
Superseded(w) == Dropped(w) /\ ~IsLatest(w)

\* The virtual display or the child could not be started.
LaunchFails(w) == Dropped(w) /\ IsLatest(w)

startWorker(w) ==
    /\ launch[w] # NoLaunch
    /\ launch[w].stage = "claiming"
    /\ IsLatest(w)
    /\ Spawn(w)
    /\ launch' = [launch EXCEPT ![w].stage = "spawned"]
    /\ slot' = [slot EXCEPT ![launch[w].slot] =
                  [worker |-> w, uid |-> launch[w].uid, host |-> launch[w].host, app |-> launch[w].app]]
    /\ UNCHANGED <<launchGen, guestUid, pending, liveUids, app, release, answers>>

-----------------------------------------------------------------------------
(***************************************************************************)
(* What the workers report.                                                *)
(***************************************************************************)

\* responseReady.  "ok": the host launched or resumed the app.  Of a launch
\* that failed the app may be left up.  A standby leg that failed leaves its
\* slot at once (its appId stays behind).
WorkerReplies(w, r) ==
    LET s == launch[w].slot
    IN  /\ Reply(w, r)
        /\ Answered(w)
        /\ \/ /\ r = "ok"
              /\ app' = [app EXCEPT ![launch[w].host] = TRUE]
              /\ liveUids' = liveUids \cup {launch[w].uid}
              /\ UNCHANGED slot
           \/ /\ r = "error"
              /\ app' \in {app, [app EXCEPT ![launch[w].host] = TRUE]}
              /\ slot' = IF launch[w].kind = "standby" /\ slot[s].worker = w
                         THEN [slot EXCEPT ![s] = [Empty EXCEPT !.app = slot[s].app]] ELSE slot
              /\ UNCHANGED liveUids
        /\ UNCHANGED <<launch, launchGen, guestUid, pending, release>>

\* The stream on slot s is over: unless another slot streams the host, its
\* /cancel is held back.  The table is keyed by uniqueid alone.
HoldCancel(u, h, s, guest) ==
    /\ IF anyOtherLiveOnHost(s, h)
       THEN /\ UNCHANGED pending
            /\ liveUids' = IF guest THEN liveUids \ {u} ELSE liveUids
       ELSE /\ pending' = [pending EXCEPT ![u] = [host |-> h, slot |-> s, guest |-> guest]]
            /\ UNCHANGED liveUids
    /\ UNCHANGED app

\* The ended() handler, if it is still connected.  What was streamed is read off
\* the slot.
Ended(w) ==
    LET s == launch[w].slot
        h == launch[w].host
    IN  IF launch[w].wired
        THEN /\ HoldCancel(launch[w].uid, h, s, launch[w].kind = "guest")
             /\ slot' = [slot EXCEPT ![s] = IF @.worker = w THEN Empty ELSE @]
        ELSE UNCHANGED <<pending, liveUids, app, slot>>

\* ... and the display is left by the last stream on the host.
EndedReleases(w) ==
    LET s == launch[w].slot
        h == launch[w].host
    IN  launch[w].wired /\ onVirtualDisplay(h, slot[s].app) /\ ~anyOtherLiveOnHost(s, h)

WorkerEnds(w) ==
    /\ Over(w)
    /\ Ended(w)
    /\ release' = (release \/ EndedReleases(w))
    /\ UNCHANGED <<launch, launchGen, guestUid, answers>>

NextInLine(w) ==
    {v \in Workers : launch[v] # NoLaunch /\ launch[v].stage = "waiting" /\ launch[v].prev = w}

\* The process is gone, and with it whatever the worker had not reported.
WorkerExits(w) ==
    /\ Exit(w)
    /\ IF wk[w].over THEN UNCHANGED <<pending, liveUids, app, slot>> ELSE Ended(w)
    /\ IF wk[w].reply = "none" THEN Answered(w) ELSE UNCHANGED answers
    /\ release' = (/\ release \/ (~wk[w].over /\ EndedReleases(w))
                   /\ \A v \in NextInLine(w) : ~StopsRelease(launch[v]))
    /\ launch' = [v \in Workers |-> IF v \in NextInLine(w) THEN [launch[v] EXCEPT !.stage = "claiming"]
                                                           ELSE launch[v]]
    /\ UNCHANGED <<launchGen, guestUid>>

-----------------------------------------------------------------------------
(***************************************************************************)
(* The held /cancel, and the ways a stream is stopped.                     *)
(***************************************************************************)

\* A /cancel ends the host's app, whoever streams it.
CancelSent(h) == app' = [app EXCEPT ![h] = FALSE]

\* Mutant of Spared: only the owner's question is asked of a guest's cancel.
SparedSiblingOnly(c) == anyOtherLiveOnHost(c.slot, c.host)

\* What the timer finds on the host.  A guest's also looks at its own slot.
Spared(c) ==
    \/ anyOtherLiveOnHost(c.slot, c.host)
    \/ c.guest /\ live(c.slot) /\ slot[c.slot].host = c.host

CancelTimeout(u) ==
    LET c == pending[u]
    IN  /\ c # NoCancel
        /\ pending' = [pending EXCEPT ![u] = NoCancel]
        /\ IF Spared(c) THEN UNCHANGED app ELSE CancelSent(c.host)
        /\ liveUids' = IF Spared(c) /\ ~c.guest THEN liveUids ELSE liveUids \ {u}
        /\ UNCHANGED <<wk, slot, launch, launchGen, guestUid, release, answers>>

\* POST /quit; q: the slots the request may stop.  A retire keeps the app, and
\* the guests on it.
Quit(b, us, h, q, keep) ==
    LET u    == Uid(b, us)
        mine == {s \in q : live(s) /\ slot[s].uid = u}
    IN  /\ detachWorkerSlots(mine \cup (IF keep THEN {} ELSE {s \in GuestSlots : live(s)}))
        /\ IF keep
           THEN UNCHANGED <<pending, liveUids, app>>
           ELSE /\ pending' = Dropping(u, h)
                /\ liveUids' = liveUids \ {u}
                /\ CancelSent(h)
        /\ UNCHANGED <<launchGen, guestUid, answers>>

\* POST /stop-session: guests, the owner's pair, and every /cancel.
StopSession(h) ==
    /\ detachWorkerSlots(kOwnerSlots \cup {s \in GuestSlots : live(s)})
    /\ liveUids' = {}
    /\ CancelSent(h)
    /\ UNCHANGED <<launchGen, guestUid, pending, answers>>

\* Mutant of stopPlayerStream: no early return on a slot without a stream.
stopPlayerStreamAnySlot(s) ==
    /\ detachWorkerSlots({s})
    /\ HoldCancel(guestUid[s], slot[s].host, s, TRUE)
    /\ UNCHANGED <<launchGen, guestUid, answers>>

\* stopPlayerStream: the guest leaves, or the owner closes the row.
stopPlayerStream(s) ==
    /\ live(s)
    /\ detachWorkerSlots({s})
    /\ HoldCancel(guestUid[s], slot[s].host, s, TRUE)
    /\ UNCHANGED <<launchGen, guestUid, answers>>

\* The share manager ends a guest's stream by itself: no /cancel is decided.
playerMustDisconnect(s) ==
    /\ live(s)
    /\ detachWorkerSlots({s})
    /\ UNCHANGED <<launchGen, guestUid, pending, liveUids, app, answers>>

\* A streaming device was revoked: every child is told, none is detached.
streamingSessionRevoked ==
    /\ Held(Slots) # {}
    /\ AskAll(Held(Slots))
    /\ UNCHANGED <<slot, launch, launchGen, guestUid, pending, liveUids, app, release, answers>>

\* The grace is over and the display goes off: VirtualDisplayJob's business.
ReleaseTimeout ==
    /\ release
    /\ release' = FALSE
    /\ UNCHANGED <<wk, slot, launch, launchGen, guestUid, pending, liveUids, app, answers>>

-----------------------------------------------------------------------------

\* Which app is asked for only matters where apps run side by side.
AppsOf(h) == IF h \in SideBySide THEN Apps ELSE {Min(Apps)}

BrowserNext ==
    \E b \in Browsers, h \in Hosts :
        \/ \E a \in AppsOf(h), w \in Workers : Start(b, h, a, w)
        \/ \E a \in AppsOf(h) : StartRefused(b, h, a)
        \/ \E a \in AppsOf(h), s \in kOwnerSlots, w \in Workers : StartStandby(b, h, a, s, w)
        \/ \E us \in {0, 1}, q \in {kOwnerSlots, {0}, {1}}, keep \in BOOLEAN : Quit(b, us, h, q, keep)
        \/ StopSession(h)

GuestNext ==
    \E s \in GuestSlots :
        \/ \E h \in Hosts, again \in BOOLEAN, w \in Workers : \E a \in AppsOf(h) : GuestStart(s, h, a, again, w)
        \/ stopPlayerStream(s)
        \/ playerMustDisconnect(s)

ClaimEnds(w) == Superseded(w) \/ LaunchFails(w) \/ startWorker(w)

Replies(w) == WorkerReplies(w, "ok") \/ WorkerReplies(w, "error")

WorkerNext(w) == ClaimEnds(w) \/ Replies(w) \/ WorkerEnds(w) \/ WorkerExits(w)

Next ==
    \/ BrowserNext
    \/ GuestNext
    \/ streamingSessionRevoked
    \/ ReleaseTimeout
    \/ \E w \in Workers : WorkerNext(w)
    \/ \E u \in Uids : CancelTimeout(u)

Spec == Init /\ [][Next]_vars

-----------------------------------------------------------------------------
(***************************************************************************)
(* Properties.                                                             *)
(***************************************************************************)

\* A standby leg whose launch failed is out of its slot before it is over.
LeftEarly(w) == launch[w] # NoLaunch /\ launch[w].kind = "standby" /\ wk[w].reply = "error"

\* w streams host h from its slot, and nobody has asked it to stop.
StreamsOn(w, h) ==
    wk[w].run = "up" /\ ~wk[w].over /\ launch[w].wired /\ ~LeftEarly(w) /\ launch[w].host = h

\* The slot table and the children agree: a running worker has its end handled
\* exactly while it is in its slot, the slot says what it streams, and it is the
\* one the slot's newest launch asked for.
SlotMatchesLaunch ==
    /\ \A w \in Workers :
          (wk[w].run = "up" /\ ~wk[w].over /\ ~LeftEarly(w))
              => (launch[w].wired <=> slot[launch[w].slot].worker = w)
    /\ \A s \in Slots : live(s) =>
          LET w == slot[s].worker
          IN  /\ wk[w].run = "up"
              /\ launch[w].slot = s /\ launch[w].gen = launchGen[s]
              /\ slot[s].uid = launch[w].uid /\ slot[s].host = launch[w].host

\* A launch request is answered at most once, whichever of the router, the
\* spawn, the worker and its death comes first.
AnsweredAtMostOnce == \A w \in Workers : answers[w] <= 1

\* A fresh launch takes over only what streams its own host, and never an
\* invited player, whatever slot it lands on.
FreshLaunchSparesOthers ==
    [][\A v, w \in Workers :
          (/\ launch[v] = NoLaunch /\ launch'[v] # NoLaunch /\ launch'[v].kind = "fresh"
           /\ wk'[w].asked /\ ~wk[w].asked)
              => launch[w].host = launch'[v].host /\ launch[w].kind # "guest"]_vars

\* A held /cancel never goes to a host that another slot streams by then; a
\* guest's not even when its own slot does.
HeldCancelSparesStreams ==
    [][\A u \in Uids, w \in Workers :
          (CancelTimeout(u) /\ app' # app /\ StreamsOn(w, pending[u].host))
              => ~pending[u].guest /\ launch[w].slot = pending[u].slot]_vars

\* A slot streams the virtual display, or is starting to.
DisplayStreamed == \E s \in Slots : live(s) /\ onVirtualDisplay(slot[s].host, slot[s].app)

\* This step ends the last stream on the virtual display.  It is not a launch (one
\* on the display keeps it on), nor a standby leg's failure (its end is to come).
LastLeavesDisplay ==
    /\ DisplayStreamed /\ ~DisplayStreamed'
    /\ \A w \in Workers : (launch'[w] = NoLaunch <=> launch[w] = NoLaunch) /\ (LeftEarly(w)' => LeftEarly(w))

\* Whichever way the last stream on the virtual display ends (its own end, a
\* crash, /quit, /stop-session, a guest sent away), the display's release is
\* armed, provided nothing else of the native host was streamed.
LastOnHostReleasesDisplay ==
    [][(/\ LastLeavesDisplay
        /\ \A s \in Slots : (live(s) /\ slot[s].host = NativeHost) => slot[s].app = virtualDisplayAppId)
           => release']_vars
=============================================================================
