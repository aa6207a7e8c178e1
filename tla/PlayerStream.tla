---------------------------- MODULE PlayerStream ----------------------------
(***************************************************************************)
(* The life of invited players' streams: main.cpp's player slots together  *)
(* with the share routes.  It composes what ShareManager promises          *)
(* (Invitations) with what a stream worker promises (WorkerContract).      *)
(*                                                                         *)
(* A join is not one step.  The route reads the invitation, detaches       *)
(* whatever worker the slot had, waits for that process to be gone, asks   *)
(* the router for a port, and only then spawns the worker, which answers   *)
(* the request some time later.  Between any two of those the owner may    *)
(* close, reopen or change the row, the invitation may expire, the guest   *)
(* may leave or join again, and workers may answer, end or die.            *)
(*                                                                         *)
(* All of it runs on the server's main thread, so each handler is atomic.  *)
(* Requests refused without a change (dead link, 409 while streaming, host *)
(* or app gone) are the negations of the guards.  Which host and app a     *)
(* guest resumes into, the /cancel held back for the host a guest left     *)
(* (cancelGuestHostSessionSoon), co-op sessions and metrics are left out.  *)
(***************************************************************************)
EXTENDS Invitations, WorkerContract

CONSTANT NoWorker   \* a null worker pointer

ASSUME NoWorkerAssumption == NoWorker \notin Workers

VARIABLES
    worker,     \* slot -> g_Pool.at(slot).worker
    retiring,   \* slot -> g_PlayerRetiring
    launchGen,  \* slot -> g_SlotLaunchGeneration
    join,       \* worker -> the join request it was created for
    hole,       \* slot -> does the router allocator hold the slot's port?
    holeTimer,  \* slot -> is a g_GuestHoleRelease timer pending?
    answers,    \* worker -> how often its join request was answered
    litBy       \* worker -> the invitation that was live when it answered "streaming"

slotVars == <<worker, retiring, launchGen, join, hole, holeTimer>>
vars == <<inv, opened, wk, worker, retiring, launchGen, join, hole, holeTimer, answers, litBy>>

Join ==
    [slot   : Slots,
     stage  : {"waiting", "claiming", "spawned", "dropped"},
     prev   : Workers \cup {NoWorker},    \* whose exit it waits for
     gen    : Nat,
     policy : Perms,                      \* the last input policy sent to the worker
     port   : BOOLEAN,                    \* was it told of a router port?
     wired  : BOOLEAN]                    \* is the slot's ended() handler connected?

NoJoin == [stage |-> "none"]

TypeOK ==
    /\ InvTypeOK
    /\ WkTypeOK
    /\ worker \in [Slots -> Workers \cup {NoWorker}]
    /\ retiring \in [Slots -> Workers \cup {NoWorker}]
    /\ launchGen \in [Slots -> Nat]
    /\ join \in [Workers -> Join \cup {NoJoin}]
    /\ hole \in [Slots -> BOOLEAN]
    /\ holeTimer \in [Slots -> BOOLEAN]
    /\ answers \in [Workers -> Nat]
    /\ litBy \in [Workers -> 0..MaxOpened]

Init ==
    /\ InvInit
    /\ WkInit
    /\ worker = [s \in Slots |-> NoWorker]
    /\ retiring = [s \in Slots |-> NoWorker]
    /\ launchGen = [s \in Slots |-> 0]
    /\ join = [w \in Workers |-> NoJoin]
    /\ hole = [s \in Slots |-> FALSE]
    /\ holeTimer = [s \in Slots |-> FALSE]
    /\ answers = [w \in Workers |-> 0]
    /\ litBy = [w \in Workers |-> 0]

-----------------------------------------------------------------------------
(***************************************************************************)
(* Shared pieces.                                                          *)
(***************************************************************************)

\* The workers in the slots S.
Held(S) == {worker[s] : s \in S} \ {NoWorker}

\* detachWorkerSlot on each slot of S: out of the slot, ended() no longer
\* handled, asked to stop.  responseReady() stays connected.
Unwired(W) == [w \in Workers |-> IF w \in W THEN [join[w] EXCEPT !.wired = FALSE] ELSE join[w]]

detachWorkerSlots(S) ==
    /\ worker' = [s \in Slots |-> IF s \in S THEN NoWorker ELSE worker[s]]
    /\ join' = Unwired(Held(S))
    /\ AskAll(Held(S))

\* Mutant of MustDisconnect: the signal is lost.
MustDisconnectLost(gone) == {}

\* clearActivation emits playerMustDisconnect for a slot that was streaming;
\* the handler detaches the slot's worker, if it has one.
MustDisconnect(gone) == {s \in gone : IsLive(inv, s) /\ inv[s].streaming}

\* Mutant of Streaming: a slot that is not shared is marked too.
StreamingAnySlot(f, s, on) == [f EXCEPT ![s].streaming = on]

\* setStreaming on slot s: nothing happens to a slot that is not shared.
Streaming(f, s, on) == IF IsLive(f, s) THEN [f EXCEPT ![s].streaming = on] ELSE f

-----------------------------------------------------------------------------
(***************************************************************************)
(* The owner's board, and the ends the share manager decides by itself.    *)
(***************************************************************************)

\* POST activate: opening a row again closes the invitation it had.
RouteActivate(s) ==
    /\ Open({}, s)
    /\ detachWorkerSlots(MustDisconnect({s}))
    /\ UNCHANGED <<retiring, launchGen, hole, holeTimer, answers, litBy>>

\* The first device with the PIN (POST pin).
RoutePin(s) ==
    /\ Bind({}, s)
    /\ UNCHANGED <<wk, slotVars, answers, litBy>>

\* POST permissions, and the permissionsChanged handler.
RoutePermissions(s, p) ==
    /\ p # inv[s].perms
    /\ Permit({}, s, p)
    /\ LET w == worker[s]
       IN  join' = IF IsLive(inv, s) /\ w # NoWorker
                   THEN [join EXCEPT ![w].policy = p]
                   ELSE join
    /\ UNCHANGED <<wk, worker, retiring, launchGen, hole, holeTimer, answers, litBy>>

\* POST deactivate: stopPlayerStream, then the credentials.
RouteDeactivate(s) ==
    /\ IsLive(inv, s) \/ worker[s] # NoWorker
    /\ Close({s})
    /\ detachWorkerSlots({s})
    /\ retiring' = IF worker[s] = NoWorker THEN retiring ELSE [retiring EXCEPT ![s] = worker[s]]
    /\ UNCHANGED <<launchGen, hole, holeTimer, answers, litBy>>

\* The deadline passed, or the PIN was guessed at too often.
ShareEnds(s) ==
    /\ IsLive(inv, s)
    /\ Close({s})
    /\ detachWorkerSlots(MustDisconnect({s}))
    /\ UNCHANGED <<retiring, launchGen, hole, holeTimer, answers, litBy>>

\* The owner stopped for good: every player worker, then every share.
endPlayerSessions ==
    /\ Held(Slots) # {} \/ \E s \in Slots : IsLive(inv, s)
    /\ Close(Slots)
    /\ detachWorkerSlots(Slots)
    /\ UNCHANGED <<retiring, launchGen, hole, holeTimer, answers, litBy>>

\* A streaming device was revoked: every slot's child is told, none is
\* detached.
streamingSessionRevoked ==
    /\ Held(Slots) # {}
    /\ AskAll(Held(Slots))
    /\ UNCHANGED <<inv, opened, slotVars, answers, litBy>>

-----------------------------------------------------------------------------
(***************************************************************************)
(* The guest.                                                              *)
(***************************************************************************)

\* The cookie that opens slot s is the one its live invitation handed out.
HasCookie(s) == IsLive(inv, s) /\ inv[s].bound

\* POST join.  `first' is the first rung of the transport chain; a later rung
\* is the same browser coming back and may replace its own stream.
RouteJoin(s, first, w) ==
    LET left == IF retiring[s] # NoWorker /\ wk[retiring[s]].run = "up"
                THEN retiring[s] ELSE NoWorker
        prev == IF worker[s] # NoWorker THEN worker[s] ELSE left
        new  == [slot   |-> s,
                 stage  |-> IF prev = NoWorker THEN "claiming" ELSE "waiting",
                 prev   |-> prev,
                 gen    |-> launchGen[s] + 1,
                 policy |-> inv[s].perms,
                 port   |-> FALSE,
                 wired  |-> TRUE]
    IN  /\ HasCookie(s)
        /\ ~(inv[s].streaming /\ first)
        /\ join[w] = NoJoin
        /\ worker' = [worker EXCEPT ![s] = NoWorker]
        /\ AskAll(Held({s}))
        /\ inv' = IF worker[s] = NoWorker THEN inv ELSE Streaming(inv, s, FALSE)
        /\ join' = [Unwired(Held({s})) EXCEPT ![w] = new]
        /\ retiring' = [retiring EXCEPT ![s] = NoWorker]
        /\ launchGen' = [launchGen EXCEPT ![s] = @ + 1]
        /\ holeTimer' = IF prev = NoWorker THEN [holeTimer EXCEPT ![s] = FALSE] ELSE holeTimer
        /\ UNCHANGED <<opened, hole, answers, litBy>>

\* POST leave.
RouteLeave(s) ==
    /\ HasCookie(s)
    /\ worker[s] # NoWorker
    /\ inv' = Streaming(inv, s, FALSE)
    /\ detachWorkerSlots({s})
    /\ retiring' = [retiring EXCEPT ![s] = worker[s]]
    /\ UNCHANGED <<opened, launchGen, hole, holeTimer, answers, litBy>>

-----------------------------------------------------------------------------
(***************************************************************************)
(* The router's answer, and what follows it.  `mapped': is there a port?   *)
(* A port already held is given at once, unless the owner turned port      *)
(* mapping off since; it stays held then too.                              *)
(***************************************************************************)

Claimed(w, mapped) ==
    /\ join[w].stage = "claiming"
    /\ hole' = [hole EXCEPT ![join[w].slot] = @ \/ mapped]

\* Mutant of Dropped: a worker that never ran does not arm the hole's timer.
DroppedKeepsHole(w) ==
    /\ join' = [join EXCEPT ![w].stage = "dropped"]
    /\ answers' = [answers EXCEPT ![w] = @ + 1]
    /\ UNCHANGED <<inv, opened, wk, worker, retiring, launchGen, holeTimer, litBy>>

\* The worker object is deleted unused; its destroyed() arms the hole's timer.
Dropped(w) ==
    /\ join' = [join EXCEPT ![w].stage = "dropped"]
    /\ holeTimer' = [holeTimer EXCEPT ![join[w].slot] = TRUE]
    /\ answers' = [answers EXCEPT ![w] = @ + 1]
    /\ UNCHANGED <<inv, opened, wk, worker, retiring, launchGen, litBy>>

\* Mutant of IsLatest: no generation guard.
IsLatestAlways(w) == TRUE

IsLatest(w) == launchGen[join[w].slot] = join[w].gen

Superseded(w, mapped) ==
    /\ Claimed(w, mapped)
    /\ ~IsLatest(w)
    /\ Dropped(w)

SpawnFails(w, mapped) ==
    /\ Claimed(w, mapped)
    /\ IsLatest(w)
    /\ Dropped(w)

StartWorker(w, mapped) ==
    /\ Claimed(w, mapped)
    /\ IsLatest(w)
    /\ Spawn(w)
    /\ worker' = [worker EXCEPT ![join[w].slot] = w]
    /\ join' = [join EXCEPT ![w].stage = "spawned", ![w].port = mapped]
    /\ UNCHANGED <<inv, opened, retiring, launchGen, holeTimer, answers, litBy>>

-----------------------------------------------------------------------------
(***************************************************************************)
(* What the workers report.                                                *)
(***************************************************************************)

\* responseReady: "streaming" marks the slot, whoever holds it by now.
WorkerReplies(w, r) ==
    /\ Reply(w, r)
    /\ answers' = [answers EXCEPT ![w] = @ + 1]
    /\ IF r = "ok"
       THEN /\ inv' = Streaming(inv, join[w].slot, TRUE)
            /\ litBy' = [litBy EXCEPT ![w] = inv[join[w].slot].id]
       ELSE UNCHANGED <<inv, litBy>>
    /\ UNCHANGED <<opened, slotVars>>

\* The ended() handler, if it is still connected.
Ended(w) ==
    IF join[w].wired
    THEN /\ inv' = Streaming(inv, join[w].slot, FALSE)
         /\ worker' = [s \in Slots |-> IF worker[s] = w THEN NoWorker ELSE worker[s]]
    ELSE UNCHANGED <<inv, worker>>

WorkerEnds(w) ==
    /\ Over(w)
    /\ Ended(w)
    /\ UNCHANGED <<opened, retiring, launchGen, join, hole, holeTimer, answers, litBy>>

\* Mutant of NextInLine: nobody listens for the previous worker's exit.
NextInLineNobody(w) == {}

\* The joins that wait for w go to the router; failing them, the slot's hole
\* starts its grace.
NextInLine(w) == {v \in Workers : join[v] # NoJoin /\ join[v].stage = "waiting" /\ join[v].prev = w}

\* Mutant of WorkerExits: the dead worker's request is answered once more.
WorkerExitsAnswersAgain(w) ==
    /\ Exit(w)
    /\ IF wk[w].over THEN UNCHANGED <<inv, worker>> ELSE Ended(w)
    /\ answers' = [answers EXCEPT ![w] = @ + 1]
    /\ holeTimer' = [holeTimer EXCEPT ![join[w].slot] = TRUE]
    /\ UNCHANGED <<opened, retiring, launchGen, join, hole, litBy>>

WorkerExits(w) ==
    /\ Exit(w)
    /\ IF wk[w].over THEN UNCHANGED <<inv, worker>> ELSE Ended(w)
    /\ answers' = IF wk[w].reply = "none" THEN [answers EXCEPT ![w] = @ + 1] ELSE answers
    /\ join' = [v \in Workers |-> IF v \in NextInLine(w) THEN [join[v] EXCEPT !.stage = "claiming"]
                                                         ELSE join[v]]
    /\ holeTimer' = [holeTimer EXCEPT ![join[w].slot] = (NextInLine(w) = {})]
    /\ UNCHANGED <<opened, retiring, launchGen, hole, litBy>>

\* Mutant of HoleTimeout: the port goes even when the slot is in use again.
HoleTimeoutBlind(s) ==
    /\ holeTimer[s]
    /\ holeTimer' = [holeTimer EXCEPT ![s] = FALSE]
    /\ hole' = [hole EXCEPT ![s] = FALSE]
    /\ UNCHANGED <<inv, opened, wk, worker, retiring, launchGen, join, answers, litBy>>

\* releaseGuestHoleSoon's timer.
HoleTimeout(s) ==
    /\ holeTimer[s]
    /\ holeTimer' = [holeTimer EXCEPT ![s] = FALSE]
    /\ hole' = IF worker[s] = NoWorker THEN [hole EXCEPT ![s] = FALSE] ELSE hole
    /\ UNCHANGED <<inv, opened, wk, worker, retiring, launchGen, join, answers, litBy>>

-----------------------------------------------------------------------------

OwnerNext ==
    \/ \E s \in Slots :
          \/ RouteActivate(s)
          \/ RouteDeactivate(s)
          \/ ShareEnds(s)
          \/ \E p \in Perms : RoutePermissions(s, p)
    \/ endPlayerSessions
    \/ streamingSessionRevoked

GuestNext ==
    \E s \in Slots :
        \/ RoutePin(s)
        \/ RouteLeave(s)
        \/ \E w \in Workers, first \in BOOLEAN : RouteJoin(s, first, w)

ClaimEnds(w) ==
    \E mapped \in BOOLEAN :
        Superseded(w, mapped) \/ SpawnFails(w, mapped) \/ StartWorker(w, mapped)

\* A worker that owes an answer gives it, or dies.
Answers(w) ==
    /\ wk[w].reply = "none"
    /\ WorkerReplies(w, "ok") \/ WorkerReplies(w, "error") \/ WorkerExits(w)

\* A worker that was asked to stop, or whose stream is over, leaves: by itself
\* after three seconds, or killed after five.
MustExit(w) == (wk[w].asked \/ wk[w].over) /\ WorkerExits(w)

WorkerNext(w) ==
    \/ ClaimEnds(w)
    \/ WorkerReplies(w, "ok")
    \/ WorkerReplies(w, "error")
    \/ WorkerEnds(w)
    \/ WorkerExits(w)

Next ==
    \/ OwnerNext
    \/ GuestNext
    \/ \E w \in Workers : WorkerNext(w)
    \/ \E s \in Slots : HoleTimeout(s)

Spec == Init /\ [][Next]_vars

\* The router answers or times out, a worker answers its start request or
\* dies, a stopped worker exits, timers fire.  Nothing is assumed of the owner
\* or the guest.
Fairness ==
    /\ \A w \in Workers : WF_vars(ClaimEnds(w)) /\ WF_vars(Answers(w)) /\ WF_vars(MustExit(w))
    /\ \A s \in Slots : WF_vars(HoleTimeout(s))

FairSpec == Spec /\ Fairness

-----------------------------------------------------------------------------
(***************************************************************************)
(* Properties.                                                             *)
(***************************************************************************)

\* A slot and the worker in it agree: a running worker whose stream is not over
\* has its end handled exactly while it is the slot's worker, and the slot's
\* worker is the one the newest join asked for.  (So a worker nobody would
\* notice ending never sits in a slot, and an old one never clears the flag of
\* its successor.)
SlotOwnsItsWorker ==
    /\ \A w \in Workers :
          (wk[w].run = "up" /\ ~wk[w].over) => (join[w].wired <=> worker[join[w].slot] = w)
    /\ \A s \in Slots :
          worker[s] # NoWorker => /\ wk[worker[s]].run = "up"
                                  /\ join[worker[s]].gen = launchGen[s]

\* A join request is answered at most once, whichever of the router, the spawn,
\* the worker and its death comes first.
AnsweredAtMostOnce == \A w \in Workers : answers[w] <= 1

\* A worker that was told of a router port keeps it while it is in the slot: no
\* grace timer, of an earlier worker or of a join that was stood down, takes the
\* port off the router under it.
HoleKeptForStream ==
    \A s \in Slots : (worker[s] # NoWorker /\ join[worker[s]].port) => hole[s]

\* Every join request is answered: by a refusal, by the worker, or because it
\* died; a join that waits for an earlier worker does not wait for ever.
EveryJoinAnswered ==
    \A w \in Workers : (join[w] # NoJoin) ~> (answers[w] = 1)

\* A guest whose stream was up loses it when the invitation it was up under
\* ends, by whatever way it ends: the worker's process goes.
StreamEndsWithInvitation ==
    \A w \in Workers :
        (litBy[w] # 0 /\ inv[join[w].slot].id # litBy[w]) ~> (wk[w].run = "gone")

\* "An invited player's router hole lasts as long as the guest does": a hole is
\* never left on the router with nobody in the slot.
HoleReturned ==
    \A s \in Slots : hole[s] ~> (~hole[s] \/ worker[s] # NoWorker)

-----------------------------------------------------------------------------
(***************************************************************************)
(* What comments in the code say and the code does not do.                 *)
(***************************************************************************)

\* main.cpp, on permissionsChanged: "A slot with no worker needs nothing: the
\* policy travels in its config when it starts."  Then a worker in the slot
\* always has the policy of the slot's live invitation.
PolicyFollowsBoard ==
    \A s \in Slots :
        (IsLive(inv, s) /\ worker[s] # NoWorker) => join[worker[s]].policy = inv[s].perms

\* main.cpp, in stopPlayerStream, on settling the flag: "without it a player who
\* left would stay "streaming" forever and never be able to rejoin their own
\* slot".  Then a slot without a worker does not go on saying it streams.
LeftPlayerCanRejoin ==
    \A s \in Slots :
        (IsLive(inv, s) /\ inv[s].streaming /\ worker[s] = NoWorker)
            ~> (worker[s] # NoWorker \/ ~inv[s].streaming)

\* main.cpp, at the end of startPlayerStream: "Wait for this slot's previous
\* child to release its ports."  Then no two processes of a slot run at once.
PortsReleasedFirst ==
    \A v, w \in Workers :
        (v # w /\ wk[v].run = "up" /\ wk[w].run = "up") => join[v].slot # join[w].slot
=============================================================================
