------------------------- MODULE VirtualDisplayJob -------------------------
(***************************************************************************)
(* The server's queue of operations on the virtual display                 *)
(* (VirtualDisplayJob), the elevated helper that carries one out           *)
(* (VirtualDisplayApply) and the desktop the helper works on.              *)
(*                                                                         *)
(* One operation runs at a time.  It writes a request file and starts a    *)
(* helper: a child process ("elevated"), one child per stage ("service"),  *)
(* or a scheduled task whose only answer is a result file ("task").  A     *)
(* child's end is heard for as long as the job object lives, whatever      *)
(* operation is running by then.                                           *)
(*                                                                         *)
(* Left out: Linux (the display lives in the stream) and macOS (it is an   *)
(* object of the server), machines without the driver, the verbs of the    *)
(* installer, a driver that wants a reboot, layouts of displays beyond     *)
(* which one is the primary.  A caller's launch is taken to succeed once   *)
(* it has its display.  Callbacks that call the job again: no caller does. *)
(***************************************************************************)
EXTENDS Integers, Sequences, FiniteSets, FiniteSetsExt, SequencesExt

CONSTANTS
    Callers,        \* launches that ask for the display, once each
    Modes,          \* size, rate and HDR asked for; 0 asks for nothing
    Methods,        \* the ways to elevate of the machines considered
    MaxCrashes,     \* bound: how often the server dies
    NoReq, NoResult

ASSUME DisplayAssumption ==
    /\ 0 \in Modes
    /\ Methods \subseteq {"elevated", "service", "task"}
    /\ MaxCrashes \in Nat

VARIABLES
    method,     \* VirtualDisplay::probe().method, with MW_SERVICE for "service"
    job,        \* the object's members
    asks,       \* caller -> where its launch stands
    release,    \* m_Release is running
    record,     \* AppSettings: previous_primary ("blank": recorded as unknown)
    request,    \* request.json
    result,     \* result.json
    helpers,    \* id -> a running helper process
    desk,       \* is our display on, which display is primary, topology.bin
    crashes,
    stray,      \* history: a helper has outlived the operation that started it
    lostTrack   \* history: nothing says which display was the primary before

vars == <<method, job, asks, release, record, request, result, helpers, desk, crashes, stray, lostTrack>>

Primaries == {"theirs", "ours", "picked"}
Stages == {"snapshot", "driver", "mode"}
Request == [action : {"Activate", "Deactivate"}, mode : Modes, restore : Primaries \cup {"blank", "none"}]
Result == [ok : BOOLEAN, previous : Primaries \cup {"blank"}]

Job ==
    [state : {"Idle", "Running", "Done", "Failed"},
     action : {"Activate", "Deactivate"}, mode : Modes,
     callbacks : SUBSET Callers,
     queue : Seq([action : {"Activate", "Deactivate"}, mode : Modes, callbacks : SUBSET Callers]),
     nextStages : Seq(Stages),
     schtasks : BOOLEAN, deadline : BOOLEAN, poll : BOOLEAN,
     activeMode : Modes]

Helper ==
    [arg : Stages \cup {"all"}, req : Request \cup {NoReq}, todo : Seq(Stages),
     ready : BOOLEAN, ok : BOOLEAN, previous : Primaries \cup {"blank"}]

TypeOK ==
    /\ method \in Methods
    /\ job \in Job
    /\ asks \in [Callers -> {"home", "waiting", "streaming", "refused", "gone"}]
    /\ release \in BOOLEAN
    /\ record \in Primaries \cup {"blank", "none"}
    /\ request \in Request \cup {NoReq}
    /\ result \in Result \cup {NoResult}
    /\ DOMAIN helpers \subseteq Nat /\ \A i \in DOMAIN helpers : helpers[i] \in Helper
    /\ desk \in [on : BOOLEAN, primary : Primaries, layout : Primaries \cup {"none"}]
    /\ crashes \in 0..MaxCrashes
    /\ stray \in BOOLEAN
    /\ lostTrack \in BOOLEAN

NewJob ==
    [state |-> "Idle", action |-> "Activate", mode |-> 0, callbacks |-> {}, queue |-> <<>>,
     nextStages |-> <<>>, schtasks |-> FALSE, deadline |-> FALSE, poll |-> FALSE, activeMode |-> 0]

Init ==
    /\ method \in Methods
    /\ job = NewJob
    /\ asks = [c \in Callers |-> "home"]
    /\ release = FALSE
    /\ record = "none"
    /\ request = NoReq
    /\ result = NoResult
    /\ helpers = <<>>
    /\ desk = [on |-> FALSE, primary |-> "theirs", layout |-> "none"]
    /\ crashes = 0
    /\ stray = FALSE
    /\ lostTrack = FALSE

running == job.state = "Running"

-----------------------------------------------------------------------------
(***************************************************************************)
(* Starting, ending and joining operations.  The pieces below give the     *)
(* next values of job, asks, request, result, helpers.                     *)
(***************************************************************************)

\* Mutant of stagesOf: the node goes before the layout is put back.
stagesOfNodeFirst(action) ==
    IF action = "Activate" THEN <<"snapshot", "driver", "mode">> ELSE <<"driver", "mode">>

stagesOf(action) ==
    IF action = "Activate" THEN <<"snapshot", "driver", "mode">> ELSE <<"mode", "driver">>

NewHelper(arg) ==
    [arg |-> arg, req |-> NoReq, todo |-> <<>>, ready |-> FALSE, ok |-> TRUE, previous |-> "blank"]

WithHelper(hs, arg) ==
    LET id == Min((1..Cardinality(DOMAIN hs) + 1) \ DOMAIN hs)
    IN  [i \in DOMAIN hs \cup {id} |-> IF i = id THEN NewHelper(arg) ELSE hs[i]]

Told(as, cs, at) == [c \in Callers |-> IF c \in cs THEN at ELSE as[c]]

\* startNext and dispatch on the queue q, the callers standing as in `as'.  An
\* operation may fail on the spot (no way to elevate, no staging directory, no
\* child): its callers hear so and the next one starts.
startNext(q, rest, as, hs, rec) ==
    \E k \in 0..Len(q) :
        /\ asks' = Told(as, UNION {q[i].callbacks : i \in 1..k}, "refused")
        /\ result' = NoResult
        /\ IF k = Len(q)
           THEN /\ job' = IF k = 0 THEN rest
                          ELSE [rest EXCEPT !.state = "Failed", !.action = q[k].action, !.mode = q[k].mode,
                                            !.queue = <<>>, !.nextStages = <<>>]
                /\ request' = NoReq
                /\ helpers' = hs
           ELSE LET op == q[k + 1]
                IN  /\ job' = [rest EXCEPT
                                 !.state = "Running", !.action = op.action, !.mode = op.mode,
                                 !.callbacks = op.callbacks,
                                 !.queue = SubSeq(q, k + 2, Len(q)),
                                 !.nextStages = IF method = "service" THEN Tail(stagesOf(op.action)) ELSE <<>>,
                                 !.schtasks = method = "task",
                                 !.deadline = method # "task"]
                    /\ request' = [action |-> op.action, mode |-> op.mode,
                                   restore |-> IF op.action = "Deactivate" THEN rec ELSE "none"]
                    /\ helpers' = CASE method = "elevated" -> WithHelper(hs, "all")
                                    [] method = "service"  -> WithHelper(hs, Head(stagesOf(op.action)))
                                    [] method = "task"     -> hs

\* Mutant of Same: the verb is not compared, only the mode.
SameMode(a, b) == a.mode = b.mode

Same(a, b) == a.action = b.action /\ a.mode = b.mode

\* enqueue: join the running or the last queued operation if it is the same one.
enqueue(action, mode, cs) ==
    LET op == [action |-> action, mode |-> mode, callbacks |-> cs]
        n  == Len(job.queue)
        waits == Told(asks, cs, "waiting")
        held(j) == job' = j /\ asks' = waits /\ UNCHANGED <<request, result, helpers>>
    IN  IF running /\ n = 0 /\ Same(job, op) THEN held([job EXCEPT !.callbacks = @ \cup cs])
        ELSE IF n > 0 /\ Same(job.queue[n], op) THEN held([job EXCEPT !.queue[n].callbacks = @ \cup cs])
        ELSE IF running THEN held([job EXCEPT !.queue = Append(@, op)])
        ELSE startNext(<<op>>, job, waits, helpers, record)

\* fail
Fail(hs) ==
    /\ startNext(job.queue,
                 [job EXCEPT !.state = "Failed", !.callbacks = {}, !.schtasks = FALSE,
                             !.deadline = FALSE, !.poll = FALSE],
                 Told(asks, job.callbacks, "refused"), hs, record)
    /\ UNCHANGED record

\* succeed: what Activate saw is kept for the way back, Deactivate clears it.
Succeed(res, hs) ==
    LET on == job.action = "Activate"
    IN  /\ record' = IF on THEN res.previous ELSE "none"
        /\ startNext(job.queue,
                     [job EXCEPT !.state = "Done", !.callbacks = {}, !.deadline = FALSE, !.poll = FALSE,
                                 !.activeMode = IF on THEN job.mode ELSE 0],
                     Told(asks, job.callbacks, "streaming"), hs, record')

\* Mutant of handleResult: the next stage runs without a deadline.
handleResultNoDeadline(res, hs) ==
    IF ~res.ok THEN Fail(hs)
    ELSE IF job.nextStages # <<>>
    THEN /\ job' = [job EXCEPT !.state = "Running", !.nextStages = Tail(@), !.deadline = FALSE]
         /\ helpers' = WithHelper(hs, Head(job.nextStages))
         /\ result' = NoResult
         /\ UNCHANGED <<asks, request, record>>
    ELSE Succeed(res, hs)

\* handleResult: an error, the next stage, or the end.
handleResult(res, hs) ==
    IF ~res.ok THEN Fail(hs)
    ELSE IF job.nextStages # <<>>
    THEN /\ job' = [job EXCEPT !.state = "Running", !.nextStages = Tail(@), !.deadline = TRUE]
         /\ helpers' = WithHelper(hs, Head(job.nextStages))
         /\ result' = NoResult
         /\ UNCHANGED <<asks, request, record>>
    ELSE Succeed(res, hs)

-----------------------------------------------------------------------------
(***************************************************************************)
(* The job's entry points and timers.                                      *)
(***************************************************************************)

\* Already on, in the mode this process last applied: answered at once, unless
\* the engine's list of displays is not up to date yet.
OnAlready(m) == ~running /\ job.queue = <<>> /\ desk.on /\ m \in {0, job.activeMode}

activate(c, m) ==
    /\ asks[c] = "home"
    /\ release' = FALSE
    /\ \/ /\ OnAlready(m)
          /\ asks' = [asks EXCEPT ![c] = "streaming"]
          /\ UNCHANGED <<job, request, result, helpers>>
       \/ enqueue("Activate", m, {c})
    /\ UNCHANGED <<method, record, desk, crashes, stray, lostTrack>>

\* releaseSoon: the last stream on the display has ended.
StreamEnds(c) ==
    /\ asks[c] = "streaming"
    /\ asks' = [asks EXCEPT ![c] = "gone"]
    /\ release' = (release \/ \A d \in Callers \ {c} : asks[d] # "streaming")
    /\ UNCHANGED <<method, job, record, request, result, helpers, desk, crashes, stray, lostTrack>>

\* deactivate(nullptr), from the release timer.
ReleaseTimeout ==
    /\ release
    /\ release' = FALSE
    /\ IF ~running /\ job.queue = <<>> /\ ~desk.on
       THEN /\ record' = "none"
            /\ UNCHANGED <<job, asks, request, result, helpers>>
       ELSE /\ enqueue("Deactivate", 0, {})
            /\ UNCHANGED record
    /\ UNCHANGED <<method, desk, crashes, stray, lostTrack>>

\* The deadline: the operation has failed, its helper may still be at work.
DeadlineTimeout ==
    /\ job.deadline
    /\ Fail(helpers)
    /\ stray' = (stray \/ DOMAIN helpers # {})
    /\ UNCHANGED <<method, release, desk, crashes, lostTrack>>

\* Mutant of SchtasksFinished: the wait for the result has no deadline.
SchtasksFinishedNoDeadline ==
    /\ job.schtasks
    /\ \/ /\ Fail(helpers)
       \/ /\ job' = [job EXCEPT !.schtasks = FALSE, !.poll = TRUE]
          /\ helpers' = WithHelper(helpers, "all")
          /\ UNCHANGED <<asks, record, request, result>>
    /\ UNCHANGED <<method, release, desk, crashes, stray, lostTrack>>

\* schtasks /Run has ended.  No deadline runs before that.
SchtasksFinished ==
    /\ job.schtasks
    /\ \/ /\ Fail(helpers)
       \/ /\ job' = [job EXCEPT !.schtasks = FALSE, !.deadline = TRUE, !.poll = TRUE]
          /\ helpers' = WithHelper(helpers, "all")
          /\ UNCHANGED <<asks, record, request, result>>
    /\ UNCHANGED <<method, release, desk, crashes, stray, lostTrack>>

pollResult ==
    /\ job.poll
    /\ result # NoResult
    /\ handleResult(result, helpers)
    /\ UNCHANGED <<method, release, desk, crashes, stray, lostTrack>>

-----------------------------------------------------------------------------
(***************************************************************************)
(* The helper.                                                             *)
(***************************************************************************)

\* run: the request is whatever the file holds by then.
HelperReads(i) ==
    LET h == helpers[i]
    IN  /\ ~h.ready
        /\ helpers' = [helpers EXCEPT ![i] =
                         [h EXCEPT !.ready = TRUE, !.req = request, !.ok = request # NoReq,
                                   !.todo = IF request = NoReq THEN <<>>
                                            ELSE IF h.arg = "all" THEN stagesOf(request.action)
                                            ELSE <<h.arg>>]]
        /\ UNCHANGED <<method, job, asks, release, record, request, result, desk, crashes, stray, lostTrack>>

\* Mutant of Restored: no check for an unknown primary.
RestoredUnchecked(req) == req.restore

\* The primary on the way back when no layout was kept.
Restored(req) == IF req.restore \in {"none", "blank"} THEN desk.primary ELSE req.restore

\* What a stage does to the desktop.  Windows gives the primary role to a display
\* of its own choice when the one that holds it goes.
StageEffect(stage, req) ==
    CASE stage = "snapshot" /\ req.action = "Activate" -> {[desk EXCEPT !.layout = l] : l \in {desk.primary, "none"}}
      [] stage = "driver" /\ req.action = "Activate" ->
            \* Already on, the node restarts if its list of modes has changed.
            {[desk EXCEPT !.on = TRUE, !.primary = p] :
                p \in {desk.primary} \cup (IF desk.primary = "ours" THEN {"picked"} ELSE {})}
      [] stage = "mode" /\ req.action = "Activate" -> {[desk EXCEPT !.primary = "ours"]}
      [] stage = "mode" /\ req.action = "Deactivate" ->
            {[desk EXCEPT !.layout = "none", !.primary = p] :
                p \in {Restored(req)} \cup (IF desk.layout # "none" THEN {desk.layout} ELSE {})}
      [] stage = "driver" /\ req.action = "Deactivate" ->
            {[desk EXCEPT !.on = FALSE, !.primary = IF @ = "ours" THEN "picked" ELSE @]}
      [] OTHER -> {desk}

HelperStage(i) ==
    LET h == helpers[i]
    IN  /\ h.todo # <<>>
        /\ desk' \in StageEffect(Head(h.todo), h.req)
        /\ helpers' = [helpers EXCEPT ![i] =
                         [h EXCEPT !.todo = Tail(@),
                                   !.previous = IF Head(h.todo) = "mode" /\ h.req.action = "Activate"
                                                    /\ desk.primary # "ours" THEN desk.primary ELSE @]]
        /\ lostTrack' = /\ desk'.on \/ desk'.primary # "theirs"
                        /\ \/ lostTrack
                           \/ desk.on /\ Head(h.todo) = "snapshot"
                           \/ /\ Head(h.todo) = "mode" /\ h.req.action = "Deactivate"
                              /\ desk'.primary # desk.layout /\ h.req.restore \in {"none", "blank"}
        /\ UNCHANGED <<method, job, asks, release, record, request, result, crashes, stray>>

\* The node cannot be switched, the display does not appear.
HelperStageFails(i) ==
    LET h == helpers[i]
    IN  /\ h.todo # <<>>
        /\ Head(h.todo) = "driver" \/ (Head(h.todo) = "mode" /\ h.req.action = "Activate")
        /\ helpers' = [helpers EXCEPT ![i] = [h EXCEPT !.todo = <<>>, !.ok = FALSE]]
        /\ UNCHANGED <<method, job, asks, release, record, request, result, desk, crashes, stray, lostTrack>>

Without(i) == [j \in DOMAIN helpers \ {i} |-> helpers[j]]

\* finish: the verdict is in the result file; the end of a child is heard too.
HelperEnds(i) ==
    LET h   == helpers[i]
        res == [ok |-> h.ok, previous |-> h.previous]
    IN  /\ h.ready /\ h.todo = <<>>
        /\ IF method # "task"
           THEN handleResult(res, Without(i))
           ELSE /\ helpers' = Without(i)
                /\ result' = res
                /\ UNCHANGED <<job, asks, record, request>>
        /\ UNCHANGED <<method, release, desk, crashes, stray, lostTrack>>

\* It dies without a result.
HelperDies(i) ==
    /\ IF method # "task"
       THEN Fail(Without(i))
       ELSE /\ helpers' = Without(i)
            /\ UNCHANGED <<job, asks, record, request, result>>
    /\ UNCHANGED <<method, release, desk, crashes, stray, lostTrack>>

\* Mutant of resetAtStartup: the display is left as the last process left it.
resetAtStartupNot(as) ==
    job' = NewJob /\ asks' = as /\ helpers' = <<>> /\ UNCHANGED <<record, request, result>>

\* resetAtStartup
resetAtStartup(as) ==
    IF desk.on
    THEN /\ startNext(<<[action |-> "Deactivate", mode |-> 0, callbacks |-> {}]>>, NewJob, as, <<>>, record)
         /\ UNCHANGED record
    ELSE /\ job' = NewJob
         /\ asks' = as
         /\ helpers' = <<>>
         /\ record' = "none"
         /\ UNCHANGED <<request, result>>

\* The server is killed and started again.  Whatever helper was at work is gone
\* by then, with some of its stages done.
Restart ==
    /\ crashes < MaxCrashes
    /\ crashes' = crashes + 1
    /\ release' = FALSE
    /\ resetAtStartup(Told(asks, {c \in Callers : asks[c] # "home"}, "gone"))
    /\ UNCHANGED <<method, desk, stray, lostTrack>>

-----------------------------------------------------------------------------

Helpers == \E i \in DOMAIN helpers :
    HelperReads(i) \/ HelperStage(i) \/ HelperStageFails(i) \/ HelperEnds(i) \/ HelperDies(i)

Timers == ReleaseTimeout \/ DeadlineTimeout \/ pollResult

Next ==
    \/ \E c \in Callers, m \in Modes : activate(c, m)
    \/ \E c \in Callers : StreamEnds(c)
    \/ Timers
    \/ SchtasksFinished
    \/ Helpers
    \/ Restart

Spec == Init /\ [][Next]_vars

\* Timers fire and schtasks returns.  Of the helper nothing is assumed.
FairSpec ==
    /\ Spec
    /\ WF_vars(ReleaseTimeout)
    /\ WF_vars(DeadlineTimeout)
    /\ WF_vars(SchtasksFinished)

-----------------------------------------------------------------------------
(***************************************************************************)
(* Properties.                                                             *)
(***************************************************************************)

Queued == UNION {job.queue[i].callbacks : i \in 1..Len(job.queue)}

\* Everyone who waits is known to the running operation or to a queued one, not
\* both, and a running operation always has something that will end it: however
\* ends, deadlines and the ends of earlier helpers interleave.
NobodyForgotten ==
    /\ {c \in Callers : asks[c] = "waiting"} = job.callbacks \cup Queued
    /\ job.callbacks \cap Queued = {}
    /\ running => job.schtasks \/ job.deadline
    /\ ~running => job.queue = <<>> /\ job.callbacks = {}

\* A launch told that it has its display has it, as long as no helper has outlived
\* its operation.
ToldTheTruth ==
    [][\A c \in Callers : (asks[c] # "streaming" /\ asks'[c] = "streaming" /\ ~stray) => desk'.on]_vars

\* When the display goes off the primary role is back where it was, by the layout
\* or by the record where the layout could not be saved or applied; unless the
\* display was activated while on, neither was there (the activation failed or was
\* cut short), or a helper has outlived its operation.
PrimaryBack ==
    [][(desk.on /\ ~desk'.on /\ ~stray /\ ~lostTrack) => desk'.primary = "theirs"]_vars

\* Every launch hears back, even if no helper ever ends.
EveryoneAnswered == \A c \in Callers : (asks[c] = "waiting") ~> (asks[c] # "waiting")

\* A display nobody wants goes off, after the last stream as after a crash, unless
\* an operation failed or was overtaken.
Wanted == \E c \in Callers : asks[c] \in {"waiting", "streaming"}
OffInTheEnd == (desk.on /\ ~Wanted) ~> (~desk.on \/ Wanted \/ job.state = "Failed" \/ stray)
=============================================================================
