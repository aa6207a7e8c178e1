-------------------------- MODULE StreamWorkerHost --------------------------
(***************************************************************************)
(* One StreamWorkerHost (backend/src/streaming) and the child process it   *)
(* supervises (backend/src/streaming/worker): JSON lines down the child's  *)
(* stdin, events up its stdout, a kill timer behind every request to stop. *)
(*                                                                         *)
(* Three parties interleave: the host object on the server's main thread,  *)
(* the child's main thread (its session, and the commands its stdin pump   *)
(* queues there in order), and the child's relay thread, which applies     *)
(* input policies and client input.  The child may die at any instant, and *)
(* so may the server.                                                      *)
(*                                                                         *)
(* Abstractions.  A policy is the set of devices it lets through.  Timers  *)
(* are untimed: once armed they may fire at any later instant.  The notice *)
(* that goes to the browser with a teardown, the launch fallbacks of       *)
(* start(), and the coopSession, hostIpTtl and portalGrant events, which   *)
(* the host only passes on, are left out.  So is a request to stop a host  *)
(* object whose child is not running: it reaches nobody and kills nobody.  *)
(* A line is read whole or, after the server's death, not at all.          *)
(***************************************************************************)
EXTENDS Naturals, Sequences

CONSTANTS
    TheWorker,      \* the name of this worker in WorkerContract
    Devices,        \* what a policy allows or not: gamepad, keyboard and mouse
    MaxPolicies,    \* bound: setInputPolicy calls
    MaxAsks         \* bound: requests to stop

ASSUME WorkerAssumption == MaxPolicies \in Nat /\ MaxAsks \in Nat

VARIABLES
    host,       \* what the StreamWorkerHost object has seen and emitted
    server,     \* is the server process alive?
    proc,       \* the child process
    stdin,      \* lines written and not yet obeyed
    stdout,     \* events emitted and not yet read
    child,      \* WorkerState and the StreamSession, on the child's main thread
    relay       \* the relay, on its own thread

vars == <<host, server, proc, stdin, stdout, child, relay>>

Policies == SUBSET Devices

\* A stdin line.  The first one is the configuration, with the first policy.
Line == [cmd : {"config", "setPolicy"}, policy : Policies] \cup [cmd : {"teardown"}]

Event == {"ok", "error", "ended"}

TypeOK ==
    /\ host \in [run      : {"none", "up", "gone"},
                 reply    : {"none", "ok", "error"},  \* m_ResponseEmitted, and with what
                 over     : BOOLEAN,                  \* m_EndedEmitted
                 asked    : BOOLEAN,
                 timers   : 0..MaxAsks,               \* kill timers pending
                 asks     : 0..MaxAsks,
                 policies : 0..MaxPolicies,
                 sent     : Policies]                 \* the policy last handed over
    /\ server \in BOOLEAN
    /\ proc \in {"none", "up", "dead"}
    /\ stdin \in Seq(Line)
    /\ stdout \in Seq(Event)
    /\ child \in [session : {"unborn", "launching", "linked", "gone"},
                  policy  : Policies,                 \* StreamSession::m_InputPolicy
                  exiting : BOOLEAN]                  \* and "ended" emitted
    /\ relay \in [up     : BOOLEAN,
                  policy : Policies,
                  queue  : Seq(Policies),             \* setInputPolicy calls posted to its thread
                  held   : SUBSET Devices]            \* inputs pressed on the host

Init ==
    /\ host = [run |-> "none", reply |-> "none", over |-> FALSE, asked |-> FALSE,
               timers |-> 0, asks |-> 0, policies |-> 0, sent |-> {}]
    /\ server = TRUE
    /\ proc = "none"
    /\ stdin = <<>>
    /\ stdout = <<>>
    /\ child = [session |-> "unborn", policy |-> {}, exiting |-> FALSE]
    /\ relay = [up |-> FALSE, policy |-> {}, queue |-> <<>>, held |-> {}]

-----------------------------------------------------------------------------
(***************************************************************************)
(* The host object.                                                        *)
(***************************************************************************)

\* True from a successful start() until finished() is delivered.
isRunning == server /\ host.run = "up"

start(p) ==
    /\ server
    /\ host.run = "none"
    /\ host' = [host EXCEPT !.run = "up", !.sent = p]
    /\ proc' = "up"
    /\ stdin' = <<[cmd |-> "config", policy |-> p]>>
    /\ UNCHANGED <<server, stdout, child, relay>>

setInputPolicy(p) ==
    /\ isRunning
    /\ host.policies < MaxPolicies
    /\ host' = [host EXCEPT !.sent = p, !.policies = @ + 1]
    /\ stdin' = Append(stdin, [cmd |-> "setPolicy", policy |-> p])
    /\ UNCHANGED <<server, proc, stdout, child, relay>>

\* Mutant of askToStop: the notice is sent, no timer stands behind it.
askToStopNoTimer ==
    /\ isRunning
    /\ host.asks < MaxAsks
    /\ host' = [host EXCEPT !.asked = TRUE, !.asks = @ + 1]
    /\ stdin' = Append(stdin, [cmd |-> "teardown"])
    /\ UNCHANGED <<server, proc, stdout, child, relay>>

\* requestQuit, notifyTakenOver, notifyRevoked, notifySessionEnded: the line,
\* then a 5 s timer that kills.
askToStop ==
    /\ isRunning
    /\ host.asks < MaxAsks
    /\ host' = [host EXCEPT !.asked = TRUE, !.asks = @ + 1, !.timers = @ + 1]
    /\ stdin' = Append(stdin, [cmd |-> "teardown"])
    /\ UNCHANGED <<server, proc, stdout, child, relay>>

\* Mutant of KillTimer: a timer that fires although none was armed.
KillTimerUnarmed ==
    /\ server
    /\ host' = [host EXCEPT !.timers = @ - 1]
    /\ proc' = IF isRunning THEN "dead" ELSE proc
    /\ UNCHANGED <<server, stdin, stdout, child, relay>>

KillTimer ==
    /\ server
    /\ host.timers > 0
    /\ host' = [host EXCEPT !.timers = @ - 1]
    /\ proc' = IF isRunning THEN "dead" ELSE proc
    /\ UNCHANGED <<server, stdin, stdout, child, relay>>

\* One line of the child's stdout: each kind of event is passed on once.
onStdoutData ==
    /\ isRunning
    /\ stdout # <<>>
    /\ stdout' = Tail(stdout)
    /\ host' = IF Head(stdout) = "ended"
               THEN [host EXCEPT !.over = TRUE]
               ELSE [host EXCEPT !.reply = IF @ = "none" THEN Head(stdout) ELSE @]
    /\ UNCHANGED <<server, proc, stdin, child, relay>>

\* Mutant of onFinished: the exit is reported, an answer still owed is not.
onFinishedNoAnswer ==
    /\ isRunning
    /\ proc = "dead"
    /\ stdout = <<>>
    /\ host' = [host EXCEPT !.run = "gone", !.over = TRUE]
    /\ UNCHANGED <<server, proc, stdin, stdout, child, relay>>

\* finished() follows the last of the child's output.  What the child did not
\* say is said for it: 502, then ended, then exited.
onFinished ==
    /\ isRunning
    /\ proc = "dead"
    /\ stdout = <<>>
    /\ host' = [host EXCEPT !.run = "gone",
                            !.reply = IF @ = "none" THEN "error" ELSE @,
                            !.over = TRUE]
    /\ UNCHANGED <<server, proc, stdin, stdout, child, relay>>

\* ~StreamWorkerHost while the child runs: an orderly end of the server kills it.
Destroyed ==
    /\ isRunning
    /\ server' = FALSE
    /\ proc' = "dead"
    /\ UNCHANGED <<host, stdin, stdout, child, relay>>

\* The server dies without running a destructor.
ServerDies ==
    /\ server
    /\ server' = FALSE
    /\ UNCHANGED <<host, proc, stdin, stdout, child, relay>>

-----------------------------------------------------------------------------
(***************************************************************************)
(* The child, main thread.                                                 *)
(***************************************************************************)

Configured == proc = "up" /\ child.session # "unborn"

StoppedRelay == [relay EXCEPT !.up = FALSE]

\* teardownAndExit, with c and r the session and relay it finds and `said` the
\* answer emitted just before: the relay stopped, "ended" emitted, and the
\* process quits 3 s later.  A second call does nothing.
teardownAndExit(c, r, said) ==
    /\ child' = [c EXCEPT !.exiting = TRUE]
    /\ stdout' = stdout \o said \o (IF c.exiting THEN <<>> ELSE <<"ended">>)
    /\ relay' = IF c.exiting THEN r ELSE StoppedRelay

\* The first line: the session starts launching with the policy it carries.
ReadConfig ==
    /\ proc = "up"
    /\ child.session = "unborn"
    /\ stdin # <<>>
    /\ stdin' = Tail(stdin)
    /\ child' = [child EXCEPT !.session = "launching", !.policy = Head(stdin).policy]
    /\ UNCHANGED <<host, server, proc, stdout, relay>>

\* No configuration, or half of one: runStreamWorker returns.
NoConfig ==
    /\ proc = "up"
    /\ child.session = "unborn"
    /\ ~server
    /\ proc' = "dead"
    /\ UNCHANGED <<host, server, stdin, stdout, child, relay>>

\* The host answered the launch: relayCreated.
RelayCreated ==
    /\ Configured
    /\ child.session = "launching"
    /\ child' = [child EXCEPT !.session = "linked"]
    /\ relay' = [relay EXCEPT !.up = TRUE, !.policy = child.policy]
    /\ UNCHANGED <<host, server, proc, stdin, stdout>>

\* onShimConnectionStarted: the 200 answer; the session is done, its relay lives on.
ConnectionStarted ==
    /\ Configured
    /\ child.session = "linked"
    /\ child' = [child EXCEPT !.session = "gone"]
    /\ stdout' = Append(stdout, "ok")
    /\ UNCHANGED <<host, server, proc, stdin, relay>>

\* Mutant of SessionFailed: the error is answered, nobody ends the process.
SessionFailedStays ==
    /\ Configured
    /\ child.session \in {"launching", "linked"}
    /\ child' = [child EXCEPT !.session = "gone"]
    /\ stdout' = stdout \o <<"error", "ended">>
    /\ relay' = StoppedRelay
    /\ UNCHANGED <<host, server, proc, stdin>>

\* Launch refused, listener not bound or connection failed: the error answer,
\* then sessionFailed.  (A relay that exists by then is stopped with it.)
SessionFailed ==
    /\ Configured
    /\ child.session \in {"launching", "linked"}
    /\ teardownAndExit([child EXCEPT !.session = "gone"], StoppedRelay, <<"error">>)
    /\ UNCHANGED <<host, server, proc, stdin>>

\* The relay's sessionEnded.  A session still linked quits without answering.
RelayEnded ==
    /\ Configured
    /\ relay.up
    /\ teardownAndExit([child EXCEPT !.session = IF @ = "linked" THEN "gone" ELSE @], StoppedRelay, <<>>)
    /\ UNCHANGED <<host, server, proc, stdin>>

\* Mutant of ApplyPolicy: the session is told, the relay that outlives it is not.
ApplyPolicySessionOnly(p) ==
    /\ child' = [child EXCEPT !.policy = p]
    /\ relay' = IF relay.up /\ child.session = "linked" THEN [relay EXCEPT !.queue = Append(@, p)] ELSE relay

\* The session while there is one (it will build the relay), and the relay once
\* there is one.
ApplyPolicy(p) ==
    /\ child' = [child EXCEPT !.policy = p]
    /\ relay' = IF relay.up THEN [relay EXCEPT !.queue = Append(@, p)] ELSE relay

ObeyPolicy ==
    /\ Configured
    /\ stdin # <<>>
    /\ Head(stdin).cmd = "setPolicy"
    /\ stdin' = Tail(stdin)
    /\ ApplyPolicy(Head(stdin).policy)
    /\ UNCHANGED <<host, server, proc, stdout>>

ObeyTeardown ==
    /\ Configured
    /\ stdin # <<>>
    /\ Head(stdin).cmd = "teardown"
    /\ stdin' = Tail(stdin)
    /\ teardownAndExit(child, relay, <<>>)
    /\ UNCHANGED <<host, server, proc>>

\* Mutant of StdinClosed: the pump stops at the end of its input, the child does not.
StdinClosedIgnored ==
    /\ Configured /\ ~server
    /\ stdin = <<>>
    /\ UNCHANGED vars

\* EOF: "the parent is gone - never stream without a supervisor".
StdinClosed ==
    /\ Configured
    /\ ~server
    /\ stdin = <<>>
    /\ ~child.exiting
    /\ teardownAndExit(child, relay, <<>>)
    /\ UNCHANGED <<host, server, proc, stdin>>

\* The 3 s timer of teardownAndExit.
Quit ==
    /\ Configured
    /\ child.exiting
    /\ proc' = "dead"
    /\ UNCHANGED <<host, server, stdin, stdout, child, relay>>

Crash ==
    /\ proc = "up"
    /\ proc' = "dead"
    /\ UNCHANGED <<host, server, stdin, stdout, child, relay>>

-----------------------------------------------------------------------------
(***************************************************************************)
(* The child, relay thread.                                                *)
(***************************************************************************)

\* Mutant of SetRelayPolicy: what the old policy held down stays down.
SetRelayPolicyKeepsHeld ==
    /\ proc = "up" /\ relay.up
    /\ relay.queue # <<>>
    /\ relay' = [relay EXCEPT !.policy = Head(relay.queue), !.queue = Tail(@)]
    /\ UNCHANGED <<host, server, proc, stdin, stdout, child>>

\* The new policy, then releaseHeldInputs: the guest could not lift a key the
\* policy no longer lets through.
SetRelayPolicy ==
    /\ proc = "up" /\ relay.up
    /\ relay.queue # <<>>
    /\ relay' = [relay EXCEPT !.policy = Head(relay.queue), !.queue = Tail(@), !.held = {}]
    /\ UNCHANGED <<host, server, proc, stdin, stdout, child>>

\* The client presses or lifts something; the policy filters both.
ClientInput(d) ==
    /\ proc = "up" /\ relay.up
    /\ child.session = "gone"
    /\ d \in relay.policy
    /\ relay' = [relay EXCEPT !.held = IF d \in @ THEN @ \ {d} ELSE @ \cup {d}]
    /\ UNCHANGED <<host, server, proc, stdin, stdout, child>>

HostStep ==
    \/ \E p \in Policies : start(p) \/ setInputPolicy(p)
    \/ askToStop
    \/ KillTimer
    \/ onStdoutData
    \/ onFinished
    \/ Destroyed
    \/ ServerDies

ChildStep ==
    \/ ReadConfig
    \/ NoConfig
    \/ RelayCreated
    \/ ConnectionStarted
    \/ SessionFailed
    \/ RelayEnded
    \/ ObeyPolicy
    \/ ObeyTeardown
    \/ StdinClosed
    \/ Quit
    \/ Crash
    \/ SetRelayPolicy
    \/ \E d \in Devices : ClientInput(d)

Next == HostStep \/ ChildStep

Spec == Init /\ [][Next]_vars

\* While the server lives its event loop runs: armed timers fire, output is
\* read and a death is noticed.  Nothing is assumed of the child.
HostFairness == WF_vars(KillTimer) /\ WF_vars(onStdoutData) /\ WF_vars(onFinished)

\* A child that is not wedged: its main thread takes commands and its own
\* timer, but no host on the network need ever answer.
ChildFairness ==
    /\ WF_vars(ReadConfig) /\ WF_vars(NoConfig)
    /\ WF_vars(ObeyPolicy) /\ WF_vars(ObeyTeardown)
    /\ WF_vars(StdinClosed) /\ WF_vars(Quit)

WedgedChildSpec == Spec /\ HostFairness

-----------------------------------------------------------------------------
(***************************************************************************)
(* Properties.                                                             *)
(***************************************************************************)

Contract == INSTANCE WorkerContract
            WITH Workers <- {TheWorker},
                 wk <- [w \in {TheWorker} |->
                           [run |-> host.run, reply |-> host.reply,
                            over |-> host.over, asked |-> host.asked]]

\* StreamWorkerHost keeps what its header says of responseReady, ended and
\* exited: each exactly once, exited last, with the missing ones made up for,
\* whatever the child does and whenever it dies.
ImplementsContract == Contract!WkSpec

\* The policy in force is the last one sent, once nothing is under way: no
\* setPolicy is lost between the session that launches and the relay that
\* outlives it (StreamWorkerMain's applyPolicyToLiveGraph), or overtaken by an
\* older one.
LastPolicyInForce ==
    (proc = "up" /\ relay.up /\ stdin = <<>> /\ relay.queue = <<>>)
        => relay.policy = host.sent

\* A demotion leaves nothing pressed that the guest may no longer lift.
NoStuckInput == relay.held \subseteq relay.policy

\* A worker that was asked to stop goes, even one that is wedged: the kill timer
\* behind every request is enough.
StoppedWorkerGoes == host.asked ~> (host.run = "gone" \/ ~server)

\* A worker that reported the end of its session frees its ports: ended leads to
\* exited although nobody asked it to stop, provided its main thread runs.
EndedWorkerExits == ChildFairness => (host.over ~> (host.run = "gone" \/ ~server))

\* "Never stream without a supervisor": when the server is gone, a worker whose
\* main thread runs goes too, in whatever state of its launch it is.
NoOrphan == ChildFairness => (~server ~> proc # "up")
=============================================================================
