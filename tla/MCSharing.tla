----------------------------- MODULE MCSharing -----------------------------
(***************************************************************************)
(* What must happen in the end, to an invitation (ShareManager) and to the *)
(* streams of those who hold it (PlayerStream), on small instances.  A     *)
(* behaviour is of one of the two: PlayerStream runs on what ShareManager  *)
(* is shown to promise (Invitations), not on ShareManager itself.          *)
(***************************************************************************)
EXTENDS MCShareManager

CONSTANTS MaxOpened, Workers, NoWorker

VARIABLES part, inv, opened, wk, worker, retiring, launchGen, join, hole, holeTimer, answers, litBy

playerVars == <<inv, opened, wk, worker, retiring, launchGen, join, hole, holeTimer, answers, litBy>>

Players == INSTANCE PlayerStream WITH Perms <- {Viewer}

MCInit == part \in {"invitation", "streams"} /\ Init /\ Players!Init

MCNext ==
    \/ part = "invitation" /\ Next /\ UNCHANGED <<part, playerVars>>
    \/ part = "streams" /\ Players!Next /\ UNCHANGED <<part, vars>>

\* The clock and the sweep are ShareManager's; a behaviour of the streams is not
\* one of its.
MCSpec ==
    /\ MCInit
    /\ [][MCNext]_<<part, vars, playerVars>>
    /\ WF_<<part, vars>>(part = "invitation" /\ Tick /\ UNCHANGED part)
    /\ WF_<<part, vars>>(part = "invitation" /\ Sweep /\ UNCHANGED part)
    /\ Players!Fairness

\* Every join is answered (PlayerStream).
EveryJoinAnswered == Players!EveryJoinAnswered

\* No stream outlives the invitation it was up under (PlayerStream).
StreamEndsWithInvitation == Players!StreamEndsWithInvitation

\* A slot's port goes back to the router (PlayerStream).
HoleReturned == Players!HoleReturned
=============================================================================
