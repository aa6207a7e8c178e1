--------------------------- MODULE MCPlayerStream ---------------------------
(***************************************************************************)
(* Instances of PlayerStream for TLC.                                      *)
(***************************************************************************)
EXTENDS PlayerStream, TLC

\* Worker objects are interchangeable, and so are slots.
MCSymmetry == Permutations(Workers) \cup Permutations(Slots)

(***************************************************************************)
(* What the safety properties of player_safety depend on, now and in every *)
(* future.  A join that is settled (dropped, or its worker gone) is only   *)
(* an answer given; prev matters while it is waited for, retiring while    *)
(* that worker runs.  Permissions and policies guard nothing, and litBy    *)
(* serves StreamEndsWithInvitation alone.                                  *)
(***************************************************************************)
MCSettled(w) == join[w] # NoJoin /\ (join[w].stage = "dropped" \/ wk[w].run = "gone")

MCPending(j) == <<j.slot, j.stage, j.gen, j.port, j.wired,
                  IF j.stage = "waiting" THEN j.prev ELSE NoWorker>>

MCView ==
    <<opened, worker, launchGen, hole, holeTimer, answers,
      [s \in Slots |-> <<inv[s].id, inv[s].bound, inv[s].streaming>>],
      [s \in Slots |-> IF retiring[s] # NoWorker /\ wk[retiring[s]].run = "up"
                       THEN retiring[s] ELSE NoWorker],
      [w \in Workers |-> IF MCSettled(w) THEN <<"settled">>
                         ELSE IF join[w] = NoJoin THEN <<"unused">>
                         ELSE <<wk[w], MCPending(join[w])>>]>>
=============================================================================
