---------------------------- MODULE MCOwnerSlots ----------------------------
(* Instances of OwnerSlots for TLC. *)
EXTENDS OwnerSlots, TLC

MCSymmetry == Permutations(Workers)

\* States that differ only in what no step and no property reads are one: the
\* resume hint, how many launches a slot has seen (only whether one is the
\* newest), and what a worker that is gone or never ran was launched for.
Dead(w) == launch[w] # NoLaunch /\ (launch[w].stage = "dropped" \/ wk[w].run = "gone")

MCView ==
    <<slot, guestUid, pending, app, release, answers,
      [w \in Workers |->
          IF launch[w] = NoLaunch THEN "unused"
          ELSE IF Dead(w) THEN "dead"
          ELSE <<[launch[w] EXCEPT !.gen = IF IsLatest(w) THEN 1 ELSE 0], wk[w]>>]>>
=============================================================================
