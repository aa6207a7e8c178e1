--------------------------- MODULE WorkerContract ---------------------------
(***************************************************************************)
(* What the server sees of stream workers: each is a child process behind  *)
(* a StreamWorkerHost object that reports one answer to the start request, *)
(* one end of the stream, and the end of the process, which is the last    *)
(* thing it reports and stands for whichever of the other two is missing.  *)
(* A worker may be asked to stop; what it had to say may still arrive      *)
(* afterwards, and its answer may even follow its end.                     *)
(*                                                                         *)
(* StreamWorkerHost (with the child it talks to) implements this; the      *)
(* modules that place workers in session slots are built on it.            *)
(***************************************************************************)
EXTENDS Naturals

CONSTANT Workers    \* StreamWorkerHost objects, one per attempt to start a stream

VARIABLE wk

Worker ==
    [run   : {"none", "up", "gone"},
     reply : {"none", "ok", "error"},   \* responseReady
     over  : BOOLEAN,                   \* ended
     asked : BOOLEAN]                   \* quit, takenOver, revoked or sessionEnded sent

WkTypeOK == wk \in [Workers -> Worker]

WkInit == wk = [w \in Workers |-> [run |-> "none", reply |-> "none", over |-> FALSE, asked |-> FALSE]]

Spawn(w) ==
    /\ wk[w].run = "none"
    /\ wk' = [wk EXCEPT ![w].run = "up"]

\* Commands only reach a running child.
AskAll(W) ==
    wk' = [w \in Workers |-> IF w \in W /\ wk[w].run = "up" THEN [wk[w] EXCEPT !.asked = TRUE]
                                                            ELSE wk[w]]

Reply(w, r) ==
    /\ wk[w].run = "up"
    /\ wk[w].reply = "none"
    /\ wk' = [wk EXCEPT ![w].reply = r]

Over(w) ==
    /\ wk[w].run = "up"
    /\ ~wk[w].over
    /\ wk' = [wk EXCEPT ![w].over = TRUE]

Exit(w) ==
    /\ wk[w].run = "up"
    /\ wk' = [wk EXCEPT ![w].run = "gone",
                        ![w].reply = IF @ = "none" THEN "error" ELSE @,
                        ![w].over = TRUE]

WkNext ==
    \/ \E w \in Workers :
          \/ Spawn(w)
          \/ Reply(w, "ok")
          \/ Reply(w, "error")
          \/ Over(w)
          \/ Exit(w)
    \/ \E W \in SUBSET Workers : AskAll(W)

WkSpec == WkInit /\ [][WkNext]_wk
=============================================================================
