---------------------- MODULE VirtualDisplayJob_proofs ----------------------
(***************************************************************************)
(* What the virtual display's queue guarantees for any callers, modes and  *)
(* number of restarts: nobody who waits is forgotten, and a launch told    *)
(* that it has its display has it.                                         *)
(***************************************************************************)
EXTENDS VirtualDisplayJob, LeastElements, TLAPS

CallbacksOf(q) == UNION {q[i].callbacks : i \in 1..Len(q)}

\* No launch waits on two operations of a queue.
Apart(q) == \A i, j \in 1..Len(q) : i # j => q[i].callbacks \cap q[j].callbacks = {}

WaitingIn(as) == {c \in Callers : as[c] = "waiting"}

\* Only an activation is waited for.
Silent(q) == \A i \in 1..Len(q) : q[i].action = "Deactivate" => q[i].callbacks = {}

Processes == IsFiniteSet(DOMAIN helpers)

\* A helper has stages ahead of it only after it has read a request.
HasRead == \A i \in DOMAIN helpers : helpers[i].todo # <<>> => helpers[i].req \in Request

Book ==
    /\ TypeOK
    /\ Processes
    /\ HasRead
    /\ NobodyForgotten
    /\ Apart(job.queue)

\* The stages a helper has still to go through.
Ahead(h) == IF h.ready THEN ToSet(h.todo) ELSE IF h.arg = "all" THEN {"driver"} ELSE {h.arg}

\* The operation that runs has its own request in the file.
OwnRequest ==
    running => /\ request \in Request
               /\ request.action = job.action
               /\ method # "service" => job.nextStages = <<>>
               /\ job.action = "Deactivate" => job.callbacks = {}

\* The one helper at work is the running operation's.
OwnHelper ==
    /\ \A i, j \in DOMAIN helpers : i = j
    /\ \A i \in DOMAIN helpers :
          /\ running /\ ~job.schtasks
          /\ method = "task" => job.poll /\ result = NoResult
          /\ helpers[i].ready => helpers[i].req = request
          /\ ~helpers[i].ready => helpers[i].todo = <<>> /\ helpers[i].ok

\* A result is waited for only by the running operation of a machine with a task.
OwnResult ==
    /\ job.poll => running /\ method = "task" /\ ~job.schtasks
    /\ job.schtasks => running /\ result = NoResult /\ method = "task"

\* Once an activation's driver stage is no longer ahead, the display is on.
DriverDone ==
    (running /\ job.action = "Activate") =>
        /\ \A i \in DOMAIN helpers :
              (helpers[i].ok /\ "driver" \notin Ahead(helpers[i]) \cup ToSet(job.nextStages)) => desk.on
        /\ (job.poll /\ result # NoResult) => (result.ok => desk.on)

Own == OwnRequest /\ OwnHelper /\ OwnResult /\ DriverDone

\* All that as long as no helper has outlived its operation.
InStep == ~stray => Own

IInv == Book /\ Silent(job.queue) /\ InStep

-----------------------------------------------------------------------------
(***************************************************************************)
(* The pieces.                                                             *)
(***************************************************************************)

Op == [action : {"Activate", "Deactivate"}, mode : Modes, callbacks : SUBSET Callers]
Standings == {"home", "waiting", "streaming", "refused", "gone"}
Running(hs) == /\ IsFiniteSet(DOMAIN hs) /\ DOMAIN hs \subseteq Nat
               /\ \A i \in DOMAIN hs : hs[i] \in Helper
               /\ \A i \in DOMAIN hs : hs[i].todo # <<>> => hs[i].req \in Request

\* Who is told something no longer waits, and nobody else is touched.
LEMMA ToldProperties ==
  ASSUME NEW as \in [Callers -> Standings], NEW cs, NEW at \in Standings
  PROVE  /\ Told(as, cs, at) \in [Callers -> Standings]
         /\ at # "waiting" => WaitingIn(Told(as, cs, at)) = WaitingIn(as) \ cs
         /\ at = "waiting" => WaitingIn(Told(as, cs, at)) = WaitingIn(as) \cup (cs \cap Callers)
         /\ \A c \in Callers : Told(as, cs, at)[c] = IF c \in cs THEN at ELSE as[c]
  BY DEF Told, WaitingIn, Standings

\* The operations behind one of the queue, as a queue of their own.
LEMMA Rest ==
  ASSUME NEW q \in Seq(Op), NEW k \in 0..(Len(q) - 1)
  PROVE  LET r == SubSeq(q, k + 2, Len(q))
         IN  /\ r \in Seq(Op)
             /\ Len(r) = Len(q) - (k + 1)
             /\ \A i \in 1..Len(r) : i + (k + 1) \in 1..Len(q) /\ r[i] = q[i + (k + 1)]
  OBVIOUS

\* What is left of those who wait once the first k operations have failed.
LEMMA Left ==
  ASSUME NEW q \in Seq(Op), NEW k \in 0..(Len(q) - 1), Apart(q)
  PROVE  LET r    == SubSeq(q, k + 2, Len(q))
             told == UNION {q[i].callbacks : i \in 1..k}
         IN  /\ CallbacksOf(q) \ told = q[k + 1].callbacks \cup CallbacksOf(r)
             /\ q[k + 1].callbacks \cap CallbacksOf(r) = {}
             /\ Apart(r)
  <1> DEFINE r == SubSeq(q, k + 2, Len(q))
             told == UNION {q[i].callbacks : i \in 1..k}
  <1>1. /\ Len(r) = Len(q) - (k + 1) /\ Len(r) \in Nat
        /\ \A i \in 1..Len(r) : i + (k + 1) \in 1..Len(q) /\ r[i] = q[i + (k + 1)]
    BY Rest
  <1> HIDE DEF r
  <1>2. CallbacksOf(r) = UNION {q[i].callbacks : i \in (k + 2)..Len(q)}
    <2>1. ASSUME NEW i \in 1..Len(r) PROVE i + (k + 1) \in (k + 2)..Len(q) /\ r[i] = q[i + (k + 1)]
      BY <1>1
    <2>2. ASSUME NEW j \in (k + 2)..Len(q)
          PROVE  j - (k + 1) \in 1..Len(r) /\ r[j - (k + 1)] = q[j]
      <3>1. j - (k + 1) \in 1..Len(r)
        BY <1>1
      <3>2. (j - (k + 1)) + (k + 1) = j
        OBVIOUS
      <3>3. QED
        BY <1>1, <3>1, <3>2
    <2>3. QED
      BY <2>1, <2>2 DEF CallbacksOf
  <1>3. CallbacksOf(q) = told \cup q[k + 1].callbacks \cup CallbacksOf(r)
    <2>1. 1..Len(q) = (1..k) \cup {k + 1} \cup ((k + 2)..Len(q))
      OBVIOUS
    <2>2. QED
      BY <1>2, <2>1 DEF CallbacksOf
  <1>4. told \cap (q[k + 1].callbacks \cup CallbacksOf(r)) = {}
    <2>1. ASSUME NEW i \in 1..k, NEW j \in (k + 1)..Len(q)
          PROVE  q[i].callbacks \cap q[j].callbacks = {}
      BY DEF Apart
    <2>2. k + 1 \in (k + 1)..Len(q) /\ \A j \in (k + 2)..Len(q) : j \in (k + 1)..Len(q)
      OBVIOUS
    <2>3. QED
      BY <1>2, <2>1, <2>2
  <1>5. q[k + 1].callbacks \cap CallbacksOf(r) = {}
    <2>1. ASSUME NEW j \in (k + 2)..Len(q)
          PROVE  q[k + 1].callbacks \cap q[j].callbacks = {}
      BY DEF Apart
    <2>2. QED
      BY <1>2, <2>1
  <1>6. Apart(r)
    <2>1. ASSUME NEW i \in 1..Len(r), NEW j \in 1..Len(r), i # j
          PROVE  r[i].callbacks \cap r[j].callbacks = {}
      <3>1. i + (k + 1) # j + (k + 1)
        BY <2>1
      <3>2. QED
        BY <1>1, <3>1 DEF Apart
    <2>2. QED
      BY <2>1 DEF Apart
  <1>7. QED
    BY <1>3, <1>4, <1>5, <1>6 DEF r

\* The queue gains an operation at its end.
LEMMA Appended ==
  ASSUME NEW q \in Seq(Op), NEW op \in Op, Apart(q), op.callbacks \cap CallbacksOf(q) = {}
  PROVE  /\ Append(q, op) \in Seq(Op)
         /\ CallbacksOf(Append(q, op)) = CallbacksOf(q) \cup op.callbacks
         /\ Apart(Append(q, op))
  <1> DEFINE r == Append(q, op)
  <1>1. /\ r \in Seq(Op) /\ Len(r) = Len(q) + 1
        /\ r[Len(q) + 1] = op
        /\ \A i \in 1..Len(q) : r[i] = q[i]
        /\ 1..Len(r) = (1..Len(q)) \cup {Len(q) + 1}
    OBVIOUS
  <1> HIDE DEF r
  <1>2. CallbacksOf(r) = CallbacksOf(q) \cup op.callbacks
    BY <1>1 DEF CallbacksOf
  <1>3. Apart(r)
    BY <1>1 DEF Apart, CallbacksOf
  <1>4. QED
    BY <1>1, <1>2, <1>3 DEF r

\* The last operation of the queue gains callers.
LEMMA Joined ==
  ASSUME NEW q \in Seq(Op), NEW cs \in SUBSET Callers, Apart(q), Len(q) > 0,
         cs \cap CallbacksOf(q) = {},
         NEW r, r = [q EXCEPT ![Len(q)].callbacks = @ \cup cs]
  PROVE  /\ r \in Seq(Op)
         /\ CallbacksOf(r) = CallbacksOf(q) \cup cs
         /\ Apart(r)
  <1>1. Len(q) \in 1..Len(q) /\ q[Len(q)] \in Op
    OBVIOUS
  <1>2. [q[Len(q)] EXCEPT !.callbacks = @ \cup cs] \in Op
    BY <1>1 DEF Op
  <1>3. /\ r \in Seq(Op) /\ Len(r) = Len(q)
        /\ r[Len(q)].callbacks = q[Len(q)].callbacks \cup cs
        /\ \A i \in 1..Len(q) : i # Len(q) => r[i] = q[i]
    BY <1>1, <1>2 DEF Op
  <1>4. CallbacksOf(r) = CallbacksOf(q) \cup cs
    BY <1>1, <1>3 DEF CallbacksOf
  <1>5. Apart(r)
    BY <1>1, <1>3 DEF Apart, CallbacksOf
  <1>6. QED
    BY <1>3, <1>4, <1>5

\* A new process has an id of its own.
LEMMA AnotherHelper ==
  ASSUME NEW hs, Running(hs), NEW arg \in Stages \cup {"all"}
  PROVE  /\ Running(WithHelper(hs, arg))
         /\ \E id \in Nat \ DOMAIN hs :
               /\ DOMAIN WithHelper(hs, arg) = DOMAIN hs \cup {id}
               /\ WithHelper(hs, arg)[id] = NewHelper(arg)
               /\ \A i \in DOMAIN hs : WithHelper(hs, arg)[i] = hs[i]
  <1> DEFINE n == Cardinality(DOMAIN hs)
             free == (1..n + 1) \ DOMAIN hs
             id == Min(free)
             more == [i \in DOMAIN hs \cup {id} |-> IF i = id THEN NewHelper(arg) ELSE hs[i]]
  <1>1. IsFiniteSet(DOMAIN hs) /\ n \in Nat
    BY FS_CardinalityType DEF Running
  <1>2. IsFiniteSet(1..n + 1) /\ Cardinality(1..n + 1) = n + 1
    <2>1. 1 \in Int /\ n + 1 \in Int /\ 1 <= n + 1
      BY <1>1
    <2>2. IsFiniteSet(1..n + 1) /\ Cardinality(1..n + 1) = IF 1 > n + 1 THEN 0 ELSE (n + 1) - 1 + 1
      BY <2>1, FS_Interval
    <2>3. QED
      BY <1>1, <2>2
  <1>3. free # {}
    <2>1. SUFFICES ASSUME free = {} PROVE FALSE
      OBVIOUS
    <2>2. (1..n + 1) \subseteq DOMAIN hs
      BY <2>1
    <2>3. n + 1 <= n
      BY <1>1, <1>2, <2>2, FS_Subset
    <2>4. QED
      BY <1>1, <2>3
  <1>4. free \in SUBSET Int /\ IsFiniteSet(free)
    BY <1>1, <1>2, FS_Subset
  <1>5. id \in free
    <2> HIDE DEF free
    <2>1. QED
      BY <1>3, <1>4, MinOf
  <1>6. id \in Nat \ DOMAIN hs
    BY <1>1, <1>5
  <1>7. WithHelper(hs, arg) = more
    BY DEF WithHelper
  <1> HIDE DEF id, free, n
  <1>8. IsFiniteSet(DOMAIN hs \cup {id})
    BY <1>1, FS_AddElement
  <1>9. NewHelper(arg) \in Helper /\ NewHelper(arg).todo = <<>>
    <2>1. <<>> \in Seq(Stages)
      OBVIOUS
    <2>2. QED
      BY <2>1 DEF NewHelper, Helper
  <1>10. Running(more)
    <2>1. DOMAIN more = DOMAIN hs \cup {id} /\ DOMAIN more \subseteq Nat
      BY <1>6 DEF Running
    <2>2. \A i \in DOMAIN more : more[i] \in Helper
      BY <1>9 DEF Running
    <2>3. \A i \in DOMAIN more : more[i].todo # <<>> => more[i].req \in Request
      BY <1>9 DEF Running
    <2>4. QED
      BY <1>8, <2>1, <2>2, <2>3 DEF Running
  <1>11. QED
    <2>1. more[id] = NewHelper(arg) /\ \A i \in DOMAIN hs : more[i] = hs[i]
      BY <1>6
    <2>2. QED
      BY <1>6, <1>7, <1>10, <2>1

\* The elements of a sequence are its first and those that follow.
LEMMA Elements ==
  ASSUME NEW S, NEW s \in Seq(S)
  PROVE  /\ \A i \in 1..Len(s) : s[i] \in ToSet(s)
         /\ s = <<>> => ToSet(s) = {}
         /\ s # <<>> => ToSet(s) = {Head(s)} \cup ToSet(Tail(s))
  <1>1. DOMAIN s = 1..Len(s)
    OBVIOUS
  <1>2. (\A i \in 1..Len(s) : s[i] \in ToSet(s)) /\ (s = <<>> => ToSet(s) = {})
    BY <1>1 DEF ToSet
  <1>3. ASSUME s # <<>> PROVE ToSet(s) = {Head(s)} \cup ToSet(Tail(s))
    <2> DEFINE t == Tail(s)
    <2>1. /\ t \in Seq(S) /\ Len(t) = Len(s) - 1 /\ Len(s) \in Nat \ {0}
          /\ Head(s) = s[1] /\ \A i \in 1..Len(t) : t[i] = s[i + 1]
      BY <1>3
    <2> HIDE DEF t
    <2>2. DOMAIN t = 1..Len(t)
      BY <2>1
    <2>3. ASSUME NEW i \in 1..Len(s) PROVE s[i] \in {s[1]} \cup ToSet(t)
      <3>1. CASE i = 1
        BY <3>1
      <3>2. CASE i # 1
        <4>1. i - 1 \in 1..Len(t) /\ (i - 1) + 1 = i
          BY <2>1, <3>2
        <4>2. t[i - 1] = s[i]
          BY <2>1, <4>1
        <4>3. QED
          BY <2>2, <4>1, <4>2 DEF ToSet
      <3>3. QED
        BY <3>1, <3>2
    <2>4. ASSUME NEW i \in 1..Len(t) PROVE t[i] \in ToSet(s)
      <3>1. i + 1 \in 1..Len(s)
        BY <2>1
      <3>2. QED
        BY <1>2, <2>1, <3>1
    <2>5. s[1] \in ToSet(s)
      BY <1>2, <2>1
    <2>6. QED
      BY <1>1, <2>1, <2>2, <2>3, <2>4, <2>5 DEF t, ToSet
  <1>4. QED
    BY <1>2, <1>3

\* The stages of an operation.
LEMMA StageList ==
  ASSUME NEW action \in {"Activate", "Deactivate"}
  PROVE  /\ stagesOf(action) \in Seq(Stages) /\ stagesOf(action) # <<>>
         /\ Head(stagesOf(action)) \in Stages /\ Tail(stagesOf(action)) \in Seq(Stages)
         /\ action = "Activate" => /\ "driver" \in ToSet(stagesOf(action))
                                   /\ Head(stagesOf(action)) = "snapshot"
                                   /\ "driver" \in ToSet(Tail(stagesOf(action)))
  <1>1. <<"snapshot", "driver", "mode">> \in Seq(Stages) /\ <<"mode", "driver">> \in Seq(Stages)
    <2>1. "snapshot" \in Stages /\ "driver" \in Stages /\ "mode" \in Stages
      BY DEF Stages
    <2>2. QED
      BY <2>1
  <1>2. stagesOf(action) \in Seq(Stages) /\ stagesOf(action) # <<>>
    BY <1>1 DEF stagesOf
  <1>3. Head(stagesOf(action)) \in Stages /\ Tail(stagesOf(action)) \in Seq(Stages)
    BY <1>2
  <1>4. ASSUME action = "Activate"
        PROVE  /\ "driver" \in ToSet(stagesOf(action))
               /\ Head(stagesOf(action)) = "snapshot"
               /\ "driver" \in ToSet(Tail(stagesOf(action)))
    <2> DEFINE s == <<"snapshot", "driver", "mode">>
    <2>1. /\ Len(s) = 3 /\ s[2] = "driver" /\ Head(s) = "snapshot"
          /\ Len(Tail(s)) = 2 /\ Tail(s)[1] = "driver"
      OBVIOUS
    <2>2. 2 \in 1..3 /\ 1 \in 1..2
      OBVIOUS
    <2>3. stagesOf(action) = s
      BY <1>4 DEF stagesOf
    <2> HIDE DEF s
    <2>4. QED
      BY <1>2, <1>3, <2>1, <2>2, <2>3, Elements
  <1>5. QED
    BY <1>2, <1>3, <1>4

-----------------------------------------------------------------------------
(***************************************************************************)
(* Starting the next operation.                                            *)
(***************************************************************************)

\* How startNext leaves the job: nothing runs any more, or the operation behind
\* the first k of the queue does.
Ended(k, q, rest) ==
    /\ k = Len(q)
    /\ job' = IF k = 0 THEN rest
              ELSE [rest EXCEPT !.state = "Failed", !.action = q[k].action, !.mode = q[k].mode,
                                !.queue = <<>>, !.nextStages = <<>>]

Begun(k, q, rest) ==
    /\ k \in 0..(Len(q) - 1)
    /\ job' = [rest EXCEPT
                 !.state = "Running", !.action = q[k + 1].action, !.mode = q[k + 1].mode,
                 !.callbacks = q[k + 1].callbacks,
                 !.queue = SubSeq(q, k + 2, Len(q)),
                 !.nextStages = IF method = "service" THEN Tail(stagesOf(q[k + 1].action)) ELSE <<>>,
                 !.schtasks = method = "task",
                 !.deadline = method # "task"]

\* The callers of the first k operations.
FirstOf(q, k) == UNION {q[i].callbacks : i \in 1..k}

HelpersBegun(k, q, hs) ==
    helpers' = CASE method = "elevated" -> WithHelper(hs, "all")
                 [] method = "service"  -> WithHelper(hs, Head(stagesOf(q[k + 1].action)))
                 [] method = "task"     -> hs

RequestBegun(k, q, rec) ==
    request' = [action |-> q[k + 1].action, mode |-> q[k + 1].mode,
                restore |-> IF q[k + 1].action = "Deactivate" THEN rec ELSE "none"]

Outcome(k, q, rest, as, hs, rec) ==
    /\ asks' = Told(as, FirstOf(q, k), "refused")
    /\ result' = NoResult
    /\ \/ Ended(k, q, rest) /\ request' = NoReq /\ helpers' = hs
       \/ Begun(k, q, rest) /\ RequestBegun(k, q, rec) /\ HelpersBegun(k, q, hs)

\* startNext works off some k operations at the head of the queue and then
\* stops.
LEMMA Outcomes ==
  ASSUME NEW q \in Seq(Op), NEW rest, NEW as, NEW hs, NEW rec, startNext(q, rest, as, hs, rec)
  PROVE  \E k \in 0..Len(q) : Outcome(k, q, rest, as, hs, rec)
  <1> USE DEF FirstOf, HelpersBegun, RequestBegun, Outcome
  <1>1. PICK k \in 0..Len(q) : startNext(q, rest, as, hs, rec)!(k)
    BY DEF startNext
  <1>2. CASE k = Len(q)
    BY <1>1, <1>2 DEF Ended
  <1>3. CASE k # Len(q)
    <2>1. k \in 0..(Len(q) - 1)
      BY <1>3
    <2>2. QED
      BY <1>1, <1>3, <2>1 DEF Begun
  <1>4. QED
    BY <1>2, <1>3

\* The fields of the job once startNext is through with it.
LEMMA JobAfter ==
  ASSUME NEW q \in Seq(Op), NEW rest \in Job, NEW k \in 0..Len(q), method \in Methods
  PROVE  /\ Ended(k, q, rest) =>
               /\ job' \in Job
               /\ k = 0 => job' = rest
               /\ k # 0 => job'.state = "Failed" /\ job'.queue = <<>> /\ job'.nextStages = <<>>
               /\ job'.callbacks = rest.callbacks /\ job'.poll = rest.poll
               /\ job'.schtasks = rest.schtasks /\ job'.deadline = rest.deadline
         /\ Begun(k, q, rest) =>
               /\ job' \in Job
               /\ job'.state = "Running"
               /\ job'.action = q[k + 1].action /\ job'.mode = q[k + 1].mode
               /\ job'.callbacks = q[k + 1].callbacks
               /\ job'.queue = SubSeq(q, k + 2, Len(q))
               /\ job'.nextStages = IF method = "service" THEN Tail(stagesOf(q[k + 1].action)) ELSE <<>>
               /\ job'.schtasks = (method = "task") /\ job'.deadline = (method # "task")
               /\ job'.poll = rest.poll
  <1>1. <<>> \in Seq(Op) /\ <<>> \in Seq(Stages)
    OBVIOUS
  <1>2. ASSUME Ended(k, q, rest)
        PROVE  /\ job' \in Job
               /\ k = 0 => job' = rest
               /\ k # 0 => job'.state = "Failed" /\ job'.queue = <<>> /\ job'.nextStages = <<>>
               /\ job'.callbacks = rest.callbacks /\ job'.poll = rest.poll
               /\ job'.schtasks = rest.schtasks /\ job'.deadline = rest.deadline
    <2>1. CASE k = 0
      BY <1>2, <2>1 DEF Ended
    <2>2. CASE k # 0
      <3>1. q[k] \in Op
        BY <2>2
      <3>2. job' = [rest EXCEPT !.state = "Failed", !.action = q[k].action, !.mode = q[k].mode,
                                !.queue = <<>>, !.nextStages = <<>>]
        BY <1>2, <2>2 DEF Ended
      <3>3. QED
        BY <1>1, <2>2, <3>1, <3>2 DEF Job, Op
    <2>3. QED
      BY <2>1, <2>2
  <1>3. ASSUME Begun(k, q, rest)
        PROVE  /\ job' \in Job
               /\ job'.state = "Running"
               /\ job'.action = q[k + 1].action /\ job'.mode = q[k + 1].mode
               /\ job'.callbacks = q[k + 1].callbacks
               /\ job'.queue = SubSeq(q, k + 2, Len(q))
               /\ job'.nextStages = IF method = "service" THEN Tail(stagesOf(q[k + 1].action)) ELSE <<>>
               /\ job'.schtasks = (method = "task") /\ job'.deadline = (method # "task")
               /\ job'.poll = rest.poll
    <2>1. k \in 0..(Len(q) - 1)
      BY <1>3 DEF Begun
    <2>2. k + 1 \in 1..Len(q)
      BY <2>1
    <2>3. q[k + 1] \in Op
      BY <2>2
    <2> DEFINE op == q[k + 1]
               r == SubSeq(q, k + 2, Len(q))
               stages == IF method = "service" THEN Tail(stagesOf(op.action)) ELSE <<>>
    <2>4. r \in Seq(Op)
      BY <2>1, Rest
    <2>5. stages \in Seq(Stages)
      BY <1>1, <2>3, StageList DEF Op
    <2>6. job' = [rest EXCEPT !.state = "Running", !.action = op.action, !.mode = op.mode,
                              !.callbacks = op.callbacks, !.queue = r, !.nextStages = stages,
                              !.schtasks = method = "task", !.deadline = method # "task"]
      BY <1>3 DEF Begun
    <2> HIDE DEF r, stages, op
    <2>7. op \in Op
      BY <2>3 DEF op
    <2>8. /\ job' \in Job
          /\ job'.state = "Running" /\ job'.action = op.action /\ job'.mode = op.mode
          /\ job'.callbacks = op.callbacks /\ job'.queue = r /\ job'.nextStages = stages
          /\ job'.schtasks = (method = "task") /\ job'.deadline = (method # "task")
          /\ job'.poll = rest.poll
      BY <2>4, <2>5, <2>6, <2>7 DEF Job, Op
    <2>9. QED
      BY <2>8 DEF r, stages, op
  <1>4. QED
    BY <1>2, <1>3

\* startNext forgets nobody: the callers of the operations that fail on the spot
\* are told, the others wait for the one that starts or behind it.
LEMMA StartNextKeeps ==
  ASSUME NEW q \in Seq(Op), NEW rest \in Job, NEW as \in [Callers -> Standings],
         NEW hs, Running(hs), NEW rec \in Primaries \cup {"blank", "none"},
         method \in Methods, Methods \subseteq {"elevated", "service", "task"},
         rest.state # "Running", rest.callbacks = {}, q = <<>> => rest.queue = <<>>,
         Apart(q), WaitingIn(as) = CallbacksOf(q),
         startNext(q, rest, as, hs, rec)
  PROVE  /\ job' \in Job /\ asks' \in [Callers -> Standings]
         /\ request' \in Request \cup {NoReq} /\ result' = NoResult
         /\ Running(helpers')
         /\ NobodyForgotten' /\ Apart(job'.queue)
  <1>1. PICK k \in 0..Len(q) : Outcome(k, q, rest, as, hs, rec)
    BY Outcomes
  <1>2. /\ asks' \in [Callers -> Standings]
        /\ WaitingIn(asks') = CallbacksOf(q) \ FirstOf(q, k)
        /\ result' = NoResult
    <2>1. "refused" \in Standings /\ "refused" # "waiting"
      BY DEF Standings
    <2>2. asks' = Told(as, FirstOf(q, k), "refused") /\ result' = NoResult
      BY <1>1 DEF Outcome
    <2>3. /\ Told(as, FirstOf(q, k), "refused") \in [Callers -> Standings]
          /\ WaitingIn(Told(as, FirstOf(q, k), "refused")) = WaitingIn(as) \ FirstOf(q, k)
      <3> DEFINE cs == FirstOf(q, k)
      <3> HIDE DEF cs
      <3>1. /\ Told(as, cs, "refused") \in [Callers -> Standings]
            /\ "refused" # "waiting" => WaitingIn(Told(as, cs, "refused")) = WaitingIn(as) \ cs
        BY DEF Told, WaitingIn, Standings
      <3>2. QED
        BY <2>1, <3>1 DEF cs
    <2>4. QED
      BY <2>2, <2>3
  <1>3. ASSUME Ended(k, q, rest), request' = NoReq, helpers' = hs
        PROVE  /\ job' \in Job /\ request' \in Request \cup {NoReq} /\ Running(helpers')
               /\ NobodyForgotten' /\ Apart(job'.queue)
    <2>1. /\ job' \in Job /\ job'.callbacks = {} /\ job'.state # "Running"
          /\ job'.queue = <<>>
      <3>1. CASE k = 0
        <4>1. Len(q) = 0
          BY <1>3, <3>1 DEF Ended
        <4>2. q = <<>>
          BY <4>1
        <4>3. QED
          BY <1>3, <3>1, <4>2, JobAfter
      <3>2. CASE k # 0
        BY <1>3, <3>2, JobAfter
      <3>3. QED
        BY <3>1, <3>2
    <2>2. FirstOf(q, k) = CallbacksOf(q)
      BY <1>3 DEF Ended, CallbacksOf, FirstOf
    <2>3. WaitingIn(asks') = {}
      BY <1>2, <2>2
    <2>4. Len(job'.queue) = 0
      BY <2>1
    <2>5. NobodyForgotten'
      <3>1. Queued' = {}
        BY <2>4 DEF Queued
      <3>2. QED
        BY <2>1, <2>3, <3>1 DEF NobodyForgotten, WaitingIn, running
    <2>6. Apart(job'.queue)
      BY <2>4 DEF Apart
    <2>7. QED
      BY <1>3, <2>1, <2>5, <2>6
  <1>4. ASSUME Begun(k, q, rest), RequestBegun(k, q, rec), HelpersBegun(k, q, hs)
        PROVE  /\ job' \in Job /\ request' \in Request \cup {NoReq} /\ Running(helpers')
               /\ NobodyForgotten' /\ Apart(job'.queue)
    <2>1. k \in 0..(Len(q) - 1) /\ q[k + 1] \in Op
      <3>1. k \in 0..(Len(q) - 1)
        BY <1>4 DEF Begun
      <3>2. k + 1 \in 1..Len(q)
        BY <3>1
      <3>3. QED
        BY <3>1, <3>2
    <2>2. /\ job' \in Job /\ job'.state = "Running" /\ job'.callbacks = q[k + 1].callbacks
          /\ job'.queue = SubSeq(q, k + 2, Len(q))
          /\ job'.schtasks = (method = "task") /\ job'.deadline = (method # "task")
      BY <1>4, JobAfter
    <2>3. /\ CallbacksOf(q) \ FirstOf(q, k) = q[k + 1].callbacks \cup CallbacksOf(job'.queue)
          /\ q[k + 1].callbacks \cap CallbacksOf(job'.queue) = {}
          /\ Apart(job'.queue)
      <3> DEFINE r == SubSeq(q, k + 2, Len(q))
      <3>1. /\ CallbacksOf(q) \ FirstOf(q, k) = q[k + 1].callbacks \cup CallbacksOf(r)
            /\ q[k + 1].callbacks \cap CallbacksOf(r) = {}
            /\ Apart(r)
        BY <2>1, Left DEF FirstOf
      <3>2. QED
        BY <2>2, <3>1
    <2>4. NobodyForgotten'
      <3>1. Queued' = CallbacksOf(job'.queue)
        BY DEF Queued, CallbacksOf
      <3>2. job'.schtasks \/ job'.deadline
        BY <2>2
      <3>3. QED
        BY <1>2, <2>2, <2>3, <3>1, <3>2 DEF NobodyForgotten, WaitingIn, running
    <2>5. request' \in Request
      BY <1>4, <2>1 DEF RequestBegun, Request, Op
    <2>6. Running(helpers')
      <3>1. Running(WithHelper(hs, "all"))
        BY AnotherHelper
      <3>2. Running(WithHelper(hs, Head(stagesOf(q[k + 1].action))))
        BY <2>1, AnotherHelper, StageList DEF Op
      <3>3. CASE method = "elevated"
        BY <1>4, <3>1, <3>3 DEF HelpersBegun
      <3>4. CASE method = "service"
        BY <1>4, <3>2, <3>4 DEF HelpersBegun
      <3>5. CASE method = "task"
        BY <1>4, <3>5 DEF HelpersBegun
      <3>6. QED
        BY <3>3, <3>4, <3>5
    <2>7. QED
      BY <2>2, <2>3, <2>4, <2>5, <2>6
  <1>5. QED
    BY <1>1, <1>2, <1>3, <1>4 DEF Outcome

\* What Book says, without the variables that startNext leaves to its callers.
LEMMA BookIs ==
  Book <=> /\ TypeOK /\ Running(helpers)
           /\ NobodyForgotten /\ Apart(job.queue)
  BY DEF Book, TypeOK, Processes, HasRead, Running

\* The queue and the standings, as the lemmas take them.
LEMMA QueueType ==
  ASSUME Book
  PROVE  /\ job.queue \in Seq(Op) /\ asks \in [Callers -> Standings] /\ job \in Job
         /\ Running(helpers) /\ Apart(job.queue)
         /\ method \in Methods /\ Methods \subseteq {"elevated", "service", "task"}
         /\ record \in Primaries \cup {"blank", "none"}
         /\ WaitingIn(asks) = job.callbacks \cup CallbacksOf(job.queue)
         /\ job.callbacks \cap CallbacksOf(job.queue) = {}
         /\ job.callbacks \subseteq Callers /\ CallbacksOf(job.queue) \subseteq Callers
  <1>1. Queued = CallbacksOf(job.queue)
    BY DEF Queued, CallbacksOf
  <1>2. job.queue \in Seq(Op) /\ job \in Job /\ job.callbacks \subseteq Callers
    BY BookIs DEF TypeOK, Job, Op
  <1>3. CallbacksOf(job.queue) \subseteq Callers
    <2>1. \A i \in 1..Len(job.queue) : job.queue[i] \in Op
      BY <1>2
    <2>2. QED
      BY <2>1 DEF CallbacksOf, Op
  <1>4. QED
    BY <1>1, <1>2, <1>3, BookIs, DisplayAssumption DEF TypeOK, NobodyForgotten, WaitingIn, Standings

-----------------------------------------------------------------------------
(***************************************************************************)
(* The steps keep the books.                                               *)
(***************************************************************************)

\* An operation fails: its callers are told, then the next ones start.
LEMMA FailKeeps ==
  ASSUME Book, NEW hs, Running(hs), Fail(hs)
  PROVE  /\ job' \in Job /\ asks' \in [Callers -> Standings]
         /\ request' \in Request \cup {NoReq} /\ result' = NoResult
         /\ record' \in Primaries \cup {"blank", "none"}
         /\ Running(helpers') /\ NobodyForgotten' /\ Apart(job'.queue)
  <1> DEFINE rest == [job EXCEPT !.state = "Failed", !.callbacks = {}, !.schtasks = FALSE,
                                 !.deadline = FALSE, !.poll = FALSE]
             as == Told(asks, job.callbacks, "refused")
  <1>1. rest \in Job /\ rest.state # "Running" /\ rest.callbacks = {} /\ rest.queue = job.queue
    BY QueueType DEF Job
  <1>2. as \in [Callers -> Standings] /\ WaitingIn(as) = CallbacksOf(job.queue)
    <2>1. "refused" \in Standings /\ "refused" # "waiting"
      BY DEF Standings
    <2>2. as \in [Callers -> Standings] /\ WaitingIn(as) = WaitingIn(asks) \ job.callbacks
      BY <2>1, ToldProperties, QueueType
    <2>3. QED
      BY <2>2, QueueType
  <1>3. startNext(job.queue, rest, as, hs, record) /\ record' = record
    BY DEF Fail
  <1> HIDE DEF rest, as
  <1>4. QED
    BY <1>1, <1>2, <1>3, StartNextKeeps, QueueType

\* An operation succeeds: its callers are told, then the next ones start.
LEMMA SucceedKeeps ==
  ASSUME Book, NEW hs, Running(hs), NEW res \in Result, Succeed(res, hs)
  PROVE  /\ job' \in Job /\ asks' \in [Callers -> Standings]
         /\ request' \in Request \cup {NoReq} /\ result' = NoResult
         /\ record' \in Primaries \cup {"blank", "none"}
         /\ Running(helpers') /\ NobodyForgotten' /\ Apart(job'.queue)
  <1> DEFINE on == job.action = "Activate"
             rest == [job EXCEPT !.state = "Done", !.callbacks = {}, !.deadline = FALSE, !.poll = FALSE,
                                 !.activeMode = IF on THEN job.mode ELSE 0]
             as == Told(asks, job.callbacks, "streaming")
  <1>1. rest \in Job /\ rest.state # "Running" /\ rest.callbacks = {} /\ rest.queue = job.queue
    BY QueueType, DisplayAssumption DEF Job
  <1>2. as \in [Callers -> Standings] /\ WaitingIn(as) = CallbacksOf(job.queue)
    <2>1. "streaming" \in Standings /\ "streaming" # "waiting"
      BY DEF Standings
    <2>2. as \in [Callers -> Standings] /\ WaitingIn(as) = WaitingIn(asks) \ job.callbacks
      BY <2>1, ToldProperties, QueueType
    <2>3. QED
      BY <2>2, QueueType
  <1>3. /\ startNext(job.queue, rest, as, hs, record')
        /\ record' = IF on THEN res.previous ELSE "none"
    BY DEF Succeed
  <1>4. record' \in Primaries \cup {"blank", "none"}
    BY <1>3 DEF Result
  <1> HIDE DEF rest, as, on
  <1>5. QED
    BY <1>1, <1>2, <1>3, <1>4, StartNextKeeps, QueueType

\* The end of a helper, or its result: an error, the next stage or the end.
LEMMA HandleResultKeeps ==
  ASSUME Book, NEW hs, Running(hs), NEW res \in Result, handleResult(res, hs)
  PROVE  /\ job' \in Job /\ asks' \in [Callers -> Standings]
         /\ request' \in Request \cup {NoReq} /\ result' = NoResult
         /\ record' \in Primaries \cup {"blank", "none"}
         /\ Running(helpers') /\ NobodyForgotten' /\ Apart(job'.queue)
  <1>1. CASE ~res.ok
    BY <1>1, FailKeeps DEF handleResult
  <1>2. CASE res.ok /\ job.nextStages # <<>>
    <2>1. /\ job' = [job EXCEPT !.state = "Running", !.nextStages = Tail(@), !.deadline = TRUE]
          /\ helpers' = WithHelper(hs, Head(job.nextStages))
          /\ result' = NoResult /\ asks' = asks /\ request' = request /\ record' = record
      BY <1>2 DEF handleResult
    <2>2. Head(job.nextStages) \in Stages /\ Tail(job.nextStages) \in Seq(Stages)
      BY <1>2, QueueType DEF Job
    <2>3. /\ job' \in Job /\ job'.queue = job.queue /\ job'.callbacks = job.callbacks
          /\ job'.state = "Running" /\ job'.deadline = TRUE
      BY <2>1, <2>2, QueueType DEF Job
    <2>4. Running(helpers')
      BY <2>1, <2>2, AnotherHelper
    <2>5. NobodyForgotten'
      BY <2>1, <2>3, BookIs DEF NobodyForgotten, Queued, running
    <2>6. QED
      BY <2>1, <2>3, <2>4, <2>5, QueueType, BookIs DEF TypeOK
  <1>3. CASE res.ok /\ job.nextStages = <<>>
    BY <1>3, SucceedKeeps DEF handleResult
  <1>4. QED
    BY <1>1, <1>2, <1>3 DEF Result

\* A new request: it joins an operation, queues or starts.
LEMMA EnqueueKeeps ==
  ASSUME Book, NEW action \in {"Activate", "Deactivate"}, NEW m \in Modes,
         NEW cs \in SUBSET Callers, cs \cap WaitingIn(asks) = {},
         enqueue(action, m, cs)
  PROVE  /\ job' \in Job /\ asks' \in [Callers -> Standings]
         /\ request' \in Request \cup {NoReq} /\ result' \in Result \cup {NoResult}
         /\ Running(helpers') /\ NobodyForgotten' /\ Apart(job'.queue)
  <1> DEFINE op == [action |-> action, mode |-> m, callbacks |-> cs]
             n  == Len(job.queue)
             waits == Told(asks, cs, "waiting")
             held(j) == job' = j /\ asks' = waits /\ UNCHANGED <<request, result, helpers>>
  <1>1. op \in Op /\ n \in Nat
    BY QueueType DEF Op
  <1>2. waits \in [Callers -> Standings] /\ WaitingIn(waits) = WaitingIn(asks) \cup cs
    <2>1. "waiting" \in Standings
      BY DEF Standings
    <2>2. waits \in [Callers -> Standings] /\ WaitingIn(waits) = WaitingIn(asks) \cup (cs \cap Callers)
      BY <2>1, ToldProperties, QueueType
    <2>3. QED
      BY <2>2
  <1>3. cs \cap CallbacksOf(job.queue) = {} /\ cs \cap job.callbacks = {}
    BY QueueType
  <1>4. ASSUME NEW j \in Job, held(j), running \/ job.queue # <<>>,
               j.callbacks \cup CallbacksOf(j.queue) = job.callbacks \cup CallbacksOf(job.queue) \cup cs,
               j.callbacks \cap CallbacksOf(j.queue) = {}, Apart(j.queue),
               j.state = job.state, j.schtasks = job.schtasks, j.deadline = job.deadline
        PROVE  /\ job' \in Job /\ asks' \in [Callers -> Standings]
               /\ request' \in Request \cup {NoReq} /\ result' \in Result \cup {NoResult}
               /\ Running(helpers') /\ NobodyForgotten' /\ Apart(job'.queue)
    <2>1. /\ job' = j /\ asks' = waits /\ request' = request /\ result' = result /\ helpers' = helpers
      BY <1>4
    <2>2. running /\ running'
      BY <1>4, <2>1, BookIs DEF NobodyForgotten, running
    <2>3. Queued' = CallbacksOf(j.queue)
      BY <2>1 DEF Queued, CallbacksOf
    <2>4. NobodyForgotten'
      <3>1. WaitingIn(asks') = j.callbacks \cup CallbacksOf(j.queue)
        BY <1>2, <1>4, <2>1, QueueType
      <3>2. j.schtasks \/ j.deadline
        BY <1>4, <2>2, BookIs DEF NobodyForgotten
      <3>3. QED
        BY <1>4, <2>1, <2>2, <2>3, <3>1, <3>2 DEF NobodyForgotten, WaitingIn
    <2>5. QED
      BY <1>2, <1>4, <2>1, <2>4, QueueType, BookIs DEF TypeOK
  <1>5. ASSUME running, held([job EXCEPT !.callbacks = @ \cup cs])
        PROVE  /\ job' \in Job /\ asks' \in [Callers -> Standings]
               /\ request' \in Request \cup {NoReq} /\ result' \in Result \cup {NoResult}
               /\ Running(helpers') /\ NobodyForgotten' /\ Apart(job'.queue)
    <2> DEFINE j == [job EXCEPT !.callbacks = @ \cup cs]
    <2>1. /\ j \in Job /\ j.callbacks = job.callbacks \cup cs /\ j.queue = job.queue
          /\ j.state = job.state /\ j.schtasks = job.schtasks /\ j.deadline = job.deadline
      BY QueueType DEF Job
    <2>2. held(j)
      BY <1>5
    <2> HIDE DEF j, held
    <2>3. QED
      BY <1>3, <1>4, <1>5, <2>1, <2>2, QueueType
  <1>6. ASSUME n > 0, held([job EXCEPT !.queue[n].callbacks = @ \cup cs])
        PROVE  /\ job' \in Job /\ asks' \in [Callers -> Standings]
               /\ request' \in Request \cup {NoReq} /\ result' \in Result \cup {NoResult}
               /\ Running(helpers') /\ NobodyForgotten' /\ Apart(job'.queue)
    <2> DEFINE q == [job.queue EXCEPT ![n].callbacks = @ \cup cs]
               j == [job EXCEPT !.queue = q]
    <2>1. q \in Seq(Op) /\ CallbacksOf(q) = CallbacksOf(job.queue) \cup cs /\ Apart(q)
      BY <1>3, <1>6, Joined, QueueType
    <2>2. held(j)
      BY <1>6
    <2> HIDE DEF q
    <2>3. /\ j \in Job /\ j.callbacks = job.callbacks /\ j.queue = q
          /\ j.state = job.state /\ j.schtasks = job.schtasks /\ j.deadline = job.deadline
      BY <2>1, QueueType DEF Job, Op
    <2>4. job.queue # <<>>
      BY <1>6
    <2> HIDE DEF j, held, n
    <2>5. QED
      BY <1>3, <1>4, <2>1, <2>2, <2>3, <2>4, QueueType
  <1>7. ASSUME running, held([job EXCEPT !.queue = Append(@, op)])
        PROVE  /\ job' \in Job /\ asks' \in [Callers -> Standings]
               /\ request' \in Request \cup {NoReq} /\ result' \in Result \cup {NoResult}
               /\ Running(helpers') /\ NobodyForgotten' /\ Apart(job'.queue)
    <2> DEFINE q == Append(job.queue, op)
               j == [job EXCEPT !.queue = q]
    <2>1. held(j) /\ op.callbacks = cs
      BY <1>7
    <2> HIDE DEF op
    <2>2. q \in Seq(Op) /\ CallbacksOf(q) = CallbacksOf(job.queue) \cup cs /\ Apart(q)
      BY <1>1, <1>3, <2>1, Appended, QueueType
    <2> HIDE DEF q
    <2>3. /\ j \in Job /\ j.callbacks = job.callbacks /\ j.queue = q
          /\ j.state = job.state /\ j.schtasks = job.schtasks /\ j.deadline = job.deadline
      BY <2>2, QueueType DEF Job, Op
    <2> HIDE DEF j, held
    <2>4. QED
      BY <1>3, <1>4, <1>7, <2>1, <2>2, <2>3, QueueType
  <1>8. ASSUME ~running, n = 0, startNext(<<op>>, job, waits, helpers, record)
        PROVE  /\ job' \in Job /\ asks' \in [Callers -> Standings]
               /\ request' \in Request \cup {NoReq} /\ result' \in Result \cup {NoResult}
               /\ Running(helpers') /\ NobodyForgotten' /\ Apart(job'.queue)
    <2> DEFINE q == <<op>>
    <2>1. q \in Seq(Op) /\ q # <<>> /\ Len(q) = 1 /\ q[1] = op /\ op.callbacks = cs
      BY <1>1
    <2> HIDE DEF q
    <2>2. CallbacksOf(q) = cs /\ Apart(q)
      BY <2>1 DEF CallbacksOf, Apart
    <2>3. job.callbacks = {} /\ job.state # "Running" /\ CallbacksOf(job.queue) = {}
      <3>1. job.callbacks = {} /\ job.queue = <<>> /\ job.state # "Running"
        BY <1>8, BookIs DEF NobodyForgotten, running
      <3>2. Len(job.queue) = 0
        BY <3>1
      <3>3. QED
        BY <3>1, <3>2 DEF CallbacksOf
    <2>4. WaitingIn(waits) = CallbacksOf(q)
      BY <1>2, <2>2, <2>3, QueueType
    <2>5. startNext(q, job, waits, helpers, record)
      BY <1>8 DEF q
    <2> HIDE DEF waits, op, n
    <2>6. QED
      BY <1>2, <2>1, <2>2, <2>3, <2>4, <2>5, StartNextKeeps, QueueType
  <1>9. \/ running /\ held([job EXCEPT !.callbacks = @ \cup cs])
        \/ n > 0 /\ held([job EXCEPT !.queue[n].callbacks = @ \cup cs])
        \/ running /\ held([job EXCEPT !.queue = Append(@, op)])
        \/ ~running /\ n = 0 /\ startNext(<<op>>, job, waits, helpers, record)
    <2>1. ~running => n = 0
      <3>1. ~running => job.queue = <<>>
        BY BookIs DEF NobodyForgotten
      <3>2. QED
        BY <3>1
    <2>2. QED
      BY <2>1, Zenon DEF enqueue
  <1> HIDE DEF held, op, n, waits
  <1>10. QED
    BY <1>5, <1>6, <1>7, <1>8, <1>9

\* What the lemmas above give is what the books need.
LEMMA BookAgain ==
  ASSUME Book,
         job' \in Job, asks' \in [Callers -> Standings],
         request' \in Request \cup {NoReq}, result' \in Result \cup {NoResult},
         record' \in Primaries \cup {"blank", "none"},
         Running(helpers'), NobodyForgotten', Apart(job'.queue),
         method' = method, release' \in BOOLEAN, desk' = desk,
         crashes' \in 0..MaxCrashes, stray' \in BOOLEAN, lostTrack' \in BOOLEAN
  PROVE  Book'
  <1>1. TypeOK'
    BY BookIs DEF TypeOK, Standings, Running
  <1>2. Processes' /\ HasRead'
    BY DEF Processes, HasRead, Running
  <1>3. QED
    BY <1>1, <1>2 DEF Book

\* One helper of those at work moves on.
LEMMA OneHelper ==
  ASSUME NEW hs, Running(hs), NEW i \in DOMAIN hs, NEW h \in Helper,
         h.todo # <<>> => h.req \in Request
  PROVE  Running([hs EXCEPT ![i] = h])
  BY DEF Running

\* One helper is gone.
LEMMA OneLess ==
  ASSUME Book, NEW i \in DOMAIN helpers
  PROVE  Running(Without(i))
  <1>1. IsFiniteSet(DOMAIN helpers \ {i})
    BY QueueType, FS_RemoveElement DEF Running
  <1>2. QED
    BY <1>1, QueueType DEF Running, Without

\* A stage leaves the desktop a desktop.
LEMMA DeskType ==
  ASSUME desk \in [on : BOOLEAN, primary : Primaries, layout : Primaries \cup {"none"}],
         NEW stage \in Stages, NEW req \in Request, desk' \in StageEffect(stage, req)
  PROVE  desk' \in [on : BOOLEAN, primary : Primaries, layout : Primaries \cup {"none"}]
  <1> DEFINE Desk == [on : BOOLEAN, primary : Primaries, layout : Primaries \cup {"none"}]
  <1>1. Restored(req) \in Primaries
    BY DEF Restored, Request
  <1>2. CASE stage = "snapshot" /\ req.action = "Activate"
    BY <1>2 DEF StageEffect
  <1>3. CASE stage = "driver" /\ req.action = "Activate"
    BY <1>3 DEF StageEffect, Primaries
  <1>4. CASE stage = "mode" /\ req.action = "Activate"
    BY <1>4 DEF StageEffect, Primaries
  <1>5. CASE stage = "mode" /\ req.action = "Deactivate"
    <2>1. PICK p \in {Restored(req)} \cup (IF desk.layout # "none" THEN {desk.layout} ELSE {}) :
             desk' = [desk EXCEPT !.layout = "none", !.primary = p]
      BY <1>5 DEF StageEffect
    <2>2. p \in Primaries
      BY <1>1, <2>1
    <2>3. QED
      BY <2>1, <2>2
  <1>6. CASE stage = "driver" /\ req.action = "Deactivate"
    <2>1. desk' = [desk EXCEPT !.on = FALSE, !.primary = IF @ = "ours" THEN "picked" ELSE @]
      BY <1>6 DEF StageEffect
    <2>2. QED
      BY <2>1 DEF Primaries
  <1>7. CASE stage = "snapshot" /\ req.action = "Deactivate"
    BY <1>7 DEF StageEffect
  <1>8. QED
    BY <1>2, <1>3, <1>4, <1>5, <1>6, <1>7 DEF Stages, Request

\* The calls and the timers of the server.
LEMMA CallStep ==
  ASSUME Book
  PROVE  /\ \A c \in Callers, m \in Modes : activate(c, m) => Book'
         /\ \A c \in Callers : StreamEnds(c) => Book'
         /\ ReleaseTimeout => Book'
  <1>0. /\ release \in BOOLEAN /\ crashes \in 0..MaxCrashes /\ stray \in BOOLEAN /\ lostTrack \in BOOLEAN
        /\ request \in Request \cup {NoReq} /\ result \in Result \cup {NoResult}
        /\ record \in Primaries \cup {"blank", "none"} /\ 0 \in Modes
        /\ asks \in [Callers -> Standings] /\ job \in Job /\ Running(helpers) /\ Apart(job.queue)
        /\ NobodyForgotten
    BY BookIs, QueueType, DisplayAssumption DEF TypeOK
  <1>1. ASSUME NEW c \in Callers, NEW m \in Modes, activate(c, m) PROVE Book'
    <2>1. /\ asks[c] = "home" /\ release' = FALSE
          /\ method' = method /\ record' = record /\ desk' = desk
          /\ crashes' = crashes /\ stray' = stray /\ lostTrack' = lostTrack
      BY <1>1 DEF activate
    <2>2. CASE /\ OnAlready(m) /\ asks' = [asks EXCEPT ![c] = "streaming"]
               /\ UNCHANGED <<job, request, result, helpers>>
      <3>1. asks' \in [Callers -> Standings] /\ WaitingIn(asks') = WaitingIn(asks)
        BY <1>0, <2>1, <2>2 DEF Standings, WaitingIn
      <3>2. NobodyForgotten'
        BY <1>0, <2>2, <3>1 DEF NobodyForgotten, WaitingIn, Queued, running
      <3>3. QED
        BY <1>0, <2>1, <2>2, <3>1, <3>2, BookAgain
    <2>3. CASE enqueue("Activate", m, {c})
      <3>1. {c} \in SUBSET Callers /\ {c} \cap WaitingIn(asks) = {}
        BY <2>1 DEF WaitingIn
      <3>2. /\ job' \in Job /\ asks' \in [Callers -> Standings]
            /\ request' \in Request \cup {NoReq} /\ result' \in Result \cup {NoResult}
            /\ Running(helpers') /\ NobodyForgotten' /\ Apart(job'.queue)
        BY <2>3, <3>1, EnqueueKeeps
      <3>3. QED
        BY <1>0, <2>1, <3>2, BookAgain
    <2>4. QED
      BY <1>1, <2>2, <2>3 DEF activate
  <1>2. ASSUME NEW c \in Callers, StreamEnds(c) PROVE Book'
    <2>1. /\ asks[c] = "streaming" /\ asks' = [asks EXCEPT ![c] = "gone"] /\ release' \in BOOLEAN
          /\ UNCHANGED <<method, job, record, request, result, helpers, desk, crashes, stray, lostTrack>>
      BY <1>0, <1>2 DEF StreamEnds
    <2>2. asks' \in [Callers -> Standings] /\ WaitingIn(asks') = WaitingIn(asks)
      BY <1>0, <2>1 DEF Standings, WaitingIn
    <2>3. NobodyForgotten'
      BY <1>0, <2>1, <2>2 DEF NobodyForgotten, WaitingIn, Queued, running
    <2>4. QED
      BY <1>0, <2>1, <2>2, <2>3, BookAgain
  <1>3. ASSUME ReleaseTimeout PROVE Book'
    <2>1. /\ release' = FALSE /\ method' = method /\ desk' = desk
          /\ crashes' = crashes /\ stray' = stray /\ lostTrack' = lostTrack
      BY <1>3 DEF ReleaseTimeout
    <2>2. CASE record' = "none" /\ UNCHANGED <<job, asks, request, result, helpers>>
      <3>1. NobodyForgotten'
        BY <1>0, <2>2 DEF NobodyForgotten, Queued, running
      <3>2. QED
        BY <1>0, <2>1, <2>2, <3>1, BookAgain
    <2>3. CASE enqueue("Deactivate", 0, {}) /\ record' = record
      <3>1. {} \in SUBSET Callers /\ {} \cap WaitingIn(asks) = {}
        OBVIOUS
      <3>2. /\ job' \in Job /\ asks' \in [Callers -> Standings]
            /\ request' \in Request \cup {NoReq} /\ result' \in Result \cup {NoResult}
            /\ Running(helpers') /\ NobodyForgotten' /\ Apart(job'.queue)
        BY <1>0, <2>3, <3>1, EnqueueKeeps
      <3>3. QED
        BY <1>0, <2>1, <2>3, <3>2, BookAgain
    <2>4. QED
      BY <1>3, <2>2, <2>3 DEF ReleaseTimeout
  <1>4. QED
    BY <1>1, <1>2, <1>3

\* The ends of operations, heard or timed out.
LEMMA EndStep ==
  ASSUME Book
  PROVE  DeadlineTimeout \/ SchtasksFinished \/ pollResult => Book'
  <1>0. /\ release \in BOOLEAN /\ crashes \in 0..MaxCrashes /\ stray \in BOOLEAN /\ lostTrack \in BOOLEAN
        /\ request \in Request \cup {NoReq} /\ result \in Result \cup {NoResult}
        /\ record \in Primaries \cup {"blank", "none"}
        /\ asks \in [Callers -> Standings] /\ job \in Job /\ Running(helpers) /\ Apart(job.queue)
        /\ NobodyForgotten
    BY BookIs, QueueType DEF TypeOK
  <1>1. ASSUME Fail(helpers), method' = method, release' = release, desk' = desk,
               crashes' = crashes, stray' \in BOOLEAN, lostTrack' = lostTrack
        PROVE  Book'
    BY <1>0, <1>1, FailKeeps, BookAgain
  <1>2. CASE DeadlineTimeout
    BY <1>0, <1>1, <1>2 DEF DeadlineTimeout
  <1>3. CASE SchtasksFinished
    <2>1. CASE Fail(helpers)
      BY <1>0, <1>1, <1>3, <2>1 DEF SchtasksFinished
    <2>2. CASE /\ job' = [job EXCEPT !.schtasks = FALSE, !.deadline = TRUE, !.poll = TRUE]
               /\ helpers' = WithHelper(helpers, "all")
               /\ UNCHANGED <<asks, record, request, result>>
      <3>1. /\ job' \in Job /\ job'.queue = job.queue /\ job'.callbacks = job.callbacks
            /\ job'.state = job.state /\ job'.deadline = TRUE
        BY <1>0, <2>2 DEF Job
      <3>2. Running(helpers')
        BY <1>0, <2>2, AnotherHelper
      <3>3. NobodyForgotten'
        BY <1>0, <2>2, <3>1 DEF NobodyForgotten, Queued, running
      <3>4. UNCHANGED <<method, release, desk, crashes, stray, lostTrack>>
        BY <1>3 DEF SchtasksFinished
      <3>5. QED
        BY <1>0, <2>2, <3>1, <3>2, <3>3, <3>4, BookAgain
    <2>3. QED
      BY <1>3, <2>1, <2>2 DEF SchtasksFinished
  <1>4. CASE pollResult
    <2>1. result \in Result /\ handleResult(result, helpers)
      BY <1>0, <1>4 DEF pollResult
    <2>2. UNCHANGED <<method, release, desk, crashes, stray, lostTrack>>
      BY <1>4 DEF pollResult
    <2>3. QED
      BY <1>0, <2>1, <2>2, HandleResultKeeps, BookAgain
  <1>5. QED
    BY <1>2, <1>3, <1>4

\* What a helper does, up to its end or its death.
LEMMA HelperStep ==
  ASSUME Book, NEW i \in DOMAIN helpers
  PROVE  HelperReads(i) \/ HelperStage(i) \/ HelperStageFails(i) \/ HelperEnds(i) \/ HelperDies(i) => Book'
  <1>0. /\ release \in BOOLEAN /\ crashes \in 0..MaxCrashes /\ stray \in BOOLEAN /\ lostTrack \in BOOLEAN
        /\ request \in Request \cup {NoReq} /\ result \in Result \cup {NoResult}
        /\ record \in Primaries \cup {"blank", "none"}
        /\ asks \in [Callers -> Standings] /\ job \in Job /\ Running(helpers) /\ Apart(job.queue)
        /\ NobodyForgotten
    BY BookIs, QueueType DEF TypeOK
  <1>h. helpers[i] \in Helper /\ (helpers[i].todo # <<>> => helpers[i].req \in Request)
    BY <1>0 DEF Running
  <1>s. <<>> \in Seq(Stages)
    OBVIOUS
  <1>1. ASSUME NEW h \in Helper, h.todo # <<>> => h.req \in Request,
               helpers' = [helpers EXCEPT ![i] = h],
               UNCHANGED <<method, job, asks, release, record, request, result, crashes, stray>>,
               desk' \in [on : BOOLEAN, primary : Primaries, layout : Primaries \cup {"none"}],
               lostTrack' \in BOOLEAN
        PROVE  Book'
    <2>1. Running(helpers')
      BY <1>0, <1>1, OneHelper
    <2>2. NobodyForgotten'
      BY <1>0, <1>1 DEF NobodyForgotten, Queued, running
    <2>3. TypeOK'
      BY <1>0, <1>1, <2>1, BookIs DEF TypeOK, Running
    <2>4. QED
      BY <1>0, <1>1, <2>1, <2>2, <2>3 DEF Book, Processes, HasRead, Running
  <1>2. CASE HelperReads(i)
    <2> DEFINE h == helpers[i]
               todo == IF request = NoReq THEN <<>>
                       ELSE IF h.arg = "all" THEN stagesOf(request.action) ELSE <<h.arg>>
               next == [h EXCEPT !.ready = TRUE, !.req = request, !.ok = request # NoReq, !.todo = todo]
    <2>1. todo \in Seq(Stages)
      <3>1. CASE request = NoReq
        BY <1>s, <3>1
      <3>2. CASE request # NoReq /\ h.arg = "all"
        <4>1. request.action \in {"Activate", "Deactivate"}
          BY <1>0, <3>2 DEF Request
        <4>2. QED
          BY <3>2, <4>1, StageList
      <3>3. CASE request # NoReq /\ h.arg # "all"
        <4>1. h.arg \in Stages
          BY <1>h, <3>3 DEF Helper
        <4>2. QED
          BY <3>3, <4>1
      <3>4. QED
        BY <3>1, <3>2, <3>3
    <2>2. todo # <<>> => request \in Request
      BY <1>0
    <2>3. helpers' = [helpers EXCEPT ![i] = next]
      BY <1>2 DEF HelperReads
    <2> HIDE DEF todo
    <2>4. next \in Helper /\ (next.todo # <<>> => next.req \in Request)
      BY <1>0, <1>h, <2>1, <2>2 DEF Helper
    <2>5. UNCHANGED <<method, job, asks, release, record, request, result, desk, crashes, stray, lostTrack>>
      BY <1>2 DEF HelperReads
    <2> HIDE DEF next, h
    <2>6. desk' \in [on : BOOLEAN, primary : Primaries, layout : Primaries \cup {"none"}]
      BY <2>5, BookIs DEF TypeOK
    <2>7. QED
      BY <1>0, <1>1, <2>3, <2>4, <2>5, <2>6
  <1>3. CASE HelperStage(i)
    <2> DEFINE h == helpers[i]
               saw == Head(h.todo) = "mode" /\ h.req.action = "Activate" /\ desk.primary # "ours"
               p == IF saw THEN desk.primary ELSE h.previous
               next == [h EXCEPT !.todo = Tail(@), !.previous = p]
    <2>1. h.todo # <<>> /\ h.todo \in Seq(Stages) /\ h.req \in Request
      BY <1>3, <1>h DEF HelperStage, Helper
    <2>2. Head(h.todo) \in Stages /\ Tail(h.todo) \in Seq(Stages)
      BY <2>1
    <2>3. p \in Primaries \cup {"blank"}
      BY <1>h, BookIs DEF TypeOK, Helper
    <2>4. helpers' = [helpers EXCEPT ![i] = next]
      BY <1>3 DEF HelperStage
    <2> HIDE DEF p
    <2>5. next \in Helper /\ next.req \in Request
      BY <1>h, <2>1, <2>2, <2>3 DEF Helper
    <2>6. desk' \in [on : BOOLEAN, primary : Primaries, layout : Primaries \cup {"none"}]
      <3>1. desk' \in StageEffect(Head(h.todo), h.req)
        BY <1>3 DEF HelperStage
      <3>2. desk \in [on : BOOLEAN, primary : Primaries, layout : Primaries \cup {"none"}]
        BY BookIs DEF TypeOK
      <3>3. QED
        BY <2>1, <2>2, <3>1, <3>2, DeskType
    <2>7. /\ UNCHANGED <<method, job, asks, release, record, request, result, crashes, stray>>
          /\ lostTrack' \in BOOLEAN
      BY <1>3 DEF HelperStage
    <2> HIDE DEF next, h
    <2>8. QED
      BY <1>1, <2>4, <2>5, <2>6, <2>7
  <1>4. CASE HelperStageFails(i)
    <2> DEFINE next == [helpers[i] EXCEPT !.todo = <<>>, !.ok = FALSE]
    <2>1. next \in Helper /\ next.todo = <<>>
      BY <1>h, <1>s DEF Helper
    <2>2. /\ helpers' = [helpers EXCEPT ![i] = next]
          /\ UNCHANGED <<method, job, asks, release, record, request, result, desk, crashes, stray, lostTrack>>
      BY <1>4 DEF HelperStageFails
    <2> HIDE DEF next
    <2>3. desk' \in [on : BOOLEAN, primary : Primaries, layout : Primaries \cup {"none"}]
      BY <2>2, BookIs DEF TypeOK
    <2>4. QED
      BY <1>0, <1>1, <2>1, <2>2, <2>3
  <1>5. Running(Without(i))
    BY OneLess
  <1>6. CASE HelperEnds(i)
    <2> DEFINE res == [ok |-> helpers[i].ok, previous |-> helpers[i].previous]
    <2>1. res \in Result
      BY <1>h DEF Result, Helper
    <2>2. UNCHANGED <<method, release, desk, crashes, stray, lostTrack>>
      BY <1>6 DEF HelperEnds
    <2>3. CASE handleResult(res, Without(i))
      <3> HIDE DEF res
      <3>1. QED
        BY <1>0, <1>5, <2>1, <2>2, <2>3, HandleResultKeeps, BookAgain
    <2>4. CASE helpers' = Without(i) /\ result' = res /\ UNCHANGED <<job, asks, record, request>>
      <3>1. NobodyForgotten'
        BY <1>0, <2>4 DEF NobodyForgotten, Queued, running
      <3> HIDE DEF res
      <3>2. QED
        BY <1>0, <1>5, <2>1, <2>2, <2>4, <3>1, BookAgain
    <2>5. QED
      BY <1>6, <2>3, <2>4 DEF HelperEnds
  <1>7. CASE HelperDies(i)
    <2>1. UNCHANGED <<method, release, desk, crashes, stray, lostTrack>>
      BY <1>7 DEF HelperDies
    <2>2. CASE Fail(Without(i))
      BY <1>0, <1>5, <2>1, <2>2, FailKeeps, BookAgain
    <2>3. CASE helpers' = Without(i) /\ UNCHANGED <<job, asks, record, request, result>>
      <3>1. NobodyForgotten'
        BY <1>0, <2>3 DEF NobodyForgotten, Queued, running
      <3>2. QED
        BY <1>0, <1>5, <2>1, <2>3, <3>1, BookAgain
    <2>4. QED
      BY <1>7, <2>2, <2>3 DEF HelperDies
  <1>8. QED
    BY <1>2, <1>3, <1>4, <1>6, <1>7

\* A job before its first operation.
LEMMA FreshJob ==
  /\ NewJob \in Job /\ NewJob.state = "Idle" /\ NewJob.callbacks = {} /\ NewJob.queue = <<>>
  /\ ~NewJob.poll /\ ~NewJob.schtasks /\ NewJob.nextStages = <<>>
  /\ Running(<<>>) /\ DOMAIN <<>> = {}
  <1>1. <<>> \in Seq(Op) /\ <<>> \in Seq(Stages)
    OBVIOUS
  <1>2. DOMAIN <<>> = {} /\ IsFiniteSet({})
    BY FS_EmptySet
  <1>3. Running(<<>>)
    BY <1>2 DEF Running
  <1>4. QED
    BY <1>1, <1>2, <1>3, DisplayAssumption DEF NewJob, Job, Op

\* A restart of the server, which empties the queue and starts with the
\* clean-up, keeps Book.
LEMMA RestartStep ==
  ASSUME Book, Restart
  PROVE  Book'
  <1> DEFINE as == Told(asks, {c \in Callers : asks[c] # "home"}, "gone")
             op == [action |-> "Deactivate", mode |-> 0, callbacks |-> {}]
  <1>0. /\ stray \in BOOLEAN /\ lostTrack \in BOOLEAN /\ crashes \in 0..MaxCrashes /\ MaxCrashes \in Nat
        /\ request \in Request \cup {NoReq} /\ result \in Result \cup {NoResult}
        /\ 0 \in Modes
    BY BookIs, DisplayAssumption DEF TypeOK
  <1>1. /\ release' = FALSE /\ crashes' \in 0..MaxCrashes
        /\ UNCHANGED <<method, desk, stray, lostTrack>>
    BY <1>0 DEF Restart
  <1>2. as \in [Callers -> Standings] /\ WaitingIn(as) = {}
    <2>1. "gone" \in Standings /\ "gone" # "waiting"
      BY DEF Standings
    <2>2. as \in [Callers -> Standings] /\ WaitingIn(as) = WaitingIn(asks) \ {c \in Callers : asks[c] # "home"}
      BY <2>1, ToldProperties, QueueType
    <2>3. QED
      BY <2>2 DEF WaitingIn
  <1>3. CASE startNext(<<op>>, NewJob, as, <<>>, record) /\ record' = record
    <2>1. op \in Op /\ op.callbacks = {}
      BY <1>0 DEF Op
    <2> DEFINE q == <<op>>
    <2>2. q \in Seq(Op) /\ q # <<>> /\ Len(q) = 1 /\ q[1] = op
      BY <2>1
    <2>3. startNext(q, NewJob, as, <<>>, record)
      BY <1>3
    <2> HIDE DEF q, as, op
    <2>4. CallbacksOf(q) = {} /\ Apart(q)
      BY <2>1, <2>2 DEF CallbacksOf, Apart
    <2>5. /\ job' \in Job /\ asks' \in [Callers -> Standings]
          /\ request' \in Request \cup {NoReq} /\ result' = NoResult
          /\ Running(helpers') /\ NobodyForgotten' /\ Apart(job'.queue)
      BY <1>2, <2>2, <2>3, <2>4, FreshJob, QueueType, StartNextKeeps
    <2>6. QED
      BY <1>0, <1>1, <1>3, <2>5, BookAgain, QueueType
  <1>4. CASE /\ job' = NewJob /\ asks' = as /\ helpers' = <<>> /\ record' = "none"
             /\ UNCHANGED <<request, result>>
    <2> HIDE DEF as
    <2>1. /\ job' \in Job /\ job'.queue = <<>> /\ Running(helpers')
          /\ job'.callbacks = {} /\ job'.state = "Idle"
      BY <1>4, FreshJob
    <2>2. Len(job'.queue) = 0
      BY <2>1
    <2>3. Queued' = {} /\ Apart(job'.queue)
      BY <2>2 DEF Queued, Apart
    <2>4. NobodyForgotten'
      BY <1>2, <1>4, <2>1, <2>3 DEF NobodyForgotten, WaitingIn, running
    <2>5. QED
      BY <1>0, <1>1, <1>2, <1>4, <2>1, <2>3, <2>4, BookAgain
  <1>5. QED
    BY <1>3, <1>4 DEF Restart, resetAtStartup

\* Book holds at the start, and every step keeps it.
LEMMA BookInit == Init => Book
  <1> SUFFICES ASSUME Init PROVE Book
    OBVIOUS
  <1> USE DEF Init
  <1>1. TypeOK
    <2>1. \A i \in DOMAIN helpers : helpers[i] \in Helper
      BY FreshJob
    <2>2. DOMAIN helpers \subseteq Nat
      BY FreshJob
    <2>3. /\ desk \in [on : BOOLEAN, primary : Primaries, layout : Primaries \cup {"none"}]
          /\ crashes \in 0..MaxCrashes
      BY DisplayAssumption DEF Primaries
    <2>4. job \in Job /\ method \in Methods
      BY FreshJob
    <2>5. QED
      BY <2>1, <2>2, <2>3, <2>4 DEF TypeOK
  <1>2. Processes /\ HasRead
    BY FreshJob DEF Processes, HasRead, Running
  <1>3. Len(job.queue) = 0
    BY FreshJob
  <1>4. Queued = {} /\ Apart(job.queue)
    BY <1>3 DEF Queued, Apart
  <1>5. NobodyForgotten
    BY <1>4, FreshJob DEF NobodyForgotten, running
  <1>6. QED
    BY <1>1, <1>2, <1>4, <1>5 DEF Book

\* Every step keeps Book.
LEMMA BookNext == Book /\ [Next]_vars => Book'
  <1> SUFFICES ASSUME Book, [Next]_vars PROVE Book'
    OBVIOUS
  <1>1. CASE \E c \in Callers, m \in Modes : activate(c, m)
    BY <1>1, CallStep
  <1>2. CASE \E c \in Callers : StreamEnds(c)
    BY <1>2, CallStep
  <1>3. CASE Timers \/ SchtasksFinished
    BY <1>3, CallStep, EndStep DEF Timers
  <1>4. CASE Helpers
    BY <1>4, HelperStep DEF Helpers
  <1>5. CASE Restart
    BY <1>5, RestartStep
  <1>6. CASE UNCHANGED vars
    BY <1>6 DEF vars, Book, TypeOK, Processes, HasRead, NobodyForgotten, Queued, Apart, running
  <1>7. QED
    BY <1>1, <1>2, <1>3, <1>4, <1>5, <1>6 DEF Next

-----------------------------------------------------------------------------
(***************************************************************************)
(* Operation, request, helper and result stay in step.                     *)
(***************************************************************************)

\* The operations that startNext leaves in the queue were in it.
LEMMA StaysSilent ==
  ASSUME NEW q \in Seq(Op), NEW rest \in Job, NEW as, NEW hs, NEW rec, method \in Methods,
         q = <<>> => rest.queue = <<>>, Silent(q),
         startNext(q, rest, as, hs, rec)
  PROVE  Silent(job'.queue)
  <1>1. PICK k \in 0..Len(q) : Outcome(k, q, rest, as, hs, rec)
    BY Outcomes
  <1>2. CASE Ended(k, q, rest)
    <2>1. job'.queue = <<>>
      <3>1. CASE k = 0
        <4>1. Len(q) = 0
          BY <1>2, <3>1 DEF Ended
        <4>2. q = <<>>
          BY <4>1
        <4>3. QED
          BY <1>2, <3>1, <4>2, JobAfter
      <3>2. CASE k # 0
        BY <1>2, <3>2, JobAfter
      <3>3. QED
        BY <3>1, <3>2
    <2>2. Len(job'.queue) = 0
      BY <2>1
    <2>3. QED
      BY <2>2 DEF Silent
  <1>3. CASE Begun(k, q, rest)
    <2> DEFINE r == SubSeq(q, k + 2, Len(q))
    <2>1. k \in 0..(Len(q) - 1) /\ job'.queue = r
      <3>1. k \in 0..(Len(q) - 1)
        BY <1>3 DEF Begun
      <3>2. QED
        BY <1>3, <3>1, JobAfter
    <2>2. \A i \in 1..Len(r) : i + (k + 1) \in 1..Len(q) /\ r[i] = q[i + (k + 1)]
      BY <2>1, Rest
    <2> HIDE DEF r
    <2>3. Silent(r)
      BY <2>2 DEF Silent
    <2>4. QED
      BY <2>1, <2>3
  <1>4. QED
    BY <1>1, <1>2, <1>3 DEF Outcome

\* An operation that starts with no helper about has its request, its helper and
\* no result.
LEMMA StartsInStep ==
  ASSUME NEW q \in Seq(Op), NEW rest \in Job, NEW as, NEW hs, NEW rec,
         Running(hs), DOMAIN hs = {}, rec \in Primaries \cup {"blank", "none"},
         method \in Methods, Methods \subseteq {"elevated", "service", "task"}, method' = method,
         rest.state # "Running", ~rest.poll, ~rest.schtasks, Silent(q),
         startNext(q, rest, as, hs, rec)
  PROVE  Own'
  <1>1. PICK k \in 0..Len(q) : Outcome(k, q, rest, as, hs, rec)
    BY Outcomes
  <1>2. CASE Ended(k, q, rest) /\ helpers' = hs
    <2>1. ~running' /\ ~job'.poll /\ ~job'.schtasks
      <3>1. job'.state # "Running" /\ job'.poll = rest.poll /\ job'.schtasks = rest.schtasks
        BY <1>2, JobAfter
      <3>2. QED
        BY <3>1 DEF running
    <2>2. OwnRequest' /\ OwnResult' /\ DriverDone'
      BY <2>1 DEF OwnRequest, OwnResult, DriverDone
    <2>3. OwnHelper'
      BY <1>2 DEF OwnHelper
    <2>4. QED
      BY <2>2, <2>3 DEF Own
  <1>3. CASE Begun(k, q, rest) /\ RequestBegun(k, q, rec) /\ HelpersBegun(k, q, hs)
    <2> DEFINE op == q[k + 1]
    <2>1. k \in 0..(Len(q) - 1) /\ k + 1 \in 1..Len(q) /\ op \in Op
      <3>1. k \in 0..(Len(q) - 1)
        BY <1>3 DEF Begun
      <3>2. k + 1 \in 1..Len(q)
        BY <3>1
      <3>3. QED
        BY <3>1, <3>2
    <2>2. op.action = "Deactivate" => op.callbacks = {}
      BY <2>1 DEF Silent
    <2>3. /\ job'.state = "Running" /\ job'.action = op.action /\ job'.callbacks = op.callbacks
          /\ job'.nextStages = IF method = "service" THEN Tail(stagesOf(op.action)) ELSE <<>>
          /\ job'.schtasks = (method = "task")
          /\ job'.poll = rest.poll
      BY <1>3, JobAfter
    <2>4. request' = [action |-> op.action, mode |-> op.mode,
                      restore |-> IF op.action = "Deactivate" THEN rec ELSE "none"]
      BY <1>3 DEF RequestBegun
    <2>5. helpers' = CASE method = "elevated" -> WithHelper(hs, "all")
                       [] method = "service"  -> WithHelper(hs, Head(stagesOf(op.action)))
                       [] method = "task"     -> hs
      BY <1>3 DEF HelpersBegun
    <2>6. result' = NoResult
      BY <1>1 DEF Outcome
    <2> HIDE DEF op
    <2>7. running' /\ ~job'.poll /\ (job'.schtasks <=> method = "task")
      BY <2>3 DEF running
    <2>8. OwnRequest'
      <3>1. request' \in Request /\ request'.action = job'.action
        BY <2>1, <2>3, <2>4 DEF Request, Op
      <3>2. QED
        BY <2>2, <2>3, <3>1 DEF OwnRequest
    <2>9. OwnResult'
      BY <2>6, <2>7 DEF OwnResult
    <2>10. ASSUME NEW arg \in Stages \cup {"all"}, helpers' = WithHelper(hs, arg), method # "task",
                  job'.action = "Activate" => "driver" \in {arg} \cup ToSet(job'.nextStages) \/ arg = "all"
           PROVE  Own'
      <3>1. PICK id \in Nat \ DOMAIN hs :
               /\ DOMAIN WithHelper(hs, arg) = DOMAIN hs \cup {id}
               /\ WithHelper(hs, arg)[id] = NewHelper(arg)
               /\ \A i \in DOMAIN hs : WithHelper(hs, arg)[i] = hs[i]
        BY <2>10, AnotherHelper
      <3>2. DOMAIN helpers' = {id} /\ helpers'[id] = NewHelper(arg)
        BY <2>10, <3>1
      <3>3. OwnHelper'
        BY <2>7, <2>10, <3>2 DEF OwnHelper, NewHelper
      <3>4. Ahead(NewHelper(arg)) = IF arg = "all" THEN {"driver"} ELSE {arg}
        BY DEF Ahead, NewHelper
      <3>5. DriverDone'
        BY <2>7, <2>10, <3>2, <3>4 DEF DriverDone
      <3>6. QED
        BY <2>8, <2>9, <3>3, <3>5 DEF Own
    <2>11. CASE method = "elevated"
      BY <2>5, <2>10, <2>11
    <2>12. CASE method = "service"
      <3> DEFINE arg == Head(stagesOf(op.action))
      <3>1. op.action \in {"Activate", "Deactivate"}
        BY <2>1 DEF Op
      <3>2. /\ arg \in Stages
            /\ job'.action = "Activate" => "driver" \in ToSet(job'.nextStages)
        BY <2>3, <2>12, <3>1, StageList
      <3>3. helpers' = WithHelper(hs, arg)
        BY <2>5, <2>12
      <3> HIDE DEF arg
      <3>4. QED
        BY <2>10, <2>12, <3>2, <3>3
    <2>13. CASE method = "task"
      <3>1. helpers' = hs
        BY <2>5, <2>13
      <3>2. OwnHelper' /\ DriverDone'
        BY <2>7, <3>1 DEF OwnHelper, DriverDone
      <3>3. QED
        BY <2>8, <2>9, <3>2 DEF Own
    <2>14. QED
      BY <1>3, <2>11, <2>12, <2>13
  <1>4. QED
    BY <1>1, <1>2, <1>3 DEF Outcome

\* An operation fails with no helper about.
LEMMA FailInStep ==
  ASSUME Book, Silent(job.queue), NEW hs, Running(hs), method' = method, Fail(hs)
  PROVE  Silent(job'.queue) /\ (DOMAIN hs = {} => Own')
  <1> DEFINE rest == [job EXCEPT !.state = "Failed", !.callbacks = {}, !.schtasks = FALSE,
                                 !.deadline = FALSE, !.poll = FALSE]
             as == Told(asks, job.callbacks, "refused")
  <1>1. /\ rest \in Job /\ rest.state # "Running" /\ rest.queue = job.queue
        /\ ~rest.poll /\ ~rest.schtasks
    BY QueueType DEF Job
  <1>2. startNext(job.queue, rest, as, hs, record)
    BY DEF Fail
  <1> HIDE DEF rest, as
  <1>3. Silent(job'.queue)
    BY <1>1, <1>2, QueueType, StaysSilent
  <1>4. ASSUME DOMAIN hs = {} PROVE Own'
    BY <1>1, <1>2, <1>4, QueueType, StartsInStep
  <1>5. QED
    BY <1>3, <1>4

\* An operation succeeds with no helper about.
LEMMA SucceedInStep ==
  ASSUME Book, Silent(job.queue), NEW hs, Running(hs), method' = method,
         NEW res \in Result, Succeed(res, hs)
  PROVE  Silent(job'.queue) /\ (DOMAIN hs = {} /\ ~job.schtasks => Own')
  <1> DEFINE rest == [job EXCEPT !.state = "Done", !.callbacks = {}, !.deadline = FALSE, !.poll = FALSE,
                                 !.activeMode = IF job.action = "Activate" THEN job.mode ELSE 0]
             as == Told(asks, job.callbacks, "streaming")
  <1>1. /\ rest \in Job /\ rest.state # "Running" /\ rest.queue = job.queue
        /\ ~rest.poll /\ rest.schtasks = job.schtasks
    BY QueueType, DisplayAssumption DEF Job
  <1>2. startNext(job.queue, rest, as, hs, record') /\ record' \in Primaries \cup {"blank", "none"}
    BY DEF Succeed, Result
  <1> HIDE DEF rest, as
  <1>3. Silent(job'.queue)
    BY <1>1, <1>2, QueueType, StaysSilent
  <1>4. ASSUME DOMAIN hs = {}, ~job.schtasks PROVE Own'
    BY <1>1, <1>2, <1>4, QueueType, StartsInStep
  <1>5. QED
    BY <1>3, <1>4

\* The running operation's result comes in with no helper left.
Heard(hs, res) ==
    /\ DOMAIN hs = {} /\ running /\ ~job.schtasks /\ OwnRequest /\ OwnResult
    /\ (job.action = "Activate" /\ res.ok /\ "driver" \notin ToSet(job.nextStages)) => desk.on

\* A result is heard with no helper left: the next stage's helper continues what
\* the last one began.
LEMMA HandleResultInStep ==
  ASSUME Book, Silent(job.queue), NEW hs, Running(hs), method' = method, desk' = desk,
         NEW res \in Result, handleResult(res, hs)
  PROVE  /\ Silent(job'.queue)
         /\ Heard(hs, res) => Own'
  <1>1. CASE ~res.ok
    BY <1>1, FailInStep DEF handleResult, Heard
  <1>2. CASE res.ok /\ job.nextStages = <<>>
    BY <1>2, SucceedInStep DEF handleResult, Heard
  <1>3. CASE res.ok /\ job.nextStages # <<>>
    <2> DEFINE arg == Head(job.nextStages)
    <2>1. /\ job' = [job EXCEPT !.state = "Running", !.nextStages = Tail(@), !.deadline = TRUE]
          /\ helpers' = WithHelper(hs, arg)
          /\ result' = NoResult /\ request' = request
      BY <1>3 DEF handleResult
    <2>2. /\ arg \in Stages /\ Tail(job.nextStages) \in Seq(Stages)
          /\ ToSet(job.nextStages) = {arg} \cup ToSet(Tail(job.nextStages))
      BY <1>3, QueueType, Elements DEF Job
    <2>3. /\ job'.queue = job.queue /\ job'.callbacks = job.callbacks /\ job'.action = job.action
          /\ job'.state = "Running" /\ job'.nextStages = Tail(job.nextStages)
          /\ job'.schtasks = job.schtasks /\ job'.poll = job.poll
      BY <2>1, QueueType DEF Job
    <2> HIDE DEF arg
    <2>4. Silent(job'.queue)
      BY <2>3
    <2>5. ASSUME Heard(hs, res) PROVE Own'
      <3>1. method = "service" /\ ~job.poll
        BY <1>3, <2>5 DEF Heard, OwnRequest, OwnResult
      <3>2. running' /\ ~job'.poll /\ ~job'.schtasks
        BY <2>3, <2>5, <3>1 DEF Heard, running
      <3>3. OwnRequest' /\ OwnResult'
        BY <2>1, <2>3, <2>5, <3>1, <3>2 DEF Heard, OwnRequest, OwnResult
      <3>4. PICK id \in Nat \ DOMAIN hs :
               /\ DOMAIN WithHelper(hs, arg) = DOMAIN hs \cup {id}
               /\ WithHelper(hs, arg)[id] = NewHelper(arg)
               /\ \A i \in DOMAIN hs : WithHelper(hs, arg)[i] = hs[i]
        BY <2>2, AnotherHelper
      <3>5. DOMAIN helpers' = {id} /\ helpers'[id] = NewHelper(arg)
        BY <2>1, <2>5, <3>4 DEF Heard
      <3>6. OwnHelper'
        BY <3>1, <3>2, <3>5 DEF OwnHelper, NewHelper
      <3>7. Ahead(NewHelper(arg)) = {arg}
        BY <2>2 DEF Ahead, NewHelper, Stages
      <3>8. DriverDone'
        BY <1>3, <2>2, <2>3, <2>5, <3>2, <3>5, <3>7 DEF Heard, DriverDone
      <3>9. QED
        BY <3>3, <3>6, <3>8 DEF Own
    <2>6. QED
      BY <2>4, <2>5
  <1>4. QED
    BY <1>1, <1>2, <1>3 DEF Result

\* Who waits for what does not matter to the rest, as long as nobody waits for a
\* deactivation.
LEMMA SameInStep ==
  ASSUME Own, UNCHANGED <<method, request, result, helpers, desk>>,
         job'.state = job.state, job'.action = job.action, job'.nextStages = job.nextStages,
         job'.poll = job.poll, job'.schtasks = job.schtasks,
         running /\ job.action = "Deactivate" => job'.callbacks = {}
  PROVE  Own'
  <1>1. running' <=> running
    BY DEF running
  <1>2. OwnRequest' /\ OwnResult'
    BY <1>1 DEF Own, OwnRequest, OwnResult
  <1>3. OwnHelper'
    BY <1>1 DEF Own, OwnHelper
  <1>4. DriverDone'
    BY <1>1 DEF Own, DriverDone
  <1>5. QED
    BY <1>2, <1>3, <1>4 DEF Own

\* A new request keeps the rest in step.
LEMMA EnqueueInStep ==
  ASSUME Book, Silent(job.queue), NEW action \in {"Activate", "Deactivate"}, NEW m \in Modes,
         NEW cs \in SUBSET Callers, action = "Deactivate" => cs = {},
         method' = method, desk' = desk,
         enqueue(action, m, cs)
  PROVE  Silent(job'.queue) /\ (Own => Own')
  <1> DEFINE op == [action |-> action, mode |-> m, callbacks |-> cs]
             n  == Len(job.queue)
             waits == Told(asks, cs, "waiting")
             held(j) == job' = j /\ asks' = waits /\ UNCHANGED <<request, result, helpers>>
  <1>1. op \in Op /\ op.action = action /\ op.callbacks = cs /\ n \in Nat
    BY QueueType DEF Op
  <1>2. ASSUME Same(job, op), held([job EXCEPT !.callbacks = @ \cup cs])
        PROVE  Silent(job'.queue) /\ (Own => Own')
    <2>1. /\ job'.state = job.state /\ job'.action = job.action /\ job'.nextStages = job.nextStages
          /\ job'.poll = job.poll /\ job'.schtasks = job.schtasks
          /\ job'.callbacks = job.callbacks \cup cs /\ job'.queue = job.queue
          /\ UNCHANGED <<request, result, helpers>>
      BY <1>2, QueueType DEF Job
    <2>2. job.action = action
      BY <1>2 DEF Same
    <2>3. ASSUME Own PROVE Own'
      <3>1. running /\ job.action = "Deactivate" => job'.callbacks = {}
        BY <2>1, <2>2, <2>3 DEF Own, OwnRequest
      <3>2. QED
        BY <2>1, <2>3, <3>1, SameInStep
    <2>4. QED
      BY <2>1, <2>3
  <1>3. ASSUME n > 0, Same(job.queue[n], op), held([job EXCEPT !.queue[n].callbacks = @ \cup cs])
        PROVE  Silent(job'.queue) /\ (Own => Own')
    <2> DEFINE q == [job.queue EXCEPT ![n].callbacks = @ \cup cs]
    <2>1. /\ job'.state = job.state /\ job'.action = job.action /\ job'.nextStages = job.nextStages
          /\ job'.poll = job.poll /\ job'.schtasks = job.schtasks
          /\ job'.callbacks = job.callbacks /\ job'.queue = q
          /\ UNCHANGED <<request, result, helpers>>
      BY <1>3, QueueType DEF Job
    <2>2. /\ \A i \in 1..n : job.queue[i] \in Op
          /\ n \in 1..n /\ job.queue[n].action = action
      BY <1>3, <1>1, QueueType DEF Same
    <2>3. /\ Len(q) = n /\ \A i \in 1..n : i # n => q[i] = job.queue[i]
          /\ q[n].action = action /\ q[n].callbacks = job.queue[n].callbacks \cup cs
      BY <2>2, QueueType DEF Op
    <2> HIDE DEF q
    <2>4. Silent(q)
      BY <2>2, <2>3 DEF Silent
    <2>5. ASSUME Own PROVE Own'
      <3>1. running /\ job.action = "Deactivate" => job'.callbacks = {}
        BY <2>1, <2>5 DEF Own, OwnRequest
      <3>2. QED
        BY <2>1, <2>5, <3>1, SameInStep
    <2>6. QED
      BY <2>1, <2>4, <2>5
  <1>4. ASSUME held([job EXCEPT !.queue = Append(@, op)])
        PROVE  Silent(job'.queue) /\ (Own => Own')
    <2> DEFINE q == Append(job.queue, op)
    <2>1. /\ job'.state = job.state /\ job'.action = job.action /\ job'.nextStages = job.nextStages
          /\ job'.poll = job.poll /\ job'.schtasks = job.schtasks
          /\ job'.callbacks = job.callbacks /\ job'.queue = q
          /\ UNCHANGED <<request, result, helpers>>
      BY <1>4, QueueType DEF Job
    <2> HIDE DEF op
    <2>2. /\ \A i \in 1..Len(job.queue) : q[i] = job.queue[i]
          /\ q[Len(job.queue) + 1] = op
          /\ 1..Len(q) = (1..Len(job.queue)) \cup {Len(job.queue) + 1}
      BY <1>1, QueueType
    <2> HIDE DEF q
    <2>3. Silent(q)
      BY <1>1, <2>2 DEF Silent
    <2>4. ASSUME Own PROVE Own'
      <3>1. running /\ job.action = "Deactivate" => job'.callbacks = {}
        BY <2>1, <2>4 DEF Own, OwnRequest
      <3>2. QED
        BY <2>1, <2>4, <3>1, SameInStep
    <2>5. QED
      BY <2>1, <2>3, <2>4
  <1>5. ASSUME ~running, startNext(<<op>>, job, waits, helpers, record)
        PROVE  Silent(job'.queue) /\ (Own => Own')
    <2> DEFINE q == <<op>>
    <2>1. q \in Seq(Op) /\ q # <<>> /\ Len(q) = 1 /\ q[1] = op
      BY <1>1
    <2>2. startNext(q, job, waits, helpers, record)
      BY <1>5
    <2> HIDE DEF q, op, waits
    <2>3. Silent(q)
      BY <1>1, <2>1 DEF Silent
    <2>4. Silent(job'.queue)
      BY <2>1, <2>2, <2>3, QueueType, StaysSilent
    <2>5. ASSUME Own PROVE Own'
      <3>1. DOMAIN helpers = {} /\ ~job.poll /\ ~job.schtasks /\ job.state # "Running"
        BY <1>5, <2>5 DEF Own, OwnHelper, OwnResult, running
      <3>2. QED
        BY <2>1, <2>2, <2>3, <3>1, QueueType, StartsInStep
    <2>6. QED
      BY <2>4, <2>5
  <1>6. \/ Same(job, op) /\ held([job EXCEPT !.callbacks = @ \cup cs])
        \/ n > 0 /\ Same(job.queue[n], op) /\ held([job EXCEPT !.queue[n].callbacks = @ \cup cs])
        \/ held([job EXCEPT !.queue = Append(@, op)])
        \/ ~running /\ startNext(<<op>>, job, waits, helpers, record)
    BY Zenon DEF enqueue
  <1> HIDE DEF held, op, n, waits
  <1>7. QED
    BY <1>2, <1>3, <1>4, <1>5, <1>6

\* A result the poll finds is the running operation's.
LEMMA PollHears ==
  ASSUME Book, Own, pollResult
  PROVE  result \in Result /\ Heard(helpers, result)
  <1>1. job.poll /\ result # NoResult
    BY DEF pollResult
  <1>2. /\ running /\ method = "task" /\ ~job.schtasks /\ DOMAIN helpers = {}
        /\ OwnRequest /\ OwnResult
    BY <1>1 DEF Own, OwnHelper, OwnResult
  <1>3. job.action = "Activate" /\ result.ok => desk.on
    BY <1>1, <1>2 DEF Own, DriverDone
  <1>4. QED
    BY <1>1, <1>2, <1>3, BookIs DEF Heard, TypeOK

\* So is the verdict of a helper that ends.
LEMMA EndHears ==
  ASSUME Book, Own, NEW i \in DOMAIN helpers, helpers[i].ready, helpers[i].todo = <<>>,
         NEW res \in Result, res.ok = helpers[i].ok
  PROVE  Heard(Without(i), res)
  <1>1. /\ DOMAIN Without(i) = {} /\ running /\ ~job.schtasks /\ OwnRequest /\ OwnResult
    BY DEF Own, OwnHelper, Without
  <1>2. helpers[i].todo \in Seq(Stages)
    BY QueueType DEF Running, Helper
  <1>3. Ahead(helpers[i]) = {}
    BY <1>2, Elements DEF Ahead
  <1>4. (job.action = "Activate" /\ res.ok /\ "driver" \notin ToSet(job.nextStages)) => desk.on
    BY <1>1, <1>3 DEF Own, DriverDone
  <1>5. QED
    BY <1>1, <1>4 DEF Heard

\* The calls and the timers.
LEMMA CallInStep ==
  ASSUME IInv
  PROVE  /\ \A c \in Callers, m \in Modes : activate(c, m) => Silent(job'.queue) /\ InStep'
         /\ \A c \in Callers : StreamEnds(c) => Silent(job'.queue) /\ InStep'
         /\ ReleaseTimeout => Silent(job'.queue) /\ InStep'
  <1>0. Book /\ Silent(job.queue) /\ (~stray => Own)
    BY DEF IInv, InStep
  <1>1. ASSUME UNCHANGED <<method, job, request, result, helpers, desk, stray>>
        PROVE  Silent(job'.queue) /\ InStep'
    <2>1. ASSUME Own PROVE Own'
      <3>1. running /\ job.action = "Deactivate" => job'.callbacks = {}
        BY <1>1, <2>1 DEF Own, OwnRequest
      <3>2. QED
        BY <1>1, <2>1, <3>1, SameInStep
    <2>2. QED
      BY <1>0, <1>1, <2>1 DEF InStep
  <1>2. ASSUME NEW c \in Callers, NEW m \in Modes, activate(c, m)
        PROVE  Silent(job'.queue) /\ InStep'
    <2>1. method' = method /\ desk' = desk /\ stray' = stray
      BY <1>2 DEF activate
    <2>2. CASE UNCHANGED <<job, request, result, helpers>>
      BY <1>1, <2>1, <2>2
    <2>3. CASE enqueue("Activate", m, {c})
      <3>1. {c} \in SUBSET Callers
        OBVIOUS
      <3>2. Silent(job'.queue) /\ (Own => Own')
        BY <1>0, <2>1, <2>3, <3>1, EnqueueInStep
      <3>3. QED
        BY <1>0, <2>1, <3>2 DEF InStep
    <2>4. QED
      BY <1>2, <2>2, <2>3 DEF activate
  <1>3. ASSUME NEW c \in Callers, StreamEnds(c)
        PROVE  Silent(job'.queue) /\ InStep'
    BY <1>1, <1>3 DEF StreamEnds
  <1>4. ASSUME ReleaseTimeout PROVE Silent(job'.queue) /\ InStep'
    <2>1. method' = method /\ desk' = desk /\ stray' = stray
      BY <1>4 DEF ReleaseTimeout
    <2>2. CASE UNCHANGED <<job, asks, request, result, helpers>>
      BY <1>1, <2>1, <2>2
    <2>3. CASE enqueue("Deactivate", 0, {})
      <3>1. 0 \in Modes /\ {} \in SUBSET Callers
        BY DisplayAssumption
      <3>2. Silent(job'.queue) /\ (Own => Own')
        BY <1>0, <2>1, <2>3, <3>1, EnqueueInStep
      <3>3. QED
        BY <1>0, <2>1, <3>2 DEF InStep
    <2>4. QED
      BY <1>4, <2>2, <2>3 DEF ReleaseTimeout
  <1>5. QED
    BY <1>2, <1>3, <1>4

\* The ends of operations, heard or timed out.
LEMMA EndInStep ==
  ASSUME IInv, DeadlineTimeout \/ SchtasksFinished \/ pollResult
  PROVE  Silent(job'.queue) /\ InStep'
  <1>0. Book /\ Silent(job.queue) /\ (~stray => Own) /\ Running(helpers)
    BY QueueType DEF IInv, InStep
  <1>1. CASE DeadlineTimeout
    <2>1. /\ Fail(helpers) /\ method' = method
          /\ stray' = (stray \/ DOMAIN helpers # {})
      BY <1>1 DEF DeadlineTimeout
    <2>2. Silent(job'.queue) /\ (DOMAIN helpers = {} => Own')
      BY <1>0, <2>1, FailInStep
    <2>3. QED
      BY <2>1, <2>2 DEF InStep
  <1>2. CASE SchtasksFinished
    <2>1. job.schtasks /\ UNCHANGED <<method, release, desk, crashes, stray, lostTrack>>
      BY <1>2 DEF SchtasksFinished
    <2>2. Own => DOMAIN helpers = {} /\ result = NoResult /\ method = "task" /\ running
      BY <2>1 DEF Own, OwnHelper, OwnResult
    <2>3. CASE Fail(helpers)
      <3>1. Silent(job'.queue) /\ (DOMAIN helpers = {} => Own')
        BY <1>0, <2>1, <2>3, FailInStep
      <3>2. QED
        BY <1>0, <2>1, <2>2, <3>1 DEF InStep
    <2>4. CASE /\ job' = [job EXCEPT !.schtasks = FALSE, !.deadline = TRUE, !.poll = TRUE]
               /\ helpers' = WithHelper(helpers, "all")
               /\ UNCHANGED <<asks, record, request, result>>
      <3>1. /\ job'.state = job.state /\ job'.action = job.action /\ job'.queue = job.queue
            /\ job'.callbacks = job.callbacks /\ job'.nextStages = job.nextStages
            /\ job'.poll /\ ~job'.schtasks
        BY <2>4, QueueType DEF Job
      <3>2. ASSUME Own PROVE Own'
        <4>1. PICK id \in Nat \ DOMAIN helpers :
                 /\ DOMAIN WithHelper(helpers, "all") = DOMAIN helpers \cup {id}
                 /\ WithHelper(helpers, "all")[id] = NewHelper("all")
          BY <1>0, AnotherHelper
        <4>2. DOMAIN helpers' = {id} /\ helpers'[id] = NewHelper("all")
          BY <2>2, <2>4, <3>2, <4>1
        <4>3. running' /\ method' = "task" /\ result' = NoResult
          BY <2>1, <2>2, <2>4, <3>1, <3>2 DEF running
        <4>4. OwnHelper'
          BY <3>1, <4>2, <4>3 DEF OwnHelper, NewHelper
        <4>5. OwnResult'
          BY <3>1, <4>3 DEF OwnResult
        <4>6. OwnRequest'
          BY <2>1, <2>2, <2>4, <3>1, <3>2 DEF Own, OwnRequest, running
        <4>7. Ahead(NewHelper("all")) = {"driver"}
          BY DEF Ahead, NewHelper
        <4>8. DriverDone'
          BY <4>2, <4>3, <4>7 DEF DriverDone
        <4>9. QED
          BY <4>4, <4>5, <4>6, <4>8 DEF Own
      <3>3. QED
        BY <1>0, <2>1, <3>1, <3>2 DEF InStep
    <2>5. QED
      BY <1>2, <2>3, <2>4 DEF SchtasksFinished
  <1>3. CASE pollResult
    <2>1. /\ job.poll /\ result # NoResult /\ handleResult(result, helpers)
          /\ UNCHANGED <<method, release, desk, crashes, stray, lostTrack>>
      BY <1>3 DEF pollResult
    <2>2. result \in Result
      BY <1>0, <2>1, BookIs DEF TypeOK
    <2>3. Silent(job'.queue) /\ (Heard(helpers, result) => Own')
      BY <1>0, <2>1, <2>2, HandleResultInStep
    <2>4. ASSUME Own PROVE Heard(helpers, result)
      BY <1>0, <1>3, <2>4, PollHears
    <2>5. QED
      BY <1>0, <2>1, <2>3, <2>4 DEF InStep
  <1>4. QED
    BY <1>1, <1>2, <1>3

\* A driver stage that succeeds switches the display on, and only a deactivation
\* switches it off.
LEMMA StageSwitches ==
  ASSUME desk \in [on : BOOLEAN, primary : Primaries, layout : Primaries \cup {"none"}],
         NEW stage \in Stages, NEW req \in Request, req.action = "Activate",
         desk' \in StageEffect(stage, req)
  PROVE  (stage = "driver" => desk'.on) /\ (desk.on => desk'.on)
  <1>1. CASE stage = "snapshot"
    BY <1>1 DEF StageEffect
  <1>2. CASE stage = "driver"
    BY <1>2 DEF StageEffect
  <1>3. CASE stage = "mode"
    BY <1>3 DEF StageEffect
  <1>4. QED
    BY <1>1, <1>2, <1>3 DEF Stages

\* The work of a helper.
LEMMA WorkInStep ==
  ASSUME IInv, NEW i \in DOMAIN helpers, HelperReads(i) \/ HelperStage(i) \/ HelperStageFails(i)
  PROVE  Silent(job'.queue) /\ InStep'
  <1>0. /\ Book /\ Silent(job.queue) /\ (~stray => Own) /\ Running(helpers)
        /\ helpers[i] \in Helper
    BY QueueType DEF IInv, InStep, Running
  <1>u. UNCHANGED <<method, job, request, result, stray>>
    BY DEF HelperReads, HelperStage, HelperStageFails
  <1>1. ASSUME Own, NEW h, helpers' = [helpers EXCEPT ![i] = h],
               h.ready, h.req = request,
               (job.action = "Activate" /\ h.ok /\ "driver" \notin ToSet(h.todo) \cup ToSet(job.nextStages))
                   => desk'.on
        PROVE  Own'
    <2>1. DOMAIN helpers' = DOMAIN helpers /\ helpers'[i] = h
      BY <1>1
    <2>2. DOMAIN helpers = {i}
      BY <1>1 DEF Own, OwnHelper
    <2>3. running' <=> running
      BY <1>u DEF running
    <2>4. OwnRequest' /\ OwnResult'
      BY <1>u, <1>1, <2>3 DEF Own, OwnRequest, OwnResult
    <2>5. OwnHelper'
      BY <1>u, <1>1, <2>1, <2>2, <2>3 DEF Own, OwnHelper
    <2>6. Ahead(h) = ToSet(h.todo)
      BY <1>1 DEF Ahead
    <2>7. ~(job.poll /\ result # NoResult)
      BY <1>1, <2>2 DEF Own, OwnHelper, OwnResult
    <2>8. DriverDone'
      BY <1>u, <1>1, <2>1, <2>2, <2>6, <2>7 DEF DriverDone
    <2>9. QED
      BY <2>4, <2>5, <2>8 DEF Own
  <1>2. ASSUME Own, HelperReads(i) PROVE Own'
    <2> DEFINE todo == IF request = NoReq THEN <<>>
                       ELSE IF helpers[i].arg = "all" THEN stagesOf(request.action) ELSE <<helpers[i].arg>>
               h == [helpers[i] EXCEPT !.ready = TRUE, !.req = request, !.ok = request # NoReq, !.todo = todo]
    <2>1. /\ ~helpers[i].ready /\ desk' = desk
          /\ helpers' = [helpers EXCEPT ![i] = h]
      BY <1>2 DEF HelperReads
    <2> HIDE DEF todo
    <2>2. h.ready /\ h.req = request /\ h.ok = (request # NoReq) /\ h.todo = todo
      BY <1>0 DEF Helper
    <2> HIDE DEF h
    <2>3. ASSUME job.action = "Activate", h.ok,
                 "driver" \notin ToSet(h.todo) \cup ToSet(job.nextStages)
          PROVE  desk.on
      <3>1. /\ running /\ request \in Request /\ request.action = "Activate" /\ helpers[i].ok
            /\ request # NoReq
        BY <1>2, <2>1, <2>2, <2>3 DEF Own, OwnHelper, OwnRequest
      <3>2. CASE helpers[i].arg = "all"
        <4>1. todo = stagesOf("Activate")
          BY <3>1, <3>2 DEF todo
        <4>2. "driver" \in ToSet(todo)
          BY <4>1, StageList
        <4>3. QED
          BY <2>2, <2>3, <4>2
      <3>3. CASE helpers[i].arg # "all"
        <4> DEFINE arg == helpers[i].arg
        <4>1. todo = <<arg>> /\ arg \in Stages
          BY <1>0, <3>1, <3>3 DEF todo, Helper
        <4>2. ToSet(todo) = {arg}
          <5>1. todo \in Seq(Stages) /\ todo # <<>> /\ Head(todo) = arg /\ Tail(todo) = <<>>
            BY <4>1
          <5>2. ToSet(todo) = {Head(todo)} \cup ToSet(Tail(todo))
            BY <5>1, Elements
          <5>3. <<>> \in Seq(Stages)
            OBVIOUS
          <5>4. ToSet(<<>>) = {}
            BY <5>3, Elements
          <5>5. QED
            BY <5>1, <5>2, <5>4
        <4>3. Ahead(helpers[i]) = {arg}
          BY <2>1, <3>3 DEF Ahead
        <4>4. QED
          BY <1>2, <2>2, <2>3, <3>1, <4>2, <4>3 DEF Own, DriverDone
      <3>4. QED
        BY <3>2, <3>3
    <2>4. QED
      BY <1>1, <1>2, <2>1, <2>2, <2>3
  <1>3. ASSUME Own, HelperStage(i) PROVE Own'
    <2> DEFINE saw == Head(helpers[i].todo) = "mode" /\ helpers[i].req.action = "Activate" /\ desk.primary # "ours"
               h == [helpers[i] EXCEPT !.todo = Tail(@), !.previous = IF saw THEN desk.primary ELSE @]
               stage == Head(helpers[i].todo)
    <2>1. /\ helpers[i].todo # <<>> /\ helpers' = [helpers EXCEPT ![i] = h]
          /\ desk' \in StageEffect(stage, helpers[i].req)
      BY <1>3 DEF HelperStage
    <2>2. /\ running /\ helpers[i].ready /\ helpers[i].req = request
          /\ request \in Request /\ request.action = job.action
      BY <1>3, <2>1 DEF Own, OwnHelper, OwnRequest
    <2>3. /\ h.ready /\ h.req = request /\ h.ok = helpers[i].ok
          /\ h.todo = Tail(helpers[i].todo)
      BY <1>0, <2>2 DEF Helper
    <2> HIDE DEF h, saw
    <2>4. /\ stage \in Stages
          /\ ToSet(helpers[i].todo) = {stage} \cup ToSet(h.todo)
      BY <1>0, <2>1, <2>3, Elements DEF Helper
    <2> HIDE DEF stage
    <2>5. ASSUME job.action = "Activate", h.ok,
                 "driver" \notin ToSet(h.todo) \cup ToSet(job.nextStages)
          PROVE  desk'.on
      <3>1. desk \in [on : BOOLEAN, primary : Primaries, layout : Primaries \cup {"none"}]
        BY <1>0, BookIs DEF TypeOK
      <3>2. (stage = "driver" => desk'.on) /\ (desk.on => desk'.on)
        BY <2>1, <2>2, <2>4, <2>5, <3>1, StageSwitches
      <3>3. Ahead(helpers[i]) = ToSet(helpers[i].todo)
        BY <2>2 DEF Ahead
      <3>4. stage # "driver" => desk.on
        BY <1>3, <2>2, <2>3, <2>4, <2>5, <3>3 DEF Own, DriverDone
      <3>5. QED
        BY <3>2, <3>4
    <2>6. QED
      BY <1>1, <1>3, <2>1, <2>3, <2>5
  <1>4. ASSUME Own, HelperStageFails(i) PROVE Own'
    <2> DEFINE h == [helpers[i] EXCEPT !.todo = <<>>, !.ok = FALSE]
    <2>1. helpers[i].todo # <<>> /\ helpers' = [helpers EXCEPT ![i] = h]
      BY <1>4 DEF HelperStageFails
    <2>2. helpers[i].ready /\ helpers[i].req = request
      BY <1>4, <2>1 DEF Own, OwnHelper
    <2>3. h.ready /\ h.req = request /\ ~h.ok
      BY <1>0, <2>2 DEF Helper
    <2> HIDE DEF h
    <2>4. QED
      BY <1>1, <1>4, <2>1, <2>3
  <1>5. QED
    BY <1>0, <1>u, <1>2, <1>3, <1>4 DEF InStep

\* The end of a helper, or its death.
LEMMA LeaveInStep ==
  ASSUME IInv, NEW i \in DOMAIN helpers, HelperEnds(i) \/ HelperDies(i)
  PROVE  Silent(job'.queue) /\ InStep'
  <1>0. /\ Book /\ Silent(job.queue) /\ (~stray => Own) /\ Running(helpers)
        /\ helpers[i] \in Helper /\ Running(Without(i))
    BY QueueType, OneLess DEF IInv, InStep, Running
  <1>u. UNCHANGED <<method, desk, stray>>
    BY DEF HelperEnds, HelperDies
  <1>1. Own => DOMAIN helpers = {i} /\ DOMAIN Without(i) = {} /\ running /\ ~job.schtasks
    BY DEF Own, OwnHelper, Without
  <1>2. ASSUME method = "task", helpers' = Without(i), UNCHANGED <<job, request>>,
               Own => \/ result' = result
                      \/ job.action = "Activate" /\ result'.ok => desk.on
        PROVE  Silent(job'.queue) /\ InStep'
    <2>1. ASSUME Own PROVE Own'
      <3>1. running' /\ DOMAIN helpers' = {} /\ ~job'.schtasks
        BY <1>1, <1>2, <2>1 DEF running
      <3>2. OwnRequest' /\ OwnResult'
        BY <1>u, <1>2, <2>1, <3>1 DEF Own, OwnRequest, OwnResult, running
      <3>3. OwnHelper'
        BY <3>1 DEF OwnHelper
      <3>4. result' = result => ~(result' # NoResult)
        BY <1>2, <1>1, <2>1 DEF Own, OwnHelper
      <3>5. DriverDone'
        BY <1>u, <1>2, <2>1, <3>1, <3>4 DEF DriverDone
      <3>6. QED
        BY <3>2, <3>3, <3>5 DEF Own
    <2>2. QED
      BY <1>0, <1>u, <1>2, <2>1 DEF InStep
  <1>3. CASE HelperEnds(i)
    <2> DEFINE res == [ok |-> helpers[i].ok, previous |-> helpers[i].previous]
    <2>1. helpers[i].ready /\ helpers[i].todo = <<>>
      BY <1>3 DEF HelperEnds
    <2>2. res \in Result /\ res.ok = helpers[i].ok
      BY <1>0 DEF Result, Helper
    <2>3. ASSUME Own PROVE Heard(Without(i), res)
      <3> HIDE DEF res
      <3>1. QED
        BY <1>0, <2>1, <2>2, <2>3, EndHears
    <2>4. CASE method # "task"
      <3>1. handleResult(res, Without(i))
        BY <1>3, <2>4 DEF HelperEnds
      <3> HIDE DEF res
      <3>2. Silent(job'.queue) /\ (Heard(Without(i), res) => Own')
        BY <1>0, <1>u, <2>2, <3>1, HandleResultInStep
      <3>3. Own => Heard(Without(i), res)
        BY <2>3
      <3>4. QED
        BY <1>0, <1>u, <3>2, <3>3 DEF InStep
    <2>5. CASE method = "task"
      <3>1. helpers' = Without(i) /\ result' = res /\ UNCHANGED <<job, asks, record, request>>
        BY <1>3, <2>5 DEF HelperEnds
      <3> HIDE DEF res
      <3>2. ASSUME Own PROVE job.action = "Activate" /\ result'.ok => desk.on
        <4>1. job.nextStages = <<>> /\ job.nextStages \in Seq(Stages)
          BY <1>0, <1>1, <2>5, <3>2, QueueType DEF Own, OwnRequest, Job
        <4>2. ToSet(job.nextStages) = {}
          BY <4>1, Elements
        <4>3. QED
          BY <2>3, <3>1, <3>2, <4>2 DEF Heard
      <3>3. QED
        BY <1>2, <2>5, <3>1, <3>2
    <2>6. QED
      BY <2>4, <2>5
  <1>4. CASE HelperDies(i)
    <2>1. CASE method # "task"
      <3>1. Fail(Without(i))
        BY <1>4, <2>1 DEF HelperDies
      <3>2. Silent(job'.queue) /\ (DOMAIN Without(i) = {} => Own')
        BY <1>0, <1>u, <3>1, FailInStep
      <3>3. QED
        BY <1>0, <1>1, <1>u, <3>2 DEF InStep
    <2>2. CASE method = "task"
      <3>1. helpers' = Without(i) /\ UNCHANGED <<job, asks, record, request, result>>
        BY <1>4, <2>2 DEF HelperDies
      <3>2. QED
        BY <1>2, <2>2, <3>1
    <2>3. QED
      BY <2>1, <2>2
  <1>5. QED
    BY <1>3, <1>4

\* Nothing of a server that died is left when the next one starts.
LEMMA RestartInStep ==
  ASSUME IInv, Restart
  PROVE  Silent(job'.queue) /\ InStep'
  <1> DEFINE as == Told(asks, {c \in Callers : asks[c] # "home"}, "gone")
             op == [action |-> "Deactivate", mode |-> 0, callbacks |-> {}]
  <1>0. Book /\ UNCHANGED <<method, desk, stray>>
    BY DEF IInv, Restart
  <1>1. CASE startNext(<<op>>, NewJob, as, <<>>, record)
    <2>1. op \in Op /\ op.callbacks = {}
      BY DisplayAssumption DEF Op
    <2> DEFINE q == <<op>>
    <2>2. q \in Seq(Op) /\ q # <<>> /\ Len(q) = 1 /\ q[1] = op
      BY <2>1
    <2>3. startNext(q, NewJob, as, <<>>, record)
      BY <1>1
    <2> HIDE DEF q, as, op
    <2>4. Silent(q)
      BY <2>1, <2>2 DEF Silent
    <2>5. Silent(job'.queue)
      BY <1>0, <2>2, <2>3, <2>4, FreshJob, QueueType, StaysSilent
    <2>6. Own'
      BY <1>0, <2>2, <2>3, <2>4, FreshJob, QueueType, StartsInStep
    <2>7. QED
      BY <2>5, <2>6 DEF InStep
  <1>2. CASE job' = NewJob /\ helpers' = <<>> /\ UNCHANGED <<request, result>>
    <2>1. /\ job'.queue = <<>> /\ ~running' /\ ~job'.poll /\ ~job'.schtasks /\ DOMAIN helpers' = {}
      BY <1>2, FreshJob DEF running
    <2>2. Len(job'.queue) = 0
      BY <2>1
    <2>3. Silent(job'.queue)
      BY <2>2 DEF Silent
    <2>4. Own'
      BY <2>1 DEF Own, OwnRequest, OwnHelper, OwnResult, DriverDone
    <2>5. QED
      BY <2>3, <2>4 DEF InStep
  <1>3. QED
    BY <1>1, <1>2 DEF Restart, resetAtStartup

\* At the start the queue is empty and nothing runs.
LEMMA InStepInit == Init => Silent(job.queue) /\ InStep
  <1> SUFFICES ASSUME Init PROVE Silent(job.queue) /\ InStep
    OBVIOUS
  <1>1. /\ job.queue = <<>> /\ ~running /\ ~job.poll /\ ~job.schtasks /\ DOMAIN helpers = {}
    BY FreshJob DEF Init, running
  <1>2. Len(job.queue) = 0
    BY <1>1
  <1>3. Silent(job.queue)
    BY <1>2 DEF Silent
  <1>4. Own
    BY <1>1 DEF Own, OwnRequest, OwnHelper, OwnResult, DriverDone
  <1>5. QED
    BY <1>3, <1>4 DEF InStep

\* Every step keeps the job and its helper in step.
LEMMA InStepNext == IInv /\ [Next]_vars => Silent(job'.queue) /\ InStep'
  <1> SUFFICES ASSUME IInv, [Next]_vars PROVE Silent(job'.queue) /\ InStep'
    OBVIOUS
  <1>1. CASE \E c \in Callers, m \in Modes : activate(c, m)
    BY <1>1, CallInStep
  <1>2. CASE \E c \in Callers : StreamEnds(c)
    BY <1>2, CallInStep
  <1>3. CASE Timers \/ SchtasksFinished
    BY <1>3, CallInStep, EndInStep DEF Timers
  <1>4. CASE Helpers
    BY <1>4, WorkInStep, LeaveInStep DEF Helpers
  <1>5. CASE Restart
    BY <1>5, RestartInStep
  <1>6. CASE UNCHANGED vars
    BY <1>6 DEF vars, IInv, InStep, Own, OwnRequest, OwnHelper, OwnResult, DriverDone, running
  <1>7. QED
    BY <1>1, <1>2, <1>3, <1>4, <1>5, <1>6 DEF Next

-----------------------------------------------------------------------------
(***************************************************************************)
(* Who is told what.                                                       *)
(***************************************************************************)

\* startNext tells nobody that the display is there.
LEMMA StartNextTells ==
  ASSUME NEW q \in Seq(Op), NEW rest, NEW as \in [Callers -> Standings], NEW hs, NEW rec,
         startNext(q, rest, as, hs, rec), NEW c \in Callers, asks'[c] = "streaming"
  PROVE  as[c] = "streaming"
  <1>1. PICK k \in 0..Len(q) : Outcome(k, q, rest, as, hs, rec)
    BY Outcomes
  <1>2. asks' = Told(as, FirstOf(q, k), "refused")
    BY <1>1 DEF Outcome
  <1> DEFINE cs == FirstOf(q, k)
  <1> HIDE DEF cs
  <1>3. Told(as, cs, "refused")[c] = IF c \in cs THEN "refused" ELSE as[c]
    BY DEF Told
  <1>4. QED
    BY <1>2, <1>3 DEF cs

\* Nor does an operation that fails.
LEMMA FailTells ==
  ASSUME Book, NEW hs, Fail(hs), NEW c \in Callers, asks'[c] = "streaming"
  PROVE  asks[c] = "streaming"
  <1> DEFINE as == Told(asks, job.callbacks, "refused")
  <1>1. as \in [Callers -> Standings] /\ as[c] = IF c \in job.callbacks THEN "refused" ELSE asks[c]
    BY QueueType DEF Told, Standings
  <1>2. \E rest : startNext(job.queue, rest, as, hs, record)
    BY DEF Fail
  <1> HIDE DEF as
  <1>3. as[c] = "streaming"
    BY <1>2, QueueType, <1>1, StartNextTells
  <1>4. QED
    BY <1>1, <1>3

\* Nor does a request that joins, queues or starts.
LEMMA EnqueueTells ==
  ASSUME Book, NEW action \in {"Activate", "Deactivate"}, NEW m \in Modes,
         NEW cs \in SUBSET Callers, enqueue(action, m, cs),
         NEW c \in Callers, asks'[c] = "streaming"
  PROVE  asks[c] = "streaming"
  <1> DEFINE op == [action |-> action, mode |-> m, callbacks |-> cs]
             waits == Told(asks, cs, "waiting")
  <1>1. waits \in [Callers -> Standings] /\ waits[c] = IF c \in cs THEN "waiting" ELSE asks[c]
    BY QueueType DEF Told, Standings
  <1>2. asks' = waits \/ startNext(<<op>>, job, waits, helpers, record)
    BY Zenon DEF enqueue
  <1>3. CASE startNext(<<op>>, job, waits, helpers, record)
    <2> DEFINE q == <<op>>
    <2>1. op \in Op
      BY DEF Op
    <2>2. q \in Seq(Op)
      BY <2>1
    <2>3. startNext(q, job, waits, helpers, record)
      BY <1>3
    <2> HIDE DEF q, op, waits
    <2>4. waits[c] = "streaming"
      BY <1>1, <2>2, <2>3, StartNextTells
    <2>5. QED
      BY <1>1, <2>4
  <1>4. QED
    BY <1>1, <1>2, <1>3

\* Who is told so by a result has been waiting for the operation that runs, an
\* activation, and its last stage is done.
LEMMA HandleResultTells ==
  ASSUME Book, NEW hs, NEW res \in Result, handleResult(res, hs), desk' = desk,
         Heard(hs, res), NEW c \in Callers, asks[c] # "streaming", asks'[c] = "streaming"
  PROVE  desk'.on
  <1>1. CASE ~res.ok
    BY <1>1, FailTells DEF handleResult
  <1>2. CASE res.ok /\ job.nextStages # <<>>
    BY <1>2 DEF handleResult
  <1>3. CASE res.ok /\ job.nextStages = <<>>
    <2> DEFINE as == Told(asks, job.callbacks, "streaming")
    <2>1. as \in [Callers -> Standings] /\ as[c] = IF c \in job.callbacks THEN "streaming" ELSE asks[c]
      BY QueueType DEF Told, Standings
    <2>2. \E rest : startNext(job.queue, rest, as, hs, record')
      BY <1>3 DEF handleResult, Succeed
    <2> HIDE DEF as
    <2>3. c \in job.callbacks
      BY <2>1, <2>2, QueueType, StartNextTells
    <2>4. job.action = "Activate"
      BY <2>3, QueueType DEF Heard, OwnRequest, Job
    <2>5. ToSet(job.nextStages) = {}
      BY <1>3, QueueType, Elements DEF Job
    <2>6. QED
      BY <1>3, <2>4, <2>5 DEF Heard
  <1>4. QED
    BY <1>1, <1>2, <1>3 DEF Result

-----------------------------------------------------------------------------
(***************************************************************************)
(* Theorems.                                                               *)
(***************************************************************************)

\* The books of VirtualDisplayJob: everyone who waits stands with one operation,
\* and, until a helper outlives its operation, the operation that runs, the request
\* file, the helper and the result file belong together.
THEOREM Bookkeeping == Spec => []IInv
  <1>1. Init => IInv
    BY BookInit, InStepInit DEF IInv
  <1>2. IInv /\ [Next]_vars => IInv'
    <2>1. IInv /\ [Next]_vars => Book'
      BY BookNext DEF IInv
    <2>2. IInv' <=> Book' /\ Silent(job'.queue) /\ InStep'
      BY DEF IInv, Silent
    <2>3. QED
      BY <2>1, <2>2, InStepNext
  <1>3. QED
    BY <1>1, <1>2, PTL DEF Spec

\* Type correctness of VirtualDisplayJob.
THEOREM TypeCorrect == Spec => []TypeOK
  <1>1. IInv => TypeOK
    BY BookIs DEF IInv
  <1>2. QED
    BY <1>1, Bookkeeping, PTL

\* Everyone who waits for the display is known to exactly one operation, and an
\* operation that runs has a timer or schtasks to end it (enqueue, startNext,
\* succeed, fail).
THEOREM Remembered == Spec => []NobodyForgotten
  <1>1. IInv => NobodyForgotten
    BY BookIs DEF IInv
  <1>2. QED
    BY <1>1, Bookkeeping, PTL

\* A launch is told that it has its display (succeed, or activate on the spot) only
\* when the display is on, as long as no helper has outlived its operation.
THEOREM Truthful == Spec => ToldTheTruth
  <1>1. ASSUME IInv, [Next]_vars, NEW c \in Callers,
               asks[c] # "streaming", asks'[c] = "streaming", ~stray
        PROVE  desk'.on
    <2>0. Book /\ Own /\ Silent(job.queue) /\ asks \in [Callers -> Standings]
      BY <1>1, QueueType DEF IInv, InStep
    <2>1. CASE \E d \in Callers, m \in Modes : activate(d, m)
      <3>1. PICK d \in Callers, m \in Modes : activate(d, m)
        BY <2>1
      <3>2. CASE OnAlready(m)
        BY <3>1, <3>2 DEF activate, OnAlready
      <3>3. CASE enqueue("Activate", m, {d})
        BY <1>1, <2>0, <3>3, EnqueueTells
      <3>4. QED
        BY <3>1, <3>2, <3>3 DEF activate
    <2>2. CASE \E d \in Callers : StreamEnds(d)
      BY <1>1, <2>0, <2>2 DEF StreamEnds, Standings
    <2>3. CASE ReleaseTimeout
      <3>1. CASE enqueue("Deactivate", 0, {})
        BY <1>1, <2>0, <3>1, EnqueueTells, DisplayAssumption
      <3>2. CASE UNCHANGED asks
        BY <1>1, <3>2
      <3>3. QED
        BY <2>3, <3>1, <3>2 DEF ReleaseTimeout
    <2>4. CASE DeadlineTimeout
      BY <1>1, <2>0, <2>4, FailTells DEF DeadlineTimeout
    <2>5. CASE SchtasksFinished
      BY <1>1, <2>0, <2>5, FailTells DEF SchtasksFinished
    <2>6. CASE pollResult
      <3>1. handleResult(result, helpers) /\ desk' = desk
        BY <2>6 DEF pollResult
      <3>2. QED
        BY <1>1, <2>0, <2>6, <3>1, PollHears, HandleResultTells
    <2>7. CASE Helpers
      <3>1. PICK i \in DOMAIN helpers :
               HelperReads(i) \/ HelperStage(i) \/ HelperStageFails(i) \/ HelperEnds(i) \/ HelperDies(i)
        BY <2>7 DEF Helpers
      <3>2. CASE UNCHANGED asks
        BY <1>1, <3>2
      <3>3. CASE HelperEnds(i) /\ method # "task"
        <4> DEFINE res == [ok |-> helpers[i].ok, previous |-> helpers[i].previous]
        <4>1. handleResult(res, Without(i)) /\ desk' = desk /\ helpers[i].ready /\ helpers[i].todo = <<>>
          BY <3>3 DEF HelperEnds
        <4>2. helpers[i] \in Helper
          BY <2>0, QueueType DEF Running
        <4>3. res \in Result /\ res.ok = helpers[i].ok
          BY <4>2 DEF Result, Helper
        <4> HIDE DEF res
        <4>4. Heard(Without(i), res)
          BY <2>0, <4>1, <4>3, EndHears
        <4>5. QED
          BY <1>1, <2>0, <4>1, <4>3, <4>4, HandleResultTells
      <3>4. CASE Fail(Without(i))
        BY <1>1, <2>0, <3>4, FailTells
      <3>5. QED
        BY <3>1, <3>2, <3>3, <3>4 DEF HelperReads, HelperStage, HelperStageFails, HelperEnds, HelperDies
    <2>8. CASE Restart
      <3> DEFINE as == Told(asks, {d \in Callers : asks[d] # "home"}, "gone")
                 op == [action |-> "Deactivate", mode |-> 0, callbacks |-> {}]
                 q == <<op>>
      <3>1. as \in [Callers -> Standings] /\ as[c] # "streaming"
        BY <1>1, <2>0 DEF Told, Standings
      <3>2. asks' = as \/ startNext(q, NewJob, as, <<>>, record)
        BY <2>8 DEF Restart, resetAtStartup
      <3>3. q \in Seq(Op)
        <4>1. op \in Op
          BY DisplayAssumption DEF Op
        <4>2. QED
          BY <4>1
      <3> HIDE DEF as, q
      <3>4. QED
        BY <1>1, <3>1, <3>2, <3>3, StartNextTells
    <2>9. CASE UNCHANGED vars
      BY <1>1, <2>9 DEF vars
    <2>10. QED
      BY <1>1, <2>1, <2>2, <2>3, <2>4, <2>5, <2>6, <2>7, <2>8, <2>9 DEF Next, Timers
  <1>2. IInv /\ [Next]_vars =>
           [\A c \in Callers : (asks[c] # "streaming" /\ asks'[c] = "streaming" /\ ~stray) => desk'.on]_vars
    BY <1>1
  <1>3. QED
    BY <1>2, Bookkeeping, PTL DEF Spec, ToldTheTruth
=============================================================================
