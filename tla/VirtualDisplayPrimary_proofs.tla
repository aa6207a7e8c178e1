-------------------- MODULE VirtualDisplayPrimary_proofs --------------------
(***************************************************************************)
(* The primary display comes back.  What it was is noted in up to five     *)
(* places while the virtual display is on: the desktop itself, the saved   *)
(* layout, the settings, the request of the operation and what its helper  *)
(* has seen.                                                               *)
(***************************************************************************)
EXTENDS VirtualDisplayJob_proofs

\* A note never says our display, and one that says a display of Windows' own
\* choice is taken only once the track is lost: then the right one is gone from
\* the desktop and from the layout too.
Sound(n, d, lost) ==
    /\ n # "ours"
    /\ n = "picked" => lost /\ d.primary # "theirs" /\ d.layout # "theirs"

Notes ==
    /\ Sound(record, desk, lostTrack)
    /\ \A i \in DOMAIN helpers : Sound(helpers[i].previous, desk, lostTrack)
    /\ (job.poll /\ result # NoResult) => Sound(result.previous, desk, lostTrack)

\* A deactivation carries the settings' note, and its helper makes none.
Recorded ==
    (running /\ job.action = "Deactivate") =>
        /\ request.restore = record
        /\ \A i \in DOMAIN helpers : helpers[i].previous = "blank"

\* While track is kept, the primary role is theirs or ours, and ours only while we
\* are on; track is not lost while theirs is primary and we are off.
Home ==
    /\ lostTrack => desk.on \/ desk.primary # "theirs"
    /\ ~lostTrack => /\ desk.layout \in {"theirs", "none"}
                     /\ desk.primary \in {"theirs", "ours"}
                     /\ ~desk.on => desk.primary = "theirs"

\* What may be left of an operation's stages.
Plans(action) ==
    IF action = "Activate"
    THEN {<<"snapshot", "driver", "mode">>, <<"driver", "mode">>, <<"mode">>, <<>>}
    ELSE {<<"mode", "driver">>, <<"driver">>, <<>>}

\* The helper and the stages queued behind it make up the rest of a plan.
Fits(h, how, j) ==
    IF how = "service"
    THEN \E p \in Plans(j.action) \ {<<>>} :
            /\ h.arg = Head(p) /\ j.nextStages = Tail(p)
            /\ h.ready => h.todo \in {<<Head(p)>>, <<>>}
    ELSE h.arg = "all" /\ j.nextStages = <<>> /\ (h.ready => h.todo \in Plans(j.action))

Planned == \A i \in DOMAIN helpers : Fits(helpers[i], method, job) /\ (helpers[i].todo # <<>> => helpers[i].ok)

\* The stages a helper has still to go through, known or not yet read.
Coming(h) == IF h.ready THEN ToSet(h.todo) ELSE IF h.arg = "all" THEN Stages ELSE {h.arg}

\* How far the running operation has brought the desktop when the stages A are
\* left.  Past its snapshot an activation finds the display off until its driver
\* stage, or track is lost, and the layout it saved is what is still primary; past
\* its mode stage a deactivation has put the primary back and used the layout up.
Way(A, action, d, lost) ==
    /\ (action = "Activate" /\ "snapshot" \notin A) =>
          /\ ("driver" \in A /\ ~lost) => ~d.on
          /\ ("mode" \in A /\ d.layout = "theirs") => d.primary = "theirs"
    /\ (action = "Deactivate" /\ "mode" \notin A) =>
          d.layout = "none" /\ (lost \/ d.primary = "theirs")

OnTheWay ==
    \A i \in DOMAIN helpers :
        helpers[i].ok =>
            Way(Coming(helpers[i]) \cup ToSet(job.nextStages), job.action, desk, lostTrack)

Kept == Notes /\ Recorded /\ Home /\ Planned /\ OnTheWay

\* All that as long as no helper has outlived its operation.
Track == ~stray => Kept

-----------------------------------------------------------------------------
(***************************************************************************)
(* Plans.                                                                  *)
(***************************************************************************)

\* The sets of stages of short lists.
LEMMA ListSets ==
  /\ ToSet(<<>>) = {}
  /\ \A x \in Stages : ToSet(<<x>>) = {x}
  /\ \A x, y \in Stages : ToSet(<<x, y>>) = {x, y}
  /\ \A x, y, z \in Stages : ToSet(<<x, y, z>>) = {x, y, z}
  <1>1. ToSet(<<>>) = {}
    <2>1. <<>> \in Seq(Stages)
      OBVIOUS
    <2>2. QED
      BY <2>1, Elements
  <1>2. ASSUME NEW x \in Stages PROVE ToSet(<<x>>) = {x}
    <2>1. <<x>> \in Seq(Stages) /\ <<x>> # <<>> /\ Head(<<x>>) = x /\ Tail(<<x>>) = <<>>
      OBVIOUS
    <2>2. ToSet(<<x>>) = {Head(<<x>>)} \cup ToSet(Tail(<<x>>))
      BY <2>1, Elements
    <2>3. QED
      BY <1>1, <2>1, <2>2
  <1>3. ASSUME NEW x \in Stages, NEW y \in Stages PROVE ToSet(<<x, y>>) = {x, y}
    <2>1. /\ <<x, y>> \in Seq(Stages) /\ <<x, y>> # <<>>
          /\ Head(<<x, y>>) = x /\ Tail(<<x, y>>) = <<y>>
      OBVIOUS
    <2>2. ToSet(<<x, y>>) = {Head(<<x, y>>)} \cup ToSet(Tail(<<x, y>>))
      BY <2>1, Elements
    <2>3. QED
      BY <1>2, <2>1, <2>2
  <1>4. ASSUME NEW x \in Stages, NEW y \in Stages, NEW z \in Stages
        PROVE  ToSet(<<x, y, z>>) = {x, y, z}
    <2>1. /\ <<x, y, z>> \in Seq(Stages) /\ <<x, y, z>> # <<>>
          /\ Head(<<x, y, z>>) = x /\ Tail(<<x, y, z>>) = <<y, z>>
      OBVIOUS
    <2>2. ToSet(<<x, y, z>>) = {Head(<<x, y, z>>)} \cup ToSet(Tail(<<x, y, z>>))
      BY <2>1, Elements
    <2>3. QED
      BY <1>3, <2>1, <2>2
  <1>5. QED
    BY <1>1, <1>2, <1>3, <1>4

\* A plan is worked off from its head: the snapshot before the driver before the
\* mode, on the way back the mode before the driver, each once.
LEMMA PlanFacts ==
  ASSUME NEW action \in {"Activate", "Deactivate"}, NEW p \in Plans(action), p # <<>>
  PROVE  /\ Head(p) \in Stages /\ Tail(p) \in Plans(action)
         /\ ToSet(p) = {Head(p)} \cup ToSet(Tail(p))
         /\ Head(p) \notin ToSet(Tail(p))
         /\ action = "Activate" =>
               /\ Head(p) = "driver" => "snapshot" \notin ToSet(p)
               /\ Head(p) = "mode" => ToSet(p) = {"mode"}
         /\ action = "Deactivate" =>
               /\ Head(p) \in {"mode", "driver"}
               /\ Head(p) = "driver" => ToSet(p) = {"driver"}
  <1>0. "snapshot" \in Stages /\ "driver" \in Stages /\ "mode" \in Stages
    BY DEF Stages
  <1>1. CASE action = "Activate" /\ p = <<"snapshot", "driver", "mode">>
    <2>1. Head(p) = "snapshot" /\ Tail(p) = <<"driver", "mode">>
      BY <1>1
    <2>2. ToSet(p) = {"snapshot", "driver", "mode"} /\ ToSet(Tail(p)) = {"driver", "mode"}
      BY <1>0, <1>1, <2>1, ListSets
    <2>3. QED
      BY <1>0, <1>1, <2>1, <2>2 DEF Plans
  <1>2. CASE action = "Activate" /\ p = <<"driver", "mode">>
    <2>1. Head(p) = "driver" /\ Tail(p) = <<"mode">>
      BY <1>2
    <2>2. ToSet(p) = {"driver", "mode"} /\ ToSet(Tail(p)) = {"mode"}
      BY <1>0, <1>2, <2>1, ListSets
    <2>3. QED
      BY <1>0, <1>2, <2>1, <2>2 DEF Plans
  <1>3. CASE action = "Activate" /\ p = <<"mode">>
    <2>1. Head(p) = "mode" /\ Tail(p) = <<>>
      BY <1>3
    <2>2. ToSet(p) = {"mode"} /\ ToSet(Tail(p)) = {}
      BY <1>0, <1>3, <2>1, ListSets
    <2>3. QED
      BY <1>0, <1>3, <2>1, <2>2 DEF Plans
  <1>4. CASE action = "Deactivate" /\ p = <<"mode", "driver">>
    <2>1. Head(p) = "mode" /\ Tail(p) = <<"driver">>
      BY <1>4
    <2>2. ToSet(p) = {"mode", "driver"} /\ ToSet(Tail(p)) = {"driver"}
      BY <1>0, <1>4, <2>1, ListSets
    <2>3. QED
      BY <1>0, <1>4, <2>1, <2>2 DEF Plans
  <1>5. CASE action = "Deactivate" /\ p = <<"driver">>
    <2>1. Head(p) = "driver" /\ Tail(p) = <<>>
      BY <1>5
    <2>2. ToSet(p) = {"driver"} /\ ToSet(Tail(p)) = {}
      BY <1>0, <1>5, <2>1, ListSets
    <2>3. QED
      BY <1>0, <1>5, <2>1, <2>2 DEF Plans
  <1>6. QED
    BY <1>1, <1>2, <1>3, <1>4, <1>5 DEF Plans

\* Every operation starts with its whole plan.
LEMMA WholePlan ==
  ASSUME NEW action \in {"Activate", "Deactivate"}
  PROVE  /\ stagesOf(action) \in Plans(action) /\ stagesOf(action) # <<>>
         /\ Head(stagesOf(action)) = IF action = "Activate" THEN "snapshot" ELSE "mode"
  <1>1. CASE action = "Activate"
    <2>1. stagesOf(action) = <<"snapshot", "driver", "mode">>
      BY <1>1 DEF stagesOf
    <2>2. QED
      BY <1>1, <2>1 DEF Plans
  <1>2. CASE action = "Deactivate"
    <2>1. stagesOf(action) = <<"mode", "driver">>
      BY <1>2 DEF stagesOf
    <2>2. QED
      BY <1>2, <2>1 DEF Plans
  <1>3. QED
    BY <1>1, <1>2

\* A helper's next stage is the head of what is left of the plan, and the rest of
\* the plan stays ahead.
LEMMA NextStage ==
  ASSUME NEW h \in Helper, Fits(h, method, job), h.ready, h.todo # <<>>,
         job.action \in {"Activate", "Deactivate"},
         NEW g, g.arg = h.arg, g.ready, g.todo = Tail(h.todo)
  PROVE  /\ Fits(g, method, job)
         /\ \E p \in Plans(job.action) \ {<<>>} :
               /\ Head(h.todo) = Head(p)
               /\ Coming(h) \cup ToSet(job.nextStages) = ToSet(p)
               /\ Coming(g) \cup ToSet(job.nextStages) = ToSet(Tail(p))
  <1>1. Coming(h) = ToSet(h.todo) /\ Coming(g) = ToSet(Tail(h.todo))
    BY DEF Coming
  <1>2. CASE method = "service"
    <2>1. PICK p \in Plans(job.action) \ {<<>>} :
             /\ h.arg = Head(p) /\ job.nextStages = Tail(p)
             /\ h.todo \in {<<Head(p)>>, <<>>}
      BY <1>2 DEF Fits
    <2>2. h.todo = <<Head(p)>> /\ Head(h.todo) = Head(p) /\ Tail(h.todo) = <<>>
      <3>1. h.todo = <<Head(p)>>
        BY <2>1
      <3>2. \A x : Head(<<x>>) = x /\ Tail(<<x>>) = <<>>
        OBVIOUS
      <3>3. QED
        BY <3>1, <3>2
    <2>3. ToSet(h.todo) = {Head(p)} /\ ToSet(Tail(h.todo)) = {}
      BY <2>2, PlanFacts, ListSets
    <2>4. Fits(g, method, job)
      BY <1>2, <2>1, <2>2 DEF Fits
    <2>5. ToSet(p) = {Head(p)} \cup ToSet(Tail(p))
      BY PlanFacts
    <2>6. QED
      BY <1>1, <2>1, <2>2, <2>3, <2>4, <2>5
  <1>3. CASE method # "service"
    <2> DEFINE p == h.todo
    <2>1. h.arg = "all" /\ job.nextStages = <<>> /\ p \in Plans(job.action) \ {<<>>}
      BY <1>3 DEF Fits
    <2>2. Tail(p) \in Plans(job.action)
      BY <2>1, PlanFacts
    <2>3. Fits(g, method, job)
      BY <1>3, <2>1, <2>2 DEF Fits
    <2>4. ToSet(job.nextStages) = {}
      BY <2>1, ListSets
    <2>5. QED
      BY <1>1, <2>1, <2>3, <2>4
  <1>4. QED
    BY <1>2, <1>3

-----------------------------------------------------------------------------
(***************************************************************************)
(* What a stage does.                                                      *)
(***************************************************************************)

Desk == [on : BOOLEAN, primary : Primaries, layout : Primaries \cup {"none"}]

\* The helper's note and the state of the desktop after a stage.
Seen(stage, req, prev) ==
    IF stage = "mode" /\ req.action = "Activate" /\ desk.primary # "ours" THEN desk.primary ELSE prev

Lose(stage, req) ==
    /\ desk'.on \/ desk'.primary # "theirs"
    /\ \/ lostTrack
       \/ desk.on /\ stage = "snapshot"
       \/ /\ stage = "mode" /\ req.action = "Deactivate"
          /\ desk'.primary # desk.layout /\ req.restore \in {"none", "blank"}

\* A stage in its turn leaves the notes sound and the desktop on its way.
LEMMA StageKeeps ==
  ASSUME desk \in Desk, Home, NEW req \in Request, req.action = job.action, UNCHANGED <<job, record>>,
         NEW p \in Plans(job.action), p # <<>>, Way(ToSet(p), job.action, desk, lostTrack),
         NEW stage, stage = Head(p), desk' \in StageEffect(stage, req), lostTrack' <=> Lose(stage, req),
         job.action = "Activate" /\ "driver" \notin ToSet(p) => desk.on,
         Sound(record, desk, lostTrack), job.action = "Deactivate" => req.restore = record,
         NEW prev \in Primaries \cup {"blank"}, Sound(prev, desk, lostTrack),
         job.action = "Deactivate" => prev = "blank",
         NEW next, next = Seen(stage, req, prev)
  PROVE  /\ Home' /\ Way(ToSet(Tail(p)), job.action, desk, lostTrack)' /\ Sound(record, desk, lostTrack)'
         /\ Sound(next, desk, lostTrack)'
  <1>0. /\ desk.primary \in Primaries /\ desk.layout \in Primaries \cup {"none"} /\ desk.on \in BOOLEAN
        /\ req.restore \in Primaries \cup {"blank", "none"}
    BY DEF Desk, Request
  <1>1. /\ ToSet(p) = {stage} \cup ToSet(Tail(p)) /\ stage \notin ToSet(Tail(p))
        /\ job.action = "Activate" =>
              /\ stage = "driver" => "snapshot" \notin ToSet(p)
              /\ stage = "mode" => ToSet(p) = {"mode"}
        /\ job.action = "Deactivate" =>
              /\ stage \in {"mode", "driver"}
              /\ stage = "driver" => ToSet(p) = {"driver"}
        /\ job.action \in {"Activate", "Deactivate"} /\ stage \in Stages
    BY PlanFacts DEF Request
  <1> DEFINE A == ToSet(p)
             B == ToSet(Tail(p))
  <1>2. A = {stage} \cup B /\ stage \notin B
    BY <1>1
  <1>3. CASE job.action = "Activate" /\ stage = "snapshot"
    <2>1. /\ desk'.on = desk.on /\ desk'.primary = desk.primary
          /\ desk'.layout \in {desk.primary, "none"}
      BY <1>0, <1>3 DEF StageEffect, Desk
    <2>2. lostTrack' <=> (desk.on \/ desk.primary # "theirs") /\ (lostTrack \/ desk.on)
      BY <1>3, <2>1 DEF Lose
    <2>3. next = prev
      BY <1>3 DEF Seen
    <2>4. Home'
      BY <1>0, <2>1, <2>2 DEF Home
    <2>5. Sound(record, desk, lostTrack)' /\ Sound(next, desk, lostTrack)'
      BY <1>0, <2>1, <2>2, <2>3 DEF Sound
    <2>6. Way(B, job.action, desk, lostTrack)'
      BY <1>0, <1>3, <2>1, <2>2 DEF Way, Home
    <2>7. QED
      BY <2>4, <2>5, <2>6
  <1>4. CASE job.action = "Activate" /\ stage = "driver"
    <2>1. /\ desk'.on /\ desk'.layout = desk.layout
          /\ desk'.primary = desk.primary \/ (desk.primary = "ours" /\ desk'.primary = "picked")
      BY <1>0, <1>4 DEF StageEffect, Desk
    <2>2. lostTrack' <=> lostTrack
      BY <1>4, <2>1 DEF Lose
    <2>3. next = prev
      BY <1>4 DEF Seen
    <2>4. ~lostTrack => ~desk.on
      BY <1>1, <1>2, <1>4 DEF Way
    <2>5. Home'
      BY <1>0, <2>1, <2>2, <2>4 DEF Home
    <2>6. Sound(record, desk, lostTrack)' /\ Sound(next, desk, lostTrack)'
      BY <1>0, <2>1, <2>2, <2>3 DEF Sound
    <2>7. Way(B, job.action, desk, lostTrack)'
      BY <1>0, <1>1, <1>2, <1>4, <2>1, <2>2 DEF Way
    <2>8. QED
      BY <2>5, <2>6, <2>7
  <1>5. CASE job.action = "Activate" /\ stage = "mode"
    <2>0. "driver" \notin A /\ "snapshot" \notin A /\ B = {}
      BY <1>1, <1>2, <1>5
    <2>1. desk.on /\ desk'.on = desk.on /\ desk'.layout = desk.layout /\ desk'.primary = "ours"
      BY <1>0, <1>5, <2>0 DEF StageEffect, Desk
    <2>2. lostTrack' <=> lostTrack
      BY <1>5, <2>1 DEF Lose
    <2>3. next = IF desk.primary # "ours" THEN desk.primary ELSE prev
      BY <1>5 DEF Seen
    <2>4. Home'
      BY <1>0, <2>1, <2>2 DEF Home
    <2>5. desk.layout = "theirs" => desk.primary = "theirs"
      BY <1>2, <1>5, <2>0 DEF Way
    <2>6. Sound(record, desk, lostTrack)' /\ Sound(prev, desk, lostTrack)'
      BY <1>0, <2>1, <2>2 DEF Sound
    <2>7. Sound(next, desk, lostTrack)'
      BY <1>0, <2>1, <2>2, <2>3, <2>5, <2>6 DEF Sound, Home
    <2>8. Way(B, job.action, desk, lostTrack)'
      BY <1>5, <2>0 DEF Way
    <2>9. QED
      BY <2>4, <2>6, <2>7, <2>8
  <1>6. CASE job.action = "Deactivate" /\ stage = "mode"
    <2>1. /\ desk'.on = desk.on /\ desk'.layout = "none"
          /\ \/ desk'.primary = Restored(req)
             \/ desk.layout # "none" /\ desk'.primary = desk.layout
      BY <1>0, <1>6 DEF StageEffect, Desk
    <2>2. lostTrack' <=> /\ desk.on \/ desk'.primary # "theirs"
                         /\ \/ lostTrack
                            \/ desk'.primary # desk.layout /\ req.restore \in {"none", "blank"}
      BY <1>6, <2>1 DEF Lose
    <2>3. next = "blank"
      BY <1>6 DEF Seen
    <2>4. req.restore = record /\ Restored(req) = IF record \in {"none", "blank"} THEN desk.primary ELSE record
      BY <1>6 DEF Restored
    <2>5. ASSUME ~lostTrack' PROVE desk'.primary = "theirs"
      <3>1. CASE lostTrack
        BY <2>1, <2>2, <2>5, <3>1
      <3>2. CASE ~lostTrack
        <4>1. record \in {"theirs", "none", "blank"} /\ desk.layout \in {"theirs", "none"}
          BY <1>0, <2>4, <3>2 DEF Sound, Home, Primaries
        <4>2. QED
          BY <1>0, <2>1, <2>2, <2>4, <2>5, <3>2, <4>1 DEF Home, Primaries
      <3>3. QED
        BY <3>1, <3>2
    <2>6. ASSUME record = "picked" PROVE desk'.primary # "theirs" /\ lostTrack'
      <3>1. desk'.primary # "theirs" /\ lostTrack
        BY <2>1, <2>4, <2>6 DEF Sound
      <3>2. QED
        BY <2>2, <3>1
    <2>7. Home'
      BY <2>1, <2>2, <2>5 DEF Home
    <2>8. Sound(record, desk, lostTrack)' /\ Sound(next, desk, lostTrack)'
      BY <2>1, <2>3, <2>6 DEF Sound
    <2>9. Way(B, job.action, desk, lostTrack)'
      BY <1>6, <2>1, <2>5 DEF Way
    <2>10. QED
      BY <2>7, <2>8, <2>9
  <1>7. CASE job.action = "Deactivate" /\ stage = "driver"
    <2>0. "mode" \notin A
      BY <1>1, <1>7
    <2>1. /\ ~desk'.on /\ desk'.layout = desk.layout
          /\ desk'.primary = IF desk.primary = "ours" THEN "picked" ELSE desk.primary
      BY <1>0, <1>7 DEF StageEffect, Desk
    <2>2. desk.layout = "none" /\ (lostTrack \/ desk.primary = "theirs")
      BY <1>7, <2>0 DEF Way
    <2>3. lostTrack' <=> desk'.primary # "theirs" /\ lostTrack
      BY <1>7, <2>1 DEF Lose
    <2>4. next = "blank"
      BY <1>7 DEF Seen
    <2>5. Home'
      BY <2>1, <2>2, <2>3 DEF Home
    <2>6. Sound(record, desk, lostTrack)' /\ Sound(next, desk, lostTrack)'
      BY <2>1, <2>2, <2>3, <2>4 DEF Sound
    <2>7. Way(B, job.action, desk, lostTrack)'
      BY <1>7, <2>1, <2>2, <2>3 DEF Way
    <2>8. QED
      BY <2>5, <2>6, <2>7
  <1>8. QED
    BY <1>1, <1>3, <1>4, <1>5, <1>6, <1>7 DEF Stages

-----------------------------------------------------------------------------
(***************************************************************************)
(* Operations start and end.                                               *)
(***************************************************************************)

\* A helper that has just started has its whole plan ahead.
LEMMA FreshFits ==
  ASSUME NEW action \in {"Activate", "Deactivate"}, job'.action = action,
         NEW arg, arg = IF method' = "service" THEN Head(stagesOf(action)) ELSE "all",
         job'.nextStages = IF method' = "service" THEN Tail(stagesOf(action)) ELSE <<>>
  PROVE  /\ Fits(NewHelper(arg), method', job') /\ NewHelper(arg).todo = <<>> /\ NewHelper(arg).previous = "blank"
         /\ Way(Coming(NewHelper(arg)) \cup ToSet(job'.nextStages), job'.action, desk', lostTrack')
  <1> DEFINE h == NewHelper(arg)
  <1>1. ~h.ready /\ h.arg = arg /\ h.todo = <<>> /\ h.previous = "blank"
    BY DEF NewHelper
  <1> HIDE DEF h
  <1>2. Fits(h, method', job')
    BY <1>1, WholePlan DEF Fits
  <1>3. Head(stagesOf(action)) \in Coming(h)
    BY <1>1, WholePlan DEF Coming, Stages
  <1>4. Way(Coming(h) \cup ToSet(job'.nextStages), job'.action, desk', lostTrack')
    BY <1>3, WholePlan DEF Way
  <1>5. QED
    BY <1>1, <1>2, <1>4 DEF h

\* An operation that starts with no helper about keeps all that.
LEMMA StartsKept ==
  ASSUME NEW q \in Seq(Op), NEW rest \in Job, NEW as, NEW hs, NEW rec,
         Running(hs), DOMAIN hs = {},
         method \in Methods, Methods \subseteq {"elevated", "service", "task"}, method' = method,
         rest.state # "Running", ~rest.poll,
         UNCHANGED <<desk, lostTrack>>, record' = rec, Sound(rec, desk, lostTrack), Home,
         startNext(q, rest, as, hs, rec)
  PROVE  Kept'
  <1>1. PICK k \in 0..Len(q) : Outcome(k, q, rest, as, hs, rec)
    BY Outcomes
  <1>2. Home' /\ Sound(record, desk, lostTrack)'
    BY DEF Home, Sound
  <1>3. CASE Ended(k, q, rest) /\ helpers' = hs
    <2>1. ~running' /\ ~job'.poll /\ DOMAIN helpers' = {}
      <3>1. job'.state # "Running" /\ job'.poll = rest.poll
        BY <1>3, JobAfter
      <3>2. QED
        BY <1>3, <3>1 DEF running
    <2>2. QED
      BY <1>2, <2>1 DEF Kept, Notes, Recorded, Planned, OnTheWay
  <1>4. CASE Begun(k, q, rest) /\ RequestBegun(k, q, rec) /\ HelpersBegun(k, q, hs)
    <2> DEFINE op == q[k + 1]
    <2>1. k \in 0..(Len(q) - 1) /\ k + 1 \in 1..Len(q) /\ op \in Op
      <3>1. k \in 0..(Len(q) - 1)
        BY <1>4 DEF Begun
      <3>2. k + 1 \in 1..Len(q)
        BY <3>1
      <3>3. QED
        BY <3>1, <3>2
    <2>2. /\ job'.action = op.action /\ job'.poll = rest.poll
          /\ job'.nextStages = IF method = "service" THEN Tail(stagesOf(op.action)) ELSE <<>>
      BY <1>4, JobAfter
    <2>3. request'.restore = IF op.action = "Deactivate" THEN rec ELSE "none"
      BY <1>4 DEF RequestBegun
    <2>4. helpers' = CASE method = "elevated" -> WithHelper(hs, "all")
                       [] method = "service"  -> WithHelper(hs, Head(stagesOf(op.action)))
                       [] method = "task"     -> hs
      BY <1>4 DEF HelpersBegun
    <2>5. op.action \in {"Activate", "Deactivate"}
      BY <2>1 DEF Op
    <2> HIDE DEF op
    <2>6. CASE method = "task"
      <3>1. DOMAIN helpers' = {}
        BY <2>4, <2>6
      <3>2. QED
        BY <1>2, <2>2, <2>3, <3>1 DEF Kept, Notes, Recorded, Planned, OnTheWay
    <2>7. CASE method # "task"
      <3> DEFINE arg == IF method = "service" THEN Head(stagesOf(op.action)) ELSE "all"
      <3>1. arg \in Stages \cup {"all"} /\ helpers' = WithHelper(hs, arg)
        BY <2>4, <2>5, <2>7, StageList
      <3> HIDE DEF arg
      <3>2. PICK id \in Nat \ DOMAIN hs :
               /\ DOMAIN WithHelper(hs, arg) = DOMAIN hs \cup {id}
               /\ WithHelper(hs, arg)[id] = NewHelper(arg)
               /\ \A i \in DOMAIN hs : WithHelper(hs, arg)[i] = hs[i]
        BY <3>1, AnotherHelper
      <3>3. DOMAIN helpers' = {id} /\ helpers'[id] = NewHelper(arg)
        BY <3>1, <3>2
      <3>4. /\ Fits(NewHelper(arg), method', job') /\ NewHelper(arg).todo = <<>> /\ NewHelper(arg).previous = "blank"
            /\ Way(Coming(NewHelper(arg)) \cup ToSet(job'.nextStages), job'.action, desk', lostTrack')
        BY <2>2, <2>5, FreshFits DEF arg
      <3>5. Notes' /\ Recorded'
        BY <1>2, <2>2, <2>3, <3>3, <3>4 DEF Notes, Recorded, Sound
      <3> DEFINE new == NewHelper(arg)
      <3> HIDE DEF new
      <3>6. Planned'
        <4>1. ASSUME NEW i \in DOMAIN helpers'
              PROVE  Fits(helpers'[i], method', job') /\ (helpers'[i].todo # <<>> => helpers'[i].ok)
          <5>1. helpers'[i] = new
            BY <3>3 DEF new
          <5>2. Fits(new, method', job') /\ new.todo = <<>>
            BY <3>4 DEF new
          <5>3. QED
            BY <5>1, <5>2, Zenon
        <4>2. QED
          BY <4>1, Zenon DEF Planned
      <3>7. OnTheWay'
        <4>1. ASSUME NEW i \in DOMAIN helpers'
              PROVE  Way(Coming(helpers'[i]) \cup ToSet(job'.nextStages), job'.action, desk', lostTrack')
          <5>1. helpers'[i] = new
            BY <3>3 DEF new
          <5>2. Way(Coming(new) \cup ToSet(job'.nextStages), job'.action, desk', lostTrack')
            BY <3>4 DEF new
          <5>3. QED
            BY <5>1, <5>2, Zenon
        <4>2. QED
          BY <4>1, Zenon DEF OnTheWay
      <3>8. QED
        BY <1>2, <3>5, <3>6, <3>7 DEF Kept
    <2>8. QED
      BY <2>6, <2>7
  <1>5. QED
    BY <1>1, <1>3, <1>4 DEF Outcome

\* An operation fails with no helper about.
LEMMA FailKept ==
  ASSUME Book, NEW hs, Running(hs), DOMAIN hs = {}, UNCHANGED <<method, desk, lostTrack>>,
         Sound(record, desk, lostTrack), Home, Fail(hs)
  PROVE  Kept'
  <1> DEFINE rest == [job EXCEPT !.state = "Failed", !.callbacks = {}, !.schtasks = FALSE,
                                 !.deadline = FALSE, !.poll = FALSE]
             as == Told(asks, job.callbacks, "refused")
  <1>1. rest \in Job /\ rest.state # "Running" /\ ~rest.poll
    BY QueueType DEF Job
  <1>2. startNext(job.queue, rest, as, hs, record) /\ record' = record
    BY DEF Fail
  <1> HIDE DEF rest, as
  <1>3. QED
    BY <1>1, <1>2, QueueType, StartsKept

\* An operation succeeds with no helper about: what the helper saw becomes the
\* settings' note, a deactivation clears it.
LEMMA SucceedKept ==
  ASSUME Book, NEW hs, Running(hs), DOMAIN hs = {}, UNCHANGED <<method, desk, lostTrack>>,
         NEW res \in Result, Sound(res.previous, desk, lostTrack), Home, Succeed(res, hs)
  PROVE  Kept'
  <1> DEFINE rest == [job EXCEPT !.state = "Done", !.callbacks = {}, !.deadline = FALSE, !.poll = FALSE,
                                 !.activeMode = IF job.action = "Activate" THEN job.mode ELSE 0]
             as == Told(asks, job.callbacks, "streaming")
  <1>1. rest \in Job /\ rest.state # "Running" /\ ~rest.poll
    BY QueueType, DisplayAssumption DEF Job
  <1>2. /\ startNext(job.queue, rest, as, hs, record')
        /\ record' = IF job.action = "Activate" THEN res.previous ELSE "none"
    BY DEF Succeed
  <1>3. Sound(record', desk, lostTrack)
    BY <1>2 DEF Sound
  <1> HIDE DEF rest, as
  <1>4. QED
    BY <1>1, <1>2, <1>3, QueueType, StartsKept

\* What a result that comes in says is sound, and the stages behind it go on where
\* the last one stopped.
HeardWell(res) ==
    /\ Sound(res.previous, desk, lostTrack)
    /\ (res.ok /\ job.nextStages # <<>>) =>
          job.nextStages \in Plans(job.action) /\ Way(ToSet(job.nextStages), job.action, desk, lostTrack)

\* A result is heard with no helper left.
LEMMA HandleResultKept ==
  ASSUME Book, NEW hs, Running(hs), UNCHANGED <<method, desk, lostTrack>>,
         NEW res \in Result, Heard(hs, res), HeardWell(res),
         Home, Recorded, Sound(record, desk, lostTrack), handleResult(res, hs)
  PROVE  Kept'
  <1>0. DOMAIN hs = {} /\ Sound(res.previous, desk, lostTrack)
    BY DEF Heard, HeardWell
  <1>1. CASE ~res.ok
    <2>1. Fail(hs)
      BY <1>1 DEF handleResult
    <2>2. QED
      BY <1>0, <2>1, FailKept
  <1>2. CASE res.ok /\ job.nextStages = <<>>
    <2>1. Succeed(res, hs)
      BY <1>2 DEF handleResult
    <2>2. QED
      BY <1>0, <2>1, SucceedKept
  <1>3. CASE res.ok /\ job.nextStages # <<>>
    <2> DEFINE arg == Head(job.nextStages)
    <2>1. /\ job' = [job EXCEPT !.state = "Running", !.nextStages = Tail(@), !.deadline = TRUE]
          /\ helpers' = WithHelper(hs, arg)
          /\ result' = NoResult /\ request' = request /\ record' = record
      BY <1>3 DEF handleResult
    <2>2. /\ job.nextStages \in Plans(job.action) \ {<<>>}
          /\ Way(ToSet(job.nextStages), job.action, desk, lostTrack)
          /\ job.action \in {"Activate", "Deactivate"}
      BY <1>3, QueueType DEF HeardWell, Job
    <2>3. /\ arg \in Stages
          /\ ToSet(job.nextStages) = {arg} \cup ToSet(Tail(job.nextStages))
      BY <2>2, PlanFacts
    <2>4. /\ job'.action = job.action /\ job'.nextStages = Tail(job.nextStages)
          /\ job'.state = "Running" /\ job'.poll = job.poll
      BY <2>1, QueueType DEF Job
    <2>5. method = "service" /\ running /\ ~job.poll
      BY <1>3 DEF Heard, OwnRequest, OwnResult
    <2> HIDE DEF arg
    <2>6. PICK id \in Nat \ DOMAIN hs :
             /\ DOMAIN WithHelper(hs, arg) = DOMAIN hs \cup {id}
             /\ WithHelper(hs, arg)[id] = NewHelper(arg)
             /\ \A i \in DOMAIN hs : WithHelper(hs, arg)[i] = hs[i]
      BY <2>3, AnotherHelper
    <2> DEFINE new == NewHelper(arg)
    <2>7. \A i \in DOMAIN helpers' : helpers'[i] = new
      BY <1>0, <2>1, <2>6
    <2>8. new.arg = arg /\ ~new.ready /\ new.todo = <<>> /\ new.previous = "blank"
      BY DEF NewHelper
    <2> HIDE DEF new
    <2>9. Fits(new, method', job')
      BY <2>2, <2>4, <2>5, <2>8 DEF Fits, arg
    <2>10. Way(Coming(new) \cup ToSet(job'.nextStages), job'.action, desk', lostTrack')
      <3>1. Coming(new) = {arg}
        BY <2>3, <2>8 DEF Coming, Stages
      <3>2. Coming(new) \cup ToSet(job'.nextStages) = ToSet(job.nextStages)
        BY <2>3, <2>4, <3>1
      <3>3. QED
        BY <2>2, <2>4, <3>2
    <2>11. Notes'
      <3>1. Sound(record', desk', lostTrack') /\ ~job'.poll
        BY <2>1, <2>4, <2>5
      <3>2. \A i \in DOMAIN helpers' : Sound(helpers'[i].previous, desk', lostTrack')
        BY <2>7, <2>8 DEF Sound
      <3>3. QED
        BY <3>1, <3>2 DEF Notes
    <2>12. Recorded'
      BY <2>1, <2>4, <2>5, <2>7, <2>8 DEF Recorded
    <2>13. Planned'
      <3>1. ASSUME NEW i \in DOMAIN helpers'
            PROVE  Fits(helpers'[i], method', job') /\ (helpers'[i].todo # <<>> => helpers'[i].ok)
        <4>1. helpers'[i] = new
          BY <2>7
        <4>2. QED
          BY <2>8, <2>9, <4>1, Zenon
      <3>2. QED
        BY <3>1, Zenon DEF Planned
    <2>14. OnTheWay'
      <3>1. ASSUME NEW i \in DOMAIN helpers'
            PROVE  Way(Coming(helpers'[i]) \cup ToSet(job'.nextStages), job'.action, desk', lostTrack')
        <4>1. helpers'[i] = new
          BY <2>7
        <4>2. QED
          BY <2>10, <4>1, Zenon
      <3>2. QED
        BY <3>1, Zenon DEF OnTheWay
    <2>15. QED
      BY <2>11, <2>12, <2>13, <2>14 DEF Kept, Home
  <1>4. QED
    BY <1>1, <1>2, <1>3 DEF Result

\* Who waits for what does not matter to it.
LEMMA SameKept ==
  ASSUME Kept, UNCHANGED <<method, record, request, result, helpers, desk, lostTrack>>,
         job'.state = job.state, job'.action = job.action, job'.nextStages = job.nextStages,
         job'.poll = job.poll
  PROVE  Kept'
  <1>1. running' <=> running
    BY DEF running
  <1>2. Notes' /\ Recorded' /\ Home'
    BY <1>1 DEF Kept, Notes, Recorded, Home
  <1>3. \A h : Fits(h, method, job) => Fits(h, method', job')
    BY DEF Fits
  <1>4. Planned'
    BY <1>3 DEF Kept, Planned
  <1>5. OnTheWay'
    BY DEF Kept, OnTheWay
  <1>6. QED
    BY <1>2, <1>4, <1>5 DEF Kept

\* A new request changes nothing about the running operation.
LEMMA EnqueueKept ==
  ASSUME Book, Own, Kept, NEW action \in {"Activate", "Deactivate"}, NEW m \in Modes,
         NEW cs \in SUBSET Callers,
         UNCHANGED <<method, record, desk, lostTrack>>,
         enqueue(action, m, cs)
  PROVE  Kept'
  <1> DEFINE op == [action |-> action, mode |-> m, callbacks |-> cs]
             n  == Len(job.queue)
             waits == Told(asks, cs, "waiting")
             held(j) == job' = j /\ asks' = waits /\ UNCHANGED <<request, result, helpers>>
  <1>1. op \in Op
    BY DEF Op
  <1>2. ASSUME held([job EXCEPT !.callbacks = @ \cup cs]) PROVE Kept'
    <2>1. /\ job'.state = job.state /\ job'.action = job.action /\ job'.nextStages = job.nextStages
          /\ job'.poll = job.poll /\ UNCHANGED <<request, result, helpers>>
      BY <1>2, QueueType DEF Job
    <2>2. QED
      BY <2>1, SameKept
  <1>3. ASSUME held([job EXCEPT !.queue[n].callbacks = @ \cup cs]) PROVE Kept'
    <2>1. /\ job'.state = job.state /\ job'.action = job.action /\ job'.nextStages = job.nextStages
          /\ job'.poll = job.poll /\ UNCHANGED <<request, result, helpers>>
      BY <1>3, QueueType DEF Job
    <2>2. QED
      BY <2>1, SameKept
  <1>4. ASSUME held([job EXCEPT !.queue = Append(@, op)]) PROVE Kept'
    <2>1. /\ job'.state = job.state /\ job'.action = job.action /\ job'.nextStages = job.nextStages
          /\ job'.poll = job.poll /\ UNCHANGED <<request, result, helpers>>
      BY <1>4, QueueType DEF Job
    <2>2. QED
      BY <2>1, SameKept
  <1>5. ASSUME ~running, startNext(<<op>>, job, waits, helpers, record) PROVE Kept'
    <2> DEFINE q == <<op>>
    <2>1. q \in Seq(Op)
      BY <1>1
    <2>2. startNext(q, job, waits, helpers, record)
      BY <1>5
    <2> HIDE DEF q, op, waits
    <2>3. DOMAIN helpers = {} /\ ~job.poll /\ job.state # "Running"
      BY <1>5 DEF Own, OwnHelper, OwnResult, running
    <2>4. Sound(record, desk, lostTrack) /\ Home
      BY DEF Kept, Notes
    <2>5. QED
      BY <2>1, <2>2, <2>3, <2>4, QueueType, StartsKept
  <1>6. \/ held([job EXCEPT !.callbacks = @ \cup cs])
        \/ held([job EXCEPT !.queue[n].callbacks = @ \cup cs])
        \/ held([job EXCEPT !.queue = Append(@, op)])
        \/ ~running /\ startNext(<<op>>, job, waits, helpers, record)
    BY Zenon DEF enqueue
  <1> HIDE DEF held, op, n, waits
  <1>7. QED
    BY <1>2, <1>3, <1>4, <1>5, <1>6

-----------------------------------------------------------------------------
(***************************************************************************)
(* The steps keep it.                                                      *)
(***************************************************************************)

\* With nothing running and no helper about, only the settings and the desktop count.
LEMMA IdleKept ==
  ASSUME DOMAIN helpers' = {}, ~running', ~job'.poll, Sound(record', desk', lostTrack'), Home'
  PROVE  Kept'
  BY DEF Kept, Notes, Recorded, Planned, OnTheWay

\* The calls and the timers.
LEMMA CallKept ==
  ASSUME IInv, Track
  PROVE  /\ \A c \in Callers, m \in Modes : activate(c, m) => Track'
         /\ \A c \in Callers : StreamEnds(c) => Track'
         /\ ReleaseTimeout => Track'
  <1>0. Book /\ (~stray => Own /\ Kept)
    BY DEF IInv, InStep, Track
  <1>1. ASSUME UNCHANGED <<method, job, record, request, result, helpers, desk, stray, lostTrack>>
        PROVE  Track'
    <2>1. ASSUME Kept PROVE Kept'
      BY <1>1, <2>1, SameKept
    <2>2. QED
      BY <1>1, <2>1 DEF Track
  <1>2. ASSUME NEW c \in Callers, NEW m \in Modes, activate(c, m) PROVE Track'
    <2>1. UNCHANGED <<method, record, desk, stray, lostTrack>>
      BY <1>2 DEF activate
    <2>2. CASE UNCHANGED <<job, request, result, helpers>>
      BY <1>1, <2>1, <2>2
    <2>3. CASE enqueue("Activate", m, {c})
      <3>1. {c} \in SUBSET Callers
        OBVIOUS
      <3>2. Own /\ Kept => Kept'
        BY <1>0, <2>1, <2>3, <3>1, EnqueueKept
      <3>3. QED
        BY <1>0, <2>1, <3>2 DEF Track
    <2>4. QED
      BY <1>2, <2>2, <2>3 DEF activate
  <1>3. ASSUME NEW c \in Callers, StreamEnds(c) PROVE Track'
    BY <1>1, <1>3 DEF StreamEnds
  <1>4. ASSUME ReleaseTimeout PROVE Track'
    <2>1. UNCHANGED <<method, desk, stray, lostTrack>>
      BY <1>4 DEF ReleaseTimeout
    <2>2. CASE /\ ~running /\ record' = "none"
               /\ UNCHANGED <<job, asks, request, result, helpers>>
      <3>1. ASSUME Own, Kept PROVE Kept'
        <4>1. DOMAIN helpers' = {} /\ ~running' /\ ~job'.poll
          BY <2>2, <3>1 DEF Own, OwnHelper, OwnResult, running
        <4>2. Sound(record', desk', lostTrack') /\ Home'
          BY <2>1, <2>2, <3>1 DEF Kept, Sound, Home
        <4>3. QED
          BY <4>1, <4>2, IdleKept
      <3>2. QED
        BY <1>0, <2>1, <3>1 DEF Track
    <2>3. CASE enqueue("Deactivate", 0, {}) /\ UNCHANGED record
      <3>1. 0 \in Modes /\ {} \in SUBSET Callers
        BY DisplayAssumption
      <3>2. Own /\ Kept => Kept'
        BY <1>0, <2>1, <2>3, <3>1, EnqueueKept
      <3>3. QED
        BY <1>0, <2>1, <3>2 DEF Track
    <2>4. QED
      BY <1>4, <2>2, <2>3 DEF ReleaseTimeout
  <1>5. QED
    BY <1>2, <1>3, <1>4

\* The ends of operations, heard or timed out.
LEMMA EndKept ==
  ASSUME IInv, Track, DeadlineTimeout \/ SchtasksFinished \/ pollResult
  PROVE  Track'
  <1>0. Book /\ (~stray => Own /\ Kept) /\ Running(helpers)
    BY QueueType DEF IInv, InStep, Track
  <1>1. CASE DeadlineTimeout
    <2>1. /\ Fail(helpers) /\ UNCHANGED <<method, desk, lostTrack>>
          /\ stray' = (stray \/ DOMAIN helpers # {})
      BY <1>1 DEF DeadlineTimeout
    <2>2. ASSUME Kept, DOMAIN helpers = {} PROVE Kept'
      <3>1. Sound(record, desk, lostTrack) /\ Home
        BY <2>2 DEF Kept, Notes
      <3>2. QED
        BY <1>0, <2>1, <2>2, <3>1, FailKept
    <2>3. QED
      BY <1>0, <2>1, <2>2 DEF Track
  <1>2. CASE SchtasksFinished
    <2>1. job.schtasks /\ UNCHANGED <<method, release, desk, crashes, stray, lostTrack>>
      BY <1>2 DEF SchtasksFinished
    <2>2. Own => /\ DOMAIN helpers = {} /\ result = NoResult /\ method = "task" /\ running
                 /\ job.nextStages = <<>>
      BY <2>1 DEF Own, OwnHelper, OwnResult, OwnRequest
    <2>3. CASE Fail(helpers)
      <3>1. ASSUME Own, Kept PROVE Kept'
        <4>1. Sound(record, desk, lostTrack) /\ Home
          BY <3>1 DEF Kept, Notes
        <4>2. QED
          BY <1>0, <2>1, <2>2, <2>3, <3>1, <4>1, FailKept
      <3>2. QED
        BY <1>0, <2>1, <3>1 DEF Track
    <2>4. CASE /\ job' = [job EXCEPT !.schtasks = FALSE, !.deadline = TRUE, !.poll = TRUE]
               /\ helpers' = WithHelper(helpers, "all")
               /\ UNCHANGED <<asks, record, request, result>>
      <3>1. job'.state = job.state /\ job'.action = job.action /\ job'.nextStages = job.nextStages
        BY <2>4, QueueType DEF Job
      <3>2. ASSUME Own, Kept PROVE Kept'
        <4>1. PICK id \in Nat \ DOMAIN helpers :
                 /\ DOMAIN WithHelper(helpers, "all") = DOMAIN helpers \cup {id}
                 /\ WithHelper(helpers, "all")[id] = NewHelper("all")
          BY <1>0, AnotherHelper
        <4> DEFINE new == NewHelper("all")
        <4>2. \A i \in DOMAIN helpers' : helpers'[i] = new
          BY <2>2, <2>4, <3>2, <4>1
        <4>3. new.arg = "all" /\ ~new.ready /\ new.todo = <<>> /\ new.previous = "blank"
          BY DEF NewHelper
        <4> HIDE DEF new
        <4>4. Fits(new, method', job')
          BY <2>1, <2>2, <3>1, <3>2, <4>3 DEF Fits
        <4>5. Way(Coming(new) \cup ToSet(job'.nextStages), job'.action, desk', lostTrack')
          BY <4>3 DEF Way, Coming, Stages
        <4>6. Notes'
          <5>1. Sound(record', desk', lostTrack') /\ result' = NoResult
            BY <2>1, <2>2, <2>4, <3>2 DEF Kept, Notes
          <5>2. \A i \in DOMAIN helpers' : Sound(helpers'[i].previous, desk', lostTrack')
            BY <4>2, <4>3 DEF Sound
          <5>3. QED
            BY <5>1, <5>2 DEF Notes
        <4>7. Recorded'
          BY <2>4, <3>1, <3>2, <4>2, <4>3 DEF Kept, Recorded, running
        <4>8. Planned'
          <5>1. ASSUME NEW i \in DOMAIN helpers'
                PROVE  Fits(helpers'[i], method', job') /\ (helpers'[i].todo # <<>> => helpers'[i].ok)
            <6>1. helpers'[i] = new
              BY <4>2
            <6>2. QED
              BY <4>3, <4>4, <6>1, Zenon
          <5>2. QED
            BY <5>1, Zenon DEF Planned
        <4>9. OnTheWay'
          <5>1. ASSUME NEW i \in DOMAIN helpers'
                PROVE  Way(Coming(helpers'[i]) \cup ToSet(job'.nextStages), job'.action, desk', lostTrack')
            <6>1. helpers'[i] = new
              BY <4>2
            <6>2. QED
              BY <4>5, <6>1, Zenon
          <5>2. QED
            BY <5>1, Zenon DEF OnTheWay
        <4>10. Home'
          BY <2>1, <3>2 DEF Kept, Home
        <4>11. QED
          BY <4>6, <4>7, <4>8, <4>9, <4>10 DEF Kept
      <3>3. QED
        BY <1>0, <2>1, <3>2 DEF Track
    <2>5. QED
      BY <1>2, <2>3, <2>4 DEF SchtasksFinished
  <1>3. CASE pollResult
    <2>1. /\ job.poll /\ result # NoResult /\ handleResult(result, helpers)
          /\ UNCHANGED <<method, release, desk, crashes, stray, lostTrack>>
      BY <1>3 DEF pollResult
    <2>2. ASSUME Own, Kept PROVE Kept'
      <3>1. result \in Result /\ Heard(helpers, result)
        BY <1>0, <1>3, <2>2, PollHears
      <3>2. job.nextStages = <<>>
        BY <2>1, <2>2, <3>1 DEF Heard, OwnRequest, OwnResult
      <3>3. HeardWell(result)
        BY <2>1, <2>2, <3>2 DEF HeardWell, Kept, Notes
      <3>4. Home /\ Recorded /\ Sound(record, desk, lostTrack)
        BY <2>2 DEF Kept, Notes
      <3>5. QED
        BY <1>0, <2>1, <3>1, <3>3, <3>4, HandleResultKept
    <2>3. QED
      BY <1>0, <2>1, <2>2 DEF Track
  <1>4. QED
    BY <1>1, <1>2, <1>3

\* The end of a helper, or its death.
LEMMA LeaveKept ==
  ASSUME IInv, Track, NEW i \in DOMAIN helpers, HelperEnds(i) \/ HelperDies(i)
  PROVE  Track'
  <1>0. /\ Book /\ (~stray => Own /\ Kept) /\ Running(helpers)
        /\ helpers[i] \in Helper /\ Running(Without(i))
        /\ job.action \in {"Activate", "Deactivate"}
    BY QueueType, OneLess DEF IInv, InStep, Track, Running, Job
  <1>u. UNCHANGED <<method, desk, stray, lostTrack>>
    BY DEF HelperEnds, HelperDies
  <1> SUFFICES ASSUME Own, Kept PROVE Kept'
    BY <1>0, <1>u DEF Track
  <1>1. DOMAIN helpers = {i} /\ DOMAIN Without(i) = {} /\ running /\ ~job.schtasks
    BY DEF Own, OwnHelper, Without
  <1>2. Home /\ Recorded /\ Sound(record, desk, lostTrack)
    BY DEF Kept, Notes
  <1>3. ASSUME method = "task", helpers' = Without(i), UNCHANGED <<job, record, request>>,
               (job'.poll /\ result' # NoResult) => Sound(result'.previous, desk, lostTrack)
        PROVE  Kept'
    <2>1. DOMAIN helpers' = {}
      BY <1>1, <1>3
    <2>2. Notes'
      BY <1>u, <1>2, <1>3, <2>1 DEF Notes
    <2>3. Recorded'
      BY <1>2, <1>3, <2>1 DEF Recorded, running
    <2>4. Home'
      BY <1>u, <1>2 DEF Home
    <2>5. Planned' /\ OnTheWay'
      BY <2>1 DEF Planned, OnTheWay
    <2>6. QED
      BY <2>2, <2>3, <2>4, <2>5 DEF Kept
  <1>4. CASE HelperEnds(i)
    <2> DEFINE h == helpers[i]
               res == [ok |-> h.ok, previous |-> h.previous]
    <2>1. h.ready /\ h.todo = <<>>
      BY <1>4 DEF HelperEnds
    <2>2. res \in Result /\ res.ok = h.ok /\ res.previous = h.previous
      BY <1>0 DEF Result, Helper
    <2>3. Sound(res.previous, desk, lostTrack)
      BY <2>2 DEF Kept, Notes
    <2>4. CASE method # "task"
      <3>1. handleResult(res, Without(i))
        BY <1>4, <2>4 DEF HelperEnds
      <3> HIDE DEF res
      <3>2. Heard(Without(i), res)
        BY <1>0, <2>1, <2>2, EndHears
      <3>3. Fits(h, method, job)
        BY DEF Kept, Planned
      <3>4. job.nextStages \in Plans(job.action)
        <4>1. CASE method = "service"
          <5>1. PICK p \in Plans(job.action) \ {<<>>} : job.nextStages = Tail(p)
            BY <3>3, <4>1 DEF Fits
          <5>2. p # <<>> /\ p \in Plans(job.action)
            OBVIOUS
          <5>3. Tail(p) \in Plans(job.action)
            BY <1>0, <5>2, PlanFacts
          <5>4. QED
            BY <5>1, <5>3
        <4>2. CASE method # "service"
          BY <3>3, <4>2 DEF Fits, Plans
        <4>3. QED
          BY <4>1, <4>2
      <3>5. Coming(h) = {}
        BY <2>1, ListSets DEF Coming
      <3>6. h.ok => Way(Coming(h) \cup ToSet(job.nextStages), job.action, desk, lostTrack)
        BY DEF Kept, OnTheWay
      <3>7. Coming(h) \cup ToSet(job.nextStages) = ToSet(job.nextStages)
        BY <3>5
      <3>8. HeardWell(res)
        BY <2>2, <2>3, <3>4, <3>6, <3>7 DEF HeardWell
      <3>9. QED
        BY <1>0, <1>u, <1>2, <2>2, <3>1, <3>2, <3>8, HandleResultKept
    <2>5. CASE method = "task"
      <3>1. helpers' = Without(i) /\ result' = res /\ UNCHANGED <<job, asks, record, request>>
        BY <1>4, <2>5 DEF HelperEnds
      <3>2. QED
        BY <1>3, <2>3, <2>5, <3>1
    <2>6. QED
      BY <2>4, <2>5
  <1>5. CASE HelperDies(i)
    <2>1. CASE method # "task"
      <3>1. Fail(Without(i))
        BY <1>5, <2>1 DEF HelperDies
      <3>2. QED
        BY <1>0, <1>u, <1>1, <1>2, <3>1, FailKept
    <2>2. CASE method = "task"
      <3>1. helpers' = Without(i) /\ UNCHANGED <<job, asks, record, request, result>>
        BY <1>5, <2>2 DEF HelperDies
      <3>2. (job'.poll /\ result' # NoResult) => Sound(result'.previous, desk, lostTrack)
        BY <3>1 DEF Kept, Notes
      <3>3. QED
        BY <1>3, <2>2, <3>1, <3>2
    <2>3. QED
      BY <2>1, <2>2
  <1>6. QED
    BY <1>4, <1>5

\* The one helper at work goes on, and its operation with it.
LEMMA GoesOn ==
  ASSUME Own, Kept, NEW i \in DOMAIN helpers, NEW h, helpers' = [helpers EXCEPT ![i] = h],
         UNCHANGED <<method, job, record, request, result>>,
         Fits(h, method, job), h.todo # <<>> => h.ok,
         Sound(record, desk', lostTrack'), Sound(h.previous, desk', lostTrack'),
         job.action = "Deactivate" => h.previous = "blank",
         h.ok => Way(Coming(h) \cup ToSet(job.nextStages), job.action, desk', lostTrack'),
         Home'
  PROVE  Kept'
  <1>1. DOMAIN helpers' = {i} /\ helpers'[i] = h
    BY DEF Own, OwnHelper
  <1>2. Notes'
    <2>1. ~(job'.poll /\ result' # NoResult)
      BY DEF Own, OwnHelper, OwnResult
    <2>2. QED
      BY <1>1, <2>1 DEF Notes
  <1>3. Recorded'
    BY <1>1 DEF Kept, Recorded, running
  <1>4. Planned'
    <2>1. ASSUME NEW j \in DOMAIN helpers'
          PROVE  Fits(helpers'[j], method', job') /\ (helpers'[j].todo # <<>> => helpers'[j].ok)
      <3>1. helpers'[j] = h
        BY <1>1
      <3>2. method' = method /\ job' = job
        OBVIOUS
      <3>3. QED
        BY <3>1, <3>2, Zenon
    <2>2. QED
      BY <2>1, Zenon DEF Planned
  <1>5. OnTheWay'
    <2>1. ASSUME NEW j \in DOMAIN helpers', helpers'[j].ok
          PROVE  Way(Coming(helpers'[j]) \cup ToSet(job'.nextStages), job'.action, desk', lostTrack')
      <3>1. helpers'[j] = h
        BY <1>1
      <3>2. job' = job
        OBVIOUS
      <3>3. QED
        BY <2>1, <3>1, <3>2, Zenon
    <2>2. QED
      BY <2>1, Zenon DEF OnTheWay
  <1>6. QED
    BY <1>2, <1>3, <1>4, <1>5 DEF Kept

\* A helper reads its request: now its plan is known.
LEMMA ReadKept ==
  ASSUME IInv, Own, Kept, NEW i \in DOMAIN helpers, HelperReads(i)
  PROVE  Kept'
  <1> DEFINE o == helpers[i]
             todo == IF request = NoReq THEN <<>>
                     ELSE IF o.arg = "all" THEN stagesOf(request.action) ELSE <<o.arg>>
             h == [o EXCEPT !.ready = TRUE, !.req = request, !.ok = request # NoReq, !.todo = todo]
  <1>0. o \in Helper /\ job \in Job /\ job.action \in {"Activate", "Deactivate"}
    BY QueueType DEF IInv, Running, Job
  <1>1. /\ ~o.ready /\ helpers' = [helpers EXCEPT ![i] = h]
        /\ UNCHANGED <<method, job, record, request, result, desk, lostTrack>>
    BY DEF HelperReads
  <1> HIDE DEF todo
  <1>2. h.ready /\ h.arg = o.arg /\ (h.ok <=> request # NoReq) /\ h.todo = todo /\ h.previous = o.previous
    BY <1>0 DEF Helper
  <1> HIDE DEF h
  <1>3. running /\ request.action = job.action /\ o.ok
    BY <1>1 DEF Own, OwnHelper, OwnRequest
  <1>4. /\ Fits(o, method, job)
        /\ Way(Coming(o) \cup ToSet(job.nextStages), job.action, desk, lostTrack)
    BY <1>3 DEF Kept, Planned, OnTheWay
  <1>5. Sound(record, desk', lostTrack') /\ Sound(h.previous, desk', lostTrack') /\ Home'
    <2>1. Sound(record, desk, lostTrack) /\ Sound(o.previous, desk, lostTrack) /\ Home
      BY DEF Kept, Notes
    <2>2. QED
      BY <1>1, <1>2, <2>1 DEF Home
  <1>6. job.action = "Deactivate" => h.previous = "blank"
    BY <1>2, <1>3 DEF Kept, Recorded
  <1>7. h.todo # <<>> => h.ok
    BY <1>2 DEF todo
  <1>8. CASE method = "service"
    <2>1. PICK p \in Plans(job.action) \ {<<>>} : o.arg = Head(p) /\ job.nextStages = Tail(p)
      BY <1>4, <1>8 DEF Fits
    <2>2. o.arg \in Stages
      <3>1. p \in Plans(job.action) /\ p # <<>>
        OBVIOUS
      <3>2. Head(p) \in Stages
        BY <1>0, <3>1, PlanFacts
      <3>3. QED
        BY <2>1, <3>2
    <2>3. o.arg # "all"
      BY <2>2 DEF Stages
    <2>4. h.todo = IF request = NoReq THEN <<>> ELSE <<o.arg>>
      BY <1>2, <2>3 DEF todo
    <2>5. Fits(h, method, job)
      BY <1>2, <1>8, <2>1, <2>4 DEF Fits
    <2>6. h.ok => Coming(h) = Coming(o)
      BY <1>1, <1>2, <2>2, <2>3, <2>4, ListSets DEF Coming
    <2>7. h.ok => Way(Coming(h) \cup ToSet(job.nextStages), job.action, desk', lostTrack')
      BY <1>1, <1>4, <2>6
    <2>8. QED
      BY <1>1, <1>5, <1>6, <1>7, <2>5, <2>7, GoesOn
  <1>9. CASE method # "service"
    <2>1. o.arg = "all" /\ job.nextStages = <<>>
      BY <1>4, <1>9 DEF Fits
    <2>2. h.todo = IF request = NoReq THEN <<>> ELSE stagesOf(job.action)
      BY <1>2, <1>3, <2>1 DEF todo
    <2>3. stagesOf(job.action) \in Plans(job.action) /\ <<>> \in Plans(job.action)
      BY <1>0, WholePlan DEF Plans
    <2>4. Fits(h, method, job)
      BY <1>2, <1>9, <2>1, <2>2, <2>3 DEF Fits
    <2>5. h.ok => /\ job.action = "Activate" => "snapshot" \in Coming(h)
                  /\ job.action = "Deactivate" => "mode" \in Coming(h)
      <3> DEFINE s == stagesOf(job.action)
      <3>1. /\ s \in Plans(job.action) /\ s # <<>>
            /\ Head(s) = IF job.action = "Activate" THEN "snapshot" ELSE "mode"
        BY <1>0, WholePlan
      <3>2. Head(s) \in ToSet(s)
        <4> HIDE DEF s
        <4>1. QED
          BY <1>0, <3>1, PlanFacts
      <3>3. h.ok => Coming(h) = ToSet(s)
        BY <1>2, <2>2 DEF Coming
      <3>4. QED
        BY <3>1, <3>2, <3>3
    <2>6. h.ok => Way(Coming(h) \cup ToSet(job.nextStages), job.action, desk', lostTrack')
      BY <2>5 DEF Way
    <2>7. QED
      BY <1>1, <1>5, <1>6, <1>7, <2>4, <2>6, GoesOn
  <1>10. QED
    BY <1>8, <1>9

\* A helper's stage: the heart of it.
LEMMA WorkKept ==
  ASSUME IInv, Own, Kept, NEW i \in DOMAIN helpers, HelperStage(i)
  PROVE  Kept'
  <1> DEFINE o == helpers[i]
             stage == Head(o.todo)
             h == [o EXCEPT !.todo = Tail(@), !.previous = Seen(stage, o.req, o.previous)]
  <1>0. o \in Helper /\ job \in Job /\ job.action \in {"Activate", "Deactivate"}
    BY QueueType DEF IInv, Running, Job
  <1>1. /\ o.todo # <<>> /\ helpers' = [helpers EXCEPT ![i] = h]
        /\ desk' \in StageEffect(stage, o.req) /\ (lostTrack' <=> Lose(stage, o.req))
        /\ UNCHANGED <<method, job, record, request, result>>
    <2>1. o.todo # <<>> /\ desk' \in StageEffect(stage, o.req) /\ UNCHANGED <<method, job, record, request, result>>
      BY DEF HelperStage
    <2>2. helpers' = [helpers EXCEPT ![i] = h]
      BY DEF HelperStage, Seen
    <2>3. lostTrack' <=> Lose(stage, o.req)
      BY DEF HelperStage, Lose
    <2>4. QED
      BY <2>1, <2>2, <2>3
  <1>2. /\ running /\ o.ready /\ o.req = request
        /\ request \in Request /\ request.action = job.action
    BY <1>1 DEF Own, OwnHelper, OwnRequest
  <1>3. o.ok
    BY <1>1 DEF Kept, Planned
  <1> DEFINE seen == Seen(stage, o.req, o.previous)
  <1>4. h.ready /\ h.arg = o.arg /\ h.ok = o.ok /\ h.todo = Tail(o.todo) /\ h.previous = seen
    <2>1. h.ready = o.ready /\ h.arg = o.arg /\ h.ok = o.ok /\ h.todo = Tail(o.todo)
      BY <1>0 DEF Helper
    <2>2. h.previous = seen
      BY <1>0 DEF Helper
    <2>3. QED
      BY <1>2, <2>1, <2>2
  <1>5. Fits(o, method, job)
    BY DEF Kept, Planned
  <1> HIDE DEF h
  <1>6. /\ Fits(h, method, job)
        /\ \E p \in Plans(job.action) \ {<<>>} :
              /\ Head(o.todo) = Head(p)
              /\ Coming(o) \cup ToSet(job.nextStages) = ToSet(p)
              /\ Coming(h) \cup ToSet(job.nextStages) = ToSet(Tail(p))
    BY <1>0, <1>1, <1>2, <1>4, <1>5, NextStage
  <1>7. PICK p \in Plans(job.action) \ {<<>>} :
              /\ stage = Head(p)
              /\ Coming(o) \cup ToSet(job.nextStages) = ToSet(p)
              /\ Coming(h) \cup ToSet(job.nextStages) = ToSet(Tail(p))
    BY <1>6
  <1>8. Way(ToSet(p), job.action, desk, lostTrack)
    BY <1>3, <1>7 DEF Kept, OnTheWay
  <1>9. (job.action = "Activate" /\ "driver" \notin ToSet(p)) => desk.on
    <2>1. Ahead(o) = Coming(o)
      BY <1>2 DEF Ahead, Coming
    <2>2. QED
      BY <1>2, <1>3, <1>7, <2>1 DEF Own, DriverDone
  <1>10. desk \in Desk /\ Home /\ Sound(record, desk, lostTrack) /\ Sound(o.previous, desk, lostTrack)
    <2>1. desk \in Desk
      BY BookIs DEF IInv, TypeOK, Desk
    <2>2. QED
      BY <2>1 DEF Kept, Notes
  <1>11. /\ o.previous \in Primaries \cup {"blank"}
         /\ job.action = "Deactivate" => o.req.restore = record /\ o.previous = "blank"
    BY <1>0, <1>2 DEF Kept, Recorded, Helper
  <1> HIDE DEF stage, seen
  <1>12. /\ Home' /\ Way(ToSet(Tail(p)), job.action, desk, lostTrack)' /\ Sound(record, desk, lostTrack)'
         /\ Sound(seen, desk', lostTrack')
    <2> DEFINE req == o.req
               prev == o.previous
               next == seen
    <2>1. req \in Request /\ req.action = job.action /\ prev \in Primaries \cup {"blank"}
          /\ next = Seen(stage, req, prev)
      BY <1>2, <1>11 DEF seen
    <2>2. desk' \in StageEffect(stage, req) /\ (lostTrack' <=> Lose(stage, req))
      BY <1>1
    <2>3. job.action = "Deactivate" => req.restore = record /\ prev = "blank"
      BY <1>11
    <2>4. Sound(prev, desk, lostTrack)
      BY <1>10
    <2> HIDE DEF req, prev, next
    <2>5. QED
      BY <1>1, <1>7, <1>8, <1>9, <1>10, <2>1, <2>2, <2>3, <2>4, StageKeeps DEF next
  <1>13. job.action = "Deactivate" => h.previous = "blank"
    BY <1>2, <1>4, <1>11 DEF seen, Seen
  <1>14. Way(Coming(h) \cup ToSet(job.nextStages), job.action, desk', lostTrack')
    BY <1>1, <1>7, <1>12
  <1>15. Sound(record, desk', lostTrack') /\ Sound(h.previous, desk', lostTrack')
    BY <1>1, <1>4, <1>12
  <1>16. h.todo # <<>> => h.ok
    BY <1>3, <1>4
  <1>17. QED
    BY <1>1, <1>6, <1>12, <1>13, <1>14, <1>15, <1>16, GoesOn

\* A stage that fails ends the helper's work.
LEMMA FailsKept ==
  ASSUME IInv, Own, Kept, NEW i \in DOMAIN helpers, HelperStageFails(i)
  PROVE  Kept'
  <1> DEFINE o == helpers[i]
             h == [o EXCEPT !.todo = <<>>, !.ok = FALSE]
  <1>0. o \in Helper /\ job.action \in {"Activate", "Deactivate"}
    BY QueueType DEF IInv, Running, Job
  <1>1. /\ o.todo # <<>> /\ helpers' = [helpers EXCEPT ![i] = h]
        /\ UNCHANGED <<method, job, record, request, result, desk, lostTrack>>
    BY DEF HelperStageFails
  <1>2. o.ready /\ running
    BY <1>1 DEF Own, OwnHelper
  <1>3. h.todo = <<>> /\ ~h.ok /\ h.ready = o.ready /\ h.arg = o.arg /\ h.previous = o.previous
    BY <1>0 DEF Helper
  <1> HIDE DEF h
  <1>4. Fits(o, method, job)
    BY DEF Kept, Planned
  <1>5. Fits(h, method, job)
    BY <1>3, <1>4 DEF Fits, Plans
  <1>6. job.action = "Deactivate" => h.previous = "blank"
    BY <1>2, <1>3 DEF Kept, Recorded
  <1>7. Sound(record, desk', lostTrack') /\ Sound(h.previous, desk', lostTrack') /\ Home'
    <2>1. Sound(record, desk, lostTrack) /\ Sound(o.previous, desk, lostTrack) /\ Home
      BY DEF Kept, Notes
    <2>2. QED
      BY <1>1, <1>3, <2>1 DEF Home
  <1>8. QED
    BY <1>1, <1>3, <1>5, <1>6, <1>7, GoesOn

\* Nothing of a server that died is left when the next one starts, but the settings.
LEMMA RestartKept ==
  ASSUME IInv, Track, Restart
  PROVE  Track'
  <1> DEFINE as == Told(asks, {c \in Callers : asks[c] # "home"}, "gone")
             op == [action |-> "Deactivate", mode |-> 0, callbacks |-> {}]
  <1>0. Book /\ UNCHANGED <<method, desk, stray, lostTrack>>
    BY DEF IInv, Restart
  <1> SUFFICES ASSUME Kept PROVE Kept'
    BY <1>0 DEF Track
  <1>1. CASE startNext(<<op>>, NewJob, as, <<>>, record) /\ UNCHANGED record
    <2>1. op \in Op
      BY DisplayAssumption DEF Op
    <2> DEFINE q == <<op>>
    <2>2. q \in Seq(Op)
      BY <2>1
    <2>3. startNext(q, NewJob, as, <<>>, record)
      BY <1>1
    <2> HIDE DEF q, as, op
    <2>4. Sound(record, desk, lostTrack) /\ Home
      BY DEF Kept, Notes
    <2>5. NewJob.state # "Running"
      BY FreshJob
    <2>6. QED
      BY <1>0, <1>1, <2>2, <2>3, <2>4, <2>5, FreshJob, QueueType, StartsKept
  <1>2. CASE job' = NewJob /\ helpers' = <<>> /\ record' = "none"
    <2>1. ~running' /\ ~job'.poll /\ DOMAIN helpers' = {}
      BY <1>2, FreshJob DEF running
    <2>2. Sound(record', desk', lostTrack') /\ Home'
      BY <1>0, <1>2 DEF Kept, Sound, Home
    <2>3. QED
      BY <2>1, <2>2, IdleKept
  <1>3. QED
    BY <1>1, <1>2 DEF Restart, resetAtStartup

\* At the start the primary display is theirs and nothing is noted.
LEMMA InitKept == Init => Track
  <1> SUFFICES ASSUME Init PROVE Kept
    BY DEF Track
  <1>1. ~running /\ ~job.poll /\ DOMAIN helpers = {}
    BY FreshJob DEF Init, running
  <1>2. Sound(record, desk, lostTrack) /\ Home
    BY DEF Init, Sound, Home
  <1>3. QED
    BY <1>1, <1>2 DEF Kept, Notes, Recorded, Planned, OnTheWay

\* Every step keeps track.
LEMMA NextKept == IInv /\ Track /\ [Next]_vars => Track'
  <1> SUFFICES ASSUME IInv, Track, [Next]_vars PROVE Track'
    OBVIOUS
  <1>1. CASE \E c \in Callers, m \in Modes : activate(c, m)
    BY <1>1, CallKept
  <1>2. CASE \E c \in Callers : StreamEnds(c)
    BY <1>2, CallKept
  <1>3. CASE Timers \/ SchtasksFinished
    BY <1>3, CallKept, EndKept DEF Timers
  <1>4. CASE Helpers
    <2>1. PICK i \in DOMAIN helpers :
             HelperReads(i) \/ HelperStage(i) \/ HelperStageFails(i) \/ HelperEnds(i) \/ HelperDies(i)
      BY <1>4 DEF Helpers
    <2>2. CASE HelperEnds(i) \/ HelperDies(i)
      BY <2>2, LeaveKept
    <2>3. CASE HelperReads(i) \/ HelperStage(i) \/ HelperStageFails(i)
      <3>1. stray' = stray
        BY <2>3 DEF HelperReads, HelperStage, HelperStageFails
      <3>2. ASSUME Own, Kept PROVE Kept'
        BY <2>3, <3>2, ReadKept, WorkKept, FailsKept
      <3>3. QED
        BY <3>1, <3>2 DEF IInv, InStep, Track
    <2>4. QED
      BY <2>1, <2>2, <2>3
  <1>5. CASE Restart
    BY <1>5, RestartKept
  <1>6. CASE UNCHANGED vars
    <2>1. UNCHANGED <<method, job, record, request, result, helpers, desk, stray, lostTrack>>
      BY <1>6 DEF vars
    <2>2. Kept => Kept'
      BY <2>1, SameKept
    <2>3. QED
      BY <2>1, <2>2 DEF Track
  <1>7. QED
    BY <1>1, <1>2, <1>3, <1>4, <1>5, <1>6 DEF Next

-----------------------------------------------------------------------------
(***************************************************************************)
(* Theorems.                                                               *)
(***************************************************************************)

\* The server keeps track of the primary display: what the settings, the request,
\* the helper and the saved layout say of it fits the desktop and how far the
\* running operation has come.
THEOREM KeepsTrack == Spec => []Track
  <1>1. IInv /\ Track /\ [Next]_vars => Track'
    BY NextKept
  <1>2. QED
    BY <1>1, InitKept, Bookkeeping, PTL DEF Spec

\* When the helper's driver stage switches the display off, the primary role is
\* back where it was before, unless a helper has outlived its operation or nothing
\* says any more which display that was.
THEOREM PrimaryReturns == Spec => PrimaryBack
  <1>1. ASSUME IInv, Track, Track', [Next]_vars, desk.on, ~desk'.on, ~stray, ~lostTrack
        PROVE  desk'.primary = "theirs"
    <2>1. desk' # desk
      BY <1>1
    <2>2. PICK i \in DOMAIN helpers : HelperStage(i)
      BY <1>1, <2>1 DEF Next, vars, activate, StreamEnds, Timers, ReleaseTimeout, DeadlineTimeout, pollResult,
                        SchtasksFinished, Helpers, HelperReads, HelperStageFails, HelperEnds, HelperDies, Restart
    <2> DEFINE stage == Head(helpers[i].todo)
               req == helpers[i].req
    <2>3. /\ desk' \in StageEffect(stage, req) /\ stray' = stray
          /\ lostTrack' => \/ lostTrack
                           \/ desk.on /\ stage = "snapshot"
                           \/ stage = "mode" /\ req.action = "Deactivate"
      BY <2>2 DEF HelperStage
    <2>4. desk \in Desk
      BY <1>1, BookIs DEF IInv, TypeOK, Desk
    <2> HIDE DEF stage, req
    <2>5. stage = "driver"
      <3>1. CASE stage = "snapshot" \/ stage = "mode"
        BY <1>1, <2>3, <2>4, <3>1 DEF StageEffect, Desk
      <3>2. CASE stage \notin {"snapshot", "driver", "mode"}
        BY <2>1, <2>3, <3>2 DEF StageEffect
      <3>3. QED
        BY <3>1, <3>2
    <2>6. ~lostTrack' /\ ~stray'
      BY <1>1, <2>3, <2>5
    <2>7. Home'
      BY <1>1, <2>6 DEF Track, Kept
    <2>8. QED
      BY <1>1, <2>6, <2>7 DEF Home
  <1>2. IInv /\ Track /\ Track' /\ [Next]_vars =>
           [(desk.on /\ ~desk'.on /\ ~stray /\ ~lostTrack) => desk'.primary = "theirs"]_vars
    BY <1>1
  <1>3. QED
    BY <1>2, KeepsTrack, Bookkeeping, PTL DEF Spec, PrimaryBack
=============================================================================
