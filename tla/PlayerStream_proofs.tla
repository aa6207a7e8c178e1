------------------------ MODULE PlayerStream_proofs ------------------------
(***************************************************************************)
(* What holds of the players' slots for any set of slots, permissions and  *)
(* join requests.                                                          *)
(***************************************************************************)
EXTENDS PlayerStream, TLAPS

\* A worker runs, or ran, exactly when its join came as far as the spawn.
Started ==
    \A w \in Workers :
        IF join[w].stage = "spawned"
        THEN wk[w].run # "none"
        ELSE wk[w].run = "none" /\ wk[w].reply = "none" /\ ~wk[w].over

\* A join was answered once if it was stood down or its worker has spoken for
\* itself, and not at all before that.
Counted ==
    \A w \in Workers :
        answers[w] = IF join[w].stage = "dropped" \/ wk[w].reply # "none" THEN 1 ELSE 0

\* The worker in a slot is the one the newest join asked for, and is still heard.
InSlot ==
    \A s \in Slots :
        worker[s] # NoWorker =>
            LET w == worker[s]
            IN  /\ join[w].stage = "spawned"
                /\ join[w].slot = s
                /\ join[w].wired
                /\ join[w].gen = launchGen[s]
                /\ wk[w].run = "up"
                /\ ~wk[w].over

\* A worker still heard is in its slot, and a join not yet spawned will be heard.
WiredInSlot ==
    \A w \in Workers :
        /\ (wk[w].run = "up" /\ ~wk[w].over /\ join[w].wired) => worker[join[w].slot] = w
        /\ join[w].stage \in {"waiting", "claiming"} => join[w].wired

\* The joins of a slot are numbered in their order, no number twice.
JoinsNumbered ==
    \A v \in Workers :
        join[v] # NoJoin =>
            /\ join[v].gen <= launchGen[join[v].slot]
            /\ \A w \in Workers :
                  (w # v /\ join[w] # NoJoin /\ join[w].slot = join[v].slot)
                      => join[w].gen # join[v].gen

Book == Started /\ Counted /\ InSlot /\ WiredInSlot /\ JoinsNumbered /\ HoleKeptForStream

IInv == TypeOK /\ Book

-----------------------------------------------------------------------------
(***************************************************************************)
(* Invitations keep their type.                                            *)
(***************************************************************************)

\* Dropping invitations keeps the type.
LEMMA WithoutType ==
  ASSUME InvTypeOK, NEW gone \in SUBSET Slots
  PROVE  /\ Without(inv, gone) \in [Slots -> Invitation]
         /\ \A s \in Slots : ~IsLive(Without(inv, gone), s)
               => ~Without(inv, gone)[s].bound /\ ~Without(inv, gone)[s].streaming
  <1> DEFINE f == Without(inv, gone)
  <1>1. \A s \in Slots : f[s] = IF s \in gone
                               THEN [inv[s] EXCEPT !.id = 0, !.bound = FALSE, !.streaming = FALSE]
                               ELSE inv[s]
    BY DEF Without
  <1>2. ASSUME NEW s \in Slots
        PROVE  f[s] \in Invitation /\ (~IsLive(f, s) => ~f[s].bound /\ ~f[s].streaming)
    <2>1. CASE s \in gone
      <3>1. inv[s] \in Invitation
        BY DEF InvTypeOK
      <3>2. f[s] = [inv[s] EXCEPT !.id = 0, !.bound = FALSE, !.streaming = FALSE]
        BY <1>1, <2>1
      <3> HIDE DEF f
      <3>3. 0 \in 0..MaxOpened
        BY InvitationsAssumption
      <3>4. QED
        BY <3>1, <3>2, <3>3 DEF Invitation
    <2>2. CASE s \notin gone
      <3>1. f[s] = inv[s]
        BY <1>1, <2>2
      <3> HIDE DEF f
      <3>2. QED
        BY <3>1 DEF InvTypeOK, IsLive
    <2>3. QED
      BY <2>1, <2>2
  <1>3. f = [s \in Slots |-> f[s]]
    BY DEF Without
  <1> HIDE DEF f
  <1>4. QED
    BY <1>2, <1>3 DEF f

\* Opening an invitation keeps the type.
LEMMA OpenType ==
  ASSUME InvTypeOK, NEW s \in Slots, Open({}, s)
  PROVE  InvTypeOK'
  <1> DEFINE f == Without(inv, {} \cup {s})
  <1>1. /\ f \in [Slots -> Invitation]
        /\ \A t \in Slots : ~IsLive(f, t) => ~f[t].bound /\ ~f[t].streaming
    BY WithoutType
  <1>2. opened + 1 \in 0..MaxOpened /\ opened + 1 # 0
    BY InvitationsAssumption DEF Open, InvTypeOK
  <1>3. opened' = opened + 1 /\ inv' = [f EXCEPT ![s].id = opened + 1]
    BY DEF Open
  <1> HIDE DEF f
  <1>4. inv' \in [Slots -> Invitation]
    BY <1>1, <1>2, <1>3 DEF Invitation
  <1>5. ASSUME NEW t \in Slots, ~IsLive(inv', t)
        PROVE  ~inv'[t].bound /\ ~inv'[t].streaming
    BY <1>1, <1>2, <1>3, <1>5 DEF IsLive, Invitation
  <1>6. QED
    BY <1>2, <1>3, <1>4, <1>5 DEF InvTypeOK

\* Closing invitations keeps the type.
LEMMA CloseType ==
  ASSUME InvTypeOK, NEW gone \in SUBSET Slots, Close(gone)
  PROVE  InvTypeOK'
  BY WithoutType DEF InvTypeOK, Close

\* Changing what a player may do keeps the type.
LEMMA PermitType ==
  ASSUME InvTypeOK, NEW s \in Slots, NEW p \in Perms, Permit({}, s, p)
  PROVE  InvTypeOK'
  <1> DEFINE f == Without(inv, {})
  <1>1. /\ f \in [Slots -> Invitation]
        /\ \A t \in Slots : ~IsLive(f, t) => ~f[t].bound /\ ~f[t].streaming
    BY WithoutType
  <1>2. inv' = [f EXCEPT ![s].perms = p] /\ opened' = opened
    BY DEF Permit
  <1> HIDE DEF f
  <1>3. inv' \in [Slots -> Invitation]
    BY <1>1, <1>2 DEF Invitation
  <1>4. \A t \in Slots : /\ inv'[t].id = f[t].id /\ inv'[t].bound = f[t].bound
                         /\ inv'[t].streaming = f[t].streaming
    BY <1>1, <1>2 DEF Invitation
  <1>5. QED
    BY <1>1, <1>2, <1>3, <1>4 DEF InvTypeOK, IsLive

\* Binding a device keeps the type.
LEMMA BindType ==
  ASSUME InvTypeOK, NEW s \in Slots, Bind({}, s)
  PROVE  InvTypeOK'
  <1> DEFINE f == Without(inv, {})
  <1>1. /\ f \in [Slots -> Invitation]
        /\ \A t \in Slots : ~IsLive(f, t) => ~f[t].bound /\ ~f[t].streaming
    BY WithoutType
  <1>2. f = inv
    BY DEF InvTypeOK, Without
  <1>3. inv' = [f EXCEPT ![s].bound = TRUE] /\ opened' = opened /\ IsLive(inv, s)
    BY DEF Bind
  <1> HIDE DEF f
  <1>4. inv' \in [Slots -> Invitation]
    BY <1>1, <1>3 DEF Invitation
  <1>5. /\ \A t \in Slots : inv'[t].id = f[t].id /\ inv'[t].streaming = f[t].streaming
        /\ \A t \in Slots \ {s} : inv'[t].bound = f[t].bound
    BY <1>1, <1>3 DEF Invitation
  <1>6. QED
    BY <1>1, <1>2, <1>3, <1>4, <1>5 DEF InvTypeOK, IsLive

\* Raising or lowering the streaming flag keeps the type.
LEMMA StreamingType ==
  ASSUME InvTypeOK, NEW s \in Slots, NEW on \in BOOLEAN,
         inv' = Streaming(inv, s, on) \/ inv' = inv, opened' = opened
  PROVE  InvTypeOK'
  BY DEF InvTypeOK, Streaming, Invitation, IsLive

-----------------------------------------------------------------------------
(***************************************************************************)
(* Taking workers out of their slots.                                      *)
(***************************************************************************)

\* A join is a record of a join request, or there is none.
LEMMA JoinCases ==
  ASSUME TypeOK, NEW w \in Workers
  PROVE  /\ join[w].stage # "none" <=> join[w] \in Join
         /\ join[w].stage = "none" <=> join[w] = NoJoin
  BY DEF TypeOK, Join, NoJoin

\* Only workers are held in slots.
LEMMA HeldWorkers ==
  ASSUME TypeOK, NEW S \in SUBSET Slots
  PROVE  Held(S) \subseteq Workers
  BY DEF TypeOK, Held

\* Asking workers to stop changes nothing else of them.
LEMMA AskAllKeeps ==
  ASSUME WkTypeOK, NEW W \in SUBSET Workers, AskAll(W)
  PROVE  /\ WkTypeOK'
         /\ \A w \in Workers : /\ wk'[w].run = wk[w].run
                               /\ wk'[w].reply = wk[w].reply
                               /\ wk'[w].over = wk[w].over
  BY DEF WkTypeOK, Worker, AskAll

\* A join whose ended() is no longer handled is otherwise what it was.
LEMMA UnwiredKeeps ==
  ASSUME TypeOK, NEW W \in SUBSET Workers, \A w \in W : join[w].stage = "spawned"
  PROVE  /\ Unwired(W) \in [Workers -> Join \cup {NoJoin}]
         /\ \A w \in Workers \ W : Unwired(W)[w] = join[w]
         /\ \A w \in W : /\ Unwired(W)[w].stage = "spawned"
                         /\ Unwired(W)[w] # NoJoin
                         /\ Unwired(W)[w].slot = join[w].slot
                         /\ Unwired(W)[w].gen = join[w].gen
                         /\ Unwired(W)[w].port = join[w].port
                         /\ Unwired(W)[w].wired = FALSE
  <1>1. \A w \in W : join[w] \in Join
    BY JoinCases
  <1>2. \A w \in W : [join[w] EXCEPT !.wired = FALSE] \in Join
    BY <1>1 DEF Join
  <1>3. Unwired(W) \in [Workers -> Join \cup {NoJoin}]
    BY <1>2 DEF Unwired, TypeOK
  <1>4. \A w \in Workers \ W : Unwired(W)[w] = join[w]
    BY DEF Unwired
  <1>5. \A w \in W : Unwired(W)[w] = [join[w] EXCEPT !.wired = FALSE]
    BY DEF Unwired
  <1>6. ASSUME NEW w \in W
        PROVE  /\ Unwired(W)[w].stage = "spawned"
               /\ Unwired(W)[w] # NoJoin
               /\ Unwired(W)[w].slot = join[w].slot
               /\ Unwired(W)[w].gen = join[w].gen
               /\ Unwired(W)[w].port = join[w].port
               /\ Unwired(W)[w].wired = FALSE
    BY <1>1, <1>5 DEF Join, NoJoin
  <1>7. QED
    BY <1>3, <1>4, <1>6

\* The slots whose workers are taken out are empty, the workers no longer heard.
LEMMA Detached ==
  ASSUME TypeOK, Book, NEW S \in SUBSET Slots, detachWorkerSlots(S),
         UNCHANGED <<launchGen, hole, answers>>
  PROVE  /\ Book'
         /\ WkTypeOK'
         /\ worker' \in [Slots -> Workers \cup {NoWorker}]
         /\ join' \in [Workers -> Join \cup {NoJoin}]
  <1> DEFINE W == Held(S)
  <1>1. W \in SUBSET Workers /\ \A w \in W : \E s \in S : worker[s] = w /\ w # NoWorker
    BY HeldWorkers DEF Held
  <1>2. \A w \in W : join[w].stage = "spawned"
    BY <1>1 DEF Book, InSlot
  <1>3. \A s \in S : worker[s] # NoWorker => worker[s] \in W
    BY DEF Held
  <1>4. /\ WkTypeOK'
        /\ \A w \in Workers : /\ wk'[w].run = wk[w].run
                              /\ wk'[w].reply = wk[w].reply
                              /\ wk'[w].over = wk[w].over
    BY <1>1, AskAllKeeps DEF detachWorkerSlots, TypeOK
  <1>5. join' = Unwired(W)
    BY DEF detachWorkerSlots
  <1> HIDE DEF W
  <1>6. /\ join' \in [Workers -> Join \cup {NoJoin}]
        /\ \A w \in Workers \ W : join'[w] = join[w]
        /\ \A w \in W : /\ join'[w].stage = join[w].stage
                        /\ join'[w] # NoJoin
                        /\ join[w] # NoJoin
                        /\ join'[w].slot = join[w].slot
                        /\ join'[w].gen = join[w].gen
                        /\ join'[w].port = join[w].port
                        /\ join'[w].wired = FALSE
    <2>1. /\ join' \in [Workers -> Join \cup {NoJoin}]
          /\ \A w \in Workers \ W : join'[w] = join[w]
          /\ \A w \in W : /\ join'[w].stage = "spawned"
                          /\ join'[w] # NoJoin
                          /\ join'[w].slot = join[w].slot
                          /\ join'[w].gen = join[w].gen
                          /\ join'[w].port = join[w].port
                          /\ join'[w].wired = FALSE
      BY <1>1, <1>2, <1>5, UnwiredKeeps
    <2>2. \A w \in W : join[w] # NoJoin
      BY <1>2 DEF NoJoin
    <2>3. QED
      BY <1>2, <2>1, <2>2
  <1>7. \A s \in Slots : worker'[s] = IF s \in S THEN NoWorker ELSE worker[s]
    BY DEF detachWorkerSlots
  <1>8. worker' \in [Slots -> Workers \cup {NoWorker}]
    BY DEF detachWorkerSlots, TypeOK
  <1>9. \A s \in Slots \ S : worker[s] # NoWorker => worker[s] \in Workers \ W
    BY <1>1 DEF Book, InSlot, TypeOK
  <1>10. Started' /\ Counted'
    BY <1>4, <1>6 DEF Book, Started, Counted
  <1>11. InSlot'
    BY <1>4, <1>6, <1>7, <1>9 DEF Book, InSlot
  <1>12. WiredInSlot'
    <2> SUFFICES ASSUME NEW w \in Workers
                 PROVE  /\ (wk'[w].run = "up" /\ ~wk'[w].over /\ join'[w].wired)
                              => worker'[join'[w].slot] = w
                        /\ join'[w].stage \in {"waiting", "claiming"} => join'[w].wired
      BY DEF WiredInSlot
    <2>1. CASE w \in W
      BY <1>2, <1>6, <2>1
    <2>2. CASE w \notin W
      <3>1. join'[w] = join[w]
        BY <1>6, <2>2
      <3>2. (wk[w].run = "up" /\ ~wk[w].over /\ join[w].wired) => worker'[join[w].slot] = w
        <4> SUFFICES ASSUME wk[w].run = "up", ~wk[w].over, join[w].wired
                     PROVE  worker'[join[w].slot] = w
          OBVIOUS
        <4>1. worker[join[w].slot] = w
          BY DEF Book, WiredInSlot
        <4>2. join[w].slot \in Slots
          BY JoinCases DEF Book, Started, Join
        <4>3. join[w].slot \notin S
          BY <1>3, <2>2, <4>1, NoWorkerAssumption
        <4>4. QED
          BY <1>7, <4>1, <4>2, <4>3
      <3>3. QED
        BY <1>4, <3>1, <3>2 DEF Book, WiredInSlot
    <2>3. QED
      BY <2>1, <2>2
  <1>13. JoinsNumbered'
    BY <1>6 DEF Book, JoinsNumbered
  <1>14. HoleKeptForStream'
    BY <1>6, <1>7, <1>9 DEF Book, HoleKeptForStream
  <1>15. QED
    BY <1>4, <1>6, <1>8, <1>10, <1>11, <1>12, <1>13, <1>14 DEF Book

\* A step that only concerns the invitations or what is asked of the workers
\* leaves the joins and the slots alone.
LEMMA Untouched ==
  ASSUME TypeOK, Book, UNCHANGED <<worker, join, launchGen, hole, answers>>,
         \A w \in Workers : /\ wk'[w].run = wk[w].run
                            /\ wk'[w].reply = wk[w].reply
                            /\ wk'[w].over = wk[w].over
  PROVE  Book'
  <1>1. \A s \in Slots : worker[s] # NoWorker => worker[s] \in Workers
    BY DEF TypeOK
  <1>2. Started' /\ Counted'
    BY DEF Book, Started, Counted
  <1>3. InSlot'
    BY <1>1 DEF Book, InSlot
  <1>4. WiredInSlot'
    BY DEF Book, WiredInSlot
  <1>5. JoinsNumbered' /\ HoleKeptForStream'
    BY DEF Book, JoinsNumbered, HoleKeptForStream
  <1>6. QED
    BY <1>2, <1>3, <1>4, <1>5 DEF Book

-----------------------------------------------------------------------------
(***************************************************************************)
(* The owner's steps.                                                      *)
(***************************************************************************)

\* The owner's steps keep type and bookkeeping.
LEMMA OwnerStep ==
  ASSUME TypeOK, Book, OwnerNext
  PROVE  TypeOK' /\ Book'
  <1>1. ASSUME NEW s \in Slots, RouteActivate(s)
        PROVE  TypeOK' /\ Book'
    <2>1. MustDisconnect({s}) \in SUBSET Slots
      BY DEF MustDisconnect
    <2>2. Open({}, s) /\ detachWorkerSlots(MustDisconnect({s}))
          /\ UNCHANGED <<retiring, launchGen, hole, holeTimer, answers, litBy>>
      BY <1>1 DEF RouteActivate
    <2>3. QED
      BY <2>1, <2>2, OpenType, Detached DEF TypeOK
  <1>2. ASSUME NEW s \in Slots, RouteDeactivate(s)
        PROVE  TypeOK' /\ Book'
    <2>1. Close({s}) /\ detachWorkerSlots({s})
          /\ retiring' \in [Slots -> Workers \cup {NoWorker}]
          /\ UNCHANGED <<launchGen, hole, holeTimer, answers, litBy>>
      BY <1>2 DEF RouteDeactivate, TypeOK
    <2>2. {s} \in SUBSET Slots
      OBVIOUS
    <2>3. QED
      BY <2>1, <2>2, CloseType, Detached DEF TypeOK
  <1>3. ASSUME NEW s \in Slots, ShareEnds(s)
        PROVE  TypeOK' /\ Book'
    <2>1. MustDisconnect({s}) \in SUBSET Slots /\ {s} \in SUBSET Slots
      BY DEF MustDisconnect
    <2>2. Close({s}) /\ detachWorkerSlots(MustDisconnect({s}))
          /\ UNCHANGED <<retiring, launchGen, hole, holeTimer, answers, litBy>>
      BY <1>3 DEF ShareEnds
    <2>3. QED
      BY <2>1, <2>2, CloseType, Detached DEF TypeOK
  <1>4. CASE endPlayerSessions
    <2>1. Close(Slots) /\ detachWorkerSlots(Slots)
          /\ UNCHANGED <<retiring, launchGen, hole, holeTimer, answers, litBy>>
      BY <1>4 DEF endPlayerSessions
    <2>2. QED
      BY <2>1, CloseType, Detached DEF TypeOK
  <1>5. CASE streamingSessionRevoked
    <2>1. AskAll(Held(Slots)) /\ UNCHANGED <<inv, opened, slotVars, answers, litBy>>
      BY <1>5 DEF streamingSessionRevoked
    <2>2. Held(Slots) \in SUBSET Workers
      BY HeldWorkers
    <2>3. WkTypeOK' /\ \A w \in Workers : /\ wk'[w].run = wk[w].run
                                          /\ wk'[w].reply = wk[w].reply
                                          /\ wk'[w].over = wk[w].over
      BY <2>1, <2>2, AskAllKeeps DEF TypeOK
    <2>4. QED
      BY <2>1, <2>3, Untouched DEF slotVars, TypeOK, InvTypeOK
  <1>6. ASSUME NEW s \in Slots, NEW p \in Perms, RoutePermissions(s, p)
        PROVE  TypeOK' /\ Book'
    <2>1. Permit({}, s, p) /\ UNCHANGED <<wk, worker, retiring, launchGen, hole, holeTimer, answers, litBy>>
      BY <1>6 DEF RoutePermissions
    <2>2. InvTypeOK'
      BY <2>1, PermitType DEF TypeOK
    <2>3. CASE join' = join
      BY <2>1, <2>2, <2>3, Untouched DEF TypeOK, WkTypeOK
    <2>4. CASE join' # join
      <3> DEFINE u == worker[s]
      <3>1. u \in Workers /\ join' = [join EXCEPT ![u].policy = p] /\ join[u].stage = "spawned"
        BY <1>6, <2>4 DEF RoutePermissions, TypeOK, Book, InSlot
      <3> HIDE DEF u
      <3>2. join[u] \in Join
        BY <3>1, JoinCases
      <3>3. /\ join'[u] = [join[u] EXCEPT !.policy = p]
            /\ \A w \in Workers \ {u} : join'[w] = join[w]
        BY <3>1 DEF TypeOK
      <3>4. join'[u] \in Join /\ join'[u] # NoJoin /\ join[u] # NoJoin
            /\ join'[u].stage = join[u].stage /\ join'[u].slot = join[u].slot
            /\ join'[u].gen = join[u].gen /\ join'[u].wired = join[u].wired
            /\ join'[u].port = join[u].port
        BY <3>2, <3>3 DEF Join, NoJoin
      <3>5. join' \in [Workers -> Join \cup {NoJoin}]
        BY <3>1, <3>4, <3>3 DEF TypeOK
      <3>6. \A w \in Workers :
               /\ join'[w].stage = join[w].stage /\ join'[w].slot = join[w].slot
               /\ join'[w].gen = join[w].gen /\ join'[w].wired = join[w].wired
               /\ join'[w].port = join[w].port
               /\ join'[w] = NoJoin <=> join[w] = NoJoin
        BY <3>3, <3>4
      <3>7. \A t \in Slots : worker[t] # NoWorker => worker[t] \in Workers
        BY DEF TypeOK
      <3>8. Book'
        BY <2>1, <3>6, <3>7
           DEF Book, Started, Counted, InSlot, WiredInSlot, JoinsNumbered, HoleKeptForStream
      <3>9. QED
        BY <2>1, <2>2, <3>5, <3>8 DEF TypeOK, WkTypeOK
    <2>5. QED
      BY <2>3, <2>4
  <1>7. QED
    BY <1>1, <1>2, <1>3, <1>4, <1>5, <1>6 DEF OwnerNext

-----------------------------------------------------------------------------
(***************************************************************************)
(* The guest's steps.                                                      *)
(***************************************************************************)

\* A join empties the slot and takes the slot's next number.
LEMMA JoinStep ==
  ASSUME TypeOK, Book, NEW s \in Slots, NEW first \in BOOLEAN, NEW w \in Workers,
         RouteJoin(s, first, w)
  PROVE  TypeOK' /\ Book'
  <1> DEFINE left == IF retiring[s] # NoWorker /\ wk[retiring[s]].run = "up"
                     THEN retiring[s] ELSE NoWorker
             prev == IF worker[s] # NoWorker THEN worker[s] ELSE left
             new  == [slot   |-> s,
                      stage  |-> IF prev = NoWorker THEN "claiming" ELSE "waiting",
                      prev   |-> prev,
                      gen    |-> launchGen[s] + 1,
                      policy |-> inv[s].perms,
                      port   |-> FALSE,
                      wired  |-> TRUE]
             W    == Held({s})
  <1>1. /\ join[w] = NoJoin
        /\ worker' = [worker EXCEPT ![s] = NoWorker]
        /\ AskAll(W)
        /\ inv' = inv \/ inv' = Streaming(inv, s, FALSE)
        /\ join' = [Unwired(W) EXCEPT ![w] = new]
        /\ retiring' = [retiring EXCEPT ![s] = NoWorker]
        /\ launchGen' = [launchGen EXCEPT ![s] = @ + 1]
        /\ holeTimer' = [holeTimer EXCEPT ![s] = FALSE] \/ holeTimer' = holeTimer
        /\ UNCHANGED <<opened, hole, answers, litBy>>
    BY DEF RouteJoin
  <1>2. /\ new \in Join
        /\ new # NoJoin
        /\ new.stage \in {"waiting", "claiming"} /\ new.wired
        /\ new.slot = s /\ new.gen = launchGen[s] + 1
    <2>1. prev \in Workers \cup {NoWorker}
      BY DEF TypeOK
    <2> HIDE DEF prev
    <2>2. launchGen[s] + 1 \in Nat /\ inv[s].perms \in Perms
      BY DEF TypeOK, InvTypeOK, Invitation
    <2>3. new \in Join
      BY <2>1, <2>2 DEF Join
    <2>4. new.stage \in {"waiting", "claiming"}
      OBVIOUS
    <2>5. new # NoJoin
      BY <2>4 DEF NoJoin
    <2>6. QED
      BY <2>3, <2>4, <2>5
  <1>3. W \in SUBSET Workers /\ \A v \in W : v = worker[s] /\ worker[s] # NoWorker
    BY HeldWorkers DEF Held
  <1>4. \A v \in W : join[v].stage = "spawned" /\ join[v].slot = s
    BY <1>3 DEF Book, InSlot
  <1>5. worker[s] # NoWorker => worker[s] \in W
    BY DEF Held
  <1>6. /\ WkTypeOK'
        /\ \A v \in Workers : /\ wk'[v].run = wk[v].run
                              /\ wk'[v].reply = wk[v].reply
                              /\ wk'[v].over = wk[v].over
    BY <1>1, <1>3, AskAllKeeps DEF TypeOK
  <1>7. join[w].stage = "none" /\ w \notin W
    BY <1>1, <1>4 DEF NoJoin
  <1> HIDE DEF W, new
  <1>8. /\ Unwired(W) \in [Workers -> Join \cup {NoJoin}]
        /\ \A v \in Workers \ W : Unwired(W)[v] = join[v]
        /\ \A v \in W : /\ Unwired(W)[v].stage = "spawned"
                        /\ Unwired(W)[v] # NoJoin
                        /\ Unwired(W)[v].slot = join[v].slot
                        /\ Unwired(W)[v].gen = join[v].gen
                        /\ Unwired(W)[v].port = join[v].port
                        /\ Unwired(W)[v].wired = FALSE
    BY <1>3, <1>4, UnwiredKeeps
  <1>9. \A v \in W : join[v] # NoJoin
    BY <1>4 DEF NoJoin
  <1>10. /\ join' \in [Workers -> Join \cup {NoJoin}]
         /\ join'[w] = new
         /\ \A v \in Workers \ {w} : join'[v] = Unwired(W)[v]
    BY <1>1, <1>2, <1>8
  <1>11. \A v \in Workers \ {w} :
            /\ join'[v].stage = join[v].stage /\ join'[v].slot = join[v].slot
            /\ join'[v].gen = join[v].gen /\ join'[v].port = join[v].port
            /\ join'[v] = NoJoin <=> join[v] = NoJoin
            /\ v \notin W => join'[v].wired = join[v].wired
            /\ v \in W => ~join'[v].wired
    BY <1>4, <1>8, <1>9, <1>10
  <1>12. /\ launchGen \in [Slots -> Nat] /\ launchGen' \in [Slots -> Nat]
         /\ launchGen'[s] = launchGen[s] + 1
         /\ \A t \in Slots \ {s} : launchGen'[t] = launchGen[t]
    BY <1>1 DEF TypeOK
  <1>13. /\ worker' \in [Slots -> Workers \cup {NoWorker}]
         /\ worker'[s] = NoWorker
         /\ \A t \in Slots \ {s} : worker'[t] = worker[t]
    BY <1>1 DEF TypeOK
  <1>14. TypeOK'
    <2>1. InvTypeOK'
      BY <1>1, StreamingType DEF TypeOK
    <2>2. QED
      BY <1>1, <1>6, <1>10, <1>12, <1>13, <2>1 DEF TypeOK
  <1>15. Started' /\ Counted'
    <2>1. \A v \in Workers : join'[v].stage = join[v].stage
                            \/ (v = w /\ join'[w].stage \in {"waiting", "claiming"})
      BY <1>2, <1>10, <1>11
    <2>2. Started'
      BY <1>6, <1>7, <2>1 DEF Book, Started
    <2>3. Counted'
      BY <1>1, <1>6, <1>7, <2>1 DEF Book, Counted
    <2>4. QED
      BY <2>2, <2>3
  <1>16. \A t \in Slots \ {s} : worker[t] # NoWorker => worker[t] \in Workers \ (W \cup {w})
    BY <1>4, <1>7 DEF Book, InSlot, TypeOK
  <1>17. InSlot'
    <2> SUFFICES ASSUME NEW t \in Slots, worker'[t] # NoWorker
                 PROVE  /\ join'[worker'[t]].stage = "spawned"
                        /\ join'[worker'[t]].slot = t
                        /\ join'[worker'[t]].wired
                        /\ join'[worker'[t]].gen = launchGen'[t]
                        /\ wk'[worker'[t]].run = "up"
                        /\ ~wk'[worker'[t]].over
      BY DEF InSlot
    <2>1. t # s /\ worker'[t] = worker[t] /\ worker[t] \in Workers \ (W \cup {w})
      BY <1>13, <1>16
    <2>2. QED
      BY <1>6, <1>11, <1>12, <2>1 DEF Book, InSlot
  <1>18. WiredInSlot'
    <2> SUFFICES ASSUME NEW v \in Workers
                 PROVE  /\ (wk'[v].run = "up" /\ ~wk'[v].over /\ join'[v].wired)
                              => worker'[join'[v].slot] = v
                        /\ join'[v].stage \in {"waiting", "claiming"} => join'[v].wired
      BY DEF WiredInSlot
    <2>1. CASE v = w
      BY <1>2, <1>6, <1>7, <1>10, <2>1 DEF Book, Started
    <2>2. CASE v \in W
      BY <1>4, <1>7, <1>11, <2>2
    <2>3. CASE v # w /\ v \notin W
      <3>1. (wk[v].run = "up" /\ ~wk[v].over /\ join[v].wired) => worker'[join[v].slot] = v
        <4> SUFFICES ASSUME wk[v].run = "up", ~wk[v].over, join[v].wired
                     PROVE  worker'[join[v].slot] = v
          OBVIOUS
        <4>1. worker[join[v].slot] = v
          BY DEF Book, WiredInSlot
        <4>2. join[v].slot \in Slots
          BY JoinCases DEF Book, Started, Join
        <4>3. join[v].slot # s
          BY <1>5, <2>3, <4>1, NoWorkerAssumption
        <4>4. QED
          BY <1>13, <4>1, <4>2, <4>3
      <3>2. QED
        BY <1>6, <1>11, <2>3, <3>1 DEF Book, WiredInSlot
    <2>4. QED
      BY <2>1, <2>2, <2>3
  <1>19. JoinsNumbered'
    <2>1. \A v \in Workers \ {w} : join[v] # NoJoin =>
             /\ join[v].slot \in Slots /\ join[v].gen \in Nat
             /\ join[v].gen <= launchGen[join[v].slot]
             /\ join[v].gen <= launchGen'[join[v].slot]
             /\ join[v].slot = s => join[v].gen # new.gen
      <3> SUFFICES ASSUME NEW v \in Workers \ {w}, join[v] # NoJoin
                   PROVE  /\ join[v].slot \in Slots /\ join[v].gen \in Nat
                          /\ join[v].gen <= launchGen[join[v].slot]
                          /\ join[v].gen <= launchGen'[join[v].slot]
                          /\ join[v].slot = s => join[v].gen # new.gen
        OBVIOUS
      <3>1. join[v].slot \in Slots /\ join[v].gen \in Nat
        BY JoinCases DEF Join
      <3>2. join[v].gen <= launchGen[join[v].slot]
        BY DEF Book, JoinsNumbered
      <3>3. QED
        BY <1>2, <1>12, <3>1, <3>2
    <2>2. launchGen'[new.slot] = new.gen /\ new.gen <= new.gen
      BY <1>2, <1>12 DEF Join
    <2>3. QED
      BY <1>2, <1>10, <1>11, <2>1, <2>2 DEF Book, JoinsNumbered
  <1>20. HoleKeptForStream'
    BY <1>1, <1>11, <1>13, <1>16 DEF Book, HoleKeptForStream
  <1>21. QED
    BY <1>14, <1>15, <1>17, <1>18, <1>19, <1>20 DEF Book

\* A guest's steps, the join above all, keep them.
LEMMA GuestStep ==
  ASSUME TypeOK, Book, GuestNext
  PROVE  TypeOK' /\ Book'
  <1>1. ASSUME NEW s \in Slots, RoutePin(s)
        PROVE  TypeOK' /\ Book'
    <2>1. Bind({}, s) /\ UNCHANGED <<wk, slotVars, answers, litBy>>
      BY <1>1 DEF RoutePin
    <2>2. InvTypeOK'
      BY <2>1, BindType DEF TypeOK
    <2>3. QED
      BY <2>1, <2>2, Untouched DEF slotVars, TypeOK, WkTypeOK
  <1>2. ASSUME NEW s \in Slots, RouteLeave(s)
        PROVE  TypeOK' /\ Book'
    <2>1. /\ inv' = Streaming(inv, s, FALSE) /\ detachWorkerSlots({s})
          /\ retiring' \in [Slots -> Workers \cup {NoWorker}]
          /\ UNCHANGED <<opened, launchGen, hole, holeTimer, answers, litBy>>
      BY <1>2 DEF RouteLeave, TypeOK
    <2>2. {s} \in SUBSET Slots /\ FALSE \in BOOLEAN
      OBVIOUS
    <2>3. InvTypeOK'
      BY <2>1, <2>2, StreamingType DEF TypeOK
    <2>4. QED
      BY <2>1, <2>2, <2>3, Detached DEF TypeOK
  <1>3. QED
    BY <1>1, <1>2, JoinStep DEF GuestNext

-----------------------------------------------------------------------------
(***************************************************************************)
(* The router's answers and the workers' reports.                          *)
(***************************************************************************)

\* A join that is waiting to be spawned is a join request, and stands in no slot.
LEMMA Claiming ==
  ASSUME TypeOK, Book, NEW w \in Workers, join[w].stage \in {"waiting", "claiming"}
  PROVE  /\ join[w] \in Join /\ join[w] # NoJoin
         /\ wk[w].run = "none" /\ wk[w].reply = "none" /\ ~wk[w].over
         /\ answers[w] = 0
         /\ \A s \in Slots : worker[s] # w
  <1>1. join[w] \in Join /\ join[w] # NoJoin
    BY JoinCases DEF NoJoin
  <1>2. wk[w].run = "none" /\ wk[w].reply = "none" /\ ~wk[w].over
    BY DEF Book, Started
  <1>3. \A s \in Slots : worker[s] # w
    <2> SUFFICES ASSUME NEW s \in Slots, worker[s] = w PROVE FALSE
      OBVIOUS
    <2>1. worker[s] # NoWorker
      BY NoWorkerAssumption
    <2>2. join[w].stage = "spawned"
      BY <2>1 DEF Book, InSlot
    <2>3. QED
      BY <2>2
  <1>4. answers[w] = 0
    BY <1>2 DEF Book, Counted
  <1>5. QED
    BY <1>1, <1>2, <1>3, <1>4

\* A join that is stood down is answered by that, and by nothing else.
LEMMA DropStep ==
  ASSUME TypeOK, Book, NEW w \in Workers, NEW mapped \in BOOLEAN,
         Claimed(w, mapped), Dropped(w)
  PROVE  TypeOK' /\ Book'
  <1>1. /\ join[w].stage = "claiming"
        /\ hole' = [hole EXCEPT ![join[w].slot] = @ \/ mapped]
        /\ join' = [join EXCEPT ![w].stage = "dropped"]
        /\ holeTimer' = [holeTimer EXCEPT ![join[w].slot] = TRUE]
        /\ answers' = [answers EXCEPT ![w] = @ + 1]
        /\ UNCHANGED <<inv, opened, wk, worker, retiring, launchGen, litBy>>
    BY DEF Claimed, Dropped
  <1>2. /\ join[w] \in Join /\ join[w] # NoJoin
        /\ wk[w].run = "none" /\ wk[w].reply = "none" /\ ~wk[w].over
        /\ answers[w] = 0
        /\ \A s \in Slots : worker[s] # w
    BY <1>1, Claiming
  <1>3. /\ join'[w] = [join[w] EXCEPT !.stage = "dropped"]
        /\ \A v \in Workers \ {w} : join'[v] = join[v]
    BY <1>1 DEF TypeOK
  <1>4. /\ join'[w] \in Join /\ join'[w] # NoJoin
        /\ join'[w].stage = "dropped" /\ join'[w].slot = join[w].slot
        /\ join'[w].gen = join[w].gen
    BY <1>2, <1>3 DEF Join, NoJoin
  <1>5. /\ answers' \in [Workers -> Nat] /\ answers'[w] = 1
        /\ \A v \in Workers \ {w} : answers'[v] = answers[v]
    BY <1>1, <1>2 DEF TypeOK
  <1>6. hole' \in [Slots -> BOOLEAN] /\ \A s \in Slots : hole[s] => hole'[s]
    BY <1>1 DEF TypeOK
  <1>7. TypeOK'
    <2>1. join' \in [Workers -> Join \cup {NoJoin}]
      BY <1>1, <1>4, <1>3 DEF TypeOK
    <2>2. QED
      BY <1>1, <1>5, <1>6, <2>1 DEF TypeOK, InvTypeOK, WkTypeOK
  <1>8. Started' /\ Counted'
    BY <1>1, <1>2, <1>3, <1>4, <1>5 DEF Book, Started, Counted
  <1>9. \A s \in Slots : worker[s] # NoWorker => worker[s] \in Workers \ {w}
    BY <1>2 DEF TypeOK
  <1>10. InSlot'
    BY <1>1, <1>3, <1>9 DEF Book, InSlot
  <1>11. WiredInSlot'
    BY <1>1, <1>2, <1>3, <1>4 DEF Book, WiredInSlot
  <1>12. JoinsNumbered'
    BY <1>1, <1>2, <1>3, <1>4 DEF Book, JoinsNumbered
  <1>13. HoleKeptForStream'
    BY <1>1, <1>3, <1>6, <1>9 DEF Book, HoleKeptForStream
  <1>14. QED
    BY <1>7, <1>8, <1>10, <1>11, <1>12, <1>13 DEF Book

\* The newest join of a slot finds it empty, since nobody else has its number.
LEMMA StartStep ==
  ASSUME TypeOK, Book, NEW w \in Workers, NEW mapped \in BOOLEAN, StartWorker(w, mapped)
  PROVE  TypeOK' /\ Book'
  <1> DEFINE s == join[w].slot
  <1>1. /\ join[w].stage = "claiming"
        /\ hole' = [hole EXCEPT ![s] = @ \/ mapped]
        /\ launchGen[s] = join[w].gen
        /\ wk' = [wk EXCEPT ![w].run = "up"]
        /\ worker' = [worker EXCEPT ![s] = w]
        /\ join' = [join EXCEPT ![w].stage = "spawned", ![w].port = mapped]
        /\ UNCHANGED <<inv, opened, retiring, launchGen, holeTimer, answers, litBy>>
    BY DEF StartWorker, Claimed, IsLatest, Spawn
  <1>2. /\ join[w] \in Join /\ join[w] # NoJoin
        /\ wk[w].run = "none" /\ wk[w].reply = "none" /\ ~wk[w].over
        /\ answers[w] = 0
        /\ \A t \in Slots : worker[t] # w
    BY <1>1, Claiming
  <1>3. s \in Slots /\ join[w].wired
    BY <1>1, <1>2 DEF Join, Book, WiredInSlot
  <1>4. worker[s] = NoWorker
    <2> SUFFICES ASSUME worker[s] # NoWorker PROVE FALSE
      OBVIOUS
    <2>1. /\ worker[s] \in Workers /\ join[worker[s]].stage = "spawned"
          /\ join[worker[s]].slot = s /\ join[worker[s]].gen = launchGen[s]
      BY <1>3 DEF TypeOK, Book, InSlot
    <2>2. worker[s] # w /\ join[worker[s]] # NoJoin
      BY <1>2, <1>3, <2>1 DEF NoJoin
    <2>3. QED
      BY <1>1, <1>2, <2>1, <2>2 DEF Book, JoinsNumbered
  <1>5. /\ join'[w] = [join[w] EXCEPT !.stage = "spawned", !.port = mapped]
        /\ \A v \in Workers \ {w} : join'[v] = join[v]
    BY <1>1 DEF TypeOK
  <1>6. /\ join'[w] \in Join /\ join'[w] # NoJoin
        /\ join'[w].stage = "spawned" /\ join'[w].slot = s
        /\ join'[w].gen = join[w].gen /\ join'[w].wired /\ join'[w].port = mapped
    BY <1>2, <1>3, <1>5 DEF Join, NoJoin
  <1>7. /\ wk' \in [Workers -> Worker]
        /\ wk'[w].run = "up" /\ wk'[w].reply = "none" /\ ~wk'[w].over
        /\ \A v \in Workers \ {w} : wk'[v] = wk[v]
    BY <1>1, <1>2 DEF TypeOK, WkTypeOK, Worker
  <1>8. /\ hole' \in [Slots -> BOOLEAN] /\ \A t \in Slots : hole[t] => hole'[t]
        /\ mapped => hole'[s]
    BY <1>1, <1>3 DEF TypeOK
  <1>9. /\ worker' \in [Slots -> Workers \cup {NoWorker}]
        /\ worker'[s] = w
        /\ \A t \in Slots \ {s} : worker'[t] = worker[t]
    BY <1>1, <1>3 DEF TypeOK
  <1>10. TypeOK'
    <2>1. join' \in [Workers -> Join \cup {NoJoin}]
      BY <1>1, <1>5, <1>6 DEF TypeOK
    <2>2. QED
      BY <1>1, <1>7, <1>8, <1>9, <2>1 DEF TypeOK, InvTypeOK, WkTypeOK
  <1> HIDE DEF s
  <1>11. Started' /\ Counted'
    <2>1. Started'
      <3> SUFFICES ASSUME NEW v \in Workers
                   PROVE  IF join'[v].stage = "spawned"
                          THEN wk'[v].run # "none"
                          ELSE wk'[v].run = "none" /\ wk'[v].reply = "none" /\ ~wk'[v].over
        BY DEF Started
      <3>1. CASE v = w
        BY <1>6, <1>7, <3>1
      <3>2. CASE v # w
        <4>1. join'[v] = join[v] /\ wk'[v] = wk[v]
          BY <1>5, <1>7, <3>2
        <4>2. QED
          BY <4>1 DEF Book, Started
      <3>3. QED
        BY <3>1, <3>2
    <2>2. answers' = answers
      BY <1>1
    <2>3. Counted'
      BY <1>2, <1>5, <1>6, <1>7, <2>2 DEF Book, Counted
    <2>4. QED
      BY <2>1, <2>3
  <1>12. \A t \in Slots \ {s} : worker[t] # NoWorker => worker[t] \in Workers \ {w}
    BY <1>2 DEF TypeOK
  <1>13. InSlot'
    <2> SUFFICES ASSUME NEW t \in Slots, worker'[t] # NoWorker
                 PROVE  /\ join'[worker'[t]].stage = "spawned"
                        /\ join'[worker'[t]].slot = t
                        /\ join'[worker'[t]].wired
                        /\ join'[worker'[t]].gen = launchGen'[t]
                        /\ wk'[worker'[t]].run = "up"
                        /\ ~wk'[worker'[t]].over
      BY DEF InSlot
    <2>1. CASE t = s
      BY <1>1, <1>6, <1>7, <1>9, <2>1 DEF s
    <2>2. CASE t # s
      <3>1. worker'[t] = worker[t] /\ worker[t] \in Workers \ {w}
        BY <1>9, <1>12, <2>2
      <3>2. join'[worker[t]] = join[worker[t]] /\ wk'[worker[t]] = wk[worker[t]]
        BY <1>5, <1>7, <3>1
      <3>3. launchGen' = launchGen
        BY <1>1
      <3>4. QED
        BY <3>1, <3>2, <3>3, NoWorkerAssumption DEF Book, InSlot
    <2>3. QED
      BY <2>1, <2>2
  <1>14. WiredInSlot'
    <2> SUFFICES ASSUME NEW v \in Workers
                 PROVE  /\ (wk'[v].run = "up" /\ ~wk'[v].over /\ join'[v].wired)
                              => worker'[join'[v].slot] = v
                        /\ join'[v].stage \in {"waiting", "claiming"} => join'[v].wired
      BY DEF WiredInSlot
    <2>1. CASE v = w
      BY <1>6, <1>9, <2>1
    <2>2. CASE v # w
      <3>1. join'[v] = join[v] /\ wk'[v] = wk[v]
        BY <1>5, <1>7, <2>2
      <3>2. wk[v].run = "up" => join[v].slot \in Slots
        BY JoinCases DEF Book, Started, Join
      <3>3. (wk[v].run = "up" /\ worker[join[v].slot] = v) => worker'[join[v].slot] = v
        BY <1>4, <1>9, <3>2, NoWorkerAssumption
      <3>4. QED
        BY <3>1, <3>3 DEF Book, WiredInSlot
    <2>3. QED
      BY <2>1, <2>2
  <1>15. JoinsNumbered'
    <2>1. launchGen' = launchGen
      BY <1>1
    <2>2. \A v \in Workers : /\ join'[v] = NoJoin <=> join[v] = NoJoin
                             /\ join'[v].slot = join[v].slot /\ join'[v].gen = join[v].gen
      BY <1>2, <1>5, <1>6 DEF s
    <2>3. QED
      BY <2>1, <2>2 DEF Book, JoinsNumbered
  <1>16. HoleKeptForStream'
    <2> SUFFICES ASSUME NEW t \in Slots, worker'[t] # NoWorker, join'[worker'[t]].port
                 PROVE  hole'[t]
      BY DEF HoleKeptForStream
    <2>1. CASE t = s
      BY <1>6, <1>8, <1>9, <2>1
    <2>2. CASE t # s
      BY <1>5, <1>8, <1>9, <1>12, <2>2 DEF Book, HoleKeptForStream
    <2>3. QED
      BY <2>1, <2>2
  <1>17. QED
    BY <1>10, <1>11, <1>13, <1>14, <1>15, <1>16 DEF Book

\* A worker that runs has a join request, of some slot.
LEMMA Running ==
  ASSUME TypeOK, Book, NEW w \in Workers, wk[w].run # "none"
  PROVE  /\ join[w].stage = "spawned" /\ join[w] \in Join /\ join[w] # NoJoin
         /\ join[w].slot \in Slots
  <1>1. join[w].stage = "spawned"
    BY DEF Book, Started
  <1>2. join[w] \in Join /\ join[w] # NoJoin
    BY <1>1, JoinCases
  <1>3. QED
    BY <1>1, <1>2 DEF Join

\* The end of a worker's stream takes it out of its slot, handled or not: one
\* whose end is no longer handled is in no slot.
LEMMA EndedEffect ==
  ASSUME TypeOK, Book, NEW w \in Workers, wk[w].run = "up",
         Ended(w) \/ (wk[w].over /\ UNCHANGED <<inv, worker>>), opened' = opened
  PROVE  /\ InvTypeOK'
         /\ worker' = [s \in Slots |-> IF worker[s] = w THEN NoWorker ELSE worker[s]]
  <1>1. join[w].slot \in Slots
    BY Running
  <1>2. CASE Ended(w) /\ join[w].wired
    <2>1. FALSE \in BOOLEAN /\ inv' = Streaming(inv, join[w].slot, FALSE)
      BY <1>2 DEF Ended
    <2>2. InvTypeOK'
      BY <1>1, <2>1, StreamingType DEF TypeOK
    <2>3. QED
      BY <1>2, <2>2 DEF Ended
  <1>3. CASE UNCHANGED <<inv, worker>> /\ (~join[w].wired \/ wk[w].over)
    <2>1. \A s \in Slots : worker[s] # w
      <3> SUFFICES ASSUME NEW s \in Slots, worker[s] = w PROVE FALSE
        OBVIOUS
      <3>1. worker[s] # NoWorker
        BY NoWorkerAssumption
      <3>2. QED
        BY <1>3, <3>1 DEF Book, InSlot
    <2>2. worker = [s \in Slots |-> IF worker[s] = w THEN NoWorker ELSE worker[s]]
      BY <2>1 DEF TypeOK
    <2>3. QED
      BY <1>3, <2>2 DEF TypeOK, InvTypeOK
  <1>4. QED
    BY <1>2, <1>3 DEF Ended

\* The answer to a join keeps them.
LEMMA ReplyStep ==
  ASSUME TypeOK, Book, NEW w \in Workers, NEW r \in {"ok", "error"}, WorkerReplies(w, r)
  PROVE  TypeOK' /\ Book'
  <1>1. /\ wk[w].run = "up" /\ wk[w].reply = "none"
        /\ wk' = [wk EXCEPT ![w].reply = r]
        /\ answers' = [answers EXCEPT ![w] = @ + 1]
        /\ inv' = Streaming(inv, join[w].slot, TRUE) \/ inv' = inv
        /\ litBy' = [litBy EXCEPT ![w] = inv[join[w].slot].id] \/ litBy' = litBy
        /\ UNCHANGED <<opened, worker, retiring, launchGen, join, hole, holeTimer>>
    BY DEF WorkerReplies, Reply, slotVars
  <1>2. join[w].stage = "spawned" /\ join[w].slot \in Slots
    BY <1>1, Running
  <1>3. answers[w] = 0
    BY <1>1, <1>2 DEF Book, Counted
  <1>4. /\ wk' \in [Workers -> Worker]
        /\ wk'[w].run = "up" /\ wk'[w].reply = r /\ wk'[w].over = wk[w].over
        /\ \A v \in Workers \ {w} : wk'[v] = wk[v]
    BY <1>1 DEF TypeOK, WkTypeOK, Worker
  <1>5. /\ answers' \in [Workers -> Nat] /\ answers'[w] = 1
        /\ \A v \in Workers \ {w} : answers'[v] = answers[v]
    BY <1>1, <1>3 DEF TypeOK
  <1>6. TypeOK'
    <2>1. InvTypeOK'
      BY <1>1, <1>2, StreamingType DEF TypeOK
    <2>2. litBy' \in [Workers -> 0..MaxOpened]
      <3>1. inv[join[w].slot].id \in 0..MaxOpened
        BY <1>2 DEF TypeOK, InvTypeOK, Invitation
      <3>2. QED
        BY <1>1, <3>1 DEF TypeOK
    <2>3. QED
      BY <1>1, <1>4, <1>5, <2>1, <2>2 DEF TypeOK, WkTypeOK
  <1>7. \A v \in Workers : wk'[v].run = wk[v].run /\ wk'[v].over = wk[v].over
    BY <1>1, <1>4
  <1>8. join' = join /\ worker' = worker /\ launchGen' = launchGen /\ hole' = hole
    BY <1>1
  <1>9. Started'
    <2> SUFFICES ASSUME NEW v \in Workers
                 PROVE  IF join[v].stage = "spawned"
                        THEN wk'[v].run # "none"
                        ELSE wk'[v].run = "none" /\ wk'[v].reply = "none" /\ ~wk'[v].over
      BY <1>8 DEF Started
    <2>1. CASE v = w
      BY <1>2, <1>4, <2>1
    <2>2. CASE v # w
      BY <1>4, <2>2 DEF Book, Started
    <2>3. QED
      BY <2>1, <2>2
  <1>10. Counted'
    BY <1>4, <1>5, <1>8 DEF Book, Counted
  <1>11. InSlot'
    <2>1. \A s \in Slots : worker[s] # NoWorker => worker[s] \in Workers
      BY DEF TypeOK
    <2>2. QED
      BY <1>7, <1>8, <2>1 DEF Book, InSlot
  <1>12. WiredInSlot'
    BY <1>7, <1>8 DEF Book, WiredInSlot
  <1>13. JoinsNumbered' /\ HoleKeptForStream'
    BY <1>8 DEF Book, JoinsNumbered, HoleKeptForStream
  <1>14. QED
    BY <1>6, <1>9, <1>10, <1>11, <1>12, <1>13 DEF Book

\* A worker that reports its end keeps them.
LEMMA EndStep ==
  ASSUME TypeOK, Book, NEW w \in Workers, WorkerEnds(w)
  PROVE  TypeOK' /\ Book'
  <1>1. /\ wk[w].run = "up" /\ ~wk[w].over
        /\ wk' = [wk EXCEPT ![w].over = TRUE]
        /\ UNCHANGED <<opened, retiring, launchGen, join, hole, holeTimer, answers, litBy>>
    BY DEF WorkerEnds, Over
  <1>2. /\ InvTypeOK'
        /\ worker' = [s \in Slots |-> IF worker[s] = w THEN NoWorker ELSE worker[s]]
    BY <1>1, EndedEffect DEF WorkerEnds
  <1>3. join[w].stage = "spawned" /\ join[w].slot \in Slots
    BY <1>1, Running
  <1>4. /\ wk' \in [Workers -> Worker]
        /\ wk'[w].run = "up" /\ wk'[w].reply = wk[w].reply /\ wk'[w].over
        /\ \A v \in Workers \ {w} : wk'[v] = wk[v]
    BY <1>1 DEF TypeOK, WkTypeOK, Worker
  <1>5. worker' \in [Slots -> Workers \cup {NoWorker}]
        /\ \A s \in Slots : worker'[s] # NoWorker
              => worker'[s] = worker[s] /\ worker[s] \in Workers \ {w}
    BY <1>2 DEF TypeOK
  <1>6. TypeOK'
    BY <1>1, <1>2, <1>4, <1>5 DEF TypeOK, WkTypeOK
  <1>7. join' = join /\ launchGen' = launchGen /\ hole' = hole /\ answers' = answers
    BY <1>1
  <1>8. Started' /\ Counted'
    BY <1>3, <1>4, <1>7 DEF Book, Started, Counted
  <1>9. InSlot'
    BY <1>4, <1>5, <1>7 DEF Book, InSlot
  <1>10. WiredInSlot'
    <2> SUFFICES ASSUME NEW v \in Workers
                 PROVE  /\ (wk'[v].run = "up" /\ ~wk'[v].over /\ join[v].wired)
                              => worker'[join[v].slot] = v
                        /\ join[v].stage \in {"waiting", "claiming"} => join[v].wired
      BY <1>7 DEF WiredInSlot
    <2>1. wk[v].run = "up" => join[v].slot \in Slots
      BY Running
    <2>2. QED
      BY <1>2, <1>4, <2>1 DEF Book, WiredInSlot
  <1>11. JoinsNumbered'
    BY <1>7 DEF Book, JoinsNumbered
  <1>12. HoleKeptForStream'
    BY <1>5, <1>7 DEF Book, HoleKeptForStream
  <1>13. QED
    BY <1>6, <1>8, <1>9, <1>10, <1>11, <1>12 DEF Book

\* The end of the process speaks for a worker that has not, and sends the joins
\* that waited for it to the router.
LEMMA ExitStep ==
  ASSUME TypeOK, Book, NEW w \in Workers, WorkerExits(w)
  PROVE  TypeOK' /\ Book'
  <1>1. /\ wk[w].run = "up"
        /\ wk' = [wk EXCEPT ![w].run = "gone",
                            ![w].reply = IF @ = "none" THEN "error" ELSE @,
                            ![w].over = TRUE]
        /\ answers' = IF wk[w].reply = "none" THEN [answers EXCEPT ![w] = @ + 1] ELSE answers
        /\ join' = [v \in Workers |-> IF v \in NextInLine(w) THEN [join[v] EXCEPT !.stage = "claiming"]
                                                             ELSE join[v]]
        /\ UNCHANGED <<opened, retiring, launchGen, hole, litBy>>
    BY DEF WorkerExits, Exit
  <1>2. /\ InvTypeOK'
        /\ worker' = [s \in Slots |-> IF worker[s] = w THEN NoWorker ELSE worker[s]]
    BY <1>1, EndedEffect DEF WorkerExits
  <1>3. join[w].stage = "spawned" /\ join[w].slot \in Slots
    BY <1>1, Running
  <1>4. /\ wk' \in [Workers -> Worker]
        /\ wk'[w].run = "gone" /\ wk'[w].reply # "none" /\ wk'[w].over
        /\ \A v \in Workers \ {w} : wk'[v] = wk[v]
    <2>1. wk[w] \in Worker
      BY DEF TypeOK, WkTypeOK
    <2>2. wk'[w] = [run |-> "gone", reply |-> IF wk[w].reply = "none" THEN "error" ELSE wk[w].reply,
                    over |-> TRUE, asked |-> wk[w].asked]
      BY <1>1, <2>1 DEF TypeOK, WkTypeOK, Worker
    <2>3. wk'[w] \in Worker /\ wk'[w].run = "gone" /\ wk'[w].reply # "none" /\ wk'[w].over
      BY <2>1, <2>2 DEF Worker
    <2>4. wk' = [v \in Workers |-> wk'[v]] /\ \A v \in Workers \ {w} : wk'[v] = wk[v]
      BY <1>1 DEF TypeOK, WkTypeOK
    <2>5. QED
      BY <2>3, <2>4 DEF TypeOK, WkTypeOK
  <1>5. /\ answers' \in [Workers -> Nat] /\ answers'[w] = 1
        /\ \A v \in Workers \ {w} : answers'[v] = answers[v]
    <2>1. answers[w] = IF wk[w].reply # "none" THEN 1 ELSE 0
      BY <1>3 DEF Book, Counted
    <2>2. QED
      BY <1>1, <2>1 DEF TypeOK
  <1>6. worker' \in [Slots -> Workers \cup {NoWorker}]
        /\ \A s \in Slots : worker'[s] # NoWorker
              => worker'[s] = worker[s] /\ worker[s] \in Workers \ {w}
    BY <1>2 DEF TypeOK
  <1>7. ASSUME NEW v \in Workers, v \in NextInLine(w)
        PROVE  /\ join[v].stage = "waiting" /\ join'[v].stage = "claiming"
               /\ join'[v] \in Join /\ join'[v] # NoJoin /\ join[v] # NoJoin
               /\ join'[v].slot = join[v].slot /\ join'[v].gen = join[v].gen
               /\ join'[v].wired = join[v].wired /\ join'[v].port = join[v].port
    <2>1. join[v].stage = "waiting" /\ join[v] # NoJoin
      BY <1>7 DEF NextInLine
    <2>2. join[v] \in Join
      BY <2>1, JoinCases
    <2>3. join'[v] = [join[v] EXCEPT !.stage = "claiming"]
      BY <1>1, <1>7
    <2>4. QED
      BY <2>1, <2>2, <2>3 DEF Join, NoJoin
  <1>8. \A v \in Workers \ NextInLine(w) : join'[v] = join[v]
    BY <1>1
  <1>9. \A v \in Workers :
           /\ \/ join'[v].stage = join[v].stage
              \/ join[v].stage = "waiting" /\ join'[v].stage = "claiming"
           /\ join'[v] = NoJoin <=> join[v] = NoJoin
           /\ join'[v].slot = join[v].slot /\ join'[v].gen = join[v].gen
           /\ join'[v].wired = join[v].wired /\ join'[v].port = join[v].port
    BY <1>7, <1>8
  <1>10. TypeOK'
    <2>1. join' \in [Workers -> Join \cup {NoJoin}]
      BY <1>1, <1>7, <1>8 DEF TypeOK
    <2>2. holeTimer' \in [Slots -> BOOLEAN]
      BY DEF WorkerExits, TypeOK
    <2>3. QED
      BY <1>1, <1>2, <1>4, <1>5, <1>6, <2>1, <2>2 DEF TypeOK, WkTypeOK
  <1>11. launchGen' = launchGen /\ hole' = hole
    BY <1>1
  <1>12. Started'
    <2> SUFFICES ASSUME NEW v \in Workers
                 PROVE  IF join'[v].stage = "spawned"
                        THEN wk'[v].run # "none"
                        ELSE wk'[v].run = "none" /\ wk'[v].reply = "none" /\ ~wk'[v].over
      BY DEF Started
    <2>1. CASE v = w
      BY <1>3, <1>4, <1>9, <2>1
    <2>2. CASE v # w
      BY <1>4, <1>9, <2>2 DEF Book, Started
    <2>3. QED
      BY <2>1, <2>2
  <1>13. Counted'
    <2> SUFFICES ASSUME NEW v \in Workers
                 PROVE  answers'[v] = IF join'[v].stage = "dropped" \/ wk'[v].reply # "none" THEN 1 ELSE 0
      BY DEF Counted
    <2>1. CASE v = w
      BY <1>4, <1>5, <2>1
    <2>2. CASE v # w
      BY <1>4, <1>5, <1>9, <2>2 DEF Book, Counted
    <2>3. QED
      BY <2>1, <2>2
  <1>14. InSlot'
    BY <1>4, <1>6, <1>9, <1>11 DEF Book, InSlot
  <1>15. WiredInSlot'
    <2> SUFFICES ASSUME NEW v \in Workers
                 PROVE  /\ (wk'[v].run = "up" /\ ~wk'[v].over /\ join'[v].wired)
                              => worker'[join'[v].slot] = v
                        /\ join'[v].stage \in {"waiting", "claiming"} => join'[v].wired
      BY DEF WiredInSlot
    <2>1. wk[v].run = "up" => join[v].slot \in Slots
      BY Running
    <2>2. QED
      BY <1>2, <1>4, <1>9, <2>1 DEF Book, WiredInSlot
  <1>16. JoinsNumbered'
    BY <1>9, <1>11 DEF Book, JoinsNumbered
  <1>17. HoleKeptForStream'
    BY <1>6, <1>9, <1>11 DEF Book, HoleKeptForStream
  <1>18. QED
    BY <1>10, <1>12, <1>13, <1>14, <1>15, <1>16, <1>17 DEF Book

\* Every step of a worker keeps them.
LEMMA WorkerStep ==
  ASSUME TypeOK, Book, NEW w \in Workers, WorkerNext(w)
  PROVE  TypeOK' /\ Book'
  <1>1. ASSUME NEW mapped \in BOOLEAN, Superseded(w, mapped) \/ SpawnFails(w, mapped)
        PROVE  TypeOK' /\ Book'
    BY <1>1, DropStep DEF Superseded, SpawnFails
  <1>2. QED
    BY <1>1, StartStep, ReplyStep, EndStep, ExitStep DEF WorkerNext, ClaimEnds

\* The grace timer spares a slot that is in use again.
LEMMA TimeoutStep ==
  ASSUME TypeOK, Book, NEW s \in Slots, HoleTimeout(s)
  PROVE  TypeOK' /\ Book'
  <1>1. /\ UNCHANGED <<inv, opened, wk, worker, retiring, launchGen, join, answers, litBy>>
        /\ holeTimer' \in [Slots -> BOOLEAN] /\ hole' \in [Slots -> BOOLEAN]
        /\ \A t \in Slots : (worker[t] # NoWorker /\ hole[t]) => hole'[t]
    BY DEF HoleTimeout, TypeOK
  <1>2. TypeOK'
    BY <1>1 DEF TypeOK, InvTypeOK, WkTypeOK
  <1>3. HoleKeptForStream'
    BY <1>1 DEF Book, HoleKeptForStream
  <1>4. Started' /\ Counted' /\ InSlot'
    BY <1>1 DEF Book, Started, Counted, InSlot
  <1>5. WiredInSlot' /\ JoinsNumbered'
    BY <1>1 DEF Book, WiredInSlot, JoinsNumbered
  <1>6. QED
    BY <1>2, <1>3, <1>4, <1>5 DEF Book

-----------------------------------------------------------------------------
(***************************************************************************)
(* The theorems.                                                           *)
(***************************************************************************)

\* The server starts with the invariant.
LEMMA InitInv == Init => IInv
  <1> SUFFICES ASSUME Init PROVE IInv
    OBVIOUS
  <1>1. InvTypeOK
    <2>1. 0 \in 0..MaxOpened
      BY InvitationsAssumption
    <2>2. inv \in [Slots -> [id : {0}, perms : Perms, bound : {FALSE}, streaming : {FALSE}]]
          /\ opened = 0
      BY DEF Init, InvInit
    <2>3. \A s \in Slots : inv[s] \in Invitation /\ ~inv[s].bound /\ ~inv[s].streaming
      BY <2>1, <2>2 DEF Invitation
    <2>4. inv \in [Slots -> Invitation]
      BY <2>2, <2>3
    <2>5. QED
      BY <2>1, <2>2, <2>3, <2>4 DEF InvTypeOK
  <1>2. WkTypeOK
    BY DEF Init, WkInit, WkTypeOK, Worker
  <1>3. 0 \in 0..MaxOpened
    BY InvitationsAssumption
  <1>4. TypeOK
    BY <1>1, <1>2, <1>3 DEF Init, TypeOK
  <1>5. /\ \A w \in Workers : /\ join[w] = NoJoin /\ join[w].stage = "none"
                              /\ wk[w].run = "none" /\ wk[w].reply = "none" /\ ~wk[w].over
                              /\ answers[w] = 0
        /\ \A s \in Slots : worker[s] = NoWorker
    BY DEF Init, WkInit, NoJoin
  <1>6. Book
    BY <1>5 DEF Book, Started, Counted, InSlot, WiredInSlot, JoinsNumbered, HoleKeptForStream
  <1>7. QED
    BY <1>4, <1>6 DEF IInv

\* Every step keeps the invariant.
LEMMA NextInv == IInv /\ [Next]_vars => IInv'
  <1> SUFFICES ASSUME TypeOK, Book, [Next]_vars PROVE TypeOK' /\ Book'
    BY DEF IInv
  <1>1. CASE UNCHANGED vars
    <2>1. TypeOK'
      BY <1>1 DEF vars, TypeOK, InvTypeOK, WkTypeOK
    <2>2. QED
      BY <1>1, <2>1, Untouched DEF vars
  <1>2. QED
    BY <1>1, OwnerStep, GuestStep, WorkerStep, TimeoutStep DEF Next

\* What relates the slots, the joins and the workers survives every step of the
\* owner, the guests, the router and the workers.
THEOREM Bookkeeping == Spec => []IInv
  BY InitInv, NextInv, PTL DEF Spec

\* Every variable keeps its type: an invitation that is dead is neither bound nor
\* streaming, and only join requests are ever waited for.
THEOREM TypeCorrect == Spec => []TypeOK
  <1>1. IInv => TypeOK
    BY DEF IInv
  <1>2. QED
    BY <1>1, Bookkeeping, PTL

\* A worker still heard is exactly the one in its slot, and the one in a slot is
\* the one its newest join asked for: however joins, detaches and deaths
\* interleave, no worker is left in a slot unheard, and none that was replaced
\* speaks for its successor.
THEOREM SlotsOwned == Spec => []SlotOwnsItsWorker
  <1>1. IInv => SlotOwnsItsWorker
    <2> SUFFICES ASSUME IInv PROVE SlotOwnsItsWorker
      OBVIOUS
    <2>1. TypeOK /\ Book
      BY DEF IInv
    <2>2. ASSUME NEW s \in Slots, worker[s] # NoWorker
          PROVE  wk[worker[s]].run = "up" /\ join[worker[s]].gen = launchGen[s]
      BY <2>1, <2>2 DEF Book, InSlot
    <2>3. ASSUME NEW w \in Workers, wk[w].run = "up", ~wk[w].over
          PROVE  join[w].wired <=> worker[join[w].slot] = w
      <3>1. join[w].wired \in BOOLEAN /\ join[w].slot \in Slots
        BY <2>1, <2>3, Running DEF Join
      <3>2. join[w].wired => worker[join[w].slot] = w
        BY <2>1, <2>3 DEF Book, WiredInSlot
      <3>3. worker[join[w].slot] = w => join[w].wired
        BY <2>1, <3>1, NoWorkerAssumption DEF Book, InSlot
      <3>4. QED
        BY <3>1, <3>2, <3>3
    <2>4. QED
      BY <2>2, <2>3 DEF SlotOwnsItsWorker
  <1>2. QED
    BY <1>1, Bookkeeping, PTL

\* A join request gets one answer at most, although the router, the spawn, the
\* worker and its death may each give it.
THEOREM OneAnswer == Spec => []AnsweredAtMostOnce
  <1>1. IInv => AnsweredAtMostOnce
    BY DEF IInv, Book, Counted, AnsweredAtMostOnce
  <1>2. QED
    BY <1>1, Bookkeeping, PTL

\* The router port a worker was told of stays open while it is in its slot: no
\* grace timer, of an earlier worker or of a join stood down, closes it.
THEOREM HoleKept == Spec => []HoleKeptForStream
  <1>1. IInv => HoleKeptForStream
    BY DEF IInv, Book
  <1>2. QED
    BY <1>1, Bookkeeping, PTL
=============================================================================
