------------------------- MODULE OwnerSlots_proofs -------------------------
(***************************************************************************)
(* What holds of the slot table for any number of slots, browsers, hosts,  *)
(* apps and launches.                                                      *)
(***************************************************************************)
EXTENDS OwnerSlots, LeastElements, FiniteSetTheorems, TLAPS

Launched(w) == launch[w] # NoLaunch

\* A worker runs, or ran, exactly when its launch came as far as the spawn.
Started ==
    \A w \in Workers :
        IF Launched(w) /\ launch[w].stage = "spawned"
        THEN wk[w].run # "none"
        ELSE wk[w].run = "none" /\ wk[w].reply = "none" /\ ~wk[w].over

\* A launch was answered once if it was dropped or its worker has spoken for
\* itself, and not at all before that.
Counted ==
    \A w \in Workers :
        answers[w] = IF (Launched(w) /\ launch[w].stage = "dropped") \/ wk[w].reply # "none" THEN 1 ELSE 0

\* w was launched for slot s, by the newest launch there; it is still heard, and
\* the slot says what it streams.
Occupies(w, s) ==
    /\ Launched(w)
    /\ launch[w].stage = "spawned"
    /\ launch[w].slot = s
    /\ launch[w].wired
    /\ launch[w].gen = launchGen[s]
    /\ wk[w].run = "up"
    /\ ~wk[w].over
    /\ ~LeftEarly(w)
    /\ slot[s].uid = launch[w].uid
    /\ slot[s].host = launch[w].host
    /\ slot[s].app = launch[w].app

InSlot == \A s \in Slots : live(s) => Occupies(slot[s].worker, s)

\* A slot without a worker is nobody's.
EmptySlots == \A s \in Slots : ~live(s) => slot[s].uid = NoUid /\ slot[s].host = NoHost

\* A worker still heard is in its slot, and a launch not yet spawned will be
\* heard.
WiredInSlot ==
    \A w \in Workers :
        /\ (wk[w].run = "up" /\ ~wk[w].over /\ ~LeftEarly(w) /\ launch[w].wired)
              => slot[launch[w].slot].worker = w
        /\ (Launched(w) /\ launch[w].stage \in {"waiting", "claiming"}) => launch[w].wired

\* The launches of a slot are numbered in their order, no number twice.
LaunchesNumbered ==
    \A v \in Workers :
        Launched(v) =>
            /\ launch[v].gen <= launchGen[launch[v].slot]
            /\ \A w \in Workers :
                  (w # v /\ Launched(w) /\ launch[w].slot = launch[v].slot)
                      => launch[w].gen # launch[v].gen

\* Invited players have slots and uniqueids of their own.
GuestsApart ==
    \A w \in Workers :
        Launched(w) => /\ launch[w].kind = "guest" <=> launch[w].slot \in GuestSlots
                       /\ launch[w].kind = "guest" => launch[w].uid \in Workers

Book ==
    /\ Started
    /\ Counted
    /\ InSlot
    /\ EmptySlots
    /\ WiredInSlot
    /\ LaunchesNumbered
    /\ GuestsApart

IInv == TypeOK /\ Book

-----------------------------------------------------------------------------
(***************************************************************************)
(* The slots.                                                              *)
(***************************************************************************)

\* The owner's pair, the invited players' slots and the free ones share none.
LEMMA SlotFacts ==
  /\ Slots \in SUBSET Int /\ IsFiniteSet(Slots)
  /\ 0 \in Slots /\ 1 \in Slots /\ kOwnerSlots \subseteq Slots
  /\ GuestSlots \subseteq Slots /\ FreeSlots \subseteq Slots
  /\ \A s \in GuestSlots : s \notin kOwnerSlots /\ s \notin FreeSlots
  /\ \A s \in FreeSlots : s \notin kOwnerSlots
  /\ \A h : AppsOf(h) \subseteq Apps
  /\ \A b \in Browsers : Uid(b, 0) \in Uids /\ Uid(b, 1) \in Uids
                        /\ Uid(b, 0) \notin Workers /\ Uid(b, 1) \notin Workers
  /\ \A b \in Browsers, s \in kOwnerSlots : Uid(b, s) \in Uids
  <1>1. Slots \in SUBSET Int /\ IsFiniteSet(Slots)
    <2>1. kMaxSlots - 1 \in Int
      BY SlotAssumption
    <2>2. QED
      BY <2>1, FS_Interval DEF Slots
  <1>2. /\ 0 \in Slots /\ 1 \in Slots /\ kOwnerSlots \subseteq Slots
        /\ GuestSlots \subseteq Slots /\ FreeSlots \subseteq Slots
        /\ \A s \in GuestSlots : s \notin kOwnerSlots /\ s \notin FreeSlots
        /\ \A s \in FreeSlots : s \notin kOwnerSlots
    BY SlotAssumption DEF Slots, kOwnerSlots, GuestSlots, FreeSlots
  <1>3. \A h : AppsOf(h) \subseteq Apps
    <2>1. Apps \in SUBSET Int /\ Apps # {} /\ IsFiniteSet(Apps)
      BY SlotAssumption
    <2>2. Min(Apps) \in Apps
      BY <2>1, MinOf
    <2>3. QED
      BY <2>2 DEF AppsOf
  <1>4. \A b \in Browsers : Uid(b, 0) = <<b, 0>> /\ Uid(b, 1) = <<b, 1>>
    BY DEF Uid
  <1>5. \A b \in Browsers : <<b, 0>> \in Browsers \X {0, 1} /\ <<b, 1>> \in Browsers \X {0, 1}
    OBVIOUS
  <1>6. \A b \in Browsers : Uid(b, 0) \in Uids /\ Uid(b, 1) \in Uids
                          /\ Uid(b, 0) \notin Workers /\ Uid(b, 1) \notin Workers
    BY <1>4, <1>5, NullAssumption DEF Uids
  <1>7. QED
    BY <1>1, <1>2, <1>3, <1>6 DEF kOwnerSlots

\* The slots a fresh launch may get are slots, it takes over the one it gets, and
\* none of an invited player.
LEMMA LaunchSlotFacts ==
  ASSUME TypeOK, Book, NEW b \in Browsers, NEW h \in Hosts, NEW a \in Apps,
         NEW s \in LaunchSlot(Uid(b, 0), h, a)
  PROVE  /\ s \in Slots /\ s \notin GuestSlots
         /\ TakenOver(s, Uid(b, 0), h, a) \in SUBSET Slots
         /\ s \in TakenOver(s, Uid(b, 0), h, a)
         /\ \A i \in TakenOver(s, Uid(b, 0), h, a) :
               i \notin GuestSlots /\ (live(i) => slot[i].host = h)
  <1> DEFINE u == Uid(b, 0)
             mine == {t \in indexOfClientUniqueId(u) :
                         slot[t].host = h /\ ~slotStreamsAnotherApp(t, h, a)}
  <1>1. u \in Uids /\ u \notin Workers
    BY SlotFacts
  <1> HIDE DEF u
  <1>2. \A t \in Slots : live(t) => slot[t].host \in Hosts /\ slot[t].host # NoHost
    <2> SUFFICES ASSUME NEW t \in Slots, live(t)
                 PROVE  slot[t].host \in Hosts
      BY NullAssumption
    <2>1. /\ slot[t].worker \in Workers /\ launch[slot[t].worker] \in Launch
          /\ slot[t].host = launch[slot[t].worker].host
      BY DEF TypeOK, SlotRec, live, Book, InSlot, Occupies, Launched
    <2>2. QED
      BY <2>1 DEF Launch
  <1>3. indexOfClientUniqueId(u) \in SUBSET {t \in Slots : slot[t].uid = u}
    <2> DEFINE U == {t \in Slots : slot[t].uid = u}
    <2>1. U \in SUBSET Int /\ IsFiniteSet(U)
      BY SlotFacts, FS_Subset
    <2>2. CASE U = {}
      BY <2>2 DEF indexOfClientUniqueId
    <2>3. CASE U # {}
      <3>1. Min(U) \in U
        BY <2>1, <2>3, MinOf
      <3>2. indexOfClientUniqueId(u) = {Min(U)}
        BY <2>3 DEF indexOfClientUniqueId
      <3>3. QED
        BY <3>1, <3>2
    <2>4. QED
      BY <2>2, <2>3
  <1>4. acquire \in SUBSET {t \in FreeSlots : ~inUse(t)}
    <2> DEFINE F == {t \in FreeSlots : ~inUse(t)}
    <2>1. F \in SUBSET Int /\ IsFiniteSet(F)
      BY SlotFacts, FS_Subset
    <2>2. CASE F = {}
      BY <2>2 DEF acquire
    <2>3. CASE F # {}
      <3>1. Min(F) \in F
        BY <2>1, <2>3, MinOf
      <3>2. acquire = {Min(F)}
        BY <2>3 DEF acquire
      <3>3. QED
        BY <3>1, <3>2
    <2>4. QED
      BY <2>2, <2>3
  <1>5. \/ s = 0 /\ ~NotOurs(0, u, h, a)
        \/ s \in mine
        \/ s \in acquire
    BY DEF LaunchSlot, u
  <1>6. ASSUME s \in mine
        PROVE  s \in Slots /\ s \notin GuestSlots /\ live(s) /\ slot[s].host = h /\ ~NotOurs(s, u, h, a)
    <2>1. s \in Slots /\ slot[s].uid = u /\ slot[s].host = h /\ ~slotStreamsAnotherApp(s, h, a)
      BY <1>3, <1>6
    <2>2. live(s)
      BY <1>1, <2>1, NullAssumption DEF Book, EmptySlots
    <2>3. s \notin GuestSlots
      <3>1. /\ slot[s].worker \in Workers /\ Launched(slot[s].worker)
            /\ launch[slot[s].worker].slot = s /\ launch[slot[s].worker].uid = u
        BY <2>1, <2>2 DEF TypeOK, SlotRec, live, Book, InSlot, Occupies
      <3>2. QED
        BY <1>1, <3>1 DEF Book, GuestsApart
    <2>4. ~NotOurs(s, u, h, a)
      BY <2>1 DEF NotOurs, slotHeldByAnotherDevice
    <2>5. QED
      BY <2>1, <2>2, <2>3, <2>4
  <1>7. s \in Slots /\ s \notin GuestSlots
    BY <1>4, <1>5, <1>6, SlotFacts DEF kOwnerSlots
  <1>8. s \in TakenOver(s, u, h, a) /\ TakenOver(s, u, h, a) \in SUBSET Slots
    <2>1. s \in kOwnerSlots => ~NotOurs(s, u, h, a)
      BY <1>4, <1>5, <1>6, SlotFacts
    <2>2. QED
      BY <1>7, <2>1, SlotFacts DEF TakenOver
  <1>9. ASSUME NEW i \in TakenOver(s, u, h, a)
        PROVE  i \notin GuestSlots /\ (live(i) => slot[i].host = h)
    <2>1. CASE i \in kOwnerSlots /\ ~NotOurs(i, u, h, a)
      BY <1>2, <2>1, SlotFacts DEF NotOurs
    <2>2. CASE i = s /\ s \notin kOwnerSlots
      <3>1. s \in mine \/ s \in acquire
        BY <1>5, <2>2 DEF kOwnerSlots
      <3>2. s \in acquire => ~live(s)
        BY <1>4 DEF inUse
      <3>3. QED
        BY <1>6, <1>7, <2>2, <3>1, <3>2
    <2>3. QED
      BY <2>1, <2>2 DEF TakenOver
  <1>10. QED
    BY <1>7, <1>8, <1>9 DEF u

-----------------------------------------------------------------------------
(***************************************************************************)
(* Taking workers out of their slots.                                      *)
(***************************************************************************)

\* Asking workers to stop changes nothing else of them.
LEMMA AskAllKeeps ==
  ASSUME WkTypeOK, NEW W \in SUBSET Workers, AskAll(W)
  PROVE  /\ WkTypeOK'
         /\ \A w \in Workers : /\ wk'[w].run = wk[w].run
                               /\ wk'[w].reply = wk[w].reply
                               /\ wk'[w].over = wk[w].over
  BY DEF WkTypeOK, Worker, AskAll

\* The workers of the slots S are those whose launch is in one of them.
LEMMA HeldFacts ==
  ASSUME TypeOK, Book, NEW S \in SUBSET Slots
  PROVE  /\ Held(S) \in SUBSET Workers
         /\ \A w \in Held(S) : /\ Launched(w) /\ launch[w] \in Launch
                               /\ launch[w].stage = "spawned" /\ launch[w].slot \in S
                               /\ slot[launch[w].slot].worker = w
         /\ \A s \in S : live(s) => slot[s].worker \in Held(S)
         /\ \A s \in Slots \ S : live(s) => slot[s].worker \in Workers \ Held(S)
  <1>1. \A w \in Held(S) : \E s \in S : live(s) /\ w = slot[s].worker
    BY DEF Held, live
  <1>2. \A s \in Slots : live(s) =>
           /\ slot[s].worker \in Workers /\ Launched(slot[s].worker)
           /\ launch[slot[s].worker] \in Launch
           /\ launch[slot[s].worker].stage = "spawned" /\ launch[slot[s].worker].slot = s
    BY DEF TypeOK, SlotRec, live, Book, InSlot, Occupies, Launched
  <1>3. \A s \in S : live(s) => slot[s].worker \in Held(S)
    BY DEF Held, live
  <1>4. QED
    BY <1>1, <1>2, <1>3

\* A launch whose ended() is no longer handled is otherwise what it was.
LEMMA UnwiredKeeps ==
  ASSUME TypeOK, NEW W \in SUBSET Workers, \A w \in W : launch[w] \in Launch
  PROVE  /\ Unwired(W) \in [Workers -> Launch \cup {NoLaunch}]
         /\ \A w \in Workers \ W : Unwired(W)[w] = launch[w]
         /\ \A w \in W : /\ Unwired(W)[w] \in Launch /\ Unwired(W)[w] # NoLaunch
                         /\ Unwired(W)[w].stage = launch[w].stage
                         /\ Unwired(W)[w].slot = launch[w].slot
                         /\ Unwired(W)[w].gen = launch[w].gen
                         /\ Unwired(W)[w].kind = launch[w].kind
                         /\ Unwired(W)[w].uid = launch[w].uid
                         /\ Unwired(W)[w].host = launch[w].host
                         /\ Unwired(W)[w].app = launch[w].app
                         /\ Unwired(W)[w].wired = FALSE
  <1>1. \A w \in W : [launch[w] EXCEPT !.wired = FALSE] \in Launch
    BY DEF Launch
  <1>2. Unwired(W) \in [Workers -> Launch \cup {NoLaunch}]
    BY <1>1 DEF Unwired, TypeOK
  <1>3. \A w \in Workers \ W : Unwired(W)[w] = launch[w]
    BY DEF Unwired
  <1>4. \A w \in W : Unwired(W)[w] = [launch[w] EXCEPT !.wired = FALSE]
    BY DEF Unwired
  <1>5. ASSUME NEW w \in W
        PROVE  /\ Unwired(W)[w] \in Launch /\ Unwired(W)[w] # NoLaunch
               /\ Unwired(W)[w].stage = launch[w].stage
               /\ Unwired(W)[w].slot = launch[w].slot
               /\ Unwired(W)[w].gen = launch[w].gen
               /\ Unwired(W)[w].kind = launch[w].kind
               /\ Unwired(W)[w].uid = launch[w].uid
               /\ Unwired(W)[w].host = launch[w].host
               /\ Unwired(W)[w].app = launch[w].app
               /\ Unwired(W)[w].wired = FALSE
    <2>1. Unwired(W)[w] \in Launch /\ Unwired(W)[w] # NoLaunch
      BY <1>1, <1>4, NullAssumption
    <2>2. QED
      BY <1>4, <2>1 DEF Launch
  <1>6. QED
    BY <1>2, <1>3, <1>5

\* What a detach leaves of the slots S, of their workers' launches and of the
\* workers; f is the launch table it leaves.
LEMMA DetachEffect ==
  ASSUME TypeOK, Book, NEW S \in SUBSET Slots, slot' = Emptied(S), AskAll(Held(S)),
         NEW f, f = Unwired(Held(S))
  PROVE  /\ WkTypeOK' /\ slot' \in [Slots -> SlotRec]
         /\ f \in [Workers -> Launch \cup {NoLaunch}]
         /\ \A w \in Workers : /\ wk'[w].run = wk[w].run
                               /\ wk'[w].reply = wk[w].reply
                               /\ wk'[w].over = wk[w].over
                               /\ f[w] = NoLaunch <=> launch[w] = NoLaunch
                               /\ w \notin Held(S) => f[w] = launch[w]
                               /\ Launched(w) =>
                                    /\ f[w].stage = launch[w].stage
                                    /\ f[w].slot = launch[w].slot
                                    /\ f[w].gen = launch[w].gen
                                    /\ f[w].kind = launch[w].kind
                                    /\ f[w].uid = launch[w].uid
                                    /\ f[w].host = launch[w].host
                                    /\ f[w].app = launch[w].app
                                    /\ w \in Held(S) => ~f[w].wired
         /\ \A s \in S : slot'[s] = Empty /\ ~live(s)'
         /\ \A s \in Slots \ S : slot'[s] = slot[s]
                              /\ (live(s) => slot[s].worker \in Workers \ Held(S))
  <1> DEFINE W == Held(S)
  <1>1. /\ W \in SUBSET Workers
        /\ \A w \in W : Launched(w) /\ launch[w] \in Launch
        /\ \A s \in Slots \ S : live(s) => slot[s].worker \in Workers \ W
    BY HeldFacts
  <1> HIDE DEF W
  <1>2. WkTypeOK' /\ \A w \in Workers : /\ wk'[w].run = wk[w].run
                                        /\ wk'[w].reply = wk[w].reply
                                        /\ wk'[w].over = wk[w].over
    BY <1>1, AskAllKeeps DEF TypeOK, W
  <1>3. Empty \in SlotRec /\ Empty.worker = NoWorker
    BY DEF Empty, SlotRec
  <1>4. /\ slot' \in [Slots -> SlotRec]
        /\ \A s \in S : slot'[s] = Empty
        /\ \A s \in Slots \ S : slot'[s] = slot[s]
    BY <1>3 DEF Emptied, TypeOK
  <1>5. \A s \in S : ~live(s)'
    BY <1>3, <1>4 DEF live
  <1>6. f = Unwired(W)
    BY DEF W
  <1>7. f \in [Workers -> Launch \cup {NoLaunch}]
    BY <1>1, <1>6, UnwiredKeeps
  <1>8. ASSUME NEW w \in Workers
        PROVE  /\ f[w] = NoLaunch <=> launch[w] = NoLaunch
               /\ w \notin W => f[w] = launch[w]
               /\ Launched(w) => /\ f[w].stage = launch[w].stage
                                 /\ f[w].slot = launch[w].slot
                                 /\ f[w].gen = launch[w].gen
                                 /\ f[w].kind = launch[w].kind
                                 /\ f[w].uid = launch[w].uid
                                 /\ f[w].host = launch[w].host
                                 /\ f[w].app = launch[w].app
                                 /\ w \in W => ~f[w].wired
    <2>0. /\ \A v \in Workers \ W : f[v] = launch[v]
          /\ \A v \in W : /\ f[v] # NoLaunch
                          /\ f[v].stage = launch[v].stage
                          /\ f[v].slot = launch[v].slot
                          /\ f[v].gen = launch[v].gen
                          /\ f[v].kind = launch[v].kind
                          /\ f[v].uid = launch[v].uid
                          /\ f[v].host = launch[v].host
                          /\ f[v].app = launch[v].app
                          /\ f[v].wired = FALSE
      <3> DEFINE g == Unwired(W)
      <3>1. /\ \A v \in Workers \ W : g[v] = launch[v]
            /\ \A v \in W : /\ g[v] # NoLaunch
                            /\ g[v].stage = launch[v].stage
                            /\ g[v].slot = launch[v].slot
                            /\ g[v].gen = launch[v].gen
                            /\ g[v].kind = launch[v].kind
                            /\ g[v].uid = launch[v].uid
                            /\ g[v].host = launch[v].host
                            /\ g[v].app = launch[v].app
                            /\ g[v].wired = FALSE
        BY <1>1, UnwiredKeeps
      <3>2. f = g
        BY <1>6
      <3> HIDE DEF g
      <3>3. QED
        BY <3>1, <3>2
    <2>1. CASE w \in W
      BY <1>1, <2>0, <2>1 DEF Launched
    <2>2. CASE w \notin W
      <3>1. f[w] = launch[w]
        BY <2>0, <2>2
      <3>2. QED
        BY <2>2, <3>1
    <2>3. QED
      BY <2>1, <2>2
  <1>9. QED
    BY <1>1, <1>2, <1>4, <1>5, <1>7, <1>8 DEF W

\* The slots detached are empty, their workers no longer heard.
LEMMA Detached ==
  ASSUME TypeOK, Book, NEW S \in SUBSET Slots, detachWorkerSlots(S),
         UNCHANGED <<launchGen, answers>>
  PROVE  /\ Book'
         /\ WkTypeOK' /\ slot' \in [Slots -> SlotRec]
         /\ launch' \in [Workers -> Launch \cup {NoLaunch}]
         /\ release' \in BOOLEAN
  <1> DEFINE W == Held(S)
  <1>1. /\ WkTypeOK' /\ slot' \in [Slots -> SlotRec]
        /\ launch' \in [Workers -> Launch \cup {NoLaunch}]
    BY DetachEffect DEF detachWorkerSlots
  <1>2. \A w \in Workers : /\ wk'[w].run = wk[w].run
                           /\ wk'[w].reply = wk[w].reply
                           /\ wk'[w].over = wk[w].over
                           /\ launch'[w] = NoLaunch <=> launch[w] = NoLaunch
                           /\ w \notin W => launch'[w] = launch[w]
                           /\ Launched(w) =>
                                /\ launch'[w].stage = launch[w].stage
                                /\ launch'[w].slot = launch[w].slot
                                /\ launch'[w].gen = launch[w].gen
                                /\ launch'[w].kind = launch[w].kind
                                /\ launch'[w].uid = launch[w].uid
                                /\ launch'[w].host = launch[w].host
                                /\ launch'[w].app = launch[w].app
                                /\ w \in W => ~launch'[w].wired
    BY DetachEffect DEF detachWorkerSlots
  <1>3. /\ \A s \in S : slot'[s] = Empty /\ ~live(s)'
        /\ \A s \in Slots \ S : slot'[s] = slot[s]
                             /\ (live(s) => slot[s].worker \in Workers \ W)
    BY DetachEffect DEF detachWorkerSlots
  <1>4. \A s \in S : live(s) => slot[s].worker \in W
    BY HeldFacts
  <1> HIDE DEF W
  <1>5. launchGen' = launchGen /\ answers' = answers
    OBVIOUS
  <1>6. \A w \in Workers : LeftEarly(w)' <=> LeftEarly(w)
    BY <1>2 DEF LeftEarly, Launched
  <1>7. Started' /\ Counted'
    BY <1>2, <1>5 DEF Book, Started, Counted, Launched
  <1>8. InSlot'
    <2> SUFFICES ASSUME NEW s \in Slots, live(s)'
                 PROVE  Occupies(slot[s].worker, s)'
      BY DEF InSlot
    <2>1. slot'[s] = slot[s] /\ live(s) /\ slot[s].worker \in Workers \ W
      BY <1>3 DEF live
    <2>2. launch'[slot[s].worker] = launch[slot[s].worker]
      BY <1>2, <2>1
    <2>3. Occupies(slot[s].worker, s)
      BY <2>1 DEF Book, InSlot
    <2>4. QED
      BY <1>2, <1>5, <1>6, <2>1, <2>2, <2>3 DEF Occupies, Launched
  <1>9. EmptySlots'
    BY <1>3 DEF Book, EmptySlots, live, Empty
  <1>10. WiredInSlot'
    <2> SUFFICES ASSUME NEW w \in Workers
                 PROVE  /\ (wk'[w].run = "up" /\ ~wk'[w].over /\ ~LeftEarly(w)' /\ launch'[w].wired)
                              => slot'[launch'[w].slot].worker = w
                        /\ (Launched(w)' /\ launch'[w].stage \in {"waiting", "claiming"})
                              => launch'[w].wired
      BY DEF WiredInSlot
    <2>1. wk'[w].run = "up" => Launched(w)
      BY <1>2 DEF Book, Started
    <2>2. ASSUME wk'[w].run = "up", ~wk'[w].over, ~LeftEarly(w)', launch'[w].wired
          PROVE  slot'[launch'[w].slot].worker = w
      <3>1. launch[w].wired /\ w \notin W /\ launch'[w] = launch[w]
        BY <1>2, <2>1, <2>2
      <3>2. slot[launch[w].slot].worker = w
        BY <1>2, <1>6, <2>2, <3>1 DEF Book, WiredInSlot
      <3>3. launch[w].slot \in Slots
        BY <2>1, <2>2 DEF Launched, TypeOK, Launch
      <3>4. launch[w].slot \notin S
        BY <1>4, <3>1, <3>2, NullAssumption DEF live
      <3>5. QED
        BY <1>3, <3>1, <3>2, <3>3, <3>4
    <2>3. ASSUME Launched(w)', launch'[w].stage \in {"waiting", "claiming"}
          PROVE  launch'[w].wired
      <3>1. w \notin W
        BY <1>2, <2>3, HeldFacts DEF W, Launched
      <3>2. QED
        BY <1>2, <2>3, <3>1 DEF Book, WiredInSlot, Launched
    <2>4. QED
      BY <2>2, <2>3
  <1>11. LaunchesNumbered'
    BY <1>2, <1>5 DEF Book, LaunchesNumbered, Launched
  <1>12. GuestsApart'
    BY <1>2 DEF Book, GuestsApart, Launched
  <1>13. release' \in BOOLEAN
    BY DEF detachWorkerSlots, TypeOK, ReleasedBy
  <1>14. QED
    BY <1>1, <1>7, <1>8, <1>9, <1>10, <1>11, <1>12, <1>13 DEF Book

-----------------------------------------------------------------------------
(***************************************************************************)
(* The launches.                                                           *)
(***************************************************************************)

\* A launch empties the slots it takes over and gets its slot's next number.
LEMMA EnterStep ==
  ASSUME TypeOK, Book, NEW w \in Workers, NEW gone \in SUBSET Slots, NEW s \in gone, NEW new,
         new.host \in Hosts, new.uid \in Uids, new.app \in Apps,
         new.kind \in {"fresh", "standby", "guest"},
         new.kind = "guest" <=> s \in GuestSlots,
         new.kind = "guest" => new.uid \in Workers,
         Enter(w, s, gone, new), UNCHANGED answers
  PROVE  /\ Book'
         /\ WkTypeOK' /\ slot' \in [Slots -> SlotRec]
         /\ launch' \in [Workers -> Launch \cup {NoLaunch}]
         /\ launchGen' \in [Slots -> Nat]
         /\ release' \in BOOLEAN
  <1> DEFINE W == Held(gone)
             f == Unwired(W)
             l == [slot |-> s, host |-> new.host, uid |-> new.uid, app |-> new.app,
                   kind |-> new.kind,
                   stage |-> IF live(s) THEN "waiting" ELSE "claiming",
                   prev |-> slot[s].worker,
                   gen |-> launchGen[s] + 1, wired |-> TRUE]
  <1>1. /\ launch[w] = NoLaunch
        /\ slot' = Emptied(gone)
        /\ AskAll(W)
        /\ launch' = [f EXCEPT ![w] = l]
        /\ launchGen' = [launchGen EXCEPT ![s] = @ + 1]
        /\ answers' = answers
    BY DEF Enter
  <1>2. release' \in BOOLEAN
    BY DEF Enter
  <1>3. /\ l \in Launch /\ l # NoLaunch
        /\ l.slot = s /\ l.gen = launchGen[s] + 1 /\ l.stage \in {"waiting", "claiming"}
        /\ l.kind = new.kind /\ l.uid = new.uid /\ l.wired
    <2>1. launchGen[s] + 1 \in Nat /\ slot[s].worker \in Workers \cup {NoWorker} /\ s \in Slots
      BY DEF TypeOK, SlotRec
    <2>2. l \in Launch
      BY <2>1 DEF Launch
    <2>3. QED
      BY <2>2, NullAssumption
  <1>4. /\ WkTypeOK' /\ slot' \in [Slots -> SlotRec]
        /\ f \in [Workers -> Launch \cup {NoLaunch}]
    BY <1>1, DetachEffect
  <1>5. \A v \in Workers : /\ wk'[v].run = wk[v].run
                           /\ wk'[v].reply = wk[v].reply
                           /\ wk'[v].over = wk[v].over
                           /\ f[v] = NoLaunch <=> launch[v] = NoLaunch
                           /\ v \notin W => f[v] = launch[v]
                           /\ Launched(v) =>
                                /\ f[v].stage = launch[v].stage
                                /\ f[v].slot = launch[v].slot
                                /\ f[v].gen = launch[v].gen
                                /\ f[v].kind = launch[v].kind
                                /\ f[v].uid = launch[v].uid
                                /\ f[v].host = launch[v].host
                                /\ f[v].app = launch[v].app
                                /\ v \in W => ~f[v].wired
    BY <1>1, DetachEffect
  <1>6. /\ \A t \in gone : slot'[t] = Empty /\ ~live(t)'
        /\ \A t \in Slots \ gone : slot'[t] = slot[t]
                                   /\ (live(t) => slot[t].worker \in Workers \ W)
    BY <1>1, DetachEffect
  <1>7. /\ \A v \in W : Launched(v) /\ launch[v].stage = "spawned"
        /\ \A t \in gone : live(t) => slot[t].worker \in W
    BY HeldFacts
  <1>8. w \notin W /\ ~Launched(w)
    BY <1>1, <1>7 DEF Launched
  <1> HIDE DEF W, f, l
  <1>9. /\ launch' \in [Workers -> Launch \cup {NoLaunch}]
        /\ launch'[w] = l
        /\ \A v \in Workers \ {w} : launch'[v] = f[v]
    BY <1>1, <1>3, <1>4
  <1>10. /\ launchGen \in [Slots -> Nat] /\ launchGen' \in [Slots -> Nat]
         /\ launchGen'[s] = launchGen[s] + 1
         /\ \A t \in Slots \ {s} : launchGen'[t] = launchGen[t]
    BY <1>1 DEF TypeOK
  <1>11. \A v \in Workers \ {w} :
            /\ Launched(v)' <=> Launched(v)
            /\ v \notin W => launch'[v] = launch[v]
            /\ Launched(v) =>
                 /\ launch'[v].stage = launch[v].stage
                 /\ launch'[v].slot = launch[v].slot
                 /\ launch'[v].gen = launch[v].gen
                 /\ launch'[v].kind = launch[v].kind
                 /\ launch'[v].uid = launch[v].uid
                 /\ v \in W => ~launch'[v].wired
    BY <1>5, <1>9 DEF Launched
  <1>12. \A v \in Workers \ {w} : LeftEarly(v)' <=> LeftEarly(v)
    BY <1>5, <1>11 DEF LeftEarly, Launched
  <1>13. Launched(w)' /\ wk[w].run = "none" /\ wk[w].reply = "none" /\ ~wk[w].over /\ answers[w] = 0
    BY <1>3, <1>8, <1>9 DEF Launched, Book, Started, Counted
  <1>14. Started' /\ Counted'
    <2>1. Started'
      BY <1>3, <1>5, <1>9, <1>11, <1>13 DEF Book, Started
    <2>2. Counted'
      BY <1>1, <1>3, <1>5, <1>9, <1>11, <1>13 DEF Book, Counted
    <2>3. QED
      BY <2>1, <2>2
  <1>15. InSlot'
    <2> SUFFICES ASSUME NEW t \in Slots, live(t)'
                 PROVE  Occupies(slot[t].worker, t)'
      BY DEF InSlot
    <2>1. t \notin gone /\ slot'[t] = slot[t] /\ live(t) /\ slot[t].worker \in Workers \ W
      BY <1>6 DEF live
    <2>2. Occupies(slot[t].worker, t)
      BY <2>1 DEF Book, InSlot
    <2>3. slot[t].worker # w
      BY <1>8, <2>2 DEF Occupies
    <2>4. launch'[slot[t].worker] = launch[slot[t].worker] /\ t # s
      BY <1>11, <2>1, <2>3
    <2>5. QED
      BY <1>5, <1>10, <1>12, <2>1, <2>2, <2>3, <2>4 DEF Occupies, Launched
  <1>16. EmptySlots'
    BY <1>6 DEF Book, EmptySlots, live, Empty
  <1>17. WiredInSlot'
    <2> SUFFICES ASSUME NEW v \in Workers
                 PROVE  /\ (wk'[v].run = "up" /\ ~wk'[v].over /\ ~LeftEarly(v)' /\ launch'[v].wired)
                              => slot'[launch'[v].slot].worker = v
                        /\ (Launched(v)' /\ launch'[v].stage \in {"waiting", "claiming"})
                              => launch'[v].wired
      BY DEF WiredInSlot
    <2>1. CASE v = w
      BY <1>3, <1>5, <1>9, <1>13, <2>1
    <2>2. CASE v # w
      <3>1. wk'[v].run = "up" => Launched(v)
        BY <1>5 DEF Book, Started
      <3>2. ASSUME wk'[v].run = "up", ~wk'[v].over, ~LeftEarly(v)', launch'[v].wired
            PROVE  slot'[launch'[v].slot].worker = v
        <4>1. launch[v].wired /\ v \notin W /\ launch'[v] = launch[v]
          BY <1>11, <2>2, <3>1, <3>2
        <4>2. slot[launch[v].slot].worker = v
          BY <1>5, <1>12, <2>2, <3>2, <4>1 DEF Book, WiredInSlot
        <4>3. launch[v].slot \in Slots
          BY <3>1, <3>2 DEF Launched, TypeOK, Launch
        <4>4. launch[v].slot \notin gone
          BY <1>7, <4>1, <4>2, NullAssumption DEF live
        <4>5. QED
          BY <1>6, <4>1, <4>2, <4>3, <4>4
      <3>3. ASSUME Launched(v)', launch'[v].stage \in {"waiting", "claiming"}
            PROVE  launch'[v].wired
        BY <1>7, <1>11, <2>2, <3>3 DEF Book, WiredInSlot
      <3>4. QED
        BY <3>2, <3>3
    <2>3. QED
      BY <2>1, <2>2
  <1>18. LaunchesNumbered'
    <2>1. ASSUME NEW v \in Workers \ {w}, Launched(v)
          PROVE  /\ launch[v].slot \in Slots /\ launch[v].gen \in Nat
                 /\ launch[v].gen <= launchGen'[launch[v].slot]
                 /\ launch[v].slot = s => launch[v].gen # l.gen
      <3>1. launch[v].slot \in Slots /\ launch[v].gen \in Nat
        BY <2>1 DEF Launched, TypeOK, Launch
      <3>2. launch[v].gen <= launchGen[launch[v].slot]
        BY <2>1 DEF Book, LaunchesNumbered
      <3>3. QED
        BY <1>3, <1>10, <3>1, <3>2
    <2>2. launchGen'[l.slot] = l.gen /\ l.gen <= l.gen
      BY <1>3, <1>10
    <2>3. QED
      BY <1>3, <1>9, <1>11, <2>1, <2>2 DEF Book, LaunchesNumbered
  <1>19. GuestsApart'
    <2> SUFFICES ASSUME NEW v \in Workers, Launched(v)'
                 PROVE  /\ launch'[v].kind = "guest" <=> launch'[v].slot \in GuestSlots
                        /\ launch'[v].kind = "guest" => launch'[v].uid \in Workers
      BY DEF GuestsApart
    <2>1. CASE v = w
      BY <1>3, <1>9, <2>1
    <2>2. CASE v # w
      BY <1>11, <2>2 DEF Book, GuestsApart
    <2>3. QED
      BY <2>1, <2>2
  <1>20. QED
    BY <1>2, <1>4, <1>9, <1>10, <1>14, <1>15, <1>16, <1>17, <1>18, <1>19 DEF Book

\* A dropped /cancel leaves the others held.
LEMMA DroppingType ==
  ASSUME TypeOK, NEW u, NEW h
  PROVE  Dropping(u, h) \in [Uids -> Cancel \cup {NoCancel}]
  BY DEF TypeOK, Dropping

\* A /cancel is held for a host, and deciding it touches nothing else.
LEMMA HoldCancelType ==
  ASSUME TypeOK, NEW u, NEW h \in Hosts, NEW s \in Slots, NEW guest \in BOOLEAN,
         HoldCancel(u, h, s, guest)
  PROVE  /\ pending' \in [Uids -> Cancel \cup {NoCancel}]
         /\ liveUids' \subseteq Uids
         /\ app' = app
  <1>1. [host |-> h, slot |-> s, guest |-> guest] \in Cancel
    BY DEF Cancel
  <1>2. QED
    BY <1>1 DEF HoldCancel, TypeOK

\* A step that only concerns the hosts, or what is asked of the workers, leaves
\* the launches and the slots alone.
LEMMA Untouched ==
  ASSUME TypeOK, Book, UNCHANGED <<slot, launch, launchGen, answers>>,
         \A w \in Workers : /\ wk'[w].run = wk[w].run
                            /\ wk'[w].reply = wk[w].reply
                            /\ wk'[w].over = wk[w].over
  PROVE  Book'
  <1>1. \A w \in Workers : LeftEarly(w)' <=> LeftEarly(w)
    BY DEF LeftEarly
  <1>2. Started' /\ Counted'
    BY DEF Book, Started, Counted, Launched
  <1>3. InSlot'
    <2> SUFFICES ASSUME NEW s \in Slots, live(s)'
                 PROVE  Occupies(slot[s].worker, s)'
      BY DEF InSlot
    <2>1. live(s) /\ slot[s].worker \in Workers /\ slot'[s] = slot[s]
      BY DEF live, TypeOK, SlotRec
    <2>2. Occupies(slot[s].worker, s)
      BY <2>1 DEF Book, InSlot
    <2>3. QED
      BY <1>1, <2>1, <2>2 DEF Occupies, Launched
  <1>4. EmptySlots'
    BY DEF Book, EmptySlots, live
  <1>5. WiredInSlot'
    BY <1>1 DEF Book, WiredInSlot, Launched
  <1>6. LaunchesNumbered' /\ GuestsApart'
    BY DEF Book, LaunchesNumbered, GuestsApart, Launched
  <1>7. QED
    BY <1>2, <1>3, <1>4, <1>5, <1>6 DEF Book

\* The owner's /start keeps type and bookkeeping.
LEMMA StartStep ==
  ASSUME TypeOK, Book, NEW b \in Browsers, NEW h \in Hosts, NEW a \in Apps, NEW w \in Workers,
         Start(b, h, a, w)
  PROVE  TypeOK' /\ Book'
  <1> DEFINE u   == Uid(b, 0)
             new == [host |-> h, uid |-> u, app |-> a, kind |-> "fresh"]
  <1>1. PICK s \in LaunchSlot(u, h, a) : Enter(w, s, TakenOver(s, u, h, a), new)
    BY DEF Start
  <1>2. pending' = Dropping(u, h) /\ UNCHANGED <<guestUid, liveUids, app, answers>>
    BY DEF Start
  <1>3. /\ s \in Slots /\ s \notin GuestSlots
        /\ TakenOver(s, u, h, a) \in SUBSET Slots /\ s \in TakenOver(s, u, h, a)
    BY LaunchSlotFacts
  <1>4. u \in Uids
    BY SlotFacts
  <1> HIDE DEF u
  <1>5. /\ new.host \in Hosts /\ new.uid \in Uids /\ new.app \in Apps
        /\ new.kind \in {"fresh", "standby", "guest"} /\ new.kind # "guest"
    BY <1>4
  <1> HIDE DEF new
  <1>6. /\ Book'
        /\ WkTypeOK' /\ slot' \in [Slots -> SlotRec]
        /\ launch' \in [Workers -> Launch \cup {NoLaunch}]
        /\ launchGen' \in [Slots -> Nat]
        /\ release' \in BOOLEAN
    BY <1>1, <1>2, <1>3, <1>5, EnterStep
  <1>7. QED
    BY <1>2, <1>6, DroppingType DEF TypeOK

\* So does a standby launch.
LEMMA StandbyStep ==
  ASSUME TypeOK, Book, NEW b \in Browsers, NEW h \in Hosts, NEW a \in Apps, NEW s \in kOwnerSlots,
         NEW w \in Workers, StartStandby(b, h, a, s, w)
  PROVE  TypeOK' /\ Book'
  <1> DEFINE u   == Uid(b, s)
             new == [host |-> h, uid |-> u, app |-> a, kind |-> "standby"]
  <1>1. Enter(w, s, {s}, new)
    BY DEF StartStandby
  <1>2. pending' = Dropping(u, h) /\ UNCHANGED <<guestUid, liveUids, app, answers>>
    BY DEF StartStandby
  <1>3. s \notin GuestSlots /\ {s} \in SUBSET Slots /\ s \in {s}
    BY SlotFacts
  <1>4. u \in Uids
    BY SlotFacts
  <1> HIDE DEF u
  <1>5. /\ new.host \in Hosts /\ new.uid \in Uids /\ new.app \in Apps
        /\ new.kind \in {"fresh", "standby", "guest"} /\ new.kind # "guest"
    BY <1>4
  <1> HIDE DEF new
  <1>6. /\ Book'
        /\ WkTypeOK' /\ slot' \in [Slots -> SlotRec]
        /\ launch' \in [Workers -> Launch \cup {NoLaunch}]
        /\ launchGen' \in [Slots -> Nat]
        /\ release' \in BOOLEAN
    BY <1>1, <1>2, <1>3, <1>5, EnterStep
  <1>7. QED
    BY <1>2, <1>6, DroppingType DEF TypeOK

\* So does a guest's launch.
LEMMA GuestStartStep ==
  ASSUME TypeOK, Book, NEW s \in GuestSlots, NEW h \in Hosts, NEW a \in Apps,
         NEW again \in BOOLEAN, NEW w \in Workers, GuestStart(s, h, a, again, w)
  PROVE  TypeOK' /\ Book'
  <1> DEFINE u   == IF again THEN guestUid[s] ELSE w
             new == [host |-> h, uid |-> u, app |-> a, kind |-> "guest"]
  <1>1. Enter(w, s, {s}, new)
    BY DEF GuestStart
  <1>2. /\ guestUid' = [guestUid EXCEPT ![s] = u]
        /\ pending' = Dropping(u, h) \/ pending' = pending
        /\ UNCHANGED <<liveUids, app, answers>>
    BY DEF GuestStart
  <1>3. {s} \in SUBSET Slots /\ s \in {s}
    BY SlotFacts
  <1>4. u \in Workers /\ u \in Uids
    BY DEF GuestStart, TypeOK, Uids
  <1> HIDE DEF u
  <1>5. /\ new.host \in Hosts /\ new.uid \in Uids /\ new.app \in Apps
        /\ new.kind \in {"fresh", "standby", "guest"} /\ new.kind = "guest"
        /\ new.uid \in Workers
    BY <1>4
  <1> HIDE DEF new
  <1>6. /\ Book'
        /\ WkTypeOK' /\ slot' \in [Slots -> SlotRec]
        /\ launch' \in [Workers -> Launch \cup {NoLaunch}]
        /\ launchGen' \in [Slots -> Nat]
        /\ release' \in BOOLEAN
    BY <1>1, <1>2, <1>3, <1>5, EnterStep
  <1>7. guestUid' \in [GuestSlots -> Workers \cup {NoUid}]
    BY <1>2, <1>4 DEF TypeOK
  <1>8. QED
    BY <1>2, <1>6, <1>7, DroppingType DEF TypeOK

-----------------------------------------------------------------------------
(***************************************************************************)
(* The ways a stream is stopped.                                           *)
(***************************************************************************)

\* So does stopping any set of slots.
LEMMA StopStep ==
  ASSUME TypeOK, Book,
         NEW S \in SUBSET Slots, detachWorkerSlots(S), UNCHANGED <<launchGen, guestUid, answers>>,
         pending' \in [Uids -> Cancel \cup {NoCancel}], liveUids' \subseteq Uids,
         app' \in [Hosts -> BOOLEAN]
  PROVE  TypeOK' /\ Book'
  BY Detached DEF TypeOK

\* So does every step of a browser.
LEMMA BrowserStep ==
  ASSUME TypeOK, Book, BrowserNext
  PROVE  TypeOK' /\ Book'
  <1> SUFFICES ASSUME NEW b \in Browsers, NEW h \in Hosts,
                      \/ \E a \in AppsOf(h), w \in Workers : Start(b, h, a, w)
                      \/ \E a \in AppsOf(h) : StartRefused(b, h, a)
                      \/ \E a \in AppsOf(h), s \in kOwnerSlots, w \in Workers :
                            StartStandby(b, h, a, s, w)
                      \/ \E us \in {0, 1}, q \in {kOwnerSlots, {0}, {1}}, keep \in BOOLEAN :
                            Quit(b, us, h, q, keep)
                      \/ StopSession(h)
               PROVE  TypeOK' /\ Book'
    BY DEF BrowserNext
  <1>1. AppsOf(h) \subseteq Apps
    BY SlotFacts
  <1>2. ASSUME NEW a \in AppsOf(h), StartRefused(b, h, a)
        PROVE  TypeOK' /\ Book'
    <2> DEFINE u == Uid(b, 0)
    <2>1. PICK s \in LaunchSlot(u, h, a) : detachWorkerSlots(TakenOver(s, u, h, a))
      BY <1>2 DEF StartRefused
    <2>2. TakenOver(s, u, h, a) \in SUBSET Slots
      BY <1>1, LaunchSlotFacts
    <2> HIDE DEF u
    <2>3. /\ pending' \in {pending, Dropping(Uid(b, 0), h)}
          /\ UNCHANGED <<launchGen, guestUid, liveUids, app, answers>>
      BY <1>2 DEF StartRefused
    <2>4. pending' \in [Uids -> Cancel \cup {NoCancel}]
      BY <2>3, DroppingType DEF TypeOK
    <2>5. liveUids' \subseteq Uids /\ app' \in [Hosts -> BOOLEAN]
      BY <2>3 DEF TypeOK
    <2>6. QED
      BY <2>1, <2>2, <2>3, <2>4, <2>5, StopStep
  <1>3. ASSUME NEW us \in {0, 1}, NEW q \in {kOwnerSlots, {0}, {1}}, NEW keep \in BOOLEAN,
               Quit(b, us, h, q, keep)
        PROVE  TypeOK' /\ Book'
    <2> DEFINE S == {s \in q : live(s) /\ slot[s].uid = Uid(b, us)}
                      \cup (IF keep THEN {} ELSE {s \in GuestSlots : live(s)})
    <2>1. detachWorkerSlots(S) /\ UNCHANGED <<launchGen, guestUid, answers>>
      BY <1>3 DEF Quit
    <2>2. q \subseteq Slots /\ GuestSlots \subseteq Slots
      BY SlotFacts
    <2>3. S \in SUBSET Slots
      BY <2>2
    <2> HIDE DEF S
    <2>4. /\ pending' = pending \/ pending' = Dropping(Uid(b, us), h)
          /\ liveUids' = liveUids \/ liveUids' = liveUids \ {Uid(b, us)}
          /\ app' = app \/ CancelSent(h)
      BY <1>3 DEF Quit
    <2>5. pending' \in [Uids -> Cancel \cup {NoCancel}]
      BY <2>4, DroppingType DEF TypeOK
    <2>6. liveUids' \subseteq Uids /\ app' \in [Hosts -> BOOLEAN]
      BY <2>4 DEF TypeOK, CancelSent
    <2>7. QED
      BY <2>1, <2>3, <2>5, <2>6, StopStep
  <1>4. CASE StopSession(h)
    <2> DEFINE S == kOwnerSlots \cup {s \in GuestSlots : live(s)}
    <2>1. detachWorkerSlots(S) /\ UNCHANGED <<launchGen, guestUid, answers>>
      BY <1>4 DEF StopSession
    <2>2. S \in SUBSET Slots
      BY SlotFacts
    <2> HIDE DEF S
    <2>3. /\ pending' \in [Uids -> Cancel \cup {NoCancel}] /\ liveUids' \subseteq Uids
          /\ app' \in [Hosts -> BOOLEAN]
      BY <1>4 DEF StopSession, CancelSent, TypeOK
    <2>4. QED
      BY <2>1, <2>2, <2>3, StopStep
  <1>5. QED
    BY <1>1, <1>2, <1>3, <1>4, StartStep, StandbyStep

\* So does every step of a guest.
LEMMA GuestStep ==
  ASSUME TypeOK, Book, GuestNext
  PROVE  TypeOK' /\ Book'
  <1>1. \A h \in Hosts : AppsOf(h) \subseteq Apps
    BY SlotFacts
  <1>2. ASSUME NEW s \in GuestSlots, live(s), detachWorkerSlots({s}),
               UNCHANGED <<launchGen, guestUid, answers>>,
               \/ HoldCancel(guestUid[s], slot[s].host, s, TRUE)
               \/ UNCHANGED <<pending, liveUids, app>>
        PROVE  TypeOK' /\ Book'
    <2>1. {s} \in SUBSET Slots /\ s \in Slots /\ TRUE \in BOOLEAN
      BY SlotFacts
    <2>2. slot[s].host \in Hosts
      <3>1. Occupies(slot[s].worker, s) /\ slot[s].worker \in Workers
        BY <1>2, <2>1 DEF Book, InSlot, live, TypeOK, SlotRec
      <3>2. QED
        BY <3>1 DEF Occupies, Launched, TypeOK, Launch
    <2>3. /\ pending' \in [Uids -> Cancel \cup {NoCancel}] /\ liveUids' \subseteq Uids
          /\ app' \in [Hosts -> BOOLEAN]
      BY <1>2, <2>1, <2>2, HoldCancelType DEF TypeOK
    <2>4. QED
      BY <1>2, <2>1, <2>3, StopStep
  <1>3. QED
    BY <1>1, <1>2, GuestStartStep DEF GuestNext, stopPlayerStream, playerMustDisconnect

\* The other steps touch no slot: a revoked device's children are told, the
\* display goes off, a held /cancel goes out or is dropped.
LEMMA HostStep ==
  ASSUME TypeOK, Book,
         \/ streamingSessionRevoked
         \/ ReleaseTimeout
         \/ \E u \in Uids : CancelTimeout(u)
         \/ UNCHANGED vars
  PROVE  TypeOK' /\ Book'
  <1>1. CASE streamingSessionRevoked
    <2>1. Held(Slots) \in SUBSET Workers
      BY HeldFacts
    <2>2. /\ AskAll(Held(Slots))
          /\ UNCHANGED <<slot, launch, launchGen, guestUid, pending, liveUids, app, release, answers>>
      BY <1>1 DEF streamingSessionRevoked
    <2>3. WkTypeOK' /\ \A w \in Workers : /\ wk'[w].run = wk[w].run
                                          /\ wk'[w].reply = wk[w].reply
                                          /\ wk'[w].over = wk[w].over
      BY <2>1, <2>2, AskAllKeeps DEF TypeOK
    <2>4. QED
      BY <2>2, <2>3, Untouched DEF TypeOK
  <1>2. CASE ReleaseTimeout
    BY <1>2, Untouched DEF ReleaseTimeout, TypeOK, WkTypeOK
  <1>3. ASSUME NEW u \in Uids, CancelTimeout(u)
        PROVE  TypeOK' /\ Book'
    <2>1. /\ pending' = [pending EXCEPT ![u] = NoCancel]
          /\ app' = app \/ \E h \in Hosts : CancelSent(h)
          /\ liveUids' \subseteq liveUids
          /\ UNCHANGED <<wk, slot, launch, launchGen, guestUid, release, answers>>
      BY <1>3 DEF CancelTimeout, TypeOK, Cancel
    <2>2. app' \in [Hosts -> BOOLEAN] /\ pending' \in [Uids -> Cancel \cup {NoCancel}]
      BY <2>1 DEF TypeOK, CancelSent
    <2>3. TypeOK'
      BY <2>1, <2>2 DEF TypeOK, WkTypeOK
    <2>4. QED
      BY <2>1, <2>3, Untouched
  <1>4. CASE UNCHANGED vars
    <2>1. TypeOK'
      BY <1>4 DEF vars, TypeOK, WkTypeOK
    <2>2. QED
      BY <1>4, <2>1, Untouched DEF vars
  <1>5. QED
    BY <1>1, <1>2, <1>3, <1>4

-----------------------------------------------------------------------------
(***************************************************************************)
(* A launch's claim ends.                                                  *)
(***************************************************************************)

\* A launch that is waiting to be spawned stands in no slot.
LEMMA Claiming ==
  ASSUME TypeOK, Book, NEW w \in Workers, Launched(w), launch[w].stage = "claiming"
  PROVE  /\ launch[w] \in Launch
         /\ wk[w].run = "none" /\ wk[w].reply = "none" /\ ~wk[w].over
         /\ answers[w] = 0
         /\ \A s \in Slots : slot[s].worker # w
  <1>1. launch[w] \in Launch
    BY DEF Launched, TypeOK
  <1>2. wk[w].run = "none" /\ wk[w].reply = "none" /\ ~wk[w].over
    BY DEF Book, Started
  <1>3. \A s \in Slots : slot[s].worker # w
    BY NullAssumption DEF live, Book, InSlot, Occupies
  <1>4. answers[w] = 0
    BY <1>2 DEF Book, Counted
  <1>5. QED
    BY <1>1, <1>2, <1>3, <1>4

\* A launch that is dropped is answered by that, and by nothing else.
LEMMA DropStep ==
  ASSUME TypeOK, Book, NEW w \in Workers, Dropped(w)
  PROVE  TypeOK' /\ Book'
  <1>1. /\ Launched(w) /\ launch[w].stage = "claiming"
        /\ launch' = [launch EXCEPT ![w].stage = "dropped"]
        /\ answers' = [answers EXCEPT ![w] = @ + 1]
        /\ UNCHANGED <<wk, slot, launchGen, guestUid, pending, liveUids, app, release>>
    BY DEF Dropped, Answered, Launched
  <1>2. /\ launch[w] \in Launch
        /\ wk[w].run = "none" /\ wk[w].reply = "none" /\ ~wk[w].over
        /\ answers[w] = 0
        /\ \A s \in Slots : slot[s].worker # w
    BY <1>1, Claiming
  <1>3. /\ launch'[w] = [launch[w] EXCEPT !.stage = "dropped"]
        /\ \A v \in Workers \ {w} : launch'[v] = launch[v]
    BY <1>1 DEF TypeOK
  <1>4. launch'[w] \in Launch
    BY <1>2, <1>3 DEF Launch
  <1>5. /\ launch'[w] # NoLaunch
        /\ launch'[w].stage = "dropped" /\ launch'[w].slot = launch[w].slot
        /\ launch'[w].gen = launch[w].gen /\ launch'[w].kind = launch[w].kind
        /\ launch'[w].uid = launch[w].uid
    BY <1>2, <1>3, <1>4, NullAssumption DEF Launch
  <1>6. /\ answers' \in [Workers -> Nat] /\ answers'[w] = 1
        /\ \A v \in Workers \ {w} : answers'[v] = answers[v]
    BY <1>1, <1>2 DEF TypeOK
  <1>7. TypeOK'
    <2>1. launch' \in [Workers -> Launch \cup {NoLaunch}]
      BY <1>1, <1>3, <1>4 DEF TypeOK
    <2>2. QED
      BY <1>1, <1>6, <2>1 DEF TypeOK, WkTypeOK
  <1>8. Started' /\ Counted'
    BY <1>1, <1>2, <1>3, <1>5, <1>6 DEF Book, Started, Counted, Launched
  <1>9. \A s \in Slots : live(s) => slot[s].worker \in Workers \ {w}
    BY <1>2 DEF live, TypeOK, SlotRec
  <1>10. InSlot'
    <2> SUFFICES ASSUME NEW s \in Slots, live(s)'
                 PROVE  Occupies(slot[s].worker, s)'
      BY DEF InSlot
    <2>1. live(s) /\ slot[s].worker \in Workers \ {w}
      BY <1>1, <1>9 DEF live
    <2>2. Occupies(slot[s].worker, s)
      BY <2>1 DEF Book, InSlot
    <2>3. QED
      BY <1>1, <1>3, <2>1, <2>2 DEF Occupies, Launched, LeftEarly
  <1>11. EmptySlots'
    BY <1>1 DEF Book, EmptySlots, live
  <1>12. WiredInSlot'
    BY <1>1, <1>2, <1>3, <1>5 DEF Book, WiredInSlot, Launched, LeftEarly
  <1>13. \A v \in Workers : /\ Launched(v)' <=> Launched(v)
                            /\ Launched(v) => /\ launch'[v].slot = launch[v].slot
                                              /\ launch'[v].gen = launch[v].gen
                                              /\ launch'[v].kind = launch[v].kind
                                              /\ launch'[v].uid = launch[v].uid
    BY <1>1, <1>3, <1>5 DEF Launched
  <1>14. LaunchesNumbered' /\ GuestsApart'
    BY <1>1, <1>13 DEF Book, LaunchesNumbered, GuestsApart
  <1>15. QED
    BY <1>7, <1>8, <1>10, <1>11, <1>12, <1>14 DEF Book

\* The newest launch of a slot finds it empty, since no other has its number.
LEMMA NewestFindsEmpty ==
  ASSUME TypeOK, Book, NEW w \in Workers, Launched(w), launch[w].stage = "claiming", IsLatest(w)
  PROVE  ~live(launch[w].slot)
  <1> DEFINE s == launch[w].slot
  <1> SUFFICES ASSUME live(s) PROVE FALSE
    OBVIOUS
  <1>1. s \in Slots
    BY Claiming DEF Launch
  <1>2. slot[s].worker \in Workers /\ Occupies(slot[s].worker, s)
    BY <1>1 DEF TypeOK, SlotRec, live, Book, InSlot
  <1>3. slot[s].worker # w
    BY <1>1, Claiming
  <1>4. QED
    BY <1>2, <1>3 DEF Book, LaunchesNumbered, Occupies, IsLatest

\* So does the start of the worker once the claim is through.
LEMMA SpawnStep ==
  ASSUME TypeOK, Book, NEW w \in Workers, startWorker(w)
  PROVE  TypeOK' /\ Book'
  <1> DEFINE s   == launch[w].slot
             rec == [worker |-> w, uid |-> launch[w].uid, host |-> launch[w].host,
                     app |-> launch[w].app]
  <1>1. /\ Launched(w) /\ launch[w].stage = "claiming"
        /\ launchGen[s] = launch[w].gen
        /\ wk' = [wk EXCEPT ![w].run = "up"]
        /\ launch' = [launch EXCEPT ![w].stage = "spawned"]
        /\ slot' = [slot EXCEPT ![s] = rec]
        /\ UNCHANGED <<launchGen, guestUid, pending, liveUids, app, release, answers>>
    BY DEF startWorker, IsLatest, Spawn, Launched
  <1>2. /\ launch[w] \in Launch
        /\ wk[w].run = "none" /\ wk[w].reply = "none" /\ ~wk[w].over
        /\ answers[w] = 0
        /\ \A t \in Slots : slot[t].worker # w
    BY <1>1, Claiming
  <1>3. s \in Slots /\ launch[w].wired
    BY <1>1, <1>2 DEF Launch, Book, WiredInSlot
  <1>4. ~live(s)
    BY <1>1, NewestFindsEmpty DEF IsLatest
  <1>5. /\ launch'[w] = [launch[w] EXCEPT !.stage = "spawned"]
        /\ \A v \in Workers \ {w} : launch'[v] = launch[v]
    BY <1>1 DEF TypeOK
  <1>6. launch'[w] \in Launch
    BY <1>2, <1>5 DEF Launch
  <1>7. /\ launch'[w] # NoLaunch
        /\ launch'[w].stage = "spawned" /\ launch'[w].slot = s
        /\ launch'[w].gen = launch[w].gen /\ launch'[w].kind = launch[w].kind
        /\ launch'[w].uid = launch[w].uid /\ launch'[w].host = launch[w].host
        /\ launch'[w].app = launch[w].app /\ launch'[w].wired
    BY <1>2, <1>3, <1>5, <1>6, NullAssumption DEF Launch
  <1>8. /\ wk' \in [Workers -> Worker]
        /\ wk'[w].run = "up" /\ wk'[w].reply = "none" /\ ~wk'[w].over
        /\ \A v \in Workers \ {w} : wk'[v] = wk[v]
    BY <1>1, <1>2 DEF TypeOK, WkTypeOK, Worker
  <1>9. rec \in SlotRec
    BY <1>2 DEF Launch, SlotRec
  <1>10. /\ slot' \in [Slots -> SlotRec]
         /\ slot'[s].worker = w /\ slot'[s].uid = launch[w].uid
         /\ slot'[s].host = launch[w].host /\ slot'[s].app = launch[w].app
         /\ \A t \in Slots \ {s} : slot'[t] = slot[t]
    BY <1>1, <1>3, <1>9 DEF TypeOK
  <1>11. TypeOK'
    <2>1. launch' \in [Workers -> Launch \cup {NoLaunch}]
      BY <1>1, <1>5, <1>6 DEF TypeOK
    <2>2. QED
      BY <1>1, <1>8, <1>10, <2>1 DEF TypeOK, WkTypeOK
  <1> HIDE DEF s, rec
  <1>12. Started'
    <2> SUFFICES ASSUME NEW v \in Workers
                 PROVE  IF Launched(v)' /\ launch'[v].stage = "spawned"
                        THEN wk'[v].run # "none"
                        ELSE wk'[v].run = "none" /\ wk'[v].reply = "none" /\ ~wk'[v].over
      BY DEF Started
    <2>1. CASE v = w
      BY <1>7, <1>8, <2>1 DEF Launched
    <2>2. CASE v # w
      <3>1. launch'[v] = launch[v] /\ wk'[v] = wk[v]
        BY <1>5, <1>8, <2>2
      <3>2. QED
        BY <3>1 DEF Book, Started, Launched
    <2>3. QED
      BY <2>1, <2>2
  <1>13. Counted'
    BY <1>1, <1>2, <1>5, <1>7, <1>8 DEF Book, Counted, Launched
  <1>14. InSlot'
    <2> SUFFICES ASSUME NEW t \in Slots, live(t)'
                 PROVE  Occupies(slot[t].worker, t)'
      BY DEF InSlot
    <2>1. CASE t = s
      BY <1>1, <1>7, <1>8, <1>10, <2>1 DEF s, Occupies, Launched, LeftEarly
    <2>2. CASE t # s
      <3>1. slot'[t] = slot[t] /\ live(t) /\ slot[t].worker \in Workers \ {w}
        BY <1>2, <1>10, <2>2 DEF live, TypeOK, SlotRec
      <3>2. Occupies(slot[t].worker, t)
        BY <3>1 DEF Book, InSlot
      <3>3. launch'[slot[t].worker] = launch[slot[t].worker] /\ wk'[slot[t].worker] = wk[slot[t].worker]
        BY <1>5, <1>8, <3>1
      <3>4. QED
        BY <1>1, <3>1, <3>2, <3>3 DEF Occupies, Launched, LeftEarly
    <2>3. QED
      BY <2>1, <2>2
  <1>15. EmptySlots'
    BY <1>10, NullAssumption DEF Book, EmptySlots, live
  <1>16. WiredInSlot'
    <2> SUFFICES ASSUME NEW v \in Workers
                 PROVE  /\ (wk'[v].run = "up" /\ ~wk'[v].over /\ ~LeftEarly(v)' /\ launch'[v].wired)
                              => slot'[launch'[v].slot].worker = v
                        /\ (Launched(v)' /\ launch'[v].stage \in {"waiting", "claiming"})
                              => launch'[v].wired
      BY DEF WiredInSlot
    <2>1. CASE v = w
      BY <1>7, <1>10, <2>1
    <2>2. CASE v # w
      <3>1. launch'[v] = launch[v] /\ wk'[v] = wk[v]
        BY <1>5, <1>8, <2>2
      <3>2. LeftEarly(v)' <=> LeftEarly(v)
        BY <3>1 DEF LeftEarly
      <3>3. wk[v].run = "up" => launch[v].slot \in Slots
        BY DEF Book, Started, Launched, TypeOK, Launch
      <3>4. (wk[v].run = "up" /\ slot[launch[v].slot].worker = v) => slot'[launch[v].slot].worker = v
        BY <1>4, <1>10, <3>3, NullAssumption DEF live
      <3>5. QED
        BY <3>1, <3>2, <3>4 DEF Book, WiredInSlot, Launched
    <2>3. QED
      BY <2>1, <2>2
  <1>17. \A v \in Workers : /\ Launched(v)' <=> Launched(v)
                            /\ Launched(v) => /\ launch'[v].slot = launch[v].slot
                                              /\ launch'[v].gen = launch[v].gen
                                              /\ launch'[v].kind = launch[v].kind
                                              /\ launch'[v].uid = launch[v].uid
    BY <1>1, <1>5, <1>7 DEF s, Launched
  <1>18. LaunchesNumbered' /\ GuestsApart'
    BY <1>1, <1>17 DEF Book, LaunchesNumbered, GuestsApart
  <1>19. QED
    BY <1>11, <1>12, <1>13, <1>14, <1>15, <1>16, <1>18 DEF Book

-----------------------------------------------------------------------------
(***************************************************************************)
(* What the workers report.                                                *)
(***************************************************************************)

\* A worker that runs has a launch, of some slot.
LEMMA Running ==
  ASSUME TypeOK, Book, NEW w \in Workers, wk[w].run # "none"
  PROVE  /\ Launched(w) /\ launch[w].stage = "spawned" /\ launch[w] \in Launch
         /\ launch[w].slot \in Slots /\ launch[w].host \in Hosts
         /\ launch[w].uid \in Uids /\ launch[w].wired \in BOOLEAN
  <1>1. Launched(w) /\ launch[w].stage = "spawned"
    BY DEF Book, Started
  <1>2. launch[w] \in Launch
    BY <1>1 DEF Launched, TypeOK
  <1>3. QED
    BY <1>1, <1>2 DEF Launch

\* The slots w is in are emptied when its end is handled; if it is not, or was
\* before, w is in none.
LEMMA EndedEffect ==
  ASSUME TypeOK, Book, NEW w \in Workers, wk[w].run = "up",
         \/ Ended(w)
         \/ wk[w].over /\ UNCHANGED <<pending, liveUids, app, slot>>
  PROVE  /\ pending' \in [Uids -> Cancel \cup {NoCancel}] /\ liveUids' \subseteq Uids
         /\ app' \in [Hosts -> BOOLEAN]
         /\ slot' \in [Slots -> SlotRec]
         /\ \A t \in Slots : slot'[t] = IF slot[t].worker = w THEN Empty ELSE slot[t]
  <1> DEFINE s == launch[w].slot
  <1>1. s \in Slots /\ launch[w].host \in Hosts /\ launch[w].uid \in Uids
    BY Running
  <1>2. \A t \in Slots : slot[t].worker = w => t = s /\ launch[w].wired /\ ~wk[w].over
    BY NullAssumption DEF Book, InSlot, Occupies, live
  <1>3. Empty \in SlotRec
    BY DEF Empty, SlotRec
  <1>4. CASE Ended(w) /\ launch[w].wired
    <2>1. HoldCancel(launch[w].uid, launch[w].host, s, launch[w].kind = "guest")
      BY <1>4 DEF Ended
    <2>2. (launch[w].kind = "guest") \in BOOLEAN
      OBVIOUS
    <2>3. /\ pending' \in [Uids -> Cancel \cup {NoCancel}] /\ liveUids' \subseteq Uids
          /\ app' \in [Hosts -> BOOLEAN]
      BY <1>1, <2>1, <2>2, HoldCancelType DEF TypeOK
    <2>4. slot' = [slot EXCEPT ![s] = IF @.worker = w THEN Empty ELSE @]
      BY <1>4 DEF Ended
    <2> HIDE DEF s
    <2>5. QED
      BY <1>1, <1>2, <1>3, <2>3, <2>4 DEF TypeOK
  <1>5. CASE UNCHANGED <<pending, liveUids, app, slot>> /\ (~launch[w].wired \/ wk[w].over)
    BY <1>2, <1>5 DEF TypeOK
  <1>6. QED
    BY <1>4, <1>5 DEF Ended

\* So does the answer to a launch.
LEMMA ReplyStep ==
  ASSUME TypeOK, Book, NEW w \in Workers, NEW r \in {"ok", "error"}, WorkerReplies(w, r)
  PROVE  TypeOK' /\ Book'
  <1> DEFINE s == launch[w].slot
             left == [Empty EXCEPT !.app = slot[s].app]
  <1>1. /\ wk[w].run = "up" /\ wk[w].reply = "none"
        /\ wk' = [wk EXCEPT ![w].reply = r]
        /\ answers' = [answers EXCEPT ![w] = @ + 1]
        /\ UNCHANGED <<launch, launchGen, guestUid, pending, release>>
    BY DEF WorkerReplies, Reply, Answered
  <1>2. /\ Launched(w) /\ launch[w].stage = "spawned" /\ s \in Slots
        /\ launch[w].host \in Hosts /\ launch[w].uid \in Uids
    BY <1>1, Running
  <1>3. answers[w] = 0
    BY <1>1, <1>2 DEF Book, Counted
  <1>4. /\ wk' \in [Workers -> Worker]
        /\ wk'[w].run = "up" /\ wk'[w].reply = r /\ wk'[w].over = wk[w].over
        /\ \A v \in Workers \ {w} : wk'[v] = wk[v]
    BY <1>1 DEF TypeOK, WkTypeOK, Worker
  <1>5. /\ answers' \in [Workers -> Nat] /\ answers'[w] = 1
        /\ \A v \in Workers \ {w} : answers'[v] = answers[v]
    BY <1>1, <1>3 DEF TypeOK
  <1>6. \A t \in Slots : slot[t].worker = w =>
                            t = s /\ Occupies(w, t) /\ ~LeftEarly(w)
    BY NullAssumption DEF Book, InSlot, Occupies, live
  <1>7. /\ left \in SlotRec /\ left.worker = NoWorker /\ left.uid = NoUid /\ left.host = NoHost
    BY <1>2 DEF Empty, SlotRec, TypeOK
  <1>8. /\ liveUids' \subseteq Uids /\ app' \in [Hosts -> BOOLEAN]
        /\ \/ slot' = slot /\ ~(r = "error" /\ launch[w].kind = "standby" /\ slot[s].worker = w)
           \/ /\ r = "error" /\ launch[w].kind = "standby" /\ slot[s].worker = w
              /\ slot' = [slot EXCEPT ![s] = left]
    BY <1>2 DEF WorkerReplies, TypeOK
  <1> HIDE DEF left
  <1>9. /\ slot' \in [Slots -> SlotRec]
        /\ \A t \in Slots :
              IF r = "error" /\ launch[w].kind = "standby" /\ slot[t].worker = w
              THEN slot'[t] = left
              ELSE slot'[t] = slot[t]
    <2> HIDE DEF s
    <2>1. QED
      BY <1>2, <1>6, <1>7, <1>8 DEF TypeOK
  <1> HIDE DEF s
  <1>10. TypeOK'
    BY <1>1, <1>4, <1>5, <1>8, <1>9 DEF TypeOK, WkTypeOK
  <1>11. \A v \in Workers \ {w} : LeftEarly(v)' <=> LeftEarly(v)
    BY <1>1, <1>4 DEF LeftEarly
  <1>12. LeftEarly(w)' <=> (launch[w].kind = "standby" /\ r = "error")
    BY <1>1, <1>2, <1>4 DEF LeftEarly, Launched
  <1>13. Started'
    <2> SUFFICES ASSUME NEW v \in Workers
                 PROVE  IF Launched(v)' /\ launch'[v].stage = "spawned"
                        THEN wk'[v].run # "none"
                        ELSE wk'[v].run = "none" /\ wk'[v].reply = "none" /\ ~wk'[v].over
      BY DEF Started
    <2>1. CASE v = w
      BY <1>1, <1>2, <1>4, <2>1 DEF Launched
    <2>2. CASE v # w
      BY <1>1, <1>4, <2>2 DEF Book, Started, Launched
    <2>3. QED
      BY <2>1, <2>2
  <1>14. Counted'
    BY <1>1, <1>4, <1>5 DEF Book, Counted, Launched
  <1>15. InSlot'
    <2> SUFFICES ASSUME NEW t \in Slots, live(t)'
                 PROVE  Occupies(slot[t].worker, t)'
      BY DEF InSlot
    <2>1. slot'[t] = slot[t] /\ live(t) /\ ~(r = "error" /\ launch[w].kind = "standby" /\ slot[t].worker = w)
      BY <1>7, <1>9 DEF live
    <2>2. Occupies(slot[t].worker, t) /\ slot[t].worker \in Workers
      BY <2>1 DEF Book, InSlot, live, TypeOK, SlotRec
    <2>3. ~LeftEarly(slot[t].worker)'
      BY <1>11, <1>12, <2>1, <2>2 DEF Occupies
    <2>4. wk'[slot[t].worker].run = "up" /\ ~wk'[slot[t].worker].over
      BY <1>1, <1>4, <2>2 DEF Occupies
    <2>5. QED
      BY <1>1, <2>1, <2>2, <2>3, <2>4 DEF Occupies, Launched
  <1>16. EmptySlots'
    BY <1>7, <1>9 DEF Book, EmptySlots, live
  <1>17. WiredInSlot'
    <2> SUFFICES ASSUME NEW v \in Workers
                 PROVE  /\ (wk'[v].run = "up" /\ ~wk'[v].over /\ ~LeftEarly(v)' /\ launch[v].wired)
                              => slot'[launch[v].slot].worker = v
                        /\ (Launched(v) /\ launch[v].stage \in {"waiting", "claiming"})
                              => launch[v].wired
      BY <1>1 DEF WiredInSlot, Launched
    <2>1. wk'[v].run = wk[v].run /\ wk'[v].over = wk[v].over /\ (~LeftEarly(v)' => ~LeftEarly(v))
      BY <1>1, <1>4, <1>11 DEF LeftEarly
    <2>2. ASSUME wk[v].run = "up", ~wk[v].over, ~LeftEarly(v)', launch[v].wired
          PROVE  slot'[launch[v].slot].worker = v
      <3>1. slot[launch[v].slot].worker = v
        BY <2>1, <2>2 DEF Book, WiredInSlot
      <3>2. launch[v].slot \in Slots
        BY <2>2, Running
      <3>3. v = w => ~(launch[w].kind = "standby" /\ r = "error")
        BY <1>12, <2>2
      <3>4. QED
        BY <1>9, <3>1, <3>2, <3>3
    <2>3. QED
      BY <2>1, <2>2 DEF Book, WiredInSlot
  <1>18. LaunchesNumbered' /\ GuestsApart'
    BY <1>1 DEF Book, LaunchesNumbered, GuestsApart, Launched
  <1>19. QED
    BY <1>10, <1>13, <1>14, <1>15, <1>16, <1>17, <1>18 DEF Book

\* So does a worker that reports its end.
LEMMA EndStep ==
  ASSUME TypeOK, Book, NEW w \in Workers, WorkerEnds(w)
  PROVE  TypeOK' /\ Book'
  <1>1. /\ wk[w].run = "up" /\ ~wk[w].over
        /\ wk' = [wk EXCEPT ![w].over = TRUE]
        /\ Ended(w)
        /\ release' \in BOOLEAN
        /\ UNCHANGED <<launch, launchGen, guestUid, answers>>
    BY DEF WorkerEnds, Over
  <1>2. /\ pending' \in [Uids -> Cancel \cup {NoCancel}] /\ liveUids' \subseteq Uids
        /\ app' \in [Hosts -> BOOLEAN]
        /\ slot' \in [Slots -> SlotRec]
        /\ \A t \in Slots : slot'[t] = IF slot[t].worker = w THEN Empty ELSE slot[t]
    BY <1>1, EndedEffect
  <1>3. /\ Launched(w) /\ launch[w].stage = "spawned" /\ launch[w].slot \in Slots
    BY <1>1, Running
  <1>4. /\ wk' \in [Workers -> Worker]
        /\ wk'[w].run = "up" /\ wk'[w].reply = wk[w].reply /\ wk'[w].over
        /\ \A v \in Workers \ {w} : wk'[v] = wk[v]
    BY <1>1 DEF TypeOK, WkTypeOK, Worker
  <1>5. \A t \in Slots : live(t)' =>
           slot'[t] = slot[t] /\ live(t) /\ slot[t].worker \in Workers \ {w}
    BY <1>2 DEF live, Empty, TypeOK, SlotRec
  <1>6. TypeOK'
    BY <1>1, <1>2, <1>4 DEF TypeOK, WkTypeOK
  <1>7. launch' = launch /\ launchGen' = launchGen /\ answers' = answers
    BY <1>1
  <1>8. \A v \in Workers : LeftEarly(v)' <=> LeftEarly(v)
    BY <1>4, <1>7 DEF LeftEarly
  <1>9. Started' /\ Counted'
    BY <1>3, <1>4, <1>7 DEF Book, Started, Counted, Launched
  <1>10. InSlot'
    <2> SUFFICES ASSUME NEW t \in Slots, live(t)'
                 PROVE  Occupies(slot[t].worker, t)'
      BY DEF InSlot
    <2>1. slot'[t] = slot[t] /\ live(t) /\ slot[t].worker \in Workers \ {w}
      BY <1>5
    <2>2. Occupies(slot[t].worker, t) /\ wk'[slot[t].worker] = wk[slot[t].worker]
      BY <1>4, <2>1 DEF Book, InSlot
    <2>3. QED
      BY <1>7, <1>8, <2>1, <2>2 DEF Occupies, Launched
  <1>11. EmptySlots'
    BY <1>2 DEF Book, EmptySlots, live, Empty
  <1>12. WiredInSlot'
    <2> SUFFICES ASSUME NEW v \in Workers
                 PROVE  /\ (wk'[v].run = "up" /\ ~wk'[v].over /\ ~LeftEarly(v) /\ launch[v].wired)
                              => slot'[launch[v].slot].worker = v
                        /\ (Launched(v) /\ launch[v].stage \in {"waiting", "claiming"})
                              => launch[v].wired
      BY <1>7, <1>8 DEF WiredInSlot, Launched
    <2>1. wk[v].run = "up" => launch[v].slot \in Slots
      BY Running
    <2>2. QED
      BY <1>2, <1>4, <2>1 DEF Book, WiredInSlot
  <1>13. LaunchesNumbered' /\ GuestsApart'
    BY <1>7 DEF Book, LaunchesNumbered, GuestsApart, Launched
  <1>14. QED
    BY <1>6, <1>9, <1>10, <1>11, <1>12, <1>13 DEF Book

\* The end of the process speaks for a worker that has not, and sends the launch
\* that waited for it to its claim.
LEMMA ExitStep ==
  ASSUME TypeOK, Book, NEW w \in Workers, WorkerExits(w)
  PROVE  TypeOK' /\ Book'
  <1>1. /\ wk[w].run = "up"
        /\ wk' = [wk EXCEPT ![w].run = "gone",
                            ![w].reply = IF @ = "none" THEN "error" ELSE @,
                            ![w].over = TRUE]
        /\ answers' = IF wk[w].reply = "none" THEN [answers EXCEPT ![w] = @ + 1] ELSE answers
        /\ Ended(w) \/ (wk[w].over /\ UNCHANGED <<pending, liveUids, app, slot>>)
        /\ launch' = [v \in Workers |-> IF v \in NextInLine(w) THEN [launch[v] EXCEPT !.stage = "claiming"]
                                                               ELSE launch[v]]
        /\ release' \in BOOLEAN
        /\ UNCHANGED <<launchGen, guestUid>>
    BY DEF WorkerExits, Exit, Answered
  <1>2. /\ pending' \in [Uids -> Cancel \cup {NoCancel}] /\ liveUids' \subseteq Uids
        /\ app' \in [Hosts -> BOOLEAN]
        /\ slot' \in [Slots -> SlotRec]
        /\ \A t \in Slots : slot'[t] = IF slot[t].worker = w THEN Empty ELSE slot[t]
    BY <1>1, EndedEffect
  <1>3. /\ Launched(w) /\ launch[w].stage = "spawned" /\ launch[w].slot \in Slots
    BY <1>1, Running
  <1>4. /\ wk' \in [Workers -> Worker]
        /\ wk'[w].run = "gone" /\ wk'[w].reply # "none" /\ wk'[w].over
        /\ \A v \in Workers \ {w} : wk'[v] = wk[v]
    <2>1. wk[w] \in Worker
      BY DEF TypeOK, WkTypeOK
    <2>2. wk'[w] = [run |-> "gone", reply |-> IF wk[w].reply = "none" THEN "error" ELSE wk[w].reply,
                    over |-> TRUE, asked |-> wk[w].asked]
      BY <1>1, <2>1 DEF TypeOK, WkTypeOK, Worker
    <2>3. wk'[w] \in Worker /\ wk'[w].run = "gone" /\ wk'[w].reply # "none" /\ wk'[w].over
      BY <2>1, <2>2 DEF Worker
    <2>4. wk' = [v \in Workers |-> wk'[v]] /\ \A v \in Workers \ {w} : wk'[v] = wk[v]
      BY <1>1 DEF TypeOK, WkTypeOK
    <2>5. QED
      BY <2>3, <2>4 DEF TypeOK, WkTypeOK
  <1>5. /\ answers' \in [Workers -> Nat] /\ answers'[w] = 1
        /\ \A v \in Workers \ {w} : answers'[v] = answers[v]
    <2>1. answers[w] = IF wk[w].reply # "none" THEN 1 ELSE 0
      BY <1>3 DEF Book, Counted
    <2>2. QED
      BY <1>1, <2>1 DEF TypeOK
  <1>6. ASSUME NEW v \in Workers, v \in NextInLine(w)
        PROVE  /\ launch[v].stage = "waiting" /\ launch'[v].stage = "claiming"
               /\ launch[v] # NoLaunch /\ launch'[v] \in Launch /\ launch'[v] # NoLaunch
               /\ launch'[v].slot = launch[v].slot /\ launch'[v].gen = launch[v].gen
               /\ launch'[v].wired = launch[v].wired /\ launch'[v].kind = launch[v].kind
               /\ launch'[v].uid = launch[v].uid
    <2>1. launch[v].stage = "waiting" /\ launch[v] # NoLaunch
      BY <1>6 DEF NextInLine
    <2>2. launch[v] \in Launch
      BY <2>1 DEF TypeOK
    <2>3. launch'[v] = [launch[v] EXCEPT !.stage = "claiming"]
      BY <1>1, <1>6
    <2>4. launch'[v] \in Launch
      BY <2>2, <2>3 DEF Launch
    <2>5. QED
      BY <2>1, <2>2, <2>3, <2>4, NullAssumption DEF Launch
  <1>7. \A v \in Workers \ NextInLine(w) : launch'[v] = launch[v]
    BY <1>1
  <1>8. \A v \in Workers :
           /\ \/ launch'[v].stage = launch[v].stage
              \/ launch[v].stage = "waiting" /\ launch'[v].stage = "claiming"
           /\ Launched(v)' <=> Launched(v)
           /\ launch'[v].slot = launch[v].slot /\ launch'[v].gen = launch[v].gen
           /\ launch'[v].wired = launch[v].wired /\ launch'[v].kind = launch[v].kind
           /\ launch'[v].uid = launch[v].uid
    BY <1>6, <1>7 DEF Launched
  <1>9. \A v \in Workers : launch[v].stage # "waiting" => launch'[v] = launch[v]
    BY <1>7 DEF NextInLine
  <1>10. TypeOK'
    <2>1. launch' \in [Workers -> Launch \cup {NoLaunch}]
      BY <1>1, <1>6, <1>7 DEF TypeOK
    <2>2. QED
      BY <1>1, <1>2, <1>4, <1>5, <2>1 DEF TypeOK, WkTypeOK
  <1>11. launchGen' = launchGen
    BY <1>1
  <1>12. \A t \in Slots : live(t)' =>
            slot'[t] = slot[t] /\ live(t) /\ slot[t].worker \in Workers \ {w}
    BY <1>2 DEF live, Empty, TypeOK, SlotRec
  <1>13. \A v \in Workers \ {w} : LeftEarly(v)' <=> LeftEarly(v)
    BY <1>4, <1>8 DEF LeftEarly, Launched
  <1>14. Started'
    <2> SUFFICES ASSUME NEW v \in Workers
                 PROVE  IF Launched(v)' /\ launch'[v].stage = "spawned"
                        THEN wk'[v].run # "none"
                        ELSE wk'[v].run = "none" /\ wk'[v].reply = "none" /\ ~wk'[v].over
      BY DEF Started
    <2>1. CASE v = w
      BY <1>3, <1>4, <1>8, <2>1
    <2>2. CASE v # w
      BY <1>4, <1>8, <2>2 DEF Book, Started
    <2>3. QED
      BY <2>1, <2>2
  <1>15. Counted'
    <2> SUFFICES ASSUME NEW v \in Workers
                 PROVE  answers'[v] = IF (Launched(v)' /\ launch'[v].stage = "dropped") \/ wk'[v].reply # "none"
                                      THEN 1 ELSE 0
      BY DEF Counted
    <2>1. CASE v = w
      BY <1>4, <1>5, <2>1
    <2>2. CASE v # w
      BY <1>4, <1>5, <1>8, <2>2 DEF Book, Counted
    <2>3. QED
      BY <2>1, <2>2
  <1>16. InSlot'
    <2> SUFFICES ASSUME NEW t \in Slots, live(t)'
                 PROVE  Occupies(slot[t].worker, t)'
      BY DEF InSlot
    <2>1. slot'[t] = slot[t] /\ live(t) /\ slot[t].worker \in Workers \ {w}
      BY <1>12
    <2>2. Occupies(slot[t].worker, t) /\ wk'[slot[t].worker] = wk[slot[t].worker]
      BY <1>4, <2>1 DEF Book, InSlot
    <2>3. launch'[slot[t].worker] = launch[slot[t].worker]
      BY <1>9, <2>1, <2>2 DEF Occupies
    <2>4. ~LeftEarly(slot[t].worker)'
      BY <1>13, <2>1, <2>2 DEF Occupies
    <2>5. QED
      BY <1>11, <2>1, <2>2, <2>3, <2>4 DEF Occupies, Launched
  <1>17. EmptySlots'
    BY <1>2 DEF Book, EmptySlots, live, Empty
  <1>18. WiredInSlot'
    <2> SUFFICES ASSUME NEW v \in Workers
                 PROVE  /\ (wk'[v].run = "up" /\ ~wk'[v].over /\ ~LeftEarly(v)' /\ launch'[v].wired)
                              => slot'[launch'[v].slot].worker = v
                        /\ (Launched(v)' /\ launch'[v].stage \in {"waiting", "claiming"})
                              => launch'[v].wired
      BY DEF WiredInSlot
    <2>1. wk[v].run = "up" => launch[v].slot \in Slots
      BY Running
    <2>2. CASE v = w
      BY <1>3, <1>4, <1>8, <2>2
    <2>3. CASE v # w
      <3>1. (wk'[v].run = "up" /\ ~wk'[v].over /\ ~LeftEarly(v)' /\ launch'[v].wired)
              => slot'[launch'[v].slot].worker = v
        BY <1>2, <1>4, <1>8, <1>13, <2>1, <2>3 DEF Book, WiredInSlot
      <3>2. QED
        BY <1>8, <3>1 DEF Book, WiredInSlot
    <2>4. QED
      BY <2>2, <2>3
  <1>19. LaunchesNumbered' /\ GuestsApart'
    BY <1>8, <1>11 DEF Book, LaunchesNumbered, GuestsApart
  <1>20. QED
    BY <1>10, <1>14, <1>15, <1>16, <1>17, <1>18, <1>19 DEF Book

\* So does every step of a worker.
LEMMA WorkerStep ==
  ASSUME TypeOK, Book, NEW w \in Workers, WorkerNext(w)
  PROVE  TypeOK' /\ Book'
  BY DropStep, SpawnStep, ReplyStep, EndStep, ExitStep
     DEF WorkerNext, ClaimEnds, Superseded, LaunchFails, Replies

-----------------------------------------------------------------------------
(***************************************************************************)
(* The theorems.                                                           *)
(***************************************************************************)

\* The server starts with the invariant.
LEMMA InitInv == Init => IInv
  <1> SUFFICES ASSUME Init PROVE IInv
    OBVIOUS
  <1>1. WkTypeOK
    BY DEF Init, WkInit, WkTypeOK, Worker
  <1>2. Empty \in SlotRec
    BY DEF Empty, SlotRec
  <1>3. TypeOK
    BY <1>1, <1>2 DEF Init, TypeOK
  <1>4. /\ \A w \in Workers : /\ launch[w] = NoLaunch /\ answers[w] = 0
                              /\ wk[w].run = "none" /\ wk[w].reply = "none" /\ ~wk[w].over
        /\ \A s \in Slots : slot[s] = Empty
    BY DEF Init, WkInit
  <1>5. \A s \in Slots : ~live(s) /\ slot[s].uid = NoUid /\ slot[s].host = NoHost
    BY <1>4 DEF live, Empty
  <1>6. Book
    BY <1>4, <1>5 DEF Book, Started, Counted, InSlot, EmptySlots, WiredInSlot, LaunchesNumbered,
                      GuestsApart, Launched
  <1>7. QED
    BY <1>3, <1>6 DEF IInv

\* Every step keeps the invariant.
LEMMA NextInv == IInv /\ [Next]_vars => IInv'
  <1> SUFFICES ASSUME TypeOK, Book, [Next]_vars PROVE TypeOK' /\ Book'
    BY DEF IInv
  <1>1. QED
    BY BrowserStep, GuestStep, HostStep, WorkerStep DEF Next

\* What relates the slot table, the launches and the workers survives every step
\* of the browsers, the guests, the workers and the timers.
THEOREM Bookkeeping == Spec => []IInv
  BY InitInv, NextInv, PTL DEF Spec

\* Every variable keeps its type: a held /cancel names a host and a slot, and only
\* launches of a host and an app are ever waited for.
THEOREM TypeCorrect == Spec => []TypeOK
  <1>1. IInv => TypeOK
    BY DEF IInv
  <1>2. QED
    BY <1>1, Bookkeeping, PTL

\* The slot table and the children agree, however launches, take-overs, refusals
\* and deaths interleave: no stream goes on outside its slot with its end still
\* handled, and no launch that was overtaken is put in one.
THEOREM SlotsMatch == Spec => []SlotMatchesLaunch
  <1>1. IInv => SlotMatchesLaunch
    <2> SUFFICES ASSUME IInv PROVE SlotMatchesLaunch
      OBVIOUS
    <2>1. TypeOK /\ Book
      BY DEF IInv
    <2>2. ASSUME NEW s \in Slots, live(s)
          PROVE  LET w == slot[s].worker
                 IN  /\ wk[w].run = "up"
                     /\ launch[w].slot = s /\ launch[w].gen = launchGen[s]
                     /\ slot[s].uid = launch[w].uid /\ slot[s].host = launch[w].host
      BY <2>1, <2>2 DEF Book, InSlot, Occupies
    <2>3. ASSUME NEW w \in Workers, wk[w].run = "up", ~wk[w].over, ~LeftEarly(w)
          PROVE  launch[w].wired <=> slot[launch[w].slot].worker = w
      <3>1. launch[w].wired \in BOOLEAN /\ launch[w].slot \in Slots
        BY <2>1, <2>3, Running
      <3>2. launch[w].wired => slot[launch[w].slot].worker = w
        BY <2>1, <2>3 DEF Book, WiredInSlot
      <3>3. slot[launch[w].slot].worker = w => launch[w].wired
        BY <2>1, <3>1, NullAssumption DEF Book, InSlot, Occupies, live
      <3>4. QED
        BY <3>1, <3>2, <3>3
    <2>4. QED
      BY <2>2, <2>3 DEF SlotMatchesLaunch
  <1>2. QED
    BY <1>1, Bookkeeping, PTL

\* A launch request gets one answer at most, although the router, the spawn, the
\* worker and its death may each give it.
THEOREM OneAnswer == Spec => []AnsweredAtMostOnce
  <1>1. IInv => AnsweredAtMostOnce
    <2> SUFFICES ASSUME IInv, NEW w \in Workers PROVE answers[w] <= 1
      BY DEF AnsweredAtMostOnce
    <2>1. answers[w] = 0 \/ answers[w] = 1
      BY DEF IInv, Book, Counted
    <2>2. QED
      BY <2>1
  <1>2. QED
    BY <1>1, Bookkeeping, PTL

-----------------------------------------------------------------------------
(***************************************************************************)
(* What a step may never do.                                               *)
(***************************************************************************)

\* A step is a launch, a detach, a step of one worker, or none of the slots'.
LEMMA StepCases ==
  ASSUME IInv, [Next]_vars
  PROVE  \/ \E b \in Browsers, h \in Hosts, w \in Workers : \E a \in Apps : Start(b, h, a, w)
         \/ \E w \in Workers, s \in Slots : \E new :
               /\ Enter(w, s, {s}, new) /\ new.kind \in {"standby", "guest"}
               /\ new.host \in Hosts /\ new.uid \in Uids /\ new.app \in Apps
         \/ \E S \in SUBSET Slots : detachWorkerSlots(S)
         \/ \E w \in Workers : WorkerNext(w)
         \/ UNCHANGED <<slot, launch>>
  <1>1. TypeOK /\ Book
    BY DEF IInv
  <1>2. \A h \in Hosts : AppsOf(h) \subseteq Apps
    BY SlotFacts
  <1>3. ASSUME BrowserNext
        PROVE  \/ \E b \in Browsers, h \in Hosts, w \in Workers : \E a \in Apps : Start(b, h, a, w)
               \/ \E w \in Workers, s \in Slots : \E new :
                     /\ Enter(w, s, {s}, new) /\ new.kind \in {"standby", "guest"}
                     /\ new.host \in Hosts /\ new.uid \in Uids /\ new.app \in Apps
               \/ \E S \in SUBSET Slots : detachWorkerSlots(S)
    <2>1. PICK b \in Browsers, h \in Hosts :
             \/ \E a \in AppsOf(h), w \in Workers : Start(b, h, a, w)
             \/ \E a \in AppsOf(h) : StartRefused(b, h, a)
             \/ \E a \in AppsOf(h), s \in kOwnerSlots, w \in Workers : StartStandby(b, h, a, s, w)
             \/ \E us \in {0, 1}, q \in {kOwnerSlots, {0}, {1}}, keep \in BOOLEAN : Quit(b, us, h, q, keep)
             \/ StopSession(h)
      BY <1>3 DEF BrowserNext
    <2>2. ASSUME NEW a \in AppsOf(h), StartRefused(b, h, a)
          PROVE  \E S \in SUBSET Slots : detachWorkerSlots(S)
      <3>1. PICK s \in LaunchSlot(Uid(b, 0), h, a) :
               detachWorkerSlots(TakenOver(s, Uid(b, 0), h, a))
        BY <2>2 DEF StartRefused
      <3>2. TakenOver(s, Uid(b, 0), h, a) \in SUBSET Slots
        BY <1>1, <1>2, LaunchSlotFacts
      <3>3. QED
        BY <3>1, <3>2
    <2>3. ASSUME NEW a \in AppsOf(h), NEW s \in kOwnerSlots, NEW w \in Workers,
                 StartStandby(b, h, a, s, w)
          PROVE  \E x \in Workers, t \in Slots : \E new :
                    /\ Enter(x, t, {t}, new) /\ new.kind \in {"standby", "guest"}
                    /\ new.host \in Hosts /\ new.uid \in Uids /\ new.app \in Apps
      <3> DEFINE new == [host |-> h, uid |-> Uid(b, s), app |-> a, kind |-> "standby"]
      <3>1. Enter(w, s, {s}, new) /\ new.kind = "standby"
        BY <2>3 DEF StartStandby
      <3>2. s \in Slots /\ new.host \in Hosts /\ new.uid \in Uids /\ new.app \in Apps
        BY <1>2, SlotFacts
      <3> HIDE DEF new
      <3>3. QED
        BY <3>1, <3>2
    <2>4. ASSUME NEW us \in {0, 1}, NEW q \in {kOwnerSlots, {0}, {1}}, NEW keep \in BOOLEAN,
                 Quit(b, us, h, q, keep)
          PROVE  \E S \in SUBSET Slots : detachWorkerSlots(S)
      <3> DEFINE S == {s \in q : live(s) /\ slot[s].uid = Uid(b, us)}
                        \cup (IF keep THEN {} ELSE {s \in GuestSlots : live(s)})
      <3>1. detachWorkerSlots(S)
        BY <2>4 DEF Quit
      <3>2. q \subseteq Slots /\ GuestSlots \subseteq Slots
        BY SlotFacts
      <3>3. S \in SUBSET Slots
        BY <3>2
      <3>4. QED
        BY <3>1, <3>3
    <2>5. ASSUME StopSession(h)
          PROVE  \E S \in SUBSET Slots : detachWorkerSlots(S)
      <3>1. kOwnerSlots \cup {s \in GuestSlots : live(s)} \in SUBSET Slots
        BY SlotFacts
      <3>2. QED
        BY <2>5, <3>1 DEF StopSession
    <2>6. QED
      BY <1>2, <2>1, <2>2, <2>3, <2>4, <2>5
  <1>4. ASSUME GuestNext
        PROVE  \/ \E w \in Workers, s \in Slots : \E new :
                     /\ Enter(w, s, {s}, new) /\ new.kind \in {"standby", "guest"}
                     /\ new.host \in Hosts /\ new.uid \in Uids /\ new.app \in Apps
               \/ \E S \in SUBSET Slots : detachWorkerSlots(S)
    <2>1. GuestSlots \subseteq Slots
      BY SlotFacts
    <2>2. ASSUME NEW s \in GuestSlots, NEW h \in Hosts, NEW a \in AppsOf(h), NEW again \in BOOLEAN,
                 NEW w \in Workers,
                 GuestStart(s, h, a, again, w)
          PROVE  \E x \in Workers, t \in Slots : \E new :
                    /\ Enter(x, t, {t}, new) /\ new.kind \in {"standby", "guest"}
                    /\ new.host \in Hosts /\ new.uid \in Uids /\ new.app \in Apps
      <3> DEFINE new == [host |-> h, uid |-> IF again THEN guestUid[s] ELSE w, app |-> a, kind |-> "guest"]
      <3>1. Enter(w, s, {s}, new) /\ new.kind = "guest"
        BY <2>2 DEF GuestStart
      <3>2. new.host \in Hosts /\ new.uid \in Uids /\ new.app \in Apps
        BY <1>1, <1>2, <2>2 DEF GuestStart, TypeOK, Uids
      <3> HIDE DEF new
      <3>3. QED
        BY <2>1, <3>1, <3>2
    <2>3. \A s \in GuestSlots : {s} \in SUBSET Slots
      BY <2>1
    <2>4. QED
      BY <1>4, <2>2, <2>3 DEF GuestNext, stopPlayerStream, playerMustDisconnect
  <1>5. (streamingSessionRevoked \/ ReleaseTimeout \/ (\E u \in Uids : CancelTimeout(u)) \/ UNCHANGED vars)
          => UNCHANGED <<slot, launch>>
    BY DEF streamingSessionRevoked, ReleaseTimeout, CancelTimeout, vars
  <1>6. QED
    BY <1>3, <1>4, <1>5 DEF Next

\* A launch that begins is the one that enters, and is what was asked for.
LEMMA EnterLaunches ==
  ASSUME TypeOK, Book, NEW w \in Workers, NEW gone \in SUBSET Slots, NEW s \in gone, NEW new,
         Enter(w, s, gone, new), NEW v \in Workers, ~Launched(v), Launched(v)'
  PROVE  v = w /\ launch'[v].host = new.host /\ launch'[v].kind = new.kind
  <1>1. /\ slot' = Emptied(gone) /\ AskAll(Held(gone))
        /\ launch' = [Unwired(Held(gone)) EXCEPT ![w] =
                    [slot |-> s, host |-> new.host, uid |-> new.uid, app |-> new.app,
                     kind |-> new.kind,
                     stage |-> IF live(s) THEN "waiting" ELSE "claiming",
                     prev |-> slot[s].worker,
                     gen |-> launchGen[s] + 1, wired |-> TRUE]]
    BY DEF Enter
  <1>2. DOMAIN Unwired(Held(gone)) = Workers
    BY DEF Unwired
  <1>3. \A x \in Workers : Unwired(Held(gone))[x] = NoLaunch <=> ~Launched(x)
    BY <1>1, DetachEffect DEF Launched
  <1> DEFINE f == Unwired(Held(gone))
  <1> HIDE DEF f
  <1>4. v = w
    BY <1>1, <1>2, <1>3 DEF f, Launched
  <1>5. QED
    BY <1>1, <1>2, <1>4

\* A step that launches nothing new.
LEMMA NothingLaunched ==
  ASSUME TypeOK, Book, NEW v \in Workers, ~Launched(v),
         \/ \E S \in SUBSET Slots : detachWorkerSlots(S)
         \/ \E w \in Workers : WorkerNext(w)
         \/ UNCHANGED <<slot, launch>>
  PROVE  ~Launched(v)'
  <1>1. ASSUME NEW S \in SUBSET Slots, detachWorkerSlots(S)
        PROVE  ~Launched(v)'
    <2>1. launch' = Unwired(Held(S)) /\ slot' = Emptied(S) /\ AskAll(Held(S))
      BY <1>1 DEF detachWorkerSlots
    <2>2. launch'[v] = NoLaunch <=> launch[v] = NoLaunch
      BY <2>1, DetachEffect
    <2>3. QED
      BY <2>2 DEF Launched
  <1>2. ASSUME NEW w \in Workers, WorkerNext(w)
        PROVE  ~Launched(v)'
    <2>1. CASE Dropped(w) \/ startWorker(w)
      <3>1. w # v
        BY <2>1 DEF Dropped, startWorker, Launched
      <3>2. launch'[v] = launch[v]
        BY <2>1, <3>1 DEF Dropped, startWorker, TypeOK
      <3>3. QED
        BY <3>2 DEF Launched
    <2>2. CASE WorkerExits(w)
      BY <2>2 DEF WorkerExits, NextInLine, Launched
    <2>3. CASE Replies(w) \/ WorkerEnds(w)
      BY <2>3 DEF Replies, WorkerReplies, WorkerEnds, Launched
    <2>4. QED
      BY <1>2, <2>1, <2>2, <2>3 DEF WorkerNext, ClaimEnds, Superseded, LaunchFails
  <1>3. QED
    BY <1>1, <1>2 DEF Launched

\* A fresh launch asks only workers of its own host to stop, and never a guest's:
\* whatever the slots it finds, what it takes over of the owner's pair or above it
\* streams its host.
THEOREM FreshSpares == Spec => FreshLaunchSparesOthers
  <1> DEFINE Spares == \A v, w \in Workers :
                (/\ launch[v] = NoLaunch /\ launch'[v] # NoLaunch /\ launch'[v].kind = "fresh"
                 /\ wk'[w].asked /\ ~wk[w].asked)
                    => launch[w].host = launch'[v].host /\ launch[w].kind # "guest"
  <1>1. IInv /\ [Next]_vars => Spares
    <2> SUFFICES ASSUME IInv, [Next]_vars, NEW v \in Workers, NEW w \in Workers,
                        ~Launched(v), Launched(v)', launch'[v].kind = "fresh",
                        wk'[w].asked, ~wk[w].asked
                 PROVE  launch[w].host = launch'[v].host /\ launch[w].kind # "guest"
      BY DEF Launched
    <2>1. TypeOK /\ Book
      BY DEF IInv
    <2>2. CASE \E x \in Workers, s \in Slots : \E new :
                  /\ Enter(x, s, {s}, new) /\ new.kind \in {"standby", "guest"}
                  /\ new.host \in Hosts /\ new.uid \in Uids /\ new.app \in Apps
      <3>1. PICK x \in Workers, s \in Slots :
               \E new : Enter(x, s, {s}, new) /\ new.kind \in {"standby", "guest"}
        BY <2>2
      <3>2. PICK new : Enter(x, s, {s}, new) /\ new.kind \in {"standby", "guest"}
        BY <3>1
      <3>3. launch'[v].kind = new.kind
        BY <2>1, <3>2, EnterLaunches
      <3>4. QED
        BY <3>2, <3>3
    <2>3. ASSUME NEW b \in Browsers, NEW h \in Hosts, NEW x \in Workers, NEW a \in Apps,
                 Start(b, h, a, x)
          PROVE  launch[w].host = launch'[v].host /\ launch[w].kind # "guest"
      <3> DEFINE u   == Uid(b, 0)
                 new == [host |-> h, uid |-> u, app |-> a, kind |-> "fresh"]
      <3>1. PICK s \in LaunchSlot(u, h, a) : Enter(x, s, TakenOver(s, u, h, a), new)
        BY <2>3 DEF Start
      <3> DEFINE gone == TakenOver(s, u, h, a)
      <3>2. /\ gone \in SUBSET Slots /\ s \in gone
            /\ \A i \in gone : i \notin GuestSlots /\ (live(i) => slot[i].host = h)
        BY <2>1, LaunchSlotFacts
      <3> HIDE DEF gone, u
      <3>3. launch'[v].host = h
        <4>1. Enter(x, s, gone, new)
          BY <3>1 DEF gone
        <4> HIDE DEF new
        <4>2. launch'[v].host = new.host
          BY <2>1, <3>2, <4>1, EnterLaunches
        <4>3. QED
          BY <4>2 DEF new
      <3>4. AskAll(Held(gone))
        BY <3>1 DEF Enter, gone
      <3>5. w \in Held(gone)
        BY <3>4 DEF AskAll
      <3>6. PICK i \in gone : live(i) /\ slot[i].worker = w
        BY <3>5 DEF Held, live
      <3>7. Occupies(w, i) /\ i \in Slots
        BY <2>1, <3>2, <3>6 DEF Book, InSlot
      <3>8. launch[w].host = h /\ launch[w].slot \notin GuestSlots /\ Launched(w)
        BY <3>2, <3>6, <3>7 DEF Occupies
      <3>9. QED
        BY <2>1, <3>3, <3>8 DEF Book, GuestsApart
    <2>4. QED
      BY <2>1, <2>2, <2>3, StepCases, NothingLaunched
  <1>2. QED
    BY <1>1, Bookkeeping, PTL DEF Spec, FreshLaunchSparesOthers

\* When the grace of a held /cancel is over and it goes to the host, nobody
\* streams the host from another slot, whatever was launched or stopped in the
\* meantime; of a guest's, nobody streams it at all.
THEOREM CancelSpares == Spec => HeldCancelSparesStreams
  <1> DEFINE Spares == \A u \in Uids, w \in Workers :
                (CancelTimeout(u) /\ app' # app /\ StreamsOn(w, pending[u].host))
                    => ~pending[u].guest /\ launch[w].slot = pending[u].slot
  <1>1. IInv => Spares
    <2> SUFFICES ASSUME IInv, NEW u \in Uids, NEW w \in Workers,
                        CancelTimeout(u), app' # app, StreamsOn(w, pending[u].host)
                 PROVE  ~pending[u].guest /\ launch[w].slot = pending[u].slot
      OBVIOUS
    <2> DEFINE c == pending[u]
               t == launch[w].slot
    <2>1. ~Spared(c)
      BY DEF CancelTimeout
    <2>2. /\ wk[w].run = "up" /\ ~wk[w].over /\ launch[w].wired /\ ~LeftEarly(w)
          /\ launch[w].host = c.host
      BY DEF StreamsOn
    <2>3. t \in Slots /\ slot[t].worker = w
      BY <2>2, Running DEF IInv, Book, WiredInSlot
    <2>4. live(t) /\ slot[t].host = c.host
      BY <2>2, <2>3, NullAssumption DEF live, IInv, Book, InSlot, Occupies
    <2>5. t = c.slot
      BY <2>1, <2>3, <2>4 DEF Spared, anyOtherLiveOnHost
    <2>6. ~c.guest
      BY <2>1, <2>4, <2>5 DEF Spared
    <2>7. QED
      BY <2>5, <2>6
  <1>2. QED
    BY <1>1, Bookkeeping, PTL DEF HeldCancelSparesStreams

-----------------------------------------------------------------------------
(***************************************************************************)
(* The display is released by the last stream on it.                       *)
(***************************************************************************)

\* A process that a launch waits for is out of its slot, and its end no longer
\* handled: the launch detached it.
Queued ==
    \A v \in Workers :
        (Launched(v) /\ launch[v].stage = "waiting") =>
            /\ launch[v].prev \in Workers
            /\ Launched(launch[v].prev)
            /\ ~launch[launch[v].prev].wired

\* Detaching changes of a launch only whether its end is handled.
LEMMA UnwiredOnly ==
  ASSUME TypeOK, NEW W, NEW v \in Workers, Launched(v)
  PROVE  /\ Unwired(W)[v] \in Launch /\ Unwired(W)[v] # NoLaunch
         /\ Unwired(W)[v].prev = launch[v].prev
         /\ Unwired(W)[v].stage = launch[v].stage
         /\ Unwired(W)[v].wired => launch[v].wired
  <1>1. launch[v] \in Launch
    BY DEF Launched, TypeOK
  <1>2. Unwired(W)[v] = IF v \in W THEN [launch[v] EXCEPT !.wired = FALSE] ELSE launch[v]
    BY DEF Unwired
  <1>3. Unwired(W)[v] \in Launch
    BY <1>1, <1>2 DEF Launch
  <1>4. CASE v \in W
    <2>1. Unwired(W)[v] # NoLaunch
      BY <1>3, NullAssumption
    <2>2. Unwired(W)[v] = [launch[v] EXCEPT !.wired = FALSE]
      BY <1>2, <1>4
    <2>3. QED
      BY <1>1, <1>3, <2>1, <2>2 DEF Launch
  <1>5. CASE v \notin W
    BY <1>1, <1>2, <1>3, <1>5, NullAssumption
  <1>6. QED
    BY <1>4, <1>5

\* The steps, with what enters typed.
LEMMA EnterCases ==
  ASSUME IInv, [Next]_vars
  PROVE  \/ \E w \in Workers, gone \in SUBSET Slots : \E new : \E s \in gone :
               /\ Enter(w, s, gone, new)
               /\ new.kind \in {"fresh", "standby", "guest"}
               /\ new.host \in Hosts /\ new.uid \in Uids /\ new.app \in Apps
         \/ \E S \in SUBSET Slots : detachWorkerSlots(S)
         \/ \E w \in Workers : WorkerNext(w)
         \/ UNCHANGED <<slot, launch>>
  <1>1. ASSUME NEW b \in Browsers, NEW h \in Hosts, NEW w \in Workers, NEW a \in Apps, Start(b, h, a, w)
        PROVE  \E x \in Workers, gone \in SUBSET Slots : \E new : \E s \in gone :
                  /\ Enter(x, s, gone, new)
                  /\ new.kind \in {"fresh", "standby", "guest"}
                  /\ new.host \in Hosts /\ new.uid \in Uids /\ new.app \in Apps
    <2> DEFINE u   == Uid(b, 0)
               new == [host |-> h, uid |-> u, app |-> a, kind |-> "fresh"]
    <2>1. PICK s \in LaunchSlot(u, h, a) : Enter(w, s, TakenOver(s, u, h, a), new)
      BY <1>1 DEF Start
    <2>2. TakenOver(s, u, h, a) \in SUBSET Slots /\ s \in TakenOver(s, u, h, a)
      BY LaunchSlotFacts DEF IInv
    <2>3. u \in Uids
      BY SlotFacts
    <2> HIDE DEF u
    <2>4. new.kind = "fresh" /\ new.host \in Hosts /\ new.uid \in Uids /\ new.app \in Apps
      BY <2>3
    <2> HIDE DEF new
    <2>5. QED
      BY <2>1, <2>2, <2>4
  <1>2. ASSUME NEW w \in Workers, NEW s \in Slots, NEW new,
               Enter(w, s, {s}, new), new.kind \in {"standby", "guest"},
               new.host \in Hosts, new.uid \in Uids, new.app \in Apps
        PROVE  \E x \in Workers, gone \in SUBSET Slots : \E n : \E t \in gone :
                  /\ Enter(x, t, gone, n)
                  /\ n.kind \in {"fresh", "standby", "guest"}
                  /\ n.host \in Hosts /\ n.uid \in Uids /\ n.app \in Apps
    <2>1. {s} \in SUBSET Slots /\ s \in {s}
      OBVIOUS
    <2>2. QED
      BY <1>2, <2>1
  <1>3. QED
    BY <1>1, <1>2, StepCases

\* What a launch leaves of the others, and what it makes of its own.
LEMMA EnterKeeps ==
  ASSUME TypeOK, Book, NEW w \in Workers, NEW gone \in SUBSET Slots, NEW s \in gone, NEW new,
         Enter(w, s, gone, new), new.kind \in {"fresh", "standby", "guest"},
         new.host \in Hosts, new.uid \in Uids, new.app \in Apps
  PROVE  /\ ~Launched(w) /\ Launched(w)'
         /\ launch'[w].prev = slot[s].worker
         /\ launch'[w].stage = "waiting" => live(s)
         /\ \A v \in Workers \ {w} : launch'[v] = Unwired(Held(gone))[v]
  <1> DEFINE f == Unwired(Held(gone))
             l == [slot |-> s, host |-> new.host, uid |-> new.uid, app |-> new.app,
                   kind |-> new.kind,
                   stage |-> IF live(s) THEN "waiting" ELSE "claiming",
                   prev |-> slot[s].worker,
                   gen |-> launchGen[s] + 1, wired |-> TRUE]
  <1>1. launch[w] = NoLaunch /\ launch' = [f EXCEPT ![w] = l]
    BY DEF Enter
  <1>2. l \in Launch /\ l # NoLaunch /\ l.prev = slot[s].worker /\ (l.stage = "waiting" => live(s))
    <2>1. launchGen[s] + 1 \in Nat /\ slot[s].worker \in Workers \cup {NoWorker} /\ s \in Slots
      BY DEF TypeOK, SlotRec
    <2>2. l \in Launch
      BY <2>1 DEF Launch
    <2>3. QED
      BY <2>2, NullAssumption
  <1>3. DOMAIN f = Workers
    BY DEF Unwired
  <1> HIDE DEF f, l
  <1>4. launch'[w] = l /\ \A v \in Workers \ {w} : launch'[v] = f[v]
    BY <1>1, <1>3
  <1>5. QED
    BY <1>1, <1>2, <1>4 DEF f, Launched

\* A launch keeps what it waits for; its end, once no longer handled, never is
\* again; and it does not go back to waiting.
LEMMA LaunchKeeps ==
  ASSUME IInv, [Next]_vars, NEW v \in Workers, Launched(v)
  PROVE  /\ Launched(v)'
         /\ launch'[v].prev = launch[v].prev
         /\ launch'[v].wired => launch[v].wired
         /\ launch'[v].stage = "waiting" => launch[v].stage = "waiting"
  <1>1. TypeOK /\ Book
    BY DEF IInv
  <1>2. launch[v] \in Launch
    BY <1>1 DEF TypeOK, Launched
  <1>3. ASSUME NEW W, launch'[v] = Unwired(W)[v]
        PROVE  /\ Launched(v)'
               /\ launch'[v].prev = launch[v].prev
               /\ launch'[v].wired => launch[v].wired
               /\ launch'[v].stage = "waiting" => launch[v].stage = "waiting"
    BY <1>1, <1>3, UnwiredOnly DEF Launched
  <1>4. ASSUME NEW w \in Workers, NEW gone \in SUBSET Slots, NEW s \in gone, NEW new,
               Enter(w, s, gone, new), new.kind \in {"fresh", "standby", "guest"},
               new.host \in Hosts, new.uid \in Uids, new.app \in Apps
        PROVE  launch'[v] = Unwired(Held(gone))[v]
    BY <1>1, <1>4, EnterKeeps
  <1>5. ASSUME NEW S \in SUBSET Slots, detachWorkerSlots(S)
        PROVE  launch'[v] = Unwired(Held(S))[v]
    BY <1>5 DEF detachWorkerSlots
  <1>6. ASSUME NEW st \in {"claiming", "dropped", "spawned"},
               launch'[v] = [launch[v] EXCEPT !.stage = st]
        PROVE  /\ Launched(v)'
               /\ launch'[v].prev = launch[v].prev
               /\ launch'[v].wired => launch[v].wired
               /\ launch'[v].stage = "waiting" => launch[v].stage = "waiting"
    <2>1. launch'[v] \in Launch
      BY <1>2, <1>6 DEF Launch
    <2>2. QED
      BY <1>2, <1>6, <2>1, NullAssumption DEF Launch, Launched
  <1>7. ASSUME NEW w \in Workers, WorkerNext(w)
        PROVE  launch'[v] = launch[v]
               \/ \E st \in {"claiming", "dropped", "spawned"} :
                     launch'[v] = [launch[v] EXCEPT !.stage = st]
    <2>1. CASE Dropped(w)
      BY <1>1, <2>1 DEF Dropped, TypeOK
    <2>2. CASE startWorker(w)
      BY <1>1, <2>2 DEF startWorker, TypeOK
    <2>3. CASE WorkerExits(w)
      BY <2>3 DEF WorkerExits
    <2>4. CASE Replies(w) \/ WorkerEnds(w)
      BY <2>4 DEF Replies, WorkerReplies, WorkerEnds
    <2>5. QED
      BY <1>7, <2>1, <2>2, <2>3, <2>4 DEF WorkerNext, ClaimEnds, Superseded, LaunchFails
  <1>8. CASE launch'[v] = launch[v]
    BY <1>8 DEF Launched
  <1>9. CASE \E st \in {"claiming", "dropped", "spawned"} : launch'[v] = [launch[v] EXCEPT !.stage = st]
    BY <1>6, <1>9
  <1>10. CASE \E W : launch'[v] = Unwired(W)[v]
    BY <1>3, <1>10
  <1>11. QED
    BY <1>4, <1>5, <1>7, <1>8, <1>9, <1>10, EnterCases

\* Every step keeps Queued.
LEMMA QueuedStep ==
  ASSUME IInv, Queued, [Next]_vars
  PROVE  Queued'
  <1>1. TypeOK /\ Book
    BY DEF IInv
  <1> SUFFICES ASSUME NEW v \in Workers, Launched(v)', launch'[v].stage = "waiting"
               PROVE  /\ launch'[v].prev \in Workers
                      /\ launch'[launch'[v].prev] # NoLaunch
                      /\ ~launch'[launch'[v].prev].wired
    BY DEF Queued, Launched
  <1>2. CASE Launched(v)
    <2>1. launch'[v].prev = launch[v].prev /\ launch[v].stage = "waiting"
      BY <1>2, LaunchKeeps
    <2>2. launch[v].prev \in Workers /\ Launched(launch[v].prev) /\ ~launch[launch[v].prev].wired
      BY <1>2, <2>1 DEF Queued
    <2>3. \A x \in Workers : Launched(x) => /\ launch'[x] # NoLaunch
                                            /\ launch'[x].wired => launch[x].wired
      BY LaunchKeeps DEF Launched
    <2>4. QED
      BY <2>1, <2>2, <2>3 DEF Launched
  <1>3. CASE ~Launched(v)
    <2>1. PICK w \in Workers, gone \in SUBSET Slots : \E new : \E s \in gone :
               /\ Enter(w, s, gone, new)
               /\ new.kind \in {"fresh", "standby", "guest"}
               /\ new.host \in Hosts /\ new.uid \in Uids /\ new.app \in Apps
      BY <1>1, <1>3, EnterCases, NothingLaunched
    <2>2. PICK new : \E s \in gone :
               /\ Enter(w, s, gone, new)
               /\ new.kind \in {"fresh", "standby", "guest"}
               /\ new.host \in Hosts /\ new.uid \in Uids /\ new.app \in Apps
      BY <2>1
    <2>3. PICK s \in gone :
               /\ Enter(w, s, gone, new)
               /\ new.kind \in {"fresh", "standby", "guest"}
               /\ new.host \in Hosts /\ new.uid \in Uids /\ new.app \in Apps
      BY <2>2
    <2>4. v = w
      BY <1>1, <1>3, <2>3, EnterLaunches
    <2>5. /\ launch'[v].prev = slot[s].worker /\ live(s)
          /\ \A x \in Workers \ {v} : launch'[x] = Unwired(Held(gone))[x]
      BY <1>1, <2>3, <2>4, EnterKeeps
    <2> DEFINE p == slot[s].worker
    <2>6. p \in Held(gone) /\ p \in Workers /\ Launched(p) /\ launch[p] \in Launch
      BY <1>1, <2>5, HeldFacts
    <2>7. launch'[v].prev = p
      BY <2>5
    <2> HIDE DEF p
    <2>8. p # v /\ launch'[p] = [launch[p] EXCEPT !.wired = FALSE]
      BY <1>3, <2>5, <2>6 DEF Unwired
    <2>9. Unwired(Held(gone))[p] # NoLaunch /\ launch'[p] = Unwired(Held(gone))[p]
      BY <1>1, <2>5, <2>6, <2>8, UnwiredOnly
    <2>10. ~launch'[p].wired
      BY <2>6, <2>8 DEF Launch
    <2>11. QED
      BY <2>6, <2>7, <2>9, <2>10
  <1>4. QED
    BY <1>2, <1>3

\* A slot streams the virtual display.
OnDisplay(s) == live(s) /\ onVirtualDisplay(slot[s].host, slot[s].app)

\* Nothing else of the native host is streamed.
OnlyDisplay ==
    \A s \in Slots : (live(s) /\ slot[s].host = NativeHost) => slot[s].app = virtualDisplayAppId

\* A live slot says which host it streams; on the native host it streams the
\* display if nothing else is.
LEMMA DisplaySlots ==
  ASSUME TypeOK, Book, OnlyDisplay, NEW i \in Slots, live(i), NEW s \in Slots, OnDisplay(s),
         slot[i].host \in {NoHost, slot[s].host}
  PROVE  OnDisplay(i)
  <1>1. slot[i].worker \in Workers /\ Occupies(slot[i].worker, i)
    BY DEF Book, InSlot, live, TypeOK, SlotRec
  <1>2. slot[i].host \in Hosts
    BY <1>1 DEF Occupies, Launched, TypeOK, Launch
  <1>3. slot[i].host = NativeHost
    BY <1>2, NullAssumption DEF OnDisplay, onVirtualDisplay
  <1>4. QED
    BY <1>3 DEF OnlyDisplay, OnDisplay, onVirtualDisplay

\* Of several slots detached one by one, the last one on the display finds nobody
\* else there.
LEMMA LastReleased ==
  ASSUME TypeOK, Book, OnlyDisplay, DisplayStreamed, NEW S \in SUBSET Slots,
         \A s \in Slots \ S : ~OnDisplay(s)
  PROVE  ReleasedBy(S)
  <1> DEFINE D == {s \in Slots : OnDisplay(s)}
             f == [s \in D |-> 0 - DetachOrder(s)]
  <1>1. D \in SUBSET Slots /\ D \subseteq S /\ D # {}
    BY DEF DisplayStreamed, OnDisplay
  <1>2. IsFiniteSet(D)
    BY <1>1, SlotFacts, FS_Subset
  <1>3. \A s \in Slots : DetachOrder(s) \in Int
    BY SlotFacts, SlotAssumption DEF DetachOrder
  <1>4. \A s, t \in Slots : DetachOrder(s) = DetachOrder(t) => s = t
    BY SlotAssumption DEF DetachOrder, Slots, GuestSlots
  <1>5. f \in [D -> Int]
    BY <1>1, <1>3
  <1>6. \A s \in D : f[s] = 0 - DetachOrder(s)
    OBVIOUS
  <1> HIDE DEF f
  <1>7. PICK s \in D : \A y \in D : f[s] <= f[y]
    BY <1>1, <1>2, <1>5, Least
  <1>8. ASSUME NEW i \in Slots \ {s}, live(i), slot[i].host \in {NoHost, slot[s].host}
        PROVE  i \in S /\ DetachOrder(i) < DetachOrder(s)
    <2>1. i \in D /\ i \in S
      BY <1>1, <1>8, DisplaySlots
    <2>2. f[s] <= f[i]
      BY <1>7, <2>1
    <2>3. DetachOrder(i) # DetachOrder(s) /\ DetachOrder(i) \in Int /\ DetachOrder(s) \in Int
      BY <1>1, <1>3, <1>4, <1>8
    <2>4. f[s] = 0 - DetachOrder(s) /\ f[i] = 0 - DetachOrder(i)
      BY <1>6, <2>1
    <2> HIDE DEF D
    <2>5. QED
      BY <2>1, <2>2, <2>3, <2>4
  <1>9. s \in S /\ onVirtualDisplay(slot[s].host, slot[s].app)
    BY <1>1 DEF OnDisplay
  <1>10. QED
    BY <1>8, <1>9 DEF ReleasedBy

\* When w's end is handled and with it the display is left, w streamed it, and
\* nobody else streams its host.
LEMMA EndLeavesDisplay ==
  ASSUME TypeOK, Book, OnlyDisplay, DisplayStreamed, ~DisplayStreamed',
         NEW w \in Workers, wk[w].run = "up",
         \/ Ended(w)
         \/ wk[w].over /\ UNCHANGED <<pending, liveUids, app, slot>>
  PROVE  ~wk[w].over /\ launch[w].wired /\ EndedReleases(w)
  <1>1. \A t \in Slots : slot'[t] = IF slot[t].worker = w THEN Empty ELSE slot[t]
    BY EndedEffect
  <1>2. \A t \in Slots : OnDisplay(t) => slot[t].worker = w
    BY <1>1 DEF DisplayStreamed, OnDisplay, live
  <1>3. \A t \in Slots : (live(t) /\ slot[t].worker = w) => Occupies(w, t)
    BY DEF Book, InSlot
  <1>4. PICK s \in Slots : OnDisplay(s)
    BY DEF DisplayStreamed, OnDisplay
  <1>5. Occupies(w, s)
    BY <1>2, <1>3, <1>4 DEF OnDisplay
  <1>6. ~wk[w].over /\ launch[w].wired /\ launch[w].slot = s /\ launch[w].host = slot[s].host
    BY <1>5 DEF Occupies
  <1>7. ~anyOtherLiveOnHost(s, launch[w].host)
    <2> SUFFICES ASSUME NEW i \in Slots \ {s}, live(i), slot[i].host \in {NoHost, slot[s].host}
                 PROVE  FALSE
      BY <1>6 DEF anyOtherLiveOnHost
    <2>1. OnDisplay(i)
      BY <1>4, DisplaySlots
    <2>2. Occupies(w, i)
      BY <1>2, <1>3, <2>1
    <2>3. QED
      BY <1>6, <2>2 DEF Occupies
  <1>8. QED
    BY <1>4, <1>6, <1>7 DEF EndedReleases, OnDisplay

\* Whichever step ends the last stream on the virtual display, be it the stream's
\* own end, its process's death or a detach of several slots at once, arms the
\* display's release.
THEOREM DisplayReleased == Spec => LastOnHostReleasesDisplay
  <1> DEFINE Releases ==
                (/\ LastLeavesDisplay
                 /\ \A s \in Slots : (live(s) /\ slot[s].host = NativeHost) => slot[s].app = virtualDisplayAppId)
                    => release'
  <1>1. IInv /\ Queued /\ [Next]_vars => Releases
    <2> SUFFICES ASSUME IInv, Queued, [Next]_vars, LastLeavesDisplay, OnlyDisplay
                 PROVE  release'
      BY DEF OnlyDisplay
    <2>1. TypeOK /\ Book
      BY DEF IInv
    <2>2. /\ DisplayStreamed /\ ~DisplayStreamed'
          /\ \A w \in Workers : /\ launch'[w] = NoLaunch <=> launch[w] = NoLaunch
                                /\ LeftEarly(w)' => LeftEarly(w)
      BY DEF LastLeavesDisplay
    <2>3. slot' # slot
      BY <2>2 DEF DisplayStreamed, live
    <2>4. ASSUME NEW w \in Workers, NEW gone \in SUBSET Slots, NEW s \in gone, NEW new,
                 Enter(w, s, gone, new), new.kind \in {"fresh", "standby", "guest"},
                 new.host \in Hosts, new.uid \in Uids, new.app \in Apps
          PROVE  FALSE
      BY <2>1, <2>2, <2>4, EnterKeeps DEF Launched
    <2>5. ASSUME NEW S \in SUBSET Slots, detachWorkerSlots(S)
          PROVE  release'
      <3>1. slot' = Emptied(S) /\ release' = (release \/ ReleasedBy(S))
        BY <2>5 DEF detachWorkerSlots
      <3>2. \A s \in Slots \ S : slot'[s] = slot[s]
        BY <3>1 DEF Emptied
      <3>3. \A s \in Slots \ S : ~OnDisplay(s)
        BY <2>2, <3>2 DEF DisplayStreamed, OnDisplay, live
      <3>4. ReleasedBy(S)
        BY <2>1, <2>2, <3>3, LastReleased
      <3>5. QED
        BY <3>1, <3>4
    <2>6. ASSUME NEW w \in Workers, WorkerNext(w)
          PROVE  release'
      <3>1. ~Dropped(w)
        BY <2>3 DEF Dropped
      <3>2. ~startWorker(w)
        <4> SUFFICES ASSUME startWorker(w) PROVE FALSE
          OBVIOUS
        <4>1. ~live(launch[w].slot)
          BY <2>1, NewestFindsEmpty DEF startWorker, Launched
        <4>2. PICK s \in Slots : OnDisplay(s)
          BY <2>2 DEF DisplayStreamed, OnDisplay
        <4>3. s # launch[w].slot
          BY <4>1, <4>2 DEF OnDisplay
        <4>4. slot'[s] = slot[s]
          BY <2>1, <4>3 DEF startWorker, TypeOK
        <4>5. QED
          BY <2>2, <4>2, <4>4 DEF DisplayStreamed, OnDisplay, live
      <3>3. ~Replies(w)
        <4> SUFFICES ASSUME Replies(w) PROVE FALSE
          OBVIOUS
        <4>1. WorkerReplies(w, "error") /\ launch[w].kind = "standby"
          BY <2>3 DEF Replies, WorkerReplies
        <4>2. /\ wk[w].run = "up" /\ wk[w].reply = "none" /\ launch' = launch
              /\ wk' = [wk EXCEPT ![w].reply = "error"]
          BY <4>1 DEF WorkerReplies, Reply
        <4>3. wk'[w].reply = "error"
          BY <2>1, <4>2 DEF TypeOK, WkTypeOK, Worker
        <4>4. Launched(w)
          BY <2>1, <4>2, Running
        <4>5. LeftEarly(w)' /\ ~LeftEarly(w)
          BY <4>1, <4>2, <4>3, <4>4 DEF LeftEarly, Launched
        <4>6. QED
          BY <2>2, <4>5
      <3>4. CASE WorkerEnds(w)
        BY <2>1, <2>2, <3>4, EndLeavesDisplay DEF WorkerEnds, Over
      <3>5. CASE WorkerExits(w)
        <4>1. /\ wk[w].run = "up"
              /\ Ended(w) \/ (wk[w].over /\ UNCHANGED <<pending, liveUids, app, slot>>)
              /\ release' = (/\ release \/ (~wk[w].over /\ EndedReleases(w))
                             /\ \A v \in NextInLine(w) : ~StopsRelease(launch[v]))
          BY <3>5 DEF WorkerExits, Exit
        <4>2. ~wk[w].over /\ launch[w].wired /\ EndedReleases(w)
          BY <2>1, <2>2, <4>1, EndLeavesDisplay
        <4>3. NextInLine(w) = {}
          BY <4>2 DEF NextInLine, Queued, Launched
        <4>4. QED
          BY <4>1, <4>2, <4>3
      <3>6. QED
        BY <2>6, <3>1, <3>2, <3>3, <3>4, <3>5 DEF WorkerNext, ClaimEnds, Superseded, LaunchFails
    <2>7. QED
      BY <2>3, <2>4, <2>5, <2>6, EnterCases
  <1>2. Init => Queued
    BY DEF Init, Queued, Launched
  <1>3. IInv /\ Queued /\ [Next]_vars => Queued'
    BY QueuedStep
  <1>4. QED
    BY <1>1, <1>2, <1>3, Bookkeeping, PTL DEF Spec, LastOnHostReleasesDisplay
=============================================================================
