------------------------ MODULE ShareManager_proofs ------------------------
(***************************************************************************)
(* What ShareManager guarantees for every number of slots, callers,        *)
(* activations and instants.                                               *)
(***************************************************************************)
EXTENDS ShareManager, TLAPS

-----------------------------------------------------------------------------
(***************************************************************************)
(* Types of the helpers.                                                   *)
(***************************************************************************)

\* Activation{} and Slot{}, the values a cleared slot holds, are well typed.
LEMMA FreshType == NoActivation \in Activation /\ FreshSlot \in Slot /\ NoFile \in [Slots -> Slot]
  BY ShareAssumption DEF NoActivation, Activation, FreshSlot, Slot, NoFile

\* pruneExpired and load return slots.
LEMMA PruneType ==
  ASSUME NEW f \in [Slots -> Slot]
  PROVE  pruneExpired(f) \in [Slots -> Slot] /\ load(f) \in [Slots -> Slot]
  BY FreshType DEF pruneExpired, load, Slot

\* Putting an activation in a slot, or none, returns slots.
LEMMA WithActType ==
  ASSUME NEW f \in [Slots -> Slot], NEW s \in Slots
  PROVE  /\ \A a \in Activation : WithAct(f, s, a) \in [Slots -> Slot]
         /\ clearActivation(f, s) \in [Slots -> Slot]
  BY FreshType DEF clearActivation, WithAct, Slot

\* What save() writes is well typed, whichever way the write goes.
LEMMA SaveType ==
  ASSUME NEW f \in [Slots -> Slot], save(f), disk \in [Slots -> Slot]
  PROVE  disk' \in [Slots -> Slot]
  <1>1. \A a \in Activation : Stored(a) \in Activation
    BY DEF Stored, Activation
  <1>2. Image(f) \in [Slots -> Slot]
    BY <1>1 DEF Image, Slot
  <1>3. QED
    BY <1>2, FreshType DEF save

\* The rate-limit entries rateRecord and ratePurge compute are well typed.
LEMMA RateType ==
  ASSUME NEW e \in RateEntry, NEW matched \in BOOLEAN, now \in 0..MaxTime
  PROVE  rateRecord(e, matched) \in RateEntry /\ ratePurge(e) \in RateEntry /\ NoEntry \in RateEntry
  <1>1. /\ e.failures \in Nat /\ e.lastFailure \in Nat /\ e.lockoutUntil \in Nat
        /\ now \in Nat
    BY ShareAssumption DEF RateEntry
  <1>2. NoEntry \in RateEntry
    BY DEF RateEntry, NoEntry
  <1>3. ratePurge(e) \in RateEntry
    BY <1>1, <1>2 DEF RateEntry, ratePurge
  <1>4. rateRecord(e, matched) \in RateEntry
    <2>1. CASE matched
      BY <2>1, <1>1 DEF RateEntry, rateRecord
    <2>2. CASE ~matched
      BY <2>2, <1>1, ShareAssumption DEF RateEntry, rateRecord
    <2>3. QED
      BY <2>1, <2>2
  <1>5. QED
    BY <1>2, <1>3, <1>4

\* The per-activation counters stay natural whatever index is counted.
LEMMA CounterType ==
  ASSUME NEW k \in [Ids -> Nat], NEW x \in Ids
  PROVE  /\ [k EXCEPT ![x] = @ + 1] \in [Ids -> Nat]
         /\ [k EXCEPT ![x] = 0] \in [Ids -> Nat]
  OBVIOUS

-----------------------------------------------------------------------------
(***************************************************************************)
(* Type correctness.                                                       *)
(***************************************************************************)

\* Every step of ShareManager keeps every variable in its type.
LEMMA TypeStep ==
  ASSUME TypeOK, [Next]_vars
  PROVE  TypeOK'
  <1> USE ShareAssumption DEF TypeOK
  <1> DEFINE f == pruneExpired(slots)
  <1>0. /\ f \in [Slots -> Slot]
        /\ \A s \in Slots : f[s].act \in Activation /\ f[s].lastPerms \in Perms
    BY PruneType DEF Slot
  <1>e. \A c \in Callers : rate[c] \in RateEntry
    OBVIOUS
  <1>1. ASSUME NEW s \in Slots, NEW ttl \in TtlChoices, activate(s, ttl)
        PROVE  TypeOK'
    <2> DEFINE h == clearActivation(f, s)
               a == [NoActivation EXCEPT !.id = minted + 1, !.perms = h[s].lastPerms,
                                         !.ttl = ttl, !.expiresAt = Deadline(ttl)]
               g == [h EXCEPT ![s] = [@ EXCEPT !.lastTtl = ttl, !.act = a]]
    <2>1. h \in [Slots -> Slot] /\ h[s].lastPerms \in Perms
      <3>1. h \in [Slots -> Slot]
        BY <1>0, WithActType
      <3> HIDE DEF h
      <3>2. QED
        BY <3>1 DEF Slot
    <2>2. a \in Activation
      <3>1. Deadline(ttl) \in Nat
        BY DEF Deadline
      <3>2. minted + 1 \in 0..MaxActivations
        BY <1>1 DEF activate
      <3>3. QED
        BY <2>1, <3>1, <3>2, FreshType DEF Activation
    <2>3. g \in [Slots -> Slot]
      BY <2>1, <2>2 DEF Slot
    <2>4. slots' = g /\ save(g) /\ minted' = minted + 1 /\ minted < MaxActivations
          /\ UNCHANGED <<rate, now, issued, guesses>>
      BY <1>1 DEF activate
    <2> HIDE DEF g
    <2>5. disk' \in [Slots -> Slot]
      BY <2>3, <2>4, SaveType
    <2>6. QED
      BY <2>3, <2>4, <2>5
  <1>2. ASSUME NEW s \in Slots, NEW ttl \in TtlChoices, setTtl(s, ttl)
        PROVE  TypeOK'
    <2> DEFINE d == CappedDeadline(f[s].act.expiresAt, ttl)
               a == IF IsLive(f[s].act)
                    THEN [f[s].act EXCEPT !.ttl = ttl, !.expiresAt = d]
                    ELSE f[s].act
               g == [f EXCEPT ![s] = [@ EXCEPT !.lastTtl = ttl, !.act = a]]
    <2>1. slots' = g /\ save(g) /\ UNCHANGED <<rate, now, minted, issued, guesses>>
      BY <1>2 DEF setTtl
    <2>2. d \in Nat
      BY <1>0 DEF Activation, CappedDeadline, Deadline
    <2>3. a \in Activation
      <3> HIDE DEF d, f
      <3> QED BY <1>0, <2>2 DEF Activation
    <2>4. g \in [Slots -> Slot]
      <3> HIDE DEF a, f
      <3> QED BY <1>0, <2>3 DEF Slot
    <2> HIDE DEF g
    <2>5. disk' \in [Slots -> Slot]
      BY <2>1, <2>4, SaveType
    <2>6. QED
      BY <2>1, <2>4, <2>5
  <1>3. ASSUME NEW s \in Slots, NEW p \in Perms, setPermissions(s, p)
        PROVE  TypeOK'
    <2> DEFINE a == IF IsLive(f[s].act) THEN [f[s].act EXCEPT !.perms = p] ELSE f[s].act
               g == IF IsLive(a) /\ f[s].act.perms = p
                    THEN f
                    ELSE [f EXCEPT ![s] = [@ EXCEPT !.lastPerms = p, !.act = a]]
    <2>1. slots' = g /\ SaveIf(g # slots, g) /\ UNCHANGED <<rate, now, minted, issued, guesses>>
      BY <1>3 DEF setPermissions
    <2>2. a \in Activation
      <3> HIDE DEF f
      <3> QED BY <1>0 DEF Activation
    <2>3. g \in [Slots -> Slot]
      <3> HIDE DEF a, f
      <3> QED BY <1>0, <2>2 DEF Slot
    <2> HIDE DEF g
    <2>4. disk' \in [Slots -> Slot]
      BY <2>1, <2>3, SaveType DEF SaveIf
    <2>5. QED
      BY <2>1, <2>3, <2>4
  <1>4. ASSUME NEW s \in Slots, setName(s)
        PROVE  TypeOK'
    BY <1>4, SaveType DEF setName
  <1>5. ASSUME NEW s \in Slots, deactivate(s)
        PROVE  TypeOK'
    BY <1>5, SaveType, WithActType DEF deactivate
  <1>6. ASSUME deactivateAll
        PROVE  TypeOK'
    <2>1. slots' \in [Slots -> Slot]
      BY <1>6, FreshType DEF deactivateAll, Slot
    <2>2. QED
      BY <1>6, <2>1, SaveType DEF deactivateAll
  <1>7. ASSUME Query
        PROVE  TypeOK'
    BY <1>7, <1>0, SaveType DEF Query
  <1>8. ASSUME NEW c \in Callers, RedeemRateLimited(c)
        PROVE  TypeOK'
    BY <1>8, <1>0, SaveType DEF RedeemRateLimited, SaveIf
  <1>9. ASSUME NEW c \in Callers, NEW i \in Ids, RedeemUnknown(c, i)
        PROVE  TypeOK'
    <2>1. rateRecord(rate[c], FALSE) \in RateEntry
      BY <1>e, RateType
    <2>2. QED
      BY <1>9, <1>0, <2>1, SaveType DEF RedeemUnknown, SaveIf
  <1>10. ASSUME NEW c \in Callers, NEW s \in Slots, RedeemWrongPin(c, s)
         PROVE  TypeOK'
    <2> DEFINE n == f[s].act.pinFailures + 1
               a == [f[s].act EXCEPT !.pinFailures = n]
               g == IF n >= MaxPinFailures THEN clearActivation(f, s) ELSE WithAct(f, s, a)
    <2>1. rateRecord(rate[c], FALSE) \in RateEntry
      BY <1>e, RateType
    <2>2. /\ slots' = g /\ save(g)
          /\ rate' = [rate EXCEPT ![c] = rateRecord(rate[c], FALSE)]
          /\ guesses' = [guesses EXCEPT ![f[s].act.id] = @ + 1]
          /\ UNCHANGED <<now, minted, issued>>
      BY <1>10 DEF RedeemWrongPin
    <2>3. n < MaxPinFailures => a \in Activation
      <3> HIDE DEF f
      <3> QED BY <1>0 DEF Activation
    <2>4. g \in [Slots -> Slot]
      <3>1. n \in Nat
        BY <1>0 DEF Activation
      <3> HIDE DEF a, f, n
      <3>2. QED
        BY <3>1, <1>0, <2>3, WithActType
    <2> HIDE DEF g
    <2>5. disk' \in [Slots -> Slot]
      BY <2>2, <2>4, SaveType
    <2>6. guesses' \in [Ids -> Nat]
      <3>0. IsLive(f[s].act)
        BY <1>10 DEF RedeemWrongPin
      <3> HIDE DEF f
      <3>1. f[s].act.id \in Ids
        BY <1>0, <3>0 DEF IsLive, Activation, Ids
      <3>2. QED
        BY <2>2, <3>1, CounterType
    <2>7. QED
      BY <2>1, <2>2, <2>4, <2>5, <2>6
  <1>11. ASSUME NEW c \in Callers, NEW s \in Slots, RedeemRightPin(c, s)
         PROVE  TypeOK'
    <2> DEFINE a == [f[s].act EXCEPT !.pinFailures = 0]
               full == a.cookies >= MaxCookies
               b == IF full THEN [a EXCEPT !.refused = TRUE] ELSE [a EXCEPT !.cookies = @ + 1]
               g == WithAct(f, s, b)
    <2>1. rateRecord(rate[c], TRUE) \in RateEntry
      BY <1>e, RateType
    <2>2. /\ slots' = g /\ save(g)
          /\ rate' = [rate EXCEPT ![c] = rateRecord(rate[c], TRUE)]
          /\ guesses' = [guesses EXCEPT ![a.id] = 0]
          /\ issued' = IF full THEN issued ELSE [issued EXCEPT ![a.id] = @ + 1]
          /\ UNCHANGED <<now, minted>>
      BY <1>11 DEF RedeemRightPin
    <2>3. a \in Activation
      <3> HIDE DEF f
      <3> QED BY <1>0 DEF Activation
    <2>4. b \in Activation
      <3> HIDE DEF a
      <3>1. CASE full
        BY <2>3, <3>1 DEF Activation
      <3>2. CASE ~full
        BY <2>3, <3>2 DEF Activation
      <3>3. QED
        BY <3>1, <3>2
    <2>5. g \in [Slots -> Slot]
      <3> HIDE DEF b, f
      <3> QED BY <1>0, <2>4, WithActType
    <2> HIDE DEF g
    <2>6. disk' \in [Slots -> Slot]
      BY <2>2, <2>5, SaveType
    <2>7. guesses' \in [Ids -> Nat] /\ issued' \in [Ids -> Nat]
      <3>0. IsLive(a)
        BY <1>11 DEF RedeemRightPin
      <3> HIDE DEF a, full
      <3>1. a.id \in Ids
        BY <2>3, <3>0 DEF IsLive, Activation, Ids
      <3>2. QED
        BY <2>2, <3>1, CounterType
    <2>8. QED
      BY <2>1, <2>2, <2>5, <2>6, <2>7
  <1>12. ASSUME NEW s \in Slots, NEW on \in BOOLEAN, setStreaming(s, on)
         PROVE  TypeOK'
    <2>1. slots[s].act \in Activation
      BY DEF Slot
    <2>2. [slots[s].act EXCEPT !.streaming = on] \in Activation
      BY <2>1 DEF Activation
    <2>3. QED
      BY <1>12, <2>2, WithActType DEF setStreaming
  <1>13. ASSUME Sweep
         PROVE  TypeOK'
    <2>1. \A c \in Callers : ratePurge(rate[c]) \in RateEntry
      BY <1>e, RateType
    <2>2. QED
      BY <1>13, <1>0, <2>1, SaveType DEF Sweep, SaveIf
  <1>14. ASSUME Tick
         PROVE  TypeOK'
    BY <1>14 DEF Tick
  <1>15. ASSUME Restart
         PROVE  TypeOK'
    BY <1>15, PruneType DEF Restart, RateEntry, NoEntry
  <1>16. ASSUME CrashMidSave
         PROVE  TypeOK'
    BY <1>16, FreshType DEF CrashMidSave, RateEntry, NoEntry
  <1>17. ASSUME UNCHANGED vars
         PROVE  TypeOK'
    BY <1>17 DEF vars
  <1>18. QED
    BY <1>1, <1>2, <1>3, <1>4, <1>5, <1>6, <1>7, <1>8, <1>9, <1>10, <1>11, <1>12, <1>13,
       <1>14, <1>15, <1>16, <1>17 DEF Next, OwnerStep, redeemPin

\* Type correctness of ShareManager, for every value of its constants.
THEOREM TypeCorrect == Spec => []TypeOK
  <1>1. Init => TypeOK
    BY ShareAssumption, FreshType DEF Init, TypeOK, RateEntry, NoEntry
  <1>2. TypeOK /\ [Next]_vars => TypeOK'
    BY TypeStep
  <1>3. QED
    BY <1>1, <1>2, PTL DEF Spec


-----------------------------------------------------------------------------
(***************************************************************************)
(* The inductive invariant.  Memory, file and history tell one story, as   *)
(* long as writes succeed:                                                 *)
(*   - what a slot holds agrees with what was ever done to its activation  *)
(*     (cookies issued, wrong PINs since the last right one), and no two   *)
(*     slots hold the same activation;                                     *)
(*   - an activation that has not expired is in memory if and only if it   *)
(*     is in the file, with the same contents.                             *)
(* The second part is what makes the first survive a restart.              *)
(***************************************************************************)

Remembers(r) == IsLive(r.act) => r.lastPerms = r.act.perms /\ r.lastTtl = r.act.ttl

\* With n activations minted, k cookies issued and q wrong PINs counted.
Accounted(r, n, k, q) ==
    IsLive(r.act) => /\ r.act.id <= n
                     /\ k[r.act.id] = r.act.cookies
                     /\ q[r.act.id] = r.act.pinFailures
                     /\ r.act.pinFailures < MaxPinFailures

MemOK(f, n, k, q) ==
    /\ \A s \in Slots : Remembers(f[s]) /\ Accounted(f[s], n, k, q)
    /\ \A s, t \in Slots : (s # t /\ IsLive(f[s].act)) => f[s].act.id # f[t].act.id

CountOK(n, k, q) ==
    \A i \in Ids : /\ k[i] <= MaxCookies
                   /\ q[i] <= MaxPinFailures
                   /\ i > n => k[i] = 0 /\ q[i] = 0

Current(a) == IsLive(a) /\ ~IsExpired(a)

DiskOK ==
    \A s \in Slots :
        /\ disk[s].act.streaming = FALSE
        /\ Remembers(disk[s])
        /\ (Current(disk[s].act) \/ Current(slots[s].act)) => disk[s].act = Stored(slots[s].act)

IInv ==
    /\ TypeOK
    /\ MemOK(slots, minted, issued, guesses)
    /\ CountOK(minted, issued, guesses)
    /\ DiskOK

\* What the type of a slot says of the fields of its activation.
LEMMA FieldTypes ==
  ASSUME NEW f \in [Slots -> Slot], NEW t \in Slots
  PROVE  /\ f[t].act \in Activation
         /\ f[t].act.id \in Nat /\ f[t].act.id <= MaxActivations
         /\ f[t].act.cookies \in Nat /\ f[t].act.cookies <= MaxCookies
         /\ f[t].act.pinFailures \in Nat
  <1>1. f[t].act \in Activation
    BY DEF Slot
  <1> DEFINE a == f[t].act
  <1> HIDE DEF a
  <1>2. ASSUME a \in Activation
        PROVE  /\ a.id \in Nat /\ a.id <= MaxActivations
               /\ a.cookies \in Nat /\ a.cookies <= MaxCookies
               /\ a.pinFailures \in Nat
    BY <1>2, ShareAssumption DEF Activation
  <1>3. QED
    BY <1>1, <1>2 DEF a

\* One slot changes: the new memory is in order if that slot is, and if the
\* history of every other activation is left alone.
LEMMA MemUpdate ==
  ASSUME NEW f \in [Slots -> Slot], NEW g \in [Slots -> Slot], NEW s \in Slots,
         NEW n \in Nat, NEW m \in Nat, n <= m,
         NEW k, NEW q, NEW kk, NEW qq,
         MemOK(f, n, k, q),
         \A t \in Slots : t # s => g[t] = f[t],
         Remembers(g[s]), Accounted(g[s], m, kk, qq),
         g[s].act.id \in {0, f[s].act.id, n + 1},
         \A i \in 1..n : i # f[s].act.id => kk[i] = k[i] /\ qq[i] = q[i]
  PROVE  MemOK(g, m, kk, qq)
  <1>0. \A t \in Slots : f[t].act.id \in Nat
    BY FieldTypes
  <1>1. ASSUME NEW t \in Slots
        PROVE  Remembers(g[t]) /\ Accounted(g[t], m, kk, qq)
    <2>1. CASE t = s
      BY <2>1
    <2>2. CASE t # s /\ ~IsLive(f[t].act)
      BY <2>2 DEF Remembers, Accounted
    <2>3. CASE t # s /\ IsLive(f[t].act)
      <3>1. f[t].act.id \in 1..n /\ f[t].act.id # f[s].act.id
        BY <1>0, <2>3 DEF MemOK, Accounted, IsLive
      <3>2. kk[f[t].act.id] = k[f[t].act.id] /\ qq[f[t].act.id] = q[f[t].act.id]
        BY <3>1
      <3>3. f[t].act.id <= m
        BY <3>1
      <3>4. QED
        BY <2>3, <3>2, <3>3 DEF MemOK, Remembers, Accounted
    <2>4. QED
      BY <2>1, <2>2, <2>3
  <1>2. ASSUME NEW t \in Slots, NEW u \in Slots, t # u, IsLive(g[t].act)
        PROVE  g[t].act.id # g[u].act.id
    <2>1. \A v \in Slots : f[v].act.id # n + 1
      BY <1>0 DEF MemOK, Accounted, IsLive
    <2>2. \A v, w \in Slots : (v # w /\ f[v].act.id # 0) => f[v].act.id # f[w].act.id
      BY DEF MemOK, IsLive
    <2>3. CASE t = s
      BY <1>2, <2>1, <2>2, <2>3 DEF IsLive
    <2>4. CASE u = s
      BY <1>2, <2>1, <2>2, <2>4 DEF IsLive
    <2>5. CASE t # s /\ u # s
      BY <1>2, <2>2, <2>5 DEF IsLive
    <2>6. QED
      BY <2>3, <2>4, <2>5
  <1>3. QED
    BY <1>1, <1>2 DEF MemOK

\* Slots that lose their activation, whichever and however many, leave memory
\* in order: pruneExpired, deactivateAll and load's dropping of the expired.
LEMMA MemRestrict ==
  ASSUME NEW f \in [Slots -> Slot], NEW g \in [Slots -> Slot],
         NEW n \in Nat, NEW k, NEW q,
         MemOK(f, n, k, q),
         \A t \in Slots : \/ ~IsLive(g[t].act)
                          \/ /\ g[t].act.id = f[t].act.id
                             /\ Remembers(g[t])
                             /\ Accounted(g[t], n, k, q)
  PROVE  MemOK(g, n, k, q)
  <1>1. \A t \in Slots : Remembers(g[t]) /\ Accounted(g[t], n, k, q)
    BY DEF Remembers, Accounted
  <1>2. \A t, u \in Slots : (t # u /\ IsLive(g[t].act)) => g[t].act.id # g[u].act.id
    BY DEF MemOK, IsLive
  <1>3. QED
    BY <1>1, <1>2 DEF MemOK

\* Pruning keeps memory in order and invents nothing.
LEMMA PruneMem ==
  ASSUME TypeOK, MemOK(slots, minted, issued, guesses)
  PROVE  /\ MemOK(pruneExpired(slots), minted, issued, guesses)
         /\ \A t \in Slots :
               /\ pruneExpired(slots)[t].act \in {slots[t].act, NoActivation}
               /\ pruneExpired(slots)[t].lastPerms = slots[t].lastPerms
               /\ pruneExpired(slots)[t].lastTtl = slots[t].lastTtl
         /\ ~AnyExpired => pruneExpired(slots) = slots
  <1> DEFINE f == pruneExpired(slots)
  <1>1. f \in [Slots -> Slot] /\ slots \in [Slots -> Slot] /\ minted \in Nat
    BY PruneType DEF TypeOK
  <1>2. \A t \in Slots : f[t] = slots[t] \/ f[t] = [slots[t] EXCEPT !.act = NoActivation]
    BY DEF pruneExpired
  <1>3. \A t \in Slots : /\ [slots[t] EXCEPT !.act = NoActivation].act = NoActivation
                         /\ [slots[t] EXCEPT !.act = NoActivation].lastPerms = slots[t].lastPerms
                         /\ [slots[t] EXCEPT !.act = NoActivation].lastTtl = slots[t].lastTtl
    BY <1>1 DEF Slot
  <1>4. ~IsLive(NoActivation)
    BY DEF IsLive, NoActivation
  <1>5. ~AnyExpired => f = slots
    BY <1>1 DEF AnyExpired, pruneExpired
  <1> HIDE DEF f
  <1>6. \A t \in Slots : /\ f[t].act \in {slots[t].act, NoActivation}
                         /\ f[t].lastPerms = slots[t].lastPerms
                         /\ f[t].lastTtl = slots[t].lastTtl
    BY <1>2, <1>3
  <1>7. \A t \in Slots : ~IsLive(f[t].act) \/ f[t] = slots[t]
    BY <1>2, <1>3, <1>4
  <1>8. MemOK(f, minted, issued, guesses)
    <2>1. \A t \in Slots : \/ ~IsLive(f[t].act)
                           \/ /\ f[t].act.id = slots[t].act.id
                              /\ Remembers(f[t])
                              /\ Accounted(f[t], minted, issued, guesses)
      BY <1>7 DEF MemOK
    <2>2. QED
      BY <1>1, <2>1, MemRestrict
  <1>9. QED
    BY <1>5, <1>6, <1>8 DEF f

\* A save brings the file in line with memory.
LEMMA SavedDisk ==
  ASSUME TypeOK', MemOK(slots, minted, issued, guesses)', disk' = Image(slots)'
  PROVE  DiskOK'
  <1>1. ASSUME NEW s \in Slots
        PROVE  /\ disk'[s].act = Stored(slots'[s].act)
               /\ disk'[s].lastPerms = slots'[s].lastPerms
               /\ disk'[s].lastTtl = slots'[s].lastTtl
    BY DEF Image, TypeOK, Slot
  <1>2. ASSUME NEW a \in Activation
        PROVE  /\ Stored(a).streaming = FALSE
               /\ Stored(a).id = a.id
               /\ Stored(a).perms = a.perms
               /\ Stored(a).ttl = a.ttl
    BY DEF Stored, Activation
  <1>3. \A s \in Slots : slots'[s].act \in Activation /\ Remembers(slots'[s])
    BY DEF TypeOK, Slot, MemOK
  <1>4. ASSUME NEW s \in Slots
        PROVE  disk'[s].act.streaming = FALSE /\ Remembers(disk'[s])
    <2> DEFINE a == slots'[s].act
    <2>1. disk'[s].act = Stored(a) /\ a \in Activation
      BY <1>1, <1>3
    <2>2. Stored(a).streaming = FALSE /\ Stored(a).id = a.id /\ Stored(a).perms = a.perms /\ Stored(a).ttl = a.ttl
      BY <2>1, <1>2
    <2>3. disk'[s].act.streaming = FALSE
      BY <2>1, <2>2, Zenon
    <2>4. Remembers(disk'[s])
      BY <1>1, <1>3, <2>1, <2>2 DEF Remembers, IsLive
    <2>5. QED
      BY <2>3, <2>4
  <1>5. QED
    BY <1>1, <1>4 DEF DiskOK


\* The form most steps have: memory becomes g and is saved.
LEMMA SavedStep ==
  ASSUME ~SaveMayFail, TypeOK', NEW g, slots' = g, save(g),
         MemOK(slots, minted, issued, guesses)', CountOK(minted, issued, guesses)'
  PROVE  IInv'
  <1>1. disk' = Image(slots)'
    BY DEF save, Image
  <1>2. QED
    BY <1>1, SavedDisk DEF IInv

\* The form of a step that only prunes, and saves when there was something to.
LEMMA PrunedStep ==
  ASSUME ~SaveMayFail, IInv, TypeOK', slots' = pruneExpired(slots),
         SaveIf(AnyExpired, slots'), UNCHANGED <<now, minted, issued, guesses>>
  PROVE  IInv'
  <1>1. MemOK(slots, minted, issued, guesses)' /\ CountOK(minted, issued, guesses)'
    BY PruneMem DEF IInv
  <1>2. CASE AnyExpired
    <2>1. save(slots')
      BY <1>2 DEF SaveIf
    <2>2. disk' = Image(slots)'
      BY <2>1 DEF save, Image
    <2>3. QED
      BY <1>1, <2>2, SavedDisk DEF IInv
  <1>3. CASE ~AnyExpired
    <2>1. slots' = slots /\ disk' = disk
      BY <1>3, PruneMem DEF IInv, SaveIf
    <2>2. DiskOK'
      BY <2>1 DEF IInv, DiskOK, Current, IsExpired
    <2>3. QED
      BY <1>1, <2>2 DEF IInv
  <1>4. QED
    BY <1>2, <1>3

\* The owner's steps keep the invariant.
LEMMA OwnerInv ==
  ASSUME ~SaveMayFail, IInv, TypeOK', NEW s \in Slots, OwnerStep(s)
  PROVE  IInv'
  <1> DEFINE f == pruneExpired(slots)
  <1>0. /\ f \in [Slots -> Slot] /\ slots' \in [Slots -> Slot]
        /\ MemOK(f, minted, issued, guesses)
        /\ minted \in Nat
    BY PruneType, PruneMem DEF IInv, TypeOK
  <1>1. ASSUME NEW ttl \in TtlChoices, activate(s, ttl)
        PROVE  IInv'
    <2> DEFINE h == clearActivation(f, s)
               a == [NoActivation EXCEPT !.id = minted + 1, !.perms = h[s].lastPerms,
                                         !.ttl = ttl, !.expiresAt = Deadline(ttl)]
               g == [h EXCEPT ![s] = [@ EXCEPT !.lastTtl = ttl, !.act = a]]
    <2>1. /\ slots' = g /\ save(g) /\ minted' = minted + 1 /\ minted < MaxActivations
          /\ UNCHANGED <<now, issued, guesses>>
      BY <1>1 DEF activate
    <2>2. h \in [Slots -> Slot] /\ \A t \in Slots : t # s => h[t] = f[t]
      BY <1>0, WithActType DEF clearActivation, WithAct
    <2>3. /\ a.id = minted + 1 /\ a.perms = h[s].lastPerms /\ a.ttl = ttl
          /\ a.cookies = 0 /\ a.pinFailures = 0
      BY DEF NoActivation
    <2> HIDE DEF a, h
    <2>4. /\ \A t \in Slots : t # s => g[t] = f[t]
          /\ g[s].act = a /\ g[s].lastTtl = ttl /\ g[s].lastPerms = h[s].lastPerms
      BY <2>2 DEF Slot
    <2> HIDE DEF g, f
    <2>5. minted + 1 \in Ids /\ issued[minted + 1] = 0 /\ guesses[minted + 1] = 0
      BY <2>1, <1>0, ShareAssumption DEF IInv, CountOK, Ids
    <2>6. Remembers(g[s]) /\ Accounted(g[s], minted + 1, issued, guesses)
      BY <2>3, <2>4, <2>5, <1>0, ShareAssumption DEF Remembers, Accounted
    <2>7. MemOK(g, minted + 1, issued, guesses)
      BY <1>0, <2>1, <2>3, <2>4, <2>6, MemUpdate
    <2>8. CountOK(minted + 1, issued, guesses)
      BY <1>0 DEF IInv, CountOK, Ids
    <2>9. QED
      BY <2>1, <2>7, <2>8, SavedStep
  <1>2. ASSUME NEW ttl \in TtlChoices, setTtl(s, ttl)
        PROVE  IInv'
    <2> DEFINE d == CappedDeadline(f[s].act.expiresAt, ttl)
               a == IF IsLive(f[s].act)
                    THEN [f[s].act EXCEPT !.ttl = ttl, !.expiresAt = d]
                    ELSE f[s].act
               g == [f EXCEPT ![s] = [@ EXCEPT !.lastTtl = ttl, !.act = a]]
    <2>1. slots' = g /\ save(g) /\ UNCHANGED <<now, minted, issued, guesses>>
      BY <1>2 DEF setTtl
    <2> HIDE DEF d, f
    <2>2. f[s].act \in Activation
      BY <1>0, FieldTypes
    <2>3. /\ a.id = f[s].act.id /\ a.perms = f[s].act.perms /\ (IsLive(f[s].act) => a.ttl = ttl)
          /\ a.cookies = f[s].act.cookies /\ a.pinFailures = f[s].act.pinFailures
      BY <2>2 DEF Activation
    <2> HIDE DEF a
    <2>4. /\ \A t \in Slots : t # s => g[t] = f[t]
          /\ g[s].act = a /\ g[s].lastTtl = ttl /\ g[s].lastPerms = f[s].lastPerms
      BY <1>0 DEF Slot
    <2> HIDE DEF g
    <2>5. Remembers(g[s]) /\ Accounted(g[s], minted, issued, guesses)
      BY <1>0, <2>3, <2>4 DEF MemOK, Remembers, Accounted, IsLive
    <2>6. MemOK(g, minted, issued, guesses)
      BY <1>0, <2>1, <2>3, <2>4, <2>5, MemUpdate
    <2>7. QED
      BY <2>1, <2>6, SavedStep DEF IInv
  <1>3. ASSUME NEW p \in Perms, setPermissions(s, p)
        PROVE  IInv'
    <2> DEFINE a == IF IsLive(f[s].act) THEN [f[s].act EXCEPT !.perms = p] ELSE f[s].act
               g == IF IsLive(a) /\ f[s].act.perms = p
                    THEN f
                    ELSE [f EXCEPT ![s] = [@ EXCEPT !.lastPerms = p, !.act = a]]
    <2>1. slots' = g /\ SaveIf(g # slots, g) /\ UNCHANGED <<now, minted, issued, guesses>>
      BY <1>3 DEF setPermissions
    <2> HIDE DEF f
    <2>2. f[s].act \in Activation
      BY <1>0, FieldTypes
    <2>3. /\ a.id = f[s].act.id /\ a.ttl = f[s].act.ttl /\ (IsLive(f[s].act) => a.perms = p)
          /\ a.cookies = f[s].act.cookies /\ a.pinFailures = f[s].act.pinFailures
      BY <2>2 DEF Activation
    <2> HIDE DEF a
    <2>4. \/ g = f
          \/ /\ \A t \in Slots : t # s => g[t] = f[t]
             /\ g[s].act = a /\ g[s].lastPerms = p /\ g[s].lastTtl = f[s].lastTtl
      BY <1>0 DEF Slot
    <2> HIDE DEF g
    <2>5. MemOK(g, minted, issued, guesses)
      <3>1. CASE g = f
        BY <1>0, <3>1
      <3>2. CASE g # f
        <4>1. Remembers(g[s]) /\ Accounted(g[s], minted, issued, guesses)
          BY <1>0, <2>3, <2>4, <3>2 DEF MemOK, Remembers, Accounted, IsLive
        <4>2. QED
          BY <1>0, <2>1, <2>3, <2>4, <3>2, <4>1, MemUpdate
      <3>3. QED
        BY <3>1, <3>2
    <2>6. CASE g = slots
      <3>1. slots' = slots /\ disk' = disk
        BY <2>1, <2>6 DEF SaveIf
      <3>2. DiskOK'
        BY <2>1, <3>1 DEF IInv, DiskOK, Current, IsExpired
      <3>3. QED
        BY <2>1, <2>5, <3>2 DEF IInv
    <2>7. CASE g # slots
      BY <2>1, <2>5, <2>7, SavedStep DEF IInv, SaveIf
    <2>8. QED
      BY <2>6, <2>7
  <1>4. ASSUME setName(s)
        PROVE  IInv'
    BY <1>4, SavedStep DEF setName, IInv
  <1>5. ASSUME deactivate(s)
        PROVE  IInv'
    <2> DEFINE g == clearActivation(slots, s)
    <2>1. slots' = g /\ save(g) /\ UNCHANGED <<now, minted, issued, guesses>>
      BY <1>5 DEF deactivate
    <2>2. \A t \in Slots : ~IsLive(g[t].act) \/ g[t] = slots[t]
      BY DEF IInv, TypeOK, Slot, clearActivation, WithAct, IsLive, NoActivation
    <2> HIDE DEF g
    <2>3. MemOK(g, minted, issued, guesses)
      <3>1. \A t \in Slots : \/ ~IsLive(g[t].act)
                             \/ /\ g[t].act.id = slots[t].act.id
                                /\ Remembers(g[t])
                                /\ Accounted(g[t], minted, issued, guesses)
        BY <2>2 DEF IInv, MemOK
      <3>2. QED
        BY <1>0, <2>1, <3>1, MemRestrict DEF IInv, TypeOK
    <2>4. QED
      BY <2>1, <2>3, SavedStep DEF IInv
  <1>6. QED
    BY <1>1, <1>2, <1>3, <1>4, <1>5 DEF OwnerStep


\* Counting one more at x, or starting again from zero there, touches x only.
LEMMA CounterStep ==
  ASSUME NEW k \in [Ids -> Nat], NEW x \in Ids
  PROVE  /\ [k EXCEPT ![x] = @ + 1][x] = k[x] + 1
         /\ [k EXCEPT ![x] = 0][x] = 0
         /\ \A i \in Ids : i # x => /\ [k EXCEPT ![x] = @ + 1][i] = k[i]
                                    /\ [k EXCEPT ![x] = 0][i] = k[i]
  OBVIOUS

\* A player's attempt keeps the invariant, whatever pair is offered.
LEMMA RedeemInv ==
  ASSUME ~SaveMayFail, IInv, TypeOK', NEW c \in Callers, redeemPin(c)
  PROVE  IInv'
  <1> DEFINE f == pruneExpired(slots)
  <1>0. /\ f \in [Slots -> Slot] /\ slots' \in [Slots -> Slot]
        /\ MemOK(f, minted, issued, guesses)
        /\ minted \in Nat /\ minted <= MaxActivations
        /\ issued \in [Ids -> Nat] /\ guesses \in [Ids -> Nat]
    BY PruneType, PruneMem DEF IInv, TypeOK
  <1>1. CASE RedeemRateLimited(c)
    BY <1>1, PrunedStep DEF RedeemRateLimited
  <1>2. ASSUME NEW i \in Ids, RedeemUnknown(c, i)
        PROVE  IInv'
    BY <1>2, PrunedStep DEF RedeemUnknown
  <1>3. ASSUME NEW s \in Slots, RedeemWrongPin(c, s)
        PROVE  IInv'
    <2> DEFINE x == f[s].act.id
               n == f[s].act.pinFailures + 1
               a == [f[s].act EXCEPT !.pinFailures = n]
               g == IF n >= MaxPinFailures THEN clearActivation(f, s) ELSE WithAct(f, s, a)
    <2>1. /\ slots' = g /\ save(g) /\ IsLive(f[s].act)
          /\ guesses' = [guesses EXCEPT ![x] = @ + 1]
          /\ UNCHANGED <<now, minted, issued>>
      BY <1>3 DEF RedeemWrongPin
    <2> HIDE DEF f
    <2>2. /\ f[s].act \in Activation /\ x \in Nat /\ x <= MaxActivations
          /\ f[s].act.pinFailures \in Nat /\ n \in Nat
      BY <1>0, FieldTypes
    <2>3. x \in Ids /\ x <= minted /\ issued[x] = f[s].act.cookies /\ guesses[x] = f[s].act.pinFailures
          /\ f[s].act.pinFailures < MaxPinFailures
      BY <1>0, <2>1, <2>2 DEF MemOK, Accounted, IsLive, Ids
    <2>4. /\ a.id = x /\ a.cookies = f[s].act.cookies /\ a.pinFailures = n
          /\ a.perms = f[s].act.perms /\ a.ttl = f[s].act.ttl
      BY <2>2 DEF Activation
    <2>5. /\ guesses'[x] = n
          /\ \A i \in Ids : i # x => guesses'[i] = guesses[i]
      BY <1>0, <2>1, <2>3, CounterStep
    <2> HIDE DEF a, n
    <2>6. /\ \A t \in Slots : t # s => g[t] = f[t]
          /\ \/ g[s].act = NoActivation
             \/ /\ n < MaxPinFailures
                /\ g[s].act = a /\ g[s].lastPerms = f[s].lastPerms /\ g[s].lastTtl = f[s].lastTtl
      BY <1>0, <2>2, ShareAssumption DEF Slot, clearActivation, WithAct
    <2> HIDE DEF g
    <2>7. /\ Remembers(g[s]) /\ Accounted(g[s], minted, issued, guesses')
          /\ g[s].act.id \in {0, x}
      <3>1. CASE g[s].act = NoActivation
        BY <3>1 DEF Remembers, Accounted, IsLive, NoActivation
      <3>2. CASE g[s].act # NoActivation
        <4>1. Remembers(g[s])
          BY <1>0, <2>1, <2>4, <2>6, <3>2 DEF MemOK, Remembers
        <4>2. QED
          BY <2>3, <2>4, <2>5, <2>6, <3>2, <4>1 DEF Accounted
      <3>3. QED
        BY <3>1, <3>2
    <2>8. MemOK(g, minted, issued, guesses')
      <3>1. \A i \in 1..minted : i # f[s].act.id => issued[i] = issued[i] /\ guesses'[i] = guesses[i]
        BY <1>0, <2>5, ShareAssumption DEF Ids
      <3>2. /\ f \in [Slots -> Slot] /\ g \in [Slots -> Slot] /\ minted \in Nat /\ minted <= minted
            /\ MemOK(f, minted, issued, guesses)
            /\ \A t \in Slots : t # s => g[t] = f[t]
            /\ g[s].act.id \in {0, f[s].act.id, minted + 1}
        BY <1>0, <2>1, <2>6, <2>7
      <3>3. QED
        BY <2>7, <3>1, <3>2, MemUpdate
    <2>9. CountOK(minted, issued, guesses')
      <3>1. n <= MaxPinFailures
        BY <2>2, <2>3, ShareAssumption DEF n
      <3>2. QED
        BY <1>0, <2>3, <2>5, <3>1 DEF IInv, CountOK, Ids
    <2>10. QED
      BY <2>1, <2>8, <2>9, SavedStep
  <1>4. ASSUME NEW s \in Slots, RedeemRightPin(c, s)
        PROVE  IInv'
    <2> DEFINE x == f[s].act.id
               a == [f[s].act EXCEPT !.pinFailures = 0]
               full == a.cookies >= MaxCookies
               b == IF full THEN [a EXCEPT !.refused = TRUE] ELSE [a EXCEPT !.cookies = @ + 1]
               g == WithAct(f, s, b)
    <2>1. /\ slots' = g /\ save(g) /\ IsLive(a)
          /\ guesses' = [guesses EXCEPT ![a.id] = 0]
          /\ issued' = IF full THEN issued ELSE [issued EXCEPT ![a.id] = @ + 1]
          /\ UNCHANGED <<now, minted>>
      BY <1>4 DEF RedeemRightPin
    <2> HIDE DEF f
    <2>2. /\ f[s].act \in Activation /\ x \in Nat /\ x <= MaxActivations
          /\ f[s].act.cookies \in Nat
      BY <1>0, FieldTypes
    <2>3. /\ a.id = x /\ a.cookies = f[s].act.cookies /\ a.pinFailures = 0
          /\ a.perms = f[s].act.perms /\ a.ttl = f[s].act.ttl /\ a \in Activation
      BY <2>2, ShareAssumption DEF Activation
    <2>4. x \in Ids /\ x <= minted /\ issued[x] = a.cookies
      BY <1>0, <2>1, <2>2, <2>3 DEF MemOK, Accounted, IsLive, Ids
    <2> HIDE DEF a
    <2>5. /\ b.id = x /\ b.pinFailures = 0 /\ b.perms = a.perms /\ b.ttl = a.ttl
          /\ b.cookies = IF full THEN a.cookies ELSE a.cookies + 1
      BY <2>3 DEF Activation
    <2>6. /\ guesses'[x] = 0 /\ issued'[x] = b.cookies
          /\ \A i \in Ids : i # x => guesses'[i] = guesses[i] /\ issued'[i] = issued[i]
      BY <1>0, <2>1, <2>3, <2>4, <2>5, CounterStep
    <2>7. b.cookies <= MaxCookies /\ b.cookies \in Nat
      BY <2>2, <2>3, <2>4, <2>5, ShareAssumption DEF IInv, CountOK
    <2> HIDE DEF b
    <2>8. /\ \A t \in Slots : t # s => g[t] = f[t]
          /\ g[s].act = b /\ g[s].lastPerms = f[s].lastPerms /\ g[s].lastTtl = f[s].lastTtl
      BY <1>0 DEF Slot, WithAct
    <2> HIDE DEF g
    <2>9. Remembers(g[s]) /\ Accounted(g[s], minted, issued', guesses')
      <3>1. Remembers(g[s])
        BY <1>0, <2>1, <2>3, <2>5, <2>8 DEF MemOK, Remembers, IsLive
      <3>2. QED
        BY <2>4, <2>5, <2>6, <2>8, <3>1, ShareAssumption DEF Accounted
    <2>10. MemOK(g, minted, issued', guesses')
      <3>1. \A i \in 1..minted : i # f[s].act.id => issued'[i] = issued[i] /\ guesses'[i] = guesses[i]
        BY <1>0, <2>6, ShareAssumption DEF Ids
      <3>2. g[s].act.id = f[s].act.id
        BY <2>5, <2>8
      <3>3. /\ f \in [Slots -> Slot] /\ g \in [Slots -> Slot] /\ minted \in Nat /\ minted <= minted
            /\ MemOK(f, minted, issued, guesses)
            /\ \A t \in Slots : t # s => g[t] = f[t]
            /\ g[s].act.id \in {0, f[s].act.id, minted + 1}
        BY <1>0, <2>1, <2>8, <3>2
      <3>4. QED
        BY <2>9, <3>1, <3>3, MemUpdate
    <2>11. CountOK(minted, issued', guesses')
      <3>1. ASSUME NEW i \in Ids
            PROVE  /\ issued'[i] <= MaxCookies /\ guesses'[i] <= MaxPinFailures
                   /\ i > minted => issued'[i] = 0 /\ guesses'[i] = 0
        <4>1. CASE i = x
          BY <1>0, <2>4, <2>6, <2>7, <4>1, ShareAssumption DEF Ids
        <4>2. CASE i # x
          BY <2>6, <4>2 DEF IInv, CountOK
        <4>3. QED
          BY <4>1, <4>2
      <3>2. QED
        BY <3>1 DEF CountOK
    <2>12. QED
      BY <2>1, <2>10, <2>11, SavedStep
  <1>5. QED
    BY <1>1, <1>2, <1>3, <1>4 DEF redeemPin

\* load() gives back exactly the activations that memory held and that have not
\* expired, as memory held them but for the streaming flag.
LEMMA LoadFacts ==
  ASSUME IInv, NEW s \in Slots, IsLive(load(disk)[s].act)
  PROVE  /\ load(disk)[s] = disk[s]
         /\ disk[s].act = Stored(slots[s].act)
         /\ Current(disk[s].act)
  <1>1. ~IsLive(NoActivation)
    BY DEF IsLive, NoActivation
  <1>2. [disk[s] EXCEPT !.act = NoActivation].act = NoActivation
    BY DEF IInv, TypeOK, Slot
  <1>3. ~IsExpired(disk[s].act) /\ load(disk)[s] = disk[s]
    BY <1>1, <1>2 DEF load
  <1>4. Current(disk[s].act)
    BY <1>3 DEF Current
  <1>5. QED
    BY <1>3, <1>4 DEF IInv, DiskOK

\* Streaming flags, timers, the clock and restarts keep the invariant.
LEMMA OtherInv ==
  ASSUME ~SaveMayFail, IInv, TypeOK',
         \/ deactivateAll \/ Query \/ Sweep \/ Tick \/ Restart \/ CrashMidSave
         \/ \E s \in Slots, on \in BOOLEAN : setStreaming(s, on)
         \/ UNCHANGED vars
  PROVE  IInv'
  <1>0. /\ slots \in [Slots -> Slot] /\ slots' \in [Slots -> Slot] /\ disk \in [Slots -> Slot]
        /\ minted \in Nat
        /\ MemOK(slots, minted, issued, guesses) /\ CountOK(minted, issued, guesses)
        /\ ~IsLive(NoActivation)
    BY DEF IInv, TypeOK, IsLive, NoActivation
  <1>1. CASE deactivateAll
    <2>1. \A t \in Slots : ~IsLive(slots'[t].act)
      BY <1>0, <1>1 DEF deactivateAll, Slot
    <2>2. MemOK(slots, minted, issued, guesses)' /\ CountOK(minted, issued, guesses)'
      BY <1>0, <1>1, <2>1 DEF deactivateAll, MemOK, Remembers, Accounted
    <2>3. disk' = Image(slots)'
      BY <1>1 DEF deactivateAll, save, Image
    <2>4. QED
      BY <2>2, <2>3, SavedDisk DEF IInv
  <1>2. CASE Query
    BY <1>2, PrunedStep DEF Query, SaveIf
  <1>3. CASE Sweep
    BY <1>3, PrunedStep DEF Sweep
  <1>4. CASE Tick
    <2>1. \A a \in Activation : Current(a)' => Current(a)
      BY <1>4 DEF Tick, Current, IsExpired, IsLive, IInv, TypeOK, Activation
    <2>2. \A s \in Slots : slots[s].act \in Activation /\ disk[s].act \in Activation
      BY <1>0, FieldTypes
    <2>3. UNCHANGED <<slots, disk, minted, issued, guesses>>
      BY <1>4 DEF Tick
    <2>4. DiskOK'
      BY <2>1, <2>2, <2>3 DEF IInv, DiskOK
    <2>5. QED
      BY <1>0, <2>3, <2>4 DEF IInv
  <1>5. CASE Restart
    <2>1. slots' = load(disk) /\ UNCHANGED <<disk, now, minted, issued, guesses>>
      BY <1>5 DEF Restart
    <2>2. ASSUME NEW s \in Slots, IsLive(slots'[s].act)
          PROVE  /\ slots'[s] = disk[s]
                 /\ slots'[s].act.id = slots[s].act.id
                 /\ Remembers(slots'[s])
                 /\ Accounted(slots'[s], minted, issued, guesses)
      <3>1. slots'[s] = disk[s] /\ disk[s].act = Stored(slots[s].act)
        BY <2>1, <2>2, LoadFacts
      <3>2. slots[s].act \in Activation
        BY <1>0, FieldTypes
      <3>3. /\ Stored(slots[s].act).id = slots[s].act.id
            /\ Stored(slots[s].act).cookies = slots[s].act.cookies
            /\ Stored(slots[s].act).pinFailures = slots[s].act.pinFailures
        BY <3>2 DEF Stored, Activation
      <3>4. Remembers(slots'[s])
        BY <3>1 DEF IInv, DiskOK
      <3>5. QED
        BY <1>0, <2>2, <3>1, <3>3, <3>4 DEF MemOK, Accounted, IsLive
    <2>3. MemOK(slots', minted, issued, guesses)
      BY <1>0, <2>2, MemRestrict
    <2>4. DiskOK'
      <3>1. ASSUME NEW s \in Slots, Current(disk[s].act) \/ Current(slots'[s].act)
            PROVE  disk[s].act = Stored(slots'[s].act)
        <4>1. slots'[s] = disk[s]
          <5>1. CASE Current(disk[s].act)
            BY <2>1, <5>1 DEF load, Current
          <5>2. CASE Current(slots'[s].act)
            BY <2>2, <5>2 DEF Current
          <5>3. QED
            BY <3>1, <5>1, <5>2
        <4>2. disk[s].act \in Activation /\ disk[s].act.streaming = FALSE
          BY <1>0, FieldTypes DEF IInv, DiskOK
        <4>3. Stored(disk[s].act) = disk[s].act
          BY <4>2 DEF Stored, Activation
        <4>4. QED
          BY <4>1, <4>3
      <3>2. QED
        BY <2>1, <3>1 DEF IInv, DiskOK, Current, IsExpired
    <2>5. QED
      BY <1>0, <2>1, <2>3, <2>4 DEF IInv
  <1>6. CASE CrashMidSave
    <2>1. /\ slots' = NoFile /\ disk' = NoFile /\ UNCHANGED <<now, minted, issued, guesses>>
      BY <1>6 DEF CrashMidSave
    <2>2. \A s \in Slots : NoFile[s].act = NoActivation /\ NoFile[s].act.streaming = FALSE
      BY DEF NoFile, FreshSlot, NoActivation
    <2>3. MemOK(slots, minted, issued, guesses)'
      BY <1>0, <2>1, <2>2 DEF MemOK, Remembers, Accounted
    <2>4. DiskOK'
      BY <1>0, <2>1, <2>2 DEF DiskOK, Current, Remembers
    <2>5. QED
      BY <1>0, <2>1, <2>3, <2>4 DEF IInv
  <1>7. ASSUME NEW s \in Slots, NEW on \in BOOLEAN, setStreaming(s, on)
        PROVE  IInv'
    <2> DEFINE a == [slots[s].act EXCEPT !.streaming = on]
    <2>1. slots' = WithAct(slots, s, a) /\ UNCHANGED <<disk, now, minted, issued, guesses>>
      BY <1>7 DEF setStreaming
    <2>2. slots[s].act \in Activation
      BY <1>0, FieldTypes
    <2>3. /\ a.id = slots[s].act.id /\ a.cookies = slots[s].act.cookies
          /\ a.pinFailures = slots[s].act.pinFailures /\ a.perms = slots[s].act.perms
          /\ a.ttl = slots[s].act.ttl /\ a.expiresAt = slots[s].act.expiresAt
      BY <2>2 DEF Activation
    <2>4. Stored(a) = Stored(slots[s].act)
      BY <2>2 DEF Stored, Activation
    <2> HIDE DEF a
    <2>5. /\ \A t \in Slots : t # s => slots'[t] = slots[t]
          /\ slots'[s].act = a /\ slots'[s].lastPerms = slots[s].lastPerms
          /\ slots'[s].lastTtl = slots[s].lastTtl
      BY <1>0, <2>1 DEF WithAct, Slot
    <2>6. Remembers(slots'[s]) /\ Accounted(slots'[s], minted, issued, guesses)
      BY <1>0, <2>3, <2>5 DEF MemOK, Remembers, Accounted, IsLive
    <2>7. MemOK(slots', minted, issued, guesses)
      BY <1>0, <2>3, <2>5, <2>6, MemUpdate
    <2>8. DiskOK'
      <3>1. \A t \in Slots : /\ Stored(slots'[t].act) = Stored(slots[t].act)
                             /\ Current(slots'[t].act) <=> Current(slots[t].act)
        BY <2>3, <2>4, <2>5 DEF Current, IsLive, IsExpired
      <3>2. QED
        BY <2>1, <3>1 DEF IInv, DiskOK, Current, IsExpired
    <2>9. QED
      BY <1>0, <2>1, <2>7, <2>8 DEF IInv
  <1>8. CASE UNCHANGED vars
    BY <1>0, <1>8 DEF vars, IInv, DiskOK, Current, IsExpired
  <1>9. QED
    BY <1>1, <1>2, <1>3, <1>4, <1>5, <1>6, <1>7, <1>8


-----------------------------------------------------------------------------
(***************************************************************************)
(* What follows, when share.json can be written (~SaveMayFail).  A crash   *)
(* inside save() is allowed: it loses invitations and gives none back.     *)
(***************************************************************************)

\* The inductive invariant: memory, file and history agree.
THEOREM Bookkeeping == ASSUME ~SaveMayFail PROVE Spec => []IInv
  <1>1. Init => IInv
    <2> SUFFICES ASSUME Init PROVE IInv
      OBVIOUS
    <2>1. TypeOK
      BY ShareAssumption, FreshType DEF Init, TypeOK, RateEntry, NoEntry
    <2>2. \A s \in Slots : NoFile[s].act = NoActivation /\ NoFile[s].act.streaming = FALSE
      BY DEF NoFile, FreshSlot, NoActivation
    <2>3. ~IsLive(NoActivation)
      BY DEF IsLive, NoActivation
    <2>4. MemOK(slots, minted, issued, guesses)
      BY <2>2, <2>3 DEF Init, MemOK, Remembers, Accounted
    <2>5. CountOK(minted, issued, guesses)
      BY ShareAssumption DEF Init, CountOK
    <2>6. DiskOK
      BY <2>2, <2>3 DEF Init, DiskOK, Current, Remembers
    <2>7. QED
      BY <2>1, <2>4, <2>5, <2>6 DEF IInv
  <1>2. IInv /\ [Next]_vars => IInv'
    <2> SUFFICES ASSUME IInv, [Next]_vars PROVE IInv'
      OBVIOUS
    <2>1. TypeOK'
      BY TypeStep DEF IInv
    <2>2. QED
      BY <2>1, OwnerInv, RedeemInv, OtherInv DEF Next
  <1>3. QED
    BY <1>1, <1>2, PTL DEF Spec

\* No more than kMaxPinFailures wrong PINs are ever compared with one
\* activation between two right ones, across restarts, whoever sends them.
THEOREM GuessesBounded == ASSUME ~SaveMayFail PROVE Spec => []GuessBudget
  <1>1. IInv => GuessBudget
    <2> SUFFICES ASSUME IInv PROVE GuessBudget
      OBVIOUS
    <2>1. \A s \in Slots : slots[s].act.id # 0 => guesses[slots[s].act.id] < MaxPinFailures
      BY DEF IInv, MemOK, Accounted, IsLive
    <2>2. QED
      BY <2>1 DEF IInv, CountOK, GuessBudget, LiveIds
  <1>2. QED
    BY <1>1, Bookkeeping, PTL

\* An activation hands out at most kMaxCookiesPerActivation cookies in its life.
THEOREM OneDevice == ASSUME ~SaveMayFail PROVE Spec => []OneDevicePerInvitation
  <1>1. IInv => OneDevicePerInvitation
    BY DEF IInv, CountOK, OneDevicePerInvitation
  <1>2. QED
    BY <1>1, Bookkeeping, PTL

\* A live activation enforces what its row remembers, in memory and on disk.
THEOREM BoardConsistent == ASSUME ~SaveMayFail PROVE Spec => []BoardRemembers
  <1>1. IInv => BoardRemembers
    BY DEF IInv, MemOK, DiskOK, Remembers, BoardRemembers
  <1>2. QED
    BY <1>1, Bookkeeping, PTL

\* A step leaves in each slot the activation it had, none, or the next one.
LEMMA IdStep ==
  ASSUME IInv, [Next]_vars, NEW t \in Slots
  PROVE  slots'[t].act.id \in {0, slots[t].act.id, minted + 1}
  <1> DEFINE f == pruneExpired(slots)
  <1>0. /\ f \in [Slots -> Slot] /\ slots \in [Slots -> Slot]
        /\ \A u \in Slots : f[u].act.id \in {0, slots[u].act.id}
    BY PruneType, PruneMem DEF IInv, TypeOK, NoActivation
  <1>1. ASSUME NEW s \in Slots, NEW ttl \in TtlChoices, activate(s, ttl)
        PROVE  slots'[t].act.id \in {0, slots[t].act.id, minted + 1}
    <2> DEFINE h == clearActivation(f, s)
               a == [NoActivation EXCEPT !.id = minted + 1, !.perms = h[s].lastPerms,
                                         !.ttl = ttl, !.expiresAt = Deadline(ttl)]
    <2>1. slots' = [h EXCEPT ![s] = [@ EXCEPT !.lastTtl = ttl, !.act = a]]
      BY <1>1 DEF activate
    <2>2. h \in [Slots -> Slot] /\ (t # s => h[t] = f[t])
      BY <1>0, WithActType DEF clearActivation, WithAct
    <2>3. a.id = minted + 1
      BY DEF NoActivation
    <2> HIDE DEF a, h, f
    <2>4. IF t = s THEN slots'[t].act = a ELSE slots'[t] = f[t]
      BY <2>1, <2>2 DEF Slot
    <2>5. QED
      BY <1>0, <2>3, <2>4
  <1>2. ASSUME NEW s \in Slots, NEW ttl \in TtlChoices, setTtl(s, ttl)
        PROVE  slots'[t].act.id \in {0, slots[t].act.id}
    <2> DEFINE d == CappedDeadline(f[s].act.expiresAt, ttl)
               a == IF IsLive(f[s].act)
                    THEN [f[s].act EXCEPT !.ttl = ttl, !.expiresAt = d]
                    ELSE f[s].act
    <2>1. slots' = [f EXCEPT ![s] = [@ EXCEPT !.lastTtl = ttl, !.act = a]]
      BY <1>2 DEF setTtl
    <2> HIDE DEF d, f
    <2>2. a.id = f[s].act.id
      BY <1>0, FieldTypes DEF Activation
    <2> HIDE DEF a
    <2>3. IF t = s THEN slots'[t].act = a ELSE slots'[t] = f[t]
      BY <1>0, <2>1 DEF Slot
    <2>4. QED
      BY <1>0, <2>2, <2>3
  <1>3. ASSUME NEW s \in Slots, NEW p \in Perms, setPermissions(s, p)
        PROVE  slots'[t].act.id \in {0, slots[t].act.id}
    <2> DEFINE a == IF IsLive(f[s].act) THEN [f[s].act EXCEPT !.perms = p] ELSE f[s].act
    <2>1. \/ slots' = f
          \/ slots' = [f EXCEPT ![s] = [@ EXCEPT !.lastPerms = p, !.act = a]]
      BY <1>3 DEF setPermissions
    <2> HIDE DEF f
    <2>2. a.id = f[s].act.id
      BY <1>0, FieldTypes DEF Activation
    <2> HIDE DEF a
    <2>3. slots'[t] = f[t] \/ (t = s /\ slots'[t].act = a)
      BY <1>0, <2>1 DEF Slot
    <2>4. QED
      BY <1>0, <2>2, <2>3
  <1>4. ASSUME NEW s \in Slots, deactivate(s)
        PROVE  slots'[t].act.id \in {0, slots[t].act.id}
    BY <1>0, <1>4 DEF deactivate, clearActivation, WithAct, NoActivation, Slot
  <1>5. ASSUME deactivateAll
        PROVE  slots'[t].act.id \in {0, slots[t].act.id}
    BY <1>0, <1>5 DEF deactivateAll, NoActivation, Slot
  <1>6. ASSUME slots' = f \/ slots' = slots \/ slots' = NoFile
        PROVE  slots'[t].act.id \in {0, slots[t].act.id}
    <2>1. NoFile[t].act.id = 0
      BY DEF NoFile, FreshSlot, NoActivation
    <2>2. QED
      BY <1>0, <1>6, <2>1
  <1>7. ASSUME NEW c \in Callers, NEW s \in Slots, RedeemWrongPin(c, s)
        PROVE  slots'[t].act.id \in {0, slots[t].act.id}
    <2> DEFINE n == f[s].act.pinFailures + 1
               a == [f[s].act EXCEPT !.pinFailures = n]
    <2>1. slots' = clearActivation(f, s) \/ slots' = WithAct(f, s, a)
      BY <1>7 DEF RedeemWrongPin
    <2> HIDE DEF f, n
    <2>2. a.id = f[s].act.id /\ NoActivation.id = 0
      BY <1>0, FieldTypes DEF Activation, NoActivation
    <2> HIDE DEF a
    <2>3. slots'[t] = f[t] \/ (t = s /\ slots'[t].act \in {a, NoActivation})
      BY <1>0, <2>1 DEF Slot, clearActivation, WithAct
    <2>4. QED
      BY <1>0, <2>2, <2>3
  <1>8. ASSUME NEW c \in Callers, NEW s \in Slots, RedeemRightPin(c, s)
        PROVE  slots'[t].act.id \in {0, slots[t].act.id}
    <2> DEFINE a == [f[s].act EXCEPT !.pinFailures = 0]
               b == IF a.cookies >= MaxCookies THEN [a EXCEPT !.refused = TRUE]
                                               ELSE [a EXCEPT !.cookies = @ + 1]
    <2>1. slots' = WithAct(f, s, b)
      BY <1>8 DEF RedeemRightPin
    <2> HIDE DEF f
    <2>2. a.id = f[s].act.id /\ a \in Activation
      BY <1>0, FieldTypes, ShareAssumption DEF Activation
    <2> HIDE DEF a
    <2>3. b.id = a.id
      BY <2>2 DEF Activation
    <2> HIDE DEF b
    <2>4. slots'[t] = f[t] \/ (t = s /\ slots'[t].act = b)
      BY <1>0, <2>1 DEF Slot, WithAct
    <2>5. QED
      BY <1>0, <2>2, <2>3, <2>4
  <1>9. ASSUME NEW s \in Slots, NEW on \in BOOLEAN, setStreaming(s, on)
        PROVE  slots'[t].act.id \in {0, slots[t].act.id}
    <2> DEFINE a == [slots[s].act EXCEPT !.streaming = on]
    <2>1. slots' = WithAct(slots, s, a)
      BY <1>9 DEF setStreaming
    <2>2. a.id = slots[s].act.id
      BY <1>0, FieldTypes DEF Activation
    <2> HIDE DEF a
    <2>3. slots'[t] = slots[t] \/ (t = s /\ slots'[t].act = a)
      BY <1>0, <2>1 DEF Slot, WithAct
    <2>4. QED
      BY <2>2, <2>3
  <1>10. ASSUME Restart
         PROVE  slots'[t].act.id \in {0, slots[t].act.id}
    <2>1. CASE ~IsLive(load(disk)[t].act)
      BY <1>10, <2>1 DEF Restart, IsLive
    <2>2. CASE IsLive(load(disk)[t].act)
      <3>1. slots'[t].act = Stored(slots[t].act)
        BY <1>10, <2>2, LoadFacts DEF Restart
      <3>2. QED
        BY <1>0, <3>1, FieldTypes DEF Stored, Activation
    <2>3. QED
      BY <2>1, <2>2
  <1>11. QED
    <2> HIDE DEF f
    <2>1. slots'[t].act.id \in {0, slots[t].act.id} => slots'[t].act.id \in {0, slots[t].act.id, minted + 1}
      OBVIOUS
    <2>2. CASE \E s \in Slots : OwnerStep(s)
      BY <2>1, <2>2, <1>1, <1>2, <1>3, <1>4, <1>6 DEF OwnerStep, setName
    <2>3. CASE \E c \in Callers : redeemPin(c)
      BY <2>1, <2>3, <1>6, <1>7, <1>8 DEF redeemPin, RedeemRateLimited, RedeemUnknown, f
    <2>4. CASE Query \/ Sweep \/ Tick \/ CrashMidSave \/ UNCHANGED vars
      BY <2>1, <2>4, <1>6 DEF Query, Sweep, Tick, CrashMidSave, vars, f
    <2>5. QED
      BY <2>1, <2>2, <2>3, <2>4, <1>5, <1>9, <1>10 DEF Next

\* What was revoked, replaced, expired or locked out stays so: no step, a
\* restart included, makes an activation live again.
THEOREM Final == ASSUME ~SaveMayFail PROVE Spec => NoResurrection
  <1>1. IInv /\ [Next]_vars
          => [\A i \in 1..minted : i \notin LiveIds(slots) => i \notin LiveIds(slots)']_vars
    <2> SUFFICES ASSUME IInv, [Next]_vars, NEW i \in 1..minted, i \notin LiveIds(slots)
                 PROVE  i \notin LiveIds(slots)'
      OBVIOUS
    <2>1. minted \in Nat
      BY DEF IInv, TypeOK
    <2>2. \A t \in Slots : slots'[t].act.id # i
      BY <2>1, IdStep DEF LiveIds
    <2>3. QED
      BY <2>2 DEF LiveIds
  <1>2. QED
    BY <1>1, Bookkeeping, PTL DEF Spec, NoResurrection

-----------------------------------------------------------------------------
(***************************************************************************)
(* The lockout ladder.  It needs nothing of the file: the buckets live in  *)
(* memory.  The invariant is that a bucket which has reached a tier is     *)
(* locked for that tier's time after its last failure; decay and success   *)
(* only take failures away.                                                *)
(***************************************************************************)

Climbed(e) ==
    /\ e.failures >= Tier1 => e.lockoutUntil >= e.lastFailure + LockShort
    /\ e.failures >= Tier2 => e.lockoutUntil >= e.lastFailure + LockMedium
    /\ e.failures >= Tier3 => e.lockoutUntil >= e.lastFailure + LockLong

Ladder == \A c \in Callers : Climbed(rate[c])

\* An entry that is recorded in, decayed or dropped still serves its tier, and
\* only a failure adds to it.
LEMMA LadderEntry ==
  ASSUME NEW e \in RateEntry, TypeOK, Climbed(e)
  PROVE  /\ Climbed(rateRecord(e, FALSE)) /\ Climbed(rateRecord(e, TRUE))
         /\ Climbed(ratePurge(e)) /\ Climbed(NoEntry)
         /\ rateRecord(e, TRUE).failures <= e.failures
         /\ ratePurge(e).failures <= e.failures
         /\ NoEntry.failures <= e.failures
  <1>1. /\ e.failures \in Nat /\ e.lastFailure \in Nat /\ e.lockoutUntil \in Nat
        /\ now \in Nat
    BY ShareAssumption DEF RateEntry, TypeOK
  <1>2. Climbed(rateRecord(e, FALSE))
    BY <1>1, ShareAssumption DEF rateRecord, Climbed
  <1>3. Climbed(NoEntry) /\ NoEntry.failures <= e.failures
    BY <1>1, ShareAssumption DEF NoEntry, Climbed
  <1>4. Climbed(rateRecord(e, TRUE)) /\ rateRecord(e, TRUE).failures <= e.failures
    <2>1. rateRecord(e, TRUE).failures = 0
      BY DEF rateRecord, RateEntry
    <2>2. ~(0 >= Tier1) /\ ~(0 >= Tier2) /\ ~(0 >= Tier3) /\ 0 <= e.failures
      BY <1>1, ShareAssumption
    <2>3. QED
      BY <2>1, <2>2, Zenon DEF Climbed
  <1>5. Climbed(ratePurge(e)) /\ ratePurge(e).failures <= e.failures
    <2> DEFINE d == [e EXCEPT !.failures = @ - 1]
    <2>1. /\ d.failures = e.failures - 1 /\ d.lastFailure = e.lastFailure
          /\ d.lockoutUntil = e.lockoutUntil
      BY DEF RateEntry
    <2>2. ratePurge(e) \in {NoEntry, d, e}
      BY DEF ratePurge
    <2> HIDE DEF d
    <2>3. Climbed(d) /\ d.failures <= e.failures
      BY <1>1, <2>1, ShareAssumption DEF Climbed
    <2>4. QED
      BY <1>1, <1>3, <2>2, <2>3
  <1>6. QED
    BY <1>2, <1>3, <1>4, <1>5

\* What a step does to a caller's bucket: nothing, an attempt that was let
\* through, a decay, or a new start.
LEMMA RateMoves ==
  ASSUME TypeOK, [Next]_vars, NEW c \in Callers
  PROVE  \/ rate'[c] \in {rate[c], rateRecord(rate[c], TRUE), ratePurge(rate[c]), NoEntry}
         \/ rate'[c] = rateRecord(rate[c], FALSE) /\ ~rateLockout(c)
  <1> USE DEF TypeOK
  <1>1. ASSUME NEW d \in Callers, redeemPin(d)
        PROVE  \/ rate'[c] \in {rate[c], rateRecord(rate[c], TRUE)}
               \/ rate'[c] = rateRecord(rate[c], FALSE) /\ ~rateLockout(c)
    <2>1. \/ rate' = rate
          \/ rate' = [rate EXCEPT ![d] = rateRecord(rate[d], TRUE)]
          \/ rate' = [rate EXCEPT ![d] = rateRecord(rate[d], FALSE)] /\ ~rateLockout(d)
      BY <1>1 DEF redeemPin, RedeemRateLimited, RedeemUnknown, RedeemWrongPin, RedeemRightPin
    <2>2. QED
      BY <2>1
  <1>2. CASE \E s \in Slots : OwnerStep(s)
    BY <1>2 DEF OwnerStep, activate, setTtl, setPermissions, setName, deactivate
  <1>3. CASE deactivateAll \/ Query \/ Tick \/ UNCHANGED vars
    BY <1>3 DEF deactivateAll, Query, Tick, vars
  <1>4. CASE \E s \in Slots, on \in BOOLEAN : setStreaming(s, on)
    BY <1>4 DEF setStreaming
  <1>5. CASE Sweep \/ Restart \/ CrashMidSave
    BY <1>5 DEF Sweep, Restart, CrashMidSave
  <1>6. QED
    BY <1>1, <1>2, <1>3, <1>4, <1>5 DEF Next

\* A tier once reached is served: the next wrong attempt of that caller is not
\* looked at before its lockout has run.  Saves may fail, the process may stop.
THEOREM LockoutServed == Spec => LadderHolds
  <1> DEFINE Inv == TypeOK /\ Ladder
  <1>1. Init => Inv
    <2>1. Init => TypeOK
      BY ShareAssumption, FreshType DEF Init, TypeOK, RateEntry, NoEntry
    <2>2. Init => Ladder
      BY ShareAssumption DEF Init, Ladder, Climbed, NoEntry
    <2>3. QED
      BY <2>1, <2>2
  <1>2. Inv /\ [Next]_vars => Inv'
    <2> SUFFICES ASSUME Inv, [Next]_vars PROVE Inv'
      OBVIOUS
    <2>1. ASSUME NEW c \in Callers
          PROVE  Climbed(rate'[c])
      <3>1. rate[c] \in RateEntry /\ Climbed(rate[c])
        BY DEF TypeOK, Ladder
      <3>2. QED
        BY <3>1, RateMoves, LadderEntry
    <2>2. Ladder'
      BY <2>1 DEF Ladder, Climbed
    <2>3. QED
      BY <2>2, TypeStep
  <1>3. Inv /\ [Next]_vars => [\A c \in Callers :
          rate'[c].failures > rate[c].failures =>
              /\ rate[c].failures >= Tier1 => now >= rate[c].lastFailure + LockShort
              /\ rate[c].failures >= Tier2 => now >= rate[c].lastFailure + LockMedium
              /\ rate[c].failures >= Tier3 => now >= rate[c].lastFailure + LockLong]_vars
    <2> SUFFICES ASSUME Inv, [Next]_vars, NEW c \in Callers,
                        rate'[c].failures > rate[c].failures
                 PROVE  /\ rate[c].failures >= Tier1 => now >= rate[c].lastFailure + LockShort
                        /\ rate[c].failures >= Tier2 => now >= rate[c].lastFailure + LockMedium
                        /\ rate[c].failures >= Tier3 => now >= rate[c].lastFailure + LockLong
      OBVIOUS
    <2>1. rate[c] \in RateEntry /\ Climbed(rate[c]) /\ now \in Nat
      BY ShareAssumption DEF TypeOK, Ladder
    <2>2. /\ rate[c].failures \in Nat /\ rate[c].lastFailure \in Nat
          /\ rate[c].lockoutUntil \in Nat
      BY <2>1 DEF RateEntry
    <2>3. /\ rateRecord(rate[c], TRUE).failures <= rate[c].failures
          /\ ratePurge(rate[c]).failures <= rate[c].failures
          /\ NoEntry.failures <= rate[c].failures
      BY <2>1, LadderEntry
    <2>4. ~rateLockout(c)
      <3>1. ASSUME NEW e \in RateEntry, e.failures <= rate[c].failures
            PROVE  rate'[c] # e
        <4>1. e.failures \in Nat
          BY DEF RateEntry
        <4>2. ~(e.failures > rate[c].failures)
          BY <2>2, <3>1, <4>1
        <4>3. QED
          BY <4>2
      <3>2. /\ rateRecord(rate[c], TRUE) \in RateEntry /\ ratePurge(rate[c]) \in RateEntry
            /\ NoEntry \in RateEntry
        BY <2>1, RateType DEF TypeOK
      <3>3. rate[c].failures <= rate[c].failures
        BY <2>2
      <3>4. rate'[c] \notin {rate[c], rateRecord(rate[c], TRUE), ratePurge(rate[c]), NoEntry}
        BY <2>1, <2>3, <3>1, <3>2, <3>3, Zenon
      <3>5. QED
        BY <3>4, RateMoves
    <2>5. rate[c].lockoutUntil <= now
      BY <2>1, <2>2, <2>4 DEF rateLockout
    <2>6. QED
      BY <2>1, <2>2, <2>5, ShareAssumption DEF Climbed
  <1>4. QED
    BY <1>1, <1>2, <1>3, PTL DEF Spec, LadderHolds

-----------------------------------------------------------------------------
(***************************************************************************)
(* What each step leaves in a slot, field by field.                        *)
(***************************************************************************)

\* Pruning takes the expired activations and nothing else.
LEMMA Pruned ==
  ASSUME TypeOK, NEW t \in Slots
  PROVE  /\ pruneExpired(slots)[t] \in Slot
         /\ pruneExpired(slots)[t].lastPerms = slots[t].lastPerms
         /\ IsExpired(slots[t].act) => pruneExpired(slots)[t].act = NoActivation
         /\ ~IsExpired(slots[t].act) => pruneExpired(slots)[t] = slots[t]
  <1>1. slots[t] \in Slot /\ pruneExpired(slots) \in [Slots -> Slot]
    BY PruneType DEF TypeOK
  <1>2. pruneExpired(slots)[t] = IF IsExpired(slots[t].act)
                                 THEN [slots[t] EXCEPT !.act = NoActivation] ELSE slots[t]
    BY DEF pruneExpired
  <1>3. /\ [slots[t] EXCEPT !.act = NoActivation].act = NoActivation
        /\ [slots[t] EXCEPT !.act = NoActivation].lastPerms = slots[t].lastPerms
    BY <1>1 DEF Slot
  <1>4. QED
    BY <1>1, <1>2, <1>3

\* a and b are alike in what no step but their own changes.
SameInvitation(a, b) ==
    a.id = b.id /\ a.perms = b.perms /\ a.cookies = b.cookies /\ a.streaming = b.streaming

\* activate opens the next activation with the permissions the row remembers.
LEMMA ActivateEffect ==
  ASSUME TypeOK, NEW s \in Slots, NEW ttl \in TtlChoices, activate(s, ttl)
  PROVE  /\ \A t \in Slots : t # s => slots'[t] = pruneExpired(slots)[t]
         /\ slots'[s].lastPerms = slots[s].lastPerms
         /\ slots'[s].act.id = minted + 1 /\ slots'[s].act.perms = slots[s].lastPerms
         /\ slots'[s].act.cookies = 0 /\ slots'[s].act.streaming = FALSE
  <1> DEFINE f == pruneExpired(slots)
             h == clearActivation(f, s)
             a == [NoActivation EXCEPT !.id = minted + 1, !.perms = h[s].lastPerms,
                                       !.ttl = ttl, !.expiresAt = Deadline(ttl)]
  <1>1. slots' = [h EXCEPT ![s] = [@ EXCEPT !.lastTtl = ttl, !.act = a]]
    BY DEF activate
  <1>2. f \in [Slots -> Slot] /\ f[s].lastPerms = slots[s].lastPerms
    BY PruneType, Pruned DEF TypeOK
  <1>3. h \in [Slots -> Slot] /\ \A t \in Slots : t # s => h[t] = f[t]
    BY <1>2, WithActType DEF clearActivation, WithAct
  <1>4. h[s].lastPerms = f[s].lastPerms
    BY <1>2 DEF clearActivation, WithAct, Slot
  <1>5. /\ a.id = minted + 1 /\ a.perms = h[s].lastPerms /\ a.cookies = 0
        /\ a.streaming = FALSE
    BY DEF NoActivation
  <1> HIDE DEF a, h, f
  <1>6. /\ \A t \in Slots : t # s => slots'[t] = h[t]
        /\ slots'[s].act = a /\ slots'[s].lastPerms = h[s].lastPerms
    BY <1>1, <1>3 DEF Slot
  <1>7. QED
    BY <1>2, <1>3, <1>4, <1>5, <1>6 DEF f

\* setTtl changes the deadline of a live activation, by CappedDeadline.
LEMMA SetTtlEffect ==
  ASSUME TypeOK, NEW s \in Slots, NEW ttl \in TtlChoices, setTtl(s, ttl)
  PROVE  LET f == pruneExpired(slots)
         IN  /\ \A t \in Slots : t # s => slots'[t] = f[t]
             /\ slots'[s].lastPerms = slots[s].lastPerms
             /\ SameInvitation(slots'[s].act, f[s].act)
             /\ IsLive(f[s].act)
                  => slots'[s].act.expiresAt = CappedDeadline(f[s].act.expiresAt, ttl)
  <1> DEFINE f == pruneExpired(slots)
             d == CappedDeadline(f[s].act.expiresAt, ttl)
             b == [f[s].act EXCEPT !.ttl = ttl, !.expiresAt = d]
             a == IF IsLive(f[s].act) THEN b ELSE f[s].act
  <1>1. slots' = [f EXCEPT ![s] = [@ EXCEPT !.lastTtl = ttl, !.act = a]]
    BY DEF setTtl
  <1>2. f \in [Slots -> Slot] /\ f[s].lastPerms = slots[s].lastPerms
    BY PruneType, Pruned DEF TypeOK
  <1> HIDE DEF d, f
  <1>3. SameInvitation(b, f[s].act) /\ b.expiresAt = d
    BY <1>2, FieldTypes DEF Activation, SameInvitation
  <1> HIDE DEF b
  <1>4. SameInvitation(a, f[s].act) /\ (IsLive(f[s].act) => a.expiresAt = d)
    BY <1>3 DEF SameInvitation
  <1> HIDE DEF a
  <1>5. /\ \A t \in Slots : t # s => slots'[t] = f[t]
        /\ slots'[s].act = a /\ slots'[s].lastPerms = f[s].lastPerms
    BY <1>1, <1>2 DEF Slot
  <1>6. QED
    BY <1>2, <1>4, <1>5 DEF f, d

\* setPermissions changes what a live activation enforces, or what the row
\* remembers, and nothing else.
LEMMA SetPermissionsEffect ==
  ASSUME TypeOK, NEW s \in Slots, NEW p \in Perms, setPermissions(s, p)
  PROVE  LET f == pruneExpired(slots)
         IN  /\ \A t \in Slots : t # s => slots'[t] = f[t]
             /\ slots'[s].act.id = f[s].act.id
             /\ slots'[s].act.cookies = f[s].act.cookies
             /\ slots'[s].act.streaming = f[s].act.streaming
             /\ slots'[s].act.expiresAt = f[s].act.expiresAt
             /\ IF IsLive(f[s].act) THEN slots'[s].act.perms = p ELSE slots'[s].lastPerms = p
  <1> DEFINE f == pruneExpired(slots)
             b == [f[s].act EXCEPT !.perms = p]
             a == IF IsLive(f[s].act) THEN b ELSE f[s].act
  <1>1. slots' = IF IsLive(a) /\ f[s].act.perms = p
                 THEN f ELSE [f EXCEPT ![s] = [@ EXCEPT !.lastPerms = p, !.act = a]]
    BY DEF setPermissions
  <1>2. f \in [Slots -> Slot]
    BY PruneType DEF TypeOK
  <1> HIDE DEF f
  <1>3. /\ b.id = f[s].act.id /\ b.cookies = f[s].act.cookies
        /\ b.streaming = f[s].act.streaming /\ b.expiresAt = f[s].act.expiresAt
        /\ b.perms = p
    BY <1>2, FieldTypes DEF Activation
  <1> HIDE DEF b
  <1>4. /\ a.id = f[s].act.id /\ a.cookies = f[s].act.cookies
        /\ a.streaming = f[s].act.streaming /\ a.expiresAt = f[s].act.expiresAt
        /\ IsLive(f[s].act) => a.perms = p
    BY <1>3
  <1>5. IsLive(a) <=> IsLive(f[s].act)
    BY <1>4 DEF IsLive
  <1> HIDE DEF a
  <1>6. \/ slots' = f /\ IsLive(f[s].act) /\ f[s].act.perms = p
        \/ /\ \A t \in Slots : t # s => slots'[t] = f[t]
           /\ slots'[s].act = a /\ slots'[s].lastPerms = p
    BY <1>1, <1>2, <1>5 DEF Slot
  <1>7. QED
    BY <1>4, <1>6 DEF f

\* A row that is closed keeps what it remembers.
LEMMA Cleared ==
  ASSUME NEW f \in [Slots -> Slot], NEW s \in Slots
  PROVE  /\ \A t \in Slots : t # s => clearActivation(f, s)[t] = f[t]
         /\ clearActivation(f, s)[s].act = NoActivation
         /\ clearActivation(f, s)[s].lastPerms = f[s].lastPerms
         /\ \A a : /\ \A t \in Slots : t # s => WithAct(f, s, a)[t] = f[t]
                   /\ WithAct(f, s, a)[s].act = a
                   /\ WithAct(f, s, a)[s].lastPerms = f[s].lastPerms
  BY DEF clearActivation, WithAct, Slot

\* A wrong PIN leaves the activation as it was but for the count, or closes it
\* when the count is full.
LEMMA WrongPinEffect ==
  ASSUME TypeOK, NEW c \in Callers, NEW s \in Slots, RedeemWrongPin(c, s)
  PROVE  LET f == pruneExpired(slots)
         IN  /\ \A t \in Slots : t # s => slots'[t] = f[t]
             /\ slots'[s].lastPerms = slots[s].lastPerms
             /\ ~IsExpired(slots[s].act) /\ IsLive(slots[s].act)
             /\ \/ /\ slots'[s].act = NoActivation
                   /\ slots[s].act.pinFailures + 1 >= MaxPinFailures
                \/ /\ SameInvitation(slots'[s].act, slots[s].act)
                   /\ slots'[s].act.expiresAt = slots[s].act.expiresAt
  <1> DEFINE f == pruneExpired(slots)
             n == f[s].act.pinFailures + 1
             a == [f[s].act EXCEPT !.pinFailures = n]
  <1>1. /\ slots' = IF n >= MaxPinFailures THEN clearActivation(f, s) ELSE WithAct(f, s, a)
        /\ IsLive(f[s].act)
    BY DEF RedeemWrongPin
  <1>2. f \in [Slots -> Slot]
    BY PruneType DEF TypeOK
  <1>3. ~IsExpired(slots[s].act) /\ f[s] = slots[s]
    BY <1>1, Pruned DEF IsLive, NoActivation
  <1> HIDE DEF f, n
  <1>4. SameInvitation(a, f[s].act) /\ a.expiresAt = f[s].act.expiresAt
    BY <1>2, FieldTypes DEF Activation, SameInvitation
  <1> HIDE DEF a
  <1>5. QED
    BY <1>1, <1>2, <1>3, <1>4, Cleared DEF f, n

\* The right PIN hands out one cookie more while there is a place.
LEMMA RightPinEffect ==
  ASSUME TypeOK, NEW c \in Callers, NEW s \in Slots, RedeemRightPin(c, s)
  PROVE  LET f == pruneExpired(slots)
         IN  /\ \A t \in Slots : t # s => slots'[t] = f[t]
             /\ slots'[s].lastPerms = slots[s].lastPerms
             /\ ~IsExpired(slots[s].act) /\ IsLive(slots[s].act)
             /\ slots'[s].act.id = slots[s].act.id
             /\ slots'[s].act.perms = slots[s].act.perms
             /\ slots'[s].act.streaming = slots[s].act.streaming
             /\ slots'[s].act.expiresAt = slots[s].act.expiresAt
             /\ slots'[s].act.cookies = IF slots[s].act.cookies >= MaxCookies
                                        THEN slots[s].act.cookies ELSE slots[s].act.cookies + 1
             /\ \/ issued' = issued
                \/ issued' = [issued EXCEPT ![slots[s].act.id] = @ + 1]
  <1> DEFINE f == pruneExpired(slots)
             a == [f[s].act EXCEPT !.pinFailures = 0]
             full == a.cookies >= MaxCookies
             b == IF full THEN [a EXCEPT !.refused = TRUE] ELSE [a EXCEPT !.cookies = @ + 1]
  <1>1. /\ slots' = WithAct(f, s, b) /\ IsLive(a)
        /\ issued' = IF full THEN issued ELSE [issued EXCEPT ![a.id] = @ + 1]
    BY DEF RedeemRightPin
  <1>2. f \in [Slots -> Slot]
    BY PruneType DEF TypeOK
  <1> HIDE DEF f
  <1>3. /\ a.id = f[s].act.id /\ a.perms = f[s].act.perms /\ a.cookies = f[s].act.cookies
        /\ a.streaming = f[s].act.streaming /\ a.expiresAt = f[s].act.expiresAt
        /\ a \in Activation
    BY <1>2, FieldTypes, ShareAssumption DEF Activation
  <1> HIDE DEF a
  <1>4. /\ b.id = a.id /\ b.perms = a.perms /\ b.streaming = a.streaming
        /\ b.expiresAt = a.expiresAt
        /\ b.cookies = IF a.cookies >= MaxCookies THEN a.cookies ELSE a.cookies + 1
    BY <1>3 DEF Activation
  <1> HIDE DEF b, full
  <1>5. ~IsExpired(slots[s].act) /\ f[s] = slots[s]
    BY <1>1, <1>3, Pruned DEF IsLive, NoActivation, f
  <1>6. /\ \A t \in Slots : t # s => slots'[t] = f[t]
        /\ slots'[s].act = b /\ slots'[s].lastPerms = f[s].lastPerms
    BY <1>1, <1>2, Cleared
  <1>7. IsLive(slots[s].act)
    BY <1>1, <1>3, <1>5 DEF IsLive
  <1>8. QED
    BY <1>1, <1>3, <1>4, <1>5, <1>6, <1>7 DEF f

\* The streaming flag comes and goes with the stream.
LEMMA StreamingEffect ==
  ASSUME TypeOK, NEW s \in Slots, NEW on \in BOOLEAN, setStreaming(s, on)
  PROVE  /\ \A t \in Slots : t # s => slots'[t] = slots[t]
         /\ slots'[s].lastPerms = slots[s].lastPerms
         /\ IsLive(slots[s].act)
         /\ slots'[s].act.id = slots[s].act.id
         /\ slots'[s].act.perms = slots[s].act.perms
         /\ slots'[s].act.cookies = slots[s].act.cookies
         /\ slots'[s].act.expiresAt = slots[s].act.expiresAt
         /\ slots'[s].act.streaming = on
  <1> DEFINE a == [slots[s].act EXCEPT !.streaming = on]
  <1>1. slots' = WithAct(slots, s, a) /\ IsLive(slots[s].act) /\ slots \in [Slots -> Slot]
    BY DEF setStreaming, TypeOK
  <1>2. /\ a.id = slots[s].act.id /\ a.perms = slots[s].act.perms
        /\ a.cookies = slots[s].act.cookies /\ a.expiresAt = slots[s].act.expiresAt
        /\ a.streaming = on
    BY <1>1, FieldTypes DEF Activation
  <1> HIDE DEF a
  <1>3. QED
    BY <1>1, <1>2, Cleared

-----------------------------------------------------------------------------
(***************************************************************************)
(* Whose activation is whose, whatever saves do.  A write that fails may   *)
(* bring an old activation back, but only to the row it was opened in: the *)
(* identities a row has in memory and in the file are its own.  A closed   *)
(* row holds neither cookies nor a stream.                                 *)
(***************************************************************************)

Own(s) == {slots[s].act.id, disk[s].act.id}

IdsApart ==
    /\ \A s \in Slots : \A i \in Own(s) : i <= minted
    /\ \A s, t \in Slots : s # t => Own(s) \cap Own(t) \subseteq {0}

Blank ==
    \A s \in Slots :
        /\ ~IsLive(slots[s].act) => slots[s].act.cookies = 0 /\ slots[s].act.streaming = FALSE
        /\ ~IsLive(disk[s].act) => disk[s].act.cookies = 0
        /\ disk[s].act.streaming = FALSE

Identities == TypeOK /\ IdsApart /\ Blank

\* A step leaves in a slot nothing, the activation it had, or what the file had.
KeepsOrLoses(t) ==
    \/ slots'[t].act = NoActivation
    \/ /\ slots'[t].act.id = slots[t].act.id
       /\ ~IsLive(slots[t].act) => /\ slots'[t].act.cookies = slots[t].act.cookies
                                   /\ slots'[t].act.streaming = slots[t].act.streaming
    \/ slots'[t].act = disk[t].act

\* Only an opening puts something new in a slot, and in one slot.
LEMMA SlotMoves ==
  ASSUME TypeOK, [Next]_vars
  PROVE  \/ minted' = minted /\ \A t \in Slots : KeepsOrLoses(t)
         \/ \E s \in Slots :
               /\ minted' = minted + 1
               /\ slots'[s].act.id = minted + 1
               /\ slots'[s].act.cookies = 0 /\ slots'[s].act.streaming = FALSE
               /\ \A t \in Slots : t # s => KeepsOrLoses(t)
  <1> DEFINE f == pruneExpired(slots)
             Kept == minted' = minted /\ \A t \in Slots : KeepsOrLoses(t)
  <1>0. \A t \in Slots : /\ slots'[t] = f[t] => KeepsOrLoses(t)
                         /\ slots'[t] = slots[t] => KeepsOrLoses(t)
                         /\ slots'[t].act = NoActivation => KeepsOrLoses(t)
    BY Pruned DEF KeepsOrLoses
  <1>1. ASSUME NEW s \in Slots, NEW ttl \in TtlChoices, activate(s, ttl)
        PROVE  /\ minted' = minted + 1
               /\ slots'[s].act.id = minted + 1
               /\ slots'[s].act.cookies = 0 /\ slots'[s].act.streaming = FALSE
               /\ \A t \in Slots : t # s => KeepsOrLoses(t)
    <2>1. minted' = minted + 1
      BY <1>1 DEF activate
    <2>2. QED
      BY <2>1, <1>0, <1>1, ActivateEffect
  <1>2. ASSUME NEW s \in Slots, NEW ttl \in TtlChoices, setTtl(s, ttl)
        PROVE  Kept
    <2>1. minted' = minted
      BY <1>2 DEF setTtl
    <2>2. KeepsOrLoses(s)
      <3>1. CASE IsExpired(slots[s].act)
        <4>1. f[s].act = NoActivation
          BY <3>1, Pruned
        <4>2. slots' = [f EXCEPT ![s] = [@ EXCEPT !.lastTtl = ttl, !.act = f[s].act]]
          BY <4>1, <1>2 DEF setTtl, IsLive, NoActivation
        <4>3. slots'[s].act = NoActivation
          <5>1. f \in [Slots -> Slot]
            BY PruneType DEF TypeOK
          <5> HIDE DEF f
          <5>2. QED
            BY <4>1, <4>2, <5>1 DEF Slot
        <4>4. QED
          BY <1>0, <4>3
      <3>2. CASE ~IsExpired(slots[s].act)
        BY <3>2, <1>2, Pruned, SetTtlEffect DEF KeepsOrLoses, SameInvitation
      <3>3. QED
        BY <3>1, <3>2
    <2>3. QED
      BY <2>1, <2>2, <1>0, <1>2, SetTtlEffect
  <1>3. ASSUME NEW s \in Slots, NEW p \in Perms, setPermissions(s, p)
        PROVE  Kept
    <2>1. minted' = minted
      BY <1>3 DEF setPermissions
    <2>2. KeepsOrLoses(s)
      <3>1. CASE IsExpired(slots[s].act)
        <4>1. f[s].act = NoActivation
          BY <3>1, Pruned
        <4>2. slots' = [f EXCEPT ![s] = [@ EXCEPT !.lastPerms = p, !.act = f[s].act]]
          BY <4>1, <1>3 DEF setPermissions, IsLive, NoActivation
        <4>3. slots'[s].act = NoActivation
          <5>1. f \in [Slots -> Slot]
            BY PruneType DEF TypeOK
          <5> HIDE DEF f
          <5>2. QED
            BY <4>1, <4>2, <5>1 DEF Slot
        <4>4. QED
          BY <1>0, <4>3
      <3>2. CASE ~IsExpired(slots[s].act)
        BY <3>2, <1>3, Pruned, SetPermissionsEffect DEF KeepsOrLoses
      <3>3. QED
        BY <3>1, <3>2
    <2>3. QED
      BY <2>1, <2>2, <1>0, <1>3, SetPermissionsEffect
  <1>4. ASSUME NEW s \in Slots, setName(s) \/ deactivate(s)
        PROVE  Kept
    <2>1. minted' = minted
      BY <1>4 DEF setName, deactivate
    <2>2. QED
      BY <2>1, <1>0, <1>4, Cleared DEF setName, deactivate, TypeOK
  <1>5. ASSUME deactivateAll
        PROVE  Kept
    <2>1. \A t \in Slots : slots'[t].act = NoActivation
      BY <1>5 DEF deactivateAll, TypeOK, Slot
    <2>2. QED
      BY <2>1, <1>0, <1>5 DEF deactivateAll
  <1>6. ASSUME NEW c \in Callers, redeemPin(c)
        PROVE  Kept
    <2>1. minted' = minted
      BY <1>6 DEF redeemPin, RedeemRateLimited, RedeemUnknown, RedeemWrongPin, RedeemRightPin
    <2>2. ASSUME NEW s \in Slots, RedeemWrongPin(c, s)
          PROVE  \A t \in Slots : KeepsOrLoses(t)
      BY <2>2, <1>0, WrongPinEffect DEF KeepsOrLoses, SameInvitation
    <2>3. ASSUME NEW s \in Slots, RedeemRightPin(c, s)
          PROVE  \A t \in Slots : KeepsOrLoses(t)
      BY <2>3, <1>0, RightPinEffect DEF KeepsOrLoses
    <2>4. QED
      BY <2>1, <2>2, <2>3, <1>0, <1>6 DEF redeemPin, RedeemRateLimited, RedeemUnknown
  <1>7. ASSUME NEW s \in Slots, NEW on \in BOOLEAN, setStreaming(s, on)
        PROVE  Kept
    <2>1. minted' = minted
      BY <1>7 DEF setStreaming
    <2>2. QED
      BY <2>1, <1>0, <1>7, StreamingEffect DEF KeepsOrLoses
  <1>8. ASSUME Query \/ Sweep \/ Tick \/ UNCHANGED vars
        PROVE  Kept
    BY <1>8, <1>0 DEF Query, Sweep, Tick, vars
  <1>9. ASSUME Restart \/ CrashMidSave
         PROVE  Kept
    <2>1. \A t \in Slots : load(disk)[t].act \in {NoActivation, disk[t].act}
      BY DEF load, TypeOK, Slot
    <2>2. \A t \in Slots : NoFile[t].act = NoActivation
      BY DEF NoFile, FreshSlot
    <2>3. QED
      BY <1>0, <1>9, <2>1, <2>2 DEF Restart, CrashMidSave, KeepsOrLoses
  <1>10. QED
    BY <1>1, <1>2, <1>3, <1>4, <1>5, <1>6, <1>7, <1>8, <1>9 DEF Next, OwnerStep

\* The file stays, is what memory becomes, or reads as no file.
LEMMA DiskMoves ==
  ASSUME [Next]_vars
  PROVE  disk' \in {disk, Image(slots'), NoFile}
  <1>1. ASSUME NEW f, save(f), slots' = f
        PROVE  disk' \in {disk, Image(slots'), NoFile}
    BY <1>1 DEF save
  <1>2. CASE \E s \in Slots : OwnerStep(s)
    BY <1>1, <1>2 DEF OwnerStep, activate, setTtl, setPermissions, setName, deactivate, SaveIf
  <1>3. CASE \E c \in Callers : redeemPin(c)
    BY <1>1, <1>3
    DEF redeemPin, RedeemRateLimited, RedeemUnknown, RedeemWrongPin, RedeemRightPin, SaveIf
  <1>4. CASE deactivateAll \/ Query \/ Sweep
    BY <1>1, <1>4 DEF deactivateAll, Query, Sweep, SaveIf
  <1>5. CASE Tick \/ Restart \/ CrashMidSave \/ UNCHANGED vars
    BY <1>5 DEF Tick, Restart, CrashMidSave, vars
  <1>6. CASE \E s \in Slots, on \in BOOLEAN : setStreaming(s, on)
    BY <1>6 DEF setStreaming
  <1>7. QED
    BY <1>2, <1>3, <1>4, <1>5, <1>6 DEF Next

\* What the file holds of a slot after a step, in terms of memory and file.
LEMMA DiskSlot ==
  ASSUME TypeOK, TypeOK', [Next]_vars, NEW t \in Slots
  PROVE  \/ disk'[t].act = disk[t].act
         \/ /\ disk'[t].act.id = slots'[t].act.id
            /\ disk'[t].act.cookies = slots'[t].act.cookies
            /\ disk'[t].act.streaming = FALSE
         \/ disk'[t].act = NoActivation
  <1>1. NoFile[t].act = NoActivation
    BY DEF NoFile, FreshSlot
  <1>2. Image(slots')[t].act = Stored(slots'[t].act) /\ slots'[t].act \in Activation
    BY DEF Image, TypeOK, Slot
  <1>3. /\ Stored(slots'[t].act).id = slots'[t].act.id
        /\ Stored(slots'[t].act).cookies = slots'[t].act.cookies
        /\ Stored(slots'[t].act).streaming = FALSE
    BY <1>2 DEF Stored, Activation
  <1>4. QED
    BY <1>1, <1>2, <1>3, DiskMoves

\* Every step keeps rows apart and closed rows blank.
LEMMA IdentitiesStep ==
  ASSUME Identities, [Next]_vars
  PROVE  Identities'
  <1>0. /\ TypeOK /\ TypeOK' /\ minted \in Nat
        /\ NoActivation.id = 0 /\ NoActivation.cookies = 0 /\ NoActivation.streaming = FALSE
    BY TypeStep DEF Identities, TypeOK, NoActivation
  <1>1. ASSUME NEW t \in Slots, KeepsOrLoses(t)
        PROVE  Own(t)' \subseteq Own(t) \cup {0}
    <2>1. slots'[t].act.id \in Own(t) \cup {0}
      BY <1>0, <1>1 DEF KeepsOrLoses, Own
    <2>2. disk'[t].act.id \in Own(t) \cup {0}
      BY <1>0, <2>1, DiskSlot DEF Own
    <2>3. QED
      BY <2>1, <2>2 DEF Own
  <1>2. ASSUME NEW t \in Slots, slots'[t].act.id = minted + 1
        PROVE  Own(t)' \subseteq Own(t) \cup {0, minted + 1}
    BY <1>0, <1>2, DiskSlot DEF Own
  <1>3. \A t \in Slots : Own(t) \subseteq 0..minted /\ \A i \in Own(t) : i \in Nat
    <2>1. \A t \in Slots : slots[t].act.id \in Nat /\ disk[t].act.id \in Nat
      BY <1>0, FieldTypes DEF TypeOK
    <2>2. QED
      BY <1>0, <2>1 DEF Identities, IdsApart, Own
  <1>4. \A s, t \in Slots : s # t => Own(s) \cap Own(t) \subseteq {0}
    BY DEF Identities, IdsApart
  <1>5. IdsApart'
    <2>1. CASE minted' = minted /\ \A t \in Slots : KeepsOrLoses(t)
      <3>1. \A t \in Slots : Own(t)' \subseteq Own(t) \cup {0}
        BY <1>1, <2>1
      <3>2. \A s \in Slots : \A i \in Own(s)' : i <= minted'
        BY <1>0, <1>3, <2>1, <3>1
      <3>3. \A s, t \in Slots : s # t => Own(s)' \cap Own(t)' \subseteq {0}
        BY <1>4, <3>1
      <3>4. QED
        BY <3>2, <3>3 DEF IdsApart
    <2>2. ASSUME NEW u \in Slots, minted' = minted + 1, slots'[u].act.id = minted + 1,
                 \A t \in Slots : t # u => KeepsOrLoses(t)
          PROVE  IdsApart'
      <3>1. /\ \A t \in Slots : t # u => Own(t)' \subseteq Own(t) \cup {0}
            /\ Own(u)' \subseteq Own(u) \cup {0, minted + 1}
        BY <1>1, <1>2, <2>2
      <3>2. \A s \in Slots : \A i \in Own(s)' : i <= minted'
        BY <1>0, <1>3, <2>2, <3>1
      <3>3. \A t \in Slots : minted + 1 \notin Own(t)
        BY <1>0, <1>3
      <3>4. \A s, t \in Slots : s # t => Own(s)' \cap Own(t)' \subseteq {0}
        BY <1>0, <1>4, <3>1, <3>3
      <3>5. QED
        BY <3>2, <3>4 DEF IdsApart
    <2>3. QED
      BY <1>0, <2>1, <2>2, SlotMoves
  <1>6. Blank'
    <2> SUFFICES ASSUME NEW t \in Slots
                 PROVE  /\ ~IsLive(slots'[t].act) => /\ slots'[t].act.cookies = 0
                                                     /\ slots'[t].act.streaming = FALSE
                        /\ ~IsLive(disk'[t].act) => disk'[t].act.cookies = 0
                        /\ disk'[t].act.streaming = FALSE
      BY DEF Blank, IsLive
    <2>1. /\ ~IsLive(slots[t].act) => /\ slots[t].act.cookies = 0
                                      /\ slots[t].act.streaming = FALSE
          /\ ~IsLive(disk[t].act) => disk[t].act.cookies = 0
          /\ disk[t].act.streaming = FALSE
      BY DEF Identities, Blank
    <2>2. ~IsLive(slots'[t].act) => /\ slots'[t].act.cookies = 0
                                    /\ slots'[t].act.streaming = FALSE
      BY <1>0, <2>1, SlotMoves DEF KeepsOrLoses, IsLive
    <2>3. QED
      BY <1>0, <2>1, <2>2, DiskSlot DEF IsLive
  <1>7. QED
    BY <1>0, <1>5, <1>6 DEF Identities

\* Each row's activations, in memory and in the file, are its own.
THEOREM RowsApart == Spec => []Identities
  <1>1. Init => Identities
    <2> SUFFICES ASSUME Init PROVE Identities
      OBVIOUS
    <2>1. TypeOK
      BY ShareAssumption, FreshType DEF Init, TypeOK, RateEntry, NoEntry
    <2>2. \A s \in Slots : slots[s].act = NoActivation /\ disk[s].act = NoActivation
      BY DEF Init, NoFile, FreshSlot
    <2>3. NoActivation.id = 0 /\ NoActivation.cookies = 0 /\ NoActivation.streaming = FALSE
      BY DEF NoActivation
    <2>4. \A s \in Slots : Own(s) = {0}
      BY <2>2, <2>3 DEF Own
    <2>5. IdsApart
      BY <2>4 DEF IdsApart, Init
    <2>6. Blank
      BY <2>2, <2>3 DEF Blank
    <2>7. QED
      BY <2>1, <2>5, <2>6 DEF Identities
  <1>2. Identities /\ [Next]_vars => Identities'
    BY IdentitiesStep
  <1>3. QED
    BY <1>1, <1>2, PTL DEF Spec

\* Nobody is let in after the deadline: redeemPin prunes before it looks, and
\* the activation it hands a cookie for is the one it looked at.  Saves may
\* fail, the process may stop, the sweep may be late.
THEOREM GrantedInTime == Spec => GrantedBeforeDeadline
  <1>1. Identities /\ [Next]_vars => [\A s \in Slots :
          (/\ IsLive(slots[s].act)
           /\ issued'[slots[s].act.id] > issued[slots[s].act.id])
              => ~IsExpired(slots[s].act)]_vars
    <2> SUFFICES ASSUME Identities, [Next]_vars, NEW s \in Slots, IsLive(slots[s].act),
                        issued'[slots[s].act.id] > issued[slots[s].act.id]
                 PROVE  ~IsExpired(slots[s].act)
      OBVIOUS
    <2>1. TypeOK /\ slots[s].act.id \in Ids /\ issued[slots[s].act.id] \in Nat
      <3>1. TypeOK /\ slots[s].act.id \in Nat /\ slots[s].act.id <= MaxActivations
        BY FieldTypes DEF Identities, TypeOK
      <3>2. slots[s].act.id \in Ids
        BY <3>1, ShareAssumption DEF Ids, IsLive
      <3>3. QED
        BY <3>1, <3>2 DEF TypeOK
    <2>2. issued' # issued
      <3>1. ~(issued[slots[s].act.id] > issued[slots[s].act.id])
        BY <2>1
      <3>2. QED
        BY <3>1
    <2>3. ASSUME NEW c \in Callers, redeemPin(c)
          PROVE  \E u \in Slots : RedeemRightPin(c, u)
      BY <2>2, <2>3 DEF redeemPin, RedeemRateLimited, RedeemUnknown, RedeemWrongPin
    <2>4. \E c \in Callers : redeemPin(c)
      <3>1. ~ \E u \in Slots : OwnerStep(u)
        BY <2>2 DEF OwnerStep, activate, setTtl, setPermissions, setName, deactivate
      <3>2. ~(deactivateAll \/ Query \/ Sweep \/ Tick \/ Restart \/ CrashMidSave)
        BY <2>2 DEF deactivateAll, Query, Sweep, Tick, Restart, CrashMidSave
      <3>3. ~ \E u \in Slots, on \in BOOLEAN : setStreaming(u, on)
        BY <2>2 DEF setStreaming
      <3>4. QED
        BY <2>2, <3>1, <3>2, <3>3 DEF Next, vars
    <2>5. PICK c \in Callers, u \in Slots : RedeemRightPin(c, u)
      BY <2>3, <2>4
    <2>6. /\ ~IsExpired(slots[u].act)
          /\ issued' = [issued EXCEPT ![slots[u].act.id] = @ + 1]
      BY <2>1, <2>2, <2>5, RightPinEffect
    <2>7. slots[u].act.id = slots[s].act.id
      <3>1. issued \in [Ids -> Nat]
        BY <2>1 DEF TypeOK
      <3>2. slots[u].act.id # slots[s].act.id
              => issued'[slots[s].act.id] = issued[slots[s].act.id]
        BY <2>1, <2>6, <3>1
      <3>3. ~(issued[slots[s].act.id] > issued[slots[s].act.id])
        BY <2>1
      <3>4. QED
        BY <3>2, <3>3
    <2>8. u = s
      <3>1. slots[s].act.id \in Own(u) \cap Own(s) /\ slots[s].act.id # 0
        BY <2>7 DEF Own, IsLive
      <3>2. \A v, w \in Slots : v # w => Own(v) \cap Own(w) \subseteq {0}
        BY DEF Identities, IdsApart
      <3> QED
        BY <3>1, <3>2
    <2>9. QED
      BY <2>6, <2>8
  <1>2. QED
    BY <1>1, RowsApart, PTL DEF Spec, GrantedBeforeDeadline

-----------------------------------------------------------------------------
(***************************************************************************)
(* Deadlines and endings, when share.json can be written: a restart then   *)
(* gives back what memory held.                                            *)
(***************************************************************************)

\* A restart loads for a slot nothing, or what memory held less the stream.
LEMMA RestartEffect ==
  ASSUME IInv, Restart, NEW t \in Slots
  PROVE  /\ slots'[t].lastPerms \in Perms
         /\ IF Current(slots[t].act)
            THEN /\ slots'[t].act.id = slots[t].act.id
                 /\ slots'[t].act.perms = slots[t].act.perms
                 /\ slots'[t].act.cookies = slots[t].act.cookies
                 /\ slots'[t].act.expiresAt = slots[t].act.expiresAt
                 /\ slots'[t].act.streaming = FALSE
            ELSE ~IsLive(slots'[t].act)
  <1> DEFINE g == load(disk)
  <1>1. slots' = g /\ g \in [Slots -> Slot] /\ slots \in [Slots -> Slot]
    BY PruneType DEF Restart, IInv, TypeOK
  <1>2. \A a \in Activation :
            /\ Stored(a).id = a.id /\ Stored(a).perms = a.perms /\ Stored(a).cookies = a.cookies
            /\ Stored(a).expiresAt = a.expiresAt /\ Stored(a).streaming = FALSE
    BY DEF Stored, Activation
  <1>3. g[t] \in Slot /\ slots[t].act \in Activation
    BY <1>1, FieldTypes
  <1>4. g[t].lastPerms \in Perms
    BY <1>3 DEF Slot
  <1>5. IsLive(g[t].act) => g[t].act = Stored(slots[t].act) /\ Current(g[t].act)
    BY LoadFacts
  <1>6. Current(slots[t].act) => g[t].act = Stored(slots[t].act)
    <2> SUFFICES ASSUME Current(slots[t].act) PROVE g[t].act = Stored(slots[t].act)
      OBVIOUS
    <2>1. disk[t].act = Stored(slots[t].act)
      BY DEF IInv, DiskOK
    <2>2. ~IsExpired(disk[t].act)
      BY <1>2, <1>3, <2>1 DEF Current, IsExpired, IsLive
    <2>3. QED
      BY <2>1, <2>2 DEF load
  <1>7. IsLive(g[t].act) => Current(slots[t].act)
    BY <1>2, <1>3, <1>5 DEF Current, IsExpired, IsLive
  <1>8. QED
    BY <1>1, <1>2, <1>3, <1>4, <1>6, <1>7

\* The capped deadline is never later than the old one, and 0 is the latest.
LEMMA Capped ==
  ASSUME TypeOK, NEW old \in Nat, NEW ttl \in TtlChoices
  PROVE  ~Later(CappedDeadline(old, ttl), old)
  <1>1. Deadline(ttl) \in Nat
    BY ShareAssumption DEF Deadline, TypeOK
  <1>2. QED
    BY <1>1 DEF CappedDeadline, Later

\* A deadline that stands is not later than itself.
LEMMA NotLater ==
  ASSUME NEW d \in Nat
  PROVE  ~Later(d, d)
  BY DEF Later

\* No step, a restart included, buys a live link more time.
THEOREM DeadlineKept == ASSUME ~SaveMayFail PROVE Spec => DeadlineNeverExtended
  <1>1. IInv /\ [Next]_vars => [\A s \in Slots :
          (/\ IsLive(slots[s].act)
           /\ slots'[s].act.id = slots[s].act.id)
              => ~Later(slots'[s].act.expiresAt, slots[s].act.expiresAt)]_vars
    <2> SUFFICES ASSUME IInv, [Next]_vars, NEW t \in Slots, IsLive(slots[t].act),
                        slots'[t].act.id = slots[t].act.id
                 PROVE  ~Later(slots'[t].act.expiresAt, slots[t].act.expiresAt)
      OBVIOUS
    <2> DEFINE f == pruneExpired(slots)
               Same == slots'[t].act.expiresAt = slots[t].act.expiresAt
    <2>0. /\ TypeOK /\ minted \in Nat /\ slots[t].act.id \in Nat /\ slots[t].act.id <= minted
          /\ slots[t].act.id # 0 /\ slots[t].act.expiresAt \in Nat
          /\ NoActivation.id = 0
      <3>1. TypeOK /\ minted \in Nat /\ slots[t].act.id \in Nat /\ slots[t].act \in Activation
        BY FieldTypes DEF IInv, TypeOK
      <3>2. slots[t].act.id # 0 /\ slots[t].act.id <= minted
        BY DEF IInv, MemOK, Accounted, IsLive
      <3>3. QED
        BY <3>1, <3>2 DEF Activation, NoActivation
    <2>1. Same => ~Later(slots'[t].act.expiresAt, slots[t].act.expiresAt)
      BY <2>0, NotLater
    <2>2. /\ slots'[t] = f[t] => Same
          /\ slots'[t] = slots[t] => Same
          /\ slots'[t].act # NoActivation
      BY <2>0, Pruned
    <2>3. ASSUME NEW s \in Slots, NEW ttl \in TtlChoices, activate(s, ttl)
          PROVE  Same
      <3>1. slots'[s].act.id = minted + 1
        BY <2>0, <2>3, ActivateEffect
      <3>2. t # s
        BY <2>0, <3>1
      <3>3. QED
        BY <2>0, <2>2, <2>3, <3>2, ActivateEffect
    <2>4. ASSUME NEW s \in Slots, NEW ttl \in TtlChoices, setTtl(s, ttl)
          PROVE  ~Later(slots'[t].act.expiresAt, slots[t].act.expiresAt)
      <3>1. CASE t # s
        BY <2>0, <2>1, <2>2, <2>4, <3>1, SetTtlEffect
      <3>2. CASE t = s
        <4>1. f[s].act.id = slots[s].act.id
          BY <2>0, <2>4, <3>2, SetTtlEffect DEF SameInvitation
        <4>2. f[s] = slots[s]
          BY <2>0, <3>2, <4>1, Pruned
        <4>3. slots'[s].act.expiresAt = CappedDeadline(slots[s].act.expiresAt, ttl)
          BY <2>0, <2>4, <3>2, <4>2, SetTtlEffect
        <4>4. QED
          BY <2>0, <3>2, <4>3, Capped
      <3>3. QED
        BY <3>1, <3>2
    <2>5. ASSUME NEW s \in Slots, NEW p \in Perms, setPermissions(s, p)
          PROVE  Same
      <3>1. CASE t # s
        BY <2>0, <2>2, <2>5, <3>1, SetPermissionsEffect
      <3>2. CASE t = s
        <4>1. f[s].act.id = slots[s].act.id
          BY <2>0, <2>5, <3>2, SetPermissionsEffect
        <4>2. f[s] = slots[s]
          BY <2>0, <3>2, <4>1, Pruned
        <4>3. QED
          BY <2>0, <2>5, <3>2, <4>2, SetPermissionsEffect
      <3>3. QED
        BY <3>1, <3>2
    <2>6. ASSUME NEW s \in Slots, setName(s) \/ deactivate(s)
          PROVE  Same
      BY <2>0, <2>2, <2>6, Cleared DEF setName, deactivate, TypeOK
    <2>7. ~deactivateAll
      BY <2>2 DEF deactivateAll, TypeOK, IInv, Slot
    <2>8. ASSUME NEW c \in Callers, redeemPin(c)
          PROVE  Same
      <3>1. ASSUME NEW s \in Slots, RedeemWrongPin(c, s)
            PROVE  Same
        BY <2>0, <2>2, <3>1, WrongPinEffect
      <3>2. ASSUME NEW s \in Slots, RedeemRightPin(c, s)
            PROVE  Same
        BY <2>0, <2>2, <3>2, RightPinEffect
      <3>3. QED
        BY <2>2, <2>8, <3>1, <3>2 DEF redeemPin, RedeemRateLimited, RedeemUnknown
    <2>9. ASSUME NEW s \in Slots, NEW on \in BOOLEAN, setStreaming(s, on)
          PROVE  Same
      BY <2>0, <2>2, <2>9, StreamingEffect
    <2>10. CASE Query \/ Sweep \/ Tick \/ UNCHANGED vars
      BY <2>1, <2>2, <2>10 DEF Query, Sweep, Tick, vars
    <2>11. ASSUME Restart
           PROVE  Same
      BY <2>0, <2>11, RestartEffect DEF IsLive
    <2>12. ~CrashMidSave
      BY <2>2 DEF CrashMidSave, NoFile, FreshSlot
    <2>13. QED
      BY <2>1, <2>3, <2>4, <2>5, <2>6, <2>7, <2>8, <2>9, <2>10, <2>11, <2>12
      DEF Next, OwnerStep
  <1>2. QED
    BY <1>1, Bookkeeping, PTL DEF Spec, DeadlineNeverExtended

\* An invitation that disappears was closed or reopened by the owner, had
\* expired, or has just taken the last wrong PIN of its budget: as long as
\* share.json is written whole (a crash in the middle of save() is the one
\* other way to lose it).
THEOREM EndsForCause ==
  ASSUME ~SaveMayFail, ~CrashInSave
  PROVE  Spec => EndsOnlyForCause
  <1>1. IInv /\ [Next]_vars => [\A s \in Slots :
          (IsLive(slots[s].act) /\ slots'[s].act.id # slots[s].act.id)
              => \/ IsExpired(slots[s].act)
                 \/ guesses'[slots[s].act.id] = MaxPinFailures
                 \/ OwnerStep(s)
                 \/ deactivateAll]_vars
    <2> SUFFICES ASSUME IInv, [Next]_vars, NEW t \in Slots, IsLive(slots[t].act),
                        ~IsExpired(slots[t].act), slots'[t].act.id # slots[t].act.id,
                        ~OwnerStep(t), ~deactivateAll
                 PROVE  guesses'[slots[t].act.id] = MaxPinFailures
      OBVIOUS
    <2>0. TypeOK
      BY DEF IInv
    <2>1. slots'[t] # slots[t] /\ slots'[t] # pruneExpired(slots)[t]
      BY <2>0, Pruned
    <2>2. ASSUME NEW s \in Slots, OwnerStep(s)
          PROVE  FALSE
      <3>1. t # s
        BY <2>2
      <3>2. ASSUME NEW ttl \in TtlChoices, activate(s, ttl)
            PROVE  FALSE
        BY <2>0, <2>1, <3>1, <3>2, ActivateEffect
      <3>3. ASSUME NEW ttl \in TtlChoices, setTtl(s, ttl)
            PROVE  FALSE
        BY <2>0, <2>1, <3>1, <3>3, SetTtlEffect
      <3>4. ASSUME NEW p \in Perms, setPermissions(s, p)
            PROVE  FALSE
        BY <2>0, <2>1, <3>1, <3>4, SetPermissionsEffect
      <3>5. ~setName(s) /\ ~deactivate(s)
        BY <2>0, <2>1, <3>1, Cleared DEF setName, deactivate, TypeOK
      <3>6. QED
        BY <2>2, <3>2, <3>3, <3>4, <3>5 DEF OwnerStep
    <2>3. ASSUME NEW c \in Callers, NEW s \in Slots, RedeemWrongPin(c, s)
          PROVE  guesses'[slots[t].act.id] = MaxPinFailures
      <3>1. t = s
        BY <2>0, <2>1, <2>3, WrongPinEffect
      <3>2. ~SameInvitation(slots'[s].act, slots[s].act)
        BY <3>1 DEF SameInvitation
      <3>3. slots[s].act.pinFailures + 1 >= MaxPinFailures
        BY <2>0, <2>3, <3>2, WrongPinEffect
      <3>4. /\ slots[s].act.id \in Ids
            /\ slots[s].act.pinFailures \in Nat
            /\ guesses \in [Ids -> Nat]
        <4>1. /\ slots[s].act.id \in Nat /\ slots[s].act.id <= MaxActivations
              /\ slots[s].act.pinFailures \in Nat /\ guesses \in [Ids -> Nat]
          BY <2>0, FieldTypes DEF TypeOK
        <4>2. QED
          BY <3>1, <4>1, ShareAssumption DEF Ids, IsLive
      <3>5. /\ guesses[slots[s].act.id] = slots[s].act.pinFailures
            /\ slots[s].act.pinFailures < MaxPinFailures
        BY <3>1 DEF IInv, MemOK, Accounted
      <3>6. slots[s].act.pinFailures + 1 = MaxPinFailures
        BY <3>3, <3>4, <3>5, ShareAssumption
      <3>7. pruneExpired(slots)[s] = slots[s]
        BY <2>0, <3>1, Pruned
      <3>8. guesses' = [guesses EXCEPT ![slots[s].act.id] = @ + 1]
        BY <2>3, <3>7 DEF RedeemWrongPin
      <3>9. guesses'[slots[s].act.id] = guesses[slots[s].act.id] + 1
        BY <3>4, <3>8
      <3>10. QED
        BY <3>1, <3>5, <3>6, <3>9
    <2>4. ASSUME NEW c \in Callers, NEW s \in Slots, RedeemRightPin(c, s)
          PROVE  FALSE
      BY <2>0, <2>1, <2>4, RightPinEffect
    <2>5. ASSUME NEW c \in Callers, redeemPin(c)
          PROVE  guesses'[slots[t].act.id] = MaxPinFailures
      BY <2>1, <2>3, <2>4, <2>5 DEF redeemPin, RedeemRateLimited, RedeemUnknown
    <2>6. ASSUME NEW s \in Slots, NEW on \in BOOLEAN, setStreaming(s, on)
          PROVE  FALSE
      BY <2>0, <2>1, <2>6, StreamingEffect
    <2>7. ~(Query \/ Sweep \/ Tick \/ UNCHANGED vars)
      BY <2>1 DEF Query, Sweep, Tick, vars
    <2>8. ~Restart
      BY RestartEffect DEF Current
    <2>9. ~CrashMidSave
      BY DEF CrashMidSave
    <2>10. QED
      BY <2>2, <2>5, <2>6, <2>7, <2>8, <2>9 DEF Next
  <1>2. QED
    BY <1>1, Bookkeeping, PTL DEF Spec, EndsOnlyForCause

-----------------------------------------------------------------------------
(***************************************************************************)
(* ShareManager implements Invitations.  An expired activation that a      *)
(* method prunes is an invitation that closes in the same step; what a     *)
(* closed row says of permissions is what its invitation enforced, because *)
(* the row remembers it.                                                   *)
(***************************************************************************)

\* No device can join any more.
Bound(r) == r.act.cookies >= MaxCookies

\* The invitation a slot with contents r offers.
Offer(r) ==
    [id        |-> r.act.id,
     perms     |-> IF IsLive(r.act) THEN r.act.perms ELSE r.lastPerms,
     bound     |-> Bound(r),
     streaming |-> r.act.streaming]

\* What ShareManager offers, slot by slot.
LEMMA OfferedIs ==
  /\ Offered = [t \in Slots |-> Offer(slots[t])]
  /\ Offered' = [t \in Slots |-> Offer(slots'[t])]
  BY DEF Offered, Offer, Bound

\* A slot is bound when its places are taken, and by nothing else.
LEMMA BoundIs ==
  ASSUME NEW r
  PROVE  /\ r.act.cookies >= MaxCookies => Bound(r) = TRUE
         /\ ~(r.act.cookies >= MaxCookies) => Bound(r) = FALSE
  <1>1. ASSUME r.act.cookies >= MaxCookies PROVE Bound(r) = TRUE
    BY <1>1 DEF Bound
  <1>2. ASSUME ~(r.act.cookies >= MaxCookies) PROVE Bound(r) = FALSE
    BY <1>2 DEF Bound
  <1>3. QED
    BY <1>1, <1>2

\* The same, withdrawn; opened again as i; with its place taken; with its
\* stream gone.
Gone(o) == [o EXCEPT !.id = 0, !.bound = FALSE, !.streaming = FALSE]
Reopened(o, i) == [Gone(o) EXCEPT !.id = i]
Taken(o) == [o EXCEPT !.bound = TRUE]
Stopped(o) == [o EXCEPT !.streaming = FALSE]

Invite(i, p, b, w) == [id |-> i, perms |-> p, bound |-> b, streaming |-> w]

Says(r) == IF IsLive(r.act) THEN r.act.perms ELSE r.lastPerms

\* What these leave, field by field.
LEMMA OfferIs ==
  ASSUME NEW r, NEW i
  PROVE  /\ Offer(r) = Invite(r.act.id, Says(r), Bound(r), r.act.streaming)
         /\ Gone(Offer(r)) = Invite(0, Says(r), FALSE, FALSE)
         /\ Reopened(Offer(r), i) = Invite(i, Says(r), FALSE, FALSE)
         /\ Taken(Offer(r)) = Invite(r.act.id, Says(r), TRUE, r.act.streaming)
         /\ Stopped(Offer(r)) = Invite(r.act.id, Says(r), Bound(r), FALSE)
  <1> DEFINE o == Offer(r)
             no == FALSE
             yes == TRUE
             zero == 0
             n == r.act.id
             p == Says(r)
             b == Bound(r)
             w == r.act.streaming
  <1>1. o = [id |-> n, perms |-> p, bound |-> b, streaming |-> w]
    BY DEF Offer, Says
  <1> HIDE DEF o, no, yes, zero, n, p, b, w
  <1> DEFINE o1 == [o EXCEPT !.id = zero]
             o2 == [o1 EXCEPT !.bound = no]
             o3 == [o2 EXCEPT !.streaming = no]
  <1>2. o1 = [id |-> zero, perms |-> p, bound |-> b, streaming |-> w]
    BY <1>1, SMTT(60)
  <1> HIDE DEF o1
  <1>3. o2 = [id |-> zero, perms |-> p, bound |-> no, streaming |-> w]
    BY <1>2, SMTT(60)
  <1> HIDE DEF o2
  <1>4. o3 = [id |-> zero, perms |-> p, bound |-> no, streaming |-> no]
    BY <1>3, SMTT(60)
  <1>5. [o EXCEPT !.id = zero, !.bound = no, !.streaming = no] = o3
    BY SMTT(60) DEF o1, o2
  <1> HIDE DEF o3
  <1>6. [o3 EXCEPT !.id = i] = [id |-> i, perms |-> p, bound |-> no, streaming |-> no]
    BY <1>4, SMTT(60)
  <1> DEFINE g == [o EXCEPT !.id = zero, !.bound = no, !.streaming = no]
  <1> HIDE DEF g
  <1>7. /\ g = [id |-> zero, perms |-> p, bound |-> no, streaming |-> no]
        /\ [g EXCEPT !.id = i] = [id |-> i, perms |-> p, bound |-> no, streaming |-> no]
    <2>1. g = o3
      BY <1>5 DEF g
    <2>2. QED
      BY <1>4, <1>6, <2>1
  <1>8. [o EXCEPT !.bound = yes] = [id |-> n, perms |-> p, bound |-> yes, streaming |-> w]
    BY <1>1, SMTT(60)
  <1>9. [o EXCEPT !.streaming = no] = [id |-> n, perms |-> p, bound |-> b, streaming |-> no]
    BY <1>1, SMTT(60)
  <1>a. Offer(r) = Invite(r.act.id, Says(r), Bound(r), r.act.streaming)
    BY <1>1 DEF Invite, o, n, p, b, w
  <1>b. Gone(Offer(r)) = Invite(0, Says(r), FALSE, FALSE)
    BY <1>7 DEF Gone, Invite, g, o, zero, p, no
  <1>c. Reopened(Offer(r), i) = Invite(i, Says(r), FALSE, FALSE)
    BY <1>7 DEF Reopened, Gone, Invite, g, o, zero, p, no
  <1>d. Taken(Offer(r)) = Invite(r.act.id, Says(r), TRUE, r.act.streaming)
    BY <1>8 DEF Taken, Invite, o, n, p, yes, w
  <1>e. Stopped(Offer(r)) = Invite(r.act.id, Says(r), Bound(r), FALSE)
    BY <1>9 DEF Stopped, Invite, o, n, p, b, no
  <1>f. QED
    BY <1>a, <1>b, <1>c, <1>d, <1>e

Expired == {t \in Slots : IsExpired(slots[t].act)}

\* A slot among G is withdrawn, the others stay.
Withdrawn(G, t) ==
    Offer(slots'[t]) = IF t \in G THEN Gone(Offer(slots[t])) ELSE Offer(slots[t])

AbstractStep == [Abstract!InvNext]_(Abstract!invVars)

\* The steps of Invitations, slot by slot: slots in G close.
LEMMA StepClose ==
  ASSUME NEW G \in SUBSET Slots, minted' = minted, \A t \in Slots : Withdrawn(G, t)
  PROVE  AbstractStep
  <1>1. Offered' = Abstract!Without(Offered, G)
    BY OfferedIs DEF Abstract!Without, Withdrawn, Offer, Gone
  <1>2. Abstract!Close(G)
    BY <1>1 DEF Abstract!Close
  <1>3. QED
    BY <1>2 DEF AbstractStep, Abstract!InvNext

\* Slots in G close and s opens afresh.
LEMMA StepOpen ==
  ASSUME NEW G \in SUBSET Slots, NEW s \in Slots, minted < MaxActivations, minted' = minted + 1,
         \A t \in Slots : t # s => Withdrawn(G, t),
         Offer(slots'[s]) = Reopened(Offer(slots[s]), minted + 1)
  PROVE  AbstractStep
  <1>1. Offered' = [Abstract!Without(Offered, G \cup {s}) EXCEPT ![s].id = minted + 1]
    <2> DEFINE W == Abstract!Without(Offered, G \cup {s})
               o == [t \in Slots |-> Offer(slots[t])]
    <2>1. Offered = o /\ Offered' = [t \in Slots |-> Offer(slots'[t])]
      BY OfferedIs DEF Offer
    <2>2. W = [t \in Slots |-> IF t \in G \cup {s} THEN Gone(o[t]) ELSE o[t]]
      BY <2>1 DEF Abstract!Without, Gone
    <2> HIDE DEF W
    <2>3. [W EXCEPT ![s].id = minted + 1]
            = [t \in Slots |-> IF t = s THEN Reopened(o[t], minted + 1)
                               ELSE IF t \in G THEN Gone(o[t]) ELSE o[t]]
      BY <2>2 DEF Reopened
    <2>4. QED
      BY <2>1, <2>3 DEF Withdrawn, W
  <1>2. Abstract!Open(G, s)
    BY <1>1 DEF Abstract!Open
  <1>3. QED
    BY <1>2 DEF AbstractStep, Abstract!InvNext

\* Slots in G close and s is given the permissions p.
LEMMA StepPermit ==
  ASSUME NEW G \in SUBSET Slots, NEW s \in Slots, NEW p \in Perms, minted' = minted,
         \A t \in Slots : t # s => Withdrawn(G, t),
         Offer(slots'[s]) = [IF s \in G THEN Gone(Offer(slots[s])) ELSE Offer(slots[s])
                             EXCEPT !.perms = p]
  PROVE  AbstractStep
  <1>1. Offered' = [Abstract!Without(Offered, G) EXCEPT ![s].perms = p]
    BY OfferedIs DEF Abstract!Without, Withdrawn, Offer, Gone
  <1>2. Abstract!Permit(G, s, p)
    BY <1>1 DEF Abstract!Permit
  <1>3. QED
    BY <1>2 DEF AbstractStep, Abstract!InvNext

\* Slots in G close and the last place of s is taken.
LEMMA StepBind ==
  ASSUME NEW G \in SUBSET Slots, NEW s \in Slots, s \notin G, minted' = minted,
         IsLive(slots[s].act), ~(slots[s].act.cookies >= MaxCookies),
         \A t \in Slots : t # s => Withdrawn(G, t),
         Offer(slots'[s]) = Taken(Offer(slots[s]))
  PROVE  AbstractStep
  <1>1. Offered' = [Abstract!Without(Offered, G) EXCEPT ![s].bound = TRUE]
    <2> DEFINE W == Abstract!Without(Offered, G)
               o == [t \in Slots |-> Offer(slots[t])]
    <2>1. W = [t \in Slots |-> IF t \in G THEN Gone(o[t]) ELSE o[t]]
      BY OfferedIs DEF Abstract!Without, Gone
    <2> HIDE DEF W
    <2>2. [W EXCEPT ![s].bound = TRUE]
            = [t \in Slots |-> IF t = s THEN Taken(o[t])
                               ELSE IF t \in G THEN Gone(o[t]) ELSE o[t]]
      BY <2>1 DEF Taken
    <2>3. QED
      BY <2>2, OfferedIs DEF Withdrawn, W
  <1>2. Abstract!IsLive(Offered, s) /\ ~Offered[s].bound
    BY BoundIs, OfferedIs DEF Offer, Abstract!IsLive, IsLive
  <1>3. Abstract!Bind(G, s)
    BY <1>1, <1>2 DEF Abstract!Bind
  <1>4. QED
    BY <1>3 DEF AbstractStep, Abstract!InvNext

\* The stream of s comes or goes.
LEMMA StepStream ==
  ASSUME NEW s \in Slots, NEW on \in BOOLEAN, minted' = minted, IsLive(slots[s].act),
         \A t \in Slots : t # s => slots'[t] = slots[t],
         Offer(slots'[s]) = [Offer(slots[s]) EXCEPT !.streaming = on]
  PROVE  AbstractStep
  <1>1. Offered' = [Offered EXCEPT ![s].streaming = on]
    BY OfferedIs DEF Offer
  <1>2. Abstract!IsLive(Offered, s)
    BY OfferedIs DEF Offer, Abstract!IsLive, IsLive
  <1>3. Abstract!Stream(s, on)
    BY <1>1, <1>2 DEF Abstract!Stream
  <1>4. QED
    BY <1>3 DEF AbstractStep, Abstract!InvNext

\* A restart in which the slots in G are lost.
LEMMA StepReboot ==
  ASSUME NEW G \in SUBSET Slots, NEW p \in [Slots -> Perms], minted' = minted,
         \A t \in Slots : Offer(slots'[t]) =
            IF t \in G THEN Invite(0, p[t], FALSE, FALSE)
                       ELSE Stopped(Offer(slots[t]))
  PROVE  AbstractStep
  <1>1. Offered' = [s \in Slots |->
                      IF s \in G
                      THEN [id |-> 0, perms |-> p[s], bound |-> FALSE, streaming |-> FALSE]
                      ELSE [Offered[s] EXCEPT !.streaming = FALSE]]
    BY OfferedIs DEF Stopped, Invite
  <1>2. Abstract!Reboot(G, p)
    BY <1>1 DEF Abstract!Reboot
  <1>3. QED
    BY <1>2 DEF AbstractStep, Abstract!InvNext

\* What pruning and closing do to the invitation a slot offers.
LEMMA OfferFacts ==
  ASSUME IInv, Identities, NEW t \in Slots
  PROVE  /\ Offer(pruneExpired(slots)[t])
              = IF t \in Expired THEN Gone(Offer(slots[t])) ELSE Offer(slots[t])
         /\ \A r : (r.act = NoActivation /\ r.lastPerms = slots[t].lastPerms)
                      => Offer(r) = Gone(Offer(slots[t]))
  <1>1. TypeOK /\ (IsLive(slots[t].act) => slots[t].lastPerms = slots[t].act.perms)
    BY DEF IInv, MemOK, Remembers
  <1>2. /\ NoActivation.id = 0 /\ NoActivation.streaming = FALSE /\ ~IsLive(NoActivation)
        /\ ~(NoActivation.cookies >= MaxCookies)
    BY ShareAssumption DEF NoActivation, IsLive
  <1>3. ASSUME NEW r, r.act = NoActivation, r.lastPerms = slots[t].lastPerms
        PROVE  Offer(r) = Gone(Offer(slots[t]))
    <2>1. Offer(r) = Invite(0, slots[t].lastPerms, FALSE, FALSE)
      BY <1>2, <1>3, BoundIs, OfferIs DEF Says
    <2>2. Says(slots[t]) = slots[t].lastPerms
      BY <1>1 DEF Says
    <2>3. QED
      BY <2>1, <2>2, OfferIs
  <1>4. t \in Expired <=> IsExpired(slots[t].act)
    BY DEF Expired
  <1>5. QED
    BY <1>1, <1>3, <1>4, Pruned

\* An empty slot offers nothing.
LEMMA FreshOffer ==
  Offer(FreshSlot) = Invite(0, Viewer, FALSE, FALSE)
  <1>1. /\ FreshSlot.act.id = 0 /\ ~IsLive(FreshSlot.act) /\ FreshSlot.lastPerms = Viewer
        /\ ~(FreshSlot.act.cookies >= MaxCookies) /\ FreshSlot.act.streaming = FALSE
    BY ShareAssumption DEF FreshSlot, NoActivation, IsLive
  <1>2. QED
    BY <1>1, BoundIs, OfferIs DEF Says

\* Slots whose contents differ in nothing that is offered offer the same.
LEMMA OfferSame ==
  ASSUME NEW r, NEW q, SameInvitation(r.act, q.act), r.lastPerms = q.lastPerms
  PROVE  Offer(r) = Offer(q)
  BY DEF SameInvitation, Offer, Bound, IsLive

\* Every step of ShareManager is one of Invitations, or leaves it as it is.
LEMMA RefinementStep ==
  ASSUME ~SaveMayFail, IInv, Identities, [Next]_vars
  PROVE  AbstractStep
  <1> DEFINE f == pruneExpired(slots)
  <1>0. /\ TypeOK /\ minted \in Nat /\ Expired \in SUBSET Slots
        /\ \A t \in Slots : /\ slots'[t] = f[t] => Withdrawn(Expired, t)
                            /\ slots'[t] = slots[t] => Withdrawn({}, t)
    <2>1. TypeOK /\ minted \in Nat /\ Expired \in SUBSET Slots
      BY DEF IInv, TypeOK, Expired
    <2>2. QED
      BY <2>1, OfferFacts DEF Withdrawn
  <1>1. ASSUME NEW s \in Slots, NEW ttl \in TtlChoices, activate(s, ttl)
        PROVE  AbstractStep
    <2>1. minted < MaxActivations /\ minted' = minted + 1
      BY <1>1 DEF activate
    <2>2. \A t \in Slots : t # s => Withdrawn(Expired, t)
      BY <1>0, <1>1, ActivateEffect
    <2>3. Offer(slots'[s]) = Reopened(Offer(slots[s]), minted + 1)
      <3>1. Says(slots[s]) = slots[s].lastPerms
        BY DEF IInv, MemOK, Remembers, Says
      <3>2. slots'[s].act.id = minted + 1 /\ slots'[s].act.cookies = 0
        BY <1>0, <1>1, ActivateEffect
      <3>3. IsLive(slots'[s].act) /\ ~(slots'[s].act.cookies >= MaxCookies)
        BY <1>0, <3>2, ShareAssumption DEF IsLive
      <3>4. Says(slots'[s]) = slots[s].lastPerms /\ slots'[s].act.streaming = FALSE
        BY <1>0, <1>1, <3>3, ActivateEffect DEF Says
      <3>5. Offer(slots'[s]) = Invite(minted + 1, slots[s].lastPerms, FALSE, FALSE)
        BY <3>2, <3>3, <3>4, BoundIs, OfferIs
      <3>6. QED
        BY <3>1, <3>5, OfferIs
    <2>4. QED
      BY <1>0, <2>1, <2>2, <2>3, StepOpen
  <1>2. ASSUME NEW s \in Slots, NEW ttl \in TtlChoices, setTtl(s, ttl)
        PROVE  AbstractStep
    <2>1. minted' = minted
      BY <1>2 DEF setTtl
    <2>2. Offer(slots'[s]) = Offer(f[s])
      BY <1>0, <1>2, SetTtlEffect, Pruned, OfferSame
    <2>3. \A t \in Slots : Withdrawn(Expired, t)
      BY <1>0, <1>2, <2>2, SetTtlEffect, OfferFacts DEF Withdrawn
    <2>4. QED
      BY <1>0, <2>1, <2>3, StepClose
  <1>3. ASSUME NEW s \in Slots, NEW p \in Perms, setPermissions(s, p)
        PROVE  AbstractStep
    <2>1. minted' = minted
      BY <1>3 DEF setPermissions
    <2>2. Offer(slots'[s]) = [Offer(f[s]) EXCEPT !.perms = p]
      BY <1>0, <1>3, SetPermissionsEffect DEF Offer, Bound, IsLive
    <2>3. Offer(slots'[s]) = [IF s \in Expired THEN Gone(Offer(slots[s])) ELSE Offer(slots[s])
                              EXCEPT !.perms = p]
      BY <2>2, OfferFacts
    <2>4. \A t \in Slots : t # s => Withdrawn(Expired, t)
      BY <1>0, <1>3, SetPermissionsEffect
    <2>5. QED
      BY <1>0, <2>1, <2>3, <2>4, StepPermit
  <1>4. ASSUME NEW s \in Slots, deactivate(s)
        PROVE  AbstractStep
    <2>1. minted' = minted /\ slots' = clearActivation(slots, s)
      BY <1>4 DEF deactivate
    <2>2. \A t \in Slots : Withdrawn({s}, t)
      BY <1>0, <2>1, Cleared, OfferFacts DEF Withdrawn, TypeOK
    <2>3. QED
      BY <2>1, <2>2, StepClose
  <1>5. ASSUME deactivateAll
        PROVE  AbstractStep
    <2>1. minted' = minted
      BY <1>5 DEF deactivateAll
    <2>2. \A t \in Slots : slots'[t].act = NoActivation /\ slots'[t].lastPerms = slots[t].lastPerms
      BY <1>0, <1>5 DEF deactivateAll, TypeOK, Slot
    <2>3. \A t \in Slots : Withdrawn(Slots, t)
      BY <2>2, OfferFacts DEF Withdrawn
    <2>4. QED
      BY <2>1, <2>3, StepClose
  <1>6. ASSUME NEW c \in Callers, NEW s \in Slots, RedeemWrongPin(c, s)
        PROVE  AbstractStep
    <2>1. minted' = minted
      BY <1>6 DEF RedeemWrongPin
    <2>2. CASE slots'[s].act = NoActivation
      <3>1. \A t \in Slots : Withdrawn(Expired \cup {s}, t)
        BY <1>0, <1>6, <2>2, WrongPinEffect, OfferFacts DEF Withdrawn
      <3>2. QED
        BY <1>0, <2>1, <3>1, StepClose
    <2>3. CASE slots'[s].act # NoActivation
      <3>1. Offer(slots'[s]) = Offer(slots[s]) /\ s \notin Expired
        BY <1>0, <1>6, <2>3, WrongPinEffect, OfferSame DEF Expired
      <3>2. \A t \in Slots : Withdrawn(Expired, t)
        BY <1>0, <1>6, <3>1, WrongPinEffect DEF Withdrawn
      <3>3. QED
        BY <1>0, <2>1, <3>2, StepClose
    <2>4. QED
      BY <2>2, <2>3
  <1>7. ASSUME NEW c \in Callers, NEW s \in Slots, RedeemRightPin(c, s)
        PROVE  AbstractStep
    <2>1. minted' = minted
      BY <1>7 DEF RedeemRightPin
    <2>2. /\ s \notin Expired /\ IsLive(slots[s].act)
          /\ \A t \in Slots : t # s => Withdrawn(Expired, t)
      BY <1>0, <1>7, RightPinEffect DEF Expired
    <2>3. slots[s].act.cookies \in Nat /\ MaxCookies \in Nat
      BY <1>0, FieldTypes, ShareAssumption DEF TypeOK
    <2>4. CASE ~(slots[s].act.cookies >= MaxCookies) /\ slots[s].act.cookies + 1 >= MaxCookies
      <3>1. slots'[s].act.cookies >= MaxCookies
        BY <1>0, <1>7, <2>4, RightPinEffect
      <3>2. Offer(slots'[s]) = Taken(Offer(slots[s]))
        <4>1. /\ slots'[s].act.id = slots[s].act.id
              /\ slots'[s].act.perms = slots[s].act.perms
              /\ slots'[s].act.streaming = slots[s].act.streaming
          BY <1>0, <1>7, RightPinEffect
        <4>2. Says(slots'[s]) = Says(slots[s])
          BY <2>2, <4>1 DEF IsLive, Says
        <4>3. Offer(slots'[s])
                = Invite(slots[s].act.id, Says(slots[s]), TRUE, slots[s].act.streaming)
          BY <3>1, <4>1, <4>2, BoundIs, OfferIs
        <4>4. QED
          BY <4>3, OfferIs
      <3>3. QED
        BY <1>0, <2>1, <2>2, <2>4, <3>2, StepBind
    <2>5. CASE slots[s].act.cookies >= MaxCookies \/ ~(slots[s].act.cookies + 1 >= MaxCookies)
      <3>1. (slots'[s].act.cookies >= MaxCookies) = (slots[s].act.cookies >= MaxCookies)
        BY <1>0, <1>7, <2>3, <2>5, RightPinEffect
      <3>2. Offer(slots'[s]) = Offer(slots[s])
        BY <1>0, <1>7, <3>1, RightPinEffect DEF Offer, Bound, IsLive
      <3>3. \A t \in Slots : Withdrawn(Expired, t)
        BY <2>2, <3>2 DEF Withdrawn
      <3>4. QED
        BY <1>0, <2>1, <3>3, StepClose
    <2>6. QED
      BY <2>4, <2>5
  <1>8. ASSUME NEW s \in Slots, NEW on \in BOOLEAN, setStreaming(s, on)
        PROVE  AbstractStep
    <2>1. minted' = minted
      BY <1>8 DEF setStreaming
    <2>2. Offer(slots'[s]) = [Offer(slots[s]) EXCEPT !.streaming = on]
      BY <1>0, <1>8, StreamingEffect DEF Offer, Bound, IsLive
    <2>3. QED
      BY <1>0, <1>8, <2>1, <2>2, StreamingEffect, StepStream
  <1>9. ASSUME minted' = minted, slots' = f
        PROVE  AbstractStep
    BY <1>0, <1>9, StepClose
  <1>10. ASSUME minted' = minted, slots' = slots
         PROVE  AbstractStep
    BY <1>0, <1>10, StepClose
  <1>11. ASSUME Restart
         PROVE  AbstractStep
    <2> DEFINE G == {t \in Slots : ~Current(slots[t].act)}
               p == [t \in Slots |-> slots'[t].lastPerms]
    <2>1. minted' = minted /\ p \in [Slots -> Perms] /\ G \in SUBSET Slots
      BY <1>11, RestartEffect DEF Restart
    <2>2. ASSUME NEW t \in Slots, t \notin G
          PROVE  Offer(slots'[t]) = Stopped(Offer(slots[t]))
      <3>1. Current(slots[t].act) /\ IsLive(slots[t].act)
        BY <2>2 DEF Current
      <3>2. /\ slots'[t].act.id = slots[t].act.id /\ slots'[t].act.perms = slots[t].act.perms
            /\ slots'[t].act.cookies = slots[t].act.cookies
            /\ slots'[t].act.streaming = FALSE
        BY <1>11, <3>1, RestartEffect
      <3>3. Says(slots'[t]) = Says(slots[t])
        BY <3>1, <3>2 DEF IsLive, Says
      <3>4. Bound(slots'[t]) = Bound(slots[t])
        BY <3>2 DEF Bound
      <3>5. QED
        BY <3>2, <3>3, <3>4, OfferIs
    <2>3. ASSUME NEW t \in G
          PROVE  Offer(slots'[t]) = Invite(0, p[t], FALSE, FALSE)
      <3>1. ~IsLive(slots'[t].act) /\ t \in Slots
        BY <1>11, <2>3, RestartEffect
      <3>2. /\ slots'[t].act.cookies = 0 /\ slots'[t].act.streaming = FALSE
            /\ slots'[t].act.id = 0
        BY <3>1, IdentitiesStep DEF Identities, Blank, IsLive
      <3>3. ~(slots'[t].act.cookies >= MaxCookies)
        BY <3>2, ShareAssumption
      <3>4. QED
        BY <3>1, <3>2, <3>3, BoundIs, OfferIs DEF Says
    <2> HIDE DEF G, p
    <2>4. QED
      BY <2>1, <2>2, <2>3, StepReboot
  <1>12. ASSUME CrashMidSave
         PROVE  AbstractStep
    <2> DEFINE p == [t \in Slots |-> Viewer]
    <2>1. minted' = minted /\ p \in [Slots -> Perms]
      BY <1>12, ShareAssumption DEF CrashMidSave
    <2>2. \A t \in Slots : slots'[t] = FreshSlot
      BY <1>12 DEF CrashMidSave, NoFile
    <2>3. Offer(FreshSlot) = Invite(0, Viewer, FALSE, FALSE)
      BY FreshOffer
    <2>4. \A t \in Slots : Offer(slots'[t]) = Invite(0, p[t], FALSE, FALSE)
      BY <2>2, <2>3
    <2> HIDE DEF p
    <2>5. QED
      BY <2>1, <2>4, StepReboot
  <1>13. QED
    <2>1. CASE \E s \in Slots : OwnerStep(s)
      BY <2>1, <1>1, <1>2, <1>3, <1>4, <1>10 DEF OwnerStep, setName
    <2>2. CASE \E c \in Callers : redeemPin(c)
      BY <2>2, <1>6, <1>7, <1>9 DEF redeemPin, RedeemRateLimited, RedeemUnknown
    <2>3. CASE Query \/ Sweep \/ Tick \/ UNCHANGED vars
      BY <2>3, <1>9, <1>10 DEF Query, Sweep, Tick, vars
    <2>4. QED
      BY <2>1, <2>2, <2>3, <1>5, <1>8, <1>11, <1>12 DEF Next

\* ShareManager does what the rest of the server relies on.
THEOREM Implements == ASSUME ~SaveMayFail PROVE Spec => ImplementsInvitations
  <1>1. Init => Abstract!InvInit
    <2> SUFFICES ASSUME Init PROVE Abstract!InvInit
      OBVIOUS
    <2>1. Offer(FreshSlot) = Invite(0, Viewer, FALSE, FALSE)
      BY FreshOffer
    <2>2. Offered = [s \in Slots |-> Offer(FreshSlot)]
      BY OfferedIs DEF Init, NoFile
    <2>3. QED
      BY <2>1, <2>2, ShareAssumption DEF Init, Invite, Abstract!InvInit
  <1>2. IInv /\ Identities /\ [Next]_vars => [Abstract!InvNext]_(Abstract!invVars)
    BY RefinementStep DEF AbstractStep
  <1>3. QED
    BY <1>1, <1>2, Bookkeeping, RowsApart, PTL DEF Spec, ImplementsInvitations, Abstract!InvSpec

=============================================================================
