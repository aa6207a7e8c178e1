---------------------------- MODULE ShareManager ----------------------------
(***************************************************************************)
(* backend/src/server/ShareManager: the owner's invitations, one per       *)
(* player slot.  An activation mints a link token and a PIN; a caller who  *)
(* offers both receives a cookie and is bound to it; an owner action, the  *)
(* deadline, or too many wrong PINs ends it.  All of it survives a restart *)
(* through share.json.                                                     *)
(*                                                                         *)
(* ShareManager lives on the server's main thread: each method runs to its *)
(* end before another starts, so one method is one action, its trailing    *)
(* save() included.                                                        *)
(*                                                                         *)
(* Abstractions.  Token, PIN and cookies are the activation's id (a        *)
(* digest collision is not modelled): a caller offers the token of some    *)
(* opening, past or present, with the right or a wrong PIN.  Names, hosts, *)
(* apps, user agents and the clear copy of the pair are not told apart by  *)
(* any property and are left out.  The wall clock does not step back.      *)
(***************************************************************************)
EXTENDS Naturals

CONSTANTS
    Slots,            \* kFirstSlot..kLastSlot
    Callers,          \* rate-limit keys: one bucket per calling address
    Perms,            \* the Permissions values
    Viewer,           \* Permissions{}: no input at all, the default
    TtlChoices,       \* kTtlChoices; 0 is unlimited
    DefaultTtl,       \* kTtlSecs
    MaxPinFailures,   \* kMaxPinFailures
    MaxCookies,       \* kMaxCookiesPerActivation
    Tier1, Tier2, Tier3,                \* RATE_TIER1..3
    LockShort, LockMedium, LockLong,    \* LOCKOUT_*_SECS
    MaxActivations,   \* bound: how many activations are ever minted
    MaxTime,          \* bound: the last instant of the clock
    CrashInSave,      \* may the process die between truncate and write?
    SaveMayFail       \* may the file refuse to open, or the write be cut short?

ASSUME ShareAssumption ==
    /\ Viewer \in Perms
    /\ TtlChoices \subseteq Nat
    /\ DefaultTtl \in TtlChoices
    /\ MaxPinFailures \in Nat \ {0}
    /\ MaxCookies \in Nat \ {0}
    /\ Tier1 \in Nat \ {0} /\ Tier2 \in Nat /\ Tier3 \in Nat
    /\ Tier1 <= Tier2 /\ Tier2 <= Tier3
    /\ LockShort \in Nat /\ LockMedium \in Nat /\ LockLong \in Nat
    /\ LockShort <= LockMedium /\ LockMedium <= LockLong
    /\ MaxActivations \in Nat
    /\ MaxTime \in Nat
    /\ CrashInSave \in BOOLEAN
    /\ SaveMayFail \in BOOLEAN

VARIABLES
    slots,      \* m_Slots
    rate,       \* m_RateLimits; an absent bucket is the zero entry
    disk,       \* what load() would read from share.json
    now,        \* QDateTime::currentSecsSinceEpoch()
    minted,     \* how many activations exist or have existed; ids are 1..minted
    issued,     \* id -> cookies handed out for it, ever
    guesses     \* id -> wrong PINs tested against it since its last right one

vars == <<slots, rate, disk, now, minted, issued, guesses>>

Ids == 1..MaxActivations

Activation ==
    [id          : 0..MaxActivations,
     cookies     : 0..MaxCookies,
     perms       : Perms,
     ttl         : TtlChoices,
     expiresAt   : Nat,
     pinFailures : 0..MaxPinFailures,
     streaming   : BOOLEAN,
     refused     : BOOLEAN]      \* lastRefusedAt is set

Slot == [lastPerms : Perms, lastTtl : TtlChoices, act : Activation]

\* Activation{}: no token digest, so live() is false.
NoActivation ==
    [id |-> 0, cookies |-> 0, perms |-> Viewer, ttl |-> DefaultTtl, expiresAt |-> 0,
     pinFailures |-> 0, streaming |-> FALSE, refused |-> FALSE]

\* Slot{}, what the constructor puts in every slot before load().
FreshSlot == [lastPerms |-> Viewer, lastTtl |-> DefaultTtl, act |-> NoActivation]

\* A file that is missing, truncated or unparsable loads like this one.
NoFile == [s \in Slots |-> FreshSlot]

RateEntry == [failures : Nat, lastFailure : Nat, lockoutUntil : Nat]

NoEntry == [failures |-> 0, lastFailure |-> 0, lockoutUntil |-> 0]

IsLive(act) == act.id # 0

IsExpired(act) == IsLive(act) /\ act.expiresAt > 0 /\ now >= act.expiresAt

LiveIds(f) == {f[s].act.id : s \in Slots} \ {0}

TypeOK ==
    /\ slots \in [Slots -> Slot]
    /\ disk \in [Slots -> Slot]
    /\ rate \in [Callers -> RateEntry]
    /\ now \in 0..MaxTime
    /\ minted \in 0..MaxActivations
    /\ issued \in [Ids -> Nat]
    /\ guesses \in [Ids -> Nat]

-----------------------------------------------------------------------------
(***************************************************************************)
(* Internals.                                                              *)
(***************************************************************************)

\* f with activation a in slot s.
WithAct(f, s, a) == [f EXCEPT ![s] = [@ EXCEPT !.act = a]]

clearActivation(f, s) == WithAct(f, s, NoActivation)

pruneExpired(f) ==
    [s \in Slots |-> IF IsExpired(f[s].act) THEN [f[s] EXCEPT !.act = NoActivation] ELSE f[s]]

AnyExpired == \E s \in Slots : IsExpired(slots[s].act)

\* An activation as share.json keeps it: everything but the streaming flag.
Stored(act) == [act EXCEPT !.streaming = FALSE]

\* Image(f) is what save() writes of f.
Image(f) == [s \in Slots |-> [f[s] EXCEPT !.act = Stored(f[s].act)]]

\* save() may warn and leave the old file, or leave a truncated one.
save(f) ==
    \/ disk' = Image(f)
    \/ SaveMayFail /\ disk' \in {disk, NoFile}

\* save() after work that may have changed nothing but expired activations.
\* (A prune that saves before a method that saves again is one save here: the
\* two files differ in expired activations only, and load() drops those.)
SaveIf(changed, f) == IF changed THEN save(f) ELSE UNCHANGED disk

\* Mutant of load: the wrong-PIN count is not restored.
loadForgetsFailures(file) ==
    [s \in Slots |-> IF IsExpired(file[s].act) THEN [file[s] EXCEPT !.act = NoActivation]
                                               ELSE [file[s] EXCEPT !.act.pinFailures = 0]]

\* The slots that load() rebuilds from the file at this instant.
load(file) ==
    [s \in Slots |-> IF IsExpired(file[s].act) THEN [file[s] EXCEPT !.act = NoActivation]
                                               ELSE file[s]]

rateLockout(c) == rate[c].lockoutUntil > now

\* Mutant of rateRecord: the tiers tested lowest first.
rateRecordLowestFirst(e, matched) ==
    IF matched
    THEN [e EXCEPT !.failures = 0, !.lockoutUntil = 0]
    ELSE [failures     |-> e.failures + 1,
          lastFailure  |-> now,
          lockoutUntil |-> IF e.failures + 1 >= Tier1 THEN now + LockShort ELSE e.lockoutUntil]

rateRecord(e, matched) ==
    IF matched
    THEN [e EXCEPT !.failures = 0, !.lockoutUntil = 0]
    ELSE LET n == e.failures + 1
         IN  [failures     |-> n,
              lastFailure  |-> now,
              lockoutUntil |-> IF n >= Tier3 THEN now + LockLong
                               ELSE IF n >= Tier2 THEN now + LockMedium
                               ELSE IF n >= Tier1 THEN now + LockShort
                               ELSE e.lockoutUntil]

\* Mutant of ratePurge: no floor at zero.
ratePurgeNoFloor(e) ==
    IF e.lockoutUntil <= now /\ now >= e.lastFailure + LockLong
    THEN [e EXCEPT !.failures = @ - 1]
    ELSE e

ratePurge(e) ==
    IF e.lockoutUntil <= now /\ now >= e.lastFailure + LockLong
    THEN IF e.failures <= 1 THEN NoEntry ELSE [e EXCEPT !.failures = @ - 1]
    ELSE e

Init ==
    /\ slots = NoFile
    /\ disk = NoFile
    /\ rate = [c \in Callers |-> NoEntry]
    /\ now = 0
    /\ minted = 0
    /\ issued = [i \in Ids |-> 0]
    /\ guesses = [i \in Ids |-> 0]

-----------------------------------------------------------------------------
(***************************************************************************)
(* Owner side.                                                             *)
(***************************************************************************)

Deadline(ttl) == IF ttl > 0 THEN now + ttl ELSE 0

activate(s, ttl) ==
    LET f == clearActivation(pruneExpired(slots), s)
        a == [NoActivation EXCEPT !.id = minted + 1, !.perms = f[s].lastPerms,
                                  !.ttl = ttl, !.expiresAt = Deadline(ttl)]
        g == [f EXCEPT ![s] = [@ EXCEPT !.lastTtl = ttl, !.act = a]]
    IN  /\ minted < MaxActivations
        /\ minted' = minted + 1
        /\ slots' = g
        /\ save(g)
        /\ UNCHANGED <<rate, now, issued, guesses>>

\* Mutant of setPermissions: a live activation changes, the slot does not remember.
setPermissionsNotRemembered(s, p) ==
    LET f == pruneExpired(slots)
        g == IF IsLive(f[s].act) THEN WithAct(f, s, [f[s].act EXCEPT !.perms = p])
                                 ELSE [f EXCEPT ![s].lastPerms = p]
    IN  /\ slots' = g
        /\ SaveIf(g # slots, g)
        /\ UNCHANGED <<rate, now, minted, issued, guesses>>

setPermissions(s, p) ==
    LET f == pruneExpired(slots)
        a == IF IsLive(f[s].act) THEN [f[s].act EXCEPT !.perms = p] ELSE f[s].act
        g == IF IsLive(a) /\ f[s].act.perms = p
             THEN f
             ELSE [f EXCEPT ![s] = [@ EXCEPT !.lastPerms = p, !.act = a]]
    IN  /\ slots' = g
        /\ SaveIf(g # slots, g)
        /\ UNCHANGED <<rate, now, minted, issued, guesses>>

\* Mutant of CappedDeadline: the new lifetime simply counts from now.
UncappedDeadline(old, ttl) == Deadline(ttl)

\* The deadline may be cut short, never pushed out; unlimited (0) is the
\* latest of all.
CappedDeadline(old, ttl) ==
    LET candidate == Deadline(ttl)
    IN  IF old = 0 THEN candidate
        ELSE IF candidate > 0 /\ candidate < old THEN candidate
        ELSE old

\* Mutant of setTtl: on a live activation the slot keeps its old choice.
setTtlNotRemembered(s, ttl) ==
    LET f == pruneExpired(slots)
        a == [f[s].act EXCEPT !.ttl = ttl, !.expiresAt = CappedDeadline(@, ttl)]
        g == IF IsLive(a)
             THEN WithAct(f, s, a)
             ELSE [f EXCEPT ![s].lastTtl = ttl]
    IN  /\ slots' = g
        /\ save(g)
        /\ UNCHANGED <<rate, now, minted, issued, guesses>>

setTtl(s, ttl) ==
    LET f == pruneExpired(slots)
        a == IF IsLive(f[s].act)
             THEN [f[s].act EXCEPT !.ttl = ttl, !.expiresAt = CappedDeadline(@, ttl)]
             ELSE f[s].act
        g == [f EXCEPT ![s] = [@ EXCEPT !.lastTtl = ttl, !.act = a]]
    IN  /\ slots' = g
        /\ save(g)
        /\ UNCHANGED <<rate, now, minted, issued, guesses>>

\* The label itself is left out; what is left is a save of memory as it
\* stands, expired activations included (setName does not prune).
setName(s) ==
    /\ s \in Slots
    /\ save(slots)
    /\ UNCHANGED <<slots, rate, now, minted, issued, guesses>>

\* Mutant of deactivate: the revocation is not saved.
deactivateUnsaved(s) ==
    /\ IsLive(slots[s].act)
    /\ slots' = clearActivation(slots, s)
    /\ UNCHANGED <<rate, disk, now, minted, issued, guesses>>

deactivate(s) ==
    /\ IsLive(slots[s].act)
    /\ slots' = clearActivation(slots, s)
    /\ save(slots')
    /\ UNCHANGED <<rate, now, minted, issued, guesses>>

deactivateAll ==
    /\ LiveIds(slots) # {}
    /\ slots' = [s \in Slots |-> [slots[s] EXCEPT !.act = NoActivation]]
    /\ save(slots')
    /\ UNCHANGED <<rate, now, minted, issued, guesses>>

\* status, secrets, streamingCount, state, hostForSlot, appForSlot,
\* slotForToken, slotForCookie: readers, but readers that prune first.
Query ==
    /\ AnyExpired
    /\ slots' = pruneExpired(slots)
    /\ save(slots')
    /\ UNCHANGED <<rate, now, minted, issued, guesses>>

-----------------------------------------------------------------------------
(***************************************************************************)
(* Player side.  Caller c offers the token of opening i with a PIN.  The   *)
(* token of an opening that is not live is as good as a random one.        *)
(***************************************************************************)

\* Refused before the pair is looked at.
RedeemRateLimited(c) ==
    /\ rateLockout(c)
    /\ slots' = pruneExpired(slots)
    /\ SaveIf(AnyExpired, slots')
    /\ UNCHANGED <<rate, now, minted, issued, guesses>>

RedeemUnknown(c, i) ==
    LET f == pruneExpired(slots)
    IN  /\ ~rateLockout(c)
        /\ i \notin LiveIds(f)
        /\ slots' = f
        /\ SaveIf(AnyExpired, f)
        /\ rate' = [rate EXCEPT ![c] = rateRecord(@, FALSE)]
        /\ UNCHANGED <<now, minted, issued, guesses>>

RedeemWrongPin(c, s) ==
    LET f == pruneExpired(slots)
        n == f[s].act.pinFailures + 1
        g == IF n >= MaxPinFailures THEN clearActivation(f, s)
                                    ELSE WithAct(f, s, [f[s].act EXCEPT !.pinFailures = n])
    IN  /\ ~rateLockout(c)
        /\ IsLive(f[s].act)
        /\ slots' = g
        /\ save(g)
        /\ rate' = [rate EXCEPT ![c] = rateRecord(@, FALSE)]
        /\ guesses' = [guesses EXCEPT ![f[s].act.id] = @ + 1]
        /\ UNCHANGED <<now, minted, issued>>

\* Mutant of RedeemRightPin: the binding is not saved.
RedeemRightPinUnsaved(c, s) ==
    LET a == slots[s].act
    IN  /\ ~rateLockout(c)
        /\ IsLive(a) /\ ~IsExpired(a)
        /\ a.cookies < MaxCookies
        /\ slots' = [pruneExpired(slots) EXCEPT ![s].act.pinFailures = 0, ![s].act.cookies = @ + 1]
        /\ rate' = [rate EXCEPT ![c] = rateRecord(@, TRUE)]
        /\ guesses' = [guesses EXCEPT ![a.id] = 0]
        /\ issued' = [issued EXCEPT ![a.id] = @ + 1]
        /\ UNCHANGED <<disk, now, minted>>

\* Mutant of RedeemRightPin: no prune first, the sweep is trusted to have run.
RedeemRightPinNoPrune(c, s) ==
    LET a == slots[s].act
    IN  /\ ~rateLockout(c)
        /\ IsLive(a)
        /\ a.cookies < MaxCookies
        /\ slots' = [slots EXCEPT ![s].act.pinFailures = 0, ![s].act.cookies = @ + 1]
        /\ save(slots')
        /\ rate' = [rate EXCEPT ![c] = rateRecord(@, TRUE)]
        /\ guesses' = [guesses EXCEPT ![a.id] = 0]
        /\ issued' = [issued EXCEPT ![a.id] = @ + 1]
        /\ UNCHANGED <<now, minted>>

\* The right pair: a cookie for the first device, AlreadyBound for the next.
RedeemRightPin(c, s) ==
    LET f == pruneExpired(slots)
        a == [f[s].act EXCEPT !.pinFailures = 0]
        full == a.cookies >= MaxCookies
        g == WithAct(f, s, IF full THEN [a EXCEPT !.refused = TRUE]
                                   ELSE [a EXCEPT !.cookies = @ + 1])
    IN  /\ ~rateLockout(c)
        /\ IsLive(a)
        /\ slots' = g
        /\ save(g)
        /\ rate' = [rate EXCEPT ![c] = rateRecord(@, TRUE)]
        /\ guesses' = [guesses EXCEPT ![a.id] = 0]
        /\ issued' = IF full THEN issued ELSE [issued EXCEPT ![a.id] = @ + 1]
        /\ UNCHANGED <<now, minted>>

redeemPin(c) ==
    \/ RedeemRateLimited(c)
    \/ \E i \in Ids : RedeemUnknown(c, i)
    \/ \E s \in Slots : RedeemWrongPin(c, s) \/ RedeemRightPin(c, s)

-----------------------------------------------------------------------------
(***************************************************************************)
(* Stream lifecycle, timer, clock and restart.                             *)
(***************************************************************************)

\* Mutant of setStreaming: a stream that drops takes its invitation with it.
setStreamingEndsShare(s, on) ==
    /\ IsLive(slots[s].act)
    /\ slots[s].act.streaming # on
    /\ slots' = IF on THEN [slots EXCEPT ![s].act.streaming = TRUE] ELSE clearActivation(slots, s)
    /\ UNCHANGED <<rate, disk, now, minted, issued, guesses>>

setStreaming(s, on) ==
    /\ IsLive(slots[s].act)
    /\ slots[s].act.streaming # on
    /\ slots' = WithAct(slots, s, [slots[s].act EXCEPT !.streaming = on])
    /\ UNCHANGED <<rate, disk, now, minted, issued, guesses>>

\* Mutant of Sweep: the timer only decays the rate buckets.
SweepRateOnly ==
    /\ rate' = [c \in Callers |-> ratePurge(rate[c])]
    /\ UNCHANGED <<slots, disk, now, minted, issued, guesses>>

\* m_SweepTimer, once a minute.
Sweep ==
    /\ slots' = pruneExpired(slots)
    /\ SaveIf(AnyExpired, slots')
    /\ rate' = [c \in Callers |-> ratePurge(rate[c])]
    /\ UNCHANGED <<now, minted, issued, guesses>>

Tick ==
    /\ now < MaxTime
    /\ now' = now + 1
    /\ UNCHANGED <<slots, rate, disk, minted, issued, guesses>>

\* The process ends between two events and starts again: a new ShareManager,
\* empty rate buckets, and load().
Restart ==
    /\ slots' = load(disk)
    /\ rate' = [c \in Callers |-> NoEntry]
    /\ UNCHANGED <<disk, now, minted, issued, guesses>>

\* The process dies inside save(), after the truncating open and before the
\* write: what it leaves does not parse, and the next one loads nothing.
CrashMidSave ==
    /\ CrashInSave
    /\ disk' = NoFile
    /\ slots' = NoFile
    /\ rate' = [c \in Callers |-> NoEntry]
    /\ UNCHANGED <<now, minted, issued, guesses>>

OwnerStep(s) ==
    \/ \E ttl \in TtlChoices : activate(s, ttl) \/ setTtl(s, ttl)
    \/ \E p \in Perms : setPermissions(s, p)
    \/ setName(s)
    \/ deactivate(s)

Next ==
    \/ \E s \in Slots : OwnerStep(s)
    \/ deactivateAll
    \/ Query
    \/ \E c \in Callers : redeemPin(c)
    \/ \E s \in Slots, on \in BOOLEAN : setStreaming(s, on)
    \/ Sweep
    \/ Tick
    \/ Restart
    \/ CrashMidSave

Spec == Init /\ [][Next]_vars

\* The clock runs and the sweep timer fires: the event loop serves it however
\* many requests arrive.
FairSpec == Spec /\ WF_vars(Tick) /\ WF_vars(Sweep)

-----------------------------------------------------------------------------
(***************************************************************************)
(* Properties.                                                             *)
(***************************************************************************)

\* "Opening again mints a new pair and kills the old one", and every other end
\* of an activation is as final: once an activation has left memory, no later
\* step, a restart that reads share.json back included, makes its token or its
\* cookie good again.
NoResurrection ==
    [][\A i \in 1..minted : i \notin LiveIds(slots) => i \notin LiveIds(slots)']_vars

\* "One activation binds exactly one device": over its whole life, restarts
\* included, redeemPin hands out at most kMaxCookiesPerActivation cookies for an
\* activation.
OneDevicePerInvitation == \A i \in Ids : issued[i] <= MaxCookies

\* kMaxPinFailures is what makes a six-digit PIN safe: between two right PINs at
\* most that many wrong ones are ever compared with an activation's PIN, whoever
\* sends them and however often the server restarts (restarts do forget the
\* callers' own lockouts), and the last of them ends the activation.
GuessBudget ==
    /\ \A i \in Ids : guesses[i] <= MaxPinFailures
    /\ \A i \in LiveIds(slots) : guesses[i] < MaxPinFailures

\* The lockout ladder: a caller whose failures have reached a tier has its next
\* wrong attempt examined only once that tier's lockout has run since the last
\* one; neither the decay of ratePurge nor traffic on other links shortens it.
LadderHolds ==
    [][\A c \in Callers :
          rate'[c].failures > rate[c].failures =>
              /\ rate[c].failures >= Tier1 => now >= rate[c].lastFailure + LockShort
              /\ rate[c].failures >= Tier2 => now >= rate[c].lastFailure + LockMedium
              /\ rate[c].failures >= Tier3 => now >= rate[c].lastFailure + LockLong]_vars

\* Later(d, e): deadline d is later than e, where 0 means never.
Later(d, e) == e # 0 /\ (d = 0 \/ d > e)

\* setTtl "may never buy a live link more time than it already had", and no
\* other step, a reload from disk included, moves a deadline back either.
DeadlineNeverExtended ==
    [][\A s \in Slots :
          (/\ IsLive(slots[s].act)
           /\ slots'[s].act.id = slots[s].act.id)
              => ~Later(slots'[s].act.expiresAt, slots[s].act.expiresAt)]_vars

\* No cookie is handed out for an activation whose deadline has passed, even
\* when the sweep has not run since.
GrantedBeforeDeadline ==
    [][\A s \in Slots :
          (/\ IsLive(slots[s].act)
           /\ issued'[slots[s].act.id] > issued[slots[s].act.id])
              => ~IsExpired(slots[s].act)]_vars

\* The board's choice is one: what a live activation enforces is what the slot
\* will be opened with next, in memory and on disk, so that closing a row, or a
\* restart, does not change the permissions and lifetime the owner sees.
BoardRemembers ==
    \A s \in Slots :
        /\ IsLive(slots[s].act) => /\ slots[s].lastPerms = slots[s].act.perms
                                  /\ slots[s].lastTtl = slots[s].act.ttl
        /\ IsLive(disk[s].act) => /\ disk[s].lastPerms = disk[s].act.perms
                                 /\ disk[s].lastTtl = disk[s].act.ttl

\* "Only an owner action or its own deadline ends a share, and a restart is
\* neither" (and PIN abuse, the third cause): an activation that disappears was
\* closed or reopened by the owner, was past its deadline, or took its last
\* wrong PIN in that very step.
EndsOnlyForCause ==
    [][\A s \in Slots :
          (IsLive(slots[s].act) /\ slots'[s].act.id # slots[s].act.id)
              => \/ IsExpired(slots[s].act)
                 \/ guesses'[slots[s].act.id] = MaxPinFailures
                 \/ OwnerStep(s)
                 \/ deactivateAll]_vars

\* The invitation a slot offers the rest of the server: isBound, permissions,
\* isStreaming and the identity of the activation.
Offered ==
    [s \in Slots |->
        [id        |-> slots[s].act.id,
         perms     |-> IF IsLive(slots[s].act) THEN slots[s].act.perms ELSE slots[s].lastPerms,
         bound     |-> slots[s].act.cookies >= MaxCookies,
         streaming |-> slots[s].act.streaming]]

Abstract == INSTANCE Invitations WITH inv <- Offered, opened <- minted, MaxOpened <- MaxActivations

\* ShareManager does what the rest of the server relies on: every step is one
\* step of Invitations, or none.
ImplementsInvitations == Abstract!InvSpec

\* A dated activation ends, whatever the owner does to its lifetime and however
\* often the server restarts: the clock and the sweep are enough.
DatedInvitationEnds ==
    \A s \in Slots, i \in Ids :
        (slots[s].act.id = i /\ slots[s].act.expiresAt \in 1..MaxTime)
            ~> (slots[s].act.id # i)
=============================================================================
