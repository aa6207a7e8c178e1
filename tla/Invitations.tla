---------------------------- MODULE Invitations ----------------------------
(***************************************************************************)
(* What the sharing component promises the rest of the server, whatever it *)
(* does inside: each player slot holds at most one invitation; every       *)
(* opening is a fresh one, never one that was live before; an invitation   *)
(* answers to one device; it can be withdrawn at any moment (owner,        *)
(* deadline, PIN abuse, lost at a restart) and is never given back.        *)
(*                                                                         *)
(* ShareManager implements this specification.  PlayerStream composes it   *)
(* with the worker processes that carry the players' streams.              *)
(***************************************************************************)
EXTENDS Naturals

CONSTANTS
    Slots,      \* the player slots (kFirstSlot..kLastSlot)
    Perms,      \* what a player may do: the Permissions values
    MaxOpened   \* bound: how many invitations are ever opened

ASSUME InvitationsAssumption == MaxOpened \in Nat

VARIABLES
    inv,        \* slot -> its invitation; id 0 is "no live invitation"
    opened      \* how many invitations have been opened so far

invVars == <<inv, opened>>

Ids == 1..MaxOpened

Invitation == [id : 0..MaxOpened, perms : Perms, bound : BOOLEAN, streaming : BOOLEAN]

IsLive(f, s) == f[s].id # 0

InvTypeOK ==
    /\ inv \in [Slots -> Invitation]
    /\ opened \in 0..MaxOpened
    /\ \A s \in Slots : ~IsLive(inv, s) => ~inv[s].bound /\ ~inv[s].streaming

(***************************************************************************)
(* The slots in `gone' lose their invitation.  What a dead record still    *)
(* says of permissions is what the slot's next opening starts from.        *)
(***************************************************************************)
Without(f, gone) ==
    [s \in Slots |->
        IF s \in gone THEN [f[s] EXCEPT !.id = 0, !.bound = FALSE, !.streaming = FALSE]
                      ELSE f[s]]

InvInit ==
    /\ inv \in [Slots -> [id : {0}, perms : Perms, bound : {FALSE}, streaming : {FALSE}]]
    /\ opened = 0

(***************************************************************************)
(* Every operation first drops the invitations whose deadline has passed   *)
(* (`gone'), then does its own work on what is left.                       *)
(***************************************************************************)
Open(gone, s) ==
    /\ opened < MaxOpened
    /\ opened' = opened + 1
    /\ inv' = [Without(inv, gone \cup {s}) EXCEPT ![s].id = opened + 1]

Close(gone) ==
    /\ inv' = Without(inv, gone)
    /\ UNCHANGED opened

Permit(gone, s, p) ==
    /\ inv' = [Without(inv, gone) EXCEPT ![s].perms = p]
    /\ UNCHANGED opened

Bind(gone, s) ==
    /\ s \notin gone
    /\ IsLive(inv, s)
    /\ ~inv[s].bound
    /\ inv' = [Without(inv, gone) EXCEPT ![s].bound = TRUE]
    /\ UNCHANGED opened

Stream(s, on) ==
    /\ IsLive(inv, s)
    /\ inv' = [inv EXCEPT ![s].streaming = on]
    /\ UNCHANGED opened

(***************************************************************************)
(* A restart of the server: the streams are gone with their workers, and   *)
(* some invitations may be lost (deadline passed, file damaged).  The      *)
(* permissions such a slot remembers are whatever the file gives.          *)
(***************************************************************************)
Reboot(lost, p) ==
    /\ inv' = [s \in Slots |->
                 IF s \in lost
                 THEN [id |-> 0, perms |-> p[s], bound |-> FALSE, streaming |-> FALSE]
                 ELSE [inv[s] EXCEPT !.streaming = FALSE]]
    /\ UNCHANGED opened

InvNext ==
    \/ \E gone \in SUBSET Slots :
          \/ Close(gone)
          \/ \E p \in [Slots -> Perms] : Reboot(gone, p)
          \/ \E s \in Slots :
                \/ Open(gone, s)
                \/ Bind(gone, s)
                \/ \E p \in Perms : Permit(gone, s, p)
    \/ \E s \in Slots, on \in BOOLEAN : Stream(s, on)

InvSpec == InvInit /\ [][InvNext]_invVars
=============================================================================
