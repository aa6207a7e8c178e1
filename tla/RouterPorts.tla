---------------------------- MODULE RouterPorts ----------------------------
(***************************************************************************)
(* The holes this host keeps in the router: the policy (RouterPortCore) on *)
(* a thread of its own, the main thread's view of it (RouterPortAllocator) *)
(* and the control tunnel that hands the tunnel ports to browsers.         *)
(*                                                                         *)
(* The two threads share nothing.  The main thread posts start, claim and  *)
(* release; the other one posts what it found, claimed or lost.  Each      *)
(* keeps its own list of holes.                                            *)
(*                                                                         *)
(* A call of the core is one step: its SOAP calls interleave with nothing  *)
(* but other machines, whose writes are steps of their own.  Left out: the *)
(* TCP mapping beside the UDP one, how long a lease lasts (a renewal that  *)
(* was refused may write the held mappings once more, as the switch to     *)
(* permanent ones does), which ports are remembered, what a stream does    *)
(* with its port (PlayerStream and OwnerSlots), everything else a peer     *)
(* does, and the destructors: Init has whatever an earlier process left in *)
(* the router.                                                             *)
(***************************************************************************)
EXTENDS Integers, Sequences, FiniteSets, SequencesExt

CONSTANTS
    Sessions,       \* browsers that come through the tunnel, once each
    Slots,          \* stream slots
    TunnelPorts,    \* kTunnelPreferred and the tunnel's pool
    MediaPorts,     \* the slots' own numbers and the media pool
    Cap,            \* kTunnelPortCap
    MaxStirs        \* bound: claims of streams, writes of other machines and
                    \* throws of the switches, all together

VARIABLES
    main,       \* the main thread: allocator, settings, tunnel, and both queues
    core,       \* the worker thread: has it a gateway, which holes does it hold
    table,      \* the router's table: port -> where it leads
    tells,      \* the router says who owns an entry, always
    stirs,      \* what MaxStirs bounds
    crossed     \* history: a stream's port was released under a claim for its slot

vars == <<main, core, table, tells, stirs, crossed>>

Ports == TunnelPorts \cup MediaPorts

\* The tunnel is a claim without a slot.
Tunnel == "tunnel"
Purposes == {Tunnel} \cup Slots
PortsOf(f) == IF f = Tunnel THEN TunnelPorts ELSE MediaPorts
Claim == {c \in [for : Purposes, port : Ports] : c.port \in PortsOf(c.for)}

ASSUME PortAssumption ==
    /\ IsFiniteSet(Ports) /\ 0 \notin Ports
    /\ IsFiniteSet(Slots) /\ Tunnel \notin Slots
    /\ Cap \in Nat /\ MaxStirs \in Nat

Message ==
    [do : {"start"}]
    \cup [do : {"claim"}, for : Purposes]
    \cup [do : {"release"}, claim : Claim]

Event ==
    [ev : {"discovered"}, ok : BOOLEAN]
    \cup {e \in [ev : {"claimed", "answer"}, for : Purposes, port : Ports \cup {0}] :
              e.port \in PortsOf(e.for) \cup {0}}
    \cup [ev : {"lost"}, claims : SUBSET Claim]

Main ==
    [gateway : {"Unknown", "Discovering", "Ready", "Missing"},
     enabled : BOOLEAN,
     held : Seq(Claim),
     out : Seq(Message), events : Seq(Event),
     free : Seq(TunnelPorts),                   \* m_FreePorts
     waiting : Seq(Sessions),                   \* m_WaitingPeers
     peers : [Sessions -> [at : {"new", "waiting", "up", "gone"}, port : TunnelPorts \cup {0}]]]

TypeOK ==
    /\ main \in Main
    /\ IsInjective(main.free) /\ IsInjective(main.waiting)
    /\ \A x \in Sessions : x \in ToSet(main.waiting) <=> main.peers[x].at = "waiting"
    /\ core \in [up : BOOLEAN, held : SUBSET Claim]
    /\ \A c, d \in core.held : c.port = d.port => c = d
    /\ table \in [Ports -> {"free", "ours", "old", "other"}]
    /\ tells \in BOOLEAN
    /\ stirs \in 0..MaxStirs
    /\ crossed \in BOOLEAN

\* A process that died leaves its entries; "old" is the address it had then, if
\* that was another one and the settings remember it.
Init ==
    /\ main = [gateway |-> "Unknown", enabled |-> TRUE, held |-> <<>>, out |-> <<>>, events |-> <<>>,
               free |-> <<>>, waiting |-> <<>>,
               peers |-> [x \in Sessions |-> [at |-> "new", port |-> 0]]]
    /\ core = [up |-> FALSE, held |-> {}]
    /\ \E q \in Ports, a \in {"free", "ours", "old", "other"} :
          table = [p \in Ports |-> IF p = q THEN a ELSE "free"]
    /\ tells \in BOOLEAN
    /\ stirs = 0
    /\ crossed = FALSE

\* The members of a list that are in S, in their order.
Only(s, S) ==
    LET only[i \in 0..Len(s)] ==
            IF i = 0 THEN <<>> ELSE IF s[i] \in S THEN Append(only[i - 1], s[i]) ELSE only[i - 1]
    IN  only[Len(s)]

\* removeAll
Without(s, x) == Only(s, ToSet(s) \ {x})

HeldFor(m, f) == Only(m.held, {c \in ToSet(m.held) : c.for = f})
HeldPorts(m) == {c.port : c \in ToSet(HeldFor(m, Tunnel))}
Bound(m) == {m.peers[x].port : x \in {y \in Sessions : m.peers[y].at = "up"}} \ {0}

\* m_Pending: a claim is pending while a message or an event carries it.
inFlight(m, f) ==
    \/ \E i \in 1..Len(m.out) : m.out[i].do = "claim" /\ m.out[i].for = f
    \/ \E i \in 1..Len(m.events) : m.events[i].ev \in {"claimed", "answer"} /\ m.events[i].for = f

-----------------------------------------------------------------------------
(***************************************************************************)
(* The allocator, main thread.  Operators from a state of the main thread  *)
(* to the next.                                                            *)
(***************************************************************************)

ensureStarted(m) ==
    IF m.gateway = "Unknown" /\ m.enabled
    THEN [m EXCEPT !.gateway = "Discovering", !.out = Append(@, [do |-> "start"])]
    ELSE m

answerLater(m, f, port) == [m EXCEPT !.events = Append(@, [ev |-> "answer", for |-> f, port |-> port])]

submit(m, f) == [m EXCEPT !.out = Append(@, [do |-> "claim", for |-> f])]

\* refusal
Refused(m) == ~m.enabled \/ ensureStarted(m).gateway = "Missing"

claimTunnelPort(m) ==
    IF Refused(m) THEN answerLater(ensureStarted(m), Tunnel, 0)
    ELSE submit(ensureStarted(m), Tunnel)

claimMediaPort(m, s) ==
    IF Refused(m) THEN answerLater(ensureStarted(m), s, 0)
    ELSE IF HeldFor(m, s) # <<>> THEN answerLater(ensureStarted(m), s, HeldFor(m, s)[1].port)
    ELSE submit(ensureStarted(m), s)

-----------------------------------------------------------------------------
(***************************************************************************)
(* The tunnel, main thread.  `fails' are the sessions that cannot bind the *)
(* port they were given, `refused' those that cannot even bind another.    *)
(***************************************************************************)

\* Mutant of requestTunnelPort: a claim that is already under way is not counted.
requestTunnelPortAgain(m) == IF Len(HeldFor(m, Tunnel)) >= Cap THEN m ELSE claimTunnelPort(m)

requestTunnelPort(m) ==
    IF inFlight(m, Tunnel) \/ Len(HeldFor(m, Tunnel)) >= Cap THEN m ELSE claimTunnelPort(m)

releaseTunnelPort(m, port) ==
    IF port = 0 \/ port \in ToSet(m.free) \/ port \notin HeldPorts(m) THEN m
    ELSE [m EXCEPT !.free = Append(@, port)]

dropPeer(m, x) ==
    releaseTunnelPort([m EXCEPT !.peers[x] = [at |-> "gone", port |-> 0],
                                !.waiting = Without(@, x)],
                      m.peers[x].port)

\* The port if it binds; else it is given back and another one is tried.
createPeerConnection(m, x, port, fails, refused) ==
    IF port # 0 /\ port \notin Bound(m) /\ x \notin fails
    THEN [m EXCEPT !.peers[x] = [at |-> "up", port |-> port]]
    ELSE LET back == releaseTunnelPort(m, port)
         IN  IF x \in refused THEN dropPeer(back, x)
             ELSE [back EXCEPT !.peers[x] = [at |-> "up", port |-> 0]]

\* startPeer, with takeTunnelPort.
startPeer(m, x, fails, refused) ==
    LET off == [m EXCEPT !.waiting = Without(@, x)]
    IN  IF m.free = <<>> THEN createPeerConnection(off, x, 0, fails, refused)
        ELSE createPeerConnection([off EXCEPT !.free = Tail(@)], x, Head(m.free), fails, refused)

giveUpWaiting(m, fails, refused) ==
    LET given[i \in 0..Len(m.waiting)] ==
            IF i = 0 THEN [m EXCEPT !.waiting = <<>>]
            ELSE startPeer(given[i - 1], m.waiting[i], fails, refused)
    IN  given[Len(m.waiting)]

serveWaitingPeers(m, fails, refused) ==
    LET served[i \in 0..Len(m.waiting)] ==
            IF i = 0 THEN m
            ELSE IF served[i - 1].free = <<>> THEN served[i - 1]
            ELSE startPeer(served[i - 1], m.waiting[i], fails, refused)
    IN  served[Len(m.waiting)]

\* Mutant of TunnelClaimed: those still waiting are left to their timers.
TunnelClaimedServesOne(m, port, fails, refused) ==
    IF port = 0 THEN giveUpWaiting(m, fails, refused)
    ELSE serveWaitingPeers([m EXCEPT !.free = Append(@, port)], fails, refused)

\* The callback of requestTunnelPort.
TunnelClaimed(m, port, fails, refused) ==
    IF port = 0 THEN giveUpWaiting(m, fails, refused)
    ELSE LET served == serveWaitingPeers([m EXCEPT !.free = Append(@, port)], fails, refused)
             asked  == requestTunnelPort(served)
         IN  IF served.waiting = <<>> THEN served
             ELSE IF inFlight(asked, Tunnel) THEN asked
             ELSE giveUpWaiting(asked, fails, refused)

\* deliver
Deliver(m, f, port, fails, refused) ==
    IF f = Tunnel THEN TunnelClaimed(m, port, fails, refused) ELSE m

onGatewayReady(m) == IF HeldPorts(m) = {} /\ ~inFlight(m, Tunnel) THEN requestTunnelPort(m) ELSE m

\* One turn of onRenewed's loop, with the tunnel's onPortLost.
PortLost(m, c) ==
    LET gone == [m EXCEPT !.held = Without(@, c)]
        off  == [gone EXCEPT !.free = Without(@, c.port)]
    IN  IF c.for # Tunnel THEN gone
        ELSE IF off.free = <<>> THEN requestTunnelPort(off) ELSE off

onRenewed(m, claims) ==
    LET list == SetToSeq(claims)
        lost[i \in 0..Len(list)] == IF i = 0 THEN m ELSE PortLost(lost[i - 1], list[i])
    IN  lost[Len(list)]

-----------------------------------------------------------------------------
(***************************************************************************)
(* Steps of the main thread.                                               *)
(***************************************************************************)

Stir == stirs < MaxStirs /\ stirs' = stirs + 1

\* The user turns UPnP or Internet access on or off.
Switch ==
    /\ Stir
    /\ main' = [main EXCEPT !.enabled = ~@]
    /\ UNCHANGED <<core, table, tells, crossed>>

\* The line to the rendezvous is up.  The tunnel asks again if it knows no public
\* address, which a router may fail to give.
Online ==
    /\ main.enabled
    /\ main' \in {ensureStarted(main)}
                 \cup (IF main.gateway = "Ready" THEN {onGatewayReady(main)} ELSE {})
    /\ UNCHANGED <<core, table, tells, stirs, crossed>>

discover ==
    /\ main.gateway \in {"Unknown", "Missing"}
    /\ main' = [main EXCEPT !.gateway = "Discovering", !.out = Append(@, [do |-> "start"])]
    /\ UNCHANGED <<core, table, tells, stirs, crossed>>

onSessionOpened(x) ==
    /\ main.peers[x].at = "new"
    /\ \E fails, refused \in SUBSET {x} :
          LET m    == ensureStarted(main)
              may  == m.gateway \in {"Ready", "Discovering"}
              room == inFlight(m, Tunnel) \/ Len(HeldFor(m, Tunnel)) < Cap
          IN  main' =
                IF main.free # <<>> THEN startPeer(main, x, fails, refused)
                ELSE IF ~main.enabled THEN createPeerConnection(main, x, 0, fails, refused)
                ELSE IF ~may \/ ~room THEN createPeerConnection(m, x, 0, fails, refused)
                ELSE requestTunnelPort([m EXCEPT !.peers[x].at = "waiting", !.waiting = Append(@, x)])
    /\ UNCHANGED <<core, table, tells, stirs, crossed>>

\* kClaimWaitMs is over.
ClaimWaitTimeout(x) ==
    /\ main.peers[x].at = "waiting"
    /\ \E fails, refused \in SUBSET {x} : main' = startPeer(main, x, fails, refused)
    /\ UNCHANGED <<core, table, tells, stirs, crossed>>

onSessionClosed(x) ==
    /\ main.peers[x].at \in {"waiting", "up"}
    /\ main' = dropPeer(main, x)
    /\ UNCHANGED <<core, table, tells, stirs, crossed>>

StreamClaims(s) ==
    /\ Stir
    /\ main' = claimMediaPort(main, s)
    /\ UNCHANGED <<core, table, tells, crossed>>

\* A guest's slot has had no worker for the grace.
releaseMediaPort(s) ==
    /\ HeldFor(main, s) # <<>>
    /\ crossed' = (crossed \/ inFlight(main, s))
    /\ LET c == HeldFor(main, s)[1]
       IN  main' = [main EXCEPT !.held = Without(@, c),
                                !.out = Append(@, [do |-> "release", claim |-> c])]
    /\ UNCHANGED <<core, table, tells, stirs>>

\* The next queued call on the main thread.
onEvent ==
    /\ main.events # <<>>
    /\ \E fails \in SUBSET ToSet(main.waiting) : \E refused \in SUBSET ToSet(main.waiting) :
          LET e == Head(main.events)
              m == [main EXCEPT !.events = Tail(@)]
          IN  main' =
                CASE e.ev = "discovered" /\ e.ok -> onGatewayReady([m EXCEPT !.gateway = "Ready"])
                  [] e.ev = "discovered" /\ ~e.ok ->
                        giveUpWaiting([m EXCEPT !.gateway = "Missing"], fails, refused)
                  [] e.ev = "answer" -> Deliver(m, e.for, e.port, fails, refused)
                  [] e.ev = "lost" -> onRenewed(m, e.claims)
                  [] e.ev = "claimed" /\ m.gateway = "Missing" -> Deliver(m, e.for, 0, fails, refused)
                  [] e.ev = "claimed" /\ m.gateway # "Missing" ->
                        Deliver(IF e.port = 0 THEN m
                                ELSE [m EXCEPT !.held = Append(@, [for |-> e.for, port |-> e.port])],
                                e.for, e.port, fails, refused)
    /\ UNCHANGED <<core, table, tells, stirs, crossed>>

-----------------------------------------------------------------------------
(***************************************************************************)
(* Steps of the worker thread.                                             *)
(***************************************************************************)

Post(e) == main' = [main EXCEPT !.out = Tail(@), !.events = Append(@, e)]

start ==
    /\ main.out # <<>> /\ Head(main.out).do = "start"
    /\ \E ok \in BOOLEAN :
          /\ core' = [core EXCEPT !.up = ok]
          /\ Post([ev |-> "discovered", ok |-> ok])
    /\ UNCHANGED <<table, tells, stirs, crossed>>

holds(p) == \E c \in core.held : c.port = p

Candidates(f) == {p \in PortsOf(f) : ~holds(p)}

\* Someone else's entry is left alone, one at our own previous address is not.
Ours(p) == table[p] # "other" \/ ~tells

\* The candidate can be had: not in use on this machine, nobody else's.
tryOne(f, p) == ~(f = Tunnel /\ p \in Bound(main)) /\ Ours(p)

\* What is remembered of earlier runs decides the order of the candidates, and any
\* of them may be refused, so the claim ends at any that can be had, or at none.
\* A router that does not say whose an entry is may have kept it as it was.
claim ==
    /\ main.out # <<>> /\ Head(main.out).do = "claim"
    /\ LET f == Head(main.out).for
       IN  \/ /\ Post([ev |-> "claimed", for |-> f, port |-> 0])
              /\ UNCHANGED <<core, table>>
           \/ \E p \in Candidates(f) :
                 /\ core.up
                 /\ tryOne(f, p)
                 /\ Post([ev |-> "claimed", for |-> f, port |-> p])
                 /\ core' = [core EXCEPT !.held = @ \cup {[for |-> f, port |-> p]}]
                 /\ table' \in {[table EXCEPT ![p] = "ours"]} \cup (IF tells THEN {} ELSE {table})
    /\ UNCHANGED <<tells, stirs, crossed>>

\* Mutant of release: a hole that is no longer held is closed all the same.
releaseUnchecked ==
    /\ main.out # <<>> /\ Head(main.out).do = "release"
    /\ LET c == Head(main.out).claim
       IN  /\ core' = [core EXCEPT !.held = @ \ {c}]
           /\ table' = [table EXCEPT ![c.port] = "free"]
    /\ main' = [main EXCEPT !.out = Tail(@)]
    /\ UNCHANGED <<tells, stirs, crossed>>

\* Nothing, if a renewal has lost it in the meantime.
release ==
    /\ main.out # <<>> /\ Head(main.out).do = "release"
    /\ LET c == Head(main.out).claim
       IN  /\ core' = [core EXCEPT !.held = @ \ {c}]
           /\ table' = IF c \in core.held THEN [table EXCEPT ![c.port] = "free"] ELSE table
    /\ main' = [main EXCEPT !.out = Tail(@)]
    /\ UNCHANGED <<tells, stirs, crossed>>

\* Every held entry is written again, over whoever may have taken it, and read
\* back.  The writes that are refused, or that the router keeps from happening,
\* leave the entry where it led; what is then said to lead elsewhere is lost.
renew ==
    /\ core.up /\ core.held # {}
    /\ \E written \in SUBSET core.held :
          LET elsewhere == {c \in core.held \ written : table[c.port] \in {"old", "other"}}
          IN  \E lost \in SUBSET elsewhere :
                /\ tells => lost = elsewhere
                /\ core' = [core EXCEPT !.held = @ \ lost]
                /\ table' = [p \in Ports |-> IF \E c \in written : c.port = p THEN "ours" ELSE table[p]]
                /\ main' = IF lost = {} THEN main
                           ELSE [main EXCEPT !.events = Append(@, [ev |-> "lost", claims |-> lost])]
    /\ UNCHANGED <<tells, stirs, crossed>>

-----------------------------------------------------------------------------
\* Another machine takes an entry, ours too, or gives its own back.
Neighbour(p) ==
    /\ Stir
    /\ table' = [table EXCEPT ![p] = IF @ = "other" THEN "free" ELSE "other"]
    /\ UNCHANGED <<main, core, tells, crossed>>

Next ==
    \/ Switch
    \/ Online
    \/ discover
    \/ \E x \in Sessions : onSessionOpened(x) \/ ClaimWaitTimeout(x) \/ onSessionClosed(x)
    \/ \E s \in Slots : StreamClaims(s) \/ releaseMediaPort(s)
    \/ onEvent
    \/ start \/ claim \/ release \/ renew
    \/ \E p \in Ports : Neighbour(p)

Spec == Init /\ [][Next]_vars

-----------------------------------------------------------------------------
(***************************************************************************)
(* Properties.                                                             *)
(***************************************************************************)

\* A browser waits for a hole only while a claim of one is under way: whatever
\* claims fail, holes are lost, switches are thrown or other browsers come and go,
\* nobody is left to the timer for want of anybody asking the router.
NobodyWaitsForNothing == main.waiting # <<>> => inFlight(main, Tunnel)

\* The state has its type and no hole is forgotten.  What the worker thread holds
\* is known to the main thread or a message about it is under way, and the other
\* way round, and the main thread lists it once, except for a stream's port that was
\* released while another claim for its slot was still on its way (the answer then
\* tells of a hole that is gone, or of one that is already listed); a tunnel hole is
\* free or a browser has it; there are never more than Cap of them.
HolesAccounted ==
    LET arriving == {[for |-> e.for, port |-> e.port] : e \in
                       {f \in ToSet(main.events) : f.ev = "claimed" /\ f.port # 0}}
        leaving  == {d.claim : d \in {f \in ToSet(main.out) : f.do = "release"}}
        lost     == UNION {e.claims : e \in {f \in ToSet(main.events) : f.ev = "lost"}}
        stale(c) == crossed /\ c.for # Tunnel
    IN  /\ TypeOK
        /\ core.held \subseteq ToSet(main.held) \cup arriving \cup leaving
        /\ \A c \in ToSet(main.held) : c \in core.held \cup lost \/ stale(c)
        /\ \A i, j \in 1..Len(main.held) :
              main.held[i] = main.held[j] => i = j \/ stale(main.held[i])
        /\ ToSet(main.free) \subseteq HeldPorts(main)
        /\ HeldPorts(main) \subseteq ToSet(main.free) \cup Bound(main)
        /\ Cardinality({c \in core.held : c.for = Tunnel}) <= Cap

\* "Nobody takes what a neighbour holds": an entry of another machine is written or
\* removed by this host only under a hole the host still holds, which the other
\* machine took from it, or on a router that does not say whose an entry is.
NeighbourSpared ==
    [][(main' # main \/ core' # core) =>
          \A p \in Ports : (table[p] = "other" /\ table'[p] # "other") => holds(p) \/ ~tells]_vars
=============================================================================
