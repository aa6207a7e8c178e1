------------------------- MODULE RouterPorts_proofs -------------------------
(***************************************************************************)
(* What RouterPorts promises the neighbours and the browsers that wait, and *)
(* that its two lists of holes agree, for any number of browsers, slots and *)
(* ports and any cap.                                                      *)
(***************************************************************************)
EXTENDS RouterPorts, LeastElements, TLAPS

\* The router's table has an entry, or none, for every port.
Table == table \in [Ports -> {"free", "ours", "old", "other"}]

\* A neighbour's entry that this step takes away is one the host has a claim to.
Spares == \A p \in Ports : (table[p] = "other" /\ table'[p] # "other") => holds(p) \/ ~tells

\* Candidates are ports of the table.
LEMMA CandidatesArePorts == \A f : Candidates(f) \subseteq Ports
  BY DEF Candidates, Ports, PortsOf

\* A hole that is claimed is one nobody else has, as far as the router says.
LEMMA ClaimStep == Table /\ claim => Table' /\ Spares
  <1> SUFFICES ASSUME Table, claim
               PROVE  Table' /\ Spares
    OBVIOUS
  <1>1. CASE UNCHANGED table
    BY <1>1 DEF Table, Spares
  <1>2. CASE \E f : \E p \in Candidates(f) :
               /\ tryOne(f, p)
               /\ table' \in {[table EXCEPT ![p] = "ours"]} \cup (IF tells THEN {} ELSE {table})
    <2> PICK f : \E p \in Candidates(f) :
               /\ tryOne(f, p)
               /\ table' \in {[table EXCEPT ![p] = "ours"]} \cup (IF tells THEN {} ELSE {table})
      BY <1>2
    <2>1. PICK p \in Candidates(f) :
               /\ tryOne(f, p)
               /\ table' \in {[table EXCEPT ![p] = "ours"]} \cup (IF tells THEN {} ELSE {table})
      OBVIOUS
    <2>2. p \in Ports
      BY CandidatesArePorts
    <2>3. table[p] # "other" \/ ~tells
      BY <2>1 DEF tryOne, Ours
    <2>4. table' = [table EXCEPT ![p] = "ours"] \/ table' = table
      BY <2>1
    <2>5. QED
      BY <2>2, <2>3, <2>4 DEF Table, Spares
  <1>3. QED
    BY <1>1, <1>2 DEF claim

\* A hole that is closed is one the worker thread still holds.
LEMMA ReleaseStep == Table /\ release => Table' /\ Spares
  <1> SUFFICES ASSUME Table, release
               PROVE  Table' /\ Spares
    OBVIOUS
  <1> DEFINE c == Head(main.out).claim
  <1>1. table' = IF c \in core.held THEN [table EXCEPT ![c.port] = "free"] ELSE table
    BY DEF release
  <1> HIDE DEF c
  <1>2. CASE c \in core.held
    <2>1. table' = [table EXCEPT ![c.port] = "free"]
      BY <1>1, <1>2
    <2>2. \A p \in Ports : p # c.port => table'[p] = table[p]
      BY <2>1 DEF Table
    <2>3. \A p \in Ports : p = c.port => holds(p)
      BY <1>2 DEF holds
    <2>4. QED
      BY <2>1, <2>2, <2>3 DEF Table, Spares
  <1>3. CASE c \notin core.held
    BY <1>1, <1>3 DEF Table, Spares
  <1>4. QED
    BY <1>2, <1>3

\* A renewal writes only what is held.
LEMMA RenewStep == Table /\ renew => Table' /\ Spares
  <1> SUFFICES ASSUME Table, renew
               PROVE  Table' /\ Spares
    OBVIOUS
  <1>1. PICK written \in SUBSET core.held :
             table' = [p \in Ports |-> IF \E c \in written : c.port = p THEN "ours" ELSE table[p]]
    BY DEF renew
  <1>2. \A p \in Ports : (\E c \in written : c.port = p) => holds(p)
    BY DEF holds
  <1>3. QED
    BY <1>1, <1>2 DEF Table, Spares

\* Every step keeps the table, and every step of this host spares the neighbours.
LEMMA StepSpares ==
  Table /\ [Next]_vars => Table' /\ ((main' # main \/ core' # core) => Spares)
  <1> SUFFICES ASSUME Table, [Next]_vars
               PROVE  Table' /\ ((main' # main \/ core' # core) => Spares)
    OBVIOUS
  <1>1. CASE UNCHANGED table
    BY <1>1 DEF Table, Spares
  <1>2. CASE claim \/ release \/ renew
    BY <1>2, ClaimStep, ReleaseStep, RenewStep
  <1>3. ASSUME NEW p \in Ports, Neighbour(p)
        PROVE  Table' /\ main' = main /\ core' = core
    BY <1>3 DEF Neighbour, Table
  <1>4. ASSUME Next PROVE UNCHANGED table \/ claim \/ release \/ renew \/ \E p \in Ports : Neighbour(p)
    BY <1>4 DEF Next, Switch, Online, discover, onSessionOpened, ClaimWaitTimeout, onSessionClosed,
                StreamClaims, releaseMediaPort, onEvent, start
  <1>5. CASE UNCHANGED vars
    BY <1>1, <1>5 DEF vars
  <1>6. QED
    BY <1>1, <1>2, <1>3, <1>4, <1>5

-----------------------------------------------------------------------------
(***************************************************************************)
(* Lists.                                                                  *)
(***************************************************************************)

\* How Only comes to its end.
Picks(s, S, n, M, g) ==
    /\ g[0] = <<>>
    /\ \A i \in 0..n : g[i] \in M
    /\ \A i \in 1..n : g[i] = IF s[i] \in S THEN Append(g[i - 1], s[i]) ELSE g[i - 1]

\* Only goes through the list.
LEMMA OnlyPicks ==
  ASSUME NEW T, NEW s \in Seq(T), NEW S
  PROVE  \E g : Picks(s, S, Len(s), Seq(S \cap T), g) /\ Only(s, S) = g[Len(s)]
  <1> DEFINE n == Len(s)
             M == Seq(S \cap T)
             G == [i \in 1..n |-> [x \in M |-> IF s[i] \in S THEN Append(x, s[i]) ELSE x]]
             Next1(g) == [i \in 0..n |-> IF i = 0 THEN <<>>
                                        ELSE IF s[i] \in S THEN Append(g[i - 1], s[i]) ELSE g[i - 1]]
             only == CHOOSE g : g = Next1(g)
  <1>1. n \in Nat /\ <<>> \in M /\ \A i \in 1..n : s[i] \in T
    OBVIOUS
  <1>2. ASSUME NEW i \in 1..n, NEW x \in M
        PROVE  /\ G[i][x] = IF s[i] \in S THEN Append(x, s[i]) ELSE x
               /\ G[i][x] \in M
    <2> HIDE DEF n
    <2>1. s[i] \in S => Append(x, s[i]) \in M
      BY <1>1
    <2> HIDE DEF M
    <2>2. QED
      BY <2>1
  <1>3. G \in [1..n -> [M -> M]]
    BY <1>2
  <1> HIDE DEF G
  <1>4. PICK f \in [0..n -> M] : f[0] = <<>> /\ \A i \in 1..n : f[i] = G[i][f[i - 1]]
    <2> HIDE DEF n, M
    <2>1. Turns(n, M, <<>>, G)
      BY <1>1, <1>3 DEF Turns
    <2>2. QED
      BY <2>1, Loop DEF Passes
  <1> HIDE DEF M, n
  <1>5. f = Next1(f)
    <2>1. ASSUME NEW i \in 0..n, i # 0
          PROVE  f[i] = IF s[i] \in S THEN Append(f[i - 1], s[i]) ELSE f[i - 1]
      <3>1. i \in 1..n /\ i - 1 \in 0..n
        BY <1>1, <2>1
      <3>2. f[i - 1] \in M
        BY <1>4, <3>1
      <3>3. QED
        BY <1>2, <1>4, <3>1, <3>2
    <2>2. QED
      BY <1>4, <2>1
  <1>6. only = Next1(only)
    <2> HIDE DEF Next1
    <2>1. QED
      BY <1>5
  <1>7. Only(s, S) = only[n]
    BY DEF Only, n
  <1> HIDE DEF only
  <1>8. \A i \in 0..n : only[i] \in M
    <2> DEFINE I == {i \in 0..n : only[i] \in M}
    <2>1. 0 \in I
      BY <1>1, <1>6
    <2>2. ASSUME NEW i \in 1..n, i - 1 \in I PROVE i \in I
      <3>1. i \in 0..n /\ i # 0 /\ only[i - 1] \in M
        BY <1>1, <2>2
      <3>2. only[i] = IF s[i] \in S THEN Append(only[i - 1], s[i]) ELSE only[i - 1]
        BY <1>6, <3>1
      <3>3. only[i] \in M
        BY <1>2, <3>1, <3>2
      <3>4. QED
        BY <3>1, <3>3
    <2>3. I \subseteq 0..n /\ \A i \in I : only[i] \in M
      OBVIOUS
    <2> HIDE DEF I
    <2>4. QED
      BY <1>1, <2>1, <2>2, <2>3, Upward
  <1>9. Picks(s, S, n, M, only)
    <2>1. 0 \in 0..n /\ \A i \in 1..n : i \in 0..n /\ i # 0
      BY <1>1
    <2>2. only[0] = <<>>
      BY <1>6, <2>1
    <2>3. \A i \in 1..n : only[i] = IF s[i] \in S THEN Append(only[i - 1], s[i]) ELSE only[i - 1]
      BY <1>6, <2>1
    <2>4. QED
      BY <1>8, <2>2, <2>3 DEF Picks
  <1>10. QED
    BY <1>7, <1>9 DEF M, n

\* Only picks members of S.
LEMMA OnlySome ==
  ASSUME NEW T, NEW s \in Seq(T), NEW S
  PROVE  Only(s, S) \in Seq(S \cap T) /\ (s = <<>> => Only(s, S) = <<>>)
  <1> DEFINE M == Seq(S \cap T)
  <1>1. PICK g : Picks(s, S, Len(s), M, g) /\ Only(s, S) = g[Len(s)]
    BY OnlyPicks
  <1>2. Len(s) \in 0..Len(s) /\ (s = <<>> => Len(s) = 0)
    OBVIOUS
  <1> HIDE DEF M
  <1>3. QED
    BY <1>1, <1>2 DEF Picks, M

\* c is on the list once at most.
Once(s, c) == \A i, j \in 1..Len(s) : s[i] = c /\ s[j] = c => i = j

\* A member is somewhere on the list.
LEMMA Somewhere ==
  ASSUME NEW T, NEW s \in Seq(T)
  PROVE  /\ \A c : c \in ToSet(s) <=> \E i \in 1..Len(s) : s[i] = c
         /\ IsInjective(s) <=> \A c \in ToSet(s) : Once(s, c)
  <1>1. \A c : c \in ToSet(s) <=> \E i \in 1..Len(s) : s[i] = c
    BY DEF ToSet
  <1>2. IsInjective(s) <=> \A i, j \in 1..Len(s) : s[i] = s[j] => i = j
    BY DEF IsInjective
  <1>3. QED
    BY <1>1, <1>2 DEF Once

\* One more at the end.
LEMMA OneMore ==
  ASSUME NEW T, NEW s \in Seq(T), NEW c \in T
  PROVE  /\ Append(s, c) \in Seq(T)
         /\ ToSet(Append(s, c)) = ToSet(s) \cup {c}
         /\ \A d : Once(s, d) /\ d # c => Once(Append(s, c), d)
         /\ c \notin ToSet(s) => Once(Append(s, c), c)
  <1> DEFINE q == Append(s, c)
             n == Len(s)
  <1>1. /\ q \in Seq(T) /\ n \in Nat /\ Len(q) = n + 1 /\ q[n + 1] = c
        /\ \A i \in 1..n : q[i] = s[i]
    OBVIOUS
  <1>2. \A d : d \in ToSet(s) <=> \E i \in 1..n : s[i] = d
    BY Somewhere
  <1>3. \A d : d \in ToSet(q) <=> \E i \in 1..Len(q) : q[i] = d
    BY <1>1, Somewhere
  <1>4. \A i \in 1..(n + 1) : i \in 1..n \/ i = n + 1
    BY <1>1
  <1>5. 1..n \subseteq 1..(n + 1) /\ n + 1 \in 1..(n + 1)
    BY <1>1
  <1> HIDE DEF q
  <1>6. ToSet(q) = ToSet(s) \cup {c}
    BY <1>1, <1>2, <1>3, <1>4, <1>5
  <1>7. ASSUME NEW d, Once(s, d), d # c PROVE Once(q, d)
    BY <1>1, <1>4, <1>7 DEF Once, n
  <1>8. ASSUME c \notin ToSet(s) PROVE Once(q, c)
    BY <1>1, <1>2, <1>4, <1>8 DEF Once
  <1>9. QED
    BY <1>1, <1>6, <1>7, <1>8 DEF q

\* Only picks all members of S, and none more often than it was there.
LEMMA OnlyThose ==
  ASSUME NEW T, NEW s \in Seq(T), NEW S
  PROVE  /\ ToSet(Only(s, S)) = ToSet(s) \cap S
         /\ \A c : Once(s, c) => Once(Only(s, S), c)
  <1> DEFINE n == Len(s)
             U == S \cap T
             M == Seq(U)
             part(i) == {s[j] : j \in 1..i}
  <1>1. PICK g : Picks(s, S, n, M, g) /\ Only(s, S) = g[n]
    BY OnlyPicks
  <1> DEFINE Good(i) == /\ ToSet(g[i]) = part(i) \cap S
                        /\ \A c : Once(s, c) => Once(g[i], c)
             I == {i \in 0..n : Good(i)}
  <1>2. n \in Nat /\ \A i \in 1..n : s[i] \in T
    OBVIOUS
  <1> HIDE DEF n, M
  <1>3. 0 \in I
    <2>1. g[0] = <<>> /\ 0 \in 0..n
      BY <1>1, <1>2 DEF Picks
    <2>2. ToSet(g[0]) = {} /\ part(0) = {} /\ Len(g[0]) = 0
      BY <2>1 DEF ToSet
    <2>3. QED
      BY <2>1, <2>2 DEF Once
  <1>4. ASSUME NEW i \in 1..n, i - 1 \in I PROVE i \in I
    <2>1. i - 1 \in 0..n /\ i \in 0..n /\ Good(i - 1)
      BY <1>2, <1>4
    <2>2. g[i - 1] \in Seq(U)
      BY <1>1, <2>1 DEF Picks, M
    <2>3. g[i] = IF s[i] \in S THEN Append(g[i - 1], s[i]) ELSE g[i - 1]
      BY <1>1 DEF Picks
    <2>4. part(i) = part(i - 1) \cup {s[i]}
      BY <1>2
    <2>5. CASE s[i] \notin S
      BY <2>1, <2>3, <2>4, <2>5
    <2>6. CASE s[i] \in S
      <3>1. s[i] \in U
        BY <1>2, <2>6
      <3> HIDE DEF U
      <3>2. ToSet(g[i]) = ToSet(g[i - 1]) \cup {s[i]}
        BY <2>2, <2>3, <2>6, <3>1, OneMore
      <3>3. ASSUME NEW c, Once(s, c) PROVE Once(g[i], c)
        <4>1. Once(g[i - 1], c)
          BY <2>1, <3>3
        <4>2. c = s[i] => c \notin part(i - 1)
          BY <1>2, <3>3 DEF Once, n
        <4>3. c = s[i] => c \notin ToSet(g[i - 1])
          BY <2>1, <4>2
        <4>4. QED
          BY <2>2, <2>3, <2>6, <3>1, <4>1, <4>3, OneMore
      <3>4. QED
        BY <2>1, <2>4, <2>6, <3>2, <3>3
    <2>7. QED
      BY <2>5, <2>6
  <1>5. n \in 0..n /\ \A i \in I : Good(i)
    BY <1>2
  <1> HIDE DEF I
  <1>6. Good(n)
    BY <1>2, <1>3, <1>4, <1>5, Upward
  <1>7. part(n) = ToSet(s)
    BY Somewhere DEF n
  <1>8. QED
    BY <1>1, <1>6, <1>7

\* Removing keeps the kind of list, and an empty list empty.
LEMMA WithoutSome ==
  ASSUME NEW T, NEW s \in Seq(T), NEW x
  PROVE  Without(s, x) \in Seq(T) /\ (s = <<>> => Without(s, x) = <<>>)
  <1>1. Without(s, x) \in Seq((ToSet(s) \ {x}) \cap T) /\ (s = <<>> => Without(s, x) = <<>>)
    BY OnlySome DEF Without
  <1> DEFINE U == (ToSet(s) \ {x}) \cap T
             w == Without(s, x)
  <1>2. U \subseteq T
    OBVIOUS
  <1> HIDE DEF U, w
  <1>3. w \in Seq(U) => w \in Seq(T)
    BY <1>2
  <1>4. QED
    BY <1>1, <1>3 DEF U, w

\* The holes held for a purpose are of the ports for it.
LEMMA HeldForType ==
  ASSUME NEW m \in Main, NEW f \in Purposes
  PROVE  /\ HeldFor(m, f) \in Seq({c \in Claim : c.for = f})
         /\ f = Tunnel => HeldPorts(m) \subseteq TunnelPorts
  <1> DEFINE S == {c \in ToSet(m.held) : c.for = f}
             U == {c \in Claim : c.for = f}
             w == HeldFor(m, f)
  <1>1. m.held \in Seq(Claim)
    BY DEF Main
  <1>2. w \in Seq(S \cap Claim)
    BY <1>1, OnlySome DEF HeldFor
  <1>3. S \cap Claim \subseteq U
    OBVIOUS
  <1>4. w \in Seq(U)
    <2> DEFINE V == S \cap Claim
    <2>1. w \in Seq(V) /\ V \subseteq U
      BY <1>2, <1>3
    <2> HIDE DEF w, V, U
    <2>2. QED
      BY <2>1
  <1>5. \A i \in 1..Len(w) : w[i] \in U
    <2> HIDE DEF w, U
    <2>1. QED
      BY <1>4
  <1>6. ASSUME f = Tunnel PROVE HeldPorts(m) \subseteq TunnelPorts
    <2>1. \A c \in ToSet(w) : c \in U
      BY <1>4, <1>5 DEF ToSet
    <2>2. \A c \in U : c.port \in TunnelPorts
      BY <1>6 DEF Claim, PortsOf
    <2>3. HeldPorts(m) = {c.port : c \in ToSet(w)}
      BY <1>6 DEF HeldPorts
    <2> HIDE DEF w, U
    <2>4. QED
      BY <2>1, <2>2, <2>3
  <1>7. QED
    BY <1>4, <1>6

-----------------------------------------------------------------------------
(***************************************************************************)
(* What the main thread's operators keep.                                  *)
(***************************************************************************)

\* From m to n no claim of a tunnel port is lost and no browser starts to wait.
Keeps(m, n) ==
    /\ n \in Main
    /\ inFlight(m, Tunnel) => inFlight(n, Tunnel)
    /\ m.waiting = <<>> => n.waiting = <<>>

\* Nobody waits, or a claim is under way.
Served(m) == m.waiting # <<>> => inFlight(m, Tunnel)

\* Keeping goes on.
LEMMA KeepsOn ==
  /\ \A m \in Main : Keeps(m, m)
  /\ \A m, n, o : Keeps(m, n) /\ Keeps(n, o) => Keeps(m, o)
  /\ \A m, n : Served(m) /\ Keeps(m, n) => Served(n)
  BY DEF Keeps, Served

\* What leaves the two queues alone keeps.
LEMMA FieldsKeep ==
  ASSUME NEW m, NEW n \in Main, n.out = m.out, n.events = m.events, m.waiting = <<>> => n.waiting = <<>>
  PROVE  Keeps(m, n)
  BY DEF Keeps, inFlight

\* A message more for the worker thread.
LEMMA MessageKeeps ==
  ASSUME NEW m \in Main, NEW d \in Message
  PROVE  LET n == [m EXCEPT !.out = Append(@, d)]
         IN  /\ Keeps(m, n)
             /\ d.do = "claim" /\ d.for = Tunnel => inFlight(n, Tunnel)
             /\ n.gateway = m.gateway /\ n.enabled = m.enabled /\ n.held = m.held
             /\ n.free = m.free /\ n.waiting = m.waiting /\ n.peers = m.peers
  <1> DEFINE q == Append(m.out, d)
             n == [m EXCEPT !.out = q]
  <1>1. /\ m.out \in Seq(Message) /\ q \in Seq(Message)
        /\ Len(q) = Len(m.out) + 1 /\ q[Len(q)] = d /\ \A i \in 1..Len(m.out) : q[i] = m.out[i]
        /\ 1..Len(m.out) \subseteq 1..Len(q) /\ Len(q) \in 1..Len(q)
    BY DEF Main
  <1> HIDE DEF q
  <1>2. /\ n \in Main /\ n.out = q /\ n.events = m.events
        /\ n.gateway = m.gateway /\ n.enabled = m.enabled /\ n.held = m.held
        /\ n.free = m.free /\ n.waiting = m.waiting /\ n.peers = m.peers
    BY <1>1 DEF Main
  <1> HIDE DEF n
  <1>3. inFlight(m, Tunnel) => inFlight(n, Tunnel)
    BY <1>1, <1>2 DEF inFlight
  <1>4. d.do = "claim" /\ d.for = Tunnel => inFlight(n, Tunnel)
    BY <1>1, <1>2 DEF inFlight
  <1>5. QED
    BY <1>2, <1>3, <1>4 DEF Keeps, n, q

\* A queued call more for the main thread.
LEMMA EventKeeps ==
  ASSUME NEW m \in Main, NEW e \in Event
  PROVE  Keeps(m, [m EXCEPT !.events = Append(@, e)])
  <1> DEFINE q == Append(m.events, e)
             n == [m EXCEPT !.events = q]
  <1>1. /\ m.events \in Seq(Event) /\ q \in Seq(Event)
        /\ Len(q) = Len(m.events) + 1 /\ \A i \in 1..Len(m.events) : q[i] = m.events[i]
        /\ 1..Len(m.events) \subseteq 1..Len(q)
    BY DEF Main
  <1> HIDE DEF q
  <1>2. n \in Main /\ n.events = q /\ n.out = m.out /\ n.waiting = m.waiting
    BY <1>1 DEF Main
  <1> HIDE DEF n
  <1>3. inFlight(m, Tunnel) => inFlight(n, Tunnel)
    BY <1>1, <1>2 DEF inFlight
  <1>4. QED
    BY <1>2, <1>3 DEF Keeps, n, q

\* ensureStarted asks for the gateway at most.
LEMMA StartedKeeps ==
  ASSUME NEW m \in Main
  PROVE  LET n == ensureStarted(m)
         IN  /\ Keeps(m, n)
             /\ n.enabled = m.enabled /\ n.held = m.held /\ n.free = m.free
             /\ n.waiting = m.waiting /\ n.peers = m.peers
             /\ m.gateway # "Unknown" => n = m
  <1>1. CASE m.gateway = "Unknown" /\ m.enabled
    <2> DEFINE d == [do |-> "start"]
               o == [m EXCEPT !.gateway = "Discovering"]
               n == [o EXCEPT !.out = Append(@, d)]
    <2>1. d \in Message
      BY DEF Message
    <2>2. /\ o \in Main /\ o.out = m.out /\ o.events = m.events
          /\ o.enabled = m.enabled /\ o.held = m.held /\ o.free = m.free
          /\ o.waiting = m.waiting /\ o.peers = m.peers
      BY DEF Main
    <2>3. ensureStarted(m) = n
      BY <1>1, <2>2 DEF ensureStarted, Main
    <2>4. Keeps(m, o)
      BY <2>2, FieldsKeep
    <2> HIDE DEF d, o
    <2>5. /\ Keeps(o, n) /\ n.enabled = o.enabled /\ n.held = o.held /\ n.free = o.free
          /\ n.waiting = o.waiting /\ n.peers = o.peers
      BY <2>1, <2>2, MessageKeeps
    <2> HIDE DEF n
    <2>6. QED
      BY <1>1, <2>2, <2>3, <2>4, <2>5, KeepsOn
  <1>2. CASE ~(m.gateway = "Unknown" /\ m.enabled)
    BY <1>2, KeepsOn DEF ensureStarted
  <1>3. QED
    BY <1>1, <1>2

\* An answer that is queued.
LEMMA AnswerKeeps ==
  ASSUME NEW m \in Main, NEW f \in Purposes, NEW port \in PortsOf(f) \cup {0}
  PROVE  Keeps(m, answerLater(m, f, port))
  <1> DEFINE e == [ev |-> "answer", for |-> f, port |-> port]
  <1>1. e \in Event
    BY DEF Event, PortsOf, Ports
  <1>2. answerLater(m, f, port) = [m EXCEPT !.events = Append(@, e)]
    BY DEF answerLater
  <1> HIDE DEF e
  <1>3. QED
    BY <1>1, <1>2, EventKeeps

\* A claim that is submitted.
LEMMA SubmitKeeps ==
  ASSUME NEW m \in Main, NEW f \in Purposes
  PROVE  Keeps(m, submit(m, f)) /\ (f = Tunnel => inFlight(submit(m, f), Tunnel))
  <1> DEFINE d == [do |-> "claim", for |-> f]
  <1>1. d \in Message /\ d.do = "claim" /\ d.for = f
    BY DEF Message
  <1>2. submit(m, f) = [m EXCEPT !.out = Append(@, d)]
    BY DEF submit
  <1> HIDE DEF d
  <1>3. QED
    BY <1>1, <1>2, MessageKeeps

\* A tunnel port is claimed, or refused at once.
LEMMA TunnelClaimKeeps ==
  ASSUME NEW m \in Main
  PROVE  /\ Keeps(m, claimTunnelPort(m))
         /\ ~Refused(m) => inFlight(claimTunnelPort(m), Tunnel)
  <1> DEFINE n == ensureStarted(m)
  <1>1. Keeps(m, n) /\ n \in Main /\ Tunnel \in Purposes /\ 0 \in PortsOf(Tunnel) \cup {0}
    BY StartedKeeps DEF Keeps, Purposes
  <1> HIDE DEF n
  <1>2. Keeps(n, answerLater(n, Tunnel, 0))
    BY <1>1, AnswerKeeps
  <1>3. Keeps(n, submit(n, Tunnel)) /\ inFlight(submit(n, Tunnel), Tunnel)
    BY <1>1, SubmitKeeps
  <1>4. claimTunnelPort(m) = IF Refused(m) THEN answerLater(n, Tunnel, 0) ELSE submit(n, Tunnel)
    BY DEF claimTunnelPort, n
  <1>5. QED
    BY <1>1, <1>2, <1>3, <1>4, KeepsOn

\* A stream claims the port of its slot.
LEMMA MediaClaimKeeps ==
  ASSUME NEW m \in Main, NEW s \in Slots
  PROVE  Keeps(m, claimMediaPort(m, s))
  <1> DEFINE n == ensureStarted(m)
             w == HeldFor(m, s)
  <1>1. Keeps(m, n) /\ n \in Main /\ s \in Purposes
    BY StartedKeeps DEF Keeps, Purposes
  <1> HIDE DEF n
  <1>2. Keeps(n, answerLater(n, s, 0))
    BY <1>1, AnswerKeeps
  <1>3. Keeps(n, submit(n, s))
    BY <1>1, SubmitKeeps
  <1>4. ASSUME w # <<>> PROVE Keeps(n, answerLater(n, s, w[1].port))
    <2>1. w \in Seq({c \in Claim : c.for = s})
      BY <1>1, HeldForType
    <2>2. w[1] \in {c \in Claim : c.for = s}
      <3> DEFINE U == {c \in Claim : c.for = s}
      <3>1. w \in Seq(U)
        BY <2>1
      <3> HIDE DEF w, U
      <3>2. w[1] \in U
        BY <1>4, <3>1
      <3>3. QED
        BY <3>2 DEF U
    <2> HIDE DEF w
    <2>3. w[1].port \in PortsOf(s) \cup {0}
      BY <2>2 DEF Claim
    <2>4. QED
      BY <1>1, <2>3, AnswerKeeps
  <1>5. claimMediaPort(m, s) = IF Refused(m) THEN answerLater(n, s, 0)
                               ELSE IF w # <<>> THEN answerLater(n, s, w[1].port)
                               ELSE submit(n, s)
    BY DEF claimMediaPort, n
  <1> HIDE DEF w
  <1>6. QED
    BY <1>1, <1>2, <1>3, <1>4, <1>5, KeepsOn

\* The tunnel asks for a port, if none is coming and there is room.
LEMMA RequestKeeps ==
  ASSUME NEW m \in Main
  PROVE  /\ Keeps(m, requestTunnelPort(m))
         /\ (~Refused(m) /\ (inFlight(m, Tunnel) \/ ~(Len(HeldFor(m, Tunnel)) >= Cap)))
               => inFlight(requestTunnelPort(m), Tunnel)
  BY TunnelClaimKeeps, KeepsOn DEF requestTunnelPort

\* The gateway is there.
LEMMA ReadyKeeps ==
  ASSUME NEW m \in Main
  PROVE  Keeps(m, onGatewayReady(m))
  BY RequestKeeps, KeepsOn DEF onGatewayReady

-----------------------------------------------------------------------------
(***************************************************************************)
(* The tunnel's operators touch neither queue, except to ask for a port.   *)
(***************************************************************************)

\* The queues and the holes as they were, and nobody who did not wait waits.
Calm(m, n) ==
    /\ n \in Main /\ n.out = m.out /\ n.events = m.events
    /\ n.held = m.held /\ n.gateway = m.gateway
    /\ m.waiting = <<>> => n.waiting = <<>>

\* Calm goes on, and keeps.
LEMMA CalmOn ==
  /\ \A m \in Main : Calm(m, m)
  /\ \A m, n, o : Calm(m, n) /\ Calm(n, o) => Calm(m, o)
  /\ \A m, n : Calm(m, n) => Keeps(m, n)
  BY FieldsKeep DEF Calm

\* A port that is given back.
LEMMA ReleaseCalm ==
  ASSUME NEW m \in Main, NEW port
  PROVE  Calm(m, releaseTunnelPort(m, port))
  <1>1. CASE port = 0 \/ port \in ToSet(m.free) \/ port \notin HeldPorts(m)
    BY <1>1, CalmOn DEF releaseTunnelPort
  <1>2. CASE ~(port = 0 \/ port \in ToSet(m.free) \/ port \notin HeldPorts(m))
    <2> DEFINE q == Append(m.free, port)
    <2>1. port \in TunnelPorts
      BY <1>2, HeldForType DEF Purposes
    <2>2. q \in Seq(TunnelPorts)
      BY <2>1 DEF Main
    <2>3. releaseTunnelPort(m, port) = [m EXCEPT !.free = q]
      BY <1>2 DEF releaseTunnelPort
    <2> HIDE DEF q
    <2>4. QED
      BY <2>2, <2>3 DEF Calm, Main
  <1>3. QED
    BY <1>1, <1>2

\* A browser that goes.
LEMMA DropCalm ==
  ASSUME NEW m \in Main, NEW x \in Sessions
  PROVE  Calm(m, dropPeer(m, x))
  <1> DEFINE w == Without(m.waiting, x)
             ps == [m.peers EXCEPT ![x] = [at |-> "gone", port |-> 0]]
             n == [m EXCEPT !.peers = ps, !.waiting = w]
  <1>1. w \in Seq(Sessions) /\ (m.waiting = <<>> => w = <<>>)
    BY WithoutSome DEF Main
  <1>2. ps \in [Sessions -> [at : {"new", "waiting", "up", "gone"}, port : TunnelPorts \cup {0}]]
    BY DEF Main
  <1>3. dropPeer(m, x) = releaseTunnelPort(n, m.peers[x].port)
    BY DEF dropPeer
  <1> HIDE DEF w, ps
  <1>4. Calm(m, n)
    BY <1>1, <1>2 DEF Calm, Main
  <1> HIDE DEF n
  <1>5. Calm(n, releaseTunnelPort(n, m.peers[x].port))
    BY <1>4, ReleaseCalm DEF Calm
  <1>6. QED
    BY <1>3, <1>4, <1>5, CalmOn

\* A browser is up on a port of the tunnel, or on one that is not mapped.
LEMMA UpCalm ==
  ASSUME NEW m \in Main, NEW x \in Sessions, NEW port \in TunnelPorts \cup {0}
  PROVE  Calm(m, [m EXCEPT !.peers[x] = [at |-> "up", port |-> port]])
  <1> DEFINE ps == [m.peers EXCEPT ![x] = [at |-> "up", port |-> port]]
             n == [m EXCEPT !.peers = ps]
  <1>1. ps \in [Sessions -> [at : {"new", "waiting", "up", "gone"}, port : TunnelPorts \cup {0}]]
    BY DEF Main
  <1> HIDE DEF ps
  <1>2. Calm(m, n)
    BY <1>1 DEF Calm, Main
  <1>3. QED
    BY <1>2 DEF ps

\* The connection of a browser is made, on one port or another, or not at all.
LEMMA ConnectCalm ==
  ASSUME NEW m \in Main, NEW x \in Sessions, NEW port \in TunnelPorts \cup {0}, NEW fails, NEW refused
  PROVE  Calm(m, createPeerConnection(m, x, port, fails, refused))
  <1> DEFINE back == releaseTunnelPort(m, port)
             up(n, p) == [n EXCEPT !.peers[x] = [at |-> "up", port |-> p]]
  <1>1. Calm(m, up(m, port))
    BY UpCalm
  <1>2. Calm(m, back) /\ back \in Main
    BY ReleaseCalm DEF Calm
  <1>3. createPeerConnection(m, x, port, fails, refused)
          \in {up(m, port), dropPeer(back, x), up(back, 0)}
    BY DEF createPeerConnection
  <1> HIDE DEF back
  <1>4. Calm(back, dropPeer(back, x)) /\ Calm(back, up(back, 0))
    BY <1>2, DropCalm, UpCalm
  <1> HIDE DEF up
  <1>5. QED
    BY <1>1, <1>2, <1>3, <1>4, CalmOn

\* A browser no longer waits and is connected, on a free hole if there is one.
LEMMA StartCalm ==
  ASSUME NEW m \in Main, NEW x \in Sessions, NEW fails, NEW refused
  PROVE  Calm(m, startPeer(m, x, fails, refused))
  <1> DEFINE w == Without(m.waiting, x)
             off == [m EXCEPT !.waiting = w]
             one == [off EXCEPT !.free = Tail(@)]
  <1>1. w \in Seq(Sessions) /\ (m.waiting = <<>> => w = <<>>)
    BY WithoutSome DEF Main
  <1>2. startPeer(m, x, fails, refused) =
          IF m.free = <<>> THEN createPeerConnection(off, x, 0, fails, refused)
          ELSE createPeerConnection(one, x, Head(m.free), fails, refused)
    BY DEF startPeer
  <1> HIDE DEF w
  <1>3. Calm(m, off) /\ off \in Main /\ off.free = m.free /\ m.free \in Seq(TunnelPorts)
    BY <1>1 DEF Calm, Main
  <1> HIDE DEF off
  <1>4. CASE m.free = <<>>
    <2>1. Calm(off, createPeerConnection(off, x, 0, fails, refused))
      BY <1>3, ConnectCalm
    <2>2. QED
      BY <1>2, <1>3, <1>4, <2>1, CalmOn
  <1>5. CASE m.free # <<>>
    <2>1. Head(m.free) \in TunnelPorts /\ Tail(m.free) \in Seq(TunnelPorts)
      BY <1>3, <1>5
    <2> DEFINE t == Tail(m.free)
    <2>2. one = [off EXCEPT !.free = t]
      BY <1>3
    <2> HIDE DEF t, one
    <2>3. Calm(off, one) /\ one \in Main
      BY <1>3, <2>1, <2>2 DEF Calm, Main, t
    <2>4. Calm(one, createPeerConnection(one, x, Head(m.free), fails, refused))
      BY <2>1, <2>3, ConnectCalm
    <2>5. QED
      BY <1>2, <1>3, <1>5, <2>3, <2>4, CalmOn
  <1>6. QED
    BY <1>4, <1>5

\* How giveUpWaiting goes on.
GivesUp(m, fails, refused, g) ==
    /\ g[0] = [m EXCEPT !.waiting = <<>>]
    /\ \A i \in 0..Len(m.waiting) : g[i] \in Main /\ g[i].waiting = <<>> /\ Calm(m, g[i])
    /\ \A i \in 1..Len(m.waiting) : g[i] = startPeer(g[i - 1], m.waiting[i], fails, refused)

\* giveUpWaiting comes to its end, one browser a turn.
LEMMA GiveUpTurns ==
  ASSUME NEW m \in Main, NEW fails, NEW refused
  PROVE  \E g : GivesUp(m, fails, refused, g) /\ giveUpWaiting(m, fails, refused) = g[Len(m.waiting)]
  <1> DEFINE n == Len(m.waiting)
             M == {k \in Main : k.waiting = <<>> /\ Calm(m, k)}
             b == [m EXCEPT !.waiting = <<>>]
             turn(i, k) == startPeer(k, m.waiting[i], fails, refused)
             G == [i \in 1..n |-> [k \in M |-> turn(i, k)]]
             Next1(g) == [i \in 0..n |-> IF i = 0 THEN b ELSE turn(i, g[i - 1])]
             given == CHOOSE g : g = Next1(g)
  <1>1. n \in Nat /\ b \in M /\ \A i \in 1..n : m.waiting[i] \in Sessions
    <2>1. m.waiting \in Seq(Sessions) /\ <<>> \in Seq(Sessions)
      BY DEF Main
    <2>2. b \in Main /\ b.waiting = <<>> /\ Calm(m, b)
      BY <2>1 DEF Main, Calm
    <2> HIDE DEF b
    <2>3. QED
      BY <2>1, <2>2
  <1>2. giveUpWaiting(m, fails, refused) = given[n]
    BY DEF giveUpWaiting
  <1> HIDE DEF n, b
  <1>3. ASSUME NEW i \in 1..n, NEW k \in M PROVE G[i][k] = turn(i, k) /\ turn(i, k) \in M
    <2>1. k \in Main /\ k.waiting = <<>> /\ Calm(m, k)
      OBVIOUS
    <2>2. Calm(k, turn(i, k))
      BY <1>1, <2>1, StartCalm
    <2> HIDE DEF turn
    <2>3. Calm(m, turn(i, k)) /\ turn(i, k) \in Main /\ turn(i, k).waiting = <<>>
      BY <2>1, <2>2, CalmOn DEF Calm
    <2>4. QED
      BY <2>3
  <1> HIDE DEF turn
  <1>4. Turns(n, M, b, G)
    <2>1. G \in [1..n -> [M -> M]]
      BY <1>3
    <2> HIDE DEF G, M
    <2>2. QED
      BY <1>1, <2>1 DEF Turns
  <1> HIDE DEF G, M
  <1>5. PICK f : f \in [0..n -> M] /\ f[0] = b /\ \A i \in 1..n : f[i] = G[i][f[i - 1]]
    BY <1>4, Loop DEF Passes
  <1>6. f = Next1(f)
    <2>1. ASSUME NEW i \in 0..n, i # 0 PROVE f[i] = turn(i, f[i - 1])
      <3>1. i \in 1..n /\ i - 1 \in 0..n
        BY <1>1, <2>1
      <3>2. QED
        BY <1>3, <1>5, <3>1
    <2>2. QED
      BY <1>5, <2>1
  <1>7. given = Next1(given)
    <2> HIDE DEF Next1
    <2>1. QED
      BY <1>6
  <1> HIDE DEF given
  <1>8. Takes(n, M, b, G, given)
    <2>1. given[0] = b
      BY <1>1, <1>7
    <2>2. ASSUME NEW i \in 1..n, given[i - 1] \in M PROVE given[i] = G[i][given[i - 1]]
      <3>1. i \in 0..n /\ i # 0
        BY <1>1
      <3>2. given[i] = turn(i, given[i - 1])
        BY <1>7, <3>1
      <3>3. QED
        BY <1>3, <2>2, <3>2
    <2>3. QED
      BY <2>1, <2>2 DEF Takes
  <1>9. \A i \in 0..n : given[i] \in M
    BY <1>4, <1>8, Stays
  <1>10. GivesUp(m, fails, refused, given)
    <2>1. 0 \in 0..n /\ \A i \in 1..n : i \in 0..n /\ i # 0
      BY <1>1
    <2>2. given[0] = b
      BY <1>7, <2>1
    <2>3. \A i \in 1..n : given[i] = turn(i, given[i - 1])
      BY <1>7, <2>1
    <2>4. \A i \in 0..n : given[i] \in Main /\ given[i].waiting = <<>> /\ Calm(m, given[i])
      BY <1>9 DEF M
    <2>5. QED
      BY <2>2, <2>3, <2>4 DEF GivesUp, b, n, turn
  <1>11. QED
    BY <1>2, <1>10 DEF n

\* Everybody is connected on a port that is not mapped, or dropped: nobody waits.
LEMMA GivenUp ==
  ASSUME NEW m \in Main, NEW fails, NEW refused
  PROVE  LET k == giveUpWaiting(m, fails, refused)
         IN  k \in Main /\ k.waiting = <<>> /\ Calm(m, k)
  <1>1. PICK g : GivesUp(m, fails, refused, g) /\ giveUpWaiting(m, fails, refused) = g[Len(m.waiting)]
    BY GiveUpTurns
  <1>2. Len(m.waiting) \in 0..Len(m.waiting)
    BY DEF Main
  <1>3. QED
    BY <1>1, <1>2 DEF GivesUp

\* How serveWaitingPeers goes on.
Serves(m, fails, refused, g) ==
    /\ g[0] = m
    /\ \A i \in 0..Len(m.waiting) : g[i] \in Main /\ Calm(m, g[i])
    /\ \A i \in 1..Len(m.waiting) :
          g[i] = IF g[i - 1].free = <<>> THEN g[i - 1]
                 ELSE startPeer(g[i - 1], m.waiting[i], fails, refused)

\* serveWaitingPeers comes to its end, one browser a turn.
LEMMA ServeTurns ==
  ASSUME NEW m \in Main, NEW fails, NEW refused
  PROVE  \E g : Serves(m, fails, refused, g) /\ serveWaitingPeers(m, fails, refused) = g[Len(m.waiting)]
  <1> DEFINE n == Len(m.waiting)
             M == {k \in Main : Calm(m, k)}
             turn(i, k) == IF k.free = <<>> THEN k ELSE startPeer(k, m.waiting[i], fails, refused)
             G == [i \in 1..n |-> [k \in M |-> turn(i, k)]]
             Next1(g) == [i \in 0..n |-> IF i = 0 THEN m ELSE turn(i, g[i - 1])]
             served == CHOOSE g : g = Next1(g)
  <1>1. n \in Nat /\ m \in M /\ \A i \in 1..n : m.waiting[i] \in Sessions
    <2>1. n \in Nat /\ \A i \in 1..n : m.waiting[i] \in Sessions
      BY DEF Main
    <2>2. QED
      BY <2>1, CalmOn
  <1>2. serveWaitingPeers(m, fails, refused) = served[n]
    BY DEF serveWaitingPeers
  <1> HIDE DEF n
  <1>3. ASSUME NEW i \in 1..n, NEW k \in M PROVE G[i][k] = turn(i, k) /\ turn(i, k) \in M
    <2>1. k \in Main /\ Calm(m, k)
      OBVIOUS
    <2>2. Calm(k, startPeer(k, m.waiting[i], fails, refused))
      BY <1>1, <2>1, StartCalm
    <2>3. Calm(m, turn(i, k)) /\ turn(i, k) \in Main
      BY <2>1, <2>2, CalmOn DEF Calm
    <2> HIDE DEF turn
    <2>4. QED
      BY <2>3
  <1> HIDE DEF turn, M
  <1>4. Turns(n, M, m, G)
    <2>1. G \in [1..n -> [M -> M]]
      BY <1>3
    <2> HIDE DEF G
    <2>2. QED
      BY <1>1, <2>1 DEF Turns
  <1> HIDE DEF G
  <1>5. PICK f : f \in [0..n -> M] /\ f[0] = m /\ \A i \in 1..n : f[i] = G[i][f[i - 1]]
    BY <1>4, Loop DEF Passes
  <1>6. f = Next1(f)
    <2>1. ASSUME NEW i \in 0..n, i # 0 PROVE f[i] = turn(i, f[i - 1])
      <3>1. i \in 1..n /\ i - 1 \in 0..n
        BY <1>1, <2>1
      <3>2. QED
        BY <1>3, <1>5, <3>1
    <2>2. QED
      BY <1>5, <2>1
  <1>7. served = Next1(served)
    <2> HIDE DEF Next1
    <2>1. QED
      BY <1>6
  <1> HIDE DEF served
  <1>8. Takes(n, M, m, G, served)
    <2>1. served[0] = m
      BY <1>1, <1>7
    <2>2. ASSUME NEW i \in 1..n, served[i - 1] \in M PROVE served[i] = G[i][served[i - 1]]
      <3>1. i \in 0..n /\ i # 0
        BY <1>1
      <3>2. served[i] = turn(i, served[i - 1])
        BY <1>7, <3>1
      <3>3. QED
        BY <1>3, <2>2, <3>2
    <2>3. QED
      BY <2>1, <2>2 DEF Takes
  <1>9. \A i \in 0..n : served[i] \in M
    BY <1>4, <1>8, Stays
  <1>10. Serves(m, fails, refused, served)
    <2>1. 0 \in 0..n /\ \A i \in 1..n : i \in 0..n /\ i # 0
      BY <1>1
    <2>2. served[0] = m
      BY <1>7, <2>1
    <2>3. \A i \in 1..n : served[i] = turn(i, served[i - 1])
      BY <1>7, <2>1
    <2>4. \A i \in 0..n : served[i] \in Main /\ Calm(m, served[i])
      BY <1>9 DEF M
    <2>5. QED
      BY <2>2, <2>3, <2>4 DEF Serves, n, turn
  <1>11. QED
    BY <1>2, <1>10 DEF n

\* The free holes are handed out, as far as they go.
LEMMA ServedOn ==
  ASSUME NEW m \in Main, NEW fails, NEW refused
  PROVE  Calm(m, serveWaitingPeers(m, fails, refused))
  <1>1. PICK g : Serves(m, fails, refused, g) /\ serveWaitingPeers(m, fails, refused) = g[Len(m.waiting)]
    BY ServeTurns
  <1>2. Len(m.waiting) \in 0..Len(m.waiting)
    BY DEF Main
  <1>3. QED
    BY <1>1, <1>2 DEF Serves

\* The holes of this host are finitely many.
LEMMA ClaimFinite == IsFiniteSet(Claim)
  <1>1. IsFiniteSet(Purposes)
    <2>1. IsFiniteSet({Tunnel})
      BY FS_Singleton
    <2>2. QED
      BY <2>1, FS_Union, PortAssumption DEF Purposes
  <1>2. IsFiniteSet(Purposes \X Ports)
    BY <1>1, FS_Product, PortAssumption
  <1> DEFINE f == [c \in Claim |-> <<c.for, c.port>>]
  <1>3. f \in [Claim -> Purposes \X Ports]
    BY DEF Claim
  <1>4. ASSUME NEW c \in Claim, NEW d \in Claim, f[c] = f[d] PROVE c = d
    BY <1>4 DEF Claim
  <1>5. f \in Injection(Claim, Purposes \X Ports)
    <2> HIDE DEF f
    <2>1. QED
      BY <1>3, <1>4 DEF Injection, IsInjective
  <1> HIDE DEF f
  <1>6. QED
    BY <1>2, <1>5, FS_Injection

\* A finite set can be gone through.
LEMMA ListOf ==
  ASSUME NEW S, IsFiniteSet(S)
  PROVE  SetToSeq(S) \in Seq(S) /\ ToSet(SetToSeq(S)) = S
  <1> DEFINE k == Cardinality(S)
  <1>1. k \in Nat /\ ExistsBijection(1..k, S)
    BY FS_CardinalityType
  <1> HIDE DEF k
  <1>2. \E f \in [1..k -> S] : IsInjective(f)
    BY <1>1 DEF ExistsBijection, Bijection, Injection
  <1>3. SetToSeq(S) = CHOOSE f \in [1..k -> S] : IsInjective(f)
    BY DEF SetToSeq, k
  <1> DEFINE list == SetToSeq(S)
  <1>4. list \in [1..k -> S] /\ IsInjective(list)
    BY <1>2, <1>3
  <1> HIDE DEF list
  <1>5. list \in Injection(1..k, S)
    BY <1>4 DEF Injection
  <1>6. IsFiniteSet(1..k) /\ Cardinality(1..k) = k
    BY <1>1, FS_Interval
  <1>7. list \in Surjection(1..k, S)
    BY <1>5, <1>6, FS_Injection DEF k
  <1>8. list \in Seq(S) /\ Len(list) = k
    BY <1>1, <1>4
  <1>9. ToSet(list) = S
    BY <1>4, <1>7, <1>8 DEF ToSet, Surjection
  <1>10. QED
    BY <1>8, <1>9 DEF list

\* A hole that is lost is forgotten; a tunnel that has none left asks for one.
LEMMA LostKeeps ==
  ASSUME NEW m \in Main, NEW c \in Claim
  PROVE  Keeps(m, PortLost(m, c))
  <1> DEFINE h == Without(m.held, c)
             w == Without(m.free, c.port)
             gone == [m EXCEPT !.held = h]
             off == [gone EXCEPT !.free = w]
  <1>1. h \in Seq(Claim) /\ w \in Seq(TunnelPorts)
    BY WithoutSome DEF Main
  <1> HIDE DEF h, w
  <1>2. /\ gone \in Main /\ gone.free = m.free /\ gone.waiting = m.waiting
        /\ gone.out = m.out /\ gone.events = m.events
    BY <1>1 DEF Main
  <1>3. Keeps(m, gone)
    BY <1>2, FieldsKeep
  <1> HIDE DEF gone
  <1>4. Calm(gone, off) /\ off \in Main
    BY <1>1, <1>2 DEF Calm, Main
  <1>5. PortLost(m, c) \in {gone, off, requestTunnelPort(off)}
    BY <1>2 DEF PortLost, gone, off, h, w
  <1> HIDE DEF off
  <1>6. Keeps(off, requestTunnelPort(off))
    BY <1>4, RequestKeeps
  <1>7. QED
    BY <1>3, <1>4, <1>5, <1>6, CalmOn, KeepsOn

\* How onRenewed goes on, over a list of what is lost.
Renews(m, claims, list, g) ==
    /\ list \in Seq(Claim) /\ ToSet(list) = claims
    /\ g[0] = m
    /\ \A i \in 0..Len(list) : g[i] \in Main /\ Keeps(m, g[i])
    /\ \A i \in 1..Len(list) : g[i] = PortLost(g[i - 1], list[i])

\* onRenewed comes to its end, one hole a turn.
LEMMA RenewTurns ==
  ASSUME NEW m \in Main, NEW claims \in SUBSET Claim
  PROVE  \E list, g : Renews(m, claims, list, g) /\ onRenewed(m, claims) = g[Len(list)]
  <1> DEFINE list == SetToSeq(claims)
             n == Len(list)
             M == {k \in Main : Keeps(m, k)}
             turn(i, k) == PortLost(k, list[i])
             G == [i \in 1..n |-> [k \in M |-> turn(i, k)]]
             Next1(g) == [i \in 0..n |-> IF i = 0 THEN m ELSE turn(i, g[i - 1])]
             lost == CHOOSE g : g = Next1(g)
  <1>0. list \in Seq(Claim) /\ ToSet(list) = claims
    <2>1. IsFiniteSet(claims)
      BY ClaimFinite, FS_Subset
    <2>2. list \in Seq(claims) /\ ToSet(list) = claims
      BY <2>1, ListOf
    <2> HIDE DEF list
    <2>3. QED
      BY <2>2
  <1>1. n \in Nat /\ m \in M /\ \A i \in 1..n : list[i] \in Claim
    <2> HIDE DEF list
    <2>1. n \in Nat /\ \A i \in 1..n : list[i] \in Claim
      BY <1>0
    <2>2. QED
      BY <2>1, KeepsOn
  <1>2. onRenewed(m, claims) = lost[n]
    BY DEF onRenewed
  <1> HIDE DEF n, list
  <1>3. ASSUME NEW i \in 1..n, NEW k \in M PROVE G[i][k] = turn(i, k) /\ turn(i, k) \in M
    <2>1. k \in Main /\ Keeps(m, k)
      OBVIOUS
    <2>2. Keeps(k, turn(i, k))
      BY <1>1, <2>1, LostKeeps
    <2> HIDE DEF turn
    <2>3. turn(i, k) \in Main /\ Keeps(m, turn(i, k))
      BY <2>1, <2>2, KeepsOn DEF Keeps
    <2>4. QED
      BY <2>3
  <1> HIDE DEF turn
  <1>4. Turns(n, M, m, G)
    <2>1. G \in [1..n -> [M -> M]]
      BY <1>3
    <2> HIDE DEF G, M
    <2>2. QED
      BY <1>1, <2>1 DEF Turns
  <1> HIDE DEF G, M
  <1>5. PICK f : f \in [0..n -> M] /\ f[0] = m /\ \A i \in 1..n : f[i] = G[i][f[i - 1]]
    BY <1>4, Loop DEF Passes
  <1>6. f = Next1(f)
    <2>1. ASSUME NEW i \in 0..n, i # 0 PROVE f[i] = turn(i, f[i - 1])
      <3>1. i \in 1..n /\ i - 1 \in 0..n
        BY <1>1, <2>1
      <3>2. QED
        BY <1>3, <1>5, <3>1
    <2>2. QED
      BY <1>5, <2>1
  <1>7. lost = Next1(lost)
    <2> HIDE DEF Next1
    <2>1. QED
      BY <1>6
  <1> HIDE DEF lost
  <1>8. Takes(n, M, m, G, lost)
    <2>1. lost[0] = m
      BY <1>1, <1>7
    <2>2. ASSUME NEW i \in 1..n, lost[i - 1] \in M PROVE lost[i] = G[i][lost[i - 1]]
      <3>1. i \in 0..n /\ i # 0
        BY <1>1
      <3>2. lost[i] = turn(i, lost[i - 1])
        BY <1>7, <3>1
      <3>3. QED
        BY <1>3, <2>2, <3>2
    <2>3. QED
      BY <2>1, <2>2 DEF Takes
  <1>9. \A i \in 0..n : lost[i] \in M
    BY <1>4, <1>8, Stays
  <1>10. Renews(m, claims, list, lost)
    <2>1. 0 \in 0..n /\ \A i \in 1..n : i \in 0..n /\ i # 0
      BY <1>1
    <2>2. lost[0] = m
      BY <1>7, <2>1
    <2>3. \A i \in 1..n : lost[i] = turn(i, lost[i - 1])
      BY <1>7, <2>1
    <2>4. \A i \in 0..n : lost[i] \in Main /\ Keeps(m, lost[i])
      BY <1>9 DEF M
    <2>5. QED
      BY <1>0, <2>2, <2>3, <2>4 DEF Renews, n, turn
  <1>11. QED
    BY <1>2, <1>10 DEF n

\* No claim is lost with the holes.
LEMMA RenewedKeeps ==
  ASSUME NEW m \in Main, NEW claims \in SUBSET Claim
  PROVE  Keeps(m, onRenewed(m, claims))
  <1>1. PICK list, g : Renews(m, claims, list, g) /\ onRenewed(m, claims) = g[Len(list)]
    BY RenewTurns
  <1>2. Len(list) \in 0..Len(list)
    BY <1>1 DEF Renews
  <1>3. QED
    BY <1>1, <1>2 DEF Renews

\* The answer to the tunnel's claim leaves nobody waiting for nothing.
LEMMA AnsweredServes ==
  ASSUME NEW m \in Main, NEW port \in TunnelPorts \cup {0}, NEW fails, NEW refused
  PROVE  LET k == TunnelClaimed(m, port, fails, refused)
         IN  k \in Main /\ Served(k)
  <1> DEFINE q == Append(m.free, port)
             more == [m EXCEPT !.free = q]
             served == serveWaitingPeers(more, fails, refused)
             asked == requestTunnelPort(served)
  <1>1. CASE port = 0
    BY <1>1, GivenUp DEF TunnelClaimed, Served
  <1>2. CASE port # 0
    <2>1. q \in Seq(TunnelPorts)
      BY <1>2 DEF Main
    <2>2. TunnelClaimed(m, port, fails, refused) =
            IF served.waiting = <<>> THEN served
            ELSE IF inFlight(asked, Tunnel) THEN asked
            ELSE giveUpWaiting(asked, fails, refused)
      BY <1>2 DEF TunnelClaimed
    <2> HIDE DEF q
    <2>3. more \in Main
      BY <2>1 DEF Main
    <2> HIDE DEF more
    <2>4. served \in Main
      BY <2>3, ServedOn DEF Calm
    <2> HIDE DEF served
    <2>5. asked \in Main
      BY <2>4, RequestKeeps DEF Keeps
    <2> HIDE DEF asked
    <2>6. QED
      BY <2>2, <2>4, <2>5, GivenUp DEF Served
  <1>3. QED
    BY <1>1, <1>2

-----------------------------------------------------------------------------
(***************************************************************************)
(* The steps.                                                              *)
(***************************************************************************)

\* What the main thread and the worker thread know of, and nobody waits for nothing.
Known == main \in Main /\ core \in [up : BOOLEAN, held : SUBSET Claim]
Waits == Known /\ Served(main)

\* A call that is taken off the queue; only the answer to the tunnel's claim takes
\* the claim with it.
LEMMA TakenOff ==
  ASSUME NEW m \in Main, m.events # <<>>
  PROVE  LET n == [m EXCEPT !.events = Tail(@)]
             e == Head(m.events)
         IN  /\ e \in Event /\ n \in Main /\ n.held = m.held /\ n.gateway = m.gateway
             /\ ~(e.ev \in {"claimed", "answer"} /\ e.for = Tunnel) => Keeps(m, n)
  <1> DEFINE t == Tail(m.events)
             e == Head(m.events)
             n == [m EXCEPT !.events = t]
  <1>1. /\ m.events \in Seq(Event) /\ t \in Seq(Event) /\ e \in Event /\ e = m.events[1]
        /\ \A i \in 1..Len(m.events) : i # 1 => i - 1 \in 1..Len(t) /\ t[i - 1] = m.events[i]
    <2>1. m.events \in Seq(Event)
      BY DEF Main
    <2>2. QED
      BY <2>1
  <1>2. [m EXCEPT !.events = Tail(@)] = n
    BY DEF Main
  <1> HIDE DEF t, e
  <1>3. n \in Main /\ n.events = t /\ n.out = m.out /\ n.waiting = m.waiting /\ n.held = m.held
        /\ n.gateway = m.gateway
    BY <1>1 DEF Main
  <1> HIDE DEF n
  <1>4. ASSUME ~(e.ev \in {"claimed", "answer"} /\ e.for = Tunnel), inFlight(m, Tunnel)
        PROVE  inFlight(n, Tunnel)
    <2>1. CASE \E i \in 1..Len(m.out) : m.out[i].do = "claim" /\ m.out[i].for = Tunnel
      BY <1>3, <2>1 DEF inFlight
    <2>2. CASE \E i \in 1..Len(m.events) :
                  m.events[i].ev \in {"claimed", "answer"} /\ m.events[i].for = Tunnel
      <3>1. PICK i \in 1..Len(m.events) :
                  m.events[i].ev \in {"claimed", "answer"} /\ m.events[i].for = Tunnel
        BY <2>2
      <3>2. i # 1
        BY <1>1, <1>4, <3>1
      <3>3. i - 1 \in 1..Len(t) /\ t[i - 1].ev \in {"claimed", "answer"} /\ t[i - 1].for = Tunnel
        BY <1>1, <3>1, <3>2
      <3>4. QED
        BY <1>3, <3>3 DEF inFlight
    <2>3. QED
      BY <1>4, <2>1, <2>2 DEF inFlight
  <1>5. QED
    BY <1>1, <1>2, <1>3, <1>4 DEF Keeps, e

\* A message is taken off and answered: the claim is then in the answer.
LEMMA PostKeeps ==
  ASSUME NEW m \in Main, m.out # <<>>, NEW e \in Event,
         Head(m.out).do = "claim" /\ Head(m.out).for = Tunnel => e.ev = "claimed" /\ e.for = Tunnel
  PROVE  Keeps(m, [m EXCEPT !.out = Tail(@), !.events = Append(@, e)])
  <1> DEFINE t == Tail(m.out)
             q == Append(m.events, e)
             o == [m EXCEPT !.out = t]
             n == [o EXCEPT !.events = q]
  <1>1. /\ m.out \in Seq(Message) /\ t \in Seq(Message) /\ Head(m.out) = m.out[1]
        /\ \A i \in 1..Len(m.out) : i # 1 => i - 1 \in 1..Len(t) /\ t[i - 1] = m.out[i]
    <2>1. m.out \in Seq(Message)
      BY DEF Main
    <2>2. QED
      BY <2>1
  <1>2. /\ m.events \in Seq(Event) /\ q \in Seq(Event) /\ q[Len(q)] = e /\ Len(q) \in 1..Len(q)
        /\ \A i \in 1..Len(m.events) : i \in 1..Len(q) /\ q[i] = m.events[i]
    <2>1. m.events \in Seq(Event)
      BY DEF Main
    <2>2. QED
      BY <2>1
  <1>3. [m EXCEPT !.out = Tail(@), !.events = Append(@, e)] = n
    BY DEF Main
  <1> HIDE DEF t, q
  <1>4. o \in Main /\ o.out = t /\ o.events = m.events /\ o.waiting = m.waiting
    BY <1>1 DEF Main
  <1> HIDE DEF o
  <1>5. n \in Main /\ n.out = t /\ n.events = q /\ n.waiting = m.waiting
    BY <1>2, <1>4 DEF Main
  <1> HIDE DEF n
  <1>6. ASSUME inFlight(m, Tunnel) PROVE inFlight(n, Tunnel)
    <2>1. CASE \E i \in 1..Len(m.out) : m.out[i].do = "claim" /\ m.out[i].for = Tunnel
      <3>1. PICK i \in 1..Len(m.out) : m.out[i].do = "claim" /\ m.out[i].for = Tunnel
        BY <2>1
      <3>2. CASE i = 1
        <4>1. q[Len(q)].ev \in {"claimed", "answer"} /\ q[Len(q)].for = Tunnel
          BY <1>1, <1>2, <3>1, <3>2
        <4>2. QED
          BY <1>2, <1>5, <4>1 DEF inFlight
      <3>3. CASE i # 1
        <4>1. i - 1 \in 1..Len(t) /\ t[i - 1].do = "claim" /\ t[i - 1].for = Tunnel
          BY <1>1, <3>1, <3>3
        <4>2. QED
          BY <1>5, <4>1 DEF inFlight
      <3>4. QED
        BY <3>2, <3>3
    <2>2. CASE \E i \in 1..Len(m.events) :
                  m.events[i].ev \in {"claimed", "answer"} /\ m.events[i].for = Tunnel
      BY <1>2, <1>5, <2>2 DEF inFlight
    <2>3. QED
      BY <1>6, <2>1, <2>2 DEF inFlight
  <1>7. QED
    BY <1>3, <1>5, <1>6 DEF Keeps

\* A message is taken off that is no claim.
LEMMA DroppedKeeps ==
  ASSUME NEW m \in Main, m.out # <<>>, Head(m.out).do # "claim"
  PROVE  Keeps(m, [m EXCEPT !.out = Tail(@)])
  <1> DEFINE t == Tail(m.out)
             n == [m EXCEPT !.out = t]
  <1>1. /\ m.out \in Seq(Message) /\ t \in Seq(Message) /\ Head(m.out) = m.out[1]
        /\ \A i \in 1..Len(m.out) : i # 1 => i - 1 \in 1..Len(t) /\ t[i - 1] = m.out[i]
    <2>1. m.out \in Seq(Message)
      BY DEF Main
    <2>2. QED
      BY <2>1
  <1>2. [m EXCEPT !.out = Tail(@)] = n
    BY DEF Main
  <1> HIDE DEF t
  <1>3. n \in Main /\ n.out = t /\ n.events = m.events /\ n.waiting = m.waiting
    BY <1>1 DEF Main
  <1> HIDE DEF n
  <1>4. ASSUME inFlight(m, Tunnel) PROVE inFlight(n, Tunnel)
    <2>1. CASE \E i \in 1..Len(m.out) : m.out[i].do = "claim" /\ m.out[i].for = Tunnel
      <3>1. PICK i \in 1..Len(m.out) : m.out[i].do = "claim" /\ m.out[i].for = Tunnel
        BY <2>1
      <3>2. i # 1
        BY <1>1, <3>1
      <3>3. i - 1 \in 1..Len(t) /\ t[i - 1].do = "claim" /\ t[i - 1].for = Tunnel
        BY <1>1, <3>1, <3>2
      <3>4. QED
        BY <1>3, <3>3 DEF inFlight
    <2>2. CASE \E i \in 1..Len(m.events) :
                  m.events[i].ev \in {"claimed", "answer"} /\ m.events[i].for = Tunnel
      BY <1>3, <2>2 DEF inFlight
    <2>3. QED
      BY <1>4, <2>1, <2>2 DEF inFlight
  <1>5. QED
    BY <1>2, <1>3, <1>4 DEF Keeps

\* A browser that begins to wait does so with a claim under way.
LEMMA OpenedServes ==
  ASSUME NEW m \in Main, NEW x \in Sessions, m.enabled, m.gateway \in {"Ready", "Discovering"},
         inFlight(m, Tunnel) \/ Len(HeldFor(m, Tunnel)) < Cap
  PROVE  LET k == requestTunnelPort([m EXCEPT !.peers[x].at = "waiting", !.waiting = Append(@, x)])
         IN  k \in Main /\ Served(k)
  <1> DEFINE w == Append(m.waiting, x)
             ps == [m.peers EXCEPT ![x].at = "waiting"]
             o == [m EXCEPT !.peers = ps]
             n == [o EXCEPT !.waiting = w]
  <1>1. w \in Seq(Sessions)
        /\ ps \in [Sessions -> [at : {"new", "waiting", "up", "gone"}, port : TunnelPorts \cup {0}]]
    <2> DEFINE Peer == [at : {"new", "waiting", "up", "gone"}, port : TunnelPorts \cup {0}]
               k == [m.peers[x] EXCEPT !.at = "waiting"]
    <2>1. m.waiting \in Seq(Sessions) /\ m.peers \in [Sessions -> Peer]
      BY DEF Main
    <2>2. k \in Peer
      BY <2>1
    <2>3. ps = [m.peers EXCEPT ![x] = k]
      BY <2>1
    <2> HIDE DEF k, Peer, ps
    <2>4. ps \in [Sessions -> Peer]
      BY <2>1, <2>2, <2>3
    <2>5. QED
      BY <2>1, <2>4 DEF Peer
  <1>2. [m EXCEPT !.peers[x].at = "waiting", !.waiting = Append(@, x)] = n
    BY DEF Main
  <1> HIDE DEF w, ps
  <1>3. /\ o \in Main /\ o.out = m.out /\ o.events = m.events /\ o.held = m.held
        /\ o.enabled = m.enabled /\ o.gateway = m.gateway
    BY <1>1 DEF Main
  <1> HIDE DEF o
  <1>4. /\ n \in Main /\ n.out = m.out /\ n.events = m.events /\ n.held = m.held
        /\ n.enabled = m.enabled /\ n.gateway = m.gateway
    BY <1>1, <1>3 DEF Main
  <1> HIDE DEF n
  <1>5. ~Refused(n)
    BY <1>4 DEF Refused, ensureStarted
  <1>6. inFlight(n, Tunnel) \/ ~(Len(HeldFor(n, Tunnel)) >= Cap)
    <2>1. HeldFor(n, Tunnel) = HeldFor(m, Tunnel) /\ (inFlight(m, Tunnel) => inFlight(n, Tunnel))
      BY <1>4 DEF HeldFor, inFlight
    <2>2. Len(HeldFor(n, Tunnel)) \in Nat
      <3> DEFINE U == {c \in Claim : c.for = Tunnel}
      <3>1. HeldFor(n, Tunnel) \in Seq(U)
        BY <1>4, HeldForType DEF Purposes
      <3> HIDE DEF U
      <3>2. QED
        BY <3>1
    <2>3. QED
      BY <2>1, <2>2, PortAssumption
  <1>7. QED
    BY <1>2, <1>4, <1>5, <1>6, RequestKeeps DEF Keeps, Served

\* The steps of the main thread that leave its queues alone, or add to them.
LEMMA MainSteps ==
  Waits /\ (\/ Switch \/ Online \/ discover
            \/ \E x \in Sessions : onSessionOpened(x) \/ ClaimWaitTimeout(x) \/ onSessionClosed(x)
            \/ \E s \in Slots : StreamClaims(s) \/ releaseMediaPort(s)) => Waits'
  <1> SUFFICES ASSUME Waits,
                      \/ Switch \/ Online \/ discover
                      \/ \E x \in Sessions : onSessionOpened(x) \/ ClaimWaitTimeout(x) \/ onSessionClosed(x)
                      \/ \E s \in Slots : StreamClaims(s) \/ releaseMediaPort(s)
               PROVE  Waits'
    OBVIOUS
  <1>1. main \in Main /\ core \in [up : BOOLEAN, held : SUBSET Claim] /\ Served(main)
    BY DEF Waits, Known
  <1>2. core' = core
    BY DEF Switch, Online, discover, onSessionOpened, ClaimWaitTimeout, onSessionClosed,
           StreamClaims, releaseMediaPort
  <1>3. ASSUME main' \in Main, Served(main') PROVE Waits'
    BY <1>1, <1>2, <1>3 DEF Waits, Known, Served, inFlight
  <1>4. ASSUME Keeps(main, main') PROVE Waits'
    <2>1. main' \in Main /\ Served(main')
      BY <1>1, <1>4 DEF Keeps, Served
    <2>2. QED
      BY <1>3, <2>1
  <1>5. CASE Switch
    <2>1. main' = [main EXCEPT !.enabled = ~@]
      BY <1>5 DEF Switch
    <2>2. Calm(main, main')
      BY <1>1, <2>1 DEF Calm, Main
    <2>3. QED
      BY <1>1, <1>4, <2>2, CalmOn
  <1>6. CASE Online
    <2>1. main' \in {ensureStarted(main), onGatewayReady(main)}
      BY <1>6 DEF Online
    <2>2. Keeps(main, ensureStarted(main)) /\ Keeps(main, onGatewayReady(main))
      BY <1>1, StartedKeeps, ReadyKeeps
    <2>3. QED
      BY <1>4, <2>1, <2>2
  <1>7. CASE discover
    <2> DEFINE o == [main EXCEPT !.gateway = "Discovering"]
               d == [do |-> "start"]
    <2>1. main' = [o EXCEPT !.out = Append(@, d)]
      BY <1>1, <1>7 DEF discover, Main
    <2>2. o \in Main /\ o.out = main.out /\ o.events = main.events /\ o.waiting = main.waiting
      BY <1>1 DEF Main
    <2>3. d \in Message
      BY DEF Message
    <2> HIDE DEF o, d
    <2>4. Keeps(o, main')
      BY <2>1, <2>2, <2>3, MessageKeeps
    <2>5. Keeps(main, o)
      BY <2>2, FieldsKeep
    <2>6. QED
      BY <1>4, <2>4, <2>5, KeepsOn
  <1>8. ASSUME NEW x \in Sessions, onSessionOpened(x) PROVE Waits'
    <2> DEFINE m == ensureStarted(main)
               n == requestTunnelPort([m EXCEPT !.peers[x].at = "waiting", !.waiting = Append(@, x)])
               room == inFlight(m, Tunnel) \/ Len(HeldFor(m, Tunnel)) < Cap
    <2>1. PICK fails, refused :
            main' = IF main.free # <<>> THEN startPeer(main, x, fails, refused)
                    ELSE IF ~main.enabled THEN createPeerConnection(main, x, 0, fails, refused)
                    ELSE IF ~(m.gateway \in {"Ready", "Discovering"}) \/ ~room
                    THEN createPeerConnection(m, x, 0, fails, refused)
                    ELSE n
      BY <1>8 DEF onSessionOpened
    <2>2. Keeps(main, m) /\ m \in Main /\ m.enabled = main.enabled
      BY <1>1, StartedKeeps DEF Keeps
    <2> HIDE DEF m
    <2>3. ASSUME main.enabled, m.gateway \in {"Ready", "Discovering"}, room PROVE n \in Main /\ Served(n)
      BY <2>2, <2>3, OpenedServes
    <2> HIDE DEF n, room
    <2>4. Keeps(main, startPeer(main, x, fails, refused))
      BY <1>1, StartCalm, CalmOn
    <2>5. Keeps(main, createPeerConnection(main, x, 0, fails, refused))
      BY <1>1, ConnectCalm, CalmOn
    <2>6. Keeps(main, createPeerConnection(m, x, 0, fails, refused))
      BY <2>2, ConnectCalm, CalmOn, KeepsOn
    <2>7. QED
      BY <1>3, <1>4, <2>1, <2>3, <2>4, <2>5, <2>6
  <1>9. ASSUME NEW x \in Sessions, ClaimWaitTimeout(x) \/ onSessionClosed(x) PROVE Waits'
    <2>1. Calm(main, main')
      BY <1>1, <1>9, StartCalm, DropCalm DEF ClaimWaitTimeout, onSessionClosed
    <2>2. QED
      BY <1>4, <2>1, CalmOn
  <1>10. ASSUME NEW s \in Slots, StreamClaims(s) PROVE Waits'
    BY <1>1, <1>4, <1>10, MediaClaimKeeps DEF StreamClaims
  <1>11. ASSUME NEW s \in Slots, releaseMediaPort(s) PROVE Waits'
    <2> DEFINE c == HeldFor(main, s)[1]
               h == Without(main.held, c)
               o == [main EXCEPT !.held = h]
               d == [do |-> "release", claim |-> c]
    <2>1. HeldFor(main, s) # <<>> /\ main' = [o EXCEPT !.out = Append(@, d)]
      BY <1>1, <1>11 DEF releaseMediaPort, Main
    <2>2. c \in Claim
      <3> DEFINE U == {k \in Claim : k.for = s}
                 w == HeldFor(main, s)
      <3>1. w \in Seq(U)
        BY <1>1, HeldForType DEF Purposes
      <3> HIDE DEF U, w
      <3>2. w # <<>> => w[1] \in U
        BY <3>1
      <3>3. QED
        BY <2>1, <3>2 DEF U, w
    <2> HIDE DEF c
    <2>3. h \in Seq(Claim)
      BY <1>1, WithoutSome DEF Main
    <2>4. d \in Message
      BY <2>2 DEF Message
    <2> HIDE DEF h, d
    <2>5. o \in Main /\ o.out = main.out /\ o.events = main.events /\ o.waiting = main.waiting
      BY <1>1, <2>3 DEF Main
    <2> HIDE DEF o
    <2>6. Keeps(o, main') /\ Keeps(main, o)
      BY <2>1, <2>4, <2>5, MessageKeeps, FieldsKeep
    <2>7. QED
      BY <1>4, <2>6, KeepsOn
  <1>12. QED
    BY <1>5, <1>6, <1>7, <1>8, <1>9, <1>10, <1>11

\* What the main thread is told, when an answer for the tunnel's claim comes it is
\* acted upon, and everything else leaves the claim where it is.
LEMMA EventStep == Waits /\ onEvent => Waits'
  <1> SUFFICES ASSUME Waits, onEvent
               PROVE  Waits'
    OBVIOUS
  <1> DEFINE e == Head(main.events)
             m == [main EXCEPT !.events = Tail(@)]
             ready == [m EXCEPT !.gateway = "Ready"]
             missing == [m EXCEPT !.gateway = "Missing"]
             hole == [m EXCEPT !.held = Append(@, [for |-> e.for, port |-> e.port])]
  <1>1. /\ main \in Main /\ core \in [up : BOOLEAN, held : SUBSET Claim] /\ Served(main)
        /\ core' = core /\ main.events # <<>>
    BY DEF Waits, Known, onEvent
  <1>2. ASSUME main' \in Main, Served(main') PROVE Waits'
    BY <1>1, <1>2 DEF Waits, Known, Served, inFlight
  <1>3. ASSUME Keeps(main, main') PROVE Waits'
    <2>1. main' \in Main /\ Served(main')
      BY <1>1, <1>3 DEF Keeps, Served
    <2>2. QED
      BY <1>2, <2>1
  <1>4. PICK fails, refused :
          main' = CASE e.ev = "discovered" /\ e.ok -> onGatewayReady(ready)
                    [] e.ev = "discovered" /\ ~e.ok -> giveUpWaiting(missing, fails, refused)
                    [] e.ev = "answer" -> Deliver(m, e.for, e.port, fails, refused)
                    [] e.ev = "lost" -> onRenewed(m, e.claims)
                    [] e.ev = "claimed" /\ m.gateway = "Missing" -> Deliver(m, e.for, 0, fails, refused)
                    [] e.ev = "claimed" /\ m.gateway # "Missing" ->
                          Deliver(IF e.port = 0 THEN m ELSE hole, e.for, e.port, fails, refused)
    BY DEF onEvent
  <1>5. /\ e \in Event /\ m \in Main
        /\ ~(e.ev \in {"claimed", "answer"} /\ e.for = Tunnel) => Keeps(main, m)
    BY <1>1, TakenOff
  <1>6. ASSUME e.ev \in {"claimed", "answer"}
        PROVE  e.for \in Purposes /\ e.port \in PortsOf(e.for) \cup {0}
    BY <1>5, <1>6 DEF Event
  <1>7. ASSUME e.ev \in {"claimed", "answer"}, NEW k \in Main, NEW port \in {0, e.port},
               main' = Deliver(k, e.for, port, fails, refused),
               e.for # Tunnel => Keeps(main, k)
        PROVE  Waits'
    <2>1. CASE e.for = Tunnel
      <3>1. port \in TunnelPorts \cup {0}
        BY <1>6, <1>7, <2>1 DEF PortsOf
      <3>2. main' = TunnelClaimed(k, port, fails, refused)
        BY <1>7, <2>1 DEF Deliver
      <3>3. QED
        BY <1>2, <1>7, <3>1, <3>2, AnsweredServes
    <2>2. CASE e.for # Tunnel
      BY <1>3, <1>7, <2>2 DEF Deliver
    <2>3. QED
      BY <2>1, <2>2
  <1> HIDE DEF e, m, ready, missing, hole
  <1>8. CASE e.ev = "discovered"
    <2>1. Keeps(main, m)
      BY <1>5, <1>8
    <2>2. /\ ready \in Main /\ ready.out = m.out /\ ready.events = m.events /\ ready.waiting = m.waiting
          /\ missing \in Main
      BY <1>5 DEF ready, missing, Main
    <2>3. Keeps(main, onGatewayReady(ready))
      BY <2>1, <2>2, ReadyKeeps, FieldsKeep, KeepsOn
    <2>4. main' \in {onGatewayReady(ready), giveUpWaiting(missing, fails, refused)}
      BY <1>4, <1>8
    <2>5. giveUpWaiting(missing, fails, refused) \in Main /\ Served(giveUpWaiting(missing, fails, refused))
      BY <2>2, GivenUp DEF Served
    <2>6. QED
      BY <1>2, <1>3, <2>3, <2>4, <2>5
  <1>9. CASE e.ev = "answer"
    <2>1. main' = Deliver(m, e.for, e.port, fails, refused)
      BY <1>4, <1>9
    <2>2. QED
      BY <1>5, <1>7, <1>9, <2>1
  <1>10. CASE e.ev = "lost"
    <2>1. main' = onRenewed(m, e.claims)
      BY <1>4, <1>10
    <2>2. e.claims \in SUBSET Claim
      BY <1>5, <1>10 DEF Event
    <2>3. Keeps(main, m)
      BY <1>5, <1>10
    <2>4. QED
      BY <1>3, <1>5, <2>1, <2>2, <2>3, RenewedKeeps, KeepsOn
  <1>11. CASE e.ev = "claimed"
    <2>1. CASE m.gateway = "Missing"
      <3>1. main' = Deliver(m, e.for, 0, fails, refused)
        BY <1>4, <1>11, <2>1
      <3>2. QED
        BY <1>5, <1>7, <1>11, <3>1
    <2>2. CASE m.gateway # "Missing" /\ e.port = 0
      <3>1. main' = Deliver(m, e.for, e.port, fails, refused)
        BY <1>4, <1>11, <2>2
      <3>2. QED
        BY <1>5, <1>7, <1>11, <3>1
    <2>3. CASE m.gateway # "Missing" /\ e.port # 0
      <3>1. main' = Deliver(hole, e.for, e.port, fails, refused)
        BY <1>4, <1>11, <2>3
      <3> DEFINE c == [for |-> e.for, port |-> e.port]
                 h == Append(m.held, c)
      <3>2. c \in Claim
        BY <1>6, <1>11, <2>3 DEF Claim, PortsOf, Ports
      <3>3. hole = [m EXCEPT !.held = h]
        BY <1>5 DEF hole, Main
      <3> HIDE DEF c
      <3>4. h \in Seq(Claim)
        BY <1>5, <3>2 DEF Main
      <3> HIDE DEF h
      <3>5. hole \in Main /\ hole.out = m.out /\ hole.events = m.events /\ hole.waiting = m.waiting
        BY <1>5, <3>3, <3>4 DEF Main
      <3>6. e.for # Tunnel => Keeps(main, hole)
        BY <1>5, <3>5, FieldsKeep, KeepsOn
      <3>7. QED
        BY <1>7, <1>11, <3>1, <3>5, <3>6
    <2>4. QED
      BY <2>1, <2>2, <2>3
  <1>12. e.ev \in {"discovered", "answer", "lost", "claimed"}
    BY <1>5 DEF Event
  <1>13. QED
    BY <1>8, <1>9, <1>10, <1>11, <1>12

\* The worker thread answers every message, and a claim's answer is queued in the
\* step that takes the claim off.
LEMMA WorkerSteps == Waits /\ (start \/ claim \/ release \/ renew) => Waits'
  <1> SUFFICES ASSUME Waits, start \/ claim \/ release \/ renew
               PROVE  Waits'
    OBVIOUS
  <1>1. main \in Main /\ core \in [up : BOOLEAN, held : SUBSET Claim] /\ Served(main)
    BY DEF Waits, Known
  <1>2. ASSUME Keeps(main, main'), core' \in [up : BOOLEAN, held : SUBSET Claim] PROVE Waits'
    <2>1. main' \in Main /\ Served(main')
      BY <1>1, <1>2 DEF Keeps, Served
    <2>2. QED
      BY <1>2, <2>1 DEF Waits, Known, Served, inFlight
  <1>3. CASE start
    <2>1. PICK ok \in BOOLEAN : core' = [core EXCEPT !.up = ok] /\ Post([ev |-> "discovered", ok |-> ok])
      BY <1>3 DEF start
    <2> DEFINE e == [ev |-> "discovered", ok |-> ok]
    <2>2. e \in Event
      BY DEF Event
    <2>3. main.out # <<>> /\ Head(main.out).do # "claim"
      BY <1>3 DEF start
    <2>4. main' = [main EXCEPT !.out = Tail(@), !.events = Append(@, e)]
      BY <2>1 DEF Post
    <2> HIDE DEF e
    <2>5. Keeps(main, main')
      BY <1>1, <2>2, <2>3, <2>4, PostKeeps
    <2>6. core' \in [up : BOOLEAN, held : SUBSET Claim]
      BY <1>1, <2>1
    <2>7. QED
      BY <1>2, <2>5, <2>6
  <1>4. CASE claim
    <2> DEFINE f == Head(main.out).for
               e(p) == [ev |-> "claimed", for |-> f, port |-> p]
    <2>1. main.out # <<>> /\ Head(main.out).do = "claim"
      BY <1>4 DEF claim
    <2>2. f \in Purposes
      <3>1. Head(main.out) \in Message
        <4>1. main.out \in Seq(Message)
          BY <1>1 DEF Main
        <4>2. QED
          BY <2>1, <4>1
      <3>2. QED
        BY <2>1, <3>1 DEF Message
    <2>3. ASSUME NEW p \in PortsOf(f) \cup {0}, Post(e(p)) PROVE Keeps(main, main')
      <3>1. e(p) \in Event
        BY <2>2 DEF Event, PortsOf, Ports
      <3>2. main' = [main EXCEPT !.out = Tail(@), !.events = Append(@, e(p))]
        BY <2>3 DEF Post
      <3>3. Head(main.out).for = Tunnel => e(p).ev = "claimed" /\ e(p).for = Tunnel
        OBVIOUS
      <3> HIDE DEF e
      <3>4. QED
        BY <1>1, <2>1, <3>1, <3>2, <3>3, PostKeeps
    <2>4. CASE Post(e(0)) /\ core' = core
      BY <1>1, <1>2, <2>3, <2>4
    <2>5. CASE \E p \in Candidates(f) :
                  Post(e(p)) /\ core' = [core EXCEPT !.held = @ \cup {[for |-> f, port |-> p]}]
      <3>1. PICK p \in Candidates(f) :
                  Post(e(p)) /\ core' = [core EXCEPT !.held = @ \cup {[for |-> f, port |-> p]}]
        BY <2>5
      <3>2. p \in PortsOf(f)
        BY DEF Candidates
      <3>3. [for |-> f, port |-> p] \in Claim
        BY <2>2, <3>2 DEF Claim, PortsOf, Ports
      <3>4. core' \in [up : BOOLEAN, held : SUBSET Claim]
        BY <1>1, <3>1, <3>3
      <3>5. QED
        BY <1>2, <2>3, <3>1, <3>2, <3>4
    <2>6. QED
      BY <1>4, <2>4, <2>5 DEF claim
  <1>5. CASE release
    <2> DEFINE c == Head(main.out).claim
    <2>1. main.out # <<>> /\ Head(main.out).do # "claim" /\ main' = [main EXCEPT !.out = Tail(@)]
      BY <1>5 DEF release
    <2>2. core' = [core EXCEPT !.held = @ \ {c}]
      BY <1>5 DEF release
    <2> HIDE DEF c
    <2>3. core' \in [up : BOOLEAN, held : SUBSET Claim]
      BY <1>1, <2>2
    <2>4. QED
      BY <1>1, <1>2, <2>1, <2>3, DroppedKeeps
  <1>6. CASE renew
    <2>1. PICK lost \in SUBSET core.held :
               /\ core' = [core EXCEPT !.held = @ \ lost]
               /\ main' = IF lost = {} THEN main
                          ELSE [main EXCEPT !.events = Append(@, [ev |-> "lost", claims |-> lost])]
      BY <1>6 DEF renew
    <2> DEFINE e == [ev |-> "lost", claims |-> lost]
    <2>2. e \in Event
      BY <1>1 DEF Event
    <2> HIDE DEF e
    <2>3. Keeps(main, [main EXCEPT !.events = Append(@, e)]) /\ Keeps(main, main)
      BY <1>1, <2>2, EventKeeps, KeepsOn
    <2>4. Keeps(main, main')
      BY <2>1, <2>3 DEF e
    <2>5. core' \in [up : BOOLEAN, held : SUBSET Claim]
      BY <1>1, <2>1
    <2>6. QED
      BY <1>2, <2>4, <2>5
  <1>7. QED
    BY <1>3, <1>4, <1>5, <1>6

\* Every step.
LEMMA StepWaits == Waits /\ [Next]_vars => Waits'
  <1> SUFFICES ASSUME Waits, [Next]_vars
               PROVE  Waits'
    OBVIOUS
  <1>1. ASSUME main' = main, core' = core PROVE Waits'
    BY <1>1 DEF Waits, Known, Served, inFlight
  <1>2. ASSUME NEW p \in Ports, Neighbour(p) PROVE Waits'
    BY <1>1, <1>2 DEF Neighbour
  <1>3. CASE UNCHANGED vars
    BY <1>1, <1>3 DEF vars
  <1>4. CASE Next
    BY <1>2, <1>4, MainSteps, EventStep, WorkerSteps DEF Next
  <1>5. QED
    BY <1>3, <1>4

\* At the start nobody waits.
LEMMA InitWaits == Init => Waits
  <1> SUFFICES ASSUME Init
               PROVE  Waits
    OBVIOUS
  <1> DEFINE ps == [x \in Sessions |-> [at |-> "new", port |-> 0]]
  <1>1. /\ main = [gateway |-> "Unknown", enabled |-> TRUE, held |-> <<>>, out |-> <<>>, events |-> <<>>,
                   free |-> <<>>, waiting |-> <<>>, peers |-> ps]
        /\ core = [up |-> FALSE, held |-> {}]
    BY DEF Init
  <1>2. ps \in [Sessions -> [at : {"new", "waiting", "up", "gone"}, port : TunnelPorts \cup {0}]]
    OBVIOUS
  <1> HIDE DEF ps
  <1>3. main \in Main /\ main.waiting = <<>>
    BY <1>1, <1>2 DEF Main
  <1>4. QED
    BY <1>1, <1>3 DEF Waits, Known, Served

-----------------------------------------------------------------------------
(***************************************************************************)
(* Who has which hole of the tunnel.                                       *)
(***************************************************************************)

\* Nothing is on the list twice.
Distinct(s) == \A c : Once(s, c)

\* Every hole of the tunnel that is held is free or some browser's, but for `port',
\* and the browsers that wait are those on the list and those of W.
Handed(m, W, port) ==
    /\ Distinct(m.free) /\ Distinct(m.waiting)
    /\ \A y \in Sessions : m.peers[y].at = "waiting" <=> y \in ToSet(m.waiting) \cup W
    /\ \A y \in Sessions : m.peers[y].at # "up" => m.peers[y].port = 0
    /\ ToSet(m.free) \subseteq HeldPorts(m)
    /\ HeldPorts(m) \subseteq ToSet(m.free) \cup Bound(m) \cup {port}

\* From m to n the browser x waits no longer, and the other browsers are left alone.
Leaves(m, n, W, x) ==
    /\ Handed(n, W \ {x}, 0)
    /\ ToSet(n.waiting) = ToSet(m.waiting) \ {x}
    /\ \A y \in Sessions \ {x} : n.peers[y] = m.peers[y]

\* What is removed is gone, and nothing else.
LEMMA WithoutThose ==
  ASSUME NEW T, NEW s \in Seq(T), NEW x
  PROVE  /\ Without(s, x) \in Seq(T)
         /\ ToSet(Without(s, x)) = ToSet(s) \ {x}
         /\ \A c : Once(s, c) => Once(Without(s, x), c)
  <1> DEFINE S == ToSet(s) \ {x}
             w == Only(s, S)
  <1>1. ToSet(w) = ToSet(s) \cap S /\ \A c : Once(s, c) => Once(w, c)
    BY OnlyThose
  <1>2. Without(s, x) = w
    BY DEF Without
  <1>3. ToSet(s) \cap S = ToSet(s) \ {x}
    OBVIOUS
  <1> HIDE DEF w, S
  <1>4. QED
    BY <1>1, <1>2, <1>3, WithoutSome

\* HeldFor finds the holes for a purpose.
LEMMA HeldForThose ==
  ASSUME NEW m \in Main, NEW f
  PROVE  ToSet(HeldFor(m, f)) = {c \in ToSet(m.held) : c.for = f}
  <1>1. m.held \in Seq(Claim)
    BY DEF Main
  <1>2. QED
    BY <1>1, OnlyThose DEF HeldFor

\* The ports of the tunnel that are held.
LEMMA HeldPortsThose ==
  ASSUME NEW m \in Main
  PROVE  HeldPorts(m) = {c.port : c \in {d \in ToSet(m.held) : d.for = Tunnel}}
  BY HeldForThose DEF HeldPorts

\* The first of a list and the others.
LEMMA TailThose ==
  ASSUME NEW T, NEW s \in Seq(T), s # <<>>
  PROVE  /\ Head(s) \in T /\ Tail(s) \in Seq(T)
         /\ ToSet(s) = {Head(s)} \cup ToSet(Tail(s))
         /\ \A c : Once(s, c) => Once(Tail(s), c)
         /\ Once(s, Head(s)) => Head(s) \notin ToSet(Tail(s))
  <1> DEFINE t == Tail(s)
             n == Len(t)
  <1>1. /\ Head(s) \in T /\ t \in Seq(T) /\ Head(s) = s[1] /\ Len(s) = n + 1 /\ n \in Nat
        /\ \A i \in 1..n : t[i] = s[i + 1]
    OBVIOUS
  <1>2. /\ \A c : c \in ToSet(s) <=> \E i \in 1..Len(s) : s[i] = c
        /\ \A c : c \in ToSet(t) <=> \E i \in 1..n : t[i] = c
    BY <1>1, Somewhere
  <1>3. /\ \A i \in 1..n : i + 1 \in 1..Len(s) /\ i + 1 # 1
        /\ \A i \in 1..Len(s) : i = 1 \/ (i - 1 \in 1..n /\ s[i] = t[i - 1])
        /\ 1 \in 1..Len(s)
    BY <1>1
  <1> HIDE DEF t, n
  <1>4. ToSet(s) = {Head(s)} \cup ToSet(t)
    <2>1. ASSUME NEW c \in ToSet(s) PROVE c = Head(s) \/ c \in ToSet(t)
      <3>1. PICK i \in 1..Len(s) : s[i] = c
        BY <1>2
      <3>2. QED
        BY <1>1, <1>2, <1>3, <3>1
    <2>2. ASSUME NEW c \in ToSet(t) PROVE c \in ToSet(s)
      <3>1. PICK i \in 1..n : t[i] = c
        BY <1>2
      <3>2. i + 1 \in 1..Len(s) /\ s[i + 1] = c
        BY <1>1, <1>3, <3>1
      <3>3. QED
        BY <1>2, <3>2
    <2>3. Head(s) \in ToSet(s)
      BY <1>1, <1>2, <1>3
    <2>4. QED
      BY <2>1, <2>2, <2>3
  <1>5. ASSUME NEW c, Once(s, c) PROVE Once(t, c)
    <2>1. ASSUME NEW i \in 1..n, NEW j \in 1..n, t[i] = c, t[j] = c PROVE i = j
      <3>1. i + 1 = j + 1
        BY <1>1, <1>3, <1>5, <2>1 DEF Once
      <3>2. QED
        BY <1>1, <3>1
    <2>2. QED
      BY <2>1 DEF Once, n
  <1>6. ASSUME Once(s, Head(s)) PROVE Head(s) \notin ToSet(t)
    BY <1>1, <1>2, <1>3, <1>6 DEF Once
  <1>7. QED
    BY <1>1, <1>4, <1>5, <1>6 DEF t

\* A port is given back: it is free, or it is not held any more.
LEMMA ReleaseHands ==
  ASSUME NEW m \in Main, NEW W, NEW port, Handed(m, W, port)
  PROVE  LET n == releaseTunnelPort(m, port)
         IN  Handed(n, W, 0) /\ n.peers = m.peers /\ n.waiting = m.waiting
  <1>1. CASE port = 0 \/ port \in ToSet(m.free) \/ port \notin HeldPorts(m)
    BY <1>1 DEF releaseTunnelPort, Handed
  <1>2. CASE ~(port = 0 \/ port \in ToSet(m.free) \/ port \notin HeldPorts(m))
    <2> DEFINE q == Append(m.free, port)
               n == [m EXCEPT !.free = q]
    <2>1. port \in TunnelPorts /\ m.free \in Seq(TunnelPorts)
      BY <1>2, HeldForType DEF Purposes, Main
    <2>2. ToSet(q) = ToSet(m.free) \cup {port} /\ (Distinct(m.free) => Distinct(q))
      BY <1>2, <2>1, OneMore DEF Distinct
    <2>3. releaseTunnelPort(m, port) = n
      BY <1>2 DEF releaseTunnelPort
    <2> HIDE DEF q
    <2>4. n.free = q /\ n.held = m.held /\ n.peers = m.peers /\ n.waiting = m.waiting
      BY DEF Main
    <2> HIDE DEF n
    <2>5. HeldPorts(n) = HeldPorts(m) /\ Bound(n) = Bound(m)
      BY <2>4 DEF HeldPorts, HeldFor, Bound
    <2>6. QED
      BY <1>2, <2>2, <2>3, <2>4, <2>5 DEF Handed
  <1>3. QED
    BY <1>1, <1>2

\* A browser that is up has the port it got.
LEMMA UpHands ==
  ASSUME NEW m \in Main, NEW W, NEW x \in Sessions, NEW port \in TunnelPorts \cup {0},
         Handed(m, W, port), x \notin ToSet(m.waiting), m.peers[x].at # "up"
  PROVE  Leaves(m, [m EXCEPT !.peers[x] = [at |-> "up", port |-> port]], W, x)
  <1> DEFINE k == [at |-> "up", port |-> port]
             ps == [m.peers EXCEPT ![x] = k]
             n == [m EXCEPT !.peers = ps]
  <1>1. /\ ps[x].at = "up" /\ ps[x].port = port
        /\ \A y \in Sessions \ {x} : ps[y] = m.peers[y]
    BY DEF Main
  <1> HIDE DEF ps
  <1>2. /\ n.peers = ps /\ n.free = m.free /\ n.held = m.held /\ n.waiting = m.waiting
    BY DEF Main
  <1>3. [m EXCEPT !.peers[x] = [at |-> "up", port |-> port]] = n
    BY DEF ps
  <1> HIDE DEF n, k
  <1>4. HeldPorts(n) = HeldPorts(m)
    BY <1>2 DEF HeldPorts, HeldFor
  <1>5. Bound(m) \subseteq Bound(n) /\ (port # 0 => port \in Bound(n))
    BY <1>1, <1>2 DEF Bound
  <1>6. Handed(n, W \ {x}, 0)
    BY <1>1, <1>2, <1>4, <1>5 DEF Handed
  <1>7. ToSet(n.waiting) = ToSet(m.waiting) \ {x}
    BY <1>2
  <1>8. QED
    BY <1>1, <1>2, <1>3, <1>6, <1>7 DEF Leaves

\* A browser that goes gives its port back.
LEMMA DropHands ==
  ASSUME NEW m \in Main, NEW W, NEW x \in Sessions, Handed(m, W, 0)
  PROVE  Leaves(m, dropPeer(m, x), W, x)
  <1> DEFINE w == Without(m.waiting, x)
             k == [at |-> "gone", port |-> 0]
             ps == [m.peers EXCEPT ![x] = k]
             n == [m EXCEPT !.peers = ps, !.waiting = w]
             p == m.peers[x].port
  <1>1. /\ w \in Seq(Sessions) /\ ToSet(w) = ToSet(m.waiting) \ {x}
        /\ \A c : Once(m.waiting, c) => Once(w, c)
    BY WithoutThose DEF Main
  <1>2. ps \in [Sessions -> [at : {"new", "waiting", "up", "gone"}, port : TunnelPorts \cup {0}]]
    BY DEF Main
  <1>3. /\ ps[x].at = "gone" /\ ps[x].port = 0
        /\ \A y \in Sessions \ {x} : ps[y] = m.peers[y]
    BY DEF Main
  <1>4. dropPeer(m, x) = releaseTunnelPort(n, p)
    BY DEF dropPeer
  <1> HIDE DEF w, ps
  <1>5. n \in Main /\ n.peers = ps /\ n.free = m.free /\ n.held = m.held /\ n.waiting = w
    BY <1>1, <1>2 DEF Main
  <1> HIDE DEF n, k
  <1>6. HeldPorts(n) = HeldPorts(m)
    BY <1>5 DEF HeldPorts, HeldFor
  <1>7. Bound(m) \subseteq Bound(n) \cup {p}
    BY <1>3, <1>5 DEF Bound
  <1>8. 0 \notin HeldPorts(m)
    BY HeldForType, PortAssumption DEF Purposes, Ports
  <1> HIDE DEF p
  <1>9. Handed(n, W \ {x}, p)
    BY <1>1, <1>3, <1>5, <1>6, <1>7, <1>8 DEF Handed, Distinct
  <1> DEFINE o == releaseTunnelPort(n, p)
  <1>10. Handed(o, W \ {x}, 0) /\ o.peers = ps /\ o.waiting = w
    BY <1>5, <1>9, ReleaseHands
  <1> HIDE DEF o
  <1>11. QED
    BY <1>1, <1>3, <1>4, <1>10 DEF o, Leaves

\* The connection of a browser that was not up takes the port or gives it back.
LEMMA ConnectHands ==
  ASSUME NEW m \in Main, NEW W, NEW x \in Sessions, NEW port \in TunnelPorts \cup {0},
         NEW fails, NEW refused,
         Handed(m, W, port), x \notin ToSet(m.waiting), m.peers[x].at # "up"
  PROVE  Leaves(m, createPeerConnection(m, x, port, fails, refused), W, x)
  <1> DEFINE back == releaseTunnelPort(m, port)
             up(k, p) == [k EXCEPT !.peers[x] = [at |-> "up", port |-> p]]
             drop == dropPeer(back, x)
  <1>1. Leaves(m, up(m, port), W, x)
    BY UpHands
  <1>2. back \in Main
    BY ReleaseCalm DEF Calm
  <1>3. Handed(back, W, 0) /\ back.peers = m.peers /\ back.waiting = m.waiting
    BY ReleaseHands
  <1>4. createPeerConnection(m, x, port, fails, refused) \in {up(m, port), drop, up(back, 0)}
    BY DEF createPeerConnection
  <1> HIDE DEF back
  <1>5. Leaves(back, up(back, 0), W, x)
    BY <1>2, <1>3, UpHands
  <1>6. Leaves(back, drop, W, x)
    BY <1>2, <1>3, DropHands
  <1> HIDE DEF up, drop
  <1>7. \A n : Leaves(back, n, W, x) => Leaves(m, n, W, x)
    BY <1>3 DEF Leaves
  <1>8. QED
    BY <1>1, <1>4, <1>5, <1>6, <1>7

\* A browser that was not up waits no longer.
LEMMA StartHands ==
  ASSUME NEW m \in Main, NEW W, NEW x \in Sessions, NEW fails, NEW refused,
         Handed(m, W, 0), m.peers[x].at # "up"
  PROVE  Leaves(m, startPeer(m, x, fails, refused), W, x)
  <1> DEFINE w == Without(m.waiting, x)
             off == [m EXCEPT !.waiting = w]
             t == Tail(m.free)
             one == [off EXCEPT !.free = t]
             V == IF m.peers[x].at = "waiting" THEN W \cup {x} ELSE W \ {x}
             n == startPeer(m, x, fails, refused)
  <1>1. /\ w \in Seq(Sessions) /\ ToSet(w) = ToSet(m.waiting) \ {x}
        /\ \A c : Once(m.waiting, c) => Once(w, c)
    BY WithoutThose DEF Main
  <1>2. m.free \in Seq(TunnelPorts)
    BY DEF Main
  <1>3. V \ {x} = W \ {x}
    OBVIOUS
  <1>4. n = IF m.free = <<>> THEN createPeerConnection(off, x, 0, fails, refused)
            ELSE createPeerConnection(one, x, Head(m.free), fails, refused)
    BY DEF startPeer, Main
  <1> HIDE DEF w, n
  <1>5. /\ off \in Main /\ off.free = m.free /\ off.held = m.held /\ off.peers = m.peers /\ off.waiting = w
    BY <1>1 DEF Main
  <1> HIDE DEF off
  <1>6. HeldPorts(off) = HeldPorts(m) /\ Bound(off) = Bound(m)
    BY <1>5 DEF HeldPorts, HeldFor, Bound
  <1>7. \A y \in Sessions : off.peers[y].at = "waiting" <=> y \in ToSet(w) \cup V
    BY <1>1, <1>5 DEF Handed
  <1> HIDE DEF V
  <1>8. Handed(off, V, 0)
    BY <1>1, <1>5, <1>6, <1>7 DEF Handed, Distinct
  <1>9. \A o : Leaves(o, n, V, x) /\ o.waiting = w /\ o.peers = m.peers => Leaves(m, n, W, x)
    BY <1>1, <1>3 DEF Leaves
  <1>10. CASE m.free = <<>>
    <2>1. x \notin ToSet(off.waiting) /\ off.peers[x].at # "up"
      BY <1>1, <1>5
    <2>2. Leaves(off, n, V, x)
      BY <1>4, <1>5, <1>8, <1>10, <2>1, ConnectHands
    <2>3. QED
      BY <1>5, <1>9, <2>2 DEF n
  <1>11. CASE m.free # <<>>
    <2> DEFINE p == Head(m.free)
    <2>1. /\ p \in TunnelPorts /\ t \in Seq(TunnelPorts) /\ ToSet(m.free) = {p} \cup ToSet(t)
          /\ \A c : Once(m.free, c) => Once(t, c)
      BY <1>2, <1>11, TailThose
    <2>2. n = createPeerConnection(one, x, p, fails, refused)
      BY <1>4, <1>11
    <2> HIDE DEF p, t
    <2>3. /\ one \in Main /\ one.free = t /\ one.held = m.held /\ one.peers = m.peers /\ one.waiting = w
      BY <1>5, <2>1 DEF Main
    <2> HIDE DEF one
    <2>4. HeldPorts(one) = HeldPorts(m) /\ Bound(one) = Bound(m)
      BY <2>3 DEF HeldPorts, HeldFor, Bound
    <2>5. Handed(one, V, p)
      <3>1. Distinct(t)
        BY <2>1 DEF Handed, Distinct
      <3>2. \A y \in Sessions : one.peers[y].at # "up" => one.peers[y].port = 0
        BY <2>3 DEF Handed
      <3>3. Distinct(w)
        BY <1>1 DEF Handed, Distinct
      <3>4. \A y \in Sessions : one.peers[y].at = "waiting" <=> y \in ToSet(w) \cup V
        BY <1>5, <1>7, <2>3
      <3>5. ToSet(t) \subseteq HeldPorts(m) /\ HeldPorts(m) \subseteq ToSet(t) \cup Bound(m) \cup {p}
        <4>1. 0 \notin HeldPorts(m)
          BY HeldForType, PortAssumption DEF Purposes, Ports
        <4>2. QED
          BY <2>1, <4>1 DEF Handed
      <3>6. QED
        BY <2>3, <2>4, <3>1, <3>2, <3>3, <3>4, <3>5 DEF Handed
    <2>6. x \notin ToSet(one.waiting) /\ one.peers[x].at # "up" /\ p \in TunnelPorts \cup {0}
      BY <1>1, <2>1, <2>3
    <2>7. Leaves(one, n, V, x)
      BY <2>2, <2>3, <2>5, <2>6, ConnectHands
    <2>8. QED
      BY <1>9, <2>3, <2>7 DEF n
  <1>12. QED
    BY <1>10, <1>11

\* Those who are given up were all on the list.
LEMMA GiveUpHands ==
  ASSUME NEW m \in Main, NEW fails, NEW refused, Handed(m, {}, 0)
  PROVE  Handed(giveUpWaiting(m, fails, refused), {}, 0)
  <1> DEFINE n == Len(m.waiting)
             later(i) == {m.waiting[j] : j \in {l \in 1..n : l > i}}
  <1>1. PICK g : GivesUp(m, fails, refused, g) /\ giveUpWaiting(m, fails, refused) = g[n]
    BY GiveUpTurns
  <1>2. n \in Nat /\ m.waiting \in Seq(Sessions) /\ \A i \in 1..n : m.waiting[i] \in Sessions
    BY DEF Main
  <1>3. later(0) = ToSet(m.waiting) /\ later(n) = {}
    BY <1>2, Somewhere
  <1>4. ASSUME NEW i \in 1..n
        PROVE  later(i - 1) \ {m.waiting[i]} = later(i) /\ m.waiting[i] \in later(i - 1)
    <2>1. \A j \in 1..n : m.waiting[i] = m.waiting[j] => i = j
      BY DEF Handed, Distinct, Once
    <2>2. \A j \in 1..n : j > i - 1 <=> (j > i \/ j = i)
      BY <1>2
    <2>3. QED
      BY <1>2, <2>1, <2>2
  <1> DEFINE I == {i \in 0..n : Handed(g[i], later(i), 0)}
  <1> HIDE DEF later
  <1>5. 0 \in I
    <2> DEFINE b == [m EXCEPT !.waiting = <<>>]
    <2>1. /\ b.free = m.free /\ b.held = m.held /\ b.peers = m.peers /\ b.waiting = <<>>
      BY DEF Main
    <2>2. g[0] = b /\ 0 \in 0..n
      BY <1>1, <1>2 DEF GivesUp
    <2> HIDE DEF b
    <2>3. HeldPorts(b) = HeldPorts(m) /\ Bound(b) = Bound(m)
      BY <2>1 DEF HeldPorts, HeldFor, Bound
    <2>4. Distinct(<<>>) /\ ToSet(<<>>) = {}
      BY DEF Distinct, Once, ToSet
    <2>5. Handed(b, later(0), 0)
      BY <1>3, <2>1, <2>3, <2>4 DEF Handed
    <2>6. QED
      BY <2>2, <2>5
  <1>6. ASSUME NEW i \in 1..n, i - 1 \in I PROVE i \in I
    <2> DEFINE x == m.waiting[i]
               k == g[i - 1]
    <2>1. i - 1 \in 0..n /\ i \in 0..n /\ Handed(k, later(i - 1), 0)
      BY <1>2, <1>6
    <2>2. k \in Main /\ g[i] = startPeer(k, x, fails, refused)
      BY <1>1, <2>1 DEF GivesUp, n
    <2>3. x \in Sessions /\ k.peers[x].at = "waiting"
      BY <1>2, <1>4, <2>1 DEF Handed
    <2> HIDE DEF x, k
    <2>4. Handed(startPeer(k, x, fails, refused), later(i - 1) \ {x}, 0)
      BY <2>1, <2>2, <2>3, StartHands DEF Leaves
    <2>5. later(i - 1) \ {x} = later(i)
      BY <1>4 DEF x
    <2>6. QED
      BY <2>1, <2>2, <2>4, <2>5
  <1>7. n \in 0..n /\ \A i \in I : Handed(g[i], later(i), 0)
    BY <1>2
  <1> HIDE DEF I, n
  <1>8. Handed(g[n], later(n), 0)
    BY <1>2, <1>5, <1>6, <1>7, Upward
  <1>9. QED
    BY <1>1, <1>3, <1>8

\* Those who are served are the first on the list.
LEMMA ServeHands ==
  ASSUME NEW m \in Main, NEW fails, NEW refused, Handed(m, {}, 0)
  PROVE  Handed(serveWaitingPeers(m, fails, refused), {}, 0)
  <1> DEFINE n == Len(m.waiting)
             Good(i, k) == /\ Handed(k, {}, 0)
                           /\ \A j \in 1..n : j > i => k.peers[m.waiting[j]].at = "waiting"
  <1>1. PICK g : Serves(m, fails, refused, g) /\ serveWaitingPeers(m, fails, refused) = g[n]
    BY ServeTurns
  <1>2. n \in Nat /\ m.waiting \in Seq(Sessions) /\ \A i \in 1..n : m.waiting[i] \in Sessions
    BY DEF Main
  <1>3. \A i, j \in 1..n : m.waiting[i] = m.waiting[j] => i = j
    BY DEF Handed, Distinct, Once
  <1> DEFINE I == {i \in 0..n : Good(i, g[i])}
  <1>4. 0 \in I
    <2>1. g[0] = m /\ 0 \in 0..n
      BY <1>1, <1>2 DEF Serves
    <2>2. \A j \in 1..n : m.waiting[j] \in ToSet(m.waiting)
      BY <1>2, Somewhere
    <2>3. \A j \in 1..n : m.peers[m.waiting[j]].at = "waiting"
      BY <1>2, <2>2 DEF Handed
    <2>4. QED
      BY <2>1, <2>3
  <1>5. ASSUME NEW i \in 1..n, i - 1 \in I PROVE i \in I
    <2> DEFINE x == m.waiting[i]
               k == g[i - 1]
               o == startPeer(k, x, fails, refused)
    <2>1. i - 1 \in 0..n /\ i \in 0..n /\ Good(i - 1, k)
      BY <1>2, <1>5
    <2>2. k \in Main /\ g[i] = IF k.free = <<>> THEN k ELSE o
      BY <1>1, <2>1 DEF Serves, n
    <2>3. \A j \in 1..n : j > i => j > i - 1 /\ j # i
      BY <1>2
    <2>4. Good(i, k)
      BY <2>1, <2>3
    <2>5. x \in Sessions /\ k.peers[x].at = "waiting"
      <3>1. i > i - 1
        BY <1>2
      <3>2. QED
        BY <1>2, <2>1, <3>1
    <2>6. \A j \in 1..n : j > i => m.waiting[j] \in Sessions \ {x}
      BY <1>2, <1>3, <2>3
    <2>7. Handed(k, {}, 0)
      BY <2>1
    <2> HIDE DEF x, k, Good
    <2>8. Leaves(k, o, {}, x)
      <3>1. k.peers[x].at # "up"
        BY <2>5
      <3>2. QED
        BY <2>2, <2>5, <2>7, <3>1, StartHands
    <2>9. /\ Handed(o, {}, 0)
          /\ \A y \in Sessions \ {x} : o.peers[y] = k.peers[y]
      BY <2>8 DEF Leaves
    <2> HIDE DEF o
    <2>10. Good(i, o)
      BY <2>4, <2>6, <2>9 DEF Good
    <2>11. QED
      BY <2>1, <2>2, <2>4, <2>10
  <1> HIDE DEF Good
  <1>6. n \in 0..n /\ \A i \in I : Good(i, g[i])
    BY <1>2
  <1> HIDE DEF I, n
  <1>7. Good(n, g[n])
    BY <1>2, <1>4, <1>5, <1>6, Upward
  <1>8. QED
    BY <1>1, <1>7 DEF Good

\* The allocator's own business: no hole and no browser is touched.
Same(m, n) == n.held = m.held /\ n.free = m.free /\ n.waiting = m.waiting /\ n.peers = m.peers

\* Who has which hole is a matter of those fields.
LEMMA SameHands ==
  ASSUME NEW m, NEW n, NEW W, NEW port, Same(m, n), Handed(m, W, port)
  PROVE  Handed(n, W, port)
  <1>1. HeldPorts(n) = HeldPorts(m) /\ Bound(n) = Bound(m)
    BY DEF Same, HeldPorts, HeldFor, Bound
  <1>2. QED
    BY <1>1 DEF Same, Handed

\* What the allocator's operators leave alone.
LEMMA AllocatorSame ==
  ASSUME NEW m \in Main
  PROVE  /\ Same(m, ensureStarted(m))
         /\ \A f, port : Same(m, answerLater(m, f, port))
         /\ \A f : Same(m, submit(m, f))
         /\ Same(m, requestTunnelPort(m))
         /\ \A s : Same(m, claimMediaPort(m, s))
         /\ Same(m, onGatewayReady(m))
  <1>1. ASSUME NEW k \in Main
        PROVE  /\ \A f, port : Same(k, answerLater(k, f, port))
               /\ \A f : Same(k, submit(k, f))
    <2>1. \A q : Same(k, [k EXCEPT !.events = q]) /\ Same(k, [k EXCEPT !.out = q])
      BY DEF Same, Main
    <2>2. QED
      BY <2>1 DEF answerLater, submit
  <1> DEFINE n == ensureStarted(m)
  <1>2. n \in Main /\ Same(m, n)
    BY StartedKeeps DEF Keeps, Same
  <1>3. \A j, k : Same(m, j) /\ Same(j, k) => Same(m, k)
    BY DEF Same
  <1>4. Same(m, m)
    BY DEF Same
  <1>5. Same(m, claimTunnelPort(m)) /\ \A s : Same(m, claimMediaPort(m, s))
    <2> HIDE DEF n
    <2>1. claimTunnelPort(m) \in {answerLater(n, Tunnel, 0), submit(n, Tunnel)}
      BY DEF claimTunnelPort, n
    <2>2. \A s : claimMediaPort(m, s) \in {answerLater(n, s, 0), answerLater(n, s, HeldFor(m, s)[1].port), submit(n, s)}
      BY DEF claimMediaPort, n
    <2>3. /\ \A f, port : Same(m, answerLater(n, f, port))
          /\ \A f : Same(m, submit(n, f))
      BY <1>1, <1>2, <1>3
    <2>4. QED
      BY <2>1, <2>2, <2>3
  <1>6. Same(m, requestTunnelPort(m))
    BY <1>4, <1>5 DEF requestTunnelPort
  <1>7. Same(m, onGatewayReady(m))
    BY <1>4, <1>6 DEF onGatewayReady
  <1>8. QED
    BY <1>1, <1>2, <1>5, <1>6, <1>7

\* A new hole is handed to those who wait, or is free.
LEMMA AnsweredHands ==
  ASSUME NEW m \in Main, NEW port \in TunnelPorts \cup {0}, NEW fails, NEW refused,
         Handed(m, {}, port), port # 0 => port \in HeldPorts(m) /\ port \notin ToSet(m.free)
  PROVE  Handed(TunnelClaimed(m, port, fails, refused), {}, 0)
  <1> DEFINE q == Append(m.free, port)
             more == [m EXCEPT !.free = q]
             served == serveWaitingPeers(more, fails, refused)
             asked == requestTunnelPort(served)
  <1>1. CASE port = 0
    BY <1>1, GiveUpHands DEF TunnelClaimed
  <1>2. CASE port # 0
    <2>1. q \in Seq(TunnelPorts) /\ ToSet(q) = ToSet(m.free) \cup {port} /\ (Distinct(m.free) => Distinct(q))
      <3>1. m.free \in Seq(TunnelPorts) /\ port \in TunnelPorts
        BY <1>2 DEF Main
      <3>2. QED
        BY <1>2, <3>1, OneMore DEF Distinct
    <2>2. TunnelClaimed(m, port, fails, refused) =
            IF served.waiting = <<>> THEN served
            ELSE IF inFlight(asked, Tunnel) THEN asked
            ELSE giveUpWaiting(asked, fails, refused)
      BY <1>2 DEF TunnelClaimed
    <2> HIDE DEF q
    <2>3. more \in Main /\ more.free = q /\ more.held = m.held /\ more.waiting = m.waiting /\ more.peers = m.peers
      BY <2>1 DEF Main
    <2> HIDE DEF more
    <2>4. HeldPorts(more) = HeldPorts(m) /\ Bound(more) = Bound(m)
      BY <2>3 DEF HeldPorts, HeldFor, Bound
    <2>5. Handed(more, {}, 0)
      BY <1>2, <2>1, <2>3, <2>4 DEF Handed
    <2>6. served \in Main /\ Handed(served, {}, 0)
      BY <2>3, <2>5, ServedOn, ServeHands DEF Calm
    <2> HIDE DEF served
    <2>7. asked \in Main /\ Handed(asked, {}, 0)
      BY <2>6, RequestKeeps, AllocatorSame, SameHands DEF Keeps
    <2> HIDE DEF asked
    <2>8. Handed(giveUpWaiting(asked, fails, refused), {}, 0)
      BY <2>7, GiveUpHands
    <2>9. QED
      BY <2>2, <2>6, <2>7, <2>8
  <1>3. QED
    BY <1>1, <1>2

\* A hole that is lost is no longer free, whoever has it.
LEMMA LostHands ==
  ASSUME NEW m \in Main, NEW c \in Claim, Handed(m, {}, 0)
  PROVE  /\ Handed(PortLost(m, c), {}, 0)
         /\ ToSet(PortLost(m, c).held) = ToSet(m.held) \ {c}
         /\ \A d : Once(m.held, d) => Once(PortLost(m, c).held, d)
  <1> DEFINE h == Without(m.held, c)
             w == Without(m.free, c.port)
             gone == [m EXCEPT !.held = h]
             off == [gone EXCEPT !.free = w]
  <1>1. /\ h \in Seq(Claim) /\ ToSet(h) = ToSet(m.held) \ {c} /\ \A d : Once(m.held, d) => Once(h, d)
        /\ w \in Seq(TunnelPorts) /\ ToSet(w) = ToSet(m.free) \ {c.port} /\ \A d : Once(m.free, d) => Once(w, d)
    BY WithoutThose DEF Main
  <1>2. PortLost(m, c) = IF c.for # Tunnel THEN gone
                         ELSE IF off.free = <<>> THEN requestTunnelPort(off) ELSE off
    BY DEF PortLost, Main
  <1> HIDE DEF h, w
  <1>3. /\ gone \in Main /\ gone.free = m.free /\ gone.held = h /\ gone.waiting = m.waiting
        /\ gone.peers = m.peers
    BY <1>1 DEF Main
  <1> HIDE DEF gone
  <1>4. /\ off \in Main /\ off.free = w /\ off.held = h /\ off.waiting = m.waiting /\ off.peers = m.peers
    BY <1>1, <1>3 DEF Main
  <1> HIDE DEF off
  <1>5. /\ HeldPorts(m) = {d.port : d \in {e \in ToSet(m.held) : e.for = Tunnel}}
        /\ HeldPorts(gone) = {d.port : d \in {e \in ToSet(h) : e.for = Tunnel}}
        /\ HeldPorts(off) = {d.port : d \in {e \in ToSet(h) : e.for = Tunnel}}
    BY <1>3, <1>4, HeldPortsThose
  <1>6. Bound(gone) = Bound(m) /\ Bound(off) = Bound(m)
    BY <1>3, <1>4 DEF Bound
  <1>7. CASE c.for # Tunnel
    <2>1. {e \in ToSet(h) : e.for = Tunnel} = {e \in ToSet(m.held) : e.for = Tunnel}
      BY <1>1, <1>7
    <2>2. HeldPorts(gone) = HeldPorts(m)
      BY <1>5, <2>1
    <2>3. Handed(gone, {}, 0)
      BY <1>3, <1>6, <2>2 DEF Handed
    <2>4. QED
      BY <1>1, <1>2, <1>3, <1>7, <2>3
  <1>8. CASE c.for = Tunnel
    <2>1. ToSet(m.held) \subseteq Claim
      BY Somewhere DEF Main
    <2>2. HeldPorts(off) = HeldPorts(m) \ {c.port}
      <3>1. ASSUME NEW d \in ToSet(m.held), d.for = Tunnel, d.port = c.port PROVE d = c
        BY <1>8, <2>1, <3>1 DEF Claim
      <3>2. QED
        BY <1>1, <1>5, <3>1
    <2>3. Distinct(w)
      BY <1>1 DEF Handed, Distinct
    <2>4. Handed(off, {}, 0)
      BY <1>1, <1>4, <1>6, <2>2, <2>3 DEF Handed
    <2> DEFINE o == requestTunnelPort(off)
    <2>5. Same(off, o)
      BY <1>4, AllocatorSame
    <2>6. Handed(o, {}, 0) /\ o.held = off.held
      BY <2>4, <2>5, SameHands DEF Same
    <2> HIDE DEF o
    <2>7. PortLost(m, c) \in {off, o}
      BY <1>2, <1>8 DEF o
    <2>8. QED
      BY <1>1, <1>4, <2>4, <2>6, <2>7
  <1>9. QED
    BY <1>7, <1>8

-----------------------------------------------------------------------------
(***************************************************************************)
(* The two lists of holes.  H is what the main thread holds, K what the    *)
(* worker thread holds, o the messages to it, q the calls it queued; gone  *)
(* are holes the main thread has been told are lost and has yet to forget. *)
(***************************************************************************)

\* A stream's hole may be gone once a release has crossed a claim.
Stale(c, x) == x /\ c.for # Tunnel

LostAt(q, i, c) == q[i].ev = "lost" /\ c \in q[i].claims
ComesAt(q, i, c) == q[i].ev = "claimed" /\ q[i].for = c.for /\ q[i].port = c.port
AnswersAt(q, i, f) == q[i].ev \in {"claimed", "answer"} /\ q[i].for = f
ReleasedAt(o, i, c) == o[i].do = "release" /\ o[i].claim = c
AsksAt(o, i, f) == o[i].do = "claim" /\ o[i].for = f

\* What the worker thread holds the main thread holds too, or it is told, or has
\* asked for its release.
Told(H, o, q, K, gone) ==
    \A c \in K :
       \/ \E i \in 1..Len(o) : ReleasedAt(o, i, c)
       \/ \E j \in 1..Len(q) : ComesAt(q, j, c) /\ \A i \in 1..Len(q) : i > j => ~LostAt(q, i, c)
       \/ c \in H /\ c \notin gone /\ \A i \in 1..Len(q) : ~LostAt(q, i, c)

\* What the main thread holds the worker thread holds too, or it is told that it is
\* lost.
Backed(H, q, K, gone, x) ==
    \A c \in H :
       c \in K \/ c \in gone \/ (\E i \in 1..Len(q) : LostAt(q, i, c)) \/ Stale(c, x)

\* The same of what it is about to hold.
Arriving(q, K, x) ==
    \A c \in Claim : \A j \in 1..Len(q) :
       ComesAt(q, j, c) => c \in K \/ (\E i \in 1..Len(q) : i > j /\ LostAt(q, i, c)) \/ Stale(c, x)

\* It is told of a hole that it holds only after the loss of that hole.
Fresh(H, q, gone, x) ==
    \A c \in Claim : \A j \in 1..Len(q) : ComesAt(q, j, c) /\ ~Stale(c, x) =>
       /\ c \notin H \/ c \in gone \/ \E i \in 1..Len(q) : i < j /\ LostAt(q, i, c)
       /\ \A h \in 1..Len(q) : h < j /\ ComesAt(q, h, c) =>
             \E i \in 1..Len(q) : h < i /\ i < j /\ LostAt(q, i, c)

\* A hole is released that no claim is under way for, unless the two crossed.
Parted(H, o, q, x) ==
    \A c \in Claim : \A i \in 1..Len(o) : ReleasedAt(o, i, c) =>
       /\ c.for # Tunnel
       /\ x \/ /\ c \notin H
               /\ \A j \in 1..Len(q) : ~ComesAt(q, j, c)
               /\ \A h \in 1..Len(o) : h < i => ~AsksAt(o, h, c.for)

\* The five together, of lists and sets that are of their types.
Listed(H, o, q, K, gone) ==
    /\ H \subseteq Claim /\ K \subseteq Claim /\ gone \subseteq Claim
    /\ o \in Seq(Message) /\ q \in Seq(Event)
Agree(H, o, q, K, gone, x) ==
    /\ Listed(H, o, q, K, gone)
    /\ Told(H, o, q, K, gone) /\ Backed(H, q, K, gone, x) /\ Arriving(q, K, x)
    /\ Fresh(H, q, gone, x) /\ Parted(H, o, q, x)

\* A call that says nothing of a hole.
Quiet(e) == e.ev # "lost" /\ ~(e.ev = "claimed" /\ e.port # 0)

\* A list and the same with one more at its end.
LEMMA Grown ==
  ASSUME NEW T, NEW s \in Seq(T), NEW e \in T
  PROVE  LET r == Append(s, e)
         IN  /\ r \in Seq(T) /\ Len(s) \in Nat /\ Len(r) = Len(s) + 1
             /\ r[Len(s) + 1] = e /\ \A i \in 1..Len(s) : r[i] = s[i]
             /\ \A i \in 1..Len(r) : i \in 1..Len(s) \/ i = Len(s) + 1
             /\ \A i \in 1..Len(s) : i \in 1..Len(r) /\ i < Len(s) + 1
             /\ Len(s) + 1 \in 1..Len(r)
  OBVIOUS

\* A list and the same without its first.
LEMMA Shorn ==
  ASSUME NEW T, NEW s \in Seq(T), s # <<>>
  PROVE  LET t == Tail(s)
         IN  /\ t \in Seq(T) /\ Len(t) \in Nat /\ Len(s) = Len(t) + 1
             /\ Head(s) \in T /\ s[1] = Head(s) /\ 1 \in 1..Len(s)
             /\ \A i \in 1..Len(t) : i + 1 \in 1..Len(s) /\ i + 1 # 1 /\ t[i] = s[i + 1]
             /\ \A i \in 1..Len(s) : i # 1 => i - 1 \in 1..Len(t) /\ t[i - 1] = s[i]
  OBVIOUS

\* A call about no hole is queued.
LEMMA QuietCall ==
  ASSUME NEW H, NEW o, NEW q, NEW K, NEW gone, NEW x, NEW e \in Event,
         Agree(H, o, q, K, gone, x), Quiet(e)
  PROVE  Agree(H, o, Append(q, e), K, gone, x)
  <1> DEFINE r == Append(q, e)
             n == Len(q)
  <1>1. /\ q \in Seq(Event) /\ r \in Seq(Event) /\ n \in Nat /\ Len(r) = n + 1
        /\ r[n + 1] = e /\ \A i \in 1..n : r[i] = q[i]
        /\ \A i \in 1..Len(r) : i \in 1..n \/ i = n + 1
        /\ \A i \in 1..n : i \in 1..Len(r)
    BY Grown DEF Agree, Listed
  <1> HIDE DEF r, n
  <1>2. /\ \A i \in 1..n : \A c : LostAt(r, i, c) <=> LostAt(q, i, c)
        /\ \A i \in 1..n : \A c : ComesAt(r, i, c) <=> ComesAt(q, i, c)
    BY <1>1 DEF LostAt, ComesAt
  <1>3. \A c \in Claim : c.port # 0
    BY PortAssumption DEF Claim, PortsOf, Ports
  <1>4. \A c \in Claim : ~LostAt(r, n + 1, c) /\ ~ComesAt(r, n + 1, c)
    BY <1>1, <1>3 DEF LostAt, ComesAt, Quiet
  <1>5. H \subseteq Claim /\ K \subseteq Claim
    BY DEF Agree, Listed
  <1>6. Told(H, o, r, K, gone)
    BY <1>1, <1>2, <1>4, <1>5 DEF Agree, Told, n
  <1>7. Backed(H, r, K, gone, x)
    BY <1>1, <1>2, <1>5 DEF Agree, Backed, n
  <1>8. Arriving(r, K, x)
    BY <1>1, <1>2, <1>4 DEF Agree, Arriving, n
  <1>9. Fresh(H, r, gone, x)
    BY <1>1, <1>2, <1>4 DEF Agree, Fresh, n
  <1>10. Parted(H, o, r, x)
    BY <1>1, <1>2, <1>4 DEF Agree, Parted, n
  <1>11. QED
    BY <1>1, <1>6, <1>7, <1>8, <1>9, <1>10 DEF Agree, Listed, r

\* The worker thread has claimed a hole it did not hold; the claim is still the first
\* of the messages.
LEMMA ClaimedCall ==
  ASSUME NEW H, NEW o, NEW q, NEW K, NEW x, NEW e \in Event, NEW c \in Claim,
         Agree(H, o, q, K, {}, x), c \notin K, o # <<>>, AsksAt(o, 1, c.for),
         e.ev = "claimed", e.for = c.for, e.port = c.port
  PROVE  Agree(H, o, Append(q, e), K \cup {c}, {}, x)
  <1> DEFINE r == Append(q, e)
             n == Len(q)
             L == K \cup {c}
  <1>1. /\ q \in Seq(Event) /\ r \in Seq(Event) /\ n \in Nat /\ Len(r) = n + 1
        /\ r[n + 1] = e /\ \A i \in 1..n : r[i] = q[i]
        /\ \A i \in 1..Len(r) : i \in 1..n \/ i = n + 1
        /\ \A i \in 1..n : i \in 1..Len(r) /\ i < n + 1
        /\ n + 1 \in 1..Len(r)
    BY Grown DEF Agree, Listed
  <1> HIDE DEF r, n
  <1>2. /\ \A i \in 1..n : \A d : LostAt(r, i, d) <=> LostAt(q, i, d)
        /\ \A i \in 1..n : \A d : ComesAt(r, i, d) <=> ComesAt(q, i, d)
    BY <1>1 DEF LostAt, ComesAt
  <1>3. \A d : ~LostAt(r, n + 1, d)
    BY <1>1 DEF LostAt
  <1>4. ComesAt(r, n + 1, c) /\ \A d \in Claim : ComesAt(r, n + 1, d) => d = c
    BY <1>1 DEF ComesAt, Claim
  <1>5. H \subseteq Claim /\ K \subseteq Claim /\ L \subseteq Claim
    BY DEF Agree, Listed
  <1>6. Told(H, o, r, L, {})
    <2>1. ASSUME NEW d \in K
          PROVE  \/ \E i \in 1..Len(o) : ReleasedAt(o, i, d)
                 \/ \E j \in 1..Len(r) : ComesAt(r, j, d) /\ \A i \in 1..Len(r) : i > j => ~LostAt(r, i, d)
                 \/ d \in H /\ d \notin {} /\ \A i \in 1..Len(r) : ~LostAt(r, i, d)
      BY <1>1, <1>2, <1>3, <1>5 DEF Agree, Told, n
    <2>2. \E j \in 1..Len(r) : ComesAt(r, j, c) /\ \A i \in 1..Len(r) : i > j => ~LostAt(r, i, c)
      <3>1. \A i \in 1..Len(r) : ~(i > n + 1)
        BY <1>1
      <3>2. QED
        BY <1>1, <1>4, <3>1
    <2>3. QED
      BY <2>1, <2>2 DEF Told
  <1>7. Backed(H, r, L, {}, x)
    BY <1>1, <1>2, <1>5 DEF Agree, Backed, n
  <1>8. Arriving(r, L, x)
    <2>1. ASSUME NEW d \in Claim, NEW j \in 1..Len(r), ComesAt(r, j, d)
          PROVE  d \in L \/ (\E i \in 1..Len(r) : i > j /\ LostAt(r, i, d)) \/ Stale(d, x)
      <3>1. CASE j \in 1..n
        BY <1>1, <1>2, <2>1, <3>1 DEF Agree, Arriving, n
      <3>2. CASE j = n + 1
        BY <1>4, <2>1, <3>2
      <3>3. QED
        BY <1>1, <3>1, <3>2
    <2>2. QED
      BY <2>1 DEF Arriving
  <1>9. Fresh(H, r, {}, x)
    <2>1. ASSUME NEW d \in Claim, NEW j \in 1..Len(r), ComesAt(r, j, d), ~Stale(d, x)
          PROVE  /\ d \notin H \/ d \in {} \/ \E i \in 1..Len(r) : i < j /\ LostAt(r, i, d)
                 /\ \A h \in 1..Len(r) : h < j /\ ComesAt(r, h, d) =>
                       \E i \in 1..Len(r) : h < i /\ i < j /\ LostAt(r, i, d)
      <3>1. CASE j \in 1..n
        <4>1. d \notin H \/ d \in {} \/ \E i \in 1..n : i < j /\ LostAt(q, i, d)
          BY <1>2, <2>1, <3>1 DEF Agree, Fresh, n
        <4>2. ASSUME NEW h \in 1..Len(r), h < j, ComesAt(r, h, d)
              PROVE  \E i \in 1..Len(r) : h < i /\ i < j /\ LostAt(r, i, d)
          <5>1. h \in 1..n
            BY <1>1, <3>1, <4>2
          <5>2. \E i \in 1..n : h < i /\ i < j /\ LostAt(q, i, d)
            BY <1>2, <2>1, <3>1, <4>2, <5>1 DEF Agree, Fresh, n
          <5>3. QED
            BY <1>1, <1>2, <5>2
        <4>3. QED
          BY <1>1, <1>2, <4>1, <4>2
      <3>2. CASE j = n + 1
        <4>1. d = c /\ d \notin K
          BY <1>4, <2>1, <3>2
        <4>2. d \notin H \/ \E i \in 1..n : LostAt(q, i, d)
          BY <2>1, <4>1 DEF Agree, Backed, n
        <4>3. \A h \in 1..n : ComesAt(q, h, d) => \E i \in 1..n : i > h /\ LostAt(q, i, d)
          BY <2>1, <4>1 DEF Agree, Arriving, n
        <4>4. ASSUME NEW h \in 1..Len(r), h < j, ComesAt(r, h, d)
              PROVE  \E i \in 1..Len(r) : h < i /\ i < j /\ LostAt(r, i, d)
          <5> h \in 1..n
            BY <1>1, <3>2, <4>4
          <5>1. h \in 1..n /\ ComesAt(q, h, d)
            BY <1>2, <4>4
          <5>2. PICK i \in 1..n : i > h /\ LostAt(q, i, d)
            BY <4>3, <5>1
          <5>3. h < i /\ i < j /\ i \in 1..Len(r) /\ LostAt(r, i, d)
            BY <1>1, <1>2, <3>2, <5>1, <5>2
          <5>4. QED
            BY <5>3
        <4>5. QED
          BY <1>1, <1>2, <3>2, <4>2, <4>4
      <3>3. QED
        BY <1>1, <3>1, <3>2
    <2>2. QED
      BY <2>1 DEF Fresh
  <1>10. Parted(H, o, r, x)
    <2>1. ASSUME NEW d \in Claim, NEW i \in 1..Len(o), ReleasedAt(o, i, d)
          PROVE  /\ d.for # Tunnel
                 /\ x \/ /\ d \notin H
                         /\ \A j \in 1..Len(r) : ~ComesAt(r, j, d)
                         /\ \A h \in 1..Len(o) : h < i => ~AsksAt(o, h, d.for)
      <3>1. /\ d.for # Tunnel
            /\ x \/ /\ d \notin H
                    /\ \A j \in 1..n : ~ComesAt(q, j, d)
                    /\ \A h \in 1..Len(o) : h < i => ~AsksAt(o, h, d.for)
        BY <2>1 DEF Agree, Parted, n
      <3>2. 1 \in 1..Len(o) /\ i # 1 /\ 1 < i
        <4>1. o \in Seq(Message)
          BY DEF Agree, Listed
        <4>2. i # 1
          BY <2>1 DEF ReleasedAt, AsksAt
        <4>3. QED
          BY <4>1, <4>2
      <3>3. d = c => x
        BY <3>1, <3>2
      <3>4. QED
        BY <1>1, <1>2, <1>4, <3>1, <3>3
    <2>2. QED
      BY <2>1 DEF Parted
  <1>11. QED
    BY <1>1, <1>5, <1>6, <1>7, <1>8, <1>9, <1>10 DEF Agree, Listed, r

\* The worker thread has lost some of its holes.
LEMMA LostCall ==
  ASSUME NEW H, NEW o, NEW q, NEW K, NEW gone, NEW x, NEW e \in Event, NEW S \in SUBSET K,
         Agree(H, o, q, K, gone, x), e.ev = "lost", e.claims = S
  PROVE  Agree(H, o, Append(q, e), K \ S, gone, x)
  <1> DEFINE r == Append(q, e)
             n == Len(q)
             L == K \ S
  <1>1. /\ q \in Seq(Event) /\ r \in Seq(Event) /\ n \in Nat /\ Len(r) = n + 1
        /\ r[n + 1] = e /\ \A i \in 1..n : r[i] = q[i]
        /\ \A i \in 1..Len(r) : i \in 1..n \/ i = n + 1
        /\ \A i \in 1..n : i \in 1..Len(r) /\ i < n + 1
        /\ n + 1 \in 1..Len(r)
    BY Grown DEF Agree, Listed
  <1> HIDE DEF r, n
  <1>2. /\ \A i \in 1..n : \A d : LostAt(r, i, d) <=> LostAt(q, i, d)
        /\ \A i \in 1..n : \A d : ComesAt(r, i, d) <=> ComesAt(q, i, d)
    BY <1>1 DEF LostAt, ComesAt
  <1>3. \A d : ~ComesAt(r, n + 1, d) /\ (LostAt(r, n + 1, d) <=> d \in S)
    BY <1>1 DEF LostAt, ComesAt
  <1>4. H \subseteq Claim /\ K \subseteq Claim /\ L \subseteq K
    BY DEF Agree, Listed
  <1>5. Told(H, o, r, L, gone)
    BY <1>1, <1>2, <1>3, <1>4 DEF Agree, Told, n
  <1>6. Backed(H, r, L, gone, x)
    BY <1>1, <1>2, <1>3, <1>4 DEF Agree, Backed, n
  <1>7. Arriving(r, L, x)
    <2>1. ASSUME NEW d \in Claim, NEW j \in 1..Len(r), ComesAt(r, j, d)
          PROVE  d \in L \/ (\E i \in 1..Len(r) : i > j /\ LostAt(r, i, d)) \/ Stale(d, x)
      <3>1. j \in 1..n /\ ComesAt(q, j, d)
        BY <1>1, <1>2, <1>3, <2>1
      <3>2. d \in K \/ (\E i \in 1..n : i > j /\ LostAt(q, i, d)) \/ Stale(d, x)
        BY <3>1 DEF Agree, Arriving, n
      <3>3. d \in S => n + 1 > j /\ LostAt(r, n + 1, d)
        BY <1>1, <1>3, <3>1
      <3>4. QED
        BY <1>1, <1>2, <3>2, <3>3
    <2>2. QED
      BY <2>1 DEF Arriving
  <1>8. Fresh(H, r, gone, x)
    BY <1>1, <1>2, <1>3 DEF Agree, Fresh, n
  <1>9. Parted(H, o, r, x)
    BY <1>1, <1>2, <1>3 DEF Agree, Parted, n
  <1>10. QED
    BY <1>1, <1>4, <1>5, <1>6, <1>7, <1>8, <1>9 DEF Agree, Listed, r

\* A message that releases nothing.
LEMMA AskMessage ==
  ASSUME NEW H, NEW o, NEW q, NEW K, NEW gone, NEW x, NEW d \in Message,
         Agree(H, o, q, K, gone, x), d.do # "release"
  PROVE  Agree(H, Append(o, d), q, K, gone, x)
  <1> DEFINE r == Append(o, d)
             n == Len(o)
  <1>1. /\ o \in Seq(Message) /\ r \in Seq(Message) /\ n \in Nat /\ Len(r) = n + 1
        /\ r[n + 1] = d /\ \A i \in 1..n : r[i] = o[i]
        /\ \A i \in 1..Len(r) : i \in 1..n \/ i = n + 1
        /\ \A i \in 1..n : i \in 1..Len(r) /\ i < n + 1
    BY Grown DEF Agree, Listed
  <1> HIDE DEF r, n
  <1>2. /\ \A i \in 1..n : \A c : ReleasedAt(r, i, c) <=> ReleasedAt(o, i, c)
        /\ \A i \in 1..n : \A f : AsksAt(r, i, f) <=> AsksAt(o, i, f)
        /\ \A c : ~ReleasedAt(r, n + 1, c)
    BY <1>1 DEF ReleasedAt, AsksAt
  <1>3. Told(H, r, q, K, gone)
    BY <1>1, <1>2 DEF Agree, Told, n
  <1>4. Parted(H, r, q, x)
    <2>1. ASSUME NEW c \in Claim, NEW i \in 1..Len(r), ReleasedAt(r, i, c)
          PROVE  /\ c.for # Tunnel
                 /\ x \/ /\ c \notin H
                         /\ \A j \in 1..Len(q) : ~ComesAt(q, j, c)
                         /\ \A h \in 1..Len(r) : h < i => ~AsksAt(r, h, c.for)
      <3>1. i \in 1..n /\ ReleasedAt(o, i, c)
        BY <1>1, <1>2, <2>1
      <3>2. \A h \in 1..Len(r) : h < i => h \in 1..n
        BY <1>1, <3>1
      <3>3. QED
        BY <1>2, <3>1, <3>2 DEF Agree, Parted, n
    <2>2. QED
      BY <2>1 DEF Parted
  <1>5. QED
    BY <1>1, <1>3, <1>4 DEF Agree, Listed, r

\* A stream's hole is given back.
LEMMA ReleaseMessage ==
  ASSUME NEW H, NEW o, NEW q, NEW K, NEW x, NEW y, NEW d \in Message, NEW c \in Claim,
         Agree(H, o, q, K, {}, x), d.do = "release", d.claim = c, c.for # Tunnel, x => y,
         ~y => (\A j \in 1..Len(q) : ~ComesAt(q, j, c)) /\ (\A h \in 1..Len(o) : ~AsksAt(o, h, c.for))
  PROVE  Agree(H \ {c}, Append(o, d), q, K, {}, y)
  <1> DEFINE r == Append(o, d)
             n == Len(o)
             G == H \ {c}
  <1>1. /\ o \in Seq(Message) /\ r \in Seq(Message) /\ n \in Nat /\ Len(r) = n + 1
        /\ r[n + 1] = d /\ \A i \in 1..n : r[i] = o[i]
        /\ \A i \in 1..Len(r) : i \in 1..n \/ i = n + 1
        /\ \A i \in 1..n : i \in 1..Len(r) /\ i < n + 1
        /\ n + 1 \in 1..Len(r)
    BY Grown DEF Agree, Listed
  <1> HIDE DEF r, n
  <1>2. /\ \A i \in 1..n : \A b : ReleasedAt(r, i, b) <=> ReleasedAt(o, i, b)
        /\ \A i \in 1..n : \A f : AsksAt(r, i, f) <=> AsksAt(o, i, f)
        /\ \A b : ReleasedAt(r, n + 1, b) <=> b = c
    BY <1>1 DEF ReleasedAt, AsksAt
  <1>3. G \subseteq H /\ (\A b \in H : b = c \/ b \in G) /\ c \notin G /\ G \subseteq Claim
    BY DEF Agree, Listed
  <1>4. \A b : Stale(b, x) => Stale(b, y)
    BY DEF Stale
  <1> HIDE DEF G
  <1>5. Told(G, r, q, K, {})
    BY <1>1, <1>2, <1>3 DEF Agree, Told, n
  <1>6. Backed(G, q, K, {}, y)
    BY <1>3, <1>4 DEF Agree, Backed
  <1>7. Arriving(q, K, y)
    BY <1>4 DEF Agree, Arriving
  <1>8. Fresh(G, q, {}, y)
    BY <1>3, <1>4 DEF Agree, Fresh
  <1>9. Parted(G, r, q, y)
    <2>1. ASSUME NEW b \in Claim, NEW i \in 1..Len(r), ReleasedAt(r, i, b)
          PROVE  /\ b.for # Tunnel
                 /\ y \/ /\ b \notin G
                         /\ \A j \in 1..Len(q) : ~ComesAt(q, j, b)
                         /\ \A h \in 1..Len(r) : h < i => ~AsksAt(r, h, b.for)
      <3>1. CASE i \in 1..n
        <4>1. \A h \in 1..Len(r) : h < i => h \in 1..n
          BY <1>1, <3>1
        <4>2. QED
          BY <1>2, <1>3, <2>1, <3>1, <4>1 DEF Agree, Parted, n
      <3>2. CASE i = n + 1
        <4>1. b = c
          BY <1>2, <2>1, <3>2
        <4>2. \A h \in 1..Len(r) : h < i => h \in 1..n
          BY <1>1, <3>2
        <4>3. QED
          BY <1>2, <1>3, <4>1, <4>2 DEF n
      <3>3. QED
        BY <1>1, <3>1, <3>2
    <2>2. QED
      BY <2>1 DEF Parted
  <1>10. QED
    BY <1>1, <1>3, <1>5, <1>6, <1>7, <1>8, <1>9 DEF Agree, Listed, r, G

\* A message that releases nothing is taken off.
LEMMA AskDone ==
  ASSUME NEW H, NEW o, NEW q, NEW K, NEW gone, NEW x,
         Agree(H, o, q, K, gone, x), o # <<>>, Head(o).do # "release"
  PROVE  Agree(H, Tail(o), q, K, gone, x)
  <1> DEFINE t == Tail(o)
             n == Len(t)
  <1>1. /\ t \in Seq(Message) /\ n \in Nat /\ o[1].do # "release"
        /\ \A i \in 1..n : i + 1 \in 1..Len(o) /\ t[i] = o[i + 1]
        /\ \A i \in 1..Len(o) : i # 1 => i - 1 \in 1..n /\ t[i - 1] = o[i]
    BY Shorn DEF Agree, Listed
  <1>2. \A h, i \in 1..n : h < i => h + 1 < i + 1
    OBVIOUS
  <1> HIDE DEF t, n
  <1>3. /\ \A i \in 1..n : \A c : ReleasedAt(t, i, c) => ReleasedAt(o, i + 1, c)
        /\ \A i \in 1..n : \A f : AsksAt(t, i, f) => AsksAt(o, i + 1, f)
        /\ \A i \in 1..Len(o) : \A c : ReleasedAt(o, i, c) => i - 1 \in 1..n /\ ReleasedAt(t, i - 1, c)
    BY <1>1 DEF ReleasedAt, AsksAt
  <1>4. Told(H, t, q, K, gone)
    BY <1>3 DEF Agree, Told, n
  <1>5. Parted(H, t, q, x)
    <2>1. ASSUME NEW c \in Claim, NEW i \in 1..n, ReleasedAt(t, i, c)
          PROVE  /\ c.for # Tunnel
                 /\ x \/ /\ c \notin H
                         /\ \A j \in 1..Len(q) : ~ComesAt(q, j, c)
                         /\ \A h \in 1..n : h < i => ~AsksAt(t, h, c.for)
      <3>1. i + 1 \in 1..Len(o) /\ ReleasedAt(o, i + 1, c)
        BY <1>1, <1>3, <2>1
      <3>2. QED
        BY <1>1, <1>2, <1>3, <3>1 DEF Agree, Parted
    <2>2. QED
      BY <2>1 DEF Parted, n
  <1>6. QED
    BY <1>1, <1>4, <1>5 DEF Agree, Listed, t

\* The worker thread has let go of the hole it was asked to release.
LEMMA ReleaseDone ==
  ASSUME NEW H, NEW o, NEW q, NEW K, NEW x, NEW c,
         Agree(H, o, q, K, {}, x), o # <<>>, ReleasedAt(o, 1, c)
  PROVE  c \in Claim /\ c.for # Tunnel /\ Agree(H, Tail(o), q, K \ {c}, {}, x)
  <1> DEFINE t == Tail(o)
             n == Len(t)
             L == K \ {c}
  <1>1. /\ o[1] \in Message /\ 1 \in 1..Len(o)
        /\ t \in Seq(Message) /\ n \in Nat
        /\ \A i \in 1..n : i + 1 \in 1..Len(o) /\ t[i] = o[i + 1]
        /\ \A i \in 1..Len(o) : i # 1 => i - 1 \in 1..n /\ t[i - 1] = o[i]
    BY Shorn DEF Agree, Listed
  <1>2. \A h, i \in 1..n : h < i => h + 1 < i + 1
    OBVIOUS
  <1>3. c \in Claim
    BY <1>1 DEF ReleasedAt, Message
  <1>4. c.for # Tunnel /\ (x \/ (c \notin H /\ \A j \in 1..Len(q) : ~ComesAt(q, j, c)))
    BY <1>1, <1>3 DEF Agree, Parted
  <1>5. L \subseteq K /\ c \notin L /\ \A d \in K : d = c \/ d \in L
    OBVIOUS
  <1>6. K \subseteq Claim /\ H \subseteq Claim
    BY DEF Agree, Listed
  <1> HIDE DEF t, n, L
  <1>7. /\ \A i \in 1..n : \A d : ReleasedAt(t, i, d) => ReleasedAt(o, i + 1, d)
        /\ \A i \in 1..n : \A f : AsksAt(t, i, f) => AsksAt(o, i + 1, f)
        /\ \A i \in 1..Len(o) : \A d : ReleasedAt(o, i, d) /\ d # c => i - 1 \in 1..n /\ ReleasedAt(t, i - 1, d)
    BY <1>1 DEF ReleasedAt, AsksAt
  <1>8. Told(H, t, q, L, {})
    <2>1. ASSUME NEW d \in L
          PROVE  \/ \E i \in 1..n : ReleasedAt(t, i, d)
                 \/ \E j \in 1..Len(q) : ComesAt(q, j, d) /\ \A i \in 1..Len(q) : i > j => ~LostAt(q, i, d)
                 \/ d \in H /\ d \notin {} /\ \A i \in 1..Len(q) : ~LostAt(q, i, d)
      <3>1. d \in K /\ d # c
        BY <1>5
      <3>2. QED
        BY <1>7, <3>1 DEF Agree, Told
    <2>2. QED
      BY <2>1 DEF Told, n
  <1>9. Backed(H, q, L, {}, x)
    BY <1>4, <1>5 DEF Agree, Backed, Stale
  <1>10. Arriving(q, L, x)
    BY <1>4, <1>5 DEF Agree, Arriving, Stale
  <1>11. Parted(H, t, q, x)
    <2>1. ASSUME NEW d \in Claim, NEW i \in 1..n, ReleasedAt(t, i, d)
          PROVE  /\ d.for # Tunnel
                 /\ x \/ /\ d \notin H
                         /\ \A j \in 1..Len(q) : ~ComesAt(q, j, d)
                         /\ \A h \in 1..n : h < i => ~AsksAt(t, h, d.for)
      <3>1. i + 1 \in 1..Len(o) /\ ReleasedAt(o, i + 1, d)
        BY <1>1, <1>7, <2>1
      <3>2. QED
        BY <1>1, <1>2, <1>7, <3>1 DEF Agree, Parted
    <2>2. QED
      BY <2>1 DEF Parted, n
  <1>12. L \subseteq Claim
    BY <1>5, <1>6
  <1>13. QED
    BY <1>1, <1>3, <1>4, <1>8, <1>9, <1>10, <1>11, <1>12 DEF Agree, Listed, t, L

\* A hole the main thread was told it has lost is forgotten.
LEMMA Forgotten ==
  ASSUME NEW H, NEW o, NEW q, NEW K, NEW gone, NEW x, NEW c \in gone, NEW still,
         Agree(H, o, q, K, gone, x), gone \ {c} \subseteq still, still \subseteq gone
  PROVE  Agree(H \ {c}, o, q, K, still, x)
  <1> DEFINE G == H \ {c}
  <1>1. /\ G \subseteq H /\ c \notin G /\ (\A d \in H : d = c \/ d \in G)
        /\ \A d \in gone : d = c \/ d \in still
        /\ \A d \in still : d \in gone
    OBVIOUS
  <1> HIDE DEF G
  <1>2. Told(G, o, q, K, still)
    BY <1>1 DEF Agree, Told
  <1>3. Backed(G, q, K, still, x)
    BY <1>1 DEF Agree, Backed
  <1>4. Fresh(G, q, still, x)
    BY <1>1 DEF Agree, Fresh
  <1>5. Parted(G, o, q, x)
    BY <1>1 DEF Agree, Parted
  <1>6. Listed(G, o, q, K, still)
    BY <1>1 DEF Agree, Listed
  <1>7. QED
    BY <1>2, <1>3, <1>4, <1>5, <1>6 DEF Agree, G

\* The first call is taken off, and what it says of the holes is known: H, K and gone
\* become G, K and less.
LEMMA CallDone ==
  ASSUME NEW H, NEW G, NEW o, NEW q, NEW K, NEW gone, NEW less, NEW x,
         Agree(H, o, q, K, gone, x), q # <<>>, G \subseteq Claim, H \subseteq G, less \subseteq Claim,
         \A c \in G : c \in H \/ ComesAt(q, 1, c),
         \A c \in Claim : ComesAt(q, 1, c) => c \in G /\ gone = {},
         \A c \in Claim : c \in gone \/ LostAt(q, 1, c) <=> c \in less
  PROVE  Agree(G, o, Tail(q), K, less, x)
  <1> DEFINE t == Tail(q)
             n == Len(t)
  <1>1. /\ q \in Seq(Event) /\ t \in Seq(Event) /\ n \in Nat /\ 1 \in 1..Len(q)
        /\ \A i \in 1..n : i + 1 \in 1..Len(q) /\ i + 1 # 1 /\ i + 1 > 1 /\ t[i] = q[i + 1]
        /\ \A i \in 1..Len(q) : i = 1 \/ (i - 1 \in 1..n /\ t[i - 1] = q[i])
    BY Shorn DEF Agree, Listed
  <1>2. /\ \A h, i \in 1..n : h < i <=> h + 1 < i + 1
        /\ \A h \in 1..n, i \in 1..Len(q) : i < h + 1 /\ i # 1 => i - 1 < h
        /\ \A h \in 1..n, i \in 1..Len(q) : i > h + 1 => i # 1 /\ i - 1 > h
        /\ \A i \in 1..Len(q) : ~(i < 1)
        /\ \A i \in 1..Len(q) : i > 1 \/ i = 1
    BY <1>1
  <1>3. H \subseteq Claim /\ K \subseteq Claim /\ gone \subseteq Claim
    BY DEF Agree, Listed
  <1> HIDE DEF t, n
  <1>4. /\ \A i \in 1..n : \A c : LostAt(t, i, c) <=> LostAt(q, i + 1, c)
        /\ \A i \in 1..n : \A c : ComesAt(t, i, c) <=> ComesAt(q, i + 1, c)
        /\ \A i \in 1..Len(q) : \A c : LostAt(q, i, c) => i = 1 \/ (i - 1 \in 1..n /\ LostAt(t, i - 1, c))
        /\ \A i \in 1..Len(q) : \A c : ComesAt(q, i, c) => i = 1 \/ (i - 1 \in 1..n /\ ComesAt(t, i - 1, c))
        /\ \A i \in 1..Len(q) : \A c : ~(ComesAt(q, i, c) /\ LostAt(q, i, c))
    BY <1>1 DEF LostAt, ComesAt
  <1>5. Told(G, o, t, K, less)
    <2>1. ASSUME NEW c \in K
          PROVE  \/ \E i \in 1..Len(o) : ReleasedAt(o, i, c)
                 \/ \E j \in 1..n : ComesAt(t, j, c) /\ \A i \in 1..n : i > j => ~LostAt(t, i, c)
                 \/ c \in G /\ c \notin less /\ \A i \in 1..n : ~LostAt(t, i, c)
      <3>1. CASE \E i \in 1..Len(o) : ReleasedAt(o, i, c)
        BY <3>1
      <3>2. CASE \E j \in 1..Len(q) : ComesAt(q, j, c) /\ \A i \in 1..Len(q) : i > j => ~LostAt(q, i, c)
        <4>1. PICK j \in 1..Len(q) : ComesAt(q, j, c) /\ \A i \in 1..Len(q) : i > j => ~LostAt(q, i, c)
          BY <3>2
        <4>2. CASE j = 1
          <5>1. c \in Claim /\ c \in G /\ gone = {} /\ ~LostAt(q, 1, c)
            BY <1>1, <1>3, <1>4, <4>1, <4>2
          <5>2. \A i \in 1..n : ~LostAt(t, i, c)
            BY <1>1, <1>4, <4>1, <4>2
          <5>3. QED
            BY <5>1, <5>2
        <4>3. CASE j # 1
          <5>1. j - 1 \in 1..n /\ ComesAt(t, j - 1, c)
            BY <1>4, <4>1, <4>3
          <5>2. ASSUME NEW i \in 1..n, i > j - 1 PROVE ~LostAt(t, i, c)
            <6>1. i + 1 \in 1..Len(q) /\ i + 1 > j
              BY <1>1, <5>2
            <6>2. QED
              BY <1>4, <4>1, <6>1
          <5>3. QED
            BY <5>1, <5>2
        <4>4. QED
          BY <4>2, <4>3
      <3>3. CASE c \in H /\ c \notin gone /\ \A i \in 1..Len(q) : ~LostAt(q, i, c)
        <4>1. c \in G /\ c \notin less
          BY <1>1, <1>3, <3>3
        <4>2. \A i \in 1..n : ~LostAt(t, i, c)
          BY <1>1, <1>4, <3>3
        <4>3. QED
          BY <4>1, <4>2
      <3>4. QED
        BY <3>1, <3>2, <3>3 DEF Agree, Told
    <2>2. QED
      BY <2>1 DEF Told, n
  <1>6. Backed(G, t, K, less, x)
    <2>1. ASSUME NEW c \in G
          PROVE  c \in K \/ c \in less \/ (\E i \in 1..n : LostAt(t, i, c)) \/ Stale(c, x)
      <3>1. CASE c \in H
        <4>1. c \in K \/ c \in gone \/ (\E i \in 1..Len(q) : LostAt(q, i, c)) \/ Stale(c, x)
          BY <3>1 DEF Agree, Backed
        <4>2. QED
          BY <1>3, <1>4, <3>1, <4>1
      <3>2. CASE ComesAt(q, 1, c)
        <4>1. c \in K \/ (\E i \in 1..Len(q) : i > 1 /\ LostAt(q, i, c)) \/ Stale(c, x)
          BY <1>1, <3>2 DEF Agree, Arriving
        <4>2. \A i \in 1..Len(q) : i > 1 /\ LostAt(q, i, c) => i - 1 \in 1..n /\ LostAt(t, i - 1, c)
          BY <1>4
        <4>3. QED
          BY <4>1, <4>2
      <3>3. QED
        BY <3>1, <3>2
    <2>2. QED
      BY <2>1 DEF Backed, n
  <1>7. Arriving(t, K, x)
    <2>1. ASSUME NEW c \in Claim, NEW j \in 1..n, ComesAt(t, j, c)
          PROVE  c \in K \/ (\E i \in 1..n : i > j /\ LostAt(t, i, c)) \/ Stale(c, x)
      <3>1. c \in K \/ (\E i \in 1..Len(q) : i > j + 1 /\ LostAt(q, i, c)) \/ Stale(c, x)
        BY <1>1, <1>4, <2>1 DEF Agree, Arriving
      <3>2. \A i \in 1..Len(q) : i > j + 1 /\ LostAt(q, i, c) => i - 1 \in 1..n /\ i - 1 > j /\ LostAt(t, i - 1, c)
        BY <1>2, <1>4
      <3>3. QED
        BY <3>1, <3>2
    <2>2. QED
      BY <2>1 DEF Arriving, n
  <1>8. Fresh(G, t, less, x)
    <2>1. ASSUME NEW c \in Claim, NEW j \in 1..n, ComesAt(t, j, c), ~Stale(c, x)
          PROVE  /\ c \notin G \/ c \in less \/ \E i \in 1..n : i < j /\ LostAt(t, i, c)
                 /\ \A h \in 1..n : h < j /\ ComesAt(t, h, c) =>
                       \E i \in 1..n : h < i /\ i < j /\ LostAt(t, i, c)
      <3>1. j + 1 \in 1..Len(q) /\ ComesAt(q, j + 1, c) /\ j + 1 > 1 /\ 1 < j + 1
        BY <1>1, <1>4, <2>1
      <3>2. c \notin H \/ c \in gone \/ \E i \in 1..Len(q) : i < j + 1 /\ LostAt(q, i, c)
        BY <2>1, <3>1 DEF Agree, Fresh
      <3>3. \A h \in 1..Len(q) : h < j + 1 /\ ComesAt(q, h, c) =>
                       \E i \in 1..Len(q) : h < i /\ i < j + 1 /\ LostAt(q, i, c)
        BY <2>1, <3>1 DEF Agree, Fresh
      <3>4. \A i \in 1..Len(q) : i < j + 1 /\ LostAt(q, i, c) =>
                 i = 1 \/ (i - 1 \in 1..n /\ i - 1 < j /\ LostAt(t, i - 1, c))
        BY <1>2, <1>4
      <3>5. c \notin G \/ c \in less \/ \E i \in 1..n : i < j /\ LostAt(t, i, c)
        <4>1. CASE c \notin G
          BY <4>1
        <4>2. CASE c \in H
          BY <3>2, <3>4, <4>2
        <4>3. CASE ComesAt(q, 1, c)
          <5>1. PICK i \in 1..Len(q) : 1 < i /\ i < j + 1 /\ LostAt(q, i, c)
            BY <1>1, <3>1, <3>3, <4>3
          <5>2. QED
            BY <3>4, <5>1
        <4>4. QED
          BY <4>1, <4>2, <4>3
      <3>6. ASSUME NEW h \in 1..n, h < j, ComesAt(t, h, c)
            PROVE  \E i \in 1..n : h < i /\ i < j /\ LostAt(t, i, c)
        <4>1. h + 1 \in 1..Len(q) /\ h + 1 < j + 1 /\ ComesAt(q, h + 1, c)
          BY <1>1, <1>2, <1>4, <3>6
        <4>2. PICK i \in 1..Len(q) : h + 1 < i /\ i < j + 1 /\ LostAt(q, i, c)
          BY <3>3, <4>1
        <4>3. i # 1 /\ i - 1 > h /\ h < i - 1
          <5>1. i > h + 1
            BY <4>2
          <5>2. QED
            BY <1>1, <1>2, <5>1
        <4>4. QED
          BY <3>4, <4>2, <4>3
      <3>7. QED
        BY <3>5, <3>6
    <2>2. QED
      BY <2>1 DEF Fresh, n
  <1>9. Parted(G, o, t, x)
    <2>1. ASSUME NEW c \in Claim, NEW i \in 1..Len(o), ReleasedAt(o, i, c)
          PROVE  /\ c.for # Tunnel
                 /\ x \/ /\ c \notin G
                         /\ \A j \in 1..n : ~ComesAt(t, j, c)
                         /\ \A h \in 1..Len(o) : h < i => ~AsksAt(o, h, c.for)
      <3>1. /\ c.for # Tunnel
            /\ x \/ /\ c \notin H
                    /\ \A j \in 1..Len(q) : ~ComesAt(q, j, c)
                    /\ \A h \in 1..Len(o) : h < i => ~AsksAt(o, h, c.for)
        BY <2>1 DEF Agree, Parted
      <3>2. QED
        BY <1>1, <1>4, <3>1
    <2>2. QED
      BY <2>1 DEF Parted, n
  <1>10. QED
    BY <1>1, <1>3, <1>5, <1>6, <1>7, <1>8, <1>9 DEF Agree, Listed, t

-----------------------------------------------------------------------------
(***************************************************************************)
(* What the two threads agree on besides: whether there is a gateway, and  *)
(* how many claims of a tunnel port there may be.                          *)
(***************************************************************************)

NoneComes(q) == \A j \in 1..Len(q) : q[j].ev = "claimed" => q[j].port = 0

\* g is the main thread's gateway, up whether the worker thread has one.  Without
\* a gateway no hole is claimed, and the search for one is under way once at most.
Begun(g, o, q, up) ==
    /\ g \in {"Unknown", "Missing"} => ~up /\ NoneComes(q)
    /\ \A i \in 1..Len(o) : o[i].do = "start" =>
          /\ g = "Discovering" /\ ~up /\ NoneComes(q)
          /\ \A j \in 1..Len(q) : q[j].ev # "discovered"
          /\ \A h \in 1..Len(o) : o[h].do = "start" => h = i
    /\ \A j \in 1..Len(q) : q[j].ev = "discovered" =>
          /\ g = "Discovering" /\ up = q[j].ok
          /\ ~q[j].ok => NoneComes(q)
          /\ \A h \in 1..Len(q) : q[h].ev = "discovered" => h = j

OfTunnel(K) == {c \in K : c.for = Tunnel}

\* One claim of a tunnel port is asked for at a time, and there is room for it.
Asked(o, q, K) ==
    /\ \A i, j \in 1..Len(o) : AsksAt(o, i, Tunnel) /\ AsksAt(o, j, Tunnel) => i = j
    /\ \A j \in 1..Len(q) : q[j].ev = "answer" /\ q[j].for = Tunnel => q[j].port = 0
    /\ Cardinality(OfTunnel(K)) <= Cap
    /\ (\E i \in 1..Len(o) : AsksAt(o, i, Tunnel)) => Cardinality(OfTunnel(K)) < Cap

\* No hole is on the main thread's list twice, but one that a release has crossed.
HeldOnce(held, x) == \A c \in ToSet(held) : Once(held, c) \/ Stale(c, x)

\* The two threads are in line with each other.
Linked(m, K, up, gone, x) ==
    /\ Agree(ToSet(m.held), m.out, m.events, K, gone, x)
    /\ Begun(m.gateway, m.out, m.events, up)
    /\ Asked(m.out, m.events, K)
    /\ HeldOnce(m.held, x)

\* They are so in n if they are in m.
Works(m, n) == \A K, up, gone, x : Linked(m, K, up, gone, x) => Linked(n, K, up, gone, x)

\* Working goes on; what leaves queues, holes and gateway alone works.
LEMMA WorksOn ==
  /\ \A m : Works(m, m)
  /\ \A m, n, o : Works(m, n) /\ Works(n, o) => Works(m, o)
  /\ \A m, n : Calm(m, n) => Works(m, n)
  <1>1. ASSUME NEW m, NEW n, Calm(m, n) PROVE Works(m, n)
    BY <1>1 DEF Calm, Works, Linked
  <1>2. QED
    BY <1>1 DEF Works

\* The search for a gateway begins.
LEMMA BegunStart ==
  ASSUME NEW g, NEW o \in Seq(Message), NEW q, NEW up, NEW d \in Message,
         Begun(g, o, q, up), g \in {"Unknown", "Missing"}, d.do = "start"
  PROVE  Begun("Discovering", Append(o, d), q, up)
  <1> DEFINE r == Append(o, d)
             n == Len(o)
  <1>1. /\ r[n + 1] = d /\ \A i \in 1..n : r[i] = o[i]
        /\ \A i \in 1..Len(r) : i \in 1..n \/ i = n + 1
    BY Grown
  <1> HIDE DEF r, n
  <1>2. \A i \in 1..n : o[i].do # "start"
    BY DEF Begun, n
  <1>3. \A j \in 1..Len(q) : q[j].ev # "discovered"
    BY DEF Begun
  <1>4. ~up /\ NoneComes(q)
    BY DEF Begun
  <1>5. \A i \in 1..Len(r) : r[i].do = "start" => i = n + 1
    BY <1>1, <1>2
  <1>6. QED
    BY <1>3, <1>4, <1>5 DEF Begun, r

\* A message that starts nothing, a call that tells of no hole and no gateway.
LEMMA BegunMore ==
  ASSUME NEW g, NEW o \in Seq(Message), NEW q \in Seq(Event), NEW up, Begun(g, o, q, up)
  PROVE  /\ \A d \in Message : d.do # "start" => Begun(g, Append(o, d), q, up)
         /\ \A e \in Event : (e.ev \in {"answer", "lost"} \/ (e.ev = "claimed" /\ e.port = 0))
               => Begun(g, o, Append(q, e), up)
  <1>1. ASSUME NEW d \in Message, d.do # "start" PROVE Begun(g, Append(o, d), q, up)
    <2> DEFINE r == Append(o, d)
               n == Len(o)
    <2>1. /\ r[n + 1] = d /\ \A i \in 1..n : r[i] = o[i]
          /\ \A i \in 1..Len(r) : i \in 1..n \/ i = n + 1
      BY Grown
    <2> HIDE DEF r, n
    <2>2. \A i \in 1..Len(r) : r[i].do = "start" => i \in 1..n /\ o[i].do = "start"
      BY <1>1, <2>1
    <2>3. QED
      BY <2>2 DEF Begun, r, n
  <1>2. ASSUME NEW e \in Event, e.ev \in {"answer", "lost"} \/ (e.ev = "claimed" /\ e.port = 0)
        PROVE  Begun(g, o, Append(q, e), up)
    <2> DEFINE r == Append(q, e)
               n == Len(q)
    <2>1. /\ r[n + 1] = e /\ \A i \in 1..n : r[i] = q[i]
          /\ \A i \in 1..Len(r) : i \in 1..n \/ i = n + 1
      BY Grown
    <2> HIDE DEF r, n
    <2>2. \A i \in 1..Len(r) : r[i].ev = "discovered" => i \in 1..n /\ q[i].ev = "discovered" /\ r[i].ok = q[i].ok
      BY <1>2, <2>1
    <2>3. NoneComes(q) => NoneComes(r)
      BY <1>2, <2>1 DEF NoneComes, n
    <2>4. QED
      BY <2>2, <2>3 DEF Begun, r, n
  <1>3. QED
    BY <1>1, <1>2

\* A message that asks for no tunnel port, a call that answers no claim of one.
LEMMA AskedMore ==
  ASSUME NEW o \in Seq(Message), NEW q \in Seq(Event), NEW K, Asked(o, q, K)
  PROVE  /\ \A d \in Message : ~(d.do = "claim" /\ d.for = Tunnel) => Asked(Append(o, d), q, K)
         /\ \A e \in Event : ~(e.ev = "answer" /\ e.for = Tunnel /\ e.port # 0) => Asked(o, Append(q, e), K)
         /\ \A d \in Message : (\A i \in 1..Len(o) : ~AsksAt(o, i, Tunnel)) /\ Cardinality(OfTunnel(K)) < Cap
               => Asked(Append(o, d), q, K)
  <1>1. ASSUME NEW d \in Message, ~(d.do = "claim" /\ d.for = Tunnel) PROVE Asked(Append(o, d), q, K)
    <2> DEFINE r == Append(o, d)
               n == Len(o)
    <2>1. /\ r[n + 1] = d /\ \A i \in 1..n : r[i] = o[i]
          /\ \A i \in 1..Len(r) : i \in 1..n \/ i = n + 1
      BY Grown
    <2> HIDE DEF r, n
    <2>2. \A i \in 1..Len(r) : AsksAt(r, i, Tunnel) => i \in 1..n /\ AsksAt(o, i, Tunnel)
      BY <1>1, <2>1 DEF AsksAt
    <2>3. QED
      BY <2>2 DEF Asked, r, n
  <1>2. ASSUME NEW e \in Event, ~(e.ev = "answer" /\ e.for = Tunnel /\ e.port # 0)
        PROVE  Asked(o, Append(q, e), K)
    <2> DEFINE r == Append(q, e)
               n == Len(q)
    <2>1. /\ r[n + 1] = e /\ \A i \in 1..n : r[i] = q[i]
          /\ \A i \in 1..Len(r) : i \in 1..n \/ i = n + 1
      BY Grown
    <2> HIDE DEF r, n
    <2>2. \A j \in 1..Len(r) : r[j].ev = "answer" /\ r[j].for = Tunnel => r[j].port = 0
      BY <1>2, <2>1 DEF Asked, n
    <2>3. QED
      BY <2>2 DEF Asked, r
  <1>3. ASSUME NEW d \in Message, \A i \in 1..Len(o) : ~AsksAt(o, i, Tunnel),
               Cardinality(OfTunnel(K)) < Cap
        PROVE  Asked(Append(o, d), q, K)
    <2> DEFINE r == Append(o, d)
               n == Len(o)
    <2>1. /\ r[n + 1] = d /\ \A i \in 1..n : r[i] = o[i]
          /\ \A i \in 1..Len(r) : i \in 1..n \/ i = n + 1
      BY Grown
    <2> HIDE DEF r, n
    <2>2. \A i \in 1..Len(r) : AsksAt(r, i, Tunnel) => i = n + 1
      BY <1>3, <2>1 DEF AsksAt, n
    <2>3. QED
      BY <1>3, <2>2 DEF Asked, r
  <1>4. QED
    BY <1>1, <1>2, <1>3

\* A list has no more members than places.
LEMMA FewerMembers ==
  ASSUME NEW T, NEW s \in Seq(T)
  PROVE  Cardinality(ToSet(s)) <= Len(s)
  <1> DEFINE f == [i \in 1..Len(s) |-> s[i]]
             n == Len(s)
             S == ToSet(s)
  <1>1. n \in Nat /\ f \in [1..n -> S]
    BY Somewhere
  <1>2. \A c \in S : \E i \in 1..n : f[i] = c
    BY Somewhere
  <1> HIDE DEF f, S, n
  <1>3. f \in Surjection(1..n, S)
    BY <1>1, <1>2 DEF Surjection
  <1>4. ExistsSurjection(1..n, S)
    BY <1>3 DEF ExistsSurjection
  <1>5. QED
    BY <1>1, <1>4, FS_SurjCardinalityBound DEF S, n

\* While no claim of a tunnel port is under way, the main thread knows all the tunnel
\* ports there are.
LEMMA RoomFor ==
  ASSUME NEW m \in Main, NEW K, NEW gone, NEW x,
         Agree(ToSet(m.held), m.out, m.events, K, gone, x),
         ~inFlight(m, Tunnel), ~(Len(HeldFor(m, Tunnel)) >= Cap)
  PROVE  Cardinality(OfTunnel(K)) < Cap
  <1> DEFINE w == HeldFor(m, Tunnel)
             S == ToSet(w)
             H == ToSet(m.held)
             V == OfTunnel(K)
  <1>1. ASSUME NEW c \in K, c.for = Tunnel PROVE c \in S
    <2>1. S = {d \in H : d.for = Tunnel}
      BY HeldForThose
    <2>2. K \subseteq Claim
      BY DEF Agree, Listed
    <2>3. \A i \in 1..Len(m.out) : ~ReleasedAt(m.out, i, c)
      BY <1>1, <2>2 DEF Agree, Parted
    <2>4. \A j \in 1..Len(m.events) : ~ComesAt(m.events, j, c)
      BY <1>1 DEF inFlight, ComesAt
    <2>5. c \in H
      BY <2>3, <2>4 DEF Agree, Told
    <2>6. QED
      BY <1>1, <2>1, <2>5
  <1>2. w \in Seq({c \in Claim : c.for = Tunnel})
    BY HeldForType DEF Purposes
  <1>3. IsFiniteSet(S)
    <2>1. S \subseteq Claim
      <3> DEFINE T == {c \in Claim : c.for = Tunnel}
      <3>1. w \in Seq(T) /\ T \subseteq Claim
        BY <1>2
      <3> HIDE DEF T, w
      <3>2. QED
        BY <3>1, Somewhere
    <2>2. QED
      BY <2>1, ClaimFinite, FS_Subset
  <1>4. Cardinality(S) <= Len(w) /\ Len(w) \in Nat
    <2> DEFINE T == {c \in Claim : c.for = Tunnel}
    <2>1. w \in Seq(T)
      BY <1>2
    <2> HIDE DEF T, w
    <2>2. QED
      BY <2>1, FewerMembers
  <1>5. V \subseteq S
    BY <1>1 DEF OfTunnel
  <1> HIDE DEF S, V
  <1>6. Cardinality(V) <= Cardinality(S) /\ Cardinality(V) \in Nat /\ Cardinality(S) \in Nat
    BY <1>3, <1>5, FS_Subset, FS_CardinalityType
  <1>7. ~(Len(w) >= Cap)
    OBVIOUS
  <1> HIDE DEF w
  <1>8. QED
    BY <1>4, <1>6, <1>7, PortAssumption DEF V

\* The search for a gateway is asked for.
LEMMA StartWorks ==
  ASSUME NEW m \in Main, m.gateway \in {"Unknown", "Missing"}
  PROVE  Works(m, [m EXCEPT !.gateway = "Discovering", !.out = Append(@, [do |-> "start"])])
  <1> DEFINE d == [do |-> "start"]
             r == Append(m.out, d)
             o == [m EXCEPT !.gateway = "Discovering"]
             n == [o EXCEPT !.out = r]
  <1>1. d \in Message /\ d.do = "start" /\ m.out \in Seq(Message)
    BY DEF Message, Main
  <1>2. [m EXCEPT !.gateway = "Discovering", !.out = Append(@, [do |-> "start"])] = n
    BY DEF Main
  <1> HIDE DEF d
  <1>3. n.held = m.held /\ n.events = m.events /\ n.out = r /\ n.gateway = "Discovering"
    BY DEF Main
  <1> HIDE DEF n, o
  <1>4. ASSUME NEW K, NEW up, NEW gone, NEW x, Linked(m, K, up, gone, x) PROVE Linked(n, K, up, gone, x)
    <2>1. Agree(ToSet(m.held), r, m.events, K, gone, x)
      BY <1>1, <1>4, AskMessage DEF Linked
    <2>2. Begun("Discovering", r, m.events, up)
      BY <1>1, <1>4, BegunStart DEF Linked
    <2>3. Asked(r, m.events, K)
      <3>1. m.events \in Seq(Event)
        BY DEF Main
      <3>2. QED
        BY <1>1, <1>4, <3>1, AskedMore DEF Linked
    <2>4. QED
      BY <1>3, <1>4, <2>1, <2>2, <2>3 DEF Linked
  <1>5. QED
    BY <1>2, <1>4 DEF Works

LEMMA StartedWorks ==
  ASSUME NEW m \in Main
  PROVE  Works(m, ensureStarted(m))
  BY StartWorks, WorksOn DEF ensureStarted

\* A stream's claim is submitted.
LEMMA SubmitWorks ==
  ASSUME NEW m \in Main, NEW s \in Slots
  PROVE  Works(m, submit(m, s))
  <1> DEFINE d == [do |-> "claim", for |-> s]
             r == Append(m.out, d)
             n == [m EXCEPT !.out = r]
  <1>1. d \in Message /\ d.do = "claim" /\ d.for = s /\ m.out \in Seq(Message) /\ m.events \in Seq(Event)
    BY DEF Message, Main, Purposes
  <1>2. submit(m, s) = n
    BY DEF submit
  <1>3. s # Tunnel
    BY PortAssumption
  <1> HIDE DEF d
  <1>4. n.held = m.held /\ n.events = m.events /\ n.out = r /\ n.gateway = m.gateway
    BY DEF Main
  <1> HIDE DEF n
  <1>5. ASSUME NEW K, NEW up, NEW gone, NEW x, Linked(m, K, up, gone, x) PROVE Linked(n, K, up, gone, x)
    <2>1. Agree(ToSet(m.held), r, m.events, K, gone, x)
      BY <1>1, <1>5, AskMessage DEF Linked
    <2>2. Begun(m.gateway, r, m.events, up)
      BY <1>1, <1>5, BegunMore DEF Linked
    <2>3. Asked(r, m.events, K)
      BY <1>1, <1>3, <1>5, AskedMore DEF Linked
    <2>4. QED
      BY <1>4, <1>5, <2>1, <2>2, <2>3 DEF Linked
  <1>6. QED
    BY <1>2, <1>5 DEF Works

\* An answer of the main thread to itself is queued.
LEMMA AnswerWorks ==
  ASSUME NEW m \in Main, NEW f \in Purposes, NEW port \in PortsOf(f) \cup {0}, f = Tunnel => port = 0
  PROVE  Works(m, answerLater(m, f, port))
  <1> DEFINE e == [ev |-> "answer", for |-> f, port |-> port]
             r == Append(m.events, e)
             n == [m EXCEPT !.events = r]
  <1>1. /\ e \in Event /\ e.ev = "answer" /\ ~(e.for = Tunnel /\ e.port # 0)
        /\ m.out \in Seq(Message) /\ m.events \in Seq(Event)
    BY DEF Event, Main, PortsOf, Ports
  <1>2. answerLater(m, f, port) = n
    BY DEF answerLater
  <1> HIDE DEF e
  <1>3. n.held = m.held /\ n.events = r /\ n.out = m.out /\ n.gateway = m.gateway
    BY DEF Main
  <1> HIDE DEF n
  <1>4. ASSUME NEW K, NEW up, NEW gone, NEW x, Linked(m, K, up, gone, x) PROVE Linked(n, K, up, gone, x)
    <2>1. Agree(ToSet(m.held), m.out, r, K, gone, x)
      BY <1>1, <1>4, QuietCall DEF Linked, Quiet
    <2>2. Begun(m.gateway, m.out, r, up)
      BY <1>1, <1>4, BegunMore DEF Linked
    <2>3. Asked(m.out, r, K)
      BY <1>1, <1>4, AskedMore DEF Linked
    <2>4. QED
      BY <1>3, <1>4, <2>1, <2>2, <2>3 DEF Linked
  <1>5. QED
    BY <1>2, <1>4 DEF Works

\* A tunnel port is claimed while there is room.
LEMMA RequestWorks ==
  ASSUME NEW m \in Main
  PROVE  Works(m, requestTunnelPort(m)) /\ Works(m, onGatewayReady(m))
  <1> DEFINE n == ensureStarted(m)
             d == [do |-> "claim", for |-> Tunnel]
  <1>1. n \in Main /\ Works(m, n) /\ n.held = m.held
    BY StartedKeeps, StartedWorks DEF Keeps
  <1>2. inFlight(n, Tunnel) => inFlight(m, Tunnel)
    <2>1. n = m \/ (n.out = Append(m.out, [do |-> "start"]) /\ n.events = m.events)
      BY DEF ensureStarted, Main
    <2> DEFINE r == Append(m.out, [do |-> "start"])
    <2>2. \A i \in 1..Len(r) : r[i].do = "claim" => i \in 1..Len(m.out) /\ r[i] = m.out[i]
      <3>1. m.out \in Seq(Message) /\ [do |-> "start"] \in Message
        BY DEF Main, Message
      <3>2. QED
        BY <3>1, Grown
    <2> HIDE DEF n, r
    <2>3. QED
      BY <2>1, <2>2 DEF inFlight, r
  <1> HIDE DEF n
  <1>3. ASSUME ~inFlight(m, Tunnel), ~(Len(HeldFor(m, Tunnel)) >= Cap) PROVE Works(n, submit(n, Tunnel))
    <2> DEFINE r == Append(n.out, d)
               k == [n EXCEPT !.out = r]
    <2>1. d \in Message /\ d.do = "claim" /\ n.out \in Seq(Message) /\ n.events \in Seq(Event)
      BY <1>1 DEF Message, Main, Purposes
    <2>2. submit(n, Tunnel) = k
      BY DEF submit
    <2> HIDE DEF d
    <2>3. k.held = n.held /\ k.events = n.events /\ k.out = r /\ k.gateway = n.gateway
      BY <1>1 DEF Main
    <2> HIDE DEF k
    <2>4. ~inFlight(n, Tunnel) /\ ~(Len(HeldFor(n, Tunnel)) >= Cap)
      BY <1>1, <1>2, <1>3 DEF HeldFor
    <2>5. ASSUME NEW K, NEW up, NEW gone, NEW x, Linked(n, K, up, gone, x) PROVE Linked(k, K, up, gone, x)
      <3>1. Agree(ToSet(n.held), r, n.events, K, gone, x)
        BY <2>1, <2>5, AskMessage DEF Linked
      <3>2. Begun(n.gateway, r, n.events, up)
        BY <2>1, <2>5, BegunMore DEF Linked
      <3>3. Cardinality(OfTunnel(K)) < Cap
        BY <1>1, <2>4, <2>5, RoomFor DEF Linked
      <3>4. \A i \in 1..Len(n.out) : ~AsksAt(n.out, i, Tunnel)
        BY <2>4 DEF inFlight, AsksAt
      <3>5. Asked(r, n.events, K)
        BY <2>1, <2>5, <3>3, <3>4, AskedMore DEF Linked
      <3>6. QED
        BY <2>3, <2>5, <3>1, <3>2, <3>5 DEF Linked
    <2>6. QED
      BY <2>2, <2>5 DEF Works
  <1>4. Works(n, answerLater(n, Tunnel, 0))
    BY <1>1, AnswerWorks DEF Purposes
  <1>5. requestTunnelPort(m) = IF inFlight(m, Tunnel) \/ Len(HeldFor(m, Tunnel)) >= Cap THEN m
                               ELSE IF Refused(m) THEN answerLater(n, Tunnel, 0) ELSE submit(n, Tunnel)
    BY DEF requestTunnelPort, claimTunnelPort, n
  <1>6. Works(m, requestTunnelPort(m))
    BY <1>1, <1>3, <1>4, <1>5, WorksOn
  <1>7. QED
    BY <1>6, WorksOn DEF onGatewayReady

\* A stream claims the port of its slot.
LEMMA MediaWorks ==
  ASSUME NEW m \in Main, NEW s \in Slots
  PROVE  Works(m, claimMediaPort(m, s))
  <1> DEFINE n == ensureStarted(m)
             w == HeldFor(m, s)
  <1>1. n \in Main /\ Works(m, n)
    BY StartedKeeps, StartedWorks DEF Keeps
  <1>2. s \in Purposes /\ s # Tunnel
    BY PortAssumption DEF Purposes
  <1>3. claimMediaPort(m, s) = IF Refused(m) THEN answerLater(n, s, 0)
                               ELSE IF w # <<>> THEN answerLater(n, s, w[1].port)
                               ELSE submit(n, s)
    BY DEF claimMediaPort
  <1>4. w # <<>> => w[1].port \in PortsOf(s)
    <2> DEFINE T == {c \in Claim : c.for = s}
    <2>1. w \in Seq(T)
      BY <1>2, HeldForType
    <2>2. \A c \in T : c.port \in PortsOf(s)
      BY DEF Claim
    <2> HIDE DEF T, w
    <2>3. QED
      BY <2>1, <2>2
  <1> HIDE DEF n, w
  <1>5. Works(n, answerLater(n, s, 0)) /\ Works(n, submit(n, s))
    BY <1>1, <1>2, AnswerWorks, SubmitWorks
  <1>6. w # <<>> => Works(n, answerLater(n, s, w[1].port))
    BY <1>1, <1>2, <1>4, AnswerWorks
  <1>7. QED
    BY <1>1, <1>3, <1>5, <1>6, WorksOn

\* The answer to the tunnel's claim is acted upon.
LEMMA AnsweredWorks ==
  ASSUME NEW m \in Main, NEW port \in TunnelPorts \cup {0}, NEW fails, NEW refused
  PROVE  Works(m, TunnelClaimed(m, port, fails, refused))
  <1> DEFINE q == Append(m.free, port)
             more == [m EXCEPT !.free = q]
             served == serveWaitingPeers(more, fails, refused)
             asked == requestTunnelPort(served)
  <1>1. CASE port = 0
    <2>1. Works(m, giveUpWaiting(m, fails, refused))
      BY GivenUp, WorksOn
    <2>2. QED
      BY <1>1, <2>1 DEF TunnelClaimed
  <1>2. CASE port # 0
    <2>1. q \in Seq(TunnelPorts)
      BY <1>2 DEF Main
    <2>2. TunnelClaimed(m, port, fails, refused) =
            IF served.waiting = <<>> THEN served
            ELSE IF inFlight(asked, Tunnel) THEN asked
            ELSE giveUpWaiting(asked, fails, refused)
      BY <1>2 DEF TunnelClaimed
    <2> HIDE DEF q
    <2>3. more \in Main /\ Calm(m, more)
      BY <2>1 DEF Main, Calm
    <2> HIDE DEF more
    <2>4. served \in Main /\ Works(m, served)
      BY <2>3, ServedOn, WorksOn DEF Calm
    <2> HIDE DEF served
    <2>5. asked \in Main /\ Works(m, asked)
      BY <2>4, RequestKeeps, RequestWorks, WorksOn DEF Keeps
    <2> HIDE DEF asked
    <2>6. Works(m, giveUpWaiting(asked, fails, refused))
      BY <2>5, GivenUp, WorksOn
    <2>7. QED
      BY <2>2, <2>4, <2>5, <2>6
  <1>3. QED
    BY <1>1, <1>2

\* A hole that is lost is forgotten.
LEMMA LostWorks ==
  ASSUME NEW m \in Main, NEW c \in Claim, NEW K, NEW up, NEW gone, NEW x, NEW still,
         Linked(m, K, up, gone, x), c \in gone, gone \ {c} \subseteq still, still \subseteq gone
  PROVE  Linked(PortLost(m, c), K, up, still, x)
  <1> DEFINE h == Without(m.held, c)
             w == Without(m.free, c.port)
             less == [m EXCEPT !.held = h]
             off == [less EXCEPT !.free = w]
  <1>1. /\ h \in Seq(Claim) /\ ToSet(h) = ToSet(m.held) \ {c} /\ \A d : Once(m.held, d) => Once(h, d)
        /\ w \in Seq(TunnelPorts)
    BY WithoutThose DEF Main
  <1>2. PortLost(m, c) = IF c.for # Tunnel THEN less
                         ELSE IF off.free = <<>> THEN requestTunnelPort(off) ELSE off
    BY DEF PortLost, Main
  <1> HIDE DEF h, w
  <1>3. /\ less \in Main /\ less.held = h /\ less.out = m.out /\ less.events = m.events
        /\ less.gateway = m.gateway /\ less.waiting = m.waiting
    BY <1>1 DEF Main
  <1> HIDE DEF less
  <1>4. Linked(less, K, up, still, x)
    <2>1. Agree(ToSet(h), m.out, m.events, K, still, x)
      BY <1>1, Forgotten DEF Linked
    <2>2. HeldOnce(h, x)
      BY <1>1 DEF Linked, HeldOnce
    <2>3. QED
      BY <1>3, <2>1, <2>2 DEF Linked
  <1>5. off \in Main /\ Calm(less, off)
    BY <1>1, <1>3 DEF Main, Calm
  <1> HIDE DEF off
  <1>6. Works(less, off) /\ Works(off, requestTunnelPort(off))
    BY <1>5, WorksOn, RequestWorks
  <1>7. QED
    BY <1>2, <1>4, <1>6 DEF Works

\* All holes that are lost are forgotten, one after the other.
LEMMA RenewedWorks ==
  ASSUME NEW m \in Main, NEW claims \in SUBSET Claim
  PROVE  LET k == onRenewed(m, claims)
         IN  /\ \A K, up, x : Linked(m, K, up, claims, x) => Linked(k, K, up, {}, x)
             /\ Handed(m, {}, 0) => Handed(k, {}, 0)
  <1> DEFINE k == onRenewed(m, claims)
  <1>1. PICK list, g : Renews(m, claims, list, g) /\ k = g[Len(list)]
    BY RenewTurns
  <1> DEFINE n == Len(list)
             later(i) == {list[j] : j \in {l \in 1..n : l > i}}
  <1>2. list \in Seq(Claim) /\ n \in Nat /\ \A i \in 1..n : list[i] \in Claim
    BY <1>1 DEF Renews
  <1>3. later(0) = claims /\ later(n) = {}
    BY <1>1, <1>2, Somewhere DEF Renews
  <1>4. ASSUME NEW i \in 1..n
        PROVE  /\ later(i - 1) \ {list[i]} \subseteq later(i) /\ later(i) \subseteq later(i - 1)
               /\ list[i] \in later(i - 1)
    <2>1. \A j \in 1..n : j > i - 1 <=> (j > i \/ j = i)
      BY <1>2
    <2>2. QED
      BY <1>2, <2>1
  <1>5. /\ g[0] = m /\ 0 \in 0..n /\ n \in 0..n
        /\ \A i \in 1..n : i - 1 \in 0..n /\ i \in 0..n
        /\ \A i \in 0..n : g[i] \in Main
        /\ \A i \in 1..n : g[i] = PortLost(g[i - 1], list[i])
    BY <1>1, <1>2 DEF Renews
  <1>6. k = g[n]
    BY <1>1
  <1> HIDE DEF later, n, k
  <1>7. ASSUME NEW K, NEW up, NEW x, Linked(m, K, up, claims, x) PROVE Linked(k, K, up, {}, x)
    <2> DEFINE Good(i) == Linked(g[i], K, up, later(i), x)
               I == {i \in 0..n : Good(i)}
    <2>1. 0 \in I
      BY <1>3, <1>5, <1>7
    <2>2. ASSUME NEW i \in 1..n, i - 1 \in I PROVE i \in I
      <3>1. Linked(g[i - 1], K, up, later(i - 1), x) /\ g[i - 1] \in Main
        BY <1>5, <2>2
      <3>2. Linked(PortLost(g[i - 1], list[i]), K, up, later(i), x)
        BY <1>2, <1>4, <3>1, LostWorks
      <3>3. QED
        BY <1>5, <3>2
    <2>3. \A i \in I : Good(i)
      OBVIOUS
    <2> HIDE DEF I
    <2>4. Good(n)
      BY <1>2, <1>5, <2>1, <2>2, <2>3, Upward
    <2>5. QED
      BY <1>3, <1>6, <2>4
  <1>8. ASSUME Handed(m, {}, 0) PROVE Handed(k, {}, 0)
    <2> DEFINE Good(i) == Handed(g[i], {}, 0)
               I == {i \in 0..n : Good(i)}
    <2>1. 0 \in I
      BY <1>5, <1>8
    <2>2. ASSUME NEW i \in 1..n, i - 1 \in I PROVE i \in I
      <3>1. Handed(g[i - 1], {}, 0) /\ g[i - 1] \in Main
        BY <1>5, <2>2
      <3>2. Handed(PortLost(g[i - 1], list[i]), {}, 0)
        BY <1>2, <3>1, LostHands
      <3>3. QED
        BY <1>5, <3>2
    <2>3. \A i \in I : Good(i)
      OBVIOUS
    <2> HIDE DEF I
    <2>4. Good(n)
      BY <1>2, <1>5, <2>1, <2>2, <2>3, Upward
    <2>5. QED
      BY <1>6, <2>4
  <1>9. QED
    BY <1>7, <1>8 DEF k

\* The first call is taken off: what Begun and Asked say of the others stays.
LEMMA CallTaken ==
  ASSUME NEW g, NEW o \in Seq(Message), NEW q \in Seq(Event), NEW K, NEW up, q # <<>>
  PROVE  /\ Asked(o, q, K) => Asked(o, Tail(q), K)
         /\ Begun(g, o, q, up) => Begun(g, o, Tail(q), up)
         /\ Begun(g, o, q, up) /\ Head(q).ev = "discovered" =>
               /\ Head(q).ok => Begun("Ready", o, Tail(q), up)
               /\ ~Head(q).ok => Begun("Missing", o, Tail(q), up)
         /\ Asked(o, q, K) /\ Head(q).ev = "answer" /\ Head(q).for = Tunnel => Head(q).port = 0
  <1> DEFINE t == Tail(q)
             n == Len(t)
             e == Head(q)
  <1>1. /\ q[1] = e /\ 1 \in 1..Len(q) /\ n \in Nat
        /\ \A i \in 1..n : i + 1 \in 1..Len(q) /\ i + 1 # 1 /\ t[i] = q[i + 1]
    BY Shorn
  <1>2. \A i, j \in 1..n : i + 1 = j + 1 => i = j
    OBVIOUS
  <1>3. e \in Event
    BY Shorn
  <1> HIDE DEF t, n, e
  <1>4. NoneComes(q) => NoneComes(t)
    BY <1>1 DEF NoneComes, n
  <1>5. Asked(o, q, K) => Asked(o, t, K)
    BY <1>1 DEF Asked, n
  <1>6. ASSUME Begun(g, o, q, up) PROVE Begun(g, o, t, up)
    <2>1. \A i \in 1..Len(o) : o[i].do = "start" =>
            /\ g = "Discovering" /\ ~up /\ NoneComes(t)
            /\ \A j \in 1..n : t[j].ev # "discovered"
            /\ \A h \in 1..Len(o) : o[h].do = "start" => h = i
      BY <1>1, <1>4, <1>6 DEF Begun
    <2>2. \A j \in 1..n : t[j].ev = "discovered" =>
            /\ g = "Discovering" /\ up = t[j].ok
            /\ ~t[j].ok => NoneComes(t)
            /\ \A h \in 1..n : t[h].ev = "discovered" => h = j
      <3>1. ASSUME NEW j \in 1..n, t[j].ev = "discovered"
            PROVE  /\ g = "Discovering" /\ up = q[j + 1].ok
                   /\ ~q[j + 1].ok => NoneComes(q)
                   /\ \A h \in 1..Len(q) : q[h].ev = "discovered" => h = j + 1
        <4>1. j + 1 \in 1..Len(q) /\ q[j + 1].ev = "discovered"
          BY <1>1, <3>1
        <4>2. QED
          BY <1>6, <4>1 DEF Begun
      <3>2. ASSUME NEW j \in 1..n, t[j].ev = "discovered"
            PROVE  up = t[j].ok /\ (~t[j].ok => NoneComes(t))
        <4>1. t[j] = q[j + 1]
          BY <1>1
        <4>2. QED
          BY <1>4, <3>1, <3>2, <4>1
      <3>3. \A j, h \in 1..n : t[j].ev = "discovered" /\ t[h].ev = "discovered" => h = j
        BY <1>1, <1>2, <3>1
      <3>4. QED
        BY <3>1, <3>2, <3>3
    <2>3. QED
      BY <1>4, <1>6, <2>1, <2>2 DEF Begun, n
  <1>7. ASSUME Begun(g, o, q, up), e.ev = "discovered"
        PROVE  /\ e.ok => Begun("Ready", o, t, up)
               /\ ~e.ok => Begun("Missing", o, t, up)
    <2>1. /\ up = e.ok /\ (~e.ok => NoneComes(q))
          /\ \A h \in 1..Len(q) : q[h].ev = "discovered" => h = 1
          /\ \A i \in 1..Len(o) : o[i].do # "start"
      BY <1>1, <1>7 DEF Begun
    <2>2. \A j \in 1..n : t[j].ev # "discovered"
      BY <1>1, <2>1
    <2>3. e.ok => Begun("Ready", o, t, up)
      BY <2>1, <2>2 DEF Begun, n
    <2>4. ~e.ok => Begun("Missing", o, t, up)
      BY <1>4, <2>1, <2>2 DEF Begun, n
    <2>5. QED
      BY <2>1, <2>3, <2>4
  <1>8. Asked(o, q, K) /\ e.ev = "answer" /\ e.for = Tunnel => e.port = 0
    BY <1>1 DEF Asked
  <1>9. QED
    BY <1>5, <1>6, <1>7, <1>8 DEF t, e

\* The first message is taken off.
LEMMA MessageTaken ==
  ASSUME NEW g, NEW o \in Seq(Message), NEW q \in Seq(Event), NEW K, NEW up, o # <<>>
  PROVE  /\ Asked(o, q, K) => Asked(Tail(o), q, K)
         /\ Begun(g, o, q, up) => Begun(g, Tail(o), q, up)
         /\ Asked(o, q, K) /\ AsksAt(o, 1, Tunnel) =>
               /\ Cardinality(OfTunnel(K)) < Cap
               /\ \A i \in 1..Len(Tail(o)) : ~AsksAt(Tail(o), i, Tunnel)
  <1> DEFINE t == Tail(o)
             n == Len(t)
  <1>1. /\ 1 \in 1..Len(o) /\ n \in Nat
        /\ \A i \in 1..n : i + 1 \in 1..Len(o) /\ i + 1 # 1 /\ t[i] = o[i + 1]
    BY Shorn
  <1>2. \A i, j \in 1..n : i + 1 = j + 1 => i = j
    OBVIOUS
  <1> HIDE DEF t, n
  <1>3. \A i \in 1..n : AsksAt(t, i, Tunnel) => AsksAt(o, i + 1, Tunnel)
    BY <1>1 DEF AsksAt
  <1>4. ASSUME Asked(o, q, K) PROVE Asked(t, q, K)
    BY <1>1, <1>2, <1>3, <1>4 DEF Asked, n
  <1>5. ASSUME Begun(g, o, q, up) PROVE Begun(g, t, q, up)
    <2>1. \A i \in 1..n : t[i].do = "start" =>
            /\ g = "Discovering" /\ ~up /\ NoneComes(q)
            /\ \A j \in 1..Len(q) : q[j].ev # "discovered"
            /\ \A h \in 1..n : t[h].do = "start" => h = i
      BY <1>1, <1>2, <1>5 DEF Begun
    <2>2. QED
      BY <1>5, <2>1 DEF Begun, n
  <1>6. ASSUME Asked(o, q, K), AsksAt(o, 1, Tunnel)
        PROVE  /\ Cardinality(OfTunnel(K)) < Cap
               /\ \A i \in 1..n : ~AsksAt(t, i, Tunnel)
    BY <1>1, <1>3, <1>6 DEF Asked
  <1>7. QED
    BY <1>4, <1>5, <1>6 DEF t, n

-----------------------------------------------------------------------------
(***************************************************************************)
(* The steps, for the holes.                                               *)
(***************************************************************************)

\* A browser that begins to wait.
LEMMA WaitHands ==
  ASSUME NEW m \in Main, NEW x \in Sessions, Handed(m, {}, 0), m.peers[x].at = "new"
  PROVE  LET n == [m EXCEPT !.peers[x].at = "waiting", !.waiting = Append(@, x)]
         IN  n \in Main /\ Handed(n, {}, 0) /\ Works(m, n)
  <1> DEFINE w == Append(m.waiting, x)
             ps == [m.peers EXCEPT ![x].at = "waiting"]
             Peer == [at : {"new", "waiting", "up", "gone"}, port : TunnelPorts \cup {0}]
             k == [m.peers[x] EXCEPT !.at = "waiting"]
             o == [m EXCEPT !.peers = ps]
             n == [o EXCEPT !.waiting = w]
  <1>1. m.waiting \in Seq(Sessions) /\ m.peers \in [Sessions -> Peer]
    BY DEF Main
  <1>2. k \in Peer /\ k.at = "waiting" /\ k.port = m.peers[x].port
    BY <1>1
  <1>3. ps = [m.peers EXCEPT ![x] = k]
    BY <1>1
  <1>4. m.peers[x].port = 0
    BY DEF Handed
  <1>5. x \notin ToSet(m.waiting)
    BY DEF Handed
  <1>6. w \in Seq(Sessions) /\ ToSet(w) = ToSet(m.waiting) \cup {x} /\ (Distinct(m.waiting) => Distinct(w))
    BY <1>1, <1>5, OneMore DEF Distinct
  <1>7. [m EXCEPT !.peers[x].at = "waiting", !.waiting = Append(@, x)] = n
    BY DEF Main
  <1> HIDE DEF k, Peer, ps, w
  <1>8. ps \in [Sessions -> Peer] /\ ps[x] = k /\ \A y \in Sessions : y # x => ps[y] = m.peers[y]
    BY <1>1, <1>2, <1>3
  <1>9. o \in Main /\ o.out = m.out /\ o.events = m.events /\ o.held = m.held /\ o.gateway = m.gateway
        /\ o.free = m.free /\ o.waiting = m.waiting /\ o.peers = ps
    BY <1>8 DEF Main, Peer
  <1> HIDE DEF o
  <1>10. n \in Main /\ n.out = m.out /\ n.events = m.events /\ n.held = m.held /\ n.gateway = m.gateway
         /\ n.free = m.free /\ n.waiting = w /\ n.peers = ps
    BY <1>6, <1>9 DEF Main
  <1> HIDE DEF n
  <1>11. HeldPorts(n) = HeldPorts(m)
    BY <1>10 DEF HeldPorts, HeldFor
  <1>12. Bound(n) = Bound(m)
    <2>1. \A y \in Sessions : ps[y].at = "up" <=> m.peers[y].at = "up"
      BY <1>2, <1>8
    <2>2. \A y \in Sessions : ps[y].at = "up" => ps[y].port = m.peers[y].port
      BY <1>2, <1>8
    <2>3. QED
      BY <1>10, <2>1, <2>2 DEF Bound
  <1>13. \A y \in Sessions : ps[y].at = "waiting" <=> y \in ToSet(w)
    BY <1>2, <1>6, <1>8 DEF Handed
  <1>14. \A y \in Sessions : ps[y].at # "up" => ps[y].port = 0
    BY <1>2, <1>4, <1>8 DEF Handed
  <1>15. Handed(n, {}, 0)
    BY <1>6, <1>10, <1>11, <1>12, <1>13, <1>14 DEF Handed
  <1>16. Works(m, n)
    BY <1>10 DEF Works, Linked
  <1>17. QED
    BY <1>7, <1>10, <1>15, <1>16

\* A browser that comes is connected, or waits.
LEMMA OpenedHands ==
  ASSUME NEW m \in Main, NEW x \in Sessions, NEW fails, NEW refused,
         Handed(m, {}, 0), m.peers[x].at = "new"
  PROVE  /\ Handed(startPeer(m, x, fails, refused), {}, 0) /\ Works(m, startPeer(m, x, fails, refused))
         /\ Handed(createPeerConnection(m, x, 0, fails, refused), {}, 0)
         /\ Works(m, createPeerConnection(m, x, 0, fails, refused))
         /\ LET n == requestTunnelPort([m EXCEPT !.peers[x].at = "waiting", !.waiting = Append(@, x)])
            IN  Handed(n, {}, 0) /\ Works(m, n)
  <1> DEFINE k == [m EXCEPT !.peers[x].at = "waiting", !.waiting = Append(@, x)]
             n == requestTunnelPort(k)
             s == startPeer(m, x, fails, refused)
             c == createPeerConnection(m, x, 0, fails, refused)
             none == {}
  <1>1. none \ {x} = none
    OBVIOUS
  <1>2. x \notin ToSet(m.waiting)
    BY DEF Handed
  <1>3. Leaves(m, s, none, x)
    BY StartHands
  <1>4. Leaves(m, c, none, x)
    BY <1>2, ConnectHands
  <1>5. Works(m, s) /\ Works(m, c)
    BY StartCalm, ConnectCalm, WorksOn
  <1>6. k \in Main /\ Handed(k, none, 0) /\ Works(m, k)
    BY WaitHands
  <1> HIDE DEF k, s, c, none
  <1>7. Handed(s, none, 0) /\ Handed(c, none, 0)
    BY <1>1, <1>3, <1>4 DEF Leaves
  <1>8. Handed(n, none, 0) /\ Works(m, n)
    BY <1>6, AllocatorSame, SameHands, RequestWorks, WorksOn
  <1>9. QED
    BY <1>5, <1>7, <1>8 DEF k, s, c, none

\* The worker thread has one hole at most on a port.
Apart(K) == \A c, d \in K : c.port = d.port => c = d

\* What holds of the holes.
Accounts ==
    /\ Linked(main, core.held, core.up, {}, crossed)
    /\ Handed(main, {}, 0)
    /\ Apart(core.held)

\* The steps of the main thread that neither forget a hole nor hear of one.
LEMMA MainAccounts ==
  Known /\ Accounts
  /\ (\/ Switch \/ Online \/ discover
      \/ \E x \in Sessions : onSessionOpened(x) \/ ClaimWaitTimeout(x) \/ onSessionClosed(x)
      \/ \E s \in Slots : StreamClaims(s)) => Accounts'
  <1> SUFFICES ASSUME Known, Accounts,
                      \/ Switch \/ Online \/ discover
                      \/ \E x \in Sessions : onSessionOpened(x) \/ ClaimWaitTimeout(x) \/ onSessionClosed(x)
                      \/ \E s \in Slots : StreamClaims(s)
               PROVE  Accounts'
    OBVIOUS
  <1>1. main \in Main /\ Handed(main, {}, 0)
    BY DEF Known, Accounts
  <1>2. core' = core /\ crossed' = crossed
    BY DEF Switch, Online, discover, onSessionOpened, ClaimWaitTimeout, onSessionClosed, StreamClaims
  <1>3. ASSUME Works(main, main'), Handed(main', {}, 0) PROVE Accounts'
    <2>1. Linked(main', core.held, core.up, {}, crossed)
      BY <1>3 DEF Accounts, Works
    <2>2. Linked(main', core'.held, core'.up, {}, crossed')
      BY <1>2, <2>1
    <2>3. Handed(main', {}, 0) /\ Apart(core'.held)
      BY <1>2, <1>3 DEF Accounts
    <2>4. QED
      BY <2>2, <2>3 DEF Accounts, Linked, Handed, HeldPorts, HeldFor, Bound
  <1>4. CASE Switch
    <2>1. main' = [main EXCEPT !.enabled = ~@]
      BY <1>4 DEF Switch
    <2>2. Calm(main, main') /\ Same(main, main')
      BY <1>1, <2>1 DEF Calm, Same, Main
    <2>3. QED
      BY <1>1, <1>3, <2>2, WorksOn, SameHands
  <1>5. CASE Online
    <2>1. main' \in {ensureStarted(main), onGatewayReady(main)}
      BY <1>5 DEF Online
    <2>2. QED
      BY <1>1, <1>3, <2>1, StartedWorks, RequestWorks, AllocatorSame, SameHands
  <1>6. CASE discover
    <2>1. main.gateway \in {"Unknown", "Missing"}
          /\ main' = [main EXCEPT !.gateway = "Discovering", !.out = Append(@, [do |-> "start"])]
      BY <1>6 DEF discover
    <2>2. Same(main, main')
      BY <1>1, <2>1 DEF Same, Main
    <2>3. QED
      BY <1>1, <1>3, <2>1, <2>2, StartWorks, SameHands
  <1>7. ASSUME NEW x \in Sessions, onSessionOpened(x) PROVE Accounts'
    <2> DEFINE m == ensureStarted(main)
               open(k) == requestTunnelPort([k EXCEPT !.peers[x].at = "waiting", !.waiting = Append(@, x)])
    <2>1. main.peers[x].at = "new"
      BY <1>7 DEF onSessionOpened
    <2>2. PICK fails, refused :
            main' \in {startPeer(main, x, fails, refused), createPeerConnection(main, x, 0, fails, refused),
                       createPeerConnection(m, x, 0, fails, refused), open(m)}
      BY <1>7 DEF onSessionOpened
    <2>3. m \in Main /\ Works(main, m) /\ Handed(m, {}, 0) /\ m.peers[x].at = "new"
      BY <1>1, <2>1, StartedKeeps, StartedWorks, AllocatorSame, SameHands DEF Keeps
    <2> HIDE DEF m
    <2>4. /\ Handed(startPeer(main, x, fails, refused), {}, 0) /\ Works(main, startPeer(main, x, fails, refused))
          /\ Handed(createPeerConnection(main, x, 0, fails, refused), {}, 0)
          /\ Works(main, createPeerConnection(main, x, 0, fails, refused))
      BY <1>1, <2>1, OpenedHands
    <2>5. /\ Handed(createPeerConnection(m, x, 0, fails, refused), {}, 0)
          /\ Works(m, createPeerConnection(m, x, 0, fails, refused))
          /\ Handed(open(m), {}, 0) /\ Works(m, open(m))
      BY <2>3, OpenedHands
    <2> HIDE DEF open
    <2>6. QED
      BY <1>3, <2>2, <2>3, <2>4, <2>5, WorksOn
  <1>8. ASSUME NEW x \in Sessions, ClaimWaitTimeout(x) PROVE Accounts'
    <2> DEFINE none == {}
    <2>1. PICK fails, refused : main' = startPeer(main, x, fails, refused)
      BY <1>8 DEF ClaimWaitTimeout
    <2>2. main.peers[x].at # "up"
      BY <1>8 DEF ClaimWaitTimeout
    <2>3. Leaves(main, main', none, x)
      BY <1>1, <2>1, <2>2, StartHands
    <2>4. Works(main, main')
      BY <1>1, <2>1, StartCalm, WorksOn
    <2>5. none \ {x} = none
      OBVIOUS
    <2> HIDE DEF none
    <2>6. Handed(main', none, 0)
      BY <2>3, <2>5 DEF Leaves
    <2>7. QED
      BY <1>3, <2>4, <2>6 DEF none
  <1>9. ASSUME NEW x \in Sessions, onSessionClosed(x) PROVE Accounts'
    <2> DEFINE none == {}
    <2>1. main' = dropPeer(main, x)
      BY <1>9 DEF onSessionClosed
    <2>2. Leaves(main, main', none, x)
      BY <1>1, <2>1, DropHands
    <2>3. Works(main, main')
      BY <1>1, <2>1, DropCalm, WorksOn
    <2>4. none \ {x} = none
      OBVIOUS
    <2> HIDE DEF none
    <2>5. Handed(main', none, 0)
      BY <2>2, <2>4 DEF Leaves
    <2>6. QED
      BY <1>3, <2>3, <2>5 DEF none
  <1>10. ASSUME NEW s \in Slots, StreamClaims(s) PROVE Accounts'
    <2>1. main' = claimMediaPort(main, s)
      BY <1>10 DEF StreamClaims
    <2>2. QED
      BY <1>1, <1>3, <2>1, MediaWorks, AllocatorSame, SameHands
  <1>11. QED
    BY <1>4, <1>5, <1>6, <1>7, <1>8, <1>9, <1>10

\* A stream's hole is given back; a claim for its slot may be under way.
LEMMA ReleaseAccounts ==
  ASSUME NEW s \in Slots, Known, Accounts, releaseMediaPort(s)
  PROVE  Accounts'
  <1> DEFINE c == HeldFor(main, s)[1]
             h == Without(main.held, c)
             d == [do |-> "release", claim |-> c]
             r == Append(main.out, d)
             y == crossed \/ inFlight(main, s)
             H == ToSet(main.held)
             o == [main EXCEPT !.held = h]
             n == [o EXCEPT !.out = r]
  <1>1. main \in Main /\ Handed(main, {}, 0) /\ Linked(main, core.held, core.up, {}, crossed)
    BY DEF Known, Accounts
  <1>2. core' = core /\ crossed' = y
    BY DEF releaseMediaPort
  <1>3. HeldFor(main, s) # <<>> /\ main' = n
    BY <1>1 DEF releaseMediaPort, Main
  <1>4. c \in Claim /\ c.for = s
    <2> DEFINE U == {k \in Claim : k.for = s}
               w == HeldFor(main, s)
    <2>1. w \in Seq(U)
      BY <1>1, HeldForType DEF Purposes
    <2> HIDE DEF U, w
    <2>2. w # <<>> => w[1] \in U
      BY <2>1
    <2>3. QED
      BY <1>3, <2>2 DEF U, w
  <1> HIDE DEF c
  <1>5. h \in Seq(Claim) /\ ToSet(h) = H \ {c} /\ \A b : Once(main.held, b) => Once(h, b)
    BY <1>1, WithoutThose DEF Main
  <1>6. d \in Message /\ d.do = "release" /\ d.claim = c
    BY <1>4 DEF Message
  <1>7. c.for # Tunnel
    BY <1>4, PortAssumption
  <1> HIDE DEF d, h
  <1>8. n.held = h /\ n.out = r /\ n.events = main.events /\ n.gateway = main.gateway /\ n.free = main.free
        /\ n.waiting = main.waiting /\ n.peers = main.peers
    BY <1>1 DEF Main
  <1>9. o \in Main /\ n \in Main
    <2>1. o \in Main
      BY <1>1, <1>5 DEF Main
    <2>2. r \in Seq(Message)
      BY <1>1, <1>6 DEF Main
    <2> HIDE DEF o, r
    <2>3. QED
      BY <2>1, <2>2 DEF Main
  <1> HIDE DEF n, o, r
  <1>10. ASSUME ~y
         PROVE  /\ \A j \in 1..Len(main.events) : ~ComesAt(main.events, j, c)
                /\ \A i \in 1..Len(main.out) : ~AsksAt(main.out, i, c.for)
    BY <1>4, <1>10 DEF inFlight, ComesAt, AsksAt
  <1>11. Linked(n, core.held, core.up, {}, y)
    <2>1. crossed => y
      OBVIOUS
    <2> HIDE DEF y
    <2>2. Agree(H \ {c}, r, main.events, core.held, {}, y)
      <3> DEFINE out == main.out
                 q == main.events
                 K == core.held
                 x == crossed
      <3>1. Agree(H, out, q, K, {}, x)
        BY <1>1 DEF Linked
      <3>2. ~y => (\A j \in 1..Len(q) : ~ComesAt(q, j, c)) /\ (\A i \in 1..Len(out) : ~AsksAt(out, i, c.for))
        BY <1>10
      <3>3. x => y
        BY <2>1
      <3> HIDE DEF out, q, K, x, H
      <3>4. Agree(H \ {c}, Append(out, d), q, K, {}, y)
        BY <1>4, <1>6, <1>7, <3>1, <3>2, <3>3, ReleaseMessage
      <3>5. QED
        BY <3>4 DEF out, q, K, H, r
    <2>3. main.out \in Seq(Message) /\ main.events \in Seq(Event)
      BY <1>1 DEF Main
    <2>4. Begun(main.gateway, r, main.events, core.up)
      BY <1>1, <1>6, <2>3, BegunMore DEF Linked, r
    <2>5. Asked(r, main.events, core.held)
      BY <1>1, <1>6, <2>3, AskedMore DEF Linked, r
    <2>6. HeldOnce(h, y)
      BY <1>1, <1>5, <2>1 DEF Linked, HeldOnce, Stale
    <2>7. QED
      BY <1>5, <1>8, <2>2, <2>4, <2>5, <2>6 DEF Linked
  <1>12. Handed(n, {}, 0)
    <2>1. {e \in ToSet(h) : e.for = Tunnel} = {e \in H : e.for = Tunnel}
      BY <1>5, <1>7
    <2>2. HeldPorts(n) = HeldPorts(main)
      <3>1. /\ HeldPorts(main) = {e.port : e \in {f \in H : f.for = Tunnel}}
            /\ HeldPorts(n) = {e.port : e \in {f \in ToSet(h) : f.for = Tunnel}}
        BY <1>1, <1>8, <1>9, HeldPortsThose
      <3>2. QED
        BY <2>1, <3>1
    <2>3. Bound(n) = Bound(main)
      BY <1>8 DEF Bound
    <2>4. QED
      BY <1>1, <1>8, <2>2, <2>3 DEF Handed
  <1>13. Linked(main', core'.held, core'.up, {}, crossed') /\ Handed(main', {}, 0)
    BY <1>2, <1>3, <1>11, <1>12
  <1>14. Apart(core'.held)
    BY <1>2 DEF Accounts
  <1>15. QED
    BY <1>13, <1>14 DEF Accounts, Linked, Handed, HeldPorts, HeldFor, Bound

\* The first call is taken off, if it tells of no hole.
LEMMA QuietTaken ==
  ASSUME NEW H, NEW o, NEW q, NEW K, NEW x, Agree(H, o, q, K, {}, x), q # <<>>, Quiet(Head(q))
  PROVE  Agree(H, o, Tail(q), K, {}, x)
  <1> DEFINE none == {}
  <1>1. q[1] = Head(q)
    BY Shorn DEF Agree, Listed
  <1>2. \A c \in Claim : ~LostAt(q, 1, c) /\ ~ComesAt(q, 1, c)
    BY <1>1, PortAssumption DEF Quiet, LostAt, ComesAt, Claim, PortsOf, Ports
  <1>3. H \subseteq Claim /\ none \subseteq Claim
    BY DEF Agree, Listed
  <1>4. \A c \in Claim : c \notin none
    OBVIOUS
  <1>5. Agree(H, o, q, K, none, x)
    OBVIOUS
  <1> HIDE DEF none
  <1>6. Agree(H, o, Tail(q), K, none, x)
    BY <1>2, <1>3, <1>4, <1>5, CallDone
  <1>7. QED
    BY <1>6 DEF none

\* The first call tells what is lost.
LEMMA LostTaken ==
  ASSUME NEW H, NEW o, NEW q, NEW K, NEW x, Agree(H, o, q, K, {}, x), q # <<>>,
         NEW S \in SUBSET Claim, Head(q).ev = "lost", Head(q).claims = S
  PROVE  Agree(H, o, Tail(q), K, S, x)
  <1> DEFINE none == {}
  <1>1. q[1] = Head(q)
    BY Shorn DEF Agree, Listed
  <1>2. \A c \in Claim : (LostAt(q, 1, c) <=> c \in S) /\ ~ComesAt(q, 1, c)
    BY <1>1 DEF LostAt, ComesAt
  <1>3. H \subseteq Claim /\ none \subseteq Claim
    BY DEF Agree, Listed
  <1>4. \A c \in Claim : c \notin none
    OBVIOUS
  <1>5. Agree(H, o, q, K, none, x)
    OBVIOUS
  <1> HIDE DEF none
  <1>6. QED
    BY <1>2, <1>3, <1>4, <1>5, CallDone

\* The first call tells of a hole.
LEMMA HoleTaken ==
  ASSUME NEW H, NEW o, NEW q, NEW K, NEW x, Agree(H, o, q, K, {}, x), q # <<>>,
         NEW c \in Claim, Head(q).ev = "claimed", Head(q).for = c.for, Head(q).port = c.port
  PROVE  Agree(H \cup {c}, o, Tail(q), K, {}, x) /\ (c \notin H \/ Stale(c, x))
  <1> DEFINE none == {}
             G == H \cup {c}
  <1>1. q[1] = Head(q) /\ 1 \in 1..Len(q) /\ \A i \in 1..Len(q) : ~(i < 1)
    BY Shorn DEF Agree, Listed
  <1>2. \A d \in Claim : ~LostAt(q, 1, d) /\ (ComesAt(q, 1, d) <=> d = c)
    BY <1>1 DEF LostAt, ComesAt, Claim
  <1>3. H \subseteq Claim /\ none \subseteq Claim
    BY DEF Agree, Listed
  <1>4. \A d \in Claim : d \notin none
    OBVIOUS
  <1>5. Agree(H, o, q, K, none, x)
    OBVIOUS
  <1>6. /\ G \subseteq Claim /\ H \subseteq G /\ c \in G /\ \A d \in G : d \in H \/ d = c
    BY <1>3
  <1>7. c \notin H \/ Stale(c, x)
    BY <1>1, <1>2 DEF Agree, Fresh
  <1>8. none = {}
    OBVIOUS
  <1> HIDE DEF none, G
  <1>9. Agree(G, o, Tail(q), K, none, x)
    <2>1. \A d \in G : d \in H \/ ComesAt(q, 1, d)
      BY <1>2, <1>6
    <2>2. \A d \in Claim : ComesAt(q, 1, d) => d \in G /\ none = {}
      BY <1>2, <1>6, <1>8
    <2>3. \A d \in Claim : d \in none \/ LostAt(q, 1, d) <=> d \in none
      BY <1>2
    <2>4. QED
      BY <1>3, <1>5, <1>6, <2>1, <2>2, <2>3, CallDone
  <1>10. QED
    BY <1>7, <1>9 DEF none, G

\* An answer without a port, or to a stream, is acted upon.
LEMMA DeliverAccounts ==
  ASSUME NEW m \in Main, NEW f \in Purposes, NEW port, NEW fails, NEW refused,
         Handed(m, {}, 0), f = Tunnel => port = 0
  PROVE  Works(m, Deliver(m, f, port, fails, refused)) /\ Handed(Deliver(m, f, port, fails, refused), {}, 0)
  <1>1. CASE f = Tunnel
    <2> DEFINE none == 0
    <2>1. Works(m, TunnelClaimed(m, none, fails, refused)) /\ Handed(TunnelClaimed(m, none, fails, refused), {}, 0)
      <3>1. none \in TunnelPorts \cup {0} /\ ~(none # 0) /\ Handed(m, {}, none)
        OBVIOUS
      <3> HIDE DEF none
      <3>2. QED
        BY <3>1, AnsweredWorks, AnsweredHands
    <2>2. Deliver(m, f, port, fails, refused) = TunnelClaimed(m, 0, fails, refused)
      BY <1>1 DEF Deliver
    <2>3. QED
      BY <2>1, <2>2
  <1>2. CASE f # Tunnel
    BY <1>2, WorksOn DEF Deliver
  <1>3. QED
    BY <1>1, <1>2

\* A hole is handed to those who wait for it.
LEMMA HoleAccounts ==
  ASSUME NEW m \in Main, NEW c \in Claim, NEW fails, NEW refused, NEW n \in Main,
         Handed(m, {}, 0), c.for = Tunnel => c \notin ToSet(m.held),
         n.held = Append(m.held, c), n.free = m.free, n.waiting = m.waiting, n.peers = m.peers
  PROVE  LET k == Deliver(n, c.for, c.port, fails, refused)
         IN  Works(n, k) /\ Handed(k, {}, 0)
  <1> DEFINE k == Deliver(n, c.for, c.port, fails, refused)
             H == ToSet(m.held)
             G == ToSet(n.held)
             P == HeldPorts(m)
             Q == HeldPorts(n)
  <1>1. m.held \in Seq(Claim) /\ H \subseteq Claim /\ G = H \cup {c}
    <2>1. m.held \in Seq(Claim)
      BY DEF Main
    <2>2. QED
      BY <2>1, OneMore, Somewhere
  <1>2. /\ P = {d.port : d \in {e \in H : e.for = Tunnel}}
        /\ Q = {d.port : d \in {e \in G : e.for = Tunnel}}
    BY HeldPortsThose
  <1>3. Bound(n) = Bound(m)
    BY DEF Bound
  <1>4. c.for \in Purposes /\ c.port \in PortsOf(c.for) /\ c.port # 0
    BY PortAssumption DEF Claim, PortsOf, Ports
  <1> HIDE DEF H, G, P, Q, k
  <1>5. CASE c.for = Tunnel
    <2>1. c.port \notin P
      <3>1. ASSUME NEW d \in H, d.for = Tunnel, d.port = c.port PROVE d = c
        BY <1>1, <1>5, <3>1 DEF Claim
      <3>2. QED
        BY <1>2, <1>5, <3>1 DEF H
    <2>2. Q = P \cup {c.port}
      BY <1>1, <1>2, <1>5
    <2>3. Handed(n, {}, c.port)
      <3>1. 0 \notin P
        BY HeldForType, PortAssumption DEF Purposes, Ports, P
      <3>2. P \subseteq ToSet(m.free) \cup Bound(m) /\ ToSet(m.free) \subseteq P
        BY <3>1 DEF Handed, P
      <3>3. Q \subseteq ToSet(n.free) \cup Bound(n) \cup {c.port} /\ ToSet(n.free) \subseteq Q
        BY <1>3, <2>2, <3>2
      <3>4. QED
        BY <3>3 DEF Handed, Q
    <2>4. c.port \in Q /\ c.port \notin ToSet(n.free)
      BY <2>1, <2>2 DEF Handed, P
    <2>5. c.port \in TunnelPorts
      BY <1>4, <1>5 DEF PortsOf
    <2>6. k = TunnelClaimed(n, c.port, fails, refused)
      BY <1>5 DEF Deliver, k
    <2>7. Works(n, k) /\ Handed(k, {}, 0)
      <3> DEFINE p == c.port
      <3>1. p \in TunnelPorts \cup {0} /\ Handed(n, {}, p) /\ (p # 0 => p \in HeldPorts(n) /\ p \notin ToSet(n.free))
        BY <2>3, <2>4, <2>5 DEF Q
      <3> HIDE DEF p
      <3>2. Works(n, TunnelClaimed(n, p, fails, refused)) /\ Handed(TunnelClaimed(n, p, fails, refused), {}, 0)
        BY <3>1, AnsweredWorks, AnsweredHands
      <3>3. QED
        BY <2>6, <3>2 DEF p
    <2>8. QED
      BY <2>7 DEF k
  <1>6. CASE c.for # Tunnel
    <2>1. Q = P
      BY <1>1, <1>2, <1>6
    <2>2. Handed(n, {}, 0)
      BY <1>3, <2>1 DEF Handed, P, Q
    <2>3. k = n
      BY <1>6 DEF Deliver, k
    <2>4. QED
      BY <2>2, <2>3, WorksOn DEF k
  <1>7. QED
    BY <1>5, <1>6

\* What the main thread is told of the holes it takes over.
LEMMA EventAccounts == Known /\ Accounts /\ onEvent => Accounts'
  <1> SUFFICES ASSUME Known, Accounts, onEvent
               PROVE  Accounts'
    OBVIOUS
  <1> DEFINE e == Head(main.events)
             q == main.events
             t == Tail(q)
             o == main.out
             K == core.held
             up == core.up
             x == crossed
             H == ToSet(main.held)
             m == [main EXCEPT !.events = t]
             ready == [m EXCEPT !.gateway = "Ready"]
             missing == [m EXCEPT !.gateway = "Missing"]
             c == [for |-> e.for, port |-> e.port]
             h == Append(m.held, c)
             hole == [m EXCEPT !.held = h]
             Links(n) == Linked(n, K, up, {}, x)
  <1>1. main \in Main /\ Handed(main, {}, 0) /\ Links(main) /\ Apart(K) /\ q # <<>> /\ core' = core /\ crossed' = x
    BY DEF Known, Accounts, onEvent
  <1>2. q \in Seq(Event) /\ o \in Seq(Message) /\ e \in Event /\ t \in Seq(Event)
        /\ e = Head(q) /\ t = Tail(q)
    <2>1. q \in Seq(Event) /\ o \in Seq(Message)
      BY <1>1 DEF Main
    <2>2. QED
      BY <1>1, <2>1, Shorn
  <1>3. [main EXCEPT !.events = Tail(@)] = m
    BY <1>1 DEF Main
  <1>4. PICK fails, refused :
          main' = CASE e.ev = "discovered" /\ e.ok -> onGatewayReady(ready)
                    [] e.ev = "discovered" /\ ~e.ok -> giveUpWaiting(missing, fails, refused)
                    [] e.ev = "answer" -> Deliver(m, e.for, e.port, fails, refused)
                    [] e.ev = "lost" -> onRenewed(m, e.claims)
                    [] e.ev = "claimed" /\ m.gateway = "Missing" -> Deliver(m, e.for, 0, fails, refused)
                    [] e.ev = "claimed" /\ m.gateway # "Missing" ->
                          Deliver(IF e.port = 0 THEN m ELSE [m EXCEPT !.held = Append(@, c)],
                                  e.for, e.port, fails, refused)
    <2>1. \E fails, refused :
          main' = CASE e.ev = "discovered" /\ e.ok -> onGatewayReady([m EXCEPT !.gateway = "Ready"])
                    [] e.ev = "discovered" /\ ~e.ok -> giveUpWaiting([m EXCEPT !.gateway = "Missing"], fails, refused)
                    [] e.ev = "answer" -> Deliver(m, e.for, e.port, fails, refused)
                    [] e.ev = "lost" -> onRenewed(m, e.claims)
                    [] e.ev = "claimed" /\ m.gateway = "Missing" -> Deliver(m, e.for, 0, fails, refused)
                    [] e.ev = "claimed" /\ m.gateway # "Missing" ->
                          Deliver(IF e.port = 0 THEN m ELSE [m EXCEPT !.held = Append(@, c)],
                                  e.for, e.port, fails, refused)
      <3> HIDE DEF m
      <3>1. QED
        BY <1>3 DEF onEvent
    <2>2. QED
      BY <2>1
  <1>5. /\ Agree(H, o, q, K, {}, x) /\ Begun(main.gateway, o, q, up) /\ Asked(o, q, K) /\ HeldOnce(main.held, x)
    BY <1>1 DEF Linked
  <1>6. ASSUME e.ev \in {"claimed", "answer"}
        PROVE  e.for \in Purposes /\ e.port \in PortsOf(e.for) \cup {0}
    BY <1>2, <1>6 DEF Event
  <1> HIDE DEF e, t
  <1>7. /\ m \in Main /\ m.held = main.held /\ m.out = o /\ m.events = t /\ m.gateway = main.gateway
        /\ m.free = main.free /\ m.waiting = main.waiting /\ m.peers = main.peers
    BY <1>1, <1>2 DEF Main
  <1> HIDE DEF m
  <1>8. [m EXCEPT !.held = Append(@, c)] = hole
    BY <1>7 DEF Main
  <1>9. Same(main, m) /\ Handed(m, {}, 0)
    BY <1>1, <1>7, SameHands DEF Same
  <1>10. /\ Asked(o, t, K) /\ Begun(main.gateway, o, t, up)
         /\ e.ev = "discovered" => /\ e.ok => Begun("Ready", o, t, up)
                                   /\ ~e.ok => Begun("Missing", o, t, up)
         /\ e.ev = "answer" /\ e.for = Tunnel => e.port = 0
         /\ e.ev = "claimed" /\ main.gateway = "Missing" => e.port = 0
    <2> HIDE DEF q, o, K, up, x, H
    <2>1. Asked(o, t, K) /\ Begun(main.gateway, o, t, up)
      BY <1>1, <1>2, <1>5, CallTaken
    <2>2. ASSUME e.ev = "discovered"
          PROVE  (e.ok => Begun("Ready", o, t, up)) /\ (~e.ok => Begun("Missing", o, t, up))
      BY <1>1, <1>2, <1>5, <2>2, CallTaken
    <2>3. e.ev = "answer" /\ e.for = Tunnel => e.port = 0
      BY <1>1, <1>2, <1>5, CallTaken
    <2>4. ASSUME e.ev = "claimed", main.gateway = "Missing" PROVE e.port = 0
      <3>1. NoneComes(q)
        BY <1>5, <2>4 DEF Begun
      <3>2. 1 \in 1..Len(q) /\ q[1] = e
        BY <1>1, <1>2, Shorn
      <3>3. QED
        BY <2>4, <3>1, <3>2 DEF NoneComes
    <2>5. QED
      BY <2>1, <2>2, <2>3, <2>4
  <1>11. ASSUME Quiet(e) PROVE Agree(H, o, t, K, {}, x)
    <2> HIDE DEF q, o, K, x, H
    <2>1. QED
      BY <1>1, <1>5, <1>2, <1>11, QuietTaken
  <1> HIDE DEF q, o, c, h
  <1>12. ASSUME Links(main'), Handed(main', {}, 0) PROVE Accounts'
    <2>1. Linked(main', core'.held, core'.up, {}, crossed')
      BY <1>1, <1>12
    <2>2. Apart(core'.held)
      BY <1>1
    <2>3. QED
      BY <1>12, <2>1, <2>2 DEF Accounts, Linked, Handed, HeldPorts, HeldFor, Bound
  <1>13. ASSUME NEW n, NEW k, Links(n), Works(n, k) PROVE Links(k)
    BY <1>13 DEF Works
  <1>14. ASSUME Quiet(e) PROVE Links(m)
    BY <1>5, <1>7, <1>10, <1>11, <1>14 DEF Linked, H
  <1>15. CASE e.ev = "discovered" /\ e.ok
    <2>1. /\ ready \in Main /\ ready.held = main.held /\ ready.out = o /\ ready.events = t /\ ready.gateway = "Ready"
          /\ Same(m, ready)
      BY <1>7 DEF Main, Same
    <2>2. main' = onGatewayReady(ready)
      BY <1>4, <1>15
    <2> HIDE DEF ready
    <2>3. Agree(H, o, t, K, {}, x)
      BY <1>11, <1>15 DEF Quiet
    <2>4. Begun("Ready", o, t, up)
      BY <1>10, <1>15
    <2>5. Links(ready)
      BY <1>5, <1>10, <2>1, <2>3, <2>4 DEF Linked, H
    <2>6. Handed(ready, {}, 0)
      BY <1>9, <2>1, SameHands
    <2> HIDE DEF Links
    <2>7. QED
      BY <1>12, <1>13, <2>1, <2>2, <2>5, <2>6, RequestWorks, AllocatorSame, SameHands
  <1>16. CASE e.ev = "discovered" /\ ~e.ok
    <2>1. /\ missing \in Main /\ missing.held = main.held /\ missing.out = o /\ missing.events = t
          /\ missing.gateway = "Missing" /\ Same(m, missing)
      BY <1>7 DEF Main, Same
    <2>2. main' = giveUpWaiting(missing, fails, refused)
      BY <1>4, <1>16
    <2> HIDE DEF missing
    <2>3. Agree(H, o, t, K, {}, x)
      BY <1>11, <1>16 DEF Quiet
    <2>4. Begun("Missing", o, t, up)
      BY <1>10, <1>16
    <2>5. Links(missing)
      BY <1>5, <1>10, <2>1, <2>3, <2>4 DEF Linked, H
    <2>6. Handed(missing, {}, 0)
      BY <1>9, <2>1, SameHands
    <2> HIDE DEF Links
    <2>7. Works(missing, main') /\ Handed(main', {}, 0)
      BY <2>1, <2>2, <2>6, GivenUp, WorksOn, GiveUpHands
    <2>8. QED
      BY <1>12, <1>13, <2>5, <2>7
  <1>17. CASE e.ev = "answer"
    <2>1. main' = Deliver(m, e.for, e.port, fails, refused)
      BY <1>4, <1>17
    <2>2. Links(m)
      BY <1>14, <1>17 DEF Quiet
    <2>3. e.for \in Purposes /\ (e.for = Tunnel => e.port = 0)
      BY <1>6, <1>10, <1>17
    <2> HIDE DEF Links
    <2>4. Works(m, main') /\ Handed(main', {}, 0)
      BY <1>7, <1>9, <2>1, <2>3, DeliverAccounts
    <2>5. QED
      BY <1>12, <1>13, <2>2, <2>4
  <1>18. CASE e.ev = "lost"
    <2> DEFINE S == e.claims
               none == {}
    <2>1. main' = onRenewed(m, S)
      BY <1>4, <1>18
    <2>2. S \in SUBSET Claim
      BY <1>2, <1>18 DEF Event
    <2> HIDE DEF S
    <2>3. Agree(H, o, t, K, S, x)
      <3>1. S = e.claims
        BY DEF S
      <3> HIDE DEF K, x, H
      <3>2. QED
        BY <1>1, <1>5, <1>18, <1>2, <2>2, <3>1, LostTaken
    <2>4. Linked(m, K, up, S, x)
      BY <1>5, <1>7, <1>10, <2>3 DEF Linked, H
    <2> HIDE DEF K, up, x
    <2>5. Linked(main', K, up, {}, x) /\ Handed(main', {}, 0)
      BY <1>7, <1>9, <2>1, <2>2, <2>4, RenewedWorks
    <2>6. QED
      BY <1>12, <2>5
  <1>19. CASE e.ev = "claimed" /\ e.port = 0
    <2>1. main' = Deliver(m, e.for, 0, fails, refused)
      BY <1>4, <1>19
    <2>2. Links(m)
      BY <1>14, <1>19 DEF Quiet
    <2>3. e.for \in Purposes
      BY <1>6, <1>19
    <2> HIDE DEF Links
    <2>4. Works(m, main') /\ Handed(main', {}, 0)
      BY <1>7, <1>9, <2>1, <2>3, DeliverAccounts
    <2>5. QED
      BY <1>12, <1>13, <2>2, <2>4
  <1>20. CASE e.ev = "claimed" /\ e.port # 0
    <2>1. main' = Deliver(hole, e.for, e.port, fails, refused)
      BY <1>4, <1>7, <1>8, <1>10, <1>20
    <2>2. c \in Claim /\ c.for = e.for /\ c.port = e.port
      BY <1>6, <1>20 DEF Claim, PortsOf, Ports, c
    <2>3. main.held \in Seq(Claim) /\ h \in Seq(Claim) /\ h = Append(main.held, c)
          /\ ToSet(h) = H \cup {c}
          /\ (\A d : Once(main.held, d) /\ d # c => Once(h, d))
          /\ (c \notin H => Once(h, c))
      <3>1. main.held \in Seq(Claim)
        BY <1>1 DEF Main
      <3>2. QED
        BY <1>7, <2>2, <3>1, OneMore DEF h, H
    <2>4. hole \in Main /\ hole.held = h /\ hole.out = o /\ hole.events = t /\ hole.gateway = main.gateway
          /\ hole.free = m.free /\ hole.waiting = m.waiting /\ hole.peers = m.peers
      BY <1>7, <2>3 DEF Main
    <2> HIDE DEF hole
    <2>5. Agree(H \cup {c}, o, t, K, {}, x) /\ (c \notin H \/ Stale(c, x))
      <3> HIDE DEF K, x, H
      <3>1. QED
        BY <1>1, <1>5, <1>20, <1>2, <2>2, HoleTaken
    <2>6. HeldOnce(h, x)
      <3>1. \A d \in ToSet(h) : d = c \/ d \in H
        BY <2>3
      <3>2. QED
        BY <1>5, <2>3, <2>5, <3>1 DEF HeldOnce, H
    <2>7. Links(hole)
      BY <1>10, <2>3, <2>4, <2>5, <2>6 DEF Linked
    <2>8. c.for = Tunnel => c \notin ToSet(m.held)
      BY <1>7, <2>5 DEF Stale, H
    <2>9. hole.held = Append(m.held, c)
      BY <1>7, <2>3, <2>4
    <2> HIDE DEF Links
    <2>10. Works(hole, main') /\ Handed(main', {}, 0)
      <3>1. main' = Deliver(hole, c.for, c.port, fails, refused)
        BY <2>1, <2>2
      <3>2. QED
        BY <1>7, <1>9, <2>2, <2>4, <2>8, <2>9, <3>1, HoleAccounts
    <2>11. QED
      BY <1>12, <1>13, <2>7, <2>10
  <1>21. e.ev \in {"discovered", "answer", "lost", "claimed"}
    BY <1>2 DEF Event
  <1>22. QED
    BY <1>15, <1>16, <1>17, <1>18, <1>19, <1>20, <1>21

\* The worker thread has looked for a gateway, or has claimed a hole with the one it has.
LEMMA BegunOn ==
  ASSUME NEW g, NEW o \in Seq(Message), NEW q \in Seq(Event), NEW up, NEW e \in Event, Begun(g, o, q, up)
  PROVE  /\ e.ev = "discovered" /\ o # <<>> /\ o[1].do = "start" =>
               Begun(g, Tail(o), Append(q, e), e.ok)
         /\ up /\ e.ev = "claimed" => Begun(g, o, Append(q, e), up)
  <1> DEFINE t == Tail(o)
             r == Append(q, e)
             n == Len(q)
  <1>1. /\ r[n + 1] = e /\ \A i \in 1..n : r[i] = q[i]
        /\ \A i \in 1..Len(r) : i \in 1..n \/ i = n + 1
        /\ n + 1 \in 1..Len(r)
    BY Grown
  <1> HIDE DEF r, n
  <1>2. ASSUME e.ev = "discovered", o # <<>>, o[1].do = "start" PROVE Begun(g, t, r, e.ok)
    <2>1. /\ 1 \in 1..Len(o)
          /\ \A i \in 1..Len(t) : i + 1 \in 1..Len(o) /\ i + 1 # 1 /\ t[i] = o[i + 1]
      BY <1>2, Shorn
    <2> HIDE DEF t
    <2>2. /\ g = "Discovering" /\ NoneComes(q)
          /\ \A j \in 1..n : q[j].ev # "discovered"
          /\ \A h \in 1..Len(o) : o[h].do = "start" => h = 1
      BY <1>2, <2>1 DEF Begun, n
    <2>3. \A i \in 1..Len(t) : t[i].do # "start"
      BY <2>1, <2>2
    <2>4. \A j \in 1..Len(r) : r[j].ev = "discovered" => j = n + 1
      BY <1>1, <2>2
    <2>5. NoneComes(r)
      BY <1>1, <1>2, <2>2 DEF NoneComes, n
    <2>6. \A j \in 1..Len(r) : r[j].ev = "discovered" => r[j].ok = e.ok
      BY <1>1, <2>4
    <2>7. QED
      <3>1. \A j \in 1..Len(r) : r[j].ev = "discovered" =>
               /\ g = "Discovering" /\ e.ok = r[j].ok
               /\ ~r[j].ok => NoneComes(r)
               /\ \A h \in 1..Len(r) : r[h].ev = "discovered" => h = j
        <4>1. ASSUME NEW j \in 1..Len(r), r[j].ev = "discovered"
              PROVE  e.ok = r[j].ok /\ \A h \in 1..Len(r) : r[h].ev = "discovered" => h = j
          BY <2>4, <2>6, <4>1
        <4>2. QED
          BY <2>2, <2>5, <4>1
      <3>2. QED
        BY <2>2, <2>3, <3>1 DEF Begun
  <1>3. ASSUME up, e.ev = "claimed" PROVE Begun(g, o, r, up)
    <2>1. g \notin {"Unknown", "Missing"} /\ \A i \in 1..Len(o) : o[i].do # "start"
      BY <1>3 DEF Begun
    <2>2. ASSUME NEW j \in 1..Len(r), r[j].ev = "discovered"
          PROVE  j \in 1..n /\ r[j] = q[j] /\ q[j].ev = "discovered"
      BY <1>1, <1>3, <2>2
    <2>3. ASSUME NEW j \in 1..n, q[j].ev = "discovered"
          PROVE  /\ g = "Discovering" /\ up = q[j].ok
                 /\ \A h \in 1..n : q[h].ev = "discovered" => h = j
      BY <2>3 DEF Begun, n
    <2>4. ASSUME NEW j \in 1..n, q[j].ev = "discovered" PROVE q[j].ok
      <3>1. up = q[j].ok
        BY <2>3, <2>4
      <3>2. q[j].ok \in BOOLEAN
        BY <2>4 DEF Event, n
      <3>3. QED
        BY <1>3, <3>1, <3>2
    <2>5. \A j \in 1..Len(r) : r[j].ev = "discovered" =>
             /\ g = "Discovering" /\ up = r[j].ok
             /\ ~r[j].ok => NoneComes(r)
             /\ \A h \in 1..Len(r) : r[h].ev = "discovered" => h = j
      BY <2>2, <2>3, <2>4
    <2>6. QED
      BY <2>1, <2>5 DEF Begun
  <1>4. QED
    BY <1>2, <1>3 DEF t, r

\* Fewer holes need less room.
LEMMA AskedLess ==
  ASSUME NEW o, NEW q, NEW K \in SUBSET Claim, NEW L \in SUBSET K, Asked(o, q, K)
  PROVE  Asked(o, q, L)
  <1> DEFINE V == OfTunnel(K)
             U == OfTunnel(L)
  <1>1. V \subseteq Claim /\ U \subseteq V
    BY DEF OfTunnel
  <1> HIDE DEF U, V
  <1>2. IsFiniteSet(V) /\ IsFiniteSet(U)
    BY <1>1, ClaimFinite, FS_Subset
  <1>3. Cardinality(U) <= Cardinality(V) /\ Cardinality(U) \in Nat /\ Cardinality(V) \in Nat
    BY <1>1, <1>2, FS_Subset, FS_CardinalityType
  <1>4. (Cardinality(V) <= Cap => Cardinality(U) <= Cap) /\ (Cardinality(V) < Cap => Cardinality(U) < Cap)
    BY <1>3, PortAssumption
  <1>5. QED
    BY <1>4 DEF Asked, U, V

\* One hole more takes the room there was for it.
LEMMA AskedOne ==
  ASSUME NEW o, NEW q, NEW K \in SUBSET Claim, NEW c \in Claim, Asked(o, q, K),
         c.for = Tunnel => Cardinality(OfTunnel(K)) < Cap /\ \A i \in 1..Len(o) : ~AsksAt(o, i, Tunnel)
  PROVE  Asked(o, q, K \cup {c})
  <1> DEFINE V == OfTunnel(K)
             U == OfTunnel(K \cup {c})
  <1>1. V \subseteq Claim /\ U = IF c.for = Tunnel THEN V \cup {c} ELSE V
    BY DEF OfTunnel
  <1> HIDE DEF U, V
  <1>2. IsFiniteSet(V) /\ Cardinality(V) \in Nat
    BY <1>1, ClaimFinite, FS_Subset, FS_CardinalityType
  <1>3. Cardinality(V \cup {c}) <= Cardinality(V) + 1
    <2>1. Cardinality(V \cup {c}) = IF c \in V THEN Cardinality(V) ELSE Cardinality(V) + 1
      BY <1>2, FS_AddElement
    <2>2. QED
      BY <1>2, <2>1
  <1>4. IsFiniteSet(V \cup {c}) /\ Cardinality(V \cup {c}) \in Nat
    BY <1>2, FS_AddElement, FS_CardinalityType
  <1>5. CASE c.for = Tunnel
    <2>1. Cardinality(V) < Cap /\ \A i \in 1..Len(o) : ~AsksAt(o, i, Tunnel)
      BY <1>5 DEF V
    <2>2. Cardinality(U) <= Cap
      BY <1>1, <1>2, <1>3, <1>4, <1>5, <2>1, PortAssumption
    <2>3. QED
      BY <2>1, <2>2 DEF Asked, U
  <1>6. CASE c.for # Tunnel
    BY <1>1, <1>6 DEF Asked, U, V
  <1>7. QED
    BY <1>5, <1>6

\* The worker thread has done what the first message asked, and says e.
LEMMA PostAccounts ==
  ASSUME NEW e \in Event, main \in Main, Accounts, NEW k, NEW up, crossed' = crossed,
         core'.held = k, core'.up = up, Post(e), Apart(k),
         Agree(ToSet(main.held), Tail(main.out), Append(main.events, e), k, {}, crossed),
         Begun(main.gateway, Tail(main.out), Append(main.events, e), up),
         Asked(Tail(main.out), Append(main.events, e), k)
  PROVE  Accounts'
  <1> DEFINE t == Tail(main.out)
             r == Append(main.events, e)
  <1>1. main' = [main EXCEPT !.out = t, !.events = r]
    BY DEF Post
  <1> HIDE DEF t, r
  <1>2. main'.out = t /\ main'.events = r /\ main'.held = main.held /\ main'.gateway = main.gateway
        /\ Same(main, main')
    BY <1>1 DEF Main, Same
  <1>3. Handed(main', {}, 0)
    BY <1>2, SameHands DEF Accounts
  <1>4. HeldOnce(main'.held, crossed)
    BY <1>2 DEF Accounts, Linked
  <1>5. Agree(ToSet(main'.held), main'.out, main'.events, k, {}, crossed)
    BY <1>2 DEF t, r
  <1>6. Begun(main'.gateway, main'.out, main'.events, up) /\ Asked(main'.out, main'.events, k)
    BY <1>2 DEF t, r
  <1>7. Linked(main', core'.held, core'.up, {}, crossed')
    BY <1>4, <1>5, <1>6 DEF Linked
  <1>8. QED
    BY <1>3, <1>7 DEF Accounts, Linked, Handed, HeldPorts, HeldFor, Bound

\* What the worker thread does with a message, or on its own.
LEMMA WorkerAccounts == Known /\ Accounts /\ (start \/ claim \/ release \/ renew) => Accounts'
  <1> SUFFICES ASSUME Known, Accounts, start \/ claim \/ release \/ renew
               PROVE  Accounts'
    OBVIOUS
  <1> DEFINE o == main.out
             t == Tail(o)
             q == main.events
             K == core.held
             up == core.up
             x == crossed
             H == ToSet(main.held)
             g == main.gateway
  <1>1. /\ main \in Main /\ core \in [up : BOOLEAN, held : SUBSET Claim] /\ K \in SUBSET Claim /\ Apart(K)
        /\ o \in Seq(Message) /\ q \in Seq(Event)
    BY DEF Known, Accounts, Main
  <1>2. Agree(H, o, q, K, {}, x) /\ Begun(g, o, q, up) /\ Asked(o, q, K) /\ HeldOnce(main.held, x)
        /\ Handed(main, {}, 0)
    BY DEF Accounts, Linked
  <1>3. crossed' = x
    BY DEF start, claim, release, renew
  <1>4. ASSUME o # <<>>
        PROVE  /\ o[1] = Head(o) /\ Head(o) \in Message /\ t \in Seq(Message)
               /\ Asked(t, q, K) /\ Begun(g, t, q, up)
               /\ Head(o).do # "release" => Agree(H, t, q, K, {}, x)
    <2>1. o[1] = Head(o) /\ Head(o) \in Message /\ t \in Seq(Message)
      BY <1>1, <1>4, Shorn
    <2> HIDE DEF o, q, K, up, x, H, g
    <2>2. Asked(t, q, K) /\ Begun(g, t, q, up)
      BY <1>1, <1>2, <1>4, MessageTaken
    <2>3. Head(o).do # "release" => Agree(H, t, q, K, {}, x)
      BY <1>2, <1>4, AskDone
    <2>4. QED
      BY <2>1, <2>2, <2>3
  <1>5. ASSUME NEW e \in Event, NEW k, NEW v, Post(e), core' = [up |-> v, held |-> k], Apart(k),
               Agree(H, t, Append(q, e), k, {}, x), Begun(g, t, Append(q, e), v), Asked(t, Append(q, e), k)
        PROVE  Accounts'
    <2>1. core'.held = k /\ core'.up = v
      BY <1>5
    <2>2. QED
      BY <1>1, <1>3, <1>5, <2>1, PostAccounts
  <1>6. \A e \in Event : Asked(t, q, K) /\ t \in Seq(Message) /\ e.ev # "answer" => Asked(t, Append(q, e), K)
    <2> HIDE DEF t, q, K
    <2>1. QED
      BY <1>1, AskedMore
  <1>7. CASE start
    <2>1. PICK ok \in BOOLEAN : core' = [core EXCEPT !.up = ok] /\ Post([ev |-> "discovered", ok |-> ok])
      BY <1>7 DEF start
    <2> DEFINE e == [ev |-> "discovered", ok |-> ok]
    <2>2. e \in Event /\ e.ev = "discovered" /\ e.ok = ok /\ Quiet(e)
      BY DEF Event, Quiet
    <2>3. o # <<>> /\ Head(o).do = "start"
      BY <1>7 DEF start
    <2>4. core' = [up |-> ok, held |-> K]
      BY <1>1, <2>1
    <2>5. Post(e)
      BY <2>1
    <2> HIDE DEF e, o, t, q, K, up, x, H, g
    <2>6. Agree(H, t, Append(q, e), K, {}, x)
      BY <1>4, <2>2, <2>3, QuietCall
    <2>7. Begun(g, t, Append(q, e), ok)
      <3>1. o[1].do = "start"
        BY <1>4, <2>3
      <3>2. Begun(g, Tail(o), Append(q, e), e.ok)
        BY <1>1, <1>2, <2>2, <2>3, <3>1, BegunOn
      <3>3. QED
        BY <2>2, <3>2 DEF t
    <2>8. Asked(t, Append(q, e), K)
      BY <1>4, <1>6, <2>2, <2>3
    <2>9. QED
      BY <1>1, <1>5, <2>2, <2>4, <2>5, <2>6, <2>7, <2>8
  <1>8. CASE claim
    <2> DEFINE f == Head(o).for
               e(p) == [ev |-> "claimed", for |-> f, port |-> p]
               c(p) == [for |-> f, port |-> p]
    <2>1. o # <<>> /\ Head(o).do = "claim"
      BY <1>8 DEF claim
    <2>2. f \in Purposes
      BY <1>4, <2>1 DEF Message
    <2>3. CASE Post(e(0)) /\ core' = core
      <3> DEFINE b == e(0)
      <3>1. b \in Event /\ b.ev = "claimed" /\ b.port = 0 /\ Quiet(b)
        BY <2>2 DEF Event, Quiet
      <3>2. core' = [up |-> up, held |-> K] /\ Post(b)
        BY <1>1, <2>3
      <3> HIDE DEF b, e, f, o, t, q, K, up, x, H, g
      <3>3. Agree(H, t, Append(q, b), K, {}, x)
        BY <1>4, <2>1, <3>1, QuietCall
      <3>4. Begun(g, t, Append(q, b), up)
        BY <1>1, <1>4, <2>1, <3>1, BegunMore
      <3>5. Asked(t, Append(q, b), K)
        BY <1>4, <1>6, <2>1, <3>1
      <3>6. QED
        BY <1>1, <1>5, <3>1, <3>2, <3>3, <3>4, <3>5
    <2>4. CASE \E p \in Candidates(f) :
                  core.up /\ Post(e(p)) /\ core' = [core EXCEPT !.held = @ \cup {c(p)}]
      <3>1. PICK p \in Candidates(f) :
                  core.up /\ Post(e(p)) /\ core' = [core EXCEPT !.held = @ \cup {c(p)}]
        BY <2>4
      <3> DEFINE b == e(p)
                 d == c(p)
                 L == K \cup {d}
      <3>2. p \in PortsOf(f) /\ \A k \in K : k.port # p
        BY DEF Candidates, holds
      <3>3. d \in Claim /\ d.for = f /\ d.port = p
        BY <2>2, <3>2 DEF Claim, PortsOf, Ports
      <3>4. b \in Event /\ b.ev = "claimed" /\ b.for = d.for /\ b.port = d.port
        BY <2>2, <3>2 DEF Event, PortsOf, Ports
      <3>5. core' = [up |-> up, held |-> L] /\ Post(b) /\ up
        BY <1>1, <3>1
      <3>6. d \notin K /\ Apart(L)
        BY <1>1, <3>2, <3>3 DEF Apart
      <3>7. AsksAt(o, 1, d.for)
        BY <1>4, <2>1, <3>3 DEF AsksAt
      <3> HIDE DEF b, d, e, c, f, o, t, q, K, up, x, H, g
      <3>8. Agree(H, t, Append(q, b), L, {}, x)
        <4>1. Agree(H, o, Append(q, b), L, {}, x)
          BY <1>2, <2>1, <3>3, <3>4, <3>6, <3>7, ClaimedCall
        <4>2. Head(o).do # "release"
          BY <2>1
        <4> HIDE DEF L
        <4>3. QED
          BY <2>1, <4>1, <4>2, AskDone DEF t
      <3>9. Begun(g, t, Append(q, b), up)
        BY <1>1, <1>4, <2>1, <3>4, <3>5, BegunOn
      <3>10. Asked(t, Append(q, b), L)
        <4>1. Asked(t, Append(q, b), K)
          BY <1>4, <1>6, <2>1, <3>4
        <4>2. ASSUME d.for = Tunnel
              PROVE  Cardinality(OfTunnel(K)) < Cap /\ \A i \in 1..Len(t) : ~AsksAt(t, i, Tunnel)
          <5>1. AsksAt(o, 1, Tunnel)
            BY <3>7, <4>2
          <5>2. QED
            BY <1>1, <1>2, <2>1, <5>1, MessageTaken DEF t
        <4>3. QED
          BY <1>1, <3>3, <4>1, <4>2, AskedOne
      <3> HIDE DEF L
      <3>11. QED
        BY <1>5, <3>4, <3>5, <3>6, <3>8, <3>9, <3>10
    <2>5. QED
      BY <1>8, <2>3, <2>4 DEF claim
  <1>9. CASE release
    <2> DEFINE c == Head(o).claim
               L == K \ {c}
    <2>1. o # <<>> /\ Head(o).do = "release" /\ main' = [main EXCEPT !.out = Tail(@)]
          /\ core' = [core EXCEPT !.held = @ \ {c}]
      BY <1>9 DEF release
    <2>2. core'.held = L /\ core'.up = up
      BY <1>1, <2>1
    <2>3. ReleasedAt(o, 1, c)
      BY <1>4, <2>1 DEF ReleasedAt
    <2>4. main'.out = t /\ main'.events = q /\ main'.held = main.held /\ main'.gateway = g /\ Same(main, main')
      BY <1>1, <2>1 DEF Main, Same
    <2> HIDE DEF c, o, t, q, K, up, x, H, g
    <2>5. Agree(H, t, q, L, {}, x)
      BY <1>2, <2>1, <2>3, ReleaseDone DEF t
    <2>6. L \in SUBSET K
      OBVIOUS
    <2> HIDE DEF L
    <2>7. Begun(g, t, q, up) /\ Asked(t, q, L)
      BY <1>1, <1>4, <2>1, <2>6, AskedLess
    <2>8. Apart(core'.held)
      BY <1>1, <2>2, <2>6 DEF Apart
    <2>9. Handed(main', {}, 0)
      BY <1>2, <2>4, SameHands
    <2>10. Linked(main', core'.held, core'.up, {}, crossed')
      BY <1>2, <1>3, <2>2, <2>4, <2>5, <2>7 DEF Linked, H
    <2>11. QED
      BY <2>8, <2>9, <2>10 DEF Accounts, Linked, Handed, HeldPorts, HeldFor, Bound
  <1>10. CASE renew
    <2>1. PICK lost \in SUBSET core.held :
               /\ core' = [core EXCEPT !.held = @ \ lost]
               /\ main' = IF lost = {} THEN main
                          ELSE [main EXCEPT !.events = Append(@, [ev |-> "lost", claims |-> lost])]
      BY <1>10 DEF renew
    <2> DEFINE e == [ev |-> "lost", claims |-> lost]
               L == K \ lost
               r == Append(q, e)
    <2>2. e \in Event /\ e.ev = "lost" /\ e.claims = lost
      BY <1>1 DEF Event
    <2>3. core'.held = L /\ core'.up = up /\ L \in SUBSET K
      BY <1>1, <2>1
    <2>4. Apart(core'.held)
      BY <1>1, <2>3 DEF Apart
    <2>5. CASE lost = {}
      <3>1. main' = main /\ core'.held = core.held /\ core'.up = core.up
        BY <2>1, <2>3, <2>5
      <3>2. Linked(main', core'.held, core'.up, {}, crossed') /\ Handed(main', {}, 0)
        BY <1>3, <3>1 DEF Accounts
      <3>3. QED
        BY <2>4, <3>2 DEF Accounts, Linked, Handed, HeldPorts, HeldFor, Bound
    <2>6. CASE lost # {}
      <3>1. main' = [main EXCEPT !.events = r]
        BY <2>1, <2>6
      <3>2. Agree(H, o, r, L, {}, x)
        <4>1. lost \in SUBSET K
          OBVIOUS
        <4> HIDE DEF e, o, q, K, x, H
        <4>2. QED
          BY <1>2, <2>2, <4>1, LostCall
      <3> HIDE DEF e, r
      <3>3. main'.out = o /\ main'.events = r /\ main'.held = main.held /\ main'.gateway = g /\ Same(main, main')
        BY <1>1, <3>1 DEF Main, Same
      <3> HIDE DEF L, o, q, K, up, x, H, g
      <3>4. Begun(g, o, r, up)
        BY <1>1, <1>2, <2>2, BegunMore DEF r
      <3>5. Asked(o, r, L)
        BY <1>1, <1>2, <2>2, <2>3, AskedMore, AskedLess DEF r
      <3>6. Handed(main', {}, 0)
        BY <1>2, <3>3, SameHands
      <3>7. Linked(main', core'.held, core'.up, {}, crossed')
        BY <1>2, <1>3, <2>3, <3>2, <3>3, <3>4, <3>5 DEF Linked, H
      <3>8. QED
        BY <2>4, <3>6, <3>7 DEF Accounts, Linked, Handed, HeldPorts, HeldFor, Bound
    <2>7. QED
      BY <2>5, <2>6
  <1>11. QED
    BY <1>7, <1>8, <1>9, <1>10

\* The variables the threads' lists say nothing of.
Typed ==
    /\ Table /\ tells \in BOOLEAN /\ stirs \in 0..MaxStirs /\ crossed \in BOOLEAN

\* Every step keeps them.
LEMMA StepTyped == Typed /\ [Next]_vars => Typed'
  <1> SUFFICES ASSUME Typed, [Next]_vars
               PROVE  Typed'
    OBVIOUS
  <1>1. Table'
    BY StepSpares DEF Typed
  <1>2. tells' = tells
    BY DEF Next, vars, Switch, Online, discover, onSessionOpened, ClaimWaitTimeout, onSessionClosed,
           StreamClaims, releaseMediaPort, onEvent, start, claim, release, renew, Neighbour
  <1>3. stirs' = stirs \/ (stirs < MaxStirs /\ stirs' = stirs + 1)
    BY DEF Next, vars, Switch, Online, discover, onSessionOpened, ClaimWaitTimeout, onSessionClosed,
           StreamClaims, releaseMediaPort, onEvent, start, claim, release, renew, Neighbour, Stir
  <1>4. stirs' \in 0..MaxStirs
    BY <1>3, PortAssumption DEF Typed
  <1>5. crossed' \in BOOLEAN
    <2>1. ASSUME NEW s, releaseMediaPort(s) PROVE crossed' \in BOOLEAN
      BY <2>1 DEF releaseMediaPort
    <2>2. crossed' = crossed \/ \E s : releaseMediaPort(s)
      BY DEF Next, vars, Switch, Online, discover, onSessionOpened, ClaimWaitTimeout, onSessionClosed,
             StreamClaims, onEvent, start, claim, release, renew, Neighbour
    <2>3. QED
      BY <2>1, <2>2 DEF Typed
  <1>6. QED
    BY <1>1, <1>2, <1>4, <1>5 DEF Typed

\* At the start there is no hole, and nothing is under way.
LEMMA InitAccounts == Init => Accounts /\ Typed
  <1> SUFFICES ASSUME Init
               PROVE  Accounts /\ Typed
    OBVIOUS
  <1> DEFINE ps == [y \in Sessions |-> [at |-> "new", port |-> 0]]
             none == {}
             no == FALSE
  <1>1. /\ main = [gateway |-> "Unknown", enabled |-> TRUE, held |-> <<>>, out |-> <<>>, events |-> <<>>,
                   free |-> <<>>, waiting |-> <<>>, peers |-> ps]
        /\ core = [up |-> FALSE, held |-> {}] /\ crossed = FALSE /\ stirs = 0 /\ tells \in BOOLEAN
    BY DEF Init
  <1>2. \A y \in Sessions : ps[y].at = "new" /\ ps[y].port = 0
    OBVIOUS
  <1> HIDE DEF ps
  <1>3. /\ main.gateway = "Unknown" /\ main.held = <<>> /\ main.out = <<>> /\ main.events = <<>>
        /\ main.free = <<>> /\ main.waiting = <<>> /\ main.peers = ps
        /\ core.held = none /\ core.up = no
    BY <1>1
  <1>4. ToSet(<<>>) = none /\ Distinct(<<>>) /\ Len(<<>>) = 0 /\ \A i \in 1..0 : FALSE
    BY DEF ToSet, Distinct, Once
  <1>5. \A c : c \notin none
    OBVIOUS
  <1>6. main \in Main
    BY InitWaits DEF Waits, Known
  <1>7. Agree(ToSet(main.held), main.out, main.events, core.held, {}, crossed)
    <2>1. Listed(none, <<>>, <<>>, none, none)
      BY DEF Listed
    <2>2. Told(none, <<>>, <<>>, none, none) /\ Backed(none, <<>>, none, none, no)
      BY <1>5 DEF Told, Backed
    <2>3. Arriving(<<>>, none, no) /\ Fresh(none, <<>>, none, no) /\ Parted(none, <<>>, <<>>, no)
      BY <1>4 DEF Arriving, Fresh, Parted
    <2>4. Agree(none, <<>>, <<>>, none, none, no)
      BY <2>1, <2>2, <2>3 DEF Agree
    <2>5. QED
      BY <1>1, <1>3, <1>4, <2>4
  <1>8. Begun(main.gateway, main.out, main.events, core.up)
    BY <1>3, <1>4 DEF Begun, NoneComes
  <1>9. Asked(main.out, main.events, core.held)
    <2>1. OfTunnel(core.held) = {}
      BY <1>3 DEF OfTunnel
    <2>2. Cardinality(OfTunnel(core.held)) = 0
      BY <2>1, FS_EmptySet
    <2>3. QED
      BY <1>3, <1>4, <2>2, PortAssumption DEF Asked
  <1>10. HeldOnce(main.held, crossed)
    BY <1>3, <1>4, <1>5 DEF HeldOnce
  <1>11. Handed(main, {}, 0)
    <2>1. HeldPorts(main) = {}
      <3>1. HeldPorts(main) = {c.port : c \in {d \in ToSet(main.held) : d.for = Tunnel}}
        BY <1>6, HeldPortsThose
      <3>2. QED
        BY <1>3, <1>4, <3>1
    <2>2. \A y \in Sessions : main.peers[y].at = "new" /\ main.peers[y].port = 0
      BY <1>2, <1>3
    <2>3. QED
      BY <1>3, <1>4, <1>5, <2>1, <2>2 DEF Handed
  <1>12. Apart(core.held)
    BY <1>3, <1>5 DEF Apart
  <1>13. Typed
    <2>1. Table
      BY DEF Init, Table
    <2>2. 0 \in 0..MaxStirs
      BY PortAssumption
    <2>3. stirs = 0 /\ tells \in BOOLEAN /\ crossed \in BOOLEAN
      BY <1>1
    <2>4. QED
      BY <2>1, <2>2, <2>3 DEF Typed
  <1>14. QED
    BY <1>7, <1>8, <1>9, <1>10, <1>11, <1>12, <1>13 DEF Accounts, Linked

\* Every step.
LEMMA StepAccounts == Known /\ Accounts /\ [Next]_vars => Accounts'
  <1> SUFFICES ASSUME Known, Accounts, [Next]_vars
               PROVE  Accounts'
    OBVIOUS
  <1>1. ASSUME main' = main, core' = core, crossed' = crossed PROVE Accounts'
    <2>1. Linked(main', core'.held, core'.up, {}, crossed') /\ Handed(main', {}, 0) /\ Apart(core'.held)
      BY <1>1 DEF Accounts
    <2>2. QED
      BY <2>1 DEF Accounts, Linked, Handed, HeldPorts, HeldFor, Bound
  <1>2. ASSUME NEW p \in Ports, Neighbour(p) PROVE Accounts'
    BY <1>1, <1>2 DEF Neighbour
  <1>3. CASE UNCHANGED vars
    BY <1>1, <1>3 DEF vars
  <1>4. CASE Next
    BY <1>2, <1>4, MainAccounts, ReleaseAccounts, EventAccounts, WorkerAccounts DEF Next
  <1>5. QED
    BY <1>3, <1>4

\* In a state like that every hole is accounted for.
LEMMA AccountsEnough == Known /\ Accounts /\ Typed => HolesAccounted
  <1> SUFFICES ASSUME Known, Accounts, Typed
               PROVE  HolesAccounted
    OBVIOUS
  <1> DEFINE arriving == {[for |-> e.for, port |-> e.port] : e \in
                            {f \in ToSet(main.events) : f.ev = "claimed" /\ f.port # 0}}
             leaving == {d.claim : d \in {f \in ToSet(main.out) : f.do = "release"}}
             lost == UNION {e.claims : e \in {f \in ToSet(main.events) : f.ev = "lost"}}
             H == ToSet(main.held)
             o == main.out
             q == main.events
             K == core.held
  <1>1. /\ main \in Main /\ core \in [up : BOOLEAN, held : SUBSET Claim]
        /\ o \in Seq(Message) /\ q \in Seq(Event) /\ main.held \in Seq(Claim)
        /\ main.free \in Seq(TunnelPorts) /\ main.waiting \in Seq(Sessions)
    BY DEF Known, Main
  <1>2. /\ Told(H, o, q, K, {}) /\ Backed(H, q, K, {}, crossed) /\ Asked(o, q, K) /\ HeldOnce(main.held, crossed)
        /\ Handed(main, {}, 0) /\ Apart(K) /\ K \subseteq Claim
    BY DEF Accounts, Linked, Agree, Listed
  <1>3. /\ \A d : d \in ToSet(o) <=> \E i \in 1..Len(o) : o[i] = d
        /\ \A e : e \in ToSet(q) <=> \E i \in 1..Len(q) : q[i] = e
        /\ \A c : c \in H <=> \E i \in 1..Len(main.held) : main.held[i] = c
    BY <1>1, Somewhere
  <1>4. ASSUME NEW c \in K PROVE c \in H \cup arriving \cup leaving
    <2>1. CASE \E i \in 1..Len(o) : ReleasedAt(o, i, c)
      <3>1. c \in leaving
        BY <1>3, <2>1 DEF ReleasedAt
      <3>2. QED
        BY <3>1
    <2>2. CASE \E j \in 1..Len(q) : ComesAt(q, j, c)
      <3>1. PICK j \in 1..Len(q) : ComesAt(q, j, c)
        BY <2>2
      <3>2. q[j] \in ToSet(q) /\ q[j].ev = "claimed" /\ q[j].for = c.for /\ q[j].port = c.port
        BY <1>3, <3>1 DEF ComesAt
      <3>3. c.port # 0 /\ c = [for |-> c.for, port |-> c.port]
        BY <1>2, PortAssumption DEF Claim, PortsOf, Ports
      <3>4. c \in arriving
        BY <3>2, <3>3
      <3>5. QED
        BY <3>4
    <2>3. QED
      BY <1>2, <2>1, <2>2 DEF Told
  <1>5. ASSUME NEW c \in H PROVE c \in K \cup lost \/ (crossed /\ c.for # Tunnel)
    <2>1. c \in K \/ (\E i \in 1..Len(q) : LostAt(q, i, c)) \/ (crossed /\ c.for # Tunnel)
      BY <1>2 DEF Backed, Stale
    <2>2. (\E i \in 1..Len(q) : LostAt(q, i, c)) => c \in lost
      BY <1>3 DEF LostAt
    <2>3. QED
      BY <2>1, <2>2
  <1>6. ASSUME NEW i \in 1..Len(main.held), NEW j \in 1..Len(main.held), main.held[i] = main.held[j]
        PROVE  i = j \/ (crossed /\ main.held[i].for # Tunnel)
    BY <1>2, <1>3, <1>6 DEF HeldOnce, Once, Stale
  <1>7. ToSet(main.free) \subseteq HeldPorts(main) /\ HeldPorts(main) \subseteq ToSet(main.free) \cup Bound(main)
    <2>1. 0 \notin HeldPorts(main)
      BY <1>1, HeldForType, PortAssumption DEF Purposes, Ports
    <2>2. QED
      BY <1>2, <2>1 DEF Handed
  <1>8. Cardinality({c \in K : c.for = Tunnel}) <= Cap
    BY <1>2 DEF Asked, OfTunnel
  <1>9. TypeOK
    <2>1. IsInjective(main.free) /\ IsInjective(main.waiting)
      BY <1>1, <1>2, Somewhere DEF Handed, Distinct
    <2>2. \A y \in Sessions : y \in ToSet(main.waiting) <=> main.peers[y].at = "waiting"
      BY <1>2 DEF Handed
    <2>3. QED
      BY <1>1, <1>2, <2>1, <2>2 DEF TypeOK, Typed, Table, Apart
  <1>10. QED
    BY <1>4, <1>5, <1>6, <1>7, <1>8, <1>9 DEF HolesAccounted

\* Nobody takes what a neighbour holds (RouterPortCore.h): tryOne leaves another
\* machine's entry alone, release looks whether the hole is still held, and renew
\* writes held holes only, whatever interleaving of calls, losses and neighbours.
THEOREM Spared == Spec => NeighbourSpared
  <1>1. Init => Table
    BY DEF Init, Table
  <1>2. Spec => []Table
    BY <1>1, StepSpares, PTL DEF Spec
  <1>3. Table /\ [Next]_vars =>
          [(main' # main \/ core' # core) =>
             \A p \in Ports : (table[p] = "other" /\ table'[p] # "other") => holds(p) \/ ~tells]_vars
    BY StepSpares DEF Spares
  <1>4. QED
    BY <1>2, <1>3, PTL DEF Spec, NeighbourSpared

\* A browser waits for a hole only while a claim of one is under way
\* (ControlTunnel.cpp): the claim travels from the allocator's queue to the worker
\* thread's answer, and the answer either serves those who wait, asks again or lets
\* them all go on without, for any number of browsers and ports and any cap.
THEOREM NobodyLeft == Spec => []NobodyWaitsForNothing
  <1>1. Waits => NobodyWaitsForNothing
    BY DEF Waits, Served, NobodyWaitsForNothing
  <1>2. QED
    BY <1>1, InitWaits, StepWaits, PTL DEF Spec

\* No hole is forgotten (RouterPortAllocator.cpp, RouterPortCore.cpp): the two threads'
\* lists differ by what is on its way between them, and by what a release that crossed
\* a claim left behind, a tunnel hole is free or some browser's and there are never
\* more than the cap, for any number of browsers, slots and ports.
THEOREM Accounted == Spec => []HolesAccounted
  <1>1. Init => Waits /\ Accounts /\ Typed
    BY InitWaits, InitAccounts
  <1>2. Waits /\ Accounts /\ Typed /\ [Next]_vars => (Waits /\ Accounts /\ Typed)'
    BY StepWaits, StepAccounts, StepTyped DEF Waits
  <1>3. Waits /\ Accounts /\ Typed => HolesAccounted
    BY AccountsEnough DEF Waits
  <1>4. QED
    BY <1>1, <1>2, <1>3, PTL DEF Spec
=============================================================================
