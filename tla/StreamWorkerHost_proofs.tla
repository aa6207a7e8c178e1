---------------------- MODULE StreamWorkerHost_proofs ----------------------
(***************************************************************************)
(* What a stream worker guarantees for any set of devices and any number   *)
(* of policy changes and requests to stop.                                 *)
(***************************************************************************)
EXTENDS StreamWorkerHost, SequenceTheorems, TLAPS

\* The configuration is the first line of stdin until it is read, and no other
\* line is one; nothing is written before start().
ConfigFirst ==
    /\ host.run = "none" <=> proc = "none"
    /\ proc = "none" => stdin = <<>> /\ child.session = "unborn"
    /\ (proc # "none" /\ child.session = "unborn") => stdin # <<>> /\ stdin[1].cmd = "config"
    /\ \A i \in 1..Len(stdin) : stdin[i].cmd = "config" => i = 1 /\ child.session = "unborn"

\* Only teardowns stand behind line i.
LastPolicyAt(i) == \A j \in (i + 1)..Len(stdin) : stdin[j].cmd = "teardown"

\* The policy handed over last is the last one in the pipe, or the session's when
\* the pipe holds none.
PolicyInPipe ==
    proc # "none" =>
        /\ LastPolicyAt(0) => child.policy = host.sent
        /\ \A i \in 1..Len(stdin) :
              (stdin[i].cmd # "teardown" /\ LastPolicyAt(i)) => stdin[i].policy = host.sent

\* The session's policy is the last one posted to the relay, or the relay's when
\* none is posted.
PolicyInQueue ==
    relay.up => IF relay.queue = <<>> THEN relay.policy = child.policy
                ELSE relay.queue[Len(relay.queue)] = child.policy

\* There is no relay before the launch is answered, and it is built once.
RelayAfterLaunch ==
    child.session \in {"unborn", "launching"} => ~relay.up /\ relay.queue = <<>> /\ relay.held = {}

\* Every kill timer stands for a request.
TimersOK == host.timers <= host.asks

IInv ==
    /\ TypeOK
    /\ TimersOK
    /\ ConfigFirst
    /\ PolicyInPipe
    /\ PolicyInQueue
    /\ RelayAfterLaunch
    /\ NoStuckInput

-----------------------------------------------------------------------------
(***************************************************************************)
(* Type correctness.                                                       *)
(***************************************************************************)

\* What teardownAndExit appends to the child's output is made of events.
LEMMA TeardownType ==
  ASSUME stdout \in Seq(Event), NEW c, NEW r, NEW said \in {<<>>, <<"error">>},
         teardownAndExit(c, r, said)
  PROVE  stdout' \in Seq(Event)
  <1>0. <<"error">> \in Seq(Event) /\ <<"ended">> \in Seq(Event)
    <2>1. "error" \in Event /\ "ended" \in Event
      BY DEF Event
    <2>2. QED
      BY <2>1
  <1>1. said \in Seq(Event) /\ <<>> \in Seq(Event)
    <2>1. <<>> \in Seq(Event)
      BY EmptySeq
    <2>2. QED
      BY <1>0, <2>1
  <1>2. (stdout \o said) \in Seq(Event)
    BY <1>1, ConcatProperties
  <1>3. (stdout \o said) \o (IF c.exiting THEN <<>> ELSE <<"ended">>) \in Seq(Event)
    <2> DEFINE more == IF c.exiting THEN <<>> ELSE <<"ended">>
    <2>1. more \in Seq(Event)
      BY <1>0, <1>1
    <2> HIDE DEF more
    <2>2. (stdout \o said) \o more \in Seq(Event)
      BY <1>2, <2>1, ConcatProperties
    <2>3. QED
      BY <2>2 DEF more
  <1>4. QED
    BY <1>3 DEF teardownAndExit

\* Every step of the host object keeps every variable in its type.
LEMMA HostTypeStep ==
  ASSUME TypeOK, TimersOK, HostStep
  PROVE  TypeOK' /\ TimersOK'
  <1> USE WorkerAssumption DEF TypeOK, TimersOK
  <1> DEFINE HostState ==
               [run : {"none", "up", "gone"}, reply : {"none", "ok", "error"},
                over : BOOLEAN, asked : BOOLEAN, timers : 0..MaxAsks,
                asks : 0..MaxAsks, policies : 0..MaxPolicies, sent : Policies]
  <1>1. ASSUME NEW p \in Policies, start(p)
        PROVE  TypeOK' /\ TimersOK'
    <2>1. <<[cmd |-> "config", policy |-> p]>> \in Seq(Line)
      BY DEF Line
    <2>2. QED
      BY <1>1, <2>1 DEF start
  <1>2. ASSUME NEW p \in Policies, setInputPolicy(p)
        PROVE  TypeOK' /\ TimersOK'
    <2>1. [cmd |-> "setPolicy", policy |-> p] \in Line
      BY DEF Line
    <2>2. Append(stdin, [cmd |-> "setPolicy", policy |-> p]) \in Seq(Line)
      BY <2>1
    <2>3. host.policies + 1 \in 0..MaxPolicies
      BY <1>2 DEF setInputPolicy
    <2>4. host' \in HostState
      BY <1>2, <2>3 DEF setInputPolicy
    <2>5. host'.timers = host.timers /\ host'.asks = host.asks
      BY <1>2 DEF setInputPolicy
    <2>6. QED
      BY <1>2, <2>2, <2>4, <2>5 DEF setInputPolicy
  <1>3. CASE askToStop
    <2>1. [cmd |-> "teardown"] \in Line
      BY DEF Line
    <2>2. Append(stdin, [cmd |-> "teardown"]) \in Seq(Line)
      BY <2>1
    <2>3. host.asks + 1 \in 0..MaxAsks /\ host.timers + 1 \in 0..MaxAsks
      BY <1>3 DEF askToStop
    <2>4. host' \in HostState
      BY <1>3, <2>3 DEF askToStop
    <2>5. host'.timers = host.timers + 1 /\ host'.asks = host.asks + 1
      BY <1>3 DEF askToStop
    <2>6. QED
      BY <1>3, <2>2, <2>4, <2>5 DEF askToStop
  <1>4. CASE KillTimer
    <2>1. host.timers - 1 \in 0..MaxAsks
      BY <1>4 DEF KillTimer
    <2>2. host' \in HostState
      BY <1>4, <2>1 DEF KillTimer
    <2>3. host'.timers = host.timers - 1 /\ host'.asks = host.asks
      BY <1>4 DEF KillTimer
    <2>4. QED
      BY <1>4, <2>2, <2>3 DEF KillTimer
  <1>5. CASE onStdoutData
    <2>1. Head(stdout) \in Event /\ Tail(stdout) \in Seq(Event)
      BY <1>5 DEF onStdoutData
    <2>2. QED
      BY <1>5, <2>1 DEF onStdoutData, Event
  <1>6. CASE onFinished
    BY <1>6 DEF onFinished
  <1>7. CASE Destroyed
    BY <1>7 DEF Destroyed
  <1>8. CASE ServerDies
    BY <1>8 DEF ServerDies
  <1>9. QED
    BY <1>1, <1>2, <1>3, <1>4, <1>5, <1>6, <1>7, <1>8 DEF HostStep

\* Every step of the child keeps every variable in its type; it never touches
\* the host object.
LEMMA ChildTypeStep ==
  ASSUME TypeOK, TimersOK, ConfigFirst, ChildStep
  PROVE  TypeOK' /\ TimersOK'
  <1> USE DEF TypeOK, TimersOK
  <1>l. stdin # <<>> => /\ Head(stdin) \in Line /\ Tail(stdin) \in Seq(Line)
                        /\ Head(stdin) = stdin[1]
    OBVIOUS
  <1>p. \A x \in Line : x.cmd # "teardown" => x.policy \in Policies
    BY DEF Line
  <1>1. CASE ReadConfig
    <2>1. Head(stdin).policy \in Policies
      BY <1>1, <1>l, <1>p DEF ReadConfig, ConfigFirst
    <2>2. QED
      BY <1>1, <1>l, <2>1 DEF ReadConfig
  <1>2. CASE NoConfig
    BY <1>2 DEF NoConfig
  <1>3. CASE RelayCreated
    BY <1>3 DEF RelayCreated
  <1>4. CASE ConnectionStarted
    <2>1. "ok" \in Event
      BY DEF Event
    <2>2. QED
      BY <1>4, <2>1 DEF ConnectionStarted
  <1>5. CASE SessionFailed
    <2>1. stdout' \in Seq(Event)
      BY <1>5, TeardownType DEF SessionFailed
    <2>2. QED
      BY <1>5, <2>1 DEF SessionFailed, teardownAndExit, StoppedRelay
  <1>6. CASE RelayEnded
    <2>1. stdout' \in Seq(Event)
      BY <1>6, TeardownType DEF RelayEnded
    <2>2. QED
      BY <1>6, <2>1 DEF RelayEnded, teardownAndExit, StoppedRelay
  <1>7. CASE ObeyPolicy
    <2>1. Head(stdin).policy \in Policies
      BY <1>7, <1>l, <1>p DEF ObeyPolicy
    <2>2. Append(relay.queue, Head(stdin).policy) \in Seq(Policies)
      BY <2>1
    <2>3. QED
      BY <1>7, <1>l, <2>1, <2>2 DEF ObeyPolicy, ApplyPolicy
  <1>8. CASE ObeyTeardown
    <2>1. stdout' \in Seq(Event)
      BY <1>8, TeardownType DEF ObeyTeardown
    <2>2. QED
      BY <1>8, <1>l, <2>1 DEF ObeyTeardown, teardownAndExit, StoppedRelay
  <1>9. CASE StdinClosed
    <2>1. stdout' \in Seq(Event)
      BY <1>9, TeardownType DEF StdinClosed
    <2>2. QED
      BY <1>9, <2>1 DEF StdinClosed, teardownAndExit, StoppedRelay
  <1>10. CASE Quit
    BY <1>10 DEF Quit
  <1>11. CASE Crash
    BY <1>11 DEF Crash
  <1>12. CASE SetRelayPolicy
    <2>1. Head(relay.queue) \in Policies /\ Tail(relay.queue) \in Seq(Policies)
      BY <1>12 DEF SetRelayPolicy
    <2>2. QED
      BY <1>12, <2>1 DEF SetRelayPolicy
  <1>13. ASSUME NEW d \in Devices, ClientInput(d)
         PROVE  TypeOK' /\ TimersOK'
    BY <1>13 DEF ClientInput
  <1>14. QED
    BY <1>1, <1>2, <1>3, <1>4, <1>5, <1>6, <1>7, <1>8, <1>9, <1>10, <1>11, <1>12, <1>13
       DEF ChildStep

\* No step takes a variable out of its type.
LEMMA TypeStep ==
  ASSUME TypeOK, TimersOK, ConfigFirst, [Next]_vars
  PROVE  TypeOK' /\ TimersOK'
  <1>1. CASE UNCHANGED vars
    BY <1>1 DEF vars, TypeOK, TimersOK
  <1>2. QED
    BY <1>1, HostTypeStep, ChildTypeStep DEF Next

-----------------------------------------------------------------------------
(***************************************************************************)
(* The way of a policy.                                                    *)
(***************************************************************************)

\* The configuration stays in front until it is read.
LEMMA ConfigStep ==
  ASSUME TypeOK, ConfigFirst, [Next]_vars
  PROVE  ConfigFirst'
  <1> USE DEF TypeOK, ConfigFirst
  <1>1. ASSUME NEW p \in Policies, start(p)
        PROVE  ConfigFirst'
    BY <1>1 DEF start
  <1>2. ASSUME NEW p \in Policies, setInputPolicy(p)
        PROVE  ConfigFirst'
    <2> DEFINE x == [cmd |-> "setPolicy", policy |-> p]
    <2>1. /\ Len(stdin') = Len(stdin) + 1
          /\ stdin'[Len(stdin) + 1].cmd = "setPolicy"
          /\ \A i \in 1..Len(stdin) : stdin'[i] = stdin[i]
      BY <1>2 DEF setInputPolicy
    <2>2. QED
      BY <1>2, <2>1 DEF setInputPolicy, isRunning
  <1>3. CASE askToStop
    <2>1. /\ Len(stdin') = Len(stdin) + 1
          /\ stdin'[Len(stdin) + 1].cmd = "teardown"
          /\ \A i \in 1..Len(stdin) : stdin'[i] = stdin[i]
      BY <1>3 DEF askToStop
    <2>2. QED
      BY <1>3, <2>1 DEF askToStop, isRunning
  <1>4. CASE KillTimer \/ onStdoutData \/ onFinished \/ Destroyed \/ ServerDies
    <2>1. /\ UNCHANGED <<stdin, child>>
          /\ host'.run = "none" <=> host.run = "none"
          /\ proc' = "none" <=> proc = "none"
      <3>1. CASE KillTimer
        BY <3>1 DEF KillTimer, isRunning
      <3>2. CASE onStdoutData
        BY <3>2 DEF onStdoutData
      <3>3. CASE onFinished
        BY <3>3 DEF onFinished, isRunning
      <3>4. CASE Destroyed \/ ServerDies
        BY <3>4 DEF Destroyed, ServerDies, isRunning
      <3>5. QED
        BY <1>4, <3>1, <3>2, <3>3, <3>4
    <2>2. QED
      BY <2>1
  <1>5. CASE ReadConfig \/ ObeyPolicy \/ ObeyTeardown
    <2>1. /\ stdin # <<>> /\ stdin' = Tail(stdin)
          /\ proc = "up" /\ UNCHANGED <<host, proc>>
          /\ child'.session # "unborn"
      BY <1>5 DEF ReadConfig, ObeyPolicy, ObeyTeardown, Configured, ApplyPolicy, teardownAndExit
    <2>2. /\ Len(stdin') = Len(stdin) - 1
          /\ \A i \in 1..Len(stdin') : stdin'[i] = stdin[i + 1]
      BY <2>1
    <2>3. QED
      BY <2>1, <2>2
  <1>6. CASE NoConfig \/ RelayCreated \/ ConnectionStarted \/ SessionFailed \/ RelayEnded
             \/ StdinClosed \/ Quit \/ Crash \/ SetRelayPolicy
             \/ \E d \in Devices : ClientInput(d)
    <2>1. /\ UNCHANGED <<host, stdin>> /\ proc = "up" /\ proc' \in {"up", "dead"}
          /\ child'.session = "unborn" <=> child.session = "unborn"
      BY <1>6 DEF NoConfig, RelayCreated, ConnectionStarted, SessionFailed, RelayEnded, StdinClosed,
                  Quit, Crash, SetRelayPolicy, ClientInput, Configured, teardownAndExit
    <2>2. QED
      BY <2>1
  <1>7. CASE UNCHANGED vars
    BY <1>7 DEF vars
  <1>8. QED
    BY <1>1, <1>2, <1>3, <1>4, <1>5, <1>6, <1>7 DEF Next, HostStep, ChildStep

\* A line put at the end of stdin: what stood last still does, if it is a
\* teardown, and otherwise the new line does.
LEMMA Appended ==
  ASSUME TypeOK, ConfigFirst, PolicyInPipe, proc # "none", NEW x \in Line, stdin' = Append(stdin, x),
         proc' # "none", child'.policy = child.policy,
         \/ x.cmd = "teardown" /\ host'.sent = host.sent
         \/ x.cmd = "setPolicy" /\ host'.sent = x.policy
  PROVE  PolicyInPipe'
  <1> USE DEF TypeOK
  <1> DEFINE n == Len(stdin)
  <1>1. /\ n \in Nat /\ Len(stdin') = n + 1 /\ stdin'[n + 1] = x
        /\ \A i \in 1..n : stdin'[i] = stdin[i]
    OBVIOUS
  <1>2. CASE x.cmd = "teardown"
    <2>1. \A i \in 0..n : LastPolicyAt(i)' => LastPolicyAt(i)
      BY <1>1 DEF LastPolicyAt
    <2> HIDE DEF n
    <2>2. LastPolicyAt(0)' => child'.policy = host'.sent
      BY <1>1, <1>2, <2>1 DEF PolicyInPipe
    <2>3. ASSUME NEW i \in 1..Len(stdin'), stdin'[i].cmd # "teardown", LastPolicyAt(i)'
          PROVE  stdin'[i].policy = host'.sent
      <3>1. i \in 1..n
        BY <1>1, <1>2, <2>3
      <3>2. QED
        BY <1>1, <1>2, <2>1, <2>3, <3>1 DEF PolicyInPipe, n
    <2>4. QED
      BY <2>2, <2>3 DEF PolicyInPipe
  <1>3. CASE x.cmd = "setPolicy"
    <2>1. ASSUME NEW i \in 0..n
          PROVE  ~LastPolicyAt(i)'
      <3>1. n + 1 \in (i + 1)..Len(stdin') /\ stdin'[n + 1].cmd # "teardown"
        BY <1>1, <1>3
      <3>2. QED
        BY <3>1 DEF LastPolicyAt
    <2>2. stdin'[n + 1].policy = host'.sent
      BY <1>1, <1>3
    <2> HIDE DEF n
    <2>3. QED
      BY <1>1, <2>1, <2>2 DEF PolicyInPipe
  <1>4. QED
    BY <1>2, <1>3

\* The first line of stdin read: a policy becomes the session's, a teardown
\* changes none.
LEMMA Consumed ==
  ASSUME TypeOK, PolicyInPipe, proc # "none", stdin # <<>>, stdin' = Tail(stdin), host' = host,
         IF stdin[1].cmd = "teardown" THEN child'.policy = child.policy
                                      ELSE child'.policy = stdin[1].policy
  PROVE  PolicyInPipe'
  <1> USE DEF TypeOK
  <1> DEFINE n == Len(stdin)
  <1>1. /\ n \in Nat \ {0} /\ Len(stdin') = n - 1
        /\ \A i \in 1..(n - 1) : stdin'[i] = stdin[i + 1]
    OBVIOUS
  <1>2. \A i \in 0..(n - 1) : LastPolicyAt(i)' => LastPolicyAt(i + 1)
    <2> SUFFICES ASSUME NEW i \in 0..(n - 1), LastPolicyAt(i)',
                        NEW j \in ((i + 1) + 1)..Len(stdin)
                 PROVE  stdin[j].cmd = "teardown"
      BY DEF LastPolicyAt
    <2>1. j - 1 \in (i + 1)..Len(stdin') /\ stdin'[j - 1] = stdin[j]
      BY <1>1
    <2>2. QED
      BY <2>1 DEF LastPolicyAt
  <1>3. LastPolicyAt(0)' => child'.policy = host'.sent
    <2> SUFFICES ASSUME LastPolicyAt(0)'
                 PROVE  child'.policy = host.sent
      OBVIOUS
    <2>1. LastPolicyAt(1)
      BY <1>1, <1>2
    <2>2. CASE stdin[1].cmd = "teardown"
      <3>1. LastPolicyAt(0)
        BY <2>1, <2>2 DEF LastPolicyAt
      <3>2. QED
        BY <2>2, <3>1 DEF PolicyInPipe
    <2>3. CASE stdin[1].cmd # "teardown"
      BY <1>1, <2>1, <2>3 DEF PolicyInPipe
    <2>4. QED
      BY <2>2, <2>3
  <1>4. ASSUME NEW i \in 1..Len(stdin'), stdin'[i].cmd # "teardown", LastPolicyAt(i)'
        PROVE  stdin'[i].policy = host'.sent
    <2>1. i + 1 \in 1..Len(stdin) /\ stdin[i + 1] = stdin'[i] /\ LastPolicyAt(i + 1)
      BY <1>1, <1>2, <1>4
    <2>2. QED
      BY <1>4, <2>1 DEF PolicyInPipe
  <1>5. QED
    BY <1>3, <1>4 DEF PolicyInPipe

\* The policy sent last is the last one in the pipe, or the session's.
LEMMA PipeStep ==
  ASSUME TypeOK, ConfigFirst, PolicyInPipe, [Next]_vars
  PROVE  PolicyInPipe'
  <1> USE DEF TypeOK
  <1>1. ASSUME NEW p \in Policies, start(p)
        PROVE  PolicyInPipe'
    <2>1. stdin' = <<[cmd |-> "config", policy |-> p]>> /\ host'.sent = p
      BY <1>1 DEF start
    <2>2. Len(stdin') = 1 /\ stdin'[1] = [cmd |-> "config", policy |-> p]
      BY <2>1
    <2>3. QED
      BY <2>1, <2>2 DEF PolicyInPipe, LastPolicyAt
  <1>2. ASSUME NEW p \in Policies, setInputPolicy(p)
        PROVE  PolicyInPipe'
    <2> DEFINE x == [cmd |-> "setPolicy", policy |-> p]
    <2>1. x \in Line /\ stdin' = Append(stdin, x) /\ host'.sent = x.policy /\ x.cmd = "setPolicy"
      BY <1>2 DEF setInputPolicy, Line
    <2>2. proc # "none" /\ proc' # "none" /\ child' = child
      BY <1>2 DEF setInputPolicy, isRunning, ConfigFirst
    <2> HIDE DEF x
    <2>3. QED
      BY <2>1, <2>2, Appended
  <1>3. CASE askToStop
    <2> DEFINE x == [cmd |-> "teardown"]
    <2>1. x \in Line /\ stdin' = Append(stdin, x) /\ host'.sent = host.sent /\ x.cmd = "teardown"
      BY <1>3 DEF askToStop, Line
    <2>2. proc # "none" /\ proc' # "none" /\ child' = child
      BY <1>3 DEF askToStop, isRunning, ConfigFirst
    <2> HIDE DEF x
    <2>3. QED
      BY <2>1, <2>2, Appended
  <1>4. CASE ReadConfig
    <2>1. stdin # <<>> /\ stdin' = Tail(stdin) /\ host' = host /\ proc # "none"
      BY <1>4 DEF ReadConfig
    <2>2. stdin[1].cmd = "config" /\ child'.policy = stdin[1].policy
      BY <1>4 DEF ReadConfig, ConfigFirst
    <2>3. QED
      BY <2>1, <2>2, Consumed
  <1>5. CASE ObeyPolicy
    <2>1. stdin # <<>> /\ stdin' = Tail(stdin) /\ host' = host /\ proc # "none"
      BY <1>5 DEF ObeyPolicy, Configured
    <2>2. stdin[1].cmd = "setPolicy" /\ child'.policy = stdin[1].policy
      BY <1>5 DEF ObeyPolicy, ApplyPolicy
    <2>3. QED
      BY <2>1, <2>2, Consumed
  <1>6. CASE ObeyTeardown
    <2>1. stdin # <<>> /\ stdin' = Tail(stdin) /\ host' = host /\ proc # "none"
      BY <1>6 DEF ObeyTeardown, Configured
    <2>2. stdin[1].cmd = "teardown" /\ child'.policy = child.policy
      BY <1>6 DEF ObeyTeardown, teardownAndExit
    <2>3. QED
      BY <2>1, <2>2, Consumed
  <1>7. CASE \/ KillTimer \/ onStdoutData \/ onFinished \/ Destroyed \/ ServerDies
             \/ NoConfig \/ RelayCreated \/ ConnectionStarted \/ SessionFailed \/ RelayEnded
             \/ StdinClosed \/ Quit \/ Crash \/ SetRelayPolicy
             \/ \E d \in Devices : ClientInput(d)
             \/ UNCHANGED vars
    <2>1. /\ stdin' = stdin /\ child'.policy = child.policy /\ host'.sent = host.sent
          /\ proc # "none" \/ proc' = "none"
      <3>1. CASE KillTimer \/ onStdoutData
        BY <3>1 DEF KillTimer, onStdoutData, isRunning, ConfigFirst
      <3>2. CASE onFinished
        BY <3>2 DEF onFinished
      <3>3. CASE Destroyed \/ ServerDies \/ NoConfig \/ Quit \/ Crash \/ SetRelayPolicy
                 \/ (\E d \in Devices : ClientInput(d)) \/ UNCHANGED vars
        BY <3>3 DEF Destroyed, ServerDies, NoConfig, Quit, Crash, SetRelayPolicy, ClientInput, vars,
                    Configured, isRunning, ConfigFirst
      <3>4. CASE RelayCreated \/ ConnectionStarted \/ SessionFailed \/ RelayEnded \/ StdinClosed
        BY <3>4 DEF RelayCreated, ConnectionStarted, SessionFailed, RelayEnded, StdinClosed,
                    teardownAndExit, Configured
      <3>5. QED
        BY <1>7, <3>1, <3>2, <3>3, <3>4
    <2>2. QED
      BY <2>1 DEF PolicyInPipe, LastPolicyAt
  <1>8. QED
    BY <1>1, <1>2, <1>3, <1>4, <1>5, <1>6, <1>7 DEF Next, HostStep, ChildStep

\* What is last in a queue after something is put into it, or taken out of it.
LEMMA LastOfAppend ==
  ASSUME NEW S, NEW q \in Seq(S), NEW x \in S
  PROVE  Append(q, x) # <<>> /\ Append(q, x)[Len(Append(q, x))] = x
  BY AppendProperties

\* A queue whose tail is empty holds one element.
LEMMA OnlyOne ==
  ASSUME NEW S, NEW q \in Seq(S), q # <<>>, Tail(q) = <<>>
  PROVE  Len(q) = 1
  <1>1. Len(q) \in Nat /\ Len(Tail(q)) = Len(q) - 1
    BY HeadTailProperties, LenProperties
  <1>2. Len(Tail(q)) = 0
    <2>1. Len(<<>>) = 0
      BY EmptySeq
    <2>2. QED
      BY <2>1
  <1>3. QED
    BY <1>1, <1>2

\* Taking the head leaves the last element the last.
LEMMA LastOfTail ==
  ASSUME NEW S, NEW q \in Seq(S), q # <<>>, Tail(q) # <<>>
  PROVE  Tail(q)[Len(Tail(q))] = q[Len(q)]
  <1>1. /\ Tail(q) \in Seq(S) /\ Len(q) \in Nat
        /\ Len(Tail(q)) = Len(q) - 1
        /\ \A i \in 1..Len(Tail(q)) : Tail(q)[i] = q[i + 1]
    BY HeadTailProperties, LenProperties
  <1>2. Len(Tail(q)) \in Nat \ {0}
    BY <1>1, EmptySeq
  <1>3. Len(Tail(q)) \in 1..Len(Tail(q)) /\ Len(Tail(q)) + 1 = Len(q)
    BY <1>1, <1>2
  <1>4. QED
    BY <1>1, <1>3

\* The relay has the session's policy, or will; it holds down only what its own
\* policy lets through.
LEMMA RelayStep ==
  ASSUME TypeOK, PolicyInQueue, RelayAfterLaunch, NoStuckInput, [Next]_vars
  PROVE  PolicyInQueue' /\ RelayAfterLaunch' /\ NoStuckInput'
  <1> USE DEF TypeOK, PolicyInQueue, RelayAfterLaunch, NoStuckInput
  <1>1. CASE HostStep \/ NoConfig \/ ConnectionStarted \/ Quit \/ Crash \/ UNCHANGED vars
    <2>1. /\ relay' = relay
          /\ child'.policy = child.policy
          /\ child' = child \/ child'.session = "gone"
      BY <1>1 DEF HostStep, start, setInputPolicy, askToStop, KillTimer, onStdoutData, onFinished,
                  Destroyed, ServerDies, NoConfig, ConnectionStarted, Quit, Crash, vars
    <2>2. QED
      BY <2>1
  <1>2. CASE ReadConfig
    BY <1>2 DEF ReadConfig
  <1>3. CASE RelayCreated
    BY <1>3 DEF RelayCreated
  <1>4. CASE SessionFailed \/ RelayEnded \/ ObeyTeardown \/ StdinClosed
    <2>1. /\ relay' \in {relay, StoppedRelay}
          /\ child'.policy = child.policy
          /\ child'.session \in {child.session, "gone"}
      BY <1>4 DEF SessionFailed, RelayEnded, ObeyTeardown, StdinClosed, teardownAndExit, StoppedRelay
    <2>2. QED
      BY <2>1 DEF StoppedRelay
  <1>5. CASE ObeyPolicy
    <2>1. Head(stdin).policy = child'.policy /\ child'.session = child.session
      BY <1>5 DEF ObeyPolicy, ApplyPolicy
    <2>2. CASE relay.up
      <3> DEFINE q == Append(relay.queue, child'.policy)
      <3>1. q # <<>> /\ q[Len(q)] = child'.policy
        <4>1. stdin \in Seq(Line) /\ stdin # <<>> /\ Head(stdin).cmd = "setPolicy"
          BY <1>5 DEF ObeyPolicy
        <4>2. Head(stdin) \in Line
          BY <4>1
        <4>3. child'.policy \in Policies
          BY <2>1, <4>1, <4>2 DEF Line
        <4>4. QED
          BY <4>3, LastOfAppend
      <3>2. relay' = [relay EXCEPT !.queue = q]
        BY <1>5, <2>1, <2>2 DEF ObeyPolicy, ApplyPolicy
      <3> HIDE DEF q
      <3>3. QED
        BY <2>1, <2>2, <3>1, <3>2
    <2>3. CASE ~relay.up
      BY <1>5, <2>1, <2>3 DEF ObeyPolicy, ApplyPolicy
    <2>4. QED
      BY <2>2, <2>3
  <1>6. CASE SetRelayPolicy
    <2> DEFINE q == relay.queue
    <2>1. /\ q # <<>> /\ child' = child /\ relay.up
          /\ relay' = [relay EXCEPT !.policy = q[1], !.queue = Tail(q), !.held = {}]
      BY <1>6 DEF SetRelayPolicy
    <2>2. Tail(q) = <<>> => Len(q) = 1
      <3>1. q \in Seq(Policies)
        OBVIOUS
      <3>2. QED
        BY <2>1, <3>1, OnlyOne
    <2>3. Tail(q) # <<>> => Tail(q)[Len(Tail(q))] = q[Len(q)]
      <3>1. q \in Seq(Policies)
        OBVIOUS
      <3>2. QED
        BY <2>1, <3>1, LastOfTail
    <2>4. q[Len(q)] = child.policy
      BY <2>1
    <2>5. QED
      BY <2>1, <2>2, <2>3, <2>4
  <1>7. ASSUME NEW d \in Devices, ClientInput(d)
        PROVE  PolicyInQueue' /\ RelayAfterLaunch' /\ NoStuckInput'
    BY <1>7 DEF ClientInput
  <1>8. QED
    BY <1>1, <1>2, <1>3, <1>4, <1>5, <1>6, <1>7 DEF Next, ChildStep

-----------------------------------------------------------------------------
(***************************************************************************)
(* The theorems.                                                           *)
(***************************************************************************)

\* Before start() there is nothing to relate.
LEMMA InitInv == Init => IInv
  <1> SUFFICES ASSUME Init PROVE IInv
    OBVIOUS
  <1>1. {} \in Policies
    BY DEF Policies
  <1>2. TypeOK /\ TimersOK
    <2>1. <<>> \in Seq(Line) /\ <<>> \in Seq(Event) /\ <<>> \in Seq(Policies)
      BY EmptySeq
    <2>2. QED
      BY <1>1, <2>1, WorkerAssumption DEF Init, TypeOK, TimersOK
  <1>3. ConfigFirst /\ PolicyInPipe /\ PolicyInQueue /\ RelayAfterLaunch /\ NoStuckInput
    BY DEF Init, ConfigFirst, PolicyInPipe, PolicyInQueue, RelayAfterLaunch, NoStuckInput
  <1>4. QED
    BY <1>2, <1>3 DEF IInv

\* Every step keeps the invariant.
LEMMA NextInv == IInv /\ [Next]_vars => IInv'
  BY TypeStep, ConfigStep, PipeStep, RelayStep DEF IInv

\* The bookkeeping of a worker - what is in its pipe, what is posted to its
\* relay's thread, how many kill timers are armed - survives every step of the
\* host object, of the child's two threads, and every death.
THEOREM Bookkeeping == Spec => []IInv
  <1>1. QED
    BY InitInv, NextInv, PTL DEF Spec

\* Every variable keeps its type: no count of timers, requests or policies
\* leaves its range, and nothing but lines, events and policies is queued.
THEOREM TypeCorrect == Spec => []TypeOK
  <1>1. IInv => TypeOK
    BY DEF IInv
  <1>2. QED
    BY <1>1, Bookkeeping, PTL

\* Once nothing is under way, the relay has the policy that setInputPolicy (or
\* start) was given last, however many were sent and whatever the launch did
\* meanwhile.
THEOREM PolicyArrives == Spec => []LastPolicyInForce
  <1>1. IInv => LastPolicyInForce
    <2> SUFFICES ASSUME IInv, proc = "up", relay.up, stdin = <<>>, relay.queue = <<>>
                 PROVE  relay.policy = host.sent
      BY DEF LastPolicyInForce
    <2>1. LastPolicyAt(0)
      BY DEF LastPolicyAt
    <2>2. child.policy = host.sent
      BY <2>1 DEF IInv, PolicyInPipe
    <2>3. relay.policy = child.policy
      BY DEF IInv, PolicyInQueue
    <2>4. QED
      BY <2>2, <2>3
  <1>2. QED
    BY <1>1, Bookkeeping, PTL

\* What is held down on the host is always something the relay's policy lets
\* through, so the guest can always lift it.
THEOREM NothingStuck == Spec => []NoStuckInput
  <1>1. IInv => NoStuckInput
    BY DEF IInv
  <1>2. QED
    BY <1>1, Bookkeeping, PTL

-----------------------------------------------------------------------------
(***************************************************************************)
(* StreamWorkerHost implements WorkerContract.                             *)
(***************************************************************************)

\* One worker of the contract is this one, as the server sees it.
Seen == [run |-> host.run, reply |-> host.reply, over |-> host.over, asked |-> host.asked]

Abs == [w \in {TheWorker} |-> Seen]

\* A step of the host object is one of the contract, or invisible to it.
LEMMA HostStepSeen ==
  ASSUME TypeOK, HostStep
  PROVE  [Contract!WkNext]_Abs
  <1> USE DEF TypeOK
  <1>0. /\ Abs[TheWorker] = Seen
        /\ Abs' = [w \in {TheWorker} |-> Seen']
        /\ \A x : Seen' = x => Abs' = [w \in {TheWorker} |-> x]
    BY DEF Abs
  <1>1. CASE \E p \in Policies : start(p)
    <2>1. Contract!Spawn(TheWorker)
      BY <1>1 DEF start, Contract!Spawn
    <2>2. QED
      BY <2>1 DEF Contract!WkNext, Abs, Seen
  <1>2. CASE askToStop
    <2>1. Contract!AskAll({TheWorker})
      BY <1>2 DEF askToStop, isRunning, Contract!AskAll
    <2>2. QED
      BY <2>1 DEF Contract!WkNext, Abs, Seen
  <1>3. CASE onStdoutData
    <2>1. Head(stdout) \in Event
      BY <1>3 DEF onStdoutData
    <2>2. CASE Head(stdout) = "ended" /\ ~host.over
      <3>1. Contract!Over(TheWorker)
        BY <1>3, <2>2 DEF onStdoutData, isRunning, Contract!Over
      <3>2. QED
        BY <3>1 DEF Contract!WkNext, Abs, Seen
    <2>3. CASE Head(stdout) # "ended" /\ host.reply = "none"
      <3>1. Contract!Reply(TheWorker, Head(stdout)) /\ Head(stdout) \in {"ok", "error"}
        BY <1>3, <2>1, <2>3 DEF onStdoutData, isRunning, Contract!Reply, Event
      <3>2. QED
        BY <3>1 DEF Contract!WkNext, Abs, Seen
    <2>4. CASE \/ Head(stdout) = "ended" /\ host.over
               \/ Head(stdout) # "ended" /\ host.reply # "none"
      BY <1>3, <2>4 DEF onStdoutData, Abs, Seen
    <2>5. QED
      BY <2>2, <2>3, <2>4
  <1>4. CASE onFinished
    <2>1. Contract!Exit(TheWorker)
      BY <1>4 DEF onFinished, isRunning, Contract!Exit
    <2>2. QED
      BY <2>1 DEF Contract!WkNext, Abs, Seen
  <1>5. CASE KillTimer \/ Destroyed \/ ServerDies \/ \E p \in Policies : setInputPolicy(p)
    BY <1>5 DEF KillTimer, Destroyed, ServerDies, setInputPolicy, Abs, Seen
  <1>6. QED
    BY <1>1, <1>2, <1>3, <1>4, <1>5 DEF HostStep

\* What the child does is invisible until its output is read.
LEMMA ChildStepUnseen ==
  ASSUME ChildStep
  PROVE  host' = host
  BY DEF ChildStep, ReadConfig, NoConfig, RelayCreated, ConnectionStarted, SessionFailed, RelayEnded,
         ObeyPolicy, ObeyTeardown, StdinClosed, Quit, Crash, SetRelayPolicy, ClientInput

\* StreamWorkerHost keeps its header's promise - one answer, one end, one exit,
\* the exit last and making up for the others - for every set of devices and
\* any number of commands, whatever the child does and whenever it dies.
THEOREM Implements == Spec => ImplementsContract
  <1>1. Init => Contract!WkInit
    BY DEF Init, Contract!WkInit
  <1>2. TypeOK /\ [Next]_vars => [Contract!WkNext]_Abs
    <2>1. ASSUME UNCHANGED host PROVE UNCHANGED Abs
      BY <2>1 DEF Abs, Seen
    <2>2. QED
      BY <2>1, HostStepSeen, ChildStepUnseen DEF Next, vars
  <1>3. QED
    BY <1>1, <1>2, TypeCorrect, PTL DEF Spec, ImplementsContract, Contract!WkSpec, Abs, Seen
=============================================================================
