-------------------------- MODULE Directory_proofs --------------------------
(***************************************************************************)
(* Theorems about Directory, for any number of nodes, starts and lost      *)
(* calls and any interval shorter than the life of a record.               *)
(***************************************************************************)
EXTENDS Directory, TLAPS

\* The initial state is one of the types of TypeOK.
LEMMA InitType == Init => TypeOK
<1> SUFFICES ASSUME Init
             PROVE  TypeOK
    OBVIOUS
<1> USE DirectoryAssumption DEF Init
<1>1. stage \in [Node -> Stage] BY DEF Stage
<1>2. left \in [Node -> 0..NodeTtl] OBVIOUS
<1>3. since \in [Node -> 0..Interval] OBVIOUS
<1>4. peers \in [Node -> [Node -> Entry]] BY DEF NoPeers, Entry
<1>5. msgs \subseteq Announcement /\ overlap \subseteq SUBSET Node OBVIOUS
<1>6. starts \in 0..MaxStarts /\ lost \in 0..MaxLost OBVIOUS
<1> QED BY <1>1, <1>2, <1>3, <1>4, <1>5, <1>6 DEF TypeOK

\* A call is only lost below the bound.
LEMMA LosingType ==
    ASSUME TypeOK, Losing
    PROVE  lost' \in 0..MaxLost /\ lost' # 0
BY DirectoryAssumption DEF TypeOK, Losing

\* A start stays within its bound and types.
LEMMA BeginType ==
    ASSUME TypeOK, NEW n \in Node, Begin(n)
    PROVE  /\ stage' \in [Node -> Stage]
           /\ starts' \in 0..MaxStarts
           /\ overlap' \subseteq SUBSET Node
<1>1. stage' \in [Node -> Stage] BY DEF TypeOK, Begin, Stage
<1>2. starts' \in 0..MaxStarts BY DirectoryAssumption DEF TypeOK, Begin
<1>3. overlap' \subseteq SUBSET Node BY DEF TypeOK, Begin, Starting
<1> QED BY <1>1, <1>2, <1>3

\* Every step keeps the types.
LEMMA StepType == TypeOK /\ [Next]_vars => TypeOK'
<1> SUFFICES ASSUME TypeOK, [Next]_vars
             PROVE  TypeOK'
    OBVIOUS
<1> USE DirectoryAssumption
<1>1. ASSUME NEW n \in Node, Discover(n) PROVE TypeOK'
  <2>1. peers' \in [Node -> [Node -> Entry]]
    <3>1. [m \in Node |-> IF m \in Listed \ {n} THEN "wallet" ELSE "none"] \in [Node -> Entry]
          BY DEF Entry
    <3> QED BY <1>1, <3>1 DEF Discover, TypeOK
  <2> QED BY <1>1, <2>1, BeginType DEF Discover, TypeOK
<1>2. ASSUME NEW n \in Node, DiscoverFallback(n) PROVE TypeOK'
  <2>1. peers' \in [Node -> [Node -> Entry]]
    <3>1. [m \in Node |-> IF m \in Fallback \ {n} THEN "unknown" ELSE "none"] \in [Node -> Entry]
          BY DEF Entry
    <3> QED BY <1>2, <3>1 DEF DiscoverFallback, TypeOK
  <2> QED BY <1>2, <2>1, BeginType, LosingType DEF DiscoverFallback, TypeOK
<1>3. ASSUME NEW n \in Node, Register(n) PROVE TypeOK'
  <2>1. Announced(n) \subseteq Announcement BY DEF Announced, Announcement, Listed
  <2>2. stage' \in [Node -> Stage] /\ left' \in [Node -> 0..NodeTtl]
        BY <1>3 DEF Register, TypeOK, Stage
  <2> QED BY <1>3, <2>1, <2>2 DEF Register, TypeOK
<1>4. ASSUME NEW n \in Node, RegisterLost(n) PROVE TypeOK'
      BY <1>4, LosingType DEF RegisterLost, TypeOK, Stage
<1>5. ASSUME NEW n \in Node, Serve(n) PROVE TypeOK'
      BY <1>5 DEF Serve, TypeOK, Stage
<1>6. ASSUME NEW n \in Node, Heartbeat(n) PROVE TypeOK'
  <2>1. Renewed(n) \in 0..NodeTtl BY DEF Renewed
  <2> QED BY <1>6, <2>1 DEF Heartbeat, TypeOK
<1>7. ASSUME NEW n \in Node, HeartbeatLost(n) PROVE TypeOK'
      BY <1>7, LosingType DEF HeartbeatLost, TypeOK
<1>8. ASSUME NEW n \in Node, Stop(n) \/ Crash(n) PROVE TypeOK'
  <2>1. NoPeers \in [Node -> Entry] BY DEF NoPeers, Entry
  <2>2. stage' \in [Node -> Stage] BY <1>8 DEF Stop, Crash, Gone, TypeOK, Stage
  <2>3. since' \in [Node -> 0..Interval] BY <1>8 DEF Stop, Crash, Gone, TypeOK
  <2>4. peers' \in [Node -> [Node -> Entry]] BY <1>8, <2>1 DEF Stop, Crash, Gone, TypeOK
  <2>5. left' \in [Node -> 0..NodeTtl] BY <1>8 DEF Stop, Crash, TypeOK
  <2> QED BY <1>8, <2>2, <2>3, <2>4, <2>5 DEF Stop, Crash, Gone, TypeOK
<1>9. ASSUME NEW m \in msgs, OnNewNode(m.to, m) PROVE TypeOK'
  <2>1. m.to \in Node /\ m.new \in Node BY DEF TypeOK, Announcement
  <2>2. Entered(m.to, m.new) \in Entry BY <2>1 DEF Entered, TypeOK, Entry
  <2>3. peers' \in [Node -> [Node -> Entry]] BY <1>9, <2>1, <2>2 DEF OnNewNode, TypeOK
  <2>4. Forwarded(m.to, m.new) \subseteq Announcement BY <2>1 DEF Forwarded, Announcement
  <2> QED BY <1>9, <2>3, <2>4 DEF OnNewNode, TypeOK
<1>10. ASSUME NEW m \in msgs, Refused(m) PROVE TypeOK'
       BY <1>10 DEF Refused, TypeOK
<1>11. ASSUME NEW m \in msgs, Lose(m) PROVE TypeOK'
       BY <1>11, LosingType DEF Lose, TypeOK
<1>12. ASSUME Tick PROVE TypeOK'
  <2>1. left' \in [Node -> 0..NodeTtl]
    <3>1. ASSUME NEW n \in Node PROVE Aged(left[n]) \in 0..NodeTtl
      <4>1. left[n] \in 0..NodeTtl BY DEF TypeOK
      <4> QED BY <4>1 DEF Aged
    <3> QED BY <1>12, <3>1 DEF Tick
  <2>2. since' \in [Node -> 0..Interval]
    <3>1. ASSUME NEW n \in Node
          PROVE  (IF stage[n] = "serving" THEN since[n] + 1 ELSE since[n]) \in 0..Interval
      <4>1. since[n] \in 0..Interval BY DEF TypeOK
      <4>2. stage[n] = "serving" => since[n] # Interval BY <1>12 DEF Tick, HeartbeatDue
      <4> QED BY <4>1, <4>2
    <3> QED BY <1>12, <3>1 DEF Tick
  <2> QED BY <1>12, <2>1, <2>2 DEF Tick, TypeOK
<1>13. CASE UNCHANGED vars BY <1>13 DEF vars, TypeOK
<1> QED BY <1>1, <1>2, <1>3, <1>4, <1>5, <1>6, <1>7, <1>8, <1>9, <1>10, <1>11, <1>12, <1>13
        DEF Next, Step, Deliver

\* The types of TypeOK hold whatever nodes start, stop, crash or miss.
THEOREM DirectoryType == Spec => []TypeOK
<1>1. Init => TypeOK BY InitType
<1>2. TypeOK /\ [Next]_vars => TypeOK' BY StepType
<1> QED BY <1>1, <1>2, PTL DEF Spec

-----------------------------------------------------------------------------

\* A record has its full life until its node serves, and from then on it loses
\* no more of it than the time since the last heartbeat.
Timely ==
    lost = 0 =>
        \A n \in Node :
            /\ stage[n] = "registered" => left[n] = NodeTtl
            /\ stage[n] = "serving" => left[n] + since[n] >= NodeTtl

\* A record that has lost no more than an interval is still there.
LEMMA TimelyListed == TypeOK /\ Timely => ListedWhileServing
<1> SUFFICES ASSUME TypeOK, Timely, lost = 0, NEW n \in Node, stage[n] = "serving"
             PROVE  n \in Listed
    BY DEF ListedWhileServing
<1>1. left[n] \in 0..NodeTtl /\ since[n] \in 0..Interval BY DEF TypeOK
<1>2. left[n] + since[n] >= NodeTtl BY DEF Timely
<1>3. left[n] > 0 BY <1>1, <1>2, DirectoryAssumption
<1> QED BY <1>3 DEF Listed

\* Every step keeps the records timely: the heartbeat comes while the record is
\* there and gives it its full life again.
LEMMA StepTimely == TypeOK /\ Timely /\ [Next]_vars => Timely'
<1> SUFFICES ASSUME TypeOK, Timely, [Next]_vars, lost' = 0, NEW n \in Node
             PROVE  /\ stage'[n] = "registered" => left'[n] = NodeTtl
                    /\ stage'[n] = "serving" => left'[n] + since'[n] >= NodeTtl
    BY DEF Timely
<1> USE DirectoryAssumption
<1>0. /\ stage \in [Node -> Stage]
      /\ left \in [Node -> 0..NodeTtl]
      /\ since \in [Node -> 0..Interval]
      /\ left[n] \in 0..NodeTtl
      /\ since[n] \in 0..Interval
      BY DEF TypeOK
<1>L. ~Losing BY LosingType
<1>1. ASSUME NEW p \in Node, Discover(p) \/ DiscoverFallback(p),
             lost = 0
      PROVE  /\ stage'[n] = "registered" => left'[n] = NodeTtl
             /\ stage'[n] = "serving" => left'[n] + since'[n] >= NodeTtl
      BY <1>0, <1>1 DEF Discover, DiscoverFallback, Begin, Timely
<1>2. ASSUME NEW p \in Node, Register(p)
      PROVE  /\ stage'[n] = "registered" => left'[n] = NodeTtl
             /\ stage'[n] = "serving" => left'[n] + since'[n] >= NodeTtl
      BY <1>0, <1>2 DEF Register, Timely
<1>3. ASSUME NEW p \in Node, Serve(p)
      PROVE  /\ stage'[n] = "registered" => left'[n] = NodeTtl
             /\ stage'[n] = "serving" => left'[n] + since'[n] >= NodeTtl
      BY <1>0, <1>3 DEF Serve, Timely
<1>4. ASSUME NEW p \in Node, Heartbeat(p)
      PROVE  /\ stage'[n] = "registered" => left'[n] = NodeTtl
             /\ stage'[n] = "serving" => left'[n] + since'[n] >= NodeTtl
  <2>1. lost = 0 BY <1>4 DEF Heartbeat
  <2>2. CASE n = p
    <3>1. n \in Listed
          BY <1>4, <2>1, <2>2, TimelyListed DEF ListedWhileServing, Heartbeat, HeartbeatDue
    <3>2. stage'[n] = "serving" /\ left'[n] = NodeTtl /\ since'[n] = 0
          BY <1>0, <1>4, <2>2, <3>1 DEF Heartbeat, HeartbeatDue, Renewed
    <3> QED BY <3>2
  <2>3. CASE n # p
        BY <1>0, <1>4, <2>1, <2>3 DEF Heartbeat, Timely
  <2> QED BY <2>2, <2>3
<1>5. ASSUME NEW p \in Node, Stop(p) \/ Crash(p)
      PROVE  /\ stage'[n] = "registered" => left'[n] = NodeTtl
             /\ stage'[n] = "serving" => left'[n] + since'[n] >= NodeTtl
  <2>1. lost = 0 BY <1>5 DEF Stop, Crash, Gone
  <2>2. CASE n = p BY <1>0, <1>5, <2>2 DEF Stop, Crash, Gone
  <2>3. CASE n # p BY <1>0, <1>5, <2>1, <2>3 DEF Stop, Crash, Gone, Timely
  <2> QED BY <2>2, <2>3
<1>6. ASSUME NEW m \in msgs, OnNewNode(m.to, m) \/ Refused(m)
      PROVE  /\ stage'[n] = "registered" => left'[n] = NodeTtl
             /\ stage'[n] = "serving" => left'[n] + since'[n] >= NodeTtl
      BY <1>6 DEF OnNewNode, Refused, Timely
<1>7. ASSUME Tick
      PROVE  /\ stage'[n] = "registered" => left'[n] = NodeTtl
             /\ stage'[n] = "serving" => left'[n] + since'[n] >= NodeTtl
  <2>1. lost = 0 /\ stage' = stage BY <1>7 DEF Tick
  <2>2. stage[n] # "registered" BY <1>7 DEF Tick, Starting
  <2>3. ASSUME stage[n] = "serving"
        PROVE  left'[n] + since'[n] >= NodeTtl
    <3>1. left'[n] = Aged(left[n]) /\ since'[n] = since[n] + 1
          BY <1>7, <2>3 DEF Tick
    <3>2. left[n] + since[n] >= NodeTtl BY <2>1, <2>3 DEF Timely
    <3> QED BY <1>0, <3>1, <3>2 DEF Aged
  <2> QED BY <2>1, <2>2, <2>3
<1>8. CASE UNCHANGED vars BY <1>8 DEF vars, Timely
<1> QED
  <2>1. ASSUME NEW p \in Node, Discover(p) PROVE lost = 0 BY <2>1 DEF Discover
  <2>2. ASSUME NEW p \in Node
        PROVE  ~DiscoverFallback(p) /\ ~RegisterLost(p) /\ ~HeartbeatLost(p)
        BY <1>L DEF DiscoverFallback, RegisterLost, HeartbeatLost
  <2>3. ASSUME NEW m \in msgs PROVE ~Lose(m) BY <1>L DEF Lose
  <2> QED BY <1>1, <1>2, <1>3, <1>4, <1>5, <1>6, <1>7, <1>8, <2>1, <2>2, <2>3
          DEF Next, Step, Deliver

\* While no call is lost a node that serves is listed, for every interval
\* shorter than the life of a record.
THEOREM ListedInvariant == Spec => []ListedWhileServing
<1>1. Init => TypeOK /\ Timely
      BY InitType DEF Init, Timely
<1>2. TypeOK /\ Timely /\ [Next]_vars => TypeOK' /\ Timely' BY StepType, StepTimely
<1>3. TypeOK /\ Timely => ListedWhileServing BY TimelyListed
<1> QED BY <1>1, <1>2, <1>3, PTL DEF Spec
-----------------------------------------------------------------------------

\* Nodes that are starting at the same time have overlapped.
Overlapped == \A n, m \in Starting : n # m => {n, m} \in overlap

\* A node knows every listed one it has not overlapped with, or is about to hear of it.
Heard(n, m) ==
    \/ peers[n][m] = "wallet"
    \/ stage[n] = "serving" /\ [to |-> n, new |-> m] \in msgs

Acquainted ==
    lost = 0 =>
        /\ \A n, m \in Node : peers[n][m] # "unknown"
        /\ \A n \in Node, m \in Listed :
             stage[n] # "off" /\ n # m /\ {n, m} \notin overlap => Heard(n, m)

\* What the last theorem takes from the ones before.
Known == TypeOK /\ Timely /\ Overlapped /\ Acquainted

\* A node that begins its start overlaps with those that are starting.
LEMMA BeginOverlapped ==
    ASSUME Overlapped, NEW p \in Node, Begin(p), stage \in [Node -> Stage]
    PROVE  Overlapped'
<1> SUFFICES ASSUME NEW n \in Starting', NEW m \in Starting', n # m
             PROVE  {n, m} \in overlap'
    BY DEF Overlapped
<1>1. Starting' = Starting \union {p} BY DEF Begin, Starting, Stage
<1>2. overlap \subseteq overlap' BY DEF Begin
<1>3. CASE n \in Starting /\ m \in Starting BY <1>2, <1>3 DEF Overlapped
<1>4. CASE n = p /\ m \in Starting BY <1>4 DEF Begin
<1>5. CASE m = p /\ n \in Starting
  <2>1. {p, n} \in overlap' BY <1>5 DEF Begin
  <2> QED BY <1>5, <2>1
<1> QED BY <1>1, <1>3, <1>4, <1>5

\* Other steps put nobody among those that are starting.
LEMMA StepOverlapped == TypeOK /\ Overlapped /\ [Next]_vars => Overlapped'
<1> SUFFICES ASSUME TypeOK, Overlapped, [Next]_vars PROVE Overlapped'
    OBVIOUS
<1>1. stage \in [Node -> Stage] BY DEF TypeOK
<1>2. ASSUME overlap' = overlap, Starting' \subseteq Starting PROVE Overlapped'
      BY <1>2 DEF Overlapped
<1>3. ASSUME NEW p \in Node, Discover(p) \/ DiscoverFallback(p) PROVE Overlapped'
      BY <1>1, <1>3, BeginOverlapped DEF Discover, DiscoverFallback
<1>4. ASSUME NEW p \in Node, Register(p) \/ RegisterLost(p) \/ Serve(p) PROVE Overlapped'
      BY <1>1, <1>2, <1>4 DEF Register, RegisterLost, Serve, Starting
<1>5. ASSUME NEW p \in Node, Heartbeat(p) \/ HeartbeatLost(p) PROVE Overlapped'
      BY <1>2, <1>5 DEF Heartbeat, HeartbeatLost, Starting
<1>6. ASSUME NEW p \in Node, Stop(p) \/ Crash(p) PROVE Overlapped'
      BY <1>1, <1>2, <1>6 DEF Stop, Crash, Gone, Starting
<1>7. ASSUME NEW m \in msgs, OnNewNode(m.to, m) \/ Refused(m) \/ Lose(m) PROVE Overlapped'
      BY <1>2, <1>7 DEF OnNewNode, Refused, Lose, Starting
<1>8. CASE Tick \/ UNCHANGED vars BY <1>2, <1>8 DEF Tick, vars, Starting
<1> QED BY <1>3, <1>4, <1>5, <1>6, <1>7, <1>8 DEF Next, Step, Deliver

\* A step that lists nobody new and keeps what nodes know or will hear.
LEMMA KeepsAcquainted ==
    ASSUME Acquainted, lost' = lost, overlap \subseteq overlap', Listed' \subseteq Listed,
           \A n, m \in Node : peers'[n][m] # peers[n][m] => peers'[n][m] # "unknown",
           \A n, m \in Node :
             n # m /\ stage'[n] # "off" => stage[n] # "off" /\ (Heard(n, m) => Heard(n, m)')
    PROVE  Acquainted'
<1> SUFFICES ASSUME lost = 0
             PROVE  /\ \A n, m \in Node : peers'[n][m] # "unknown"
                    /\ \A n \in Node, m \in Listed' :
                         stage'[n] # "off" /\ n # m /\ {n, m} \notin overlap' => Heard(n, m)'
    BY DEF Acquainted
<1>1. Listed \subseteq Node BY DEF Listed
<1> QED BY <1>1 DEF Acquainted

\* A node that starts takes over the list.
LEMMA DiscoverAcquainted ==
    ASSUME Known, NEW p \in Node, Discover(p)
    PROVE  Acquainted'
<1> DEFINE table == [m \in Node |-> IF m \in Listed \ {p} THEN "wallet" ELSE "none"]
<1>1. /\ stage \in [Node -> Stage] /\ peers \in [Node -> [Node -> Entry]]
      /\ peers' = [peers EXCEPT ![p] = table]
      /\ stage' = [stage EXCEPT ![p] = "discovered"]
      /\ overlap \subseteq overlap' /\ lost' = lost /\ msgs' = msgs /\ Listed' = Listed
      BY DEF Known, TypeOK, Discover, Begin, Listed
<1> SUFFICES ASSUME lost = 0
             PROVE  /\ \A n, m \in Node : peers'[n][m] # "unknown"
                    /\ \A n \in Node, m \in Listed :
                         stage'[n] # "off" /\ n # m /\ {n, m} \notin overlap' => Heard(n, m)'
    BY <1>1 DEF Acquainted
<1>2. ASSUME NEW m \in Node PROVE peers'[p][m] = table[m] BY <1>1
<1>3. ASSUME NEW n \in Node, n # p PROVE peers'[n] = peers[n] /\ stage'[n] = stage[n]
      BY <1>1, <1>3
<1>4. \A m \in Node : table[m] # "unknown" OBVIOUS
<1>5. \A m \in Listed : m # p => table[m] = "wallet" BY DEF Listed
<1> HIDE DEF table
<1>6. ASSUME NEW n \in Node, NEW m \in Node PROVE peers'[n][m] # "unknown"
      BY <1>2, <1>3, <1>4 DEF Known, Acquainted
<1>7. ASSUME NEW n \in Node, NEW m \in Listed,
             stage'[n] # "off", n # m, {n, m} \notin overlap'
      PROVE  Heard(n, m)'
  <2>1. m \in Node BY DEF Listed
  <2>2. CASE n = p BY <1>2, <1>5, <1>7, <2>1, <2>2 DEF Heard
  <2>3. CASE n # p
    <3>1. Heard(n, m) BY <1>1, <1>3, <1>7, <2>3 DEF Known, Acquainted
    <3> QED BY <1>1, <1>3, <2>3, <3>1 DEF Heard
  <2> QED BY <2>2, <2>3
<1> QED BY <1>6, <1>7

\* A node without a record is announced to all that serve, and those that start have
\* overlapped with it; one with a record is known already.
LEMMA RegisterAcquainted ==
    ASSUME Known, NEW p \in Node, Register(p)
    PROVE  Acquainted'
<1>1. /\ stage \in [Node -> Stage] /\ left \in [Node -> 0..NodeTtl]
      /\ stage[p] = "discovered"
      /\ stage' = [stage EXCEPT ![p] = "registered"]
      /\ left' = [left EXCEPT ![p] = NodeTtl]
      /\ msgs' = msgs \union Announced(p)
      /\ UNCHANGED <<peers, lost, overlap>>
      BY DEF Known, TypeOK, Register
<1>2. Listed' = Listed \union {p} BY <1>1, DirectoryAssumption DEF Listed
<1> SUFFICES ASSUME lost = 0, NEW n \in Node, NEW m \in Listed',
                    stage'[n] # "off", n # m, {n, m} \notin overlap
             PROVE  Heard(n, m)'
    BY <1>1 DEF Acquainted, Known
<1>3. stage[n] # "off" /\ (stage[n] = "serving" => stage'[n] = "serving") BY <1>1
<1>4. CASE m \in Listed
  <2>1. Heard(n, m) BY <1>3, <1>4 DEF Known, Acquainted
  <2> QED BY <1>1, <1>3, <2>1 DEF Heard
<1>5. CASE m \notin Listed
  <2>1. m = p BY <1>2, <1>5
  <2>2. n \notin Starting BY <1>1, <2>1 DEF Known, Overlapped, Starting
  <2>3. stage[n] = "serving" BY <1>1, <1>3, <2>2 DEF Starting, Stage
  <2>4. n \in Listed BY <2>3, TimelyListed DEF Known, ListedWhileServing
  <2>5. [to |-> n, new |-> m] \in Announced(p) BY <1>5, <2>1, <2>4 DEF Announced
  <2> QED BY <1>1, <1>3, <2>3, <2>5 DEF Heard
<1> QED BY <1>4, <1>5

\* An announcement that arrives ends up in the table.
LEMMA HearAcquainted ==
    ASSUME Known, NEW a \in msgs, OnNewNode(a.to, a)
    PROVE  Acquainted'
<1>1. a.to \in Node /\ a.new \in Node BY DEF Known, TypeOK, Announcement
<1>2. a = [to |-> a.to, new |-> a.new] BY DEF Known, TypeOK, Announcement
<1>3. /\ peers \in [Node -> [Node -> Entry]]
      /\ peers' = [peers EXCEPT ![a.to][a.new] = Entered(a.to, a.new)]
      /\ msgs \ {a} \subseteq msgs'
      /\ UNCHANGED <<stage, left, lost, overlap>>
      BY DEF Known, TypeOK, OnNewNode
<1>4. Listed' = Listed BY <1>3 DEF Listed
<1>5. ASSUME NEW n \in Node, NEW m \in Node
      PROVE  peers'[n][m] = IF n = a.to /\ m = a.new THEN Entered(n, m) ELSE peers[n][m]
      BY <1>1, <1>3
<1>6. ASSUME lost = 0, NEW n \in Node, NEW m \in Node, n # m, Heard(n, m)
      PROVE  Heard(n, m)'
  <2>1. CASE n = a.to /\ m = a.new
    <3>1. peers[n][m] \in Entry /\ peers[n][m] # "unknown"
          BY <1>3, <1>6 DEF Known, Acquainted
    <3>2. Entered(n, m) = "wallet" BY <1>6, <3>1 DEF Entered, Entry
    <3> QED BY <1>5, <2>1, <3>2 DEF Heard
  <2>2. CASE ~(n = a.to /\ m = a.new)
    <3>1. peers'[n][m] = peers[n][m] BY <1>5, <2>2
    <3>2. a # [to |-> n, new |-> m] BY <1>2, <2>2
    <3> QED BY <1>3, <1>6, <3>1, <3>2 DEF Heard
  <2> QED BY <2>1, <2>2
<1>7. \A n, m \in Node : peers'[n][m] # peers[n][m] => peers'[n][m] # "unknown"
      BY <1>5 DEF Entered
<1>8. CASE lost = 0 BY <1>3, <1>4, <1>6, <1>7, <1>8, KeepsAcquainted DEF Known
<1>9. CASE lost # 0 BY <1>3, <1>9 DEF Acquainted
<1> QED BY <1>8, <1>9

\* Every step keeps nodes acquainted.
LEMMA StepAcquainted == Known /\ [Next]_vars => Acquainted'
<1> SUFFICES ASSUME Known, [Next]_vars PROVE Acquainted'
    OBVIOUS
<1> USE DEF Known
<1>1. ASSUME Losing PROVE Acquainted' BY <1>1, LosingType DEF Acquainted
<1>2. ASSUME NEW p \in Node, DiscoverFallback(p) \/ RegisterLost(p) \/ HeartbeatLost(p)
      PROVE  Acquainted'
      BY <1>1, <1>2 DEF DiscoverFallback, RegisterLost, HeartbeatLost
<1>3. ASSUME NEW p \in Node, Serve(p) PROVE Acquainted'
  <2>1. /\ stage \in [Node -> Stage] /\ stage[p] = "registered"
        /\ stage' = [stage EXCEPT ![p] = "serving"]
        /\ UNCHANGED <<left, peers, msgs, lost, overlap>>
        BY <1>3 DEF TypeOK, Serve
  <2>2. Listed' = Listed BY <2>1 DEF Listed
  <2>3. \A n, m \in Node : stage'[n] # "off" => stage[n] # "off" /\ (Heard(n, m) => Heard(n, m)')
        BY <2>1 DEF Heard
  <2> QED BY <2>1, <2>2, <2>3, KeepsAcquainted
<1>4. ASSUME NEW p \in Node, Heartbeat(p) PROVE Acquainted'
  <2>1. /\ left \in [Node -> 0..NodeTtl] /\ left' = [left EXCEPT ![p] = Renewed(p)]
        /\ UNCHANGED <<stage, peers, msgs, lost, overlap>>
        BY <1>4 DEF TypeOK, Heartbeat
  <2>2. Listed' \subseteq Listed BY <2>1 DEF Listed, Renewed
  <2>3. \A n, m \in Node : Heard(n, m)' = Heard(n, m) BY <2>1 DEF Heard
  <2> QED BY <2>1, <2>2, <2>3, KeepsAcquainted
<1>5. ASSUME NEW p \in Node, Stop(p) \/ Crash(p) PROVE Acquainted'
  <2>1. /\ stage \in [Node -> Stage] /\ peers \in [Node -> [Node -> Entry]]
        /\ left \in [Node -> 0..NodeTtl]
        /\ stage' = [stage EXCEPT ![p] = "off"] /\ peers' = [peers EXCEPT ![p] = NoPeers]
        /\ left' = [left EXCEPT ![p] = 0] \/ left' = left
        /\ UNCHANGED <<msgs, lost, overlap>>
        BY <1>5 DEF TypeOK, Stop, Crash, Gone
  <2>2. Listed' \subseteq Listed BY <2>1 DEF Listed
  <2>3. \A n \in Node : n # p => peers'[n] = peers[n] /\ stage'[n] = stage[n] BY <2>1
  <2>4. stage'[p] = "off" /\ \A m \in Node : peers'[p][m] = "none" BY <2>1 DEF NoPeers
  <2>5. \A n, m \in Node : stage'[n] # "off" => stage[n] # "off" /\ (Heard(n, m) => Heard(n, m)')
        BY <2>1, <2>3, <2>4 DEF Heard
  <2>6. \A n, m \in Node : peers'[n][m] # peers[n][m] => peers'[n][m] # "unknown"
        BY <2>3, <2>4
  <2> QED BY <2>1, <2>2, <2>5, <2>6, KeepsAcquainted
<1>6. ASSUME NEW a \in msgs, Refused(a) PROVE Acquainted'
  <2>1. stage[a.to] # "serving" /\ msgs' = msgs \ {a} /\ UNCHANGED <<stage, left, peers, lost, overlap>>
        BY <1>6 DEF Refused
  <2>2. Listed' = Listed BY <2>1 DEF Listed
  <2>3. \A n, m \in Node : Heard(n, m) => Heard(n, m)' BY <2>1 DEF Heard
  <2> QED BY <2>1, <2>2, <2>3, KeepsAcquainted
<1>7. ASSUME NEW a \in msgs, Lose(a) PROVE Acquainted' BY <1>1, <1>7 DEF Lose
<1>8. ASSUME Tick PROVE Acquainted'
  <2>1. /\ left \in [Node -> 0..NodeTtl] /\ left' = [n \in Node |-> Aged(left[n])]
        /\ UNCHANGED <<stage, peers, msgs, lost, overlap>>
        BY <1>8 DEF TypeOK, Tick
  <2>2. Listed' \subseteq Listed BY <2>1 DEF Listed, Aged
  <2>3. \A n, m \in Node : Heard(n, m)' = Heard(n, m) BY <2>1 DEF Heard
  <2> QED BY <2>1, <2>2, <2>3, KeepsAcquainted
<1>9. CASE UNCHANGED vars BY <1>9 DEF vars, Acquainted, Heard, Listed
<1> QED BY <1>2, <1>3, <1>4, <1>5, <1>6, <1>7, <1>8, <1>9, DiscoverAcquainted,
           RegisterAcquainted, HearAcquainted DEF Next, Step, Deliver

\* When no call was lost and the announcements have settled, two nodes that serve know
\* each other unless their starts have overlapped, whatever expired, crashed or started
\* again in between, for any number of nodes.
THEOREM KnownInvariant == Spec => []KnownUnlessOverlapped
<1>1. Init => Known
  <2>1. Init => TypeOK BY InitType
  <2>2. Init => Overlapped BY DEF Init, Overlapped, Starting
  <2>3. Init => Acquainted BY DEF Init, Acquainted, NoPeers, Listed
  <2>4. Init => Timely BY DEF Init, Timely
  <2> QED BY <2>1, <2>2, <2>3, <2>4 DEF Known
<1>2. Known /\ [Next]_vars => Known'
      BY StepType, StepTimely, StepOverlapped, StepAcquainted DEF Known
<1>3. Known => KnownUnlessOverlapped
  <2> SUFFICES ASSUME Known, lost = 0, msgs = {}, NEW n \in Node, NEW m \in Node, n # m,
                      stage[n] = "serving", stage[m] = "serving", {n, m} \notin overlap
               PROVE  peers[n][m] = "wallet"
      BY DEF KnownUnlessOverlapped
  <2>1. m \in Listed BY TimelyListed DEF Known, ListedWhileServing
  <2> QED BY <2>1 DEF Known, Acquainted, Heard
<1> QED BY <1>1, <1>2, <1>3, PTL DEF Spec
=============================================================================
