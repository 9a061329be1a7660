--------------------------- MODULE SimulationProofs ---------------------------
(***************************************************************************)
(* Proofs about Simulation for any poles, devices, targets and faults and  *)
(* any number of requests.                                                 *)
(***************************************************************************)
EXTENDS Simulation, BasicLemmas

-----------------------------------------------------------------------------
(* The invariants.                                                         *)

Phase == {"idle", "asked", "resolved", "sending", "sleeping", "looking"}

Key ==
  {<<>>} \cup {<<"fault", t>> : t \in Target} \cup {<<"repair", f>> : f \in Fault}
    \cup {<<"noise", type, p>> : type \in NoiseType, p \in Pole \cup {Unspecified}}

Job == [phase : Phase, key : Key, plan : Seq(Generated), next : Nat \ {0}]

Tuple == [pole : Device, at : Position]

(* A request has no plan before its claim, a run that waits is at one of   *)
(* its events, and the repair it asked for is of a fault.                  *)
JobHolds(j) ==
  /\ j \in Job
  /\ j.phase \in {"idle", "asked", "resolved"} => j.plan = <<>>
  /\ j.phase \in {"sleeping", "looking"} => j.next <= Len(j.plan)
  /\ j.phase = "asked" => j.key \in {<<"repair", f>> : f \in Fault}

(* The parts of the state that only the process has are gone with it.      *)
StoppedHolds == ~ up => buffer = <<>> /\ ~ inserted /\ \A r \in Request : job[r] = Idle

QueueTyped == buffer \in Seq(Tuple) /\ telemetry \subseteq Tuple

JobsTyped == job \in [Request -> Job] /\ \A r \in Request : JobHolds(job[r])

CursorsTyped == cursors \in [Pole -> Position] /\ applied \in [Pole -> Cursor]

ProcessTyped ==
  /\ up \in BOOLEAN /\ inserted \in BOOLEAN
  /\ inserted => buffer # <<>>
  /\ activeFaults \subseteq Fault /\ disturbed \subseteq Pole

TypesInv == ProcessTyped /\ CursorsTyped /\ QueueTyped /\ JobsTyped /\ StoppedHolds

(* Every event of a plan that should not be accepted follows one of its    *)
(* pole that should, as its repetition or as an older one; the others rise *)
(* and share no position with an older one.                                *)
PlanShape(plan) ==
  /\ \A i \in DOMAIN plan : plan[i].expected # "accepted" =>
       /\ i > 1 /\ plan[i - 1].expected = "accepted" /\ plan[i - 1].pole = plan[i].pole
       /\ plan[i].expected = "duplicate" => plan[i].at = plan[i - 1].at
       /\ plan[i].expected = "stale" => Before(plan[i].at, plan[i - 1].at)
  /\ \A i, j \in DOMAIN plan : plan[i].pole = plan[j].pole /\ plan[i].expected = "accepted" =>
       /\ i < j /\ plan[j].expected = "accepted" => Before(plan[i].at, plan[j].at)
       /\ plan[j].expected = "stale" => plan[i].at # plan[j].at

(* What is planned for a pole lies up to the producer's cursor, and what   *)
(* the run that reached the cursor has planned lies beyond all the others. *)
Reached(j, p) == \E i \in DOMAIN j.plan : j.plan[i].pole = p /\ j.plan[i].at = cursors[p]

PlansHold ==
  /\ \A r \in Request : PlanShape(job[r].plan)
  /\ \A r \in Request : \A i \in DOMAIN job[r].plan :
       ~ Before(cursors[job[r].plan[i].pole], job[r].plan[i].at)
  /\ \A r, s \in Request : \A i \in DOMAIN job[r].plan, j \in DOMAIN job[s].plan :
       r # s /\ job[r].plan[i].pole = job[s].plan[j].pole =>
         /\ job[r].plan[i].at # job[s].plan[j].at
         /\ Reached(job[r], job[r].plan[i].pole) => Before(job[s].plan[j].at, job[r].plan[i].at)

(* The queue of a pole rises from what is applied.                         *)
QueueHolds ==
  /\ \A i, j \in DOMAIN buffer :
       i < j /\ buffer[i].pole = buffer[j].pole => Before(buffer[i].at, buffer[j].at)
  /\ \A i \in DOMAIN buffer : Before(applied[buffer[i].pole], buffer[i].at)
  /\ inserted => Head(buffer) \in telemetry

Admitted(t) == t \in Range(buffer) \/ t \in telemetry

(* As long as nothing else moves the stream of a pole: it is behind the    *)
(* producer, and its rows behind it; what a run has had accepted is there, *)
(* what it has still to send is not.                                       *)
StreamHolds ==
  up => \A p \in Device \ disturbed :
    /\ ~ Before(cursors[p], StreamCursor(p))
    /\ \A t \in telemetry : t.pole = p => ~ Before(StreamCursor(p), t.at)

EventSent(j, i) ==
  LET e == j.plan[i] IN
  e.pole \notin disturbed =>
    /\ e.expected = "accepted" /\ i < j.next => Admitted(StreamTuple(e))
    /\ e.expected = "stale" => ~ Admitted(StreamTuple(e))
    /\ e.expected = "duplicate" /\ i = j.next /\ j.phase = "looking" =>
         StreamTuple(e) \in telemetry
    /\ e.expected = "accepted" /\ Reached(j, e.pole) =>
         IF i < j.next THEN ~ Before(StreamCursor(e.pole), e.at)
                       ELSE Before(StreamCursor(e.pole), e.at)

SentHolds == \A r \in Request : \A i \in DOMAIN job[r].plan : EventSent(job[r], i)

SimInv == TypesInv /\ PlansHold /\ QueueHolds /\ StreamHolds /\ SentHolds

-----------------------------------------------------------------------------
(* The order of positions, and the cursors that producers start from.      *)

LEMMA BeforeIsOrder ==
  /\ \A a \in Cursor : ~ Before(a, a)
  /\ \A a, b \in Cursor : Before(a, b) => ~ Before(b, a) /\ a # b
  /\ \A a, b, c \in Cursor : Before(a, b) /\ Before(b, c) => Before(a, c)
  /\ \A a, b, c \in Cursor : ~ Before(b, a) /\ Before(b, c) => Before(a, c)
  /\ \A a, b, c \in Cursor : Before(a, b) /\ ~ Before(c, b) => Before(a, c)
  /\ \A a, b, c \in Cursor : ~ Before(b, a) /\ ~ Before(c, b) => ~ Before(c, a)
<1> DEFINE C == [bootCounter : Int, seq : Int]
<1>1. Cursor \subseteq C
  BY DEF Cursor, Position, NoPosition
<1>2. \A a, b \in C : Before(a, b) => ~ Before(b, a)
  BY DEF Before
<1>3. \A a, b, c \in C : Before(a, b) /\ Before(b, c) => Before(a, c)
  BY DEF Before
<1>4. \A a, b, c \in C : ~ Before(b, a) /\ Before(b, c) => Before(a, c)
  BY DEF Before
<1>5. \A a, b, c \in C : Before(a, b) /\ ~ Before(c, b) => Before(a, c)
  BY DEF Before
<1>6. \A a, b, c \in C : ~ Before(b, a) /\ ~ Before(c, b) => ~ Before(c, a)
  BY DEF Before
<1>7. \A a \in C : ~ Before(a, a)
  BY DEF Before
<1> HIDE DEF C
<1> QED BY <1>1, <1>2, <1>3, <1>4, <1>5, <1>6, <1>7

LEMMA ProducerStarts ==
  ASSUME NEW c \in Cursor
  PROVE  ProducerCursor(c) \in Position /\ ~ Before(ProducerCursor(c), c)
<1>1. CASE c = NoPosition
  BY <1>1 DEF ProducerCursor, NoPosition, Position, Before
<1>2. CASE c # NoPosition
  BY <1>2, BeforeIsOrder DEF ProducerCursor, Cursor
<1> QED BY <1>1, <1>2

LEMMA AheadIs ==
  ASSUME NEW c \in Position, NEW n \in Nat
  PROVE  /\ Ahead(c, n) \in Position
         /\ Ahead(c, n).bootCounter = c.bootCounter /\ Ahead(c, n).seq = c.seq + n
BY DEF Ahead, Position

LEMMA AfterBootIs ==
  ASSUME NEW c \in Position
  PROVE  /\ AfterBoot(c) \in Position
         /\ AfterBoot(c).bootCounter = c.bootCounter + 1 /\ AfterBoot(c).seq = 1
         /\ Ahead(AfterBoot(c), -1) \in Position
         /\ Ahead(AfterBoot(c), -1).bootCounter = c.bootCounter + 1
         /\ Ahead(AfterBoot(c), -1).seq = 0
BY DEF AfterBoot, Ahead, Position

LEMMA EventAtIs ==
  ASSUME NEW p \in Device, NEW c \in Position
  PROVE  /\ EventAt(p, c) \in Generated
         /\ EventAt(p, c).pole = p /\ EventAt(p, c).at = c
         /\ EventAt(p, c).expected = "accepted"
BY DEF EventAt, Generated, Admission

LEMMA DuplicateIs ==
  ASSUME NEW e \in Generated
  PROVE  /\ Duplicate(e) \in Generated
         /\ Duplicate(e).pole = e.pole /\ Duplicate(e).at = e.at
         /\ Duplicate(e).expected = "duplicate"
BY DEF Duplicate, Generated, Admission

LEMMA StaleBeforeIs ==
  ASSUME NEW e \in Generated, NEW late \in BOOLEAN, e.at.seq > 0
  PROVE  /\ StaleBefore(e, late) \in Generated
         /\ StaleBefore(e, late).pole = e.pole
         /\ StaleBefore(e, late).at.bootCounter = e.at.bootCounter
         /\ StaleBefore(e, late).at.seq = e.at.seq - 1
         /\ StaleBefore(e, late).expected = "stale"
<1>1. e.at \in Position
  BY DEF Generated
<1> DEFINE at == [e.at EXCEPT !.seq = e.at.seq - 1]
<1>2. at \in Position /\ at.bootCounter = e.at.bootCounter /\ at.seq = e.at.seq - 1
  BY <1>1 DEF Position
<1>3. StaleBefore(e, late) = [e EXCEPT !.at = at, !.expected = "stale", !.delayed = late]
  <2>1. [e.at EXCEPT !.seq = IF @ = 0 THEN 0 ELSE @ - 1] = at
    BY <1>1 DEF Position
  <2>2. StaleBefore(e, late) =
          [e EXCEPT !.at = [e.at EXCEPT !.seq = IF @ = 0 THEN 0 ELSE @ - 1],
                    !.expected = "stale", !.delayed = late]
    BY DEF StaleBefore, Generated
  <2> HIDE DEF at
  <2> QED BY <2>1, <2>2
<1> HIDE DEF at
<1> QED BY <1>2, <1>3 DEF Generated, Admission

-----------------------------------------------------------------------------
(* Plans.                                                                  *)

(* The blocks of a plan: the telemetry of one pole, or one repetition.     *)
PlanBlock(s, k) ==
  /\ s \in Seq(Generated) /\ Len(s) = k
  /\ s[1].expected = "accepted"
  /\ k = 2 =>
       /\ s[2].pole = s[1].pole
       /\ \/ s[2].expected = "accepted" /\ Before(s[1].at, s[2].at)
          \/ s[2].expected = "duplicate" /\ s[2].at = s[1].at
          \/ s[2].expected = "stale" /\ Before(s[2].at, s[1].at)

PlanBlocks(seqs, n, k) ==
  /\ n \in Nat /\ k \in {1, 2} /\ DOMAIN seqs = 1 .. n
  /\ seqs \in Seq(Seq(Generated)) /\ Len(seqs) = n
  /\ \A b \in 1 .. n : PlanBlock(seqs[b], k)
  /\ \A b, c \in 1 .. n, o, u \in 1 .. k :
       b < c /\ seqs[b][o].pole = seqs[c][u].pole => Before(seqs[b][o].at, seqs[c][u].at)

LEMMA Placed ==
  ASSUME NEW k \in {1, 2}, NEW m \in Nat, NEW i \in 1 .. (IF k = 1 THEN m ELSE 2 * m)
  PROVE  \E b \in 1 .. m, o \in 1 .. k : i = Place2(k, b, o)
<1>1. CASE k = 1
  <2>1. i \in 1 .. m /\ 1 \in 1 .. k /\ i = Place2(k, i, 1)
    BY <1>1 DEF Place2
  <2> QED BY <2>1
<1>2. CASE k = 2
  <2>1. PICK b \in Nat : i = 2 * b \/ i = 2 * b + 1
    <3>1. i = 2 * (i \div 2) \/ i = 2 * (i \div 2) + 1
      OBVIOUS
    <3>2. i \div 2 \in Nat
      OBVIOUS
    <3> QED BY <3>1, <3>2
  <2>2. CASE i = 2 * b
    <3>1. b \in 1 .. m /\ 2 \in 1 .. k /\ i = Place2(k, b, 2)
      BY <1>2, <2>2 DEF Place2
    <3> QED BY <3>1
  <2>3. CASE i = 2 * b + 1
    <3>1. b + 1 \in 1 .. m /\ 1 \in 1 .. k /\ i = Place2(k, b + 1, 1)
      BY <1>2, <2>3 DEF Place2
    <3> QED BY <3>1
  <2> QED BY <2>1, <2>2, <2>3
<1> QED BY <1>1, <1>2

(* A plan has just the events of its blocks.                               *)
MadeOf(plan, seqs, n, k) ==
  /\ \A i \in DOMAIN plan : \E b \in 1 .. n, o \in 1 .. k : plan[i] = seqs[b][o]
  /\ \A b \in 1 .. n, o \in 1 .. k : \E i \in DOMAIN plan : plan[i] = seqs[b][o]

(* The blocks one after the other make a plan, of just their events.       *)
LEMMA BlocksMakePlan ==
  ASSUME NEW n, NEW k, NEW seqs, PlanBlocks(seqs, n, k),
         NEW plan, plan = FlattenSeq(seqs)
  PROVE  plan \in Seq(Generated) /\ PlanShape(plan) /\ MadeOf(plan, seqs, n, k)
<1>1. /\ n \in Nat /\ k \in {1, 2} /\ seqs \in Seq(Seq(Generated)) /\ Len(seqs) = n
      /\ \A b \in 1 .. n : PlanBlock(seqs[b], k)
  BY DEF PlanBlocks
<1>2. plan \in Seq(Generated) /\ InPlace(plan, seqs, k, n)
  BY <1>1, FlattenBlocks DEF PlanBlock
<1>3. DOMAIN plan = 1 .. (IF k = 1 THEN n ELSE 2 * n)
  <2>1. DOMAIN plan = 1 .. Len(plan)
    BY <1>2
  <2> QED BY <1>2, <2>1, Zenon DEF InPlace
<1>4. \A b \in 1 .. n, o \in 1 .. k : Place2(k, b, o) \in DOMAIN plan
                                     /\ plan[Place2(k, b, o)] = seqs[b][o]
  <2>1. \A b \in 1 .. n, o \in 1 .. k : Place2(k, b, o) \in DOMAIN plan
    <3>1. CASE k = 1
      BY <1>1, <1>3, <3>1 DEF Place2
    <3>2. CASE k = 2
      BY <1>1, <1>3, <3>2 DEF Place2
    <3> QED BY <1>1, <3>1, <3>2
  <2>2. \A b \in 1 .. n, o \in 1 .. k : plan[Place2(k, b, o)] = seqs[b][o]
    BY <1>2 DEF InPlace
  <2> QED BY <2>1, <2>2
<1>5. \A i \in DOMAIN plan : \E b \in 1 .. n, o \in 1 .. k : i = Place2(k, b, o)
  <2> SUFFICES ASSUME NEW i \in DOMAIN plan
               PROVE  \E b \in 1 .. n, o \in 1 .. k : i = Place2(k, b, o)
    OBVIOUS
  <2>1. i \in 1 .. (IF k = 1 THEN n ELSE 2 * n)
    BY <1>3, Zenon
  <2> QED BY <1>1, <2>1, Placed, Zenon
<1>6. ASSUME NEW i \in DOMAIN plan, plan[i].expected # "accepted"
      PROVE  /\ i > 1 /\ plan[i - 1].expected = "accepted"
             /\ plan[i - 1].pole = plan[i].pole
             /\ plan[i].expected = "duplicate" => plan[i].at = plan[i - 1].at
             /\ plan[i].expected = "stale" => Before(plan[i].at, plan[i - 1].at)
  <2>1. PICK b \in 1 .. n, o \in 1 .. k : i = Place2(k, b, o)
    BY <1>5
  <2>2. plan[i] = seqs[b][o]
    BY <1>4, <2>1
  <2>3. PlanBlock(seqs[b], k)
    BY <1>1
  <2>4. k = 2 /\ o = 2
    BY <1>1, <1>6, <2>2, <2>3 DEF PlanBlock
  <2>5. i - 1 = Place2(k, b, 1) /\ i > 1
    BY <2>1, <2>4 DEF Place2
  <2>6. plan[i - 1] = seqs[b][1]
    BY <1>4, <2>4, <2>5
  <2> QED BY <1>6, <2>2, <2>3, <2>4, <2>5, <2>6 DEF PlanBlock
<1>7. ASSUME NEW i \in DOMAIN plan, NEW j \in DOMAIN plan,
             plan[i].pole = plan[j].pole, plan[i].expected = "accepted"
      PROVE  /\ i < j /\ plan[j].expected = "accepted" => Before(plan[i].at, plan[j].at)
             /\ plan[j].expected = "stale" => plan[i].at # plan[j].at
  <2>1. PICK b \in 1 .. n, o \in 1 .. k : i = Place2(k, b, o)
    BY <1>5
  <2>2. PICK c \in 1 .. n, u \in 1 .. k : j = Place2(k, c, u)
    BY <1>5
  <2>3. plan[i] = seqs[b][o] /\ plan[j] = seqs[c][u]
    BY <1>4, <2>1, <2>2
  <2>4. plan[i].at \in Cursor /\ plan[j].at \in Cursor
    <3>1. plan[i] \in Generated /\ plan[j] \in Generated
      BY <1>2
    <3> QED BY <3>1 DEF Generated, Cursor
  <2>5. CASE b = c
    <3>1. PlanBlock(seqs[b], k)
      BY <1>1
    <3>2. CASE i = j
      <4>1. i \in Int /\ ~ i < j /\ plan[j].expected = "accepted"
        BY <1>1, <1>3, <1>7, <3>2
      <4> QED BY <4>1
    <3>3. CASE i # j
      <4>1. k = 2 /\ ((o = 1 /\ u = 2 /\ i < j) \/ (o = 2 /\ u = 1 /\ j < i))
        <5>1. o \in {1, 2} /\ u \in {1, 2} /\ (k = 1 => o = 1 /\ u = 1) /\ o # u
          BY <1>1, <2>1, <2>2, <2>5, <3>3
        <5>2. k = 2
          BY <1>1, <5>1
        <5>3. i = 2 * (b - 1) + o /\ j = 2 * (b - 1) + u
          BY <2>1, <2>2, <2>5, <5>2 DEF Place2
        <5> QED BY <1>1, <3>3, <5>1, <5>2, <5>3
      <4>2. CASE o = 1 /\ u = 2
        BY <2>3, <2>4, <2>5, <3>1, <4>1, <4>2, BeforeIsOrder DEF PlanBlock
      <4>3. CASE o = 2 /\ u = 1
        <5>1. plan[j].expected = "accepted" /\ ~ i < j
          BY <2>3, <2>5, <3>1, <4>1, <4>3 DEF PlanBlock
        <5> QED BY <5>1
      <4> QED BY <4>1, <4>2, <4>3
    <3> QED BY <3>2, <3>3
  <2>6. CASE b < c
    <3>1. Before(plan[i].at, plan[j].at)
      BY <1>7, <2>3, <2>6 DEF PlanBlocks
    <3> QED BY <2>4, <3>1, BeforeIsOrder
  <2>7. CASE c < b
    <3>1. Before(plan[j].at, plan[i].at)
      BY <1>7, <2>3, <2>7 DEF PlanBlocks
    <3>2. ~ i < j
      BY <1>1, <2>1, <2>2, <2>7 DEF Place2
    <3> QED BY <2>4, <3>1, <3>2, BeforeIsOrder
  <2> QED BY <2>5, <2>6, <2>7
<1>8. PlanShape(plan)
  BY <1>6, <1>7 DEF PlanShape
<1>9. MadeOf(plan, seqs, n, k)
  BY <1>4, <1>5 DEF MadeOf
<1> QED BY <1>2, <1>8, <1>9

-----------------------------------------------------------------------------
(* A plan and the cursors it leaves: its events lie after the cursors that *)
(* it found and up to those it leaves, which it reaches where they moved.  *)
NewPlan(plan, moved) ==
  /\ plan \in Seq(Generated) /\ PlanShape(plan)
  /\ moved \in [Pole -> Position]
  /\ \A p \in Pole : ~ Before(moved[p], cursors[p])
  /\ \A i \in DOMAIN plan : /\ Before(cursors[plan[i].pole], plan[i].at)
                            /\ ~ Before(moved[plan[i].pole], plan[i].at)
  /\ \A p \in Pole : moved[p] # cursors[p] =>
       \E i \in DOMAIN plan : plan[i].pole = p /\ plan[i].at = moved[p]

(* The plan of one block per pole of a set.                                *)
BlockOf(s, k, p, moved) ==
  /\ PlanBlock(s, k)
  /\ \A o \in 1 .. k : /\ s[o].pole = p
                       /\ Before(cursors[p], s[o].at) /\ ~ Before(moved[p], s[o].at)
  /\ \E o \in 1 .. k : s[o].at = moved[p]

LEMMA OneBlockPerPole ==
  ASSUME NEW S \in SUBSET Device, NEW k \in {1, 2}, NEW block, NEW moved,
         cursors \in [Pole -> Position], moved \in [Pole -> Position],
         \A p \in S : BlockOf(block[p], k, p, moved),
         \A p \in Pole \ S : moved[p] = cursors[p],
         NEW order, order = SetToSeq(S)
  PROVE  NewPlan(FlattenSeq([i \in DOMAIN order |-> block[order[i]]]), moved)
<1> DEFINE n == Cardinality(S)
           seqs == [i \in DOMAIN order |-> block[order[i]]]
           plan == FlattenSeq(seqs)
<1>1. Device \subseteq Pole /\ IsFiniteSet(S)
  BY SimulationAssumption, FS_Subset
<1>2. /\ n \in Nat /\ order \in [1 .. n -> S]
      /\ \A i, j \in 1 .. n : order[i] = order[j] => i = j
      /\ \A p \in S : \E i \in 1 .. n : order[i] = p
  BY <1>1, SetToSeqLists
<1> HIDE DEF n
<1>3. \A b \in 1 .. n : seqs[b] = block[order[b]] /\ BlockOf(seqs[b], k, order[b], moved)
  BY <1>2
<1>4. PlanBlocks(seqs, n, k)
  <2>1. DOMAIN seqs = 1 .. n
    BY <1>2
  <2>2. \A b \in 1 .. n : seqs[b] \in Seq(Generated)
    BY <1>3 DEF BlockOf, PlanBlock
  <2>3. seqs \in Seq(Seq(Generated)) /\ Len(seqs) = n
    BY <1>2, <2>1, <2>2
  <2>4. \A b, c \in 1 .. n, o, u \in 1 .. k :
          seqs[b][o].pole = seqs[c][u].pole => ~ b < c
    BY <1>2, <1>3 DEF BlockOf
  <2> HIDE DEF seqs
  <2> QED BY <1>2, <1>3, <2>1, <2>3, <2>4 DEF PlanBlocks, BlockOf
<1> HIDE DEF seqs
<1>5. plan \in Seq(Generated) /\ PlanShape(plan) /\ MadeOf(plan, seqs, n, k)
  <2>1. plan = FlattenSeq(seqs)
    OBVIOUS
  <2> HIDE DEF plan
  <2> QED BY <1>4, <2>1, BlocksMakePlan, Zenon
<1> HIDE DEF plan
<1>6. ASSUME NEW i \in DOMAIN plan
      PROVE  Before(cursors[plan[i].pole], plan[i].at)
             /\ ~ Before(moved[plan[i].pole], plan[i].at)
  <2>1. PICK b \in 1 .. n, o \in 1 .. k : plan[i] = seqs[b][o]
    BY <1>5 DEF MadeOf
  <2>2. BlockOf(seqs[b], k, order[b], moved)
    BY <1>3
  <2> QED BY <2>1, <2>2 DEF BlockOf
<1>7. ASSUME NEW p \in Pole, moved[p] # cursors[p]
      PROVE  \E i \in DOMAIN plan : plan[i].pole = p /\ plan[i].at = moved[p]
  <2>1. PICK b \in 1 .. n : order[b] = p
    BY <1>2, <1>7
  <2>2. PICK o \in 1 .. k : seqs[b][o].pole = p /\ seqs[b][o].at = moved[p]
    BY <1>3, <2>1 DEF BlockOf
  <2> QED BY <1>5, <2>2 DEF MadeOf
<1>8. ASSUME NEW p \in Pole
      PROVE  ~ Before(moved[p], cursors[p])
  <2>1. cursors[p] \in Cursor /\ moved[p] \in Cursor
    BY DEF Cursor
  <2>2. CASE p \notin S
    BY <2>1, <2>2, BeforeIsOrder
  <2>3. CASE p \in S
    <3>1. PICK o \in 1 .. k : Before(cursors[p], block[p][o].at) /\ block[p][o].at = moved[p]
      BY <2>3 DEF BlockOf
    <3> QED BY <2>1, <3>1, BeforeIsOrder
  <2> QED BY <2>2, <2>3
<1> QED BY <1>5, <1>6, <1>7, <1>8 DEF NewPlan, plan, seqs

LEMMA FaultPlanIsNew ==
  ASSUME cursors \in [Pole -> Position], NEW delivered \in SUBSET Device, NEW twice \in BOOLEAN
  PROVE  NewPlan(FaultPlan(delivered, twice),
                 [p \in Pole |-> IF p \in delivered THEN Ahead(cursors[p], 1) ELSE cursors[p]])
<1> DEFINE e(p) == EventAt(p, Ahead(cursors[p], 1))
           block == [p \in delivered |-> IF twice THEN <<e(p), Duplicate(e(p))>> ELSE <<e(p)>>]
           moved == [p \in Pole |-> IF p \in delivered THEN Ahead(cursors[p], 1) ELSE cursors[p]]
           k == IF twice THEN 2 ELSE 1
           order == SetToSeq(delivered)
<1>1. Device \subseteq Pole /\ IsFiniteSet(delivered)
  BY SimulationAssumption, FS_Subset
<1>2. ASSUME NEW p \in Device
      PROVE  /\ Ahead(cursors[p], 1) \in Position
             /\ Before(cursors[p], Ahead(cursors[p], 1))
             /\ e(p) \in Generated /\ e(p).pole = p /\ e(p).at = Ahead(cursors[p], 1)
             /\ e(p).expected = "accepted"
             /\ Duplicate(e(p)) \in Generated /\ Duplicate(e(p)).pole = p
             /\ Duplicate(e(p)).at = e(p).at /\ Duplicate(e(p)).expected = "duplicate"
  <2>1. cursors[p] \in Position
    BY <1>1
  <2> DEFINE c == cursors[p]
  <2>2. Ahead(c, 1) \in Position /\ Before(c, Ahead(c, 1))
    <3> HIDE DEF c
    <3>1. /\ Ahead(c, 1) \in Position
          /\ Ahead(c, 1).bootCounter = c.bootCounter /\ Ahead(c, 1).seq = c.seq + 1
      BY <2>1, AheadIs DEF c
    <3>2. c.seq \in Nat /\ c.bootCounter \in Nat
      BY <2>1 DEF Position, c
    <3> QED BY <3>1, <3>2 DEF Before
  <2> QED BY <2>2, EventAtIs, DuplicateIs
<1>3. moved \in [Pole -> Position]
  BY <1>1, <1>2
<1>4. ASSUME NEW p \in delivered
      PROVE  BlockOf(block[p], k, p, moved)
  <2>1. p \in Device /\ p \in Pole /\ moved[p] = e(p).at
    BY <1>1, <1>2
  <2>2. moved[p] \in Cursor /\ cursors[p] \in Cursor
    BY <1>3, <2>1 DEF Cursor
  <2>3. block[p] = IF twice THEN <<e(p), Duplicate(e(p))>> ELSE <<e(p)>>
    OBVIOUS
  <2>4. ~ Before(moved[p], moved[p]) /\ Before(cursors[p], moved[p])
    BY <1>2, <2>1, <2>2, BeforeIsOrder
  <2>5. /\ e(p) \in Generated /\ e(p).pole = p /\ e(p).expected = "accepted"
        /\ Duplicate(e(p)) \in Generated /\ Duplicate(e(p)).pole = p
        /\ Duplicate(e(p)).at = e(p).at /\ Duplicate(e(p)).expected = "duplicate"
    BY <1>2, <2>1
  <2> HIDE DEF e, block, moved
  <2>6. CASE twice
    <3>1. /\ block[p] \in Seq(Generated) /\ Len(block[p]) = 2 /\ k = 2
          /\ block[p][1] = e(p) /\ block[p][2] = Duplicate(e(p))
      BY <2>3, <2>5, <2>6
    <3> HIDE DEF k
    <3>2. PlanBlock(block[p], k)
      BY <2>5, <3>1 DEF PlanBlock
    <3> QED BY <2>1, <2>4, <2>5, <3>1, <3>2 DEF BlockOf
  <2>7. CASE ~ twice
    <3>1. /\ block[p] \in Seq(Generated) /\ Len(block[p]) = 1 /\ k = 1
          /\ block[p][1] = e(p)
      BY <2>3, <2>5, <2>7
    <3> HIDE DEF k
    <3>2. PlanBlock(block[p], k)
      BY <2>5, <3>1 DEF PlanBlock
    <3> QED BY <2>1, <2>4, <2>5, <3>1, <3>2 DEF BlockOf
  <2> QED BY <2>6, <2>7
<1>5. \A p \in Pole \ delivered : moved[p] = cursors[p]
  OBVIOUS
<1>6. order \in [1 .. Cardinality(delivered) -> delivered]
  BY <1>1, SetToSeqLists
<1>7. FaultPlan(delivered, twice) = FlattenSeq([i \in DOMAIN order |-> block[order[i]]])
  <2>1. \A i \in DOMAIN order : order[i] \in delivered
    BY <1>6
  <2>2. FaultPlan(delivered, twice) =
          FlattenSeq([i \in DOMAIN order |->
            IF twice THEN <<e(order[i]), Duplicate(e(order[i]))>> ELSE <<e(order[i])>>])
    BY DEF FaultPlan, Expand
  <2>3. [i \in DOMAIN order |->
            IF twice THEN <<e(order[i]), Duplicate(e(order[i]))>> ELSE <<e(order[i])>>]
        = [i \in DOMAIN order |-> block[order[i]]]
    BY <2>1
  <2> QED BY <2>2, <2>3
<1>8. k \in {1, 2}
  OBVIOUS
<1> HIDE DEF block, moved, k
<1>9. NewPlan(FlattenSeq([i \in DOMAIN order |-> block[order[i]]]), moved)
  BY <1>3, <1>4, <1>5, <1>8, OneBlockPerPole
<1> QED BY <1>7, <1>9 DEF moved

LEMMA RepairPlanIsNew ==
  ASSUME cursors \in [Pole -> Position], NEW f
  PROVE  NewPlan(RepairPlan(f),
                 [p \in Pole |-> IF p \in Restoring(f) THEN AfterBoot(cursors[p])
                                                       ELSE cursors[p]])
<1> DEFINE S == Restoring(f)
           block == [p \in S |-> BootAndRestore(p, cursors[p])]
           moved == [p \in Pole |-> IF p \in S THEN AfterBoot(cursors[p]) ELSE cursors[p]]
           order == SetToSeq(S)
<1>1. S \subseteq Device /\ Device \subseteq Pole /\ IsFiniteSet(S)
  BY SimulationAssumption, FS_Subset DEF Restoring
<1>2. ASSUME NEW p \in Device, NEW a, a = Ahead(AfterBoot(cursors[p]), -1),
             NEW b, b = AfterBoot(cursors[p])
      PROVE  /\ a \in Position /\ b \in Position
             /\ Before(cursors[p], a) /\ Before(a, b) /\ Before(cursors[p], b)
  <2> DEFINE c == cursors[p]
  <2>1. c \in Position
    BY <1>1
  <2> HIDE DEF c
  <2>2. /\ b \in Position /\ b.bootCounter = c.bootCounter + 1 /\ b.seq = 1
        /\ a \in Position /\ a.bootCounter = c.bootCounter + 1 /\ a.seq = 0
    BY <1>2, <2>1, AfterBootIs DEF c
  <2>3. c.bootCounter \in Nat
    BY <2>1 DEF Position
  <2>4. Before(c, a) /\ Before(a, b) /\ Before(c, b)
    BY <2>2, <2>3 DEF Before
  <2> QED BY <2>2, <2>4 DEF c
<1>3. moved \in [Pole -> Position]
  BY <1>1, <1>2
<1>4. ASSUME NEW p \in S
      PROVE  BlockOf(block[p], 2, p, moved)
  <2> DEFINE a == Ahead(AfterBoot(cursors[p]), -1)
             b == AfterBoot(cursors[p])
             d == EventAt(p, a)
             e == EventAt(p, b)
  <2>1. p \in Device /\ p \in Pole
    BY <1>1
  <2>2. /\ a \in Position /\ b \in Position
        /\ Before(cursors[p], a) /\ Before(a, b) /\ Before(cursors[p], b)
    BY <1>2, <2>1
  <2>3. a \in Cursor /\ b \in Cursor
    BY <2>2 DEF Cursor
  <2>4. ~ Before(b, a) /\ ~ Before(b, b)
    BY <2>2, <2>3, BeforeIsOrder
  <2>5. block[p] = <<d, e>> /\ moved[p] = b
    BY <2>1 DEF BootAndRestore
  <2> HIDE DEF a, b, block, moved
  <2>6. /\ d \in Generated /\ d.pole = p /\ d.at = a /\ d.expected = "accepted"
        /\ e \in Generated /\ e.pole = p /\ e.at = b /\ e.expected = "accepted"
    BY <2>1, <2>2, EventAtIs
  <2> HIDE DEF d, e
  <2>7. /\ block[p] \in Seq(Generated) /\ Len(block[p]) = 2
        /\ block[p][1] = d /\ block[p][2] = e
    BY <2>5, <2>6
  <2>8. PlanBlock(block[p], 2)
    BY <2>2, <2>6, <2>7 DEF PlanBlock
  <2> QED BY <2>2, <2>4, <2>5, <2>6, <2>7, <2>8 DEF BlockOf
<1>5. \A p \in Pole \ S : moved[p] = cursors[p]
  OBVIOUS
<1>6. order \in [1 .. Cardinality(S) -> S]
  BY <1>1, SetToSeqLists
<1>7. RepairPlan(f) = FlattenSeq([i \in DOMAIN order |-> block[order[i]]])
  <2>1. \A i \in DOMAIN order : order[i] \in S
    BY <1>6
  <2>2. RepairPlan(f) =
          FlattenSeq([i \in DOMAIN order |-> BootAndRestore(order[i], cursors[order[i]])])
    BY DEF RepairPlan, Expand
  <2>3. [i \in DOMAIN order |-> BootAndRestore(order[i], cursors[order[i]])]
        = [i \in DOMAIN order |-> block[order[i]]]
    BY <2>1
  <2> QED BY <2>2, <2>3
<1> HIDE DEF block, moved
<1>8. S \in SUBSET Device
  BY <1>1
<1>9. NewPlan(FlattenSeq([i \in DOMAIN order |-> block[order[i]]]), moved)
  <2> HIDE DEF S
  <2>1. order = SetToSeq(S)
    OBVIOUS
  <2> HIDE DEF order
  <2> QED BY <1>3, <1>4, <1>5, <1>8, <2>1, OneBlockPerPole
<1> QED BY <1>7, <1>9 DEF moved, S

(* A repetition takes its positions from the stream one after the other.   *)
Takes(type) == IF type = "dead_sensor" THEN 1 ELSE 2

LEMMA RepetitionIs ==
  ASSUME NEW type \in NoiseType, NEW p \in Device, NEW c \in Position, NEW late \in BOOLEAN,
         NEW s, s = Repetition(type, p, c, late),
         NEW n, n = EventsTaken(type), NEW k, k = Takes(type)
  PROVE  /\ k \in {1, 2} /\ n \in {1, 2} /\ PlanBlock(s, k)
         /\ \A o \in 1 .. k :
              /\ s[o].pole = p /\ s[o].at.bootCounter = c.bootCounter
              /\ s[o].at.seq \in c.seq + 1 .. c.seq + n
         /\ s[1].at = Ahead(c, n)
<1> DEFINE a == Ahead(c, 1)
           b == Ahead(c, 2)
           d == EventAt(p, a)
           e == EventAt(p, b)
           u == Duplicate(d)
           v == StaleBefore(e, late)
           w == StaleBefore(e, FALSE)
<1>1. c.seq \in Nat /\ c.bootCounter \in Nat
  BY DEF Position
<1>2. /\ a \in Position /\ a.bootCounter = c.bootCounter /\ a.seq = c.seq + 1
      /\ b \in Position /\ b.bootCounter = c.bootCounter /\ b.seq = c.seq + 2
  BY AheadIs
<1>3. /\ type = "duplicate_telemetry" => s = <<d, u>>
      /\ type = "stale_retry" => s = <<e, v>>
      /\ type = "out_of_order" => s = <<e, w>>
      /\ type = "dead_sensor" => s = <<e>>
  BY DEF Repetition
<1>4. /\ type = "duplicate_telemetry" => n = 1 /\ k = 2
      /\ type \in {"stale_retry", "out_of_order"} => n = 2 /\ k = 2
      /\ type = "dead_sensor" => n = 2 /\ k = 1
  BY DEF EventsTaken, Takes
<1>5. (n = 1 => Ahead(c, n) = a) /\ (n = 2 => Ahead(c, n) = b)
  OBVIOUS
<1> HIDE DEF a, b
<1>6. /\ d \in Generated /\ d.pole = p /\ d.at = a /\ d.expected = "accepted"
      /\ e \in Generated /\ e.pole = p /\ e.at = b /\ e.expected = "accepted"
  BY <1>2, EventAtIs
<1> HIDE DEF d, e
<1>7. u \in Generated /\ u.pole = p /\ u.at = a /\ u.expected = "duplicate"
  BY <1>6, DuplicateIs
<1>8. /\ v \in Generated /\ v.pole = p /\ v.expected = "stale"
      /\ v.at.bootCounter = c.bootCounter /\ v.at.seq = c.seq + 1
      /\ w \in Generated /\ w.pole = p /\ w.expected = "stale"
      /\ w.at.bootCounter = c.bootCounter /\ w.at.seq = c.seq + 1
  <2>1. e.at.seq = c.seq + 2 /\ e.at.bootCounter = c.bootCounter /\ e.at.seq > 0
    BY <1>1, <1>2, <1>6
  <2>2. e.at.seq - 1 = c.seq + 1
    BY <1>1, <2>1
  <2>3. ASSUME NEW l \in BOOLEAN, NEW x, x = StaleBefore(e, l)
        PROVE  /\ x \in Generated /\ x.pole = p /\ x.expected = "stale"
               /\ x.at.bootCounter = c.bootCounter /\ x.at.seq = c.seq + 1
    BY <1>6, <2>1, <2>2, <2>3, StaleBeforeIs
  <2>4. FALSE \in BOOLEAN
    OBVIOUS
  <2> HIDE DEF e
  <2> QED BY <2>3, <2>4
<1> HIDE DEF u, v, w
<1>9. Before(v.at, b) /\ Before(w.at, b)
  BY <1>1, <1>2, <1>8 DEF Before
<1>10. CASE type = "duplicate_telemetry"
  <2>1. s \in Seq(Generated) /\ Len(s) = 2 /\ s[1] = d /\ s[2] = u /\ n = 1 /\ k = 2
    <3>1. s = <<d, u>> /\ n = 1 /\ k = 2
      BY <1>3, <1>4, <1>10, Zenon
    <3> QED BY <1>6, <1>7, <3>1
  <2>2. PlanBlock(s, k)
    BY <1>6, <1>7, <2>1 DEF PlanBlock
  <2> QED BY <1>1, <1>2, <1>5, <1>6, <1>7, <2>1, <2>2
<1>11. CASE type \in {"stale_retry", "out_of_order"}
  <2>1. PICK x \in {v, w} : s = <<e, x>>
    BY <1>3, <1>11
  <2>2. s \in Seq(Generated) /\ Len(s) = 2 /\ s[1] = e /\ s[2] = x /\ n = 2 /\ k = 2
    BY <1>4, <1>6, <1>8, <1>11, <2>1
  <2>3. /\ x \in Generated /\ x.pole = p /\ x.expected = "stale" /\ Before(x.at, b)
        /\ x.at.bootCounter = c.bootCounter /\ x.at.seq = c.seq + 1
    BY <1>8, <1>9, <2>1
  <2>4. PlanBlock(s, k)
    BY <1>6, <2>2, <2>3 DEF PlanBlock
  <2> QED BY <1>1, <1>2, <1>5, <1>6, <2>2, <2>3, <2>4
<1>12. CASE type = "dead_sensor"
  <2>1. s \in Seq(Generated) /\ Len(s) = 1 /\ s[1] = e /\ n = 2 /\ k = 1
    <3>1. s = <<e>> /\ n = 2 /\ k = 1
      BY <1>3, <1>4, <1>12, Zenon
    <3> QED BY <1>6, <3>1
  <2>2. PlanBlock(s, k)
    BY <1>6, <2>1 DEF PlanBlock
  <2> QED BY <1>1, <1>2, <1>5, <1>6, <2>1, <2>2
<1> QED BY <1>10, <1>11, <1>12 DEF NoiseType

LEMMA NoisePlanIsNew ==
  ASSUME cursors \in [Pole -> Position], NEW type \in NoiseType, NEW p \in Device,
         NEW count \in 1 .. MaxCount, NEW late \in BOOLEAN
  PROVE  NewPlan(NoisePlan(type, p, count, late),
                 [cursors EXCEPT ![p] = Ahead(@, count * EventsTaken(type))])
<1> DEFINE c == cursors[p]
           n == EventsTaken(type)
           k == Takes(type)
           at(b) == Ahead(c, (b - 1) * n)
           seqs == [b \in 1 .. count |-> Repetition(type, p, at(b), late)]
           plan == FlattenSeq(seqs)
           moved == [cursors EXCEPT ![p] = Ahead(@, count * n)]
<1>1. p \in Pole /\ count \in Nat /\ count >= 1 /\ c \in Position
  BY SimulationAssumption
<1>2. n \in {1, 2} /\ k \in {1, 2}
  BY DEF EventsTaken, Takes
<1>3. c.seq \in Nat /\ c.bootCounter \in Nat
  BY <1>1 DEF Position
<1> HIDE DEF c, n, k
<1>4. ASSUME NEW b \in 1 .. count
      PROVE  /\ at(b) \in Position /\ at(b).bootCounter = c.bootCounter
             /\ at(b).seq = c.seq + (b - 1) * n
  <2>1. (b - 1) * n \in Nat
    BY <1>2
  <2> QED BY <1>1, <2>1, AheadIs
<1>5. /\ moved[p] \in Position /\ moved[p].bootCounter = c.bootCounter
      /\ moved[p].seq = c.seq + count * n
      /\ moved \in [Pole -> Position]
      /\ \A q \in Pole : q # p => moved[q] = cursors[q]
  <2>1. count * n \in Nat
    BY <1>1, <1>2
  <2>2. /\ Ahead(c, count * n) \in Position
        /\ Ahead(c, count * n).bootCounter = c.bootCounter
        /\ Ahead(c, count * n).seq = c.seq + count * n
    BY <1>1, <2>1, AheadIs
  <2>3. moved = [cursors EXCEPT ![p] = Ahead(c, count * n)]
    BY DEF c
  <2> HIDE DEF moved
  <2> QED BY <1>1, <2>2, <2>3
<1>6. ASSUME NEW b \in 1 .. count
      PROVE  /\ PlanBlock(seqs[b], k)
             /\ \A o \in 1 .. k :
                  /\ seqs[b][o].pole = p /\ seqs[b][o].at.bootCounter = c.bootCounter
                  /\ seqs[b][o].at.seq \in c.seq + (b - 1) * n + 1 .. c.seq + b * n
             /\ seqs[b][1].at = Ahead(at(b), n)
  <2>1. seqs[b] = Repetition(type, p, at(b), late)
    OBVIOUS
  <2> HIDE DEF seqs, at
  <2> DEFINE s == seqs[b]
             a == at(b)
  <2>2. a \in Position /\ a.bootCounter = c.bootCounter /\ a.seq = c.seq + (b - 1) * n
    BY <1>4
  <2> HIDE DEF s, a
  <2>3. /\ PlanBlock(s, k)
        /\ \A o \in 1 .. k :
             /\ s[o].pole = p /\ s[o].at.bootCounter = a.bootCounter
             /\ s[o].at.seq \in a.seq + 1 .. a.seq + n
        /\ s[1].at = Ahead(a, n)
    BY <2>1, <2>2, RepetitionIs DEF s, a, n, k
  <2>4. a.seq + n = c.seq + b * n
    <3>1. b \in Int
      OBVIOUS
    <3>2. CASE n = 1
      BY <1>3, <2>2, <3>1, <3>2
    <3>3. CASE n = 2
      BY <1>3, <2>2, <3>1, <3>3
    <3> QED BY <1>2, <3>2, <3>3
  <2>5. /\ PlanBlock(s, k)
        /\ \A o \in 1 .. k :
             /\ s[o].pole = p /\ s[o].at.bootCounter = c.bootCounter
             /\ s[o].at.seq \in c.seq + (b - 1) * n + 1 .. c.seq + b * n
        /\ s[1].at = Ahead(a, n)
    BY <2>2, <2>3, <2>4
  <2> QED BY <2>5 DEF s, a
<1> HIDE DEF seqs
<1>7. PlanBlocks(seqs, count, k)
  <2>1. DOMAIN seqs = 1 .. count
    BY DEF seqs
  <2>2. \A b \in 1 .. count : seqs[b] \in Seq(Generated)
    BY <1>6 DEF PlanBlock
  <2>3. seqs \in Seq(Seq(Generated)) /\ Len(seqs) = count
    <3>1. seqs = [b \in 1 .. count |-> seqs[b]]
      BY DEF seqs
    <3> QED BY <1>1, <2>2, <3>1
  <2>4. ASSUME NEW b \in 1 .. count, NEW d \in 1 .. count, NEW o \in 1 .. k, NEW u \in 1 .. k,
               b < d
        PROVE  Before(seqs[b][o].at, seqs[d][u].at)
    <3> DEFINE x == seqs[b][o].at
               y == seqs[d][u].at
    <3>1. /\ x.bootCounter = c.bootCounter /\ x.seq \in c.seq + (b - 1) * n + 1 .. c.seq + b * n
          /\ y.bootCounter = c.bootCounter /\ y.seq \in c.seq + (d - 1) * n + 1 .. c.seq + d * n
      BY <1>6
    <3> HIDE DEF x, y
    <3>2. x.seq < y.seq
      <4>1. CASE n = 1
        BY <1>3, <2>4, <3>1, <4>1
      <4>2. CASE n = 2
        BY <1>3, <2>4, <3>1, <4>2
      <4> QED BY <1>2, <4>1, <4>2
    <3>3. Before(x, y)
      BY <3>1, <3>2 DEF Before
    <3> QED BY <3>3 DEF x, y
  <2> QED BY <1>1, <1>2, <1>6, <2>1, <2>3, <2>4 DEF PlanBlocks
<1>8. plan \in Seq(Generated) /\ PlanShape(plan) /\ MadeOf(plan, seqs, count, k)
  <2>1. plan = FlattenSeq(seqs)
    OBVIOUS
  <2> HIDE DEF plan
  <2> QED BY <1>7, <2>1, BlocksMakePlan, Zenon
<1> HIDE DEF plan
<1>9. ASSUME NEW i \in DOMAIN plan
      PROVE  /\ Before(cursors[plan[i].pole], plan[i].at)
             /\ ~ Before(moved[plan[i].pole], plan[i].at)
  <2>1. PICK b \in 1 .. count, o \in 1 .. k : plan[i] = seqs[b][o]
    BY <1>8 DEF MadeOf
  <2> DEFINE x == plan[i].at
             m == moved[p]
  <2>2. /\ plan[i].pole = p /\ x.bootCounter = c.bootCounter
        /\ x.seq \in c.seq + (b - 1) * n + 1 .. c.seq + b * n
    BY <1>6, <2>1
  <2> HIDE DEF x
  <2>3. m.bootCounter = c.bootCounter /\ m.seq = c.seq + count * n
    BY <1>5
  <2> HIDE DEF m
  <2>4. c.seq < x.seq /\ x.seq <= m.seq
    <3>1. CASE n = 1
      BY <1>1, <1>3, <2>2, <2>3, <3>1
    <3>2. CASE n = 2
      BY <1>1, <1>3, <2>2, <2>3, <3>2
    <3> QED BY <1>2, <3>1, <3>2
  <2>5. x.seq \in Int /\ m.seq \in Int
    BY <1>1, <1>2, <1>3, <2>2, <2>3
  <2>6. Before(c, x) /\ ~ Before(m, x)
    BY <1>3, <2>2, <2>3, <2>4, <2>5 DEF Before
  <2> QED BY <2>2, <2>6 DEF x, m, c
<1>10. \E i \in DOMAIN plan : plan[i].pole = p /\ plan[i].at = moved[p]
  <2>1. count \in 1 .. count /\ 1 \in 1 .. k
    BY <1>1, <1>2
  <2>2. PICK i \in DOMAIN plan : plan[i] = seqs[count][1]
    BY <1>8, <2>1 DEF MadeOf
  <2>3. plan[i].pole = p /\ plan[i].at = Ahead(at(count), n)
    BY <1>6, <2>1, <2>2
  <2>4. Ahead(at(count), n) = moved[p]
    <3> DEFINE a == at(count)
               m == moved[p]
    <3>1. a \in Position /\ a.bootCounter = c.bootCounter /\ a.seq = c.seq + (count - 1) * n
      BY <1>4, <2>1
    <3>2. m \in Position /\ m.bootCounter = c.bootCounter /\ m.seq = c.seq + count * n
      BY <1>5
    <3> HIDE DEF a, m
    <3>3. /\ Ahead(a, n) \in Position /\ Ahead(a, n).bootCounter = a.bootCounter
          /\ Ahead(a, n).seq = a.seq + n
      <4>1. n \in Nat
        BY <1>2
      <4>2. a \in Position
        BY <3>1
      <4> QED BY <4>1, <4>2, AheadIs
    <3>4. a.seq + n = m.seq
      <4>1. CASE n = 1
        BY <1>1, <1>3, <3>1, <3>2, <4>1
      <4>2. CASE n = 2
        BY <1>1, <1>3, <3>1, <3>2, <4>2
      <4> QED BY <1>2, <4>1, <4>2
    <3>5. Ahead(a, n) = m
      <4>1. Ahead(a, n).bootCounter = m.bootCounter /\ Ahead(a, n).seq = m.seq
        BY <3>1, <3>2, <3>3, <3>4
      <4>2. \A x, y \in Position : x.bootCounter = y.bootCounter /\ x.seq = y.seq => x = y
        BY DEF Position
      <4> QED BY <3>2, <3>3, <4>1, <4>2
    <3> QED BY <3>5 DEF a, m
  <2> QED BY <2>3, <2>4
<1>11. \A q \in Pole : ~ Before(moved[q], cursors[q])
  <2>1. \A q \in Pole : cursors[q] \in Cursor
    BY DEF Cursor
  <2>2. \A q \in Pole : q # p => ~ Before(moved[q], cursors[q])
    BY <1>5, <2>1, BeforeIsOrder
  <2>3. ~ Before(moved[p], c)
    <3> DEFINE m == moved[p]
    <3>1. m.bootCounter = c.bootCounter /\ m.seq = c.seq + count * n
      BY <1>5
    <3> HIDE DEF m
    <3>2. m.seq >= c.seq
      <4>1. CASE n = 1
        BY <1>1, <1>3, <3>1, <4>1
      <4>2. CASE n = 2
        BY <1>1, <1>3, <3>1, <4>2
      <4> QED BY <1>2, <4>1, <4>2
    <3>3. m.seq \in Int
      BY <1>1, <1>2, <1>3, <3>1
    <3>4. ~ Before(m, c)
      BY <1>3, <3>1, <3>2, <3>3 DEF Before
    <3> QED BY <3>4 DEF m
  <2> QED BY <2>2, <2>3 DEF c
<1>12. NoisePlan(type, p, count, late) = plan
  BY DEF NoisePlan, plan, seqs, c, n
<1> HIDE DEF moved
<1>13. NewPlan(plan, moved)
  BY <1>5, <1>8, <1>9, <1>10, <1>11 DEF NewPlan
<1> QED BY <1>12, <1>13 DEF moved, n

-----------------------------------------------------------------------------
(* The queue.                                                              *)

(* StreamCursor, for any queue and applied cursors.                        *)
LastAt(buf, app, p) ==
  LET queued == {i \in DOMAIN buf : buf[i].pole = p}
  IN  IF queued = {} THEN app[p] ELSE buf[Max(queued)].at

Rises(buf, app) ==
  /\ \A i, j \in DOMAIN buf :
       i < j /\ buf[i].pole = buf[j].pole => Before(buf[i].at, buf[j].at)
  /\ \A i \in DOMAIN buf : Before(app[buf[i].pole], buf[i].at)

IsLast(buf, p, m) ==
  m \in DOMAIN buf /\ buf[m].pole = p /\ \A i \in DOMAIN buf : buf[i].pole = p => i <= m

(* Where the cursor of a pole's stream is found.                           *)
FoundAt(buf, app, p) ==
  /\ (\A i \in DOMAIN buf : buf[i].pole # p) => LastAt(buf, app, p) = app[p]
  /\ (\E i \in DOMAIN buf : buf[i].pole = p) => \E m : IsLast(buf, p, m)
  /\ \A m : IsLast(buf, p, m) => LastAt(buf, app, p) = buf[m].at

LEMMA LastAtIs ==
  ASSUME NEW buf \in Seq(Tuple), NEW app, NEW p
  PROVE  FoundAt(buf, app, p)
<1> DEFINE queued == {i \in DOMAIN buf : buf[i].pole = p}
           m == Max(queued)
<1>1. LastAt(buf, app, p) = IF queued = {} THEN app[p] ELSE buf[m].at
  BY DEF LastAt
<1>2. queued # {} => IsLast(buf, p, m)
  <2> SUFFICES ASSUME queued # {} PROVE IsLast(buf, p, m)
    OBVIOUS
  <2>1. queued \in SUBSET (1 .. Len(buf)) /\ Len(buf) \in Int
    OBVIOUS
  <2>2. m \in queued /\ \A n \in queued : n <= m
    <3> HIDE DEF queued
    <3> QED BY <2>1, MaxOfInterval
  <2> HIDE DEF m
  <2> QED BY <2>2 DEF IsLast
<1>3. \A n : IsLast(buf, p, n) => queued # {} /\ n \in DOMAIN buf
  BY DEF IsLast
<1> HIDE DEF m
<1>4. \A n, k : IsLast(buf, p, n) /\ IsLast(buf, p, k) => n = k
  BY DEF IsLast
<1>5. (\A i \in DOMAIN buf : buf[i].pole # p) <=> queued = {}
  OBVIOUS
<1> HIDE DEF queued
<1> QED BY <1>1, <1>2, <1>3, <1>4, <1>5 DEF FoundAt

LEMMA TupleIs ==
  /\ \A e \in Tuple : e.pole \in Device /\ e.pole \in Pole /\ e.at \in Position /\ e.at \in Cursor
  /\ \A buf \in Seq(Tuple) : \A i \in DOMAIN buf : buf[i] \in Tuple
<1>1. \A e \in Tuple : e.pole \in Device /\ e.at \in Position
  BY DEF Tuple
<1>2. Device \subseteq Pole /\ Position \subseteq Cursor
  BY SimulationAssumption DEF Cursor
<1> QED BY <1>1, <1>2

LEMMA LastAtBounds ==
  ASSUME NEW buf \in Seq(Tuple), NEW app \in [Pole -> Cursor], NEW p \in Pole, Rises(buf, app)
  PROVE  /\ LastAt(buf, app, p) \in Cursor
         /\ \A i \in DOMAIN buf : buf[i].pole = p => ~ Before(LastAt(buf, app, p), buf[i].at)
         /\ ~ Before(LastAt(buf, app, p), app[p])
<1>0. FoundAt(buf, app, p)
  BY LastAtIs
<1>1. \A i \in DOMAIN buf : buf[i].at \in Cursor
  BY TupleIs
<1>2. CASE \E i \in DOMAIN buf : buf[i].pole = p
  <2>1. PICK m : IsLast(buf, p, m) /\ LastAt(buf, app, p) = buf[m].at
    BY <1>0, <1>2 DEF FoundAt
  <2>2. m \in DOMAIN buf /\ buf[m].pole = p /\ Before(app[p], buf[m].at) /\ app[p] \in Cursor
    BY <2>1 DEF IsLast, Rises
  <2>3. ASSUME NEW i \in DOMAIN buf, buf[i].pole = p
        PROVE  ~ Before(buf[m].at, buf[i].at)
    <3>1. i = m \/ i < m
      BY <2>1, <2>3 DEF IsLast
    <3>2. CASE i = m
      BY <1>1, <3>2, BeforeIsOrder
    <3>3. CASE i < m
      BY <1>1, <2>2, <2>3, <3>3, BeforeIsOrder DEF Rises
    <3> QED BY <3>1, <3>2, <3>3
  <2>4. buf[m].at \in Cursor /\ ~ Before(buf[m].at, app[p])
    BY <1>1, <2>2, BeforeIsOrder
  <2> QED BY <2>1, <2>3, <2>4
<1>3. CASE \A i \in DOMAIN buf : buf[i].pole # p
  <2>1. LastAt(buf, app, p) = app[p] /\ app[p] \in Cursor
    BY <1>0, <1>3 DEF FoundAt
  <2> QED BY <1>3, <2>1, BeforeIsOrder
<1> QED BY <1>2, <1>3

(* An event joins the queue.                                               *)
AppendMoves(buf, app, e, p) ==
  LastAt(Append(buf, e), app, p) = IF e.pole = p THEN e.at ELSE LastAt(buf, app, p)

LEMMA LastAtAppend ==
  ASSUME NEW buf \in Seq(Tuple), NEW app, NEW e \in Tuple, NEW p
  PROVE  AppendMoves(buf, app, e, p)
<1> DEFINE longer == Append(buf, e)
<1> SUFFICES LastAt(longer, app, p) = IF e.pole = p THEN e.at ELSE LastAt(buf, app, p)
  BY DEF AppendMoves
<1>1. /\ longer \in Seq(Tuple) /\ DOMAIN longer = 1 .. Len(buf) + 1
      /\ DOMAIN buf = 1 .. Len(buf) /\ Len(buf) \in Nat
      /\ longer[Len(buf) + 1] = e /\ \A i \in DOMAIN buf : longer[i] = buf[i]
  OBVIOUS
<1> HIDE DEF longer
<1>0. FoundAt(longer, app, p) /\ FoundAt(buf, app, p)
  <2>1. longer \in Seq(Tuple)
    BY <1>1
  <2> QED BY <2>1, LastAtIs, Zenon
<1>2. CASE e.pole = p
  <2>1. IsLast(longer, p, Len(buf) + 1)
    BY <1>1, <1>2 DEF IsLast
  <2>2. LastAt(longer, app, p) = longer[Len(buf) + 1].at
    BY <1>0, <2>1 DEF FoundAt
  <2> QED BY <1>1, <1>2, <2>2
<1>3. CASE e.pole # p
  <2>1. CASE \E i \in DOMAIN buf : buf[i].pole = p
    <3>1. PICK m : IsLast(buf, p, m) /\ LastAt(buf, app, p) = buf[m].at
      BY <1>0, <2>1 DEF FoundAt
    <3>2. IsLast(longer, p, m) /\ longer[m] = buf[m]
      BY <1>1, <1>3, <3>1 DEF IsLast
    <3>3. LastAt(longer, app, p) = longer[m].at
      BY <1>0, <3>2 DEF FoundAt
    <3> QED BY <1>3, <3>1, <3>2, <3>3
  <2>2. CASE \A i \in DOMAIN buf : buf[i].pole # p
    <3>1. \A i \in DOMAIN longer : longer[i].pole # p
      BY <1>1, <1>3, <2>2
    <3>2. LastAt(longer, app, p) = app[p] /\ LastAt(buf, app, p) = app[p]
      BY <1>0, <2>2, <3>1 DEF FoundAt
    <3> QED BY <1>3, <3>2
  <2> QED BY <2>1, <2>2
<1> QED BY <1>2, <1>3

LEMMA RisesAppend ==
  ASSUME NEW buf \in Seq(Tuple), NEW app \in [Pole -> Cursor], NEW e \in Tuple,
         Rises(buf, app), Before(LastAt(buf, app, e.pole), e.at),
         NEW longer, longer = Append(buf, e)
  PROVE  Rises(longer, app)
<1>1. /\ DOMAIN longer = 1 .. Len(buf) + 1
      /\ DOMAIN buf = 1 .. Len(buf) /\ Len(buf) \in Nat
      /\ longer[Len(buf) + 1] = e /\ \A i \in DOMAIN buf : longer[i] = buf[i]
  OBVIOUS
<1>2. e.pole \in Pole /\ e.at \in Cursor /\ \A i \in DOMAIN buf : buf[i].at \in Cursor
  BY TupleIs
<1>3. /\ LastAt(buf, app, e.pole) \in Cursor
      /\ \A i \in DOMAIN buf : buf[i].pole = e.pole => Before(buf[i].at, e.at)
      /\ Before(app[e.pole], e.at)
  <2>1. /\ LastAt(buf, app, e.pole) \in Cursor
        /\ \A i \in DOMAIN buf : buf[i].pole = e.pole =>
             ~ Before(LastAt(buf, app, e.pole), buf[i].at)
        /\ ~ Before(LastAt(buf, app, e.pole), app[e.pole])
    BY <1>2, LastAtBounds
  <2>2. app[e.pole] \in Cursor
    BY <1>2
  <2> QED BY <1>2, <2>1, <2>2, BeforeIsOrder
<1>4. ASSUME NEW i \in DOMAIN longer, NEW j \in DOMAIN longer, i < j,
             longer[i].pole = longer[j].pole
      PROVE  Before(longer[i].at, longer[j].at)
  <2>1. i \in DOMAIN buf /\ longer[i] = buf[i]
    BY <1>1, <1>4
  <2>2. CASE j = Len(buf) + 1
    BY <1>1, <1>3, <1>4, <2>1, <2>2
  <2>3. CASE j # Len(buf) + 1
    <3>1. j \in DOMAIN buf /\ longer[j] = buf[j]
      BY <1>1, <2>3
    <3> QED BY <1>4, <2>1, <3>1 DEF Rises
  <2> QED BY <2>2, <2>3
<1>5. ASSUME NEW i \in DOMAIN longer
      PROVE  Before(app[longer[i].pole], longer[i].at)
  <2>1. CASE i = Len(buf) + 1
    BY <1>1, <1>3, <2>1
  <2>2. CASE i # Len(buf) + 1
    <3>1. i \in DOMAIN buf /\ longer[i] = buf[i]
      BY <1>1, <2>2
    <3> QED BY <3>1 DEF Rises
  <2> QED BY <2>1, <2>2
<1> QED BY <1>4, <1>5 DEF Rises

(* The oldest event leaves the queue, applied or forgotten.                *)
LEMMA TailIs ==
  ASSUME NEW buf \in Seq(Tuple), buf # <<>>, NEW shorter, shorter = Tail(buf)
  PROVE  /\ shorter \in Seq(Tuple) /\ Len(buf) \in Nat /\ Len(buf) > 0
         /\ DOMAIN shorter = 1 .. Len(buf) - 1 /\ DOMAIN buf = 1 .. Len(buf)
         /\ \A i \in DOMAIN shorter : i + 1 \in DOMAIN buf /\ shorter[i] = buf[i + 1]
         /\ Head(buf) = buf[1] /\ buf[1] \in Tuple
OBVIOUS

TailKeeps(buf, app, after, p) ==
  after[p] = (IF p = Head(buf).pole THEN Head(buf).at ELSE app[p]) =>
    LastAt(Tail(buf), after, p) = LastAt(buf, app, p)

LEMMA LastAtTail ==
  ASSUME NEW buf \in Seq(Tuple), buf # <<>>, NEW app, NEW after, NEW p
  PROVE  TailKeeps(buf, app, after, p)
<1> DEFINE shorter == Tail(buf)
<1> SUFFICES ASSUME after[p] = IF p = Head(buf).pole THEN Head(buf).at ELSE app[p]
             PROVE  LastAt(shorter, after, p) = LastAt(buf, app, p)
  BY DEF TailKeeps
<1>1. /\ shorter \in Seq(Tuple) /\ Len(buf) \in Nat /\ Len(buf) > 0
      /\ DOMAIN shorter = 1 .. Len(buf) - 1 /\ DOMAIN buf = 1 .. Len(buf)
      /\ \A i \in DOMAIN shorter : i + 1 \in DOMAIN buf /\ shorter[i] = buf[i + 1]
      /\ Head(buf) = buf[1] /\ buf[1] \in Tuple
  BY TailIs
<1> HIDE DEF shorter
<1>0. FoundAt(shorter, after, p) /\ FoundAt(buf, app, p)
  <2>1. shorter \in Seq(Tuple)
    BY <1>1
  <2> QED BY <2>1, LastAtIs, Zenon
<1>2. CASE \E i \in DOMAIN shorter : shorter[i].pole = p
  <2>1. PICK m : IsLast(shorter, p, m) /\ LastAt(shorter, after, p) = shorter[m].at
    BY <1>0, <1>2 DEF FoundAt
  <2>2. m \in DOMAIN shorter /\ shorter[m] = buf[m + 1] /\ m + 1 \in DOMAIN buf
    BY <1>1, <2>1 DEF IsLast
  <2>3. ASSUME NEW i \in DOMAIN buf, buf[i].pole = p
        PROVE  i <= m + 1
    <3>1. CASE i = 1
      BY <1>1, <2>2, <3>1
    <3>2. CASE i # 1
      <4>1. i - 1 \in DOMAIN shorter /\ shorter[i - 1] = buf[i]
        BY <1>1, <3>2
      <4>2. i - 1 <= m
        BY <2>1, <2>3, <4>1 DEF IsLast
      <4> QED BY <1>1, <2>2, <4>2
    <3> QED BY <3>1, <3>2
  <2>4. IsLast(buf, p, m + 1)
    BY <2>1, <2>2, <2>3 DEF IsLast
  <2> QED BY <1>0, <2>1, <2>2, <2>4 DEF FoundAt
<1>3. CASE \A i \in DOMAIN shorter : shorter[i].pole # p
  <2>1. LastAt(shorter, after, p) = after[p]
    BY <1>0, <1>3 DEF FoundAt
  <2>2. \A i \in DOMAIN buf : buf[i].pole = p => i = 1
    <3> SUFFICES ASSUME NEW i \in DOMAIN buf, buf[i].pole = p, i # 1 PROVE FALSE
      OBVIOUS
    <3>1. i - 1 \in DOMAIN shorter /\ shorter[i - 1] = buf[i]
      BY <1>1
    <3> QED BY <1>3, <3>1
  <2>3. CASE p = Head(buf).pole
    <3>1. IsLast(buf, p, 1)
      BY <1>1, <2>2, <2>3 DEF IsLast
    <3> QED BY <1>0, <1>1, <2>1, <2>3, <3>1 DEF FoundAt
  <2>4. CASE p # Head(buf).pole
    <3>1. \A i \in DOMAIN buf : buf[i].pole # p
      BY <1>1, <2>2, <2>4
    <3> QED BY <1>0, <2>1, <2>4, <3>1 DEF FoundAt
  <2> QED BY <2>3, <2>4
<1> QED BY <1>2, <1>3

LEMMA RisesTail ==
  ASSUME NEW buf \in Seq(Tuple), buf # <<>>, NEW app \in [Pole -> Cursor], Rises(buf, app),
         NEW after \in {app, [app EXCEPT ![Head(buf).pole] = Head(buf).at]},
         NEW shorter, shorter = Tail(buf)
  PROVE  Rises(shorter, after)
<1>1. /\ shorter \in Seq(Tuple) /\ Len(buf) \in Nat /\ Len(buf) > 0
      /\ DOMAIN shorter = 1 .. Len(buf) - 1 /\ DOMAIN buf = 1 .. Len(buf)
      /\ \A i \in DOMAIN shorter : i + 1 \in DOMAIN buf /\ shorter[i] = buf[i + 1]
      /\ Head(buf) = buf[1] /\ buf[1] \in Tuple
  BY TailIs
<1>2. ASSUME NEW i \in DOMAIN shorter, NEW j \in DOMAIN shorter, i < j,
             shorter[i].pole = shorter[j].pole
      PROVE  Before(shorter[i].at, shorter[j].at)
  <2>1. i + 1 \in DOMAIN buf /\ j + 1 \in DOMAIN buf /\ i + 1 < j + 1
    BY <1>1, <1>2
  <2> QED BY <1>1, <1>2, <2>1 DEF Rises
<1>3. ASSUME NEW i \in DOMAIN shorter
      PROVE  Before(after[shorter[i].pole], shorter[i].at)
  <2>1. /\ i + 1 \in DOMAIN buf /\ 1 \in DOMAIN buf /\ 1 < i + 1
        /\ shorter[i] = buf[i + 1] /\ shorter[i].pole \in Pole
    <3>1. shorter[i] \in Tuple
      BY <1>1
    <3> QED BY <1>1, <3>1, SimulationAssumption DEF Tuple
  <2>2. Before(app[shorter[i].pole], shorter[i].at)
    BY <2>1 DEF Rises
  <2>3. shorter[i].pole = Head(buf).pole => Before(Head(buf).at, shorter[i].at)
    BY <1>1, <2>1 DEF Rises
  <2> QED BY <2>1, <2>2, <2>3
<1> QED BY <1>2, <1>3 DEF Rises

-----------------------------------------------------------------------------
(* What the steps do to the jobs and to the rest of the types.             *)

LEMMA IdleHolds == Idle \in Job /\ JobHolds(Idle)
<1>1. <<>> \in Seq(Generated) /\ <<>> \in Key
  BY DEF Key
<1> QED BY <1>1 DEF Idle, Job, JobHolds, Phase

(* One job is replaced.                                                    *)
Replaced(r, j) == job'[r] = j /\ \A s \in Request : s # r => job'[s] = job[s]

LEMMA JobReplaced ==
  ASSUME NEW r \in Request, NEW j, JobHolds(j), JobsTyped, job' = [job EXCEPT ![r] = j]
  PROVE  JobsTyped' /\ Replaced(r, j)
<1>1. j \in Job
  BY DEF JobHolds
<1>2. job' \in [Request -> Job] /\ Replaced(r, j)
  BY <1>1 DEF JobsTyped, Replaced
<1>3. \A s \in Request : JobHolds(job'[s])
  BY <1>2 DEF JobsTyped, Replaced
<1> QED BY <1>2, <1>3 DEF JobsTyped, JobHolds

(* The job of r goes on with its plan.                                     *)
Moved(r, phase, n) ==
  /\ job'[r].phase = phase /\ job'[r].next = n
  /\ job'[r].key = job[r].key /\ job'[r].plan = job[r].plan
  /\ \A s \in Request : s # r => job'[s] = job[s]

LEMMA JobMoved ==
  ASSUME NEW r \in Request, JobsTyped, NEW phase \in Phase, NEW n \in Nat \ {0},
         phase \in {"sending", "sleeping", "looking"},
         phase \in {"sleeping", "looking"} => n <= Len(job[r].plan),
         Move(r, phase, n)
  PROVE  JobsTyped' /\ Moved(r, phase, n)
<1> DEFINE j == [job[r] EXCEPT !.phase = phase, !.next = n]
<1>1. job[r] \in Job
  BY DEF JobsTyped
<1>2. /\ j \in Job /\ j.phase = phase /\ j.next = n
      /\ j.key = job[r].key /\ j.plan = job[r].plan
  BY <1>1 DEF Job
<1>3. job' = [job EXCEPT ![r] = j]
  BY <1>1 DEF Move, JobsTyped, Job
<1> HIDE DEF j
<1>4. JobHolds(j)
  BY <1>2 DEF JobHolds
<1>5. JobsTyped' /\ Replaced(r, j)
  BY <1>3, <1>4, JobReplaced, Zenon
<1> QED BY <1>2, <1>5 DEF Replaced, Moved

(* A request gets its claim and its plan.                                  *)
Starts(r, key, plan, moved) ==
  /\ up /\ ~ Running(r)
  /\ key \in Key \ {<<>>}
  /\ NewPlan(plan, moved)
  /\ Start(r, key, plan, moved)

LEMMA RequestStarts ==
  ASSUME TypesInv, NEW r \in Request, InjectFault(r) \/ RepairFault(r) \/ InjectNoise(r)
  PROVE  \E key, plan, moved : Starts(r, key, plan, moved)
<1>1. cursors \in [Pole -> Position]
  BY DEF TypesInv, CursorsTyped
<1>2. CASE InjectFault(r)
  <2>1. PICK t \in Target, twice \in BOOLEAN : \E delivered \in SUBSET (PolesOf[t] \cap Device) :
          Start(r, <<"fault", t>>, FaultPlan(delivered, twice),
                [p \in Pole |-> IF p \in delivered THEN Ahead(cursors[p], 1) ELSE cursors[p]])
    BY <1>2 DEF InjectFault
  <2>2. PICK delivered \in SUBSET (PolesOf[t] \cap Device) :
          Start(r, <<"fault", t>>, FaultPlan(delivered, twice),
                [p \in Pole |-> IF p \in delivered THEN Ahead(cursors[p], 1) ELSE cursors[p]])
    BY <2>1
  <2>3. delivered \in SUBSET Device
    OBVIOUS
  <2>4. NewPlan(FaultPlan(delivered, twice),
                [p \in Pole |-> IF p \in delivered THEN Ahead(cursors[p], 1) ELSE cursors[p]])
    BY <1>1, <2>3, FaultPlanIsNew
  <2>5. up /\ ~ Running(r) /\ <<"fault", t>> \in Key \ {<<>>}
    BY <1>2 DEF InjectFault, Running, Idle, Key
  <2> QED BY <2>2, <2>4, <2>5 DEF Starts
<1>3. CASE RepairFault(r)
  <2> DEFINE f == job[r].key[2]
             moved == [p \in Pole |-> IF p \in Restoring(f) THEN AfterBoot(cursors[p])
                                                           ELSE cursors[p]]
  <2>1. up /\ ~ Running(r) /\ Start(r, job[r].key, RepairPlan(f), moved)
    BY <1>3 DEF RepairFault, Running
  <2>2. NewPlan(RepairPlan(f), moved)
    BY <1>1, RepairPlanIsNew
  <2>3. job[r].key \in Key \ {<<>>}
    BY <1>3 DEF RepairFault, TypesInv, JobsTyped, JobHolds, Key
  <2> HIDE DEF f, moved
  <2> QED BY <2>1, <2>2, <2>3 DEF Starts
<1>4. CASE InjectNoise(r)
  <2>1. PICK type \in NoiseType, requested \in Pole \cup {Unspecified},
             count \in 1 .. MaxCount, late \in BOOLEAN :
          \E p \in NoiseTarget(type, requested) :
            Start(r, <<"noise", type, requested>>, NoisePlan(type, p, count, late),
                  [cursors EXCEPT ![p] = Ahead(@, count * EventsTaken(type))])
    BY <1>4 DEF InjectNoise
  <2>2. PICK p \in NoiseTarget(type, requested) :
            Start(r, <<"noise", type, requested>>, NoisePlan(type, p, count, late),
                  [cursors EXCEPT ![p] = Ahead(@, count * EventsTaken(type))])
    BY <2>1
  <2>3. p \in Device
    BY SimulationAssumption DEF NoiseTarget
  <2>4. NewPlan(NoisePlan(type, p, count, late),
                [cursors EXCEPT ![p] = Ahead(@, count * EventsTaken(type))])
    BY <1>1, <2>3, NoisePlanIsNew
  <2>5. up /\ ~ Running(r) /\ <<"noise", type, requested>> \in Key \ {<<>>}
    BY <1>4 DEF InjectNoise, Running, Idle, Key
  <2> QED BY <2>2, <2>4, <2>5 DEF Starts
<1> QED BY <1>2, <1>3, <1>4

(* What a run that goes on does: it waits at its event, or passes it       *)
(* refused as it should be, or has it accepted.                            *)
Waits(r) ==
  /\ Moved(r, "sleeping", job[r].next) \/ (Moved(r, "looking", job[r].next) /\ ~ Queued(Event(r)))
  /\ buffer' = buffer

PassesRefused(r) ==
  /\ Moved(r, "sending", job[r].next + 1) /\ Event(r).expected # "accepted"
  /\ buffer' = buffer

PassesAccepted(r) ==
  /\ Moved(r, "sending", job[r].next + 1) /\ Event(r).expected = "accepted"
  /\ Before(StreamCursor(Event(r).pole), Event(r).at)
  /\ buffer' = Append(buffer, StreamTuple(Event(r)))

GoesOn(r) ==
  /\ up /\ Running(r) /\ JobsTyped'
  /\ job[r].next \in DOMAIN job[r].plan /\ Event(r) \in Generated
  /\ Waits(r) \/ PassesRefused(r) \/ PassesAccepted(r)
  /\ UNCHANGED <<up, activeTargets, cursors, inserted, telemetry, applied, activeFaults,
                 disturbed>>

LEMMA RunGoesOn ==
  ASSUME TypesInv, NEW r \in Request, Sleep(r) \/ Send(r) \/ Answer(r), ~ Die
  PROVE  GoesOn(r)
<1> DEFINE j == job[r]
           e == Event(r)
<1>1. j \in Job /\ j.next \in Nat \ {0} /\ j.plan \in Seq(Generated) /\ JobsTyped /\ JobHolds(j)
  BY DEF TypesInv, JobsTyped, Job
<1>2. up /\ Running(r) /\ j.next <= Len(j.plan)
  BY <1>1 DEF Sleep, Send, Answer, Step, Running, JobHolds
<1>3. j.next \in DOMAIN j.plan /\ e \in Generated
  BY <1>1, <1>2 DEF Event
<1>4. \A phase \in {"sending", "sleeping", "looking"}, n \in {j.next, j.next + 1} :
        Move(r, phase, n) /\ (phase # "sending" => n = j.next) => JobsTyped' /\ Moved(r, phase, n)
  BY <1>1, <1>2, JobMoved DEF Phase
<1> DEFINE Rest == UNCHANGED <<up, activeTargets, cursors, inserted, telemetry, applied,
                               activeFaults, disturbed>>
<1>5. CASE Sleep(r)
  <2>1. Move(r, "sleeping", j.next) /\ Rest /\ buffer' = buffer
    BY <1>5 DEF Sleep, serverVars
  <2>2. JobsTyped' /\ Moved(r, "sleeping", j.next)
    BY <1>4, <2>1
  <2> QED BY <1>2, <1>3, <2>1, <2>2 DEF GoesOn, Waits
<1>6. CASE Send(r)
  <2>1. CASE ~ Queued(e)
    <3>1. Move(r, "looking", j.next) /\ Rest /\ buffer' = buffer
      BY <1>6, <2>1 DEF Send
    <3>2. JobsTyped' /\ Moved(r, "looking", j.next)
      BY <1>4, <3>1
    <3> QED BY <1>2, <1>3, <2>1, <3>1, <3>2 DEF GoesOn, Waits
  <2>2. CASE Queued(e)
    <3>1. /\ Move(r, "sending", j.next + 1) /\ Rest /\ buffer' = buffer
          /\ e.expected = "duplicate"
      BY <1>6, <2>2 DEF Send
    <3>2. JobsTyped' /\ Moved(r, "sending", j.next + 1)
      BY <1>4, <3>1
    <3> QED BY <1>2, <1>3, <3>1, <3>2 DEF GoesOn, PassesRefused
  <2> QED BY <2>1, <2>2
<1>7. CASE Answer(r)
  <2>1. /\ Verdict(e) = e.expected /\ Move(r, "sending", j.next + 1) /\ Rest
        /\ buffer' = IF Verdict(e) = "accepted" THEN Append(buffer, StreamTuple(e)) ELSE buffer
    BY <1>7 DEF Answer
  <2>2. JobsTyped' /\ Moved(r, "sending", j.next + 1)
    BY <1>4, <2>1
  <2>3. CASE e.expected = "accepted"
    <3>1. Before(StreamCursor(e.pole), e.at)
      BY <2>1, <2>3 DEF Verdict
    <3> QED BY <1>2, <1>3, <2>1, <2>2, <2>3, <3>1 DEF GoesOn, PassesAccepted
  <2>4. CASE e.expected # "accepted"
    BY <1>2, <1>3, <2>1, <2>2, <2>4 DEF GoesOn, PassesRefused
  <2> QED BY <2>3, <2>4
<1> QED BY <1>5, <1>6, <1>7

(* A job without a plan: refused, or complete, or having read its fault.   *)
Empties(r) ==
  /\ up /\ JobsTyped' /\ job'[r].plan = <<>> /\ ~ Running(r)'
  /\ \A s \in Request : s # r => job'[s] = job[s]
  /\ \/ Running(r) /\ activeTargets' = activeTargets \ {job[r].key}
     \/ ~ Running(r) /\ activeTargets' = activeTargets
  /\ UNCHANGED <<up, cursors, serverVars, activeFaults, disturbed>>

LEMMA RequestEmpties ==
  ASSUME TypesInv, NEW r \in Request, FindFault(r) \/ RefuseRepair(r) \/ Complete(r)
  PROVE  Empties(r)
<1>1. JobsTyped /\ activeFaults \subseteq Fault
  BY DEF TypesInv, ProcessTyped
<1>2. ASSUME NEW j, JobHolds(j), j.plan = <<>>, j.phase \in {"idle", "asked", "resolved"},
             job' = [job EXCEPT ![r] = j]
      PROVE  /\ JobsTyped' /\ job'[r].plan = <<>> /\ ~ Running(r)'
             /\ \A s \in Request : s # r => job'[s] = job[s]
  <2>1. JobsTyped' /\ Replaced(r, j)
    BY <1>1, <1>2, JobReplaced
  <2> QED BY <1>2, <2>1 DEF Replaced, Running
<1>3. CASE FindFault(r)
  <2>1. PICK f \in Fault, phase \in {"asked", "resolved"} :
          job' = [job EXCEPT ![r] = [Idle EXCEPT !.phase = phase, !.key = <<"repair", f>>]]
    BY <1>3 DEF FindFault
  <2> DEFINE k == <<"repair", f>>
             j == [Idle EXCEPT !.phase = phase, !.key = k]
  <2>0. f \in Fault /\ k \in Key
    BY <1>1 DEF Key
  <2>6. job' = [job EXCEPT ![r] = j]
    BY <2>1
  <2>8. k \in {<<"repair", g>> : g \in Fault}
    BY <2>0
  <2> HIDE DEF k
  <2>2. j.plan = <<>> /\ j.phase = phase /\ j.next = 1 /\ j.key = k
    BY DEF Idle
  <2>3. j \in Job
    BY <2>0, IdleHolds DEF Job, Phase
  <2> HIDE DEF j
  <2>4. JobHolds(j)
    BY <2>2, <2>3, <2>8 DEF JobHolds
  <2>5. up /\ ~ Running(r) /\ UNCHANGED <<up, activeTargets, cursors, serverVars, activeFaults, disturbed>>
    <3>1. job[r].phase = "idle"
      <4>1. job[r] = Idle
        BY <1>3 DEF FindFault
      <4> QED BY <4>1 DEF Idle
    <3> QED BY <1>3, <3>1 DEF FindFault, Running
  <2>7. /\ JobsTyped' /\ job'[r].plan = <<>> /\ ~ Running(r)'
        /\ \A s \in Request : s # r => job'[s] = job[s]
    BY <1>2, <2>2, <2>4, <2>6
  <2> QED BY <2>5, <2>7 DEF Empties
<1>4. CASE RefuseRepair(r) \/ Complete(r)
  <2>1. up /\ job' = [job EXCEPT ![r] = Idle]
    BY <1>4 DEF RefuseRepair, Complete, Step
  <2>2. Idle.plan = <<>> /\ Idle.phase = "idle" /\ JobHolds(Idle)
    BY IdleHolds DEF Idle
  <2>3. /\ JobsTyped' /\ job'[r].plan = <<>> /\ ~ Running(r)'
        /\ \A s \in Request : s # r => job'[s] = job[s]
    BY <1>2, <2>1, <2>2
  <2>4. /\ UNCHANGED <<up, cursors, serverVars, activeFaults, disturbed>>
        /\ \/ Running(r) /\ activeTargets' = activeTargets \ {job[r].key}
           \/ ~ Running(r) /\ activeTargets' = activeTargets
    BY <1>4 DEF RefuseRepair, Complete, Running, Step
  <2> QED BY <2>1, <2>3, <2>4 DEF Empties
<1> QED BY <1>3, <1>4

(* The process ends.                                                       *)
Dies ==
  /\ activeTargets' = {} /\ buffer' = <<>> /\ inserted' = FALSE /\ up' = FALSE
  /\ job' = [r \in Request |-> Idle] /\ \A r \in Request : job'[r] = Idle
  /\ UNCHANGED <<cursors, telemetry, applied, activeFaults, disturbed>>

LEMMA DieIs ==
  ASSUME Die PROVE Dies
BY DEF Die, ForgetAll, Dies

(* Every step is of one of these kinds.                                    *)
LEMMA StepKinds ==
  ASSUME TypesInv, Next
  PROVE  \/ \E r \in Request : \E key, plan, moved : Starts(r, key, plan, moved)
         \/ \E r \in Request : Empties(r) \/ GoesOn(r)
         \/ Dies \/ Insert \/ Apply \/ ProcessingFails \/ DeviceReports \/ FaultResolves
         \/ Restart
<1>1. CASE Die
  BY <1>1, DieIs
<1>2. CASE ~ Die /\ \E r \in Request : RequestStep(r) \/ RepairStep(r) \/ RunStep(r)
  <2>1. PICK r \in Request : RequestStep(r) \/ RepairStep(r) \/ RunStep(r)
    BY <1>2
  <2>2. CASE InjectFault(r) \/ RepairFault(r) \/ InjectNoise(r)
    BY <2>2, RequestStarts
  <2>3. CASE FindFault(r) \/ RefuseRepair(r) \/ Complete(r)
    BY <2>3, RequestEmpties
  <2>4. CASE Sleep(r) \/ Send(r) \/ Answer(r)
    BY <1>2, <2>4, RunGoesOn
  <2> QED BY <2>1, <2>2, <2>3, <2>4 DEF RequestStep, RepairStep, RunStep
<1> QED BY <1>1, <1>2 DEF Next, AdmissionThrows, Crash

-----------------------------------------------------------------------------
(* Type correctness.                                                       *)

LEMMA TypesHoldInitially ==
  ASSUME Init PROVE TypesInv
<1>1. ProducerCursor(NoPosition) \in Position /\ NoPosition \in Cursor
  BY ProducerStarts DEF Cursor
<1>2. cursors \in [Pole -> Position] /\ applied \in [Pole -> Cursor]
  BY <1>1 DEF Init
<1>3. job \in [Request -> Job] /\ \A r \in Request : JobHolds(job[r])
  BY IdleHolds DEF Init
<1>4. ProcessTyped /\ StoppedHolds
  BY DEF Init, ProcessTyped, StoppedHolds
<1>5. <<>> \in Seq(Tuple)
  OBVIOUS
<1>6. QueueTyped
  BY <1>5 DEF Init, QueueTyped
<1> QED BY <1>2, <1>3, <1>4, <1>6 DEF TypesInv, CursorsTyped, JobsTyped

LEMMA TypesAreKept ==
  ASSUME TypesInv, [Next]_vars
  PROVE  TypesInv'
<1>1. ProcessTyped /\ CursorsTyped /\ QueueTyped /\ JobsTyped /\ StoppedHolds
  BY DEF TypesInv
<1>2. ASSUME NEW r \in Request, NEW key, NEW plan, NEW moved, Starts(r, key, plan, moved)
      PROVE  TypesInv'
  <2> DEFINE j == [phase |-> "sending", key |-> key, plan |-> plan, next |-> 1]
  <2>1. /\ up /\ key \in Key /\ plan \in Seq(Generated) /\ moved \in [Pole -> Position]
        /\ Start(r, key, plan, moved)
    BY <1>2 DEF Starts, NewPlan
  <2>2. JobHolds(j)
    BY <2>1 DEF JobHolds, Job, Phase
  <2>3. job' = [job EXCEPT ![r] = j]
    BY <2>1 DEF Start
  <2> HIDE DEF j
  <2>4. JobsTyped'
    BY <1>1, <2>2, <2>3, JobReplaced, Zenon
  <2>5. CursorsTyped'
    BY <1>1, <2>1 DEF Start, CursorsTyped, serverVars
  <2>6. ProcessTyped' /\ QueueTyped' /\ StoppedHolds'
    BY <1>1, <2>1 DEF Start, ProcessTyped, QueueTyped, StoppedHolds, serverVars
  <2> QED BY <2>4, <2>5, <2>6 DEF TypesInv
<1>3. ASSUME NEW r \in Request, Empties(r)
      PROVE  TypesInv'
  <2>1. JobsTyped' /\ up' /\ UNCHANGED <<up, cursors, serverVars, activeFaults, disturbed>>
    BY <1>3 DEF Empties
  <2>2. ProcessTyped' /\ CursorsTyped' /\ QueueTyped' /\ StoppedHolds'
    BY <1>1, <2>1 DEF ProcessTyped, CursorsTyped, QueueTyped, StoppedHolds, serverVars
  <2> QED BY <2>1, <2>2 DEF TypesInv
<1>4. ASSUME NEW r \in Request, GoesOn(r)
      PROVE  TypesInv'
  <2>1. /\ JobsTyped' /\ up' /\ Event(r) \in Generated
        /\ UNCHANGED <<up, cursors, inserted, telemetry, applied, activeFaults, disturbed>>
    BY <1>4 DEF GoesOn
  <2>2. buffer' = buffer \/ buffer' = Append(buffer, StreamTuple(Event(r)))
    BY <1>4 DEF GoesOn, Waits, PassesRefused, PassesAccepted
  <2>3. StreamTuple(Event(r)) \in Tuple
    BY <2>1 DEF StreamTuple, Generated, Tuple
  <2>4. buffer' \in Seq(Tuple) /\ (buffer # <<>> => buffer' # <<>>)
    BY <1>1, <2>2, <2>3 DEF QueueTyped
  <2>5. ProcessTyped' /\ CursorsTyped' /\ QueueTyped' /\ StoppedHolds'
    BY <1>1, <2>1, <2>4 DEF ProcessTyped, CursorsTyped, QueueTyped, StoppedHolds
  <2> QED BY <2>1, <2>5 DEF TypesInv
<1>5. CASE Dies
  <2>1. JobsTyped'
    BY <1>5, IdleHolds DEF Dies, JobsTyped
  <2>2. <<>> \in Seq(Tuple)
    OBVIOUS
  <2>3. QueueTyped'
    BY <1>1, <1>5, <2>2 DEF Dies, QueueTyped
  <2>4. ProcessTyped' /\ CursorsTyped' /\ StoppedHolds'
    BY <1>1, <1>5 DEF Dies, ProcessTyped, CursorsTyped, StoppedHolds
  <2> QED BY <2>1, <2>3, <2>4 DEF TypesInv
<1>6. CASE Insert \/ Apply \/ ProcessingFails \/ DeviceReports
  <2>1. up /\ up' = up /\ UNCHANGED <<activeTargets, cursors, job, activeFaults>>
    BY <1>6 DEF Insert, Apply, ProcessingFails, DeviceReports
  <2>2. JobsTyped' /\ StoppedHolds'
    BY <1>1, <2>1 DEF JobsTyped, StoppedHolds
  <2>3. CASE Insert
    <3>1. buffer' = buffer /\ buffer # <<>> /\ telemetry' = telemetry \cup {Head(buffer)}
      BY <2>3 DEF Insert
    <3>2. Head(buffer) \in Tuple
      BY <1>1, <3>1 DEF QueueTyped
    <3>3. ProcessTyped' /\ CursorsTyped' /\ QueueTyped'
      BY <1>1, <2>3, <3>1, <3>2 DEF Insert, ProcessTyped, CursorsTyped, QueueTyped
    <3> QED BY <2>2, <3>3 DEF TypesInv
  <2>4. CASE Apply \/ ProcessingFails
    <3>1. buffer # <<>> /\ buffer' = Tail(buffer) /\ telemetry' = telemetry /\ inserted' = FALSE
      BY <1>1, <2>4 DEF Apply, ProcessingFails, ProcessTyped
    <3>2. Head(buffer) \in Tuple /\ Tail(buffer) \in Seq(Tuple)
      BY <1>1, <3>1 DEF QueueTyped
    <3>3. Head(buffer).pole \in Pole /\ Head(buffer).at \in Cursor
      BY <3>2, TupleIs
    <3>4. applied' \in [Pole -> Cursor] /\ disturbed' \subseteq Pole
      BY <1>1, <2>4, <3>3 DEF Apply, ProcessingFails, Disturb, CursorsTyped, ProcessTyped
    <3>5. ProcessTyped' /\ CursorsTyped' /\ QueueTyped'
      BY <1>1, <2>1, <3>1, <3>2, <3>4 DEF ProcessTyped, CursorsTyped, QueueTyped
    <3> QED BY <2>2, <3>5 DEF TypesInv
  <2>5. CASE DeviceReports
    <3> DEFINE at(p) == Ahead(ProducerCursor(StreamCursor(p)), 1)
    <3>1. PICK p \in Device : buffer' = Append(buffer, [pole |-> p, at |-> at(p)]) /\ Disturb(p)
      BY <2>5 DEF DeviceReports
    <3>2. StreamCursor(p) \in Cursor
      <4>1. buffer \in Seq(Tuple) /\ p \in Pole /\ applied[p] \in Cursor
        BY <1>1, SimulationAssumption DEF QueueTyped, CursorsTyped
      <4>2. StreamCursor(p) = LastAt(buffer, applied, p)
        BY DEF StreamCursor, LastAt
      <4>3. FoundAt(buffer, applied, p)
        BY <4>1, LastAtIs
      <4>4. \A m : IsLast(buffer, p, m) => buffer[m].at \in Cursor
        BY <4>1, TupleIs DEF IsLast
      <4> QED BY <4>1, <4>2, <4>3, <4>4 DEF FoundAt
    <3>3. at(p) \in Position
      BY <3>2, ProducerStarts, AheadIs
    <3> HIDE DEF at
    <3>4. [pole |-> p, at |-> at(p)] \in Tuple /\ p \in Pole
      BY <3>3, SimulationAssumption DEF Tuple
    <3>5. buffer' \in Seq(Tuple) /\ buffer' # <<>> /\ disturbed' \subseteq Pole
      BY <1>1, <3>1, <3>4 DEF QueueTyped, ProcessTyped, Disturb
    <3>6. UNCHANGED <<up, cursors, inserted, telemetry, applied, activeFaults>>
      BY <2>5 DEF DeviceReports
    <3>7. ProcessTyped' /\ CursorsTyped' /\ QueueTyped'
      BY <1>1, <3>5, <3>6 DEF ProcessTyped, CursorsTyped, QueueTyped
    <3> QED BY <2>2, <3>7 DEF TypesInv
  <2> QED BY <1>6, <2>3, <2>4, <2>5
<1>7. CASE FaultResolves \/ UNCHANGED vars
  <2>1. /\ UNCHANGED <<up, activeTargets, cursors, job, serverVars, disturbed>>
        /\ activeFaults' \subseteq activeFaults
    BY <1>7 DEF FaultResolves, vars
  <2>2. ProcessTyped' /\ CursorsTyped' /\ QueueTyped' /\ JobsTyped' /\ StoppedHolds'
    BY <1>1, <2>1 DEF ProcessTyped, CursorsTyped, QueueTyped, JobsTyped, StoppedHolds,
                      serverVars
  <2> QED BY <2>2 DEF TypesInv
<1>8. CASE Restart
  <2>1. /\ up' = TRUE /\ cursors' = [p \in Pole |-> ProducerCursor(applied[p])]
        /\ disturbed' \subseteq Pole /\ UNCHANGED <<job, serverVars, activeFaults>>
    BY <1>8 DEF Restart
  <2>2. cursors' \in [Pole -> Position]
    BY <1>1, <2>1, ProducerStarts DEF CursorsTyped
  <2>3. ProcessTyped' /\ CursorsTyped' /\ QueueTyped' /\ JobsTyped' /\ StoppedHolds'
    BY <1>1, <2>1, <2>2 DEF ProcessTyped, CursorsTyped, QueueTyped, JobsTyped, StoppedHolds,
                      serverVars
  <2> QED BY <2>3 DEF TypesInv
<1> QED BY <1>2, <1>3, <1>4, <1>5, <1>6, <1>7, <1>8, StepKinds

LEMMA TypesAreRight ==
  ASSUME TypesInv PROVE TypeOK
<1>1. \A r \in Request : job[r].phase \in Phase /\ job[r].plan \in Seq(Generated)
  BY DEF TypesInv, JobsTyped, Job
<1>2. Range(buffer) \subseteq Tuple /\ telemetry \subseteq Tuple
  BY DEF TypesInv, QueueTyped, Range
<1> QED BY <1>1, <1>2 DEF TypesInv, ProcessTyped, CursorsTyped, TypeOK, Phase, Tuple

(* Spec => []TypeOK: in particular every event that a run sends names a    *)
(* pole with a device and a position of its stream, whatever was injected, *)
(* repaired or restarted before.                                           *)
THEOREM SimulationTypes == Spec => []TypeOK
<1>1. TypesInv /\ [Next]_vars => TypesInv'
  BY TypesAreKept
<1> QED BY <1>1, TypesHoldInitially, TypesAreRight, PTL DEF Spec

-----------------------------------------------------------------------------
(* The claims.                                                             *)

LEMMA ClaimsHoldInitially ==
  ASSUME Init PROVE ClaimsAreExact
<1>1. \A r \in Request : ~ Running(r)
  BY DEF Init, Running, Idle
<1> QED BY <1>1 DEF Init, ClaimsAreExact

LEMMA ClaimsAreKept ==
  ASSUME TypesInv, ClaimsAreExact, [Next]_vars
  PROVE  ClaimsAreExact'
<1>1. JobsTyped
  BY DEF TypesInv
<1>2. ASSUME NEW r \in Request, NEW key, NEW plan, NEW moved, Starts(r, key, plan, moved)
      PROVE  ClaimsAreExact'
  <2>1. /\ ~ Running(r) /\ key \notin activeTargets /\ activeTargets' = activeTargets \cup {key}
        /\ job' = [job EXCEPT ![r] = [phase |-> "sending", key |-> key,
                                      plan |-> plan, next |-> 1]]
    BY <1>2 DEF Starts, Start, CanClaim
  <2>2. /\ job'[r].phase = "sending" /\ job'[r].key = key
        /\ \A s \in Request : s # r => job'[s] = job[s]
    BY <1>1, <2>1 DEF JobsTyped
  <2>3. Running(r)' /\ \A s \in Request : s # r => (Running(s)' <=> Running(s))
    BY <2>2 DEF Running
  <2>4. \A s \in Request : Running(s) => job[s].key # key
    BY <2>1 DEF ClaimsAreExact
  <2>5. activeTargets' = {job'[s].key : s \in {t \in Request : Running(t)'}}
    BY <2>1, <2>2, <2>3 DEF ClaimsAreExact
  <2>6. \A s, t \in Request : Running(s)' /\ Running(t)' /\ job'[s].key = job'[t].key => s = t
    BY <2>1, <2>2, <2>3, <2>4 DEF ClaimsAreExact
  <2> QED BY <2>5, <2>6 DEF ClaimsAreExact
<1>3. ASSUME NEW r \in Request, Empties(r)
      PROVE  ClaimsAreExact'
  <2>1. /\ ~ Running(r)' /\ \A s \in Request : s # r => job'[s] = job[s]
        /\ \A s \in Request : s # r => (Running(s)' <=> Running(s))
    BY <1>3 DEF Empties, Running
  <2>2. activeTargets' = {job'[s].key : s \in {t \in Request : Running(t)'}}
    <3>1. CASE Running(r) /\ activeTargets' = activeTargets \ {job[r].key}
      <4>1. \A s \in Request : s # r /\ Running(s) => job[s].key # job[r].key
        BY <3>1 DEF ClaimsAreExact
      <4> QED BY <2>1, <3>1, <4>1 DEF ClaimsAreExact
    <3>2. CASE ~ Running(r) /\ activeTargets' = activeTargets
      BY <2>1, <3>2 DEF ClaimsAreExact
    <3> QED BY <1>3, <3>1, <3>2 DEF Empties
  <2>3. \A s, t \in Request : Running(s)' /\ Running(t)' /\ job'[s].key = job'[t].key => s = t
    BY <2>1 DEF ClaimsAreExact
  <2> QED BY <2>2, <2>3 DEF ClaimsAreExact
<1>4. ASSUME NEW r \in Request, GoesOn(r)
      PROVE  ClaimsAreExact'
  <2>1. \E phase \in {"sending", "sleeping", "looking"} : \E n : Moved(r, phase, n)
    BY <1>4 DEF GoesOn, Waits, PassesRefused, PassesAccepted
  <2>2. /\ Running(r)' /\ job'[r].key = job[r].key
        /\ \A s \in Request : s # r => job'[s] = job[s]
    BY <2>1 DEF Moved, Running
  <2>3. /\ \A s \in Request : Running(s)' <=> Running(s)
        /\ \A s \in Request : job'[s].key = job[s].key
        /\ activeTargets' = activeTargets
    BY <1>4, <2>2 DEF GoesOn, Running
  <2>4. activeTargets' = {job'[s].key : s \in {t \in Request : Running(t)'}}
    BY <2>3 DEF ClaimsAreExact
  <2>5. \A s, t \in Request : Running(s)' /\ Running(t)' /\ job'[s].key = job'[t].key => s = t
    BY <2>3 DEF ClaimsAreExact
  <2> QED BY <2>4, <2>5 DEF ClaimsAreExact
<1>5. CASE Dies
  <2>1. \A r \in Request : ~ Running(r)'
    BY <1>5 DEF Dies, Running, Idle
  <2> QED BY <1>5, <2>1 DEF Dies, ClaimsAreExact
<1>6. CASE \/ Insert \/ Apply \/ ProcessingFails \/ DeviceReports \/ FaultResolves \/ Restart
           \/ UNCHANGED vars
  <2>1. UNCHANGED <<activeTargets, job>>
    BY <1>6 DEF Insert, Apply, ProcessingFails, DeviceReports, FaultResolves, Restart, vars
  <2>2. \A s \in Request : Running(s)' <=> Running(s)
    BY <2>1 DEF Running
  <2> QED BY <2>1, <2>2 DEF ClaimsAreExact
<1> QED BY <1>2, <1>3, <1>4, <1>5, <1>6, StepKinds

(* Spec => []ClaimsAreExact: RunSimulation's activeTargets holds the keys  *)
(* of the runs in progress and no other, each held once, through refused   *)
(* claims, completed runs and the end of the process.                      *)
THEOREM ClaimsAreOfRuns == Spec => []ClaimsAreExact
<1>1. TypesInv /\ ClaimsAreExact /\ [Next]_vars => TypesInv' /\ ClaimsAreExact'
  BY TypesAreKept, ClaimsAreKept
<1> QED BY <1>1, TypesHoldInitially, ClaimsHoldInitially, PTL DEF Spec

-----------------------------------------------------------------------------
(* The plans.                                                              *)

LEMMA PlansHoldInitially ==
  ASSUME Init PROVE PlansHold
<1>1. \A r \in Request : job[r].plan = <<>>
  BY DEF Init, Idle
<1> QED BY <1>1 DEF PlansHold, PlanShape

(* A plan that nobody has yet begun to send joins the others.              *)
LEMMA PlansOfStart ==
  ASSUME TypesInv, PlansHold, NEW r \in Request, NEW key, NEW plan, NEW moved,
         Starts(r, key, plan, moved)
  PROVE  PlansHold'
<1>1. /\ NewPlan(plan, moved) /\ cursors' = moved /\ plan \in Seq(Generated)
      /\ job' = [job EXCEPT ![r] = [phase |-> "sending", key |-> key,
                                    plan |-> plan, next |-> 1]]
  BY DEF Starts, Start, NewPlan
<1>2. /\ JobsTyped /\ cursors \in [Pole -> Position] /\ moved \in [Pole -> Position]
  BY <1>1 DEF TypesInv, CursorsTyped, NewPlan
<1>3. job'[r].plan = plan /\ \A s \in Request : s # r => job'[s] = job[s]
  BY <1>1, <1>2 DEF JobsTyped
<1>4. \A p \in Pole : /\ cursors[p] \in Cursor /\ moved[p] \in Cursor
                      /\ ~ Before(moved[p], cursors[p])
  BY <1>1, <1>2 DEF NewPlan, Cursor
<1>5. ASSUME NEW pl \in Seq(Generated), NEW i \in DOMAIN pl
      PROVE  pl[i].pole \in Pole /\ pl[i].at \in Cursor
  <2>1. pl[i] \in Generated
    OBVIOUS
  <2> QED BY <2>1, SimulationAssumption DEF Generated, Cursor
<1>6. \A s \in Request : job[s].plan \in Seq(Generated)
  BY <1>2 DEF JobsTyped, Job
<1>7. ASSUME NEW i \in DOMAIN plan
      PROVE  /\ plan[i].pole \in Pole /\ plan[i].at \in Cursor
             /\ Before(cursors[plan[i].pole], plan[i].at)
             /\ ~ Before(moved[plan[i].pole], plan[i].at)
  BY <1>1, <1>5 DEF NewPlan
<1>8. ASSUME NEW s \in Request, NEW j \in DOMAIN job[s].plan
      PROVE  /\ job[s].plan[j].pole \in Pole /\ job[s].plan[j].at \in Cursor
             /\ ~ Before(cursors[job[s].plan[j].pole], job[s].plan[j].at)
             /\ ~ Before(moved[job[s].plan[j].pole], job[s].plan[j].at)
  <2>1. /\ job[s].plan[j].pole \in Pole /\ job[s].plan[j].at \in Cursor
        /\ ~ Before(cursors[job[s].plan[j].pole], job[s].plan[j].at)
    BY <1>5, <1>6 DEF PlansHold
  <2> QED BY <1>4, <2>1, BeforeIsOrder
<1>9. ASSUME NEW i \in DOMAIN plan, NEW s \in Request, NEW j \in DOMAIN job[s].plan,
             plan[i].pole = job[s].plan[j].pole
      PROVE  Before(job[s].plan[j].at, plan[i].at) /\ plan[i].at # job[s].plan[j].at
  BY <1>4, <1>7, <1>8, <1>9, BeforeIsOrder
<1>10. \A s \in Request : PlanShape(job'[s].plan)
  BY <1>1, <1>3 DEF NewPlan, PlansHold
<1>11. \A s \in Request : \A i \in DOMAIN job'[s].plan :
         ~ Before(cursors'[job'[s].plan[i].pole], job'[s].plan[i].at)
  BY <1>1, <1>3, <1>7, <1>8
<1>12. ASSUME NEW q \in Request, NEW s \in Request,
              NEW i \in DOMAIN job'[q].plan, NEW j \in DOMAIN job'[s].plan,
              q # s, job'[q].plan[i].pole = job'[s].plan[j].pole
       PROVE  /\ job'[q].plan[i].at # job'[s].plan[j].at
              /\ Reached(job[q], job[q].plan[i].pole)' =>
                   Before(job'[s].plan[j].at, job'[q].plan[i].at)
  <2>1. CASE q = r
    BY <1>3, <1>9, <1>12, <2>1
  <2>2. CASE q # r
    <3> DEFINE p == job[q].plan[i].pole
    <3>1. job'[q] = job[q] /\ i \in DOMAIN job[q].plan /\ p \in Pole
      BY <1>3, <1>8, <2>2
    <3>2. ASSUME Reached(job[q], job[q].plan[i].pole)'
          PROVE  moved[p] = cursors[p] /\ Reached(job[q], p)
      <4>1. PICK k \in DOMAIN job[q].plan : job[q].plan[k].pole = p /\ job[q].plan[k].at = moved[p]
        BY <1>1, <3>1, <3>2 DEF Reached
      <4>2. ~ Before(cursors[p], moved[p])
        BY <1>8, <4>1
      <4>3. moved[p] = cursors[p]
        <5> SUFFICES ASSUME moved[p] # cursors[p] PROVE FALSE
          OBVIOUS
        <5>1. PICK m \in DOMAIN plan : plan[m].pole = p /\ plan[m].at = moved[p]
          BY <1>1, <3>1 DEF NewPlan
        <5> QED BY <1>7, <4>2, <5>1
      <4> QED BY <4>1, <4>3 DEF Reached
    <3>3. CASE s = r
      <4>1. j \in DOMAIN plan /\ plan[j].pole = p /\ job'[s].plan[j] = plan[j]
        BY <1>3, <1>12, <3>1, <3>3
      <4>2. plan[j].at # job[q].plan[i].at
        BY <1>9, <3>1, <4>1
      <4>3. ~ Reached(job[q], job[q].plan[i].pole)'
        <5> SUFFICES ASSUME Reached(job[q], job[q].plan[i].pole)' PROVE FALSE
          OBVIOUS
        <5>1. Before(cursors[p], plan[j].at) /\ ~ Before(moved[p], plan[j].at)
          BY <1>7, <4>1
        <5> QED BY <3>2, <5>1
      <4> QED BY <3>1, <4>1, <4>2, <4>3
    <3>4. CASE s # r
      <4>1. job'[s] = job[s] /\ j \in DOMAIN job[s].plan /\ job[s].plan[j].pole = p
        BY <1>3, <1>12, <3>1, <3>4
      <4>2. job[q].plan[i].at # job[s].plan[j].at
        BY <1>12, <3>1, <4>1 DEF PlansHold
      <4>3. Reached(job[q], p) => Before(job[s].plan[j].at, job[q].plan[i].at)
        BY <1>12, <3>1, <4>1 DEF PlansHold
      <4> QED BY <3>1, <3>2, <4>1, <4>2, <4>3
    <3> QED BY <3>3, <3>4
  <2> QED BY <2>1, <2>2
<1> QED BY <1>10, <1>11, <1>12 DEF PlansHold

(* No other step moves a cursor while there is a plan, or changes a plan   *)
(* but to drop it.                                                         *)
LEMMA PlansOfOthers ==
  ASSUME PlansHold,
         \A r \in Request : job'[r].plan = job[r].plan \/ job'[r].plan = <<>>,
         cursors' = cursors \/ \A r \in Request : job'[r].plan = <<>>
  PROVE  PlansHold'
<1>1. \A r \in Request : \A i \in DOMAIN job'[r].plan :
        cursors' = cursors /\ job'[r].plan = job[r].plan
  OBVIOUS
<1>2. \A r \in Request : PlanShape(job'[r].plan)
  BY DEF PlansHold, PlanShape
<1>3. \A r \in Request : \A i \in DOMAIN job'[r].plan :
        ~ Before(cursors'[job'[r].plan[i].pole], job'[r].plan[i].at)
  BY <1>1 DEF PlansHold
<1>4. ASSUME NEW r \in Request, NEW s \in Request,
             NEW i \in DOMAIN job'[r].plan, NEW j \in DOMAIN job'[s].plan,
             r # s, job'[r].plan[i].pole = job'[s].plan[j].pole
      PROVE  /\ job'[r].plan[i].at # job'[s].plan[j].at
             /\ Reached(job[r], job[r].plan[i].pole)' =>
                  Before(job'[s].plan[j].at, job'[r].plan[i].at)
  <2>1. cursors' = cursors /\ job'[r].plan = job[r].plan /\ job'[s].plan = job[s].plan
    BY <1>1, <1>4
  <2>2. Reached(job[r], job[r].plan[i].pole)' <=> Reached(job[r], job[r].plan[i].pole)
    BY <2>1 DEF Reached
  <2> QED BY <1>4, <2>1, <2>2 DEF PlansHold
<1> QED BY <1>2, <1>3, <1>4 DEF PlansHold

LEMMA PlansAreKept ==
  ASSUME TypesInv, PlansHold, [Next]_vars
  PROVE  PlansHold'
<1>1. ASSUME NEW r \in Request, NEW key, NEW plan, NEW moved, Starts(r, key, plan, moved)
      PROVE  PlansHold'
  BY <1>1, PlansOfStart
<1>2. ASSUME NEW r \in Request, Empties(r)
      PROVE  PlansHold'
  <2>1. /\ \A s \in Request : job'[s].plan = job[s].plan \/ job'[s].plan = <<>>
        /\ cursors' = cursors
    BY <1>2 DEF Empties
  <2> QED BY <2>1, PlansOfOthers
<1>3. ASSUME NEW r \in Request, GoesOn(r)
      PROVE  PlansHold'
  <2>1. \A s \in Request : job'[s].plan = job[s].plan
    BY <1>3 DEF GoesOn, Waits, PassesRefused, PassesAccepted, Moved
  <2>2. cursors' = cursors
    BY <1>3 DEF GoesOn
  <2> QED BY <2>1, <2>2, PlansOfOthers
<1>4. CASE Dies
  <2>1. \A r \in Request : job'[r].plan = <<>>
    BY <1>4 DEF Dies, Idle
  <2> QED BY <2>1, PlansOfOthers
<1>5. CASE Restart
  <2>1. \A r \in Request : job'[r].plan = <<>>
    BY <1>5 DEF Restart, TypesInv, StoppedHolds, Idle
  <2> QED BY <2>1, PlansOfOthers
<1>6. CASE Insert \/ Apply \/ ProcessingFails \/ DeviceReports \/ FaultResolves \/ UNCHANGED vars
  <2>1. UNCHANGED <<cursors, job>>
    BY <1>6 DEF Insert, Apply, ProcessingFails, DeviceReports, FaultResolves, vars
  <2> QED BY <2>1, PlansOfOthers
<1> QED BY <1>1, <1>2, <1>3, <1>4, <1>5, <1>6, StepKinds

LEMMA PlansAreGood ==
  ASSUME PlansHold PROVE PlansAreFresh
<1> SUFFICES ASSUME NEW r \in Request, NEW s \in Request,
                    NEW i \in Planned(r), NEW j \in Planned(s),
                    job[r].plan[i].pole = job[s].plan[j].pole
             PROVE  IF r = s THEN i < j => Before(job[r].plan[i].at, job[s].plan[j].at)
                             ELSE job[r].plan[i].at # job[s].plan[j].at
  BY DEF PlansAreFresh
<1>1. /\ i \in DOMAIN job[r].plan /\ job[r].plan[i].expected = "accepted"
      /\ j \in DOMAIN job[s].plan /\ job[s].plan[j].expected = "accepted"
  BY DEF Planned
<1>2. PlanShape(job[r].plan)
  BY DEF PlansHold
<1>3. CASE r = s
  BY <1>1, <1>2, <1>3 DEF PlanShape
<1>4. CASE r # s
  BY <1>1, <1>4 DEF PlansHold
<1> QED BY <1>3, <1>4

(* Spec => []PlansAreFresh: TelemetryProducer never gives two accepted     *)
(* events of a pole the same position, in one plan or in the plans of runs *)
(* that overlap, and a plan's own are in the order of the stream.          *)
THEOREM PlansShareNothing == Spec => []PlansAreFresh
<1>1. TypesInv /\ PlansHold /\ [Next]_vars => TypesInv' /\ PlansHold'
  BY TypesAreKept, PlansAreKept
<1> QED BY <1>1, TypesHoldInitially, PlansHoldInitially, PlansAreGood, PTL DEF Spec

-----------------------------------------------------------------------------
(* The queue.                                                              *)

LEMMA CursorIsLast ==
  /\ \A p : StreamCursor(p) = LastAt(buffer, applied, p)
  /\ \A p : StreamCursor(p)' = LastAt(buffer', applied', p)
BY DEF StreamCursor, LastAt

LEMMA QueueIsKept ==
  ASSUME TypesInv, QueueHolds, [Next]_vars
  PROVE  QueueHolds'
<1>1. /\ buffer \in Seq(Tuple) /\ applied \in [Pole -> Cursor]
      /\ Rises(buffer, applied) /\ (inserted => Head(buffer) \in telemetry /\ buffer # <<>>)
  BY DEF TypesInv, QueueTyped, CursorsTyped, ProcessTyped, QueueHolds, Rises
<1> SUFFICES Rises(buffer', applied') /\ (inserted' => Head(buffer') \in telemetry')
  BY DEF QueueHolds, Rises
<1>2. ASSUME NEW e \in Tuple, Before(StreamCursor(e.pole), e.at), buffer' = Append(buffer, e),
             UNCHANGED <<inserted, telemetry, applied>>
      PROVE  Rises(buffer', applied') /\ (inserted' => Head(buffer') \in telemetry')
  <2>1. Before(LastAt(buffer, applied, e.pole), e.at)
    BY <1>2, CursorIsLast
  <2>2. Rises(buffer', applied')
    BY <1>1, <1>2, <2>1, RisesAppend
  <2>3. buffer # <<>> => Head(buffer') = Head(buffer)
    BY <1>1, <1>2
  <2> QED BY <1>1, <1>2, <2>2, <2>3
<1>3. ASSUME UNCHANGED <<buffer, inserted, telemetry, applied>>
      PROVE  Rises(buffer', applied') /\ (inserted' => Head(buffer') \in telemetry')
  BY <1>1, <1>3
<1>4. ASSUME NEW r \in Request, GoesOn(r)
      PROVE  Rises(buffer', applied') /\ (inserted' => Head(buffer') \in telemetry')
  <2>1. CASE PassesAccepted(r)
    <3> DEFINE e == StreamTuple(Event(r))
    <3>1. e \in Tuple /\ e.pole = Event(r).pole /\ e.at = Event(r).at
      BY <1>4 DEF GoesOn, StreamTuple, Generated, Tuple
    <3>2. Before(StreamCursor(e.pole), e.at) /\ buffer' = Append(buffer, e)
      BY <2>1, <3>1 DEF PassesAccepted
    <3>3. UNCHANGED <<inserted, telemetry, applied>>
      BY <1>4 DEF GoesOn
    <3> HIDE DEF e
    <3> QED BY <1>2, <3>1, <3>2, <3>3
  <2>2. CASE Waits(r) \/ PassesRefused(r)
    <3>1. UNCHANGED <<buffer, inserted, telemetry, applied>>
      BY <1>4, <2>2 DEF GoesOn, Waits, PassesRefused
    <3> QED BY <1>3, <3>1
  <2> QED BY <1>4, <2>1, <2>2 DEF GoesOn
<1>5. CASE Dies
  <2>1. buffer' = <<>> /\ inserted' = FALSE
    BY <1>5 DEF Dies
  <2> QED BY <2>1 DEF Rises
<1>6. CASE DeviceReports
  <2>0. PICK p \in Device :
           buffer' = Append(buffer, [pole |-> p, at |-> Ahead(ProducerCursor(StreamCursor(p)), 1)])
    BY <1>6 DEF DeviceReports
  <2>1. PICK at : /\ at = Ahead(ProducerCursor(StreamCursor(p)), 1)
                  /\ buffer' = Append(buffer, [pole |-> p, at |-> at])
    BY <2>0
  <2> DEFINE c == StreamCursor(p)
             d == ProducerCursor(c)
             e == [pole |-> p, at |-> at]
  <2>2. c \in Cursor
    <3>1. p \in Pole
      BY SimulationAssumption
    <3>2. LastAt(buffer, applied, p) \in Cursor
      BY <1>1, <3>1, LastAtBounds
    <3> QED BY <3>2, CursorIsLast
  <2>3. d \in Position /\ ~ Before(d, c)
    <3> HIDE DEF c
    <3> QED BY <2>2, ProducerStarts
  <2>4. at \in Position /\ at.bootCounter = d.bootCounter /\ at.seq = d.seq + 1
    <3>1. at = Ahead(d, 1)
      BY <2>1
    <3> HIDE DEF d
    <3> QED BY <2>3, <3>1, AheadIs
  <2>5. Before(c, at)
    <3>1. d.seq \in Nat /\ d.bootCounter \in Nat /\ d \in Cursor /\ at \in Cursor
      BY <2>3, <2>4 DEF Position, Cursor
    <3> HIDE DEF d
    <3>2. Before(d, at)
      BY <2>4, <3>1 DEF Before
    <3> HIDE DEF c
    <3> QED BY <2>2, <2>3, <3>1, <3>2, BeforeIsOrder
  <2>6. e \in Tuple /\ e.pole = p /\ e.at = at
    BY <2>4 DEF Tuple
  <2>7. UNCHANGED <<inserted, telemetry, applied>>
    BY <1>6 DEF DeviceReports
  <2>8. buffer' = Append(buffer, e) /\ Before(StreamCursor(e.pole), e.at)
    BY <2>1, <2>5, <2>6
  <2> HIDE DEF e
  <2> QED BY <1>2, <2>6, <2>7, <2>8
<1>7. CASE Insert
  <2>1. UNCHANGED <<buffer, applied>> /\ telemetry' = telemetry \cup {Head(buffer)}
    BY <1>7 DEF Insert
  <2> QED BY <1>1, <2>1
<1>8. CASE Apply \/ ProcessingFails
  <2>1. buffer # <<>> /\ buffer' = Tail(buffer) /\ inserted' = FALSE
    BY <1>1, <1>8 DEF Apply, ProcessingFails
  <2>2. applied' \in {applied, [applied EXCEPT ![Head(buffer).pole] = Head(buffer).at]}
    BY <1>8 DEF Apply, ProcessingFails
  <2>3. Rises(buffer', applied')
    BY <1>1, <2>1, <2>2, RisesTail
  <2> QED BY <2>1, <2>3
<1>9. ASSUME \/ \E r \in Request : \E key, plan, moved : Starts(r, key, plan, moved)
             \/ \E r \in Request : Empties(r)
             \/ FaultResolves \/ Restart \/ UNCHANGED vars
      PROVE  Rises(buffer', applied') /\ (inserted' => Head(buffer') \in telemetry')
  <2>1. UNCHANGED <<buffer, inserted, telemetry, applied>>
    BY <1>9 DEF Starts, Start, Empties, FaultResolves, Restart, vars, serverVars
  <2> QED BY <1>3, <2>1
<1> QED BY <1>4, <1>5, <1>6, <1>7, <1>8, <1>9, StepKinds

-----------------------------------------------------------------------------
(* The streams that only simulations move.                                 *)

LEMMA RangeIs ==
  ASSUME NEW buf \in Seq(Tuple)
  PROVE  /\ \A t : t \in Range(buf) <=> \E i \in DOMAIN buf : buf[i] = t
         /\ \A e \in Tuple : Range(Append(buf, e)) = Range(buf) \cup {e}
         /\ buf # <<>> => Range(buf) = Range(Tail(buf)) \cup {Head(buf)}
<1>1. \A t : t \in Range(buf) <=> \E i \in DOMAIN buf : buf[i] = t
  BY DEF Range
<1>2. ASSUME NEW e \in Tuple
      PROVE  Range(Append(buf, e)) = Range(buf) \cup {e}
  <2> DEFINE longer == Append(buf, e)
  <2>1. /\ DOMAIN longer = 1 .. Len(buf) + 1 /\ DOMAIN buf = 1 .. Len(buf) /\ Len(buf) \in Nat
        /\ longer[Len(buf) + 1] = e /\ \A i \in DOMAIN buf : longer[i] = buf[i]
    OBVIOUS
  <2> HIDE DEF longer
  <2>2. \A i \in DOMAIN longer : longer[i] = e \/ (i \in DOMAIN buf /\ longer[i] = buf[i])
    BY <2>1
  <2>3. Len(buf) + 1 \in DOMAIN longer /\ \A i \in DOMAIN buf : i \in DOMAIN longer
    BY <2>1
  <2>4. Range(longer) = Range(buf) \cup {e}
    BY <2>1, <2>2, <2>3 DEF Range
  <2> QED BY <2>4 DEF longer
<1>3. ASSUME buf # <<>>
      PROVE  Range(buf) = Range(Tail(buf)) \cup {Head(buf)}
  <2> DEFINE shorter == Tail(buf)
             first == Head(buf)
  <2>1. /\ Len(buf) \in Nat /\ Len(buf) > 0
        /\ DOMAIN shorter = 1 .. Len(buf) - 1 /\ DOMAIN buf = 1 .. Len(buf)
        /\ \A i \in DOMAIN shorter : i + 1 \in DOMAIN buf /\ shorter[i] = buf[i + 1]
        /\ first = buf[1]
    BY <1>3, TailIs
  <2> HIDE DEF shorter, first
  <2>2. \A i \in DOMAIN buf : i = 1 \/ (i - 1 \in DOMAIN shorter /\ shorter[i - 1] = buf[i])
    BY <2>1
  <2>3. 1 \in DOMAIN buf
    BY <2>1
  <2>4. /\ \A t \in Range(buf) : t \in Range(shorter) \cup {first}
        /\ \A t \in Range(shorter) \cup {first} : t \in Range(buf)
    <3>1. \A i \in DOMAIN buf : buf[i] \in Range(shorter) \cup {first}
      BY <2>1, <2>2 DEF Range
    <3>2. first \in Range(buf) /\ \A i \in DOMAIN shorter : shorter[i] \in Range(buf)
      BY <2>1, <2>3 DEF Range
    <3> QED BY <3>1, <3>2 DEF Range
  <2>5. Range(buf) = Range(shorter) \cup {first}
    BY <2>4
  <2> QED BY <2>5 DEF shorter, first
<1> QED BY <1>1, <1>2, <1>3

(* What the pipeline, the devices and the faults do leaves the stream of   *)
(* every pole that is not disturbed as it was.                             *)
Outside ==
  Insert \/ Apply \/ ProcessingFails \/ DeviceReports \/ FaultResolves \/ UNCHANGED vars

SameStream(p) ==
  /\ p \notin disturbed
  /\ StreamCursor(p)' = StreamCursor(p)
  /\ \A t : t.pole = p => (Admitted(t)' <=> Admitted(t))

LEMMA OutsideKeepsStreams ==
  ASSUME TypesInv, QueueHolds, Outside
  PROVE  /\ UNCHANGED <<up, cursors, job>>
         /\ telemetry \subseteq telemetry' /\ telemetry' \subseteq telemetry \cup Range(buffer)
         /\ \A p \in Pole : p \notin disturbed' => SameStream(p)
<1>1. /\ buffer \in Seq(Tuple) /\ applied \in [Pole -> Cursor]
      /\ (inserted => Head(buffer) \in telemetry /\ buffer # <<>>)
  BY DEF TypesInv, QueueTyped, CursorsTyped, ProcessTyped, QueueHolds
<1>2. CASE FaultResolves \/ UNCHANGED vars
  <2>1. UNCHANGED <<up, cursors, job, buffer, telemetry, applied, disturbed>>
    BY <1>2 DEF FaultResolves, vars, serverVars
  <2> QED BY <2>1 DEF SameStream, StreamCursor, Admitted
<1>3. CASE Insert
  <2>1. /\ UNCHANGED <<up, cursors, job, buffer, applied, disturbed>>
        /\ telemetry' = telemetry \cup {Head(buffer)} /\ buffer # <<>>
    BY <1>3 DEF Insert
  <2>2. Head(buffer) \in Range(buffer)
    BY <1>1, <2>1, RangeIs
  <2> QED BY <2>1, <2>2 DEF SameStream, StreamCursor, Admitted
<1>4. CASE DeviceReports
  <2>0. PICK p \in Device :
           /\ buffer' = Append(buffer, [pole |-> p, at |-> Ahead(ProducerCursor(StreamCursor(p)), 1)])
           /\ Disturb(p)
    BY <1>4 DEF DeviceReports
  <2>1. PICK at : /\ at = Ahead(ProducerCursor(StreamCursor(p)), 1)
                  /\ buffer' = Append(buffer, [pole |-> p, at |-> at])
                  /\ Disturb(p)
    BY <2>0
  <2> DEFINE e == [pole |-> p, at |-> at]
  <2>2. UNCHANGED <<up, cursors, job, telemetry, applied>>
    BY <1>4 DEF DeviceReports
  <2>3. e \in Tuple
    <3>1. buffer' \in Seq(Tuple)
      BY TypesAreKept, <1>4 DEF TypesInv, QueueTyped, Next
    <3>2. /\ buffer' = Append(buffer, e) /\ buffer'[Len(buffer) + 1] = e
          /\ Len(buffer) + 1 \in DOMAIN buffer'
      BY <1>1, <2>1
    <3> HIDE DEF e
    <3> QED BY <3>1, <3>2
  <2>4. e.pole = p
    OBVIOUS
  <2>5. buffer' = Append(buffer, e)
    BY <2>1
  <2> HIDE DEF e
  <2>6. ASSUME NEW q \in Pole, q \notin disturbed'
        PROVE  SameStream(q)
    <3>1. q # p /\ q \notin disturbed
      BY <2>1, <2>6 DEF Disturb
    <3>2. LastAt(buffer', applied', q) = LastAt(buffer, applied, q)
      <4>1. AppendMoves(buffer, applied, e, q)
        BY <1>1, <2>3, LastAtAppend, Zenon
      <4> QED BY <2>2, <2>4, <2>5, <3>1, <4>1 DEF AppendMoves
    <3>3. \A t : t.pole = q => (t \in Range(buffer') <=> t \in Range(buffer))
      BY <1>1, <2>3, <2>4, <2>5, <3>1, RangeIs
    <3> QED BY <2>2, <3>1, <3>2, <3>3, CursorIsLast DEF SameStream, Admitted
  <2> QED BY <2>2, <2>6
<1>5. CASE Apply \/ ProcessingFails
  <2>1. /\ buffer # <<>> /\ buffer' = Tail(buffer) /\ UNCHANGED <<up, cursors, job, telemetry>>
    BY <1>1, <1>5 DEF Apply, ProcessingFails
  <2>2. ASSUME NEW q \in Pole, q \notin disturbed'
        PROVE  SameStream(q)
    <3>1. q \notin disturbed /\ applied'[q] = IF q = Head(buffer).pole THEN Head(buffer).at
                                                                       ELSE applied[q]
      <4>1. CASE Apply
        BY <1>1, <2>2, <4>1 DEF Apply
      <4>2. CASE ProcessingFails
        BY <2>2, <4>2 DEF ProcessingFails, Disturb
      <4> QED BY <1>5, <4>1, <4>2
    <3>2. LastAt(buffer', applied', q) = LastAt(buffer, applied, q)
      <4>1. TailKeeps(buffer, applied, applied', q)
        BY <1>1, <2>1, LastAtTail, Zenon
      <4> QED BY <2>1, <3>1, <4>1 DEF TailKeeps
    <3>3. Range(buffer) = Range(buffer') \cup {Head(buffer)}
      BY <1>1, <2>1, RangeIs
    <3>4. Head(buffer).pole = q => Head(buffer) \in telemetry
      <4>1. CASE Apply
        BY <1>1, <4>1 DEF Apply
      <4>2. CASE ProcessingFails
        BY <2>2, <4>2 DEF ProcessingFails, Disturb
      <4> QED BY <1>5, <4>1, <4>2
    <3>5. \A t : t.pole = q => (Admitted(t)' <=> Admitted(t))
      BY <2>1, <3>3, <3>4 DEF Admitted
    <3> QED BY <3>1, <3>2, <3>5, CursorIsLast DEF SameStream
  <2> QED BY <2>1, <2>2
<1> QED BY <1>2, <1>3, <1>4, <1>5 DEF Outside

(* The cursor of a stream, and what is queued or stored behind it.         *)
LEMMA StreamBounds ==
  ASSUME TypesInv, QueueHolds, NEW p \in Pole
  PROVE  /\ StreamCursor(p) \in Cursor
         /\ \A t \in Range(buffer) : t.pole = p => ~ Before(StreamCursor(p), t.at)
<1>1. buffer \in Seq(Tuple) /\ applied \in [Pole -> Cursor] /\ Rises(buffer, applied)
  BY DEF TypesInv, QueueTyped, CursorsTyped, QueueHolds, Rises
<1>2. /\ LastAt(buffer, applied, p) \in Cursor
      /\ \A i \in DOMAIN buffer : buffer[i].pole = p =>
           ~ Before(LastAt(buffer, applied, p), buffer[i].at)
  BY <1>1, LastAtBounds
<1> QED BY <1>1, <1>2, CursorIsLast, RangeIs

LEMMA PlannedEvent ==
  ASSUME TypesInv
  PROVE  /\ \A r \in Request : job[r].plan \in Seq(Generated) /\ job[r].next \in Nat \ {0}
         /\ \A r \in Request : \A i \in DOMAIN job[r].plan :
              /\ i \in Nat \ {0} /\ job[r].plan[i] \in Generated
              /\ job[r].plan[i].pole \in Device /\ job[r].plan[i].pole \in Pole
              /\ job[r].plan[i].at \in Cursor
              /\ job[r].plan[i].expected \in Admission
         /\ \A e \in Generated : /\ e.pole \in Device /\ e.pole \in Pole /\ e.at \in Cursor
                                 /\ StreamTuple(e) \in Tuple
                                 /\ StreamTuple(e).pole = e.pole /\ StreamTuple(e).at = e.at
<1>1. \A e \in Generated : /\ e.pole \in Device /\ e.at \in Position /\ e.expected \in Admission
  BY DEF Generated
<1>2. Device \subseteq Pole /\ Position \subseteq Cursor
  BY SimulationAssumption DEF Cursor
<1>3. \A r \in Request : job[r].plan \in Seq(Generated) /\ job[r].next \in Nat \ {0}
  BY DEF TypesInv, JobsTyped, Job
<1>4. \A r \in Request : \A i \in DOMAIN job[r].plan :
        i \in Nat \ {0} /\ job[r].plan[i] \in Generated
  BY <1>3
<1>5. \A e \in Generated : /\ StreamTuple(e) \in Tuple
                           /\ StreamTuple(e).pole = e.pole /\ StreamTuple(e).at = e.at
  BY <1>1 DEF StreamTuple, Tuple
<1> QED BY <1>1, <1>2, <1>3, <1>4, <1>5

(* An accepted event is the cursor of its stream, and admitted.            *)
LEMMA AcceptedMoves ==
  ASSUME TypesInv, NEW r \in Request, GoesOn(r), PassesAccepted(r), NEW e, e = Event(r)
  PROVE  /\ e \in Generated
         /\ StreamCursor(e.pole)' = e.at
         /\ \A p : p # e.pole => StreamCursor(p)' = StreamCursor(p)
         /\ \A t : Admitted(t)' <=> Admitted(t) \/ t = StreamTuple(e)
<1>1. buffer \in Seq(Tuple) /\ e \in Generated
  BY DEF TypesInv, QueueTyped, GoesOn
<1>2. StreamTuple(e) \in Tuple /\ StreamTuple(e).pole = e.pole /\ StreamTuple(e).at = e.at
  BY <1>1, PlannedEvent
<1>3. /\ buffer' = Append(buffer, StreamTuple(e)) /\ applied' = applied
      /\ telemetry' = telemetry
  BY DEF GoesOn, PassesAccepted
<1> DEFINE t == StreamTuple(e)
<1>4. \A p : AppendMoves(buffer, applied, t, p)
  <2> HIDE DEF t
  <2>1. t \in Tuple
    BY <1>2 DEF t
  <2> QED BY <1>1, <2>1, LastAtAppend, Zenon
<1>5. \A p : StreamCursor(p)' = IF e.pole = p THEN e.at ELSE StreamCursor(p)
  BY <1>2, <1>3, <1>4, CursorIsLast DEF AppendMoves
<1>6. Range(buffer') = Range(buffer) \cup {t}
  BY <1>1, <1>2, <1>3, RangeIs
<1>7. \A u : Admitted(u)' <=> Admitted(u) \/ u = t
  BY <1>3, <1>6 DEF Admitted
<1> QED BY <1>1, <1>5, <1>7

(* A run that has not reached the producer's cursor does not reach it      *)
(* when another moves it.                                                  *)
LEMMA StartReaches ==
  ASSUME TypesInv, PlansHold, NEW r \in Request, NEW key, NEW plan, NEW moved,
         Starts(r, key, plan, moved),
         NEW s \in Request, s # r, NEW p \in Pole, Reached(job[s], p)'
  PROVE  Reached(job[s], p)
<1>1. NewPlan(plan, moved) /\ cursors' = moved /\ job'[s] = job[s]
  BY DEF Starts, Start, TypesInv, JobsTyped
<1>2. PICK k \in DOMAIN job[s].plan : job[s].plan[k].pole = p /\ job[s].plan[k].at = moved[p]
  BY <1>1 DEF Reached
<1>3. ~ Before(cursors[p], moved[p])
  BY <1>2 DEF PlansHold
<1>4. moved[p] = cursors[p]
  <2> SUFFICES ASSUME moved[p] # cursors[p] PROVE FALSE
    OBVIOUS
  <2>1. PICK m \in DOMAIN plan : plan[m].pole = p /\ plan[m].at = moved[p]
    BY <1>1 DEF NewPlan
  <2> QED BY <1>1, <1>3, <2>1 DEF NewPlan
<1> QED BY <1>2, <1>4 DEF Reached

LEMMA StreamsHoldInitially ==
  ASSUME Init PROVE StreamHolds
<1>1. \A p \in Pole : StreamCursor(p) = NoPosition /\ cursors[p] = ProducerCursor(NoPosition)
  BY DEF Init, StreamCursor
<1>2. ~ Before(ProducerCursor(NoPosition), NoPosition)
  BY ProducerStarts DEF Cursor
<1> QED BY <1>1, <1>2, SimulationAssumption DEF Init, StreamHolds

LEMMA StreamsAreKept ==
  ASSUME TypesInv, PlansHold, QueueHolds, StreamHolds, [Next]_vars
  PROVE  StreamHolds'
<1>1. /\ \A t \in telemetry : t.at \in Cursor
      /\ \A p \in Pole : cursors[p] \in Cursor
      /\ \A p \in Device : p \in Pole
  BY TupleIs, SimulationAssumption DEF TypesInv, QueueTyped, CursorsTyped, Cursor
<1>2. ASSUME NEW r \in Request, NEW key, NEW plan, NEW moved, Starts(r, key, plan, moved)
      PROVE  StreamHolds'
  <2>1. /\ up /\ cursors' = moved /\ UNCHANGED <<up, buffer, telemetry, applied, disturbed>>
        /\ moved \in [Pole -> Position] /\ \A p \in Pole : ~ Before(moved[p], cursors[p])
    BY <1>2 DEF Starts, Start, NewPlan, serverVars
  <2>2. \A p : StreamCursor(p)' = StreamCursor(p)
    BY <2>1 DEF StreamCursor
  <2>3. \A p \in Device \ disturbed : ~ Before(moved[p], StreamCursor(p))
    <3> SUFFICES ASSUME NEW p \in Device \ disturbed
                 PROVE  ~ Before(moved[p], StreamCursor(p))
      OBVIOUS
    <3>1. moved[p] \in Cursor /\ cursors[p] \in Cursor /\ StreamCursor(p) \in Cursor
      BY <1>1, <2>1, StreamBounds DEF Cursor
    <3>2. ~ Before(moved[p], cursors[p]) /\ ~ Before(cursors[p], StreamCursor(p))
      BY <1>1, <2>1 DEF StreamHolds
    <3> QED BY <3>1, <3>2, BeforeIsOrder
  <2> QED BY <2>1, <2>2, <2>3 DEF StreamHolds
<1>3. ASSUME UNCHANGED <<up, cursors, buffer, telemetry, applied, disturbed>>
      PROVE  StreamHolds'
  BY <1>3 DEF StreamHolds, StreamCursor
<1>4. ASSUME NEW r \in Request, Empties(r)
      PROVE  StreamHolds'
  BY <1>3, <1>4 DEF Empties, serverVars
<1>5. ASSUME NEW r \in Request, GoesOn(r)
      PROVE  StreamHolds'
  <2>1. UNCHANGED <<up, cursors, telemetry, applied, disturbed>> /\ up
    BY <1>5 DEF GoesOn
  <2>2. CASE buffer' = buffer
    BY <1>3, <2>1, <2>2
  <2>3. CASE PassesAccepted(r)
    <3>0. PICK e : e = Event(r)
      OBVIOUS
    <3>1. /\ e \in Generated /\ StreamCursor(e.pole)' = e.at
          /\ \A p : p # e.pole => StreamCursor(p)' = StreamCursor(p)
      BY <1>5, <2>3, <3>0, AcceptedMoves
    <3>2. Before(StreamCursor(e.pole), e.at) /\ ~ Before(cursors[e.pole], e.at)
      BY <1>5, <2>3, <3>0 DEF PassesAccepted, GoesOn, PlansHold, Event
    <3>3. e.pole \in Pole /\ e.at \in Cursor /\ StreamCursor(e.pole) \in Cursor
      BY <3>1, PlannedEvent, StreamBounds
    <3>4. ASSUME NEW p \in Device \ disturbed, NEW t \in telemetry, t.pole = p
          PROVE  ~ Before(StreamCursor(p)', t.at)
      <4>1. ~ Before(StreamCursor(p), t.at) /\ t.at \in Cursor
        BY <1>1, <2>1, <3>4 DEF StreamHolds
      <4>2. CASE p = e.pole
        <5>1. ~ Before(e.at, t.at)
          BY <3>2, <3>3, <4>1, <4>2, BeforeIsOrder
        <5> QED BY <3>1, <4>2, <5>1
      <4> QED BY <3>1, <4>1, <4>2
    <3>5. \A p \in Device \ disturbed : ~ Before(cursors[p], StreamCursor(p)')
      BY <2>1, <3>1, <3>2 DEF StreamHolds
    <3> QED BY <2>1, <3>4, <3>5 DEF StreamHolds
  <2> QED BY <1>5, <2>2, <2>3 DEF GoesOn, Waits, PassesRefused
<1>6. CASE Dies
  BY <1>6 DEF Dies, StreamHolds
<1>7. CASE Restart
  <2>1. /\ buffer = <<>> /\ UNCHANGED <<buffer, telemetry, applied>>
        /\ cursors' = [p \in Pole |-> ProducerCursor(applied[p])]
        /\ disturbed' = {p \in Pole : \E t \in telemetry : t.pole = p /\ Before(applied[p], t.at)}
    BY <1>7 DEF Restart, TypesInv, StoppedHolds, serverVars
  <2>2. \A p : StreamCursor(p)' = applied[p]
    BY <2>1 DEF StreamCursor
  <2>3. \A p \in Pole : ~ Before(ProducerCursor(applied[p]), applied[p])
    BY ProducerStarts DEF TypesInv, CursorsTyped
  <2> QED BY <1>1, <2>1, <2>2, <2>3 DEF StreamHolds
<1>8. CASE Outside
  <2>1. /\ UNCHANGED <<up, cursors>> /\ telemetry' \subseteq telemetry \cup Range(buffer)
        /\ \A p \in Pole : p \notin disturbed' => SameStream(p)
    BY <1>8, OutsideKeepsStreams
  <2> SUFFICES ASSUME up, NEW p \in Device, p \notin disturbed'
               PROVE  /\ ~ Before(cursors[p], StreamCursor(p)')
                      /\ \A t \in telemetry' : t.pole = p => ~ Before(StreamCursor(p)', t.at)
    BY <2>1 DEF StreamHolds
  <2>2. p \in Device \ disturbed /\ StreamCursor(p)' = StreamCursor(p) /\ p \in Pole
    BY <1>1, <2>1 DEF SameStream
  <2>3. /\ ~ Before(cursors[p], StreamCursor(p))
        /\ \A t \in telemetry : t.pole = p => ~ Before(StreamCursor(p), t.at)
    BY <2>2 DEF StreamHolds
  <2>4. \A t \in Range(buffer) : t.pole = p => ~ Before(StreamCursor(p), t.at)
    BY <2>2, StreamBounds
  <2> QED BY <2>1, <2>2, <2>3, <2>4
<1> QED BY <1>2, <1>4, <1>5, <1>6, <1>7, <1>8, StepKinds DEF Outside

-----------------------------------------------------------------------------
(* What the runs have had accepted, and what they have still to send.      *)

(* Between steps that leave a job and the streams of its poles alone.      *)
LEMMA EventStaysSent ==
  ASSUME NEW s \in Request, NEW i, EventSent(job[s], i), job'[s] = job[s],
         NEW p, p = job[s].plan[i].pole,
         p \notin disturbed' => SameStream(p), telemetry \subseteq telemetry',
         Reached(job[s], p)' => Reached(job[s], p),
         StreamTuple(job[s].plan[i]).pole = p
  PROVE  EventSent(job[s], i)'
<1> SUFFICES ASSUME p \notin disturbed'
             PROVE  EventSent(job[s], i)'
  BY DEF EventSent
<1>1. PICK e : e = job[s].plan[i]
  OBVIOUS
<1>2. /\ p \notin disturbed /\ StreamCursor(p)' = StreamCursor(p)
      /\ Admitted(StreamTuple(e))' <=> Admitted(StreamTuple(e))
  BY <1>1 DEF SameStream
<1>3. /\ e.expected = "accepted" /\ i < job[s].next => Admitted(StreamTuple(e))
      /\ e.expected = "stale" => ~ Admitted(StreamTuple(e))
      /\ e.expected = "duplicate" /\ i = job[s].next /\ job[s].phase = "looking" =>
           StreamTuple(e) \in telemetry
      /\ e.expected = "accepted" /\ Reached(job[s], p) =>
           IF i < job[s].next THEN ~ Before(StreamCursor(p), e.at)
                              ELSE Before(StreamCursor(p), e.at)
  BY <1>1, <1>2 DEF EventSent
<1>4. /\ e.expected = "accepted" /\ i < job'[s].next => Admitted(StreamTuple(e))'
      /\ e.expected = "stale" => ~ Admitted(StreamTuple(e))'
      /\ e.expected = "duplicate" /\ i = job'[s].next /\ job'[s].phase = "looking" =>
           StreamTuple(e) \in telemetry'
      /\ e.expected = "accepted" /\ Reached(job[s], p)' =>
           IF i < job'[s].next THEN ~ Before(StreamCursor(p)', e.at)
                               ELSE Before(StreamCursor(p)', e.at)
  BY <1>2, <1>3
<1>5. e = job'[s].plan[i] /\ p = job'[s].plan[i].pole
  BY <1>1
<1> QED BY <1>4, <1>5 DEF EventSent

LEMMA SentOfStart ==
  ASSUME TypesInv, PlansHold, QueueHolds, StreamHolds, SentHolds,
         NEW r \in Request, NEW key, NEW plan, NEW moved, Starts(r, key, plan, moved)
  PROVE  SentHolds'
<1>1. /\ up /\ NewPlan(plan, moved) /\ cursors' = moved
      /\ job' = [job EXCEPT ![r] = [phase |-> "sending", key |-> key,
                                    plan |-> plan, next |-> 1]]
      /\ UNCHANGED <<buffer, telemetry, applied, disturbed>>
  BY DEF Starts, Start, serverVars
<1>2. /\ job'[r].plan = plan /\ job'[r].next = 1 /\ job'[r].phase = "sending"
      /\ \A s \in Request : s # r => job'[s] = job[s]
  BY <1>1 DEF TypesInv, JobsTyped
<1>3. /\ \A p : StreamCursor(p)' = StreamCursor(p)
      /\ \A t : Admitted(t)' <=> Admitted(t)
  BY <1>1 DEF StreamCursor, Admitted
<1>4. ASSUME NEW i \in DOMAIN plan
      PROVE  EventSent(job[r], i)'
  <2>1. PICK e : e = plan[i]
    OBVIOUS
  <2>2. /\ e \in Generated /\ i \in Nat \ {0} /\ e.pole \in Device /\ e.pole \in Pole
        /\ e.at \in Cursor /\ StreamTuple(e).pole = e.pole /\ StreamTuple(e).at = e.at
    <3>1. e \in Generated /\ i \in Nat \ {0}
      BY <1>1, <2>1 DEF NewPlan
    <3> QED BY <3>1, PlannedEvent
  <2>3. Before(cursors[e.pole], e.at)
    BY <1>1, <2>1 DEF NewPlan
  <2> SUFFICES ASSUME e.pole \notin disturbed
               PROVE  ~ Admitted(StreamTuple(e)) /\ Before(StreamCursor(e.pole), e.at)
    BY <1>1, <1>2, <1>3, <2>1, <2>2 DEF EventSent
  <2>4. /\ ~ Before(cursors[e.pole], StreamCursor(e.pole))
        /\ \A t \in telemetry : t.pole = e.pole => ~ Before(StreamCursor(e.pole), t.at)
        /\ \A t \in Range(buffer) : t.pole = e.pole => ~ Before(StreamCursor(e.pole), t.at)
        /\ StreamCursor(e.pole) \in Cursor /\ cursors[e.pole] \in Cursor
    BY <1>1, <2>2, StreamBounds DEF StreamHolds, TypesInv, CursorsTyped, Cursor
  <2>5. Before(StreamCursor(e.pole), e.at)
    BY <2>2, <2>3, <2>4, BeforeIsOrder
  <2> QED BY <2>2, <2>4, <2>5 DEF Admitted
<1>5. ASSUME NEW s \in Request, s # r, NEW i \in DOMAIN job[s].plan
      PROVE  EventSent(job[s], i)'
  <2>1. PICK p : p = job[s].plan[i].pole
    OBVIOUS
  <2>2. p \in Pole /\ StreamTuple(job[s].plan[i]).pole = p
    BY <2>1, PlannedEvent
  <2>3. Reached(job[s], p)' => Reached(job[s], p)
    BY <1>5, <2>2, StartReaches
  <2>4. p \notin disturbed' => SameStream(p)
    BY <1>1, <1>3 DEF SameStream
  <2>5. EventSent(job[s], i) /\ job'[s] = job[s] /\ telemetry \subseteq telemetry'
    BY <1>1, <1>2, <1>5 DEF SentHolds
  <2> QED BY <2>1, <2>2, <2>3, <2>4, <2>5, EventStaysSent
<1> QED BY <1>2, <1>4, <1>5 DEF SentHolds

LEMMA SentOfOutside ==
  ASSUME TypesInv, QueueHolds, SentHolds, Outside
  PROVE  SentHolds'
<1>1. /\ UNCHANGED <<up, cursors, job>> /\ telemetry \subseteq telemetry'
      /\ \A p \in Pole : p \notin disturbed' => SameStream(p)
  BY OutsideKeepsStreams
<1>2. ASSUME NEW s \in Request, NEW i \in DOMAIN job[s].plan
      PROVE  EventSent(job[s], i)'
  <2>1. PICK p : p = job[s].plan[i].pole
    OBVIOUS
  <2>2. p \in Pole /\ StreamTuple(job[s].plan[i]).pole = p
    BY <2>1, PlannedEvent
  <2>3. Reached(job[s], p)' => Reached(job[s], p)
    BY <1>1 DEF Reached
  <2>4. EventSent(job[s], i)
    BY DEF SentHolds
  <2> QED BY <1>1, <2>1, <2>2, <2>3, <2>4, EventStaysSent
<1> QED BY <1>1, <1>2 DEF SentHolds

(* A run passes an event, or begins to wait, and nothing is queued.        *)
LEMMA SentOfQuietMove ==
  ASSUME TypesInv, PlansHold, SentHolds, NEW r \in Request, GoesOn(r),
         Waits(r) \/ PassesRefused(r)
  PROVE  SentHolds'
<1>1. /\ buffer' = buffer /\ UNCHANGED <<cursors, telemetry, applied, disturbed>>
      /\ job'[r].plan = job[r].plan /\ \A s \in Request : s # r => job'[s] = job[s]
  BY DEF GoesOn, Waits, PassesRefused, Moved
<1>2. /\ \A p : StreamCursor(p)' = StreamCursor(p)
      /\ \A t : Admitted(t)' <=> Admitted(t)
      /\ \A s \in Request : \A p : Reached(job[s], p)' <=> Reached(job[s], p)
  BY <1>1 DEF StreamCursor, Admitted, Reached
<1>3. ASSUME NEW s \in Request, s # r, NEW i \in DOMAIN job[s].plan
      PROVE  EventSent(job[s], i)'
  <2>1. PICK p : p = job[s].plan[i].pole
    OBVIOUS
  <2>2. StreamTuple(job[s].plan[i]).pole = p
    BY <2>1, PlannedEvent
  <2>3. p \notin disturbed' => SameStream(p)
    BY <1>1, <1>2 DEF SameStream
  <2>4. /\ EventSent(job[s], i) /\ job'[s] = job[s] /\ telemetry \subseteq telemetry'
        /\ Reached(job[s], p)' => Reached(job[s], p)
    BY <1>1, <1>2, <1>3 DEF SentHolds
  <2> QED BY <2>1, <2>2, <2>3, <2>4, EventStaysSent
<1>4. ASSUME NEW i \in DOMAIN job[r].plan
      PROVE  EventSent(job[r], i)'
  <2> DEFINE n == job[r].next
  <2>1. PICK e : e = job[r].plan[i]
    OBVIOUS
  <2>2. /\ i \in Nat \ {0} /\ n \in Nat \ {0} /\ n \in DOMAIN job[r].plan
        /\ e \in Generated /\ e = job'[r].plan[i]
    BY <1>1, <2>1, PlannedEvent DEF GoesOn
  <2> SUFFICES ASSUME e.pole \notin disturbed
               PROVE  EventSent(job[r], i)'
    BY <1>1, <2>2 DEF EventSent
  <2>3. /\ e.expected = "accepted" /\ i < n => Admitted(StreamTuple(e))
        /\ e.expected = "stale" => ~ Admitted(StreamTuple(e))
        /\ e.expected = "accepted" /\ Reached(job[r], e.pole) =>
             IF i < n THEN ~ Before(StreamCursor(e.pole), e.at)
                      ELSE Before(StreamCursor(e.pole), e.at)
    BY <2>1 DEF SentHolds, EventSent
  <2>4. /\ e.expected = "accepted" => (i < job'[r].next <=> i < n)
        /\ job'[r].phase = "looking" => ~ Queued(Event(r)) /\ job'[r].next = n
    <3>1. CASE Waits(r)
      BY <3>1 DEF Waits, Moved
    <3>2. CASE PassesRefused(r)
      <4>1. job'[r].next = n + 1 /\ job'[r].phase = "sending" /\ job[r].plan[n].expected # "accepted"
        BY <3>2 DEF PassesRefused, Moved, Event
      <4>2. e.expected = "accepted" => i # n
        BY <2>1, <4>1
      <4>3. i \in Int /\ n \in Int
        BY <2>2
      <4>4. i # n => (i < n + 1 <=> i < n)
        <5> HIDE DEF n
        <5> QED BY <4>3
      <4> QED BY <4>1, <4>2, <4>4
    <3> QED BY <3>1, <3>2
  <2>5. ASSUME e.expected = "duplicate", i = job'[r].next, job'[r].phase = "looking"
        PROVE  StreamTuple(e) \in telemetry
    <3>1. i = n /\ ~ Queued(e)
      BY <2>1, <2>4, <2>5 DEF Event
    <3>2. PICK d : d = job[r].plan[i - 1]
      OBVIOUS
    <3>3. i > 1 /\ d.expected = "accepted" /\ d.pole = e.pole /\ d.at = e.at
      BY <2>1, <2>5, <3>2 DEF PlansHold, PlanShape
    <3>4. i - 1 \in DOMAIN job[r].plan
      BY <2>2, <3>3, PlannedEvent
    <3>5. Admitted(StreamTuple(d))
      BY <2>2, <3>1, <3>2, <3>3, <3>4 DEF SentHolds, EventSent
    <3> QED BY <3>1, <3>3, <3>5 DEF StreamTuple, Queued, Admitted
  <2>6. /\ e.expected = "accepted" /\ i < job'[r].next => Admitted(StreamTuple(e))'
        /\ e.expected = "stale" => ~ Admitted(StreamTuple(e))'
        /\ e.expected = "duplicate" /\ i = job'[r].next /\ job'[r].phase = "looking" =>
             StreamTuple(e) \in telemetry'
        /\ e.expected = "accepted" /\ Reached(job[r], e.pole)' =>
             IF i < job'[r].next THEN ~ Before(StreamCursor(e.pole)', e.at)
                                 ELSE Before(StreamCursor(e.pole)', e.at)
    BY <1>1, <1>2, <2>3, <2>4, <2>5
  <2>7. PICK p : p = e.pole
    OBVIOUS
  <2> QED BY <2>2, <2>6, <2>7 DEF EventSent
<1> QED BY <1>1, <1>3, <1>4 DEF SentHolds

(* A run has its event accepted.                                           *)
LEMMA SentOfAccepted ==
  ASSUME TypesInv, PlansHold, QueueHolds, SentHolds, NEW r \in Request, GoesOn(r),
         PassesAccepted(r)
  PROVE  SentHolds'
<1> DEFINE n == job[r].next
<1>1. PICK d : d = Event(r)
  OBVIOUS
<1>2. /\ d \in Generated /\ n \in DOMAIN job[r].plan /\ d = job[r].plan[n]
      /\ d.expected = "accepted" /\ Before(StreamCursor(d.pole), d.at)
      /\ d.pole \in Pole /\ d.at \in Cursor /\ StreamCursor(d.pole) \in Cursor
      /\ n \in Nat \ {0}
  <2>1. /\ d \in Generated /\ n \in DOMAIN job[r].plan /\ d = job[r].plan[n]
        /\ d.expected = "accepted" /\ Before(StreamCursor(d.pole), d.at)
    BY <1>1 DEF GoesOn, PassesAccepted, Event
  <2> QED BY <2>1, PlannedEvent, StreamBounds
<1>3. /\ StreamCursor(d.pole)' = d.at
      /\ \A p : p # d.pole => StreamCursor(p)' = StreamCursor(p)
      /\ \A t : Admitted(t)' <=> Admitted(t) \/ t = StreamTuple(d)
  BY <1>1, AcceptedMoves
<1>4. /\ UNCHANGED <<cursors, telemetry, disturbed>>
      /\ job'[r].plan = job[r].plan /\ job'[r].next = n + 1 /\ job'[r].phase = "sending"
      /\ \A s \in Request : s # r => job'[s] = job[s]
  BY DEF GoesOn, PassesAccepted, Moved
<1> HIDE DEF n
<1>5. \A s \in Request : \A p : Reached(job[s], p)' <=> Reached(job[s], p)
  BY <1>4 DEF Reached
<1>6. ASSUME NEW s \in Request, NEW i \in DOMAIN job[s].plan
      PROVE  EventSent(job[s], i)'
  <2>1. PICK e : e = job[s].plan[i]
    OBVIOUS
  <2>2. PICK p : p = e.pole
    OBVIOUS
  <2>3. /\ e = job'[s].plan[i] /\ e \in Generated /\ i \in Nat \ {0} /\ e.at \in Cursor
        /\ StreamTuple(e).pole = e.pole /\ StreamTuple(e).at = e.at
        /\ StreamTuple(d).pole = d.pole /\ StreamTuple(d).at = d.at
    BY <1>2, <1>4, <2>1, PlannedEvent
  <2> SUFFICES ASSUME p \notin disturbed
               PROVE  EventSent(job[s], i)'
    BY <1>4, <2>2, <2>3 DEF EventSent
  <2>4. /\ e.expected = "accepted" /\ i < job[s].next => Admitted(StreamTuple(e))
        /\ e.expected = "stale" => ~ Admitted(StreamTuple(e))
        /\ e.expected = "duplicate" /\ i = job[s].next /\ job[s].phase = "looking" =>
             StreamTuple(e) \in telemetry
        /\ e.expected = "accepted" /\ Reached(job[s], p) =>
             IF i < job[s].next THEN ~ Before(StreamCursor(p), e.at)
                                ELSE Before(StreamCursor(p), e.at)
    BY <2>1, <2>2 DEF SentHolds, EventSent
  <2>5. e.expected = "accepted" /\ i < job'[s].next => Admitted(StreamTuple(e))'
    <3>1. CASE s # r
      BY <1>3, <1>4, <2>4, <3>1
    <3>2. CASE s = r /\ i = n
      BY <1>2, <1>3, <2>1, <3>2
    <3>3. CASE s = r /\ i # n
      <4>1. i < n + 1 => i < n
        BY <1>2, <2>3, <3>3
      <4> QED BY <1>3, <1>4, <2>4, <3>3, <4>1 DEF n
    <3> QED BY <3>1, <3>2, <3>3
  <2>6. e.expected = "stale" => ~ Admitted(StreamTuple(e))'
    <3> SUFFICES ASSUME e.expected = "stale", StreamTuple(e) = StreamTuple(d)
                 PROVE  FALSE
      BY <1>3, <2>4
    <3>1. e.pole = d.pole /\ e.at = d.at
      BY <2>3
    <3>2. CASE s = r
      BY <1>2, <2>1, <3>1, <3>2 DEF PlansHold, PlanShape
    <3>3. CASE s # r
      BY <1>2, <2>1, <3>1, <3>3 DEF PlansHold
    <3> QED BY <3>2, <3>3
  <2>7. e.expected = "duplicate" /\ i = job'[s].next /\ job'[s].phase = "looking" =>
          StreamTuple(e) \in telemetry'
    BY <1>4, <2>4
  <2>8. ASSUME e.expected = "accepted", Reached(job[s], p)
        PROVE  IF i < job'[s].next THEN ~ Before(StreamCursor(p)', e.at)
                                   ELSE Before(StreamCursor(p)', e.at)
    <3>1. CASE p # d.pole
      <4>1. StreamCursor(p)' = StreamCursor(p)
        BY <1>3, <3>1
      <4>2. CASE s # r
        BY <1>4, <2>4, <2>8, <4>1, <4>2
      <4>3. CASE s = r
        <5>1. i # n
          BY <1>2, <2>1, <2>2, <3>1, <4>3
        <5>2. i < n + 1 <=> i < n
          BY <1>2, <2>3, <5>1
        <5> QED BY <1>4, <2>4, <2>8, <4>1, <4>3, <5>2 DEF n
      <4> QED BY <4>2, <4>3
    <3>2. CASE p = d.pole /\ s = r
      <4>1. /\ i < n => Before(e.at, d.at)
            /\ n < i => Before(d.at, e.at)
        <5>1. PlanShape(job[r].plan)
          BY DEF PlansHold
        <5> QED BY <1>2, <2>1, <2>2, <2>8, <3>2, <5>1 DEF PlanShape
      <4>2. i = n => e.at = d.at
        BY <1>2, <2>1, <3>2
      <4>3. /\ i < n + 1 => i < n \/ i = n
            /\ ~ i < n + 1 => n < i
        BY <1>2, <2>3
      <4>4. ~ Before(d.at, d.at) /\ (Before(e.at, d.at) => ~ Before(d.at, e.at))
        BY <1>2, <2>3, BeforeIsOrder
      <4> QED BY <1>3, <1>4, <3>2, <4>1, <4>2, <4>3, <4>4
    <3>3. CASE p = d.pole /\ s # r
      <4>1. Before(d.at, e.at)
        BY <1>2, <2>1, <2>2, <2>8, <3>3 DEF PlansHold
      <4>2. Before(StreamCursor(p), e.at)
        BY <1>2, <2>3, <3>3, <4>1, BeforeIsOrder
      <4>3. ~ i < job'[s].next
        BY <1>4, <2>4, <2>8, <3>3, <4>2
      <4> QED BY <1>3, <3>3, <4>1, <4>3
    <3> QED BY <3>1, <3>2, <3>3
  <2>9. e.expected = "accepted" /\ Reached(job[s], p)' =>
          IF i < job'[s].next THEN ~ Before(StreamCursor(p)', e.at)
                              ELSE Before(StreamCursor(p)', e.at)
    BY <1>5, <2>8
  <2> QED BY <2>2, <2>3, <2>5, <2>6, <2>7, <2>9 DEF EventSent
<1> QED BY <1>4, <1>6 DEF SentHolds

LEMMA SentIsKept ==
  ASSUME TypesInv, PlansHold, QueueHolds, StreamHolds, SentHolds, [Next]_vars
  PROVE  SentHolds'
<1>1. ASSUME NEW r \in Request, NEW key, NEW plan, NEW moved, Starts(r, key, plan, moved)
      PROVE  SentHolds'
  BY <1>1, SentOfStart
<1>2. ASSUME NEW r \in Request, Empties(r)
      PROVE  SentHolds'
  <2>1. /\ UNCHANGED <<cursors, buffer, telemetry, applied, disturbed>>
        /\ job'[r].plan = <<>> /\ \A s \in Request : s # r => job'[s] = job[s]
    BY <1>2 DEF Empties, serverVars
  <2>2. /\ \A p : StreamCursor(p)' = StreamCursor(p)
        /\ \A t : Admitted(t)' <=> Admitted(t)
        /\ \A s \in Request : s # r => \A p : Reached(job[s], p)' <=> Reached(job[s], p)
    BY <2>1 DEF StreamCursor, Admitted, Reached
  <2>3. ASSUME NEW s \in Request, s # r, NEW i \in DOMAIN job[s].plan
        PROVE  EventSent(job[s], i)'
    <3>1. PICK p : p = job[s].plan[i].pole
      OBVIOUS
    <3>2. StreamTuple(job[s].plan[i]).pole = p
      BY <3>1, PlannedEvent
    <3>3. p \notin disturbed' => SameStream(p)
      BY <2>1, <2>2 DEF SameStream
    <3>4. /\ EventSent(job[s], i) /\ job'[s] = job[s] /\ telemetry \subseteq telemetry'
          /\ Reached(job[s], p)' => Reached(job[s], p)
      BY <2>1, <2>2, <2>3 DEF SentHolds
    <3> QED BY <3>1, <3>2, <3>3, <3>4, EventStaysSent
  <2> QED BY <2>1, <2>3 DEF SentHolds
<1>3. ASSUME NEW r \in Request, GoesOn(r)
      PROVE  SentHolds'
  BY <1>3, SentOfQuietMove, SentOfAccepted DEF GoesOn
<1>4. CASE Dies \/ Restart
  <2>1. \A r \in Request : job'[r].plan = <<>>
    BY <1>4 DEF Dies, Restart, TypesInv, StoppedHolds, Idle
  <2> QED BY <2>1 DEF SentHolds
<1>5. CASE Outside
  BY <1>5, SentOfOutside
<1> QED BY <1>1, <1>2, <1>3, <1>4, <1>5, StepKinds DEF Outside

(* An event that waits for its answer, of a run that nobody has overtaken  *)
(* on a stream that nobody else has moved, gets the answer of its plan.    *)
LEMMA AnswersAreExpected ==
  ASSUME SimInv PROVE RefusalNeedsAnother
<1> SUFFICES ASSUME NEW r \in Request, job[r].phase = "looking",
                    NEW e, e = Event(r),
                    ~ Overtaken(r, e.pole), e.pole \notin disturbed
             PROVE  Verdict(e) = e.expected
  BY DEF RefusalNeedsAnother
<1> DEFINE n == job[r].next
<1>1. TypesInv /\ PlansHold /\ QueueHolds /\ StreamHolds /\ SentHolds
  BY DEF SimInv
<1>2. up
  BY <1>1 DEF TypesInv, StoppedHolds, Idle
<1>3. n \in DOMAIN job[r].plan /\ e = job[r].plan[n] /\ n \in Nat \ {0}
  <2>1. n <= Len(job[r].plan) /\ n \in Nat \ {0} /\ job[r].plan \in Seq(Generated)
    BY <1>1 DEF TypesInv, JobsTyped, JobHolds, Job
  <2> QED BY <2>1 DEF Event
<1>4. /\ e \in Generated /\ e.pole \in Device /\ e.pole \in Pole /\ e.at \in Cursor
      /\ e.expected \in Admission
      /\ StreamTuple(e).pole = e.pole /\ StreamTuple(e).at = e.at
  BY <1>1, <1>3, PlannedEvent
<1>5. Reached(job[r], e.pole)
  BY DEF Overtaken, Reached
<1> DEFINE c == StreamCursor(e.pole)
<1>6. /\ c \in Cursor /\ \A t \in telemetry : t.pole = e.pole => ~ Before(c, t.at)
  BY <1>1, <1>2, <1>4, StreamBounds DEF StreamHolds
<1>7. /\ e.expected = "stale" => ~ Admitted(StreamTuple(e))
      /\ e.expected = "duplicate" => StreamTuple(e) \in telemetry
      /\ e.expected = "accepted" => Before(c, e.at)
  <2>1. EventSent(job[r], n)
    BY <1>1, <1>3 DEF SentHolds
  <2>2. ~ n < n
    BY <1>3
  <2> QED BY <1>3, <1>5, <2>1, <2>2 DEF EventSent
<1>8. CASE e.expected = "accepted"
  <2>1. StreamTuple(e) \notin telemetry
    BY <1>4, <1>6, <1>7, <1>8
  <2> QED BY <1>7, <1>8, <2>1 DEF Verdict
<1>9. CASE e.expected = "duplicate"
  BY <1>7, <1>9 DEF Verdict
<1>10. CASE e.expected = "stale"
  <2>1. PICK d : d = job[r].plan[n - 1]
    OBVIOUS
  <2>2. n > 1 /\ d.expected = "accepted" /\ d.pole = e.pole /\ Before(e.at, d.at)
    BY <1>1, <1>3, <1>10, <2>1 DEF PlansHold, PlanShape
  <2>3. n - 1 \in DOMAIN job[r].plan /\ n - 1 < n
    <3>1. job[r].plan \in Seq(Generated)
      BY <1>1, PlannedEvent
    <3> QED BY <1>3, <2>2, <3>1
  <2>4. d.at \in Cursor
    BY <1>1, <2>1, <2>3, PlannedEvent
  <2>5. ~ Before(c, d.at)
    <3>1. EventSent(job[r], n - 1)
      BY <1>1, <2>3 DEF SentHolds
    <3> QED BY <1>5, <2>1, <2>2, <2>3, <3>1 DEF EventSent
  <2>6. ~ Before(c, e.at)
    BY <1>4, <1>6, <2>2, <2>4, <2>5, BeforeIsOrder
  <2>7. StreamTuple(e) \notin telemetry
    BY <1>7, <1>10 DEF Admitted
  <2> QED BY <1>10, <2>6, <2>7 DEF Verdict
<1> QED BY <1>4, <1>8, <1>9, <1>10 DEF Admission

LEMMA SimulationHoldsInitially ==
  ASSUME Init PROVE SimInv
<1>1. TypesInv /\ PlansHold /\ StreamHolds
  BY TypesHoldInitially, PlansHoldInitially, StreamsHoldInitially
<1>2. QueueHolds
  BY DEF Init, QueueHolds
<1>3. \A r \in Request : job[r].plan = <<>>
  BY DEF Init, Idle
<1>4. SentHolds
  BY <1>3 DEF SentHolds
<1> QED BY <1>1, <1>2, <1>4 DEF SimInv

(* Spec => []RefusalNeedsAnother: the rejection that ends the server       *)
(* process is never of a lone simulation's own making.  Whatever the       *)
(* topology and however many run at once, an event gets the answer that    *)
(* its plan expects unless another simulation has planned for the pole     *)
(* since, or something else has moved its stream.                          *)
THEOREM LoneRunsAreAnswered == Spec => []RefusalNeedsAnother
<1>1. SimInv /\ [Next]_vars => SimInv'
  BY TypesAreKept, PlansAreKept, QueueIsKept, StreamsAreKept, SentIsKept DEF SimInv
<1> QED BY <1>1, SimulationHoldsInitially, AnswersAreExpected, PTL DEF Spec
=============================================================================
