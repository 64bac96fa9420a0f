---------------------------- MODULE RepliesProofs ----------------------------
(***************************************************************************)
(* Proofs about Replies: the types, that a measure is no older than the    *)
(* reads that found nothing account for, and that the measures are read in *)
(* the order of their probes.  The argument counts: the replies stand in   *)
(* the order of the requests, each at its Place, and every probe reads     *)
(* twice, so that a reply is late by the reads that found nothing.         *)
(***************************************************************************)
EXTENDS Replies, TLAPS

\* The bounds are naturals.
LEMMA Bounds ==
    /\ PollMax \in Nat /\ OffMax \in Nat /\ MaxProbes \in Nat
    /\ Stages \in Nat /\ Stages > 0
BY LimitsAssumption

\* A reply has a kind, a probe and a level; a measure is at an even place.
LEMMA Reply ==
    ASSUME NEW f \in Replied
    PROVE  /\ f.kind \in {"ack", "fdt"} /\ f.probe \in 1 .. MaxProbes
           /\ f.level \in Levels /\ Place(f) \in Nat
           /\ f.kind = "fdt" => Place(f) = 2 * f.probe
<1>1. PICK m \in 1 .. MaxProbes : f = Ack(m) \/ \E l \in Levels : f = Fdt(m, l)
    BY DEF Replied
<1>2. CASE f = Ack(m)
    BY <1>1, <1>2, Bounds DEF Ack, Levels, Place
<1>3. CASE \E l \in Levels : f = Fdt(m, l)
    BY <1>1, <1>3, Bounds DEF Fdt, Place
<1> QED BY <1>1, <1>2, <1>3

\* What remains of a queue.
LEMMA Rest ==
    ASSUME NEW S, NEW q \in Seq(S), q # <<>>
    PROVE  /\ Head(q) \in S /\ Tail(q) \in Seq(S) /\ Len(q) > 0
           /\ Len(Tail(q)) = Len(q) - 1 /\ q[1] = Head(q) /\ 1 \in DOMAIN q
           /\ \A i \in DOMAIN Tail(q) :
                 i \in Nat /\ i > 0 /\ i + 1 \in DOMAIN q /\ Tail(q)[i] = q[i + 1]
OBVIOUS

\* A queue with one more reply, or two.
LEMMA Longer ==
    ASSUME NEW S, NEW q \in Seq(S), NEW a \in S, NEW b \in S
    PROVE  /\ Append(q, a) \in Seq(S) /\ Len(Append(q, a)) = Len(q) + 1
           /\ Append(q, a)[Len(q) + 1] = a
           /\ \A i \in DOMAIN Append(q, a) :
                 \/ i \in DOMAIN q /\ Append(q, a)[i] = q[i]
                 \/ i = Len(q) + 1
           /\ q \o <<a, b>> \in Seq(S) /\ Len(q \o <<a, b>>) = Len(q) + 2
           /\ (q \o <<a, b>>)[Len(q) + 1] = a /\ (q \o <<a, b>>)[Len(q) + 2] = b
           /\ \A i \in DOMAIN (q \o <<a, b>>) :
                 \/ i \in DOMAIN q /\ (q \o <<a, b>>)[i] = q[i]
                 \/ i = Len(q) + 1 \/ i = Len(q) + 2
OBVIOUS

\* The numbers that the invariant compares.
LEMMA Numbers ==
    ASSUME TypeOK
    PROVE  /\ n \in Nat /\ missed \in Nat /\ Reads \in Int /\ read.probe \in Nat
           /\ Len(bus) \in Nat /\ Len(due) \in Nat /\ read.ok \in BOOLEAN
           /\ DOMAIN bus = 1 .. Len(bus) /\ DOMAIN due = 1 .. Len(due)
           /\ \A i \in DOMAIN bus : bus[i] \in Replied /\ Place(bus[i]) \in Nat
           /\ \A i \in DOMAIN due : due[i] \in Replied /\ Place(due[i]) \in Nat
<1>1. bus \in Seq(Replied) /\ due \in Seq(Replied)
    BY DEF TypeOK
<1>2. \A i \in DOMAIN bus : bus[i] \in Replied
    BY <1>1
<1>3. \A i \in DOMAIN due : due[i] \in Replied
    BY <1>1
<1> QED BY <1>1, <1>2, <1>3, Reply, Bounds DEF TypeOK, Reads

-----------------------------------------------------------------------------
\* The initial states satisfy the invariant.
LEMMA InitIInv == Init => IInv
<1> SUFFICES ASSUME Init PROVE IInv
    OBVIOUS
<1>1. bus = <<>> /\ due = <<>>
    BY DEF Init
<1>2. <<>> \in Seq(Replied) /\ Len(<<>>) = 0
    OBVIOUS
<1>3. TypeOK
    <2>1. bus \in Seq(Replied) /\ due \in Seq(Replied)
        BY <1>1, <1>2
    <2>2. read \in [ok : BOOLEAN, probe : 0 .. MaxProbes]
        BY Bounds DEF Init, NoRead
    <2>3. lost \in BOOLEAN /\ held \in BOOLEAN
        BY DEF Init
    <2> QED BY <2>1, <2>2, <2>3, Bounds DEF Init, TypeOK, Probing, Levels
<1>4. Reads = 0 /\ n = 0 /\ missed = 0 /\ stage < Stages /\ ~read.ok /\ read.probe = 0
    BY Bounds DEF Init, Reads, NoRead
<1>5. Queues
    <2>1. DOMAIN bus = {} /\ DOMAIN due = {}
        BY <1>1
    <2> QED BY <1>1, <1>2, <1>4, <2>1 DEF Queues, InOrder, Explained
<1> QED BY <1>3, <1>4, <1>5 DEF IInv, FreshEnough

-----------------------------------------------------------------------------
(***************************************************************************)
(* The queues                                                              *)
(***************************************************************************)
\* A read takes the head.
LEMMA TakeHead ==
    ASSUME TypeOK, Queues, bus # <<>>, bus' = Tail(bus), UNCHANGED <<n, due, missed>>,
           Reads' = Reads + 1, read'.probe \in 0 .. n, 2 * read'.probe <= Place(Head(bus))
    PROVE  Queues'
<1> DEFINE r == read'.probe
<1>0. r \in Nat /\ 2 * r <= Place(bus[1]) /\ Len(bus') = Len(bus) - 1 /\ Len(bus) > 0
      /\ 1 \in DOMAIN bus
      /\ \A i \in DOMAIN bus' : i \in Nat /\ i > 0 /\ i + 1 \in DOMAIN bus /\ bus'[i] = bus[i + 1]
    BY Rest DEF TypeOK
<1>1. InOrder(bus) /\ InOrder(due) /\ Explained(bus, 0) /\ Explained(due, Len(bus))
      /\ \A i \in DOMAIN bus, j \in DOMAIN due : Place(bus[i]) < Place(due[j])
    BY DEF Queues
<1>2. InOrder(bus)'
    <2>1. ASSUME NEW i \in DOMAIN bus'
          PROVE  2 * r < Place(bus'[i]) /\ Place(bus'[i]) <= 2 * n
        <3>1. i + 1 \in DOMAIN bus /\ 1 < i + 1 /\ bus'[i] = bus[i + 1]
            BY <1>0
        <3>2. Place(bus[1]) < Place(bus[i + 1]) /\ Place(bus[i + 1]) <= 2 * n
            BY <1>0, <1>1, <3>1 DEF InOrder
        <3>3. Place(bus[1]) \in Nat /\ Place(bus[i + 1]) \in Nat
            BY <1>0, <3>1, Numbers
        <3> QED BY <1>0, <3>1, <3>2, <3>3
    <2>2. ASSUME NEW i \in DOMAIN bus', NEW j \in DOMAIN bus', i < j
          PROVE  Place(bus'[i]) < Place(bus'[j])
        BY <1>0, <1>1, <2>2, Numbers DEF InOrder
    <2> QED BY <2>1, <2>2 DEF InOrder, Place
<1>3. InOrder(due)'
    <2>1. ASSUME NEW i \in DOMAIN due PROVE 2 * r < Place(due[i])
        <3>1. Place(bus[1]) < Place(due[i])
            BY <1>0, <1>1
        <3> QED BY <1>0, <3>1, Numbers
    <2> QED BY <1>1, <2>1 DEF InOrder, Place
<1>4. \A i \in DOMAIN bus', j \in DOMAIN due : Place(bus'[i]) < Place(due[j])
    BY <1>0, <1>1
<1>5. Explained(bus, 0)' /\ Explained(due, Len(bus))'
    <2>1. ASSUME NEW i \in DOMAIN bus' PROVE Reads' + 0 + i <= Place(bus'[i]) + missed
        <3>1. Reads + 0 + (i + 1) <= Place(bus[i + 1]) + missed
            BY <1>0, <1>1 DEF Explained
        <3> QED BY <1>0, <3>1, Numbers
    <2>2. ASSUME NEW i \in DOMAIN due PROVE Reads' + Len(bus') + i <= Place(due[i]) + missed
        <3>1. Reads + Len(bus) + i <= Place(due[i]) + missed
            BY <1>1 DEF Explained
        <3> QED BY <1>0, <3>1, Numbers
    <2> QED BY <2>1, <2>2 DEF Explained, Place
<1>6. Reads' + Len(bus') + Len(due') <= 2 * n' + missed'
    BY <1>0, Numbers DEF Queues
<1> QED BY <1>2, <1>3, <1>4, <1>5, <1>6 DEF Queues, Place

\* A read finds nothing.
LEMMA FindNothing ==
    ASSUME TypeOK, Queues, bus = <<>>, UNCHANGED <<n, due, bus>>, missed' = missed + 1,
           Reads' = Reads + 1, read'.probe = read.probe
    PROVE  Queues'
<1>1. Explained(due, Len(bus)) /\ Reads + Len(bus) + Len(due) <= 2 * n + missed
      /\ InOrder(bus) /\ InOrder(due)
    BY DEF Queues
<1>2. DOMAIN bus = {}
    OBVIOUS
<1>3. Explained(bus, 0)' /\ Explained(due, Len(bus))'
    <2>1. ASSUME NEW i \in DOMAIN due PROVE Reads' + Len(bus) + i <= Place(due[i]) + missed'
        <3>1. Reads + Len(bus) + i <= Place(due[i]) + missed
            BY <1>1 DEF Explained
        <3> QED BY <3>1, Numbers
    <2> QED BY <1>2, <2>1 DEF Explained, Place
<1>4. InOrder(bus)' /\ InOrder(due)'
    BY <1>1 DEF InOrder, Place
<1> QED BY <1>1, <1>2, <1>3, <1>4, Numbers DEF Queues, Place

\* Neither the queues nor the counts change.
LEMMA QueuesStay ==
    ASSUME Queues, UNCHANGED <<n, due, bus, missed>>, Reads' = Reads, read'.probe = read.probe
    PROVE  Queues'
BY DEF Queues, InOrder, Explained, Place

\* The queues' part of a type.
LEMMA QueueTypes ==
    ASSUME TypeOK
    PROVE  /\ bus \in Seq(Replied) /\ due \in Seq(Replied)
           /\ bus # <<>> => Head(bus) \in Replied /\ Tail(bus) \in Seq(Replied)
           /\ due # <<>> => /\ Head(due) \in Replied /\ Tail(due) \in Seq(Replied)
                            /\ Append(bus, Head(due)) \in Seq(Replied)
BY Rest DEF TypeOK

\* A reply gets to the bus.
LEMMA ArriveQueues ==
    ASSUME TypeOK, Queues, Arrive
    PROVE  Queues'
<1> DEFINE b == Append(bus, Head(due))
<1>1. due # <<>> /\ bus' = b /\ due' = Tail(due) /\ UNCHANGED <<n, missed, read>>
    BY DEF Arrive
<1>2. Reads' = Reads
    BY DEF Arrive, Reads
<1>3. /\ Len(b) = Len(bus) + 1 /\ b[Len(bus) + 1] = due[1]
      /\ DOMAIN b = 1 .. (Len(bus) + 1) /\ Len(bus) \in Nat
      /\ \A i \in DOMAIN b : /\ i \in Nat
                            /\ \/ i \in DOMAIN bus /\ b[i] = bus[i]
                               \/ i = Len(bus) + 1 /\ b[i] = due[1]
    <2>1. bus \in Seq(Replied) /\ Head(due) \in Replied /\ due[1] = Head(due) /\ b \in Seq(Replied)
        BY <1>1, QueueTypes, Rest
    <2>2. /\ Len(b) = Len(bus) + 1 /\ b[Len(bus) + 1] = Head(due)
          /\ \A i \in DOMAIN b :
                \/ i \in DOMAIN bus /\ b[i] = bus[i]
                \/ i = Len(bus) + 1
        BY <2>1, Longer
    <2>3. DOMAIN b = 1 .. (Len(bus) + 1) /\ Len(bus) \in Nat /\ DOMAIN bus = 1 .. Len(bus)
        BY <2>1, <2>2
    <2> HIDE DEF b
    <2>4. ASSUME NEW i \in DOMAIN b
          PROVE  /\ i \in Nat
                 /\ \/ i \in DOMAIN bus /\ b[i] = bus[i]
                    \/ i = Len(bus) + 1 /\ b[i] = due[1]
        <3>1. i \in Nat
            BY <2>3
        <3>2. CASE i \in DOMAIN bus /\ b[i] = bus[i]
            BY <3>1, <3>2
        <3>3. CASE i = Len(bus) + 1
            BY <2>1, <2>2, <3>1, <3>3
        <3> QED BY <2>2, <3>2, <3>3
    <2> QED BY <2>1, <2>2, <2>3, <2>4
<1>4. /\ Len(due') = Len(due) - 1 /\ 1 \in DOMAIN due
      /\ \A i \in DOMAIN due' : i \in Nat /\ i > 0 /\ 1 < i + 1 /\ i + 1 \in DOMAIN due
                               /\ due'[i] = due[i + 1]
    BY <1>1, QueueTypes, Rest
<1> HIDE DEF b
<1>5. InOrder(bus) /\ InOrder(due) /\ Explained(bus, 0) /\ Explained(due, Len(bus))
      /\ \A i \in DOMAIN bus, j \in DOMAIN due : Place(bus[i]) < Place(due[j])
    BY DEF Queues
<1>6. InOrder(b)
    <2>1. ASSUME NEW i \in DOMAIN b
          PROVE  2 * read.probe < Place(b[i]) /\ Place(b[i]) <= 2 * n
        BY <1>3, <1>4, <1>5 DEF InOrder
    <2>2. ASSUME NEW i \in DOMAIN b, NEW j \in DOMAIN b, i < j
          PROVE  Place(b[i]) < Place(b[j])
        <3>1. i \in DOMAIN bus /\ b[i] = bus[i]
            BY <1>3, <2>2
        <3>2. CASE j \in DOMAIN bus /\ b[j] = bus[j]
            BY <3>1, <3>2, <1>5, <2>2 DEF InOrder
        <3>3. CASE b[j] = due[1]
            BY <3>1, <3>3, <1>4, <1>5
        <3> QED BY <3>2, <3>3, <1>3
    <2> QED BY <2>1, <2>2 DEF InOrder
<1>7. InOrder(due')
    <2>1. ASSUME NEW i \in DOMAIN due'
          PROVE  2 * read.probe < Place(due'[i]) /\ Place(due'[i]) <= 2 * n
        BY <1>4, <1>5 DEF InOrder
    <2>2. ASSUME NEW i \in DOMAIN due', NEW j \in DOMAIN due', i < j
          PROVE  Place(due'[i]) < Place(due'[j])
        <3>1. i + 1 \in DOMAIN due /\ j + 1 \in DOMAIN due /\ i + 1 < j + 1
              /\ due'[i] = due[i + 1] /\ due'[j] = due[j + 1]
            BY <1>4, <2>2
        <3> QED BY <3>1, <1>5 DEF InOrder
    <2> QED BY <2>1, <2>2 DEF InOrder
<1>8. \A i \in DOMAIN b, j \in DOMAIN due' : Place(b[i]) < Place(due'[j])
    <2> SUFFICES ASSUME NEW i \in DOMAIN b, NEW j \in DOMAIN due' PROVE Place(b[i]) < Place(due'[j])
        OBVIOUS
    <2>1. j + 1 \in DOMAIN due /\ due'[j] = due[j + 1] /\ 1 < j + 1
        BY <1>4
    <2>2. CASE i \in DOMAIN bus /\ b[i] = bus[i]
        BY <2>1, <2>2, <1>5
    <2>3. CASE b[i] = due[1]
        BY <2>1, <2>3, <1>4, <1>5 DEF InOrder
    <2> QED BY <2>2, <2>3, <1>3
<1>9. Explained(b, 0)
    <2> SUFFICES ASSUME NEW i \in DOMAIN b PROVE Reads + 0 + i <= Place(b[i]) + missed
        BY DEF Explained
    <2>1. CASE i \in DOMAIN bus /\ b[i] = bus[i]
        BY <2>1, <1>5 DEF Explained
    <2>2. CASE i = Len(bus) + 1 /\ b[i] = due[1]
        <3>1. Reads + Len(bus) + 1 <= Place(due[1]) + missed
            BY <1>4, <1>5 DEF Explained
        <3>2. Place(due[1]) \in Nat
            BY <1>4, Numbers
        <3> QED BY <2>2, <3>1, <3>2, Numbers
    <2> QED BY <2>1, <2>2, <1>3
<1>10. Explained(due', Len(b))
    <2> SUFFICES ASSUME NEW i \in DOMAIN due' PROVE Reads + Len(b) + i <= Place(due'[i]) + missed
        BY DEF Explained
    <2>1. i \in Nat /\ i + 1 \in DOMAIN due /\ due'[i] = due[i + 1]
        BY <1>4
    <2>2. Reads + Len(bus) + (i + 1) <= Place(due[i + 1]) + missed
        BY <2>1, <1>5 DEF Explained
    <2>3. Place(due[i + 1]) \in Nat
        BY <2>1, Numbers
    <2> QED BY <1>3, <2>1, <2>2, <2>3, Numbers
<1>11. Reads + Len(b) + Len(due') <= 2 * n + missed
    BY <1>3, <1>4, Numbers DEF Queues
<1> QED BY <1>1, <1>2, <1>6, <1>7, <1>8, <1>9, <1>10, <1>11
        DEF Queues, InOrder, Explained, Place

\* A reply is lost: those behind it are late by one read less.
LEMMA LoseQueues ==
    ASSUME TypeOK, Queues, Lose
    PROVE  Queues'
<1>1. due # <<>> /\ due' = Tail(due) /\ UNCHANGED <<n, bus, missed, read>>
    BY DEF Lose
<1>2. Reads' = Reads
    BY DEF Lose, Reads
<1>3. /\ Len(due') = Len(due) - 1
      /\ \A i \in DOMAIN due' : i \in Nat /\ i + 1 \in DOMAIN due /\ due'[i] = due[i + 1]
    BY <1>1, QueueTypes, Rest
<1>4. InOrder(bus) /\ InOrder(due) /\ Explained(bus, 0) /\ Explained(due, Len(bus))
      /\ \A i \in DOMAIN bus, j \in DOMAIN due : Place(bus[i]) < Place(due[j])
    BY DEF Queues
<1>5. InOrder(due')
    <2>1. ASSUME NEW i \in DOMAIN due'
          PROVE  2 * read.probe < Place(due'[i]) /\ Place(due'[i]) <= 2 * n
        BY <1>3, <1>4 DEF InOrder
    <2>2. ASSUME NEW i \in DOMAIN due', NEW j \in DOMAIN due', i < j
          PROVE  Place(due'[i]) < Place(due'[j])
        <3>1. i + 1 \in DOMAIN due /\ j + 1 \in DOMAIN due /\ i + 1 < j + 1
              /\ due'[i] = due[i + 1] /\ due'[j] = due[j + 1]
            BY <1>3, <2>2
        <3> QED BY <3>1, <1>4 DEF InOrder
    <2> QED BY <2>1, <2>2 DEF InOrder
<1>6. \A i \in DOMAIN bus, j \in DOMAIN due' : Place(bus[i]) < Place(due'[j])
    BY <1>3, <1>4
<1>7. Explained(due', Len(bus))
    <2> SUFFICES ASSUME NEW i \in DOMAIN due' PROVE Reads + Len(bus) + i <= Place(due'[i]) + missed
        BY DEF Explained
    <2>1. i \in Nat /\ i + 1 \in DOMAIN due /\ due'[i] = due[i + 1]
        BY <1>3
    <2>2. Reads + Len(bus) + (i + 1) <= Place(due[i + 1]) + missed
        BY <2>1, <1>4 DEF Explained
    <2>3. Place(due[i + 1]) \in Nat
        BY <2>1, Numbers
    <2> QED BY <2>1, <2>2, <2>3, Numbers
<1>8. Reads + Len(bus) + Len(due') <= 2 * n + missed
    BY <1>3, Numbers DEF Queues
<1> QED BY <1>1, <1>2, <1>4, <1>5, <1>6, <1>7, <1>8 DEF Queues, InOrder, Explained, Place

\* A probe is sent: its two replies come last.
LEMMA SendQueues ==
    ASSUME TypeOK, Queues, SendProbe
    PROVE  Queues'
<1> DEFINE a == Ack(n + 1)
           f == Fdt(n + 1, finger)
           d == due \o <<a, f>>
<1>0. n \in Nat /\ missed \in Nat /\ Len(bus) \in Nat /\ Len(due) \in Nat /\ read.probe \in Nat
    BY Numbers
<1>1. n' = n + 1 /\ due' = d /\ UNCHANGED <<bus, missed, read>> /\ n + 1 \in 1 .. MaxProbes
    BY Bounds DEF SendProbe, TypeOK
<1>2. Reads' = Reads /\ Reads = 2 * n
    BY DEF SendProbe, Reads, TypeOK
<1>3. a \in Replied /\ f \in Replied /\ Place(a) = 2 * n + 1 /\ Place(f) = 2 * n + 2
    <2>1. a \in Replied /\ f \in Replied
        BY <1>1 DEF Replied, TypeOK
    <2>2. Place(a) = 2 * (n + 1) - 1 /\ Place(f) = 2 * (n + 1)
        BY DEF Place, Ack, Fdt
    <2> QED BY <2>1, <2>2 DEF TypeOK
<1> HIDE DEF a, f
<1>4. /\ Len(d) = Len(due) + 2 /\ DOMAIN d = 1 .. (Len(due) + 2)
      /\ \A i \in DOMAIN d : /\ i \in Nat
                            /\ \/ i \in DOMAIN due /\ d[i] = due[i] /\ i <= Len(due)
                               \/ i = Len(due) + 1 /\ d[i] = a
                               \/ i = Len(due) + 2 /\ d[i] = f
    <2>1. /\ d \in Seq(Replied) /\ Len(d) = Len(due) + 2
          /\ d[Len(due) + 1] = a /\ d[Len(due) + 2] = f
          /\ \A i \in DOMAIN d : \/ i \in DOMAIN due /\ d[i] = due[i]
                                \/ i = Len(due) + 1 \/ i = Len(due) + 2
        BY <1>3, QueueTypes, Longer
    <2> HIDE DEF d
    <2>2. DOMAIN d = 1 .. (Len(due) + 2) /\ DOMAIN due = 1 .. Len(due) /\ Len(due) \in Nat
        BY <2>1, QueueTypes
    <2>3. ASSUME NEW i \in DOMAIN d
          PROVE  /\ i \in Nat
                 /\ \/ i \in DOMAIN due /\ d[i] = due[i] /\ i <= Len(due)
                    \/ i = Len(due) + 1 /\ d[i] = a
                    \/ i = Len(due) + 2 /\ d[i] = f
        <3>1. i \in Nat
            BY <2>2
        <3>2. CASE i \in DOMAIN due /\ d[i] = due[i]
            BY <2>2, <3>1, <3>2
        <3>3. CASE i = Len(due) + 1
            BY <2>1, <3>1, <3>3
        <3>4. CASE i = Len(due) + 2
            BY <2>1, <3>1, <3>4
        <3> QED BY <2>1, <3>2, <3>3, <3>4
    <2> QED BY <2>1, <2>2, <2>3
<1> HIDE DEF d
<1>5. InOrder(bus) /\ InOrder(due) /\ Explained(bus, 0) /\ Explained(due, Len(bus))
      /\ \A i \in DOMAIN bus, j \in DOMAIN due : Place(bus[i]) < Place(due[j])
    BY DEF Queues
<1>6. \A i \in DOMAIN bus : Place(bus[i]) \in Nat /\ Place(bus[i]) <= 2 * n
    BY <1>5, Numbers DEF InOrder
<1>7. \A i \in DOMAIN due : Place(due[i]) \in Nat /\ Place(due[i]) <= 2 * n
    BY <1>5, Numbers DEF InOrder
<1>8. InOrder(bus)'
    <2>1. \A i \in DOMAIN bus : Place(bus[i]) <= 2 * (n + 1)
        BY <1>6, Numbers
    <2> QED BY <1>1, <1>5, <2>1 DEF InOrder, Place
<1>9. InOrder(due)'
    <2>0. 2 * read.probe <= 2 * n
        <3>1. read.probe <= n
            BY DEF Queues
        <3> QED BY <3>1, Numbers
    <2>1. ASSUME NEW i \in DOMAIN d
          PROVE  2 * read.probe < Place(d[i]) /\ Place(d[i]) <= 2 * (n + 1)
        <3>1. CASE i \in DOMAIN due /\ d[i] = due[i]
            BY <3>1, <1>0, <1>5, <1>7 DEF InOrder
        <3>2. CASE d[i] = a
            BY <3>2, <1>0, <1>3, <2>0
        <3>3. CASE d[i] = f
            BY <3>3, <1>0, <1>3, <2>0
        <3> QED BY <1>4, <3>1, <3>2, <3>3
    <2>2. ASSUME NEW i \in DOMAIN d, NEW j \in DOMAIN d, i < j
          PROVE  Place(d[i]) < Place(d[j])
        <3>1. CASE j \in DOMAIN due /\ d[j] = due[j] /\ j <= Len(due)
            <4>1. i \in DOMAIN due /\ d[i] = due[i]
                BY <1>4, <2>2, <3>1, Numbers
            <4> QED BY <3>1, <4>1, <1>5, <2>2 DEF InOrder
        <3>2. CASE j = Len(due) + 1 /\ d[j] = a
            <4>1. i \in DOMAIN due /\ d[i] = due[i]
                BY <1>4, <2>2, <3>2, Numbers
            <4> QED BY <3>2, <4>1, <1>3, <1>7, Numbers
        <3>3. CASE j = Len(due) + 2 /\ d[j] = f
            <4>1. (i \in DOMAIN due /\ d[i] = due[i]) \/ d[i] = a
                BY <1>4, <2>2, <3>3, Numbers
            <4> QED BY <3>3, <4>1, <1>3, <1>7, Numbers
        <3> QED BY <1>4, <3>1, <3>2, <3>3
    <2> QED BY <1>1, <2>1, <2>2 DEF InOrder, Place
<1>10. \A i \in DOMAIN bus, j \in DOMAIN d : Place(bus[i]) < Place(d[j])
    BY <1>3, <1>4, <1>5, <1>6, Numbers
<1>11. Explained(bus, 0)'
    BY <1>1, <1>2, <1>5 DEF Explained, Place
<1>12. Explained(due, Len(bus))'
    <2>1. ASSUME NEW i \in DOMAIN d PROVE Reads + Len(bus) + i <= Place(d[i]) + missed
        <3>1. CASE i \in DOMAIN due /\ d[i] = due[i]
            BY <3>1, <1>5 DEF Explained
        <3>2. 2 * n + Len(bus) + Len(due) <= 2 * n + missed
            BY <1>2 DEF Queues
        <3>3. CASE i = Len(due) + 1 /\ d[i] = a
            BY <3>2, <3>3, <1>0, <1>2, <1>3
        <3>4. CASE i = Len(due) + 2 /\ d[i] = f
            BY <3>2, <3>4, <1>0, <1>2, <1>3
        <3> QED BY <1>4, <3>1, <3>3, <3>4
    <2> QED BY <1>1, <1>2, <2>1 DEF Explained, Place
<1>13. Reads' + Len(bus') + Len(due') <= 2 * n' + missed'
    <2>1. Reads + Len(bus) + Len(due) <= 2 * n + missed
        BY DEF Queues
    <2> QED BY <1>0, <1>1, <1>2, <1>4, <2>1
<1>14. read'.probe <= n'
    <2>1. read.probe <= n
        BY DEF Queues
    <2> QED BY <1>1, <2>1, Numbers
<1> QED BY <1>1, <1>8, <1>9, <1>10, <1>11, <1>12, <1>13, <1>14 DEF Queues, Place

\* A drain reads all that has come; the counts start again when nothing is due.
LEMMA DrainQueues ==
    ASSUME TypeOK, Queues, Drain, step = "send", UNCHANGED step
    PROVE  Queues'
<1>0. n \in Nat /\ missed \in Nat /\ Len(bus) \in Nat /\ Len(due) \in Nat
    BY Numbers
<1>1. bus' = <<>> /\ Len(bus') = 0 /\ read'.probe = 0
    BY DEF Drain, NoRead
<1>2. DOMAIN bus' = {}
    BY <1>1
<1>3. CASE due' = <<>>
    <2>1. n' = 0 /\ missed' = 0 /\ Len(due') = 0
        BY <1>3 DEF Drain
    <2>2. DOMAIN due' = {}
        BY <1>3
    <2>3. Reads' = 0
        BY <2>1 DEF Reads
    <2> QED BY <1>1, <1>2, <2>1, <2>2, <2>3 DEF Queues, InOrder, Explained
<1>4. CASE due' # <<>>
    <2>1. due' = due /\ UNCHANGED <<n, missed>>
        BY <1>4 DEF Drain
    <2>2. Reads' = Reads /\ Reads = 2 * n
        BY <2>1 DEF Reads
    <2>3. InOrder(due) /\ Explained(due, Len(bus)) /\ Reads + Len(bus) + Len(due) <= 2 * n + missed
          /\ 2 * read.probe \in Nat
        BY Numbers DEF Queues
    <2>4. \A i \in DOMAIN due : i \in Nat /\ Place(due[i]) \in Nat /\ 0 < Place(due[i])
        <3>1. \A i \in DOMAIN due : i \in Nat /\ Place(due[i]) \in Nat
            BY Numbers
        <3> QED BY <3>1, <2>3 DEF InOrder
    <2>5. InOrder(due)' /\ InOrder(bus)'
        BY <1>1, <1>2, <2>1, <2>3, <2>4 DEF InOrder, Place
    <2>6. Explained(due, Len(bus))'
        <3>1. ASSUME NEW i \in DOMAIN due PROVE Reads + 0 + i <= Place(due[i]) + missed
            <4>1. Reads + Len(bus) + i <= Place(due[i]) + missed
                BY <2>3 DEF Explained
            <4> QED BY <1>0, <2>2, <2>4, <4>1
        <3> QED BY <1>1, <2>1, <2>2, <3>1 DEF Explained, Place
    <2>7. Reads' + Len(bus') + Len(due') <= 2 * n' + missed'
        BY <1>0, <1>1, <2>1, <2>2, <2>3
    <2> QED BY <1>0, <1>1, <1>2, <2>1, <2>5, <2>6, <2>7 DEF Queues, Explained
<1> QED BY <1>3, <1>4

-----------------------------------------------------------------------------
(***************************************************************************)
(* The steps                                                               *)
(***************************************************************************)
\* What the poll makes of an answer.
LEMMA HandleType ==
    ASSUME TypeOK, phase = "on" => stage < Stages, NEW level, Handle(level), UNCHANGED stage
    PROVE  /\ phase \in Probing /\ phase' \in Probing \cup {"capture", "done", "failed"}
           /\ polls' \in Nat /\ view' \in 0 .. 2 /\ held' \in BOOLEAN
           /\ phase' = "on" \/ (phase' = "capture" /\ view' = 1) => stage' < Stages
<1>0. polls \in Nat /\ polls + 1 \in Nat /\ view \in 0 .. 2 /\ held \in BOOLEAN /\ stage \in 0 .. Stages
    BY DEF TypeOK
<1>1. CASE WaitOn(level)
    <2>1. CASE level = "down"
        BY <1>0, <1>1, <2>1 DEF WaitOn, Probing
    <2>2. CASE level # "down"
        BY <1>0, <1>1, <2>2 DEF WaitOn, Probing
    <2> QED BY <2>1, <2>2
<1>2. CASE WaitOff(level)
    <2>1. CASE level = "none" \/ polls + 1 > OffMax
        <3>1. phase' = (IF stage >= Stages THEN "done" ELSE "on") /\ polls' = 0 /\ held' = TRUE
            BY <1>2, <2>1 DEF WaitOff
        <3>2. phase' = "on" => stage < Stages
            BY <1>0, <3>1, Bounds
        <3> QED BY <1>0, <1>2, <3>1, <3>2 DEF WaitOff, Probing
    <2>2. CASE ~(level = "none" \/ polls + 1 > OffMax)
        BY <1>0, <1>2, <2>2 DEF WaitOff, Probing
    <2> QED BY <2>1, <2>2
<1>3. CASE Present(level)
    <2>1. CASE phase = "again" /\ level = "down"
        BY <1>0, <1>3, <2>1 DEF Present, Probing
    <2>2. CASE ~(phase = "again" /\ level = "down")
        BY <1>0, <1>3, <2>2 DEF Present, Probing
    <2> QED BY <2>1, <2>2
<1> QED BY <1>1, <1>2, <1>3 DEF Handle

\* The answer of a probe: its queues, and what it read.
LEMMA AnswerQueues ==
    ASSUME IInv, ReadPayload
    PROVE  /\ Queues' /\ FreshEnough' /\ bus' \in Seq(Replied) /\ missed' \in Nat
           /\ read' \in [ok : BOOLEAN, probe : 0 .. MaxProbes]
           /\ read'.ok => read.probe < read'.probe
           /\ \E level : Handle(level)
<1>0. /\ TypeOK /\ Queues /\ step = "payload" /\ step' = "send" /\ UNCHANGED <<n, due>>
      /\ n \in 0 .. MaxProbes /\ n \in Nat /\ missed \in Nat /\ read.probe \in 0 .. n
      /\ read \in [ok : BOOLEAN, probe : 0 .. MaxProbes]
    BY Numbers DEF IInv, ReadPayload, Queues, TypeOK
<1>1. Reads = 2 * n - 1 /\ Reads' = 2 * n /\ Reads' = Reads + 1
    BY <1>0 DEF Reads
<1>2. CASE Missing
    <2>1. read' = [read EXCEPT !.ok = FALSE] /\ missed' = missed + 1 /\ bus = <<>> /\ UNCHANGED bus
        BY <1>2 DEF Missing
    <2>2. read'.probe = read.probe /\ read'.ok = FALSE /\ read' \in [ok : BOOLEAN, probe : 0 .. MaxProbes]
        BY <1>0, <2>1
    <2>3. Queues'
        BY <1>0, <1>1, <2>1, <2>2, FindNothing
    <2> QED BY <1>0, <1>2, <2>1, <2>2, <2>3, QueueTypes DEF Missing, FreshEnough
<1>3. CASE TooShort
    <2>1. read' = [read EXCEPT !.ok = FALSE] /\ bus # <<>> /\ bus' = Tail(bus) /\ UNCHANGED missed
        BY <1>3 DEF TooShort
    <2>2. read'.probe = read.probe /\ read'.ok = FALSE /\ read' \in [ok : BOOLEAN, probe : 0 .. MaxProbes]
        BY <1>0, <2>1
    <2>3. 2 * read.probe <= Place(Head(bus))
        <3>1. 1 \in DOMAIN bus /\ bus[1] = Head(bus) /\ Place(bus[1]) \in Nat
            BY <1>0, <2>1, QueueTypes, Rest, Numbers
        <3>2. 2 * read.probe < Place(bus[1])
            BY <1>0, <3>1 DEF Queues, InOrder
        <3> QED BY <1>0, <3>1, <3>2
    <2>4. Queues'
        BY <1>0, <1>1, <2>1, <2>2, <2>3, TakeHead
    <2> QED BY <1>0, <1>3, <2>1, <2>2, <2>4, QueueTypes DEF TooShort, FreshEnough
<1>4. CASE Measure
    <2> DEFINE h == Head(bus)
    <2>1. /\ bus # <<>> /\ bus' = Tail(bus) /\ UNCHANGED missed /\ h.kind = "fdt"
          /\ read' = [ok |-> TRUE, probe |-> h.probe]
        BY <1>4 DEF Measure
    <2>2. 1 \in DOMAIN bus /\ bus[1] = h /\ h \in Replied
        BY <1>0, <2>1, QueueTypes, Rest
    <2>3. Place(h) = 2 * h.probe /\ h.probe \in 1 .. MaxProbes /\ Place(h) \in Nat
        BY <2>1, <2>2, Reply
    <2> HIDE DEF h
    <2>4. 2 * read.probe < Place(h) /\ Place(h) <= 2 * n
        BY <1>0, <2>2 DEF Queues, InOrder
    <2>5. Reads + 0 + 1 <= Place(h) + missed
        BY <1>0, <2>2 DEF Queues, Explained
    <2>6. read'.probe = h.probe /\ read'.ok = TRUE /\ h.probe \in 0 .. n /\ read.probe < h.probe
          /\ read' \in [ok : BOOLEAN, probe : 0 .. MaxProbes]
        BY <1>0, <2>1, <2>3, <2>4
    <2>7. Queues'
        BY <1>0, <1>1, <2>1, <2>3, <2>6, TakeHead DEF h
    <2>8. FreshEnough'
        <3>1. 2 * (n - h.probe) <= missed
            BY <1>0, <1>1, <2>3, <2>5
        <3>2. 2 * (n' - read'.probe) <= missed' + 0
            BY <1>0, <2>1, <2>3, <2>6, <3>1
        <3> QED BY <1>0, <3>2 DEF FreshEnough
    <2>9. Handle(Head(bus).level)
        BY <1>4 DEF Measure
    <2> QED BY <1>0, <2>1, <2>6, <2>7, <2>8, <2>9, QueueTypes
<1> QED BY <1>2, <1>3, <1>4 DEF ReadPayload

\* A step keeps the invariant.
LEMMA NextIInv == IInv /\ [Next]_vars => IInv'
<1> SUFFICES ASSUME IInv, [Next]_vars PROVE IInv'
    OBVIOUS
<1> DEFINE Room == phase = "on" \/ (phase = "capture" /\ view = 1) => stage < Stages
<1>0. TypeOK /\ FreshEnough /\ Queues /\ Room
    BY DEF IInv
<1>a. n \in Nat /\ missed \in Nat /\ read.probe \in Nat
    BY <1>0, Numbers
<1>1. ASSUME NEW level \in Levels, Touch(level) PROVE IInv'
    <2>1. finger' \in Levels /\ UNCHANGED <<protocol, machine, step, read, held>>
        BY <1>1 DEF Touch
    <2>2. TypeOK'
        BY <1>0, <2>1 DEF TypeOK, protocol, machine
    <2>3. Reads' = Reads
        BY <2>1 DEF Reads, protocol
    <2>4. Queues'
        BY <1>0, <2>1, <2>3, QueuesStay DEF protocol
    <2> QED BY <1>0, <2>1, <2>2, <2>4 DEF IInv, FreshEnough, protocol, machine
<1>2. CASE Arrive
    <2>1. Queues'
        BY <1>0, <1>2, ArriveQueues
    <2>2. bus' \in Seq(Replied) /\ due' \in Seq(Replied)
        BY <1>0, <1>2, QueueTypes DEF Arrive
    <2>3. TypeOK'
        BY <1>0, <1>2, <2>2 DEF Arrive, TypeOK, machine
    <2> QED BY <1>0, <1>2, <2>1, <2>3 DEF IInv, FreshEnough, Arrive, machine
<1>3. CASE Lose
    <2>1. Queues'
        BY <1>0, <1>3, LoseQueues
    <2>2. bus' \in Seq(Replied) /\ due' \in Seq(Replied) /\ lost' \in BOOLEAN
        BY <1>0, <1>3, QueueTypes DEF Lose
    <2>3. TypeOK'
        BY <1>0, <1>3, <2>2 DEF Lose, TypeOK, machine
    <2> QED BY <1>0, <1>3, <2>1, <2>3 DEF IInv, FreshEnough, Lose, machine
<1>4. CASE SendProbe
    <2>1. Queues'
        BY <1>0, <1>4, SendQueues
    <2>2. Ack(n + 1) \in Replied /\ Fdt(n + 1, finger) \in Replied /\ n + 1 \in 0 .. MaxProbes
        BY <1>0, <1>4, Bounds DEF SendProbe, TypeOK, Replied
    <2>3. due' \in Seq(Replied) /\ n' \in 0 .. MaxProbes /\ held' \in BOOLEAN
        <3>1. due' = due \o <<Ack(n + 1), Fdt(n + 1, finger)>> /\ n' = n + 1
            BY <1>4 DEF SendProbe
        <3>2. due' \in Seq(Replied)
            BY <1>0, <2>2, <3>1, QueueTypes, Longer
        <3>3. held' \in BOOLEAN
            BY <1>0, <1>4 DEF SendProbe, TypeOK
        <3> QED BY <2>2, <3>1, <3>2, <3>3
    <2>4. TypeOK'
        BY <1>0, <1>4, <2>3 DEF SendProbe, TypeOK, machine
    <2>5. FreshEnough'
        <3>1. step = "send" /\ step' = "ack" /\ n' = n + 1 /\ UNCHANGED <<read, missed>>
            BY <1>4 DEF SendProbe
        <3>2. read.ok => 2 * (n - read.probe) <= missed + 0
            BY <1>0, <3>1 DEF FreshEnough
        <3>3. read.ok => 2 * (n + 1 - read.probe) <= missed + 2
            BY <1>a, <3>2
        <3>4. step' # "send" /\ n' = n + 1 /\ read' = read /\ missed' = missed
            BY <3>1
        <3>5. (IF step' = "send" THEN 0 ELSE 2) = 2
            BY <3>4
        <3>6. read'.ok => 2 * (n' - read'.probe) <= missed' + (IF step' = "send" THEN 0 ELSE 2)
            <4> SUFFICES ASSUME read'.ok PROVE 2 * (n' - read'.probe) <= missed' + 2
                BY <3>5, Zenon
            <4>1. read.ok
                BY <3>4, Zenon
            <4>2. 2 * (n + 1 - read.probe) <= missed + 2
                BY <3>3, <4>1, Zenon
            <4> QED BY <1>a, <3>4, <4>2
        <3> QED BY <3>6 DEF FreshEnough
    <2> QED BY <1>0, <1>4, <2>1, <2>4, <2>5 DEF IInv, SendProbe, machine
<1>5. CASE ReadAck
    <2>1. step = "ack" /\ step' = "payload" /\ UNCHANGED <<n, due, read>>
        BY <1>5 DEF ReadAck
    <2>2. Reads' = Reads + 1
        BY <1>a, <2>1 DEF Reads
    <2>3. Queues' /\ bus' \in Seq(Replied) /\ missed' \in Nat /\ missed' >= missed
        <3>1. CASE bus = <<>>
            <4>1. missed' = missed + 1 /\ UNCHANGED bus
                BY <1>5, <3>1 DEF ReadAck
            <4> QED BY <1>0, <1>a, <2>1, <2>2, <3>1, <4>1, FindNothing, QueueTypes
        <3>2. CASE bus # <<>>
            <4>1. bus' = Tail(bus) /\ UNCHANGED missed
                BY <1>5, <3>2 DEF ReadAck
            <4>2. 1 \in DOMAIN bus /\ bus[1] = Head(bus) /\ Place(bus[1]) \in Nat
                BY <1>0, <3>2, QueueTypes, Rest, Numbers
            <4>3. 2 * read.probe <= Place(Head(bus)) /\ read'.probe \in 0 .. n
                <5>1. 2 * read.probe < Place(bus[1]) /\ read.probe <= n
                    BY <1>0, <4>2 DEF Queues, InOrder
                <5> QED BY <1>a, <2>1, <4>2, <5>1
            <4> QED BY <1>0, <1>a, <2>1, <2>2, <3>2, <4>1, <4>3, TakeHead, QueueTypes
        <3> QED BY <3>1, <3>2
    <2>4. TypeOK'
        BY <1>0, <1>5, <2>1, <2>3 DEF ReadAck, TypeOK, machine
    <2>5. FreshEnough'
        <3>1. read.ok => 2 * (n - read.probe) <= missed + 2
            BY <1>0, <2>1 DEF FreshEnough
        <3>2. read.ok => 2 * (n - read.probe) <= missed' + 2
            BY <1>a, <2>3, <3>1
        <3> QED BY <2>1, <3>2 DEF FreshEnough
    <2> QED BY <1>0, <1>5, <2>3, <2>4, <2>5 DEF IInv, ReadAck, machine
<1>6. CASE ReadPayload
    <2>1. PICK level : Handle(level)
        BY <1>6, AnswerQueues
    <2>2. step' = "send" /\ UNCHANGED <<n, due, lost, stage, finger>>
        BY <1>6 DEF ReadPayload
    <2>3. phase' \in Probing \cup {"capture", "done", "failed"} /\ polls' \in Nat
          /\ view' \in 0 .. 2 /\ held' \in BOOLEAN /\ Room'
        BY <1>0, <2>1, <2>2, HandleType
    <2>4. Queues' /\ FreshEnough' /\ bus' \in Seq(Replied) /\ missed' \in Nat
          /\ read' \in [ok : BOOLEAN, probe : 0 .. MaxProbes]
        BY <1>6, AnswerQueues
    <2>5. TypeOK'
        BY <1>0, <2>2, <2>3, <2>4 DEF TypeOK
    <2> QED BY <2>3, <2>4, <2>5 DEF IInv
<1>7. CASE Cancel
    <2>1. UNCHANGED <<protocol, polls, view, stage, step, finger, read, held>>
          /\ phase' = "cancelled" /\ step = "send"
        BY <1>7 DEF Cancel
    <2>2. TypeOK'
        BY <1>0, <2>1 DEF TypeOK, protocol
    <2>3. Reads' = Reads
        BY <2>1 DEF Reads, protocol
    <2>4. Queues'
        BY <1>0, <2>1, <2>3, QueuesStay DEF protocol
    <2> QED BY <1>0, <2>1, <2>2, <2>4 DEF IInv, FreshEnough, protocol
<1>8. ASSUME NEW usable \in BOOLEAN, Capture(usable) PROVE IInv'
    <2>1. phase = "capture" /\ Drain /\ UNCHANGED <<view, step, finger, held>>
        BY <1>8 DEF Capture
    <2>2. step = "send"
        BY <1>0, <2>1 DEF TypeOK, Probing
    <2>3. Queues'
        BY <1>0, <2>1, <2>2, DrainQueues
    <2>4. /\ n' \in 0 .. MaxProbes /\ missed' \in Nat /\ lost' \in BOOLEAN
          /\ read' \in [ok : BOOLEAN, probe : 0 .. MaxProbes] /\ read'.ok = FALSE
        <3>1. read' = NoRead /\ 0 \in 0 .. MaxProbes
            BY <2>1, Bounds DEF Drain
        <3>2. read' \in [ok : BOOLEAN, probe : 0 .. MaxProbes] /\ read'.ok = FALSE
            BY <3>1 DEF NoRead
        <3>3. CASE due' = <<>>
            <4>1. n' = 0 /\ missed' = 0 /\ lost' = FALSE
                BY <2>1, <3>3 DEF Drain
            <4> QED BY <3>1, <3>2, <4>1
        <3>4. CASE due' # <<>>
            <4>1. UNCHANGED <<n, missed, lost>>
                BY <2>1, <3>4 DEF Drain
            <4> QED BY <1>0, <3>2, <4>1 DEF TypeOK
        <3> QED BY <3>3, <3>4
    <2>5. bus' \in Seq(Replied) /\ due' \in Seq(Replied)
        <3>1. <<>> \in Seq(Replied)
            OBVIOUS
        <3> QED BY <1>0, <2>1, <3>1, QueueTypes DEF Drain
    <2>6. stage' \in 0 .. Stages
        <3>1. CASE usable /\ view = 1
            <4>1. stage' = stage + 1 /\ stage < Stages /\ stage \in 0 .. Stages
                BY <1>0, <1>8, <2>1, <3>1 DEF Capture, TypeOK
            <4> QED BY <4>1, Bounds
        <3>2. CASE ~(usable /\ view = 1)
            BY <1>0, <1>8, <3>2 DEF Capture, TypeOK
        <3> QED BY <3>1, <3>2
    <2>7. phase' \in {"again", "why", "off"} /\ polls' \in Nat
        BY <1>0, <1>8 DEF Capture, TypeOK
    <2>8. TypeOK'
        BY <1>0, <2>1, <2>4, <2>5, <2>6, <2>7 DEF TypeOK, Probing
    <2> QED BY <2>3, <2>4, <2>7, <2>8 DEF IInv, FreshEnough
<1>9. CASE UNCHANGED vars
    <2>1. UNCHANGED <<protocol, machine, step, finger, read, held>>
        BY <1>9 DEF vars
    <2>2. TypeOK'
        BY <1>0, <2>1 DEF TypeOK, protocol, machine
    <2>3. Reads' = Reads
        BY <2>1 DEF Reads, protocol
    <2>4. Queues'
        BY <1>0, <2>1, <2>3, QueuesStay DEF protocol
    <2> QED BY <1>0, <2>1, <2>2, <2>4 DEF IInv, FreshEnough, protocol, machine
<1> QED BY <1>1, <1>2, <1>3, <1>4, <1>5, <1>6, <1>7, <1>8, <1>9 DEF Next

-----------------------------------------------------------------------------
\* The inductive invariant holds.
THEOREM Invariance == Spec => []IInv
BY InitIInv, NextIInv, PTL DEF Spec

\* The variables have their types: in particular no press is counted beyond the
\* last stage.
THEOREM TypeCorrect == Spec => []TypeOK
<1>1. IInv => TypeOK
    BY DEF IInv
<1> QED BY <1>1, Invariance, PTL

\* A measure that a poll acts upon is no older than the reads that found nothing
\* account for (gx_fdt_probe reads twice whatever it finds, and never drains).
THEOREM MeasuresFresh == Spec => []FreshEnough
<1>1. IInv => FreshEnough
    BY DEF IInv
<1> QED BY <1>1, Invariance, PTL

\* The measures between two drains are read in the order of their probes, each once.
THEOREM MeasuresInOrder == Spec => ReadInOrder
<1> DEFINE A == step = "payload" /\ step' = "send" /\ read'.ok => read.probe < read'.probe
<1>1. IInv /\ [Next]_vars => [A]_vars
    <2> SUFFICES ASSUME IInv, Next, step = "payload", step' = "send", read'.ok
                 PROVE  read.probe < read'.probe
        BY Zenon
    <2>1. ReadPayload
        BY DEF Next, Touch, Arrive, Lose, SendProbe, ReadAck, Cancel, Capture, machine,
               IInv, TypeOK, Probing
    <2> QED BY <2>1, AnswerQueues
<1> HIDE DEF A
<1>2. [][A]_vars => ReadInOrder
    BY PTL DEF A, ReadInOrder
<1> QED BY <1>1, <1>2, Invariance, PTL DEF Spec
=============================================================================
