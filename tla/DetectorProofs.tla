--------------------------- MODULE DetectorProofs ---------------------------
(***************************************************************************)
(* Proofs about Detector, for any addresses, flow records and thresholds,  *)
(* any size of the buffer of alerts, and every bound.                      *)
(***************************************************************************)
EXTENDS Detector, FiniteSetTheorems, SequenceTheorems, TLAPS

-----------------------------------------------------------------------------
(* Windows and alerts are well typed.                                      *)

\* A flow record that is looked at has two addresses.
LEMMA RecordType ==
  ASSUME NEW f \in FlowRecords, ~Ignored(f)
  PROVE  /\ f.src \in Addresses /\ f.dst \in Addresses /\ f.port \in Nat
         /\ f.big \in BOOLEAN /\ f.smallUdp \in BOOLEAN
BY DetectorAssumption DEF Ignored, FlowRecord

\* There is always a window for a source, and stale ones are gone.
LEMMA WindowType ==
  ASSUME TypeOK, NEW a \in Addresses
  PROVE  /\ Expired \in [Addresses -> IpWindow \cup {NoWindow}]
         /\ Expired[a] \in {windows[a], NoWindow}
         /\ WindowOf(a) \in IpWindow
<1>1. Expired \in [Addresses -> IpWindow \cup {NoWindow}]
  BY DEF TypeOK, Expired
<1>2. Expired[a] \in {windows[a], NoWindow}
  BY DEF Expired
<1>3. NewWindow \in IpWindow
  <2>1. now \in Nat /\ <<>> \in Seq(Nat)
    BY DEF TypeOK
  <2>2. [b \in Addresses |-> <<>>] \in [Addresses -> Seq(Nat)]
    BY <2>1
  <2> QED BY <2>1, <2>2 DEF NewWindow, IpWindow
<1> QED BY <1>1, <1>2, <1>3 DEF WindowOf

\* The times that are kept are times.
LEMMA TimesType ==
  ASSUME TypeOK, NEW f \in FlowRecords, ~Ignored(f)
  PROVE  Times(f) \in Seq(Nat)
<1> DEFINE times == Append(WindowOf(f.src).times[f.dst], now)
           old   == {i \in DOMAIN times : times[i] < now - Window}
<1>1. WindowOf(f.src).times[f.dst] \in Seq(Nat)
  BY RecordType, WindowType DEF IpWindow
<1>2. times \in Seq(Nat) /\ Len(times) \in Nat /\ DOMAIN times = 1..Len(times)
  BY <1>1 DEF TypeOK
<1> HIDE DEF times
<1>3. IsFiniteSet(1..Len(times))
  BY <1>2, FS_Interval
<1>4. Cardinality(old) \in Nat
  BY <1>2, <1>3, FS_Subset, FS_CardinalityType
<1> HIDE DEF old
<1>5. \A i \in Cardinality(old) + 1 .. Len(times) : times[i] \in Nat
  BY <1>2, <1>4
<1>6. SubSeq(times, Cardinality(old) + 1, Len(times)) \in Seq(Nat)
  BY <1>2, <1>4, <1>5, SubSeqProperties
<1> QED BY <1>6 DEF Times, times, old

\* What the rules leave is a window.
LEMMA ObservedType ==
  ASSUME TypeOK, NEW f \in FlowRecords, ~Ignored(f)
  PROVE  Observed(f) \in IpWindow /\ Observed(f).last = now
<1>1. f.src \in Addresses /\ f.dst \in Addresses /\ f.port \in Nat /\ now \in Nat
  BY RecordType DEF TypeOK
<1>2. WindowOf(f.src) \in IpWindow
  BY <1>1, WindowType
<1>3. Hosts(f) \subseteq Addresses /\ Ports(f) \subseteq Nat \ {0}
  BY <1>1, <1>2 DEF Hosts, Ports, IpWindow
<1>4. WindowOf(f.src).times \in [Addresses -> Seq(Nat)]
  BY <1>2 DEF IpWindow
<1>5. (IF Beacon(f) THEN <<>> ELSE Times(f)) \in Seq(Nat)
  BY TimesType
<1>6. [WindowOf(f.src).times EXCEPT ![f.dst] = IF Beacon(f) THEN <<>> ELSE Times(f)]
        \in [Addresses -> Seq(Nat)]
  BY <1>4, <1>5
<1> QED BY <1>1, <1>3, <1>4, <1>6 DEF Observed, IpWindow

\* An alert is an alert, and it is raised or not.
LEMMA AlertType ==
  ASSUME TypeOK, NEW f \in FlowRecords, ~Ignored(f), NEW type \in Types, NEW fires
  PROVE  /\ AlertOf(f, type) \in Alert /\ AlertOf(f, type).type = type
         /\ AlertOf(f, type).src = f.src /\ AlertOf(f, type).dst = f.dst
         /\ AlertOf(f, type).at = Len(log) + 1
         /\ When(fires, AlertOf(f, type)) \in Seq(Alert)
<1>1. f.src \in Addresses /\ f.dst \in Addresses /\ Len(log) + 1 \in Nat
  BY RecordType DEF TypeOK
<1> DEFINE a == AlertOf(f, type)
<1>2. a \in Alert /\ a.type = type /\ a.src = f.src /\ a.dst = f.dst /\ a.at = Len(log) + 1
  BY <1>1 DEF AlertOf, Alert
<1> HIDE DEF a
<1>3. When(fires, a) \in Seq(Alert)
  BY <1>2 DEF When
<1> QED BY <1>2, <1>3 DEF a

\* The alerts of a flow record.
LEMMA EmittedType ==
  ASSUME TypeOK, NEW f \in FlowRecords, ~Ignored(f)
  PROVE  Emitted(f) \in Seq(Alert)
<1>1. \A type \in Types : \A fires : When(fires, AlertOf(f, type)) \in Seq(Alert)
  BY AlertType
<1>2. /\ "PORT_SCAN" \in Types /\ "LATERAL_MOVEMENT" \in Types /\ "DATA_EXFILTRATION" \in Types
      /\ "SENSOR_NET_BREACH" \in Types /\ "RADIO_BEACON" \in Types
  BY DEF Types
<1> QED BY <1>1, <1>2 DEF Emitted

-----------------------------------------------------------------------------
(* The buffer.                                                             *)

\* buffer holds the newest of all the alerts, since how many there were at the start.
Newest(buffer, all, since) ==
  /\ buffer \in Seq(Alert) /\ all \in Seq(Alert) /\ since \in 0..Len(all)
  /\ Len(buffer) <= MaxAlerts
  /\ Len(buffer) <= Len(all) - since
  /\ buffer = SubSeq(all, Len(all) - Len(buffer) + 1, Len(all))
  /\ \/ Len(buffer) = Len(all) - since
     \/ Len(buffer) > MaxAlerts - MaxAlerts \div 4

\* A call of emit keeps the newest, also when it has to make room.
LEMMA EmitNewest ==
  ASSUME NEW buffer, NEW all, NEW since, Newest(buffer, all, since), NEW fires, NEW a \in Alert
  PROVE  Newest(Emit(buffer, fires, a), all \o When(fires, a), since)
<1> DEFINE q == MaxAlerts \div 4
           room == Room(buffer)
<1>1. /\ buffer \in Seq(Alert) /\ all \in Seq(Alert) /\ Len(buffer) \in Nat /\ Len(all) \in Nat
      /\ since \in 0..Len(all) /\ Len(buffer) <= MaxAlerts /\ Len(buffer) <= Len(all) - since
      /\ \/ Len(buffer) = Len(all) - since
         \/ Len(buffer) > MaxAlerts - q
  BY DEF Newest
<1>2. MaxAlerts \in Nat /\ q \in Nat /\ q > 0 /\ q < MaxAlerts
  BY DetectorAssumption
<1>3. \A i \in 1..Len(buffer) : buffer[i] = all[Len(all) - Len(buffer) + i]
  <2>1. \A i \in (Len(all) - Len(buffer) + 1)..Len(all) : all[i] \in Alert
    BY <1>1
  <2>2. \A i \in 1..Len(buffer) :
          SubSeq(all, Len(all) - Len(buffer) + 1, Len(all))[i] = all[Len(all) - Len(buffer) + i]
    BY <1>1, <2>1, SubSeqProperties
  <2> QED BY <2>2 DEF Newest
<1>4. CASE ~fires
  <2>1. Emit(buffer, fires, a) = buffer /\ When(fires, a) = <<>>
    BY <1>4 DEF Emit, When
  <2>2. all \o <<>> = all
    BY <1>1, ConcatEmptySeq
  <2> QED BY <2>1, <2>2
<1>5. CASE fires
  <2>0. room = IF Len(buffer) >= MaxAlerts THEN SubSeq(buffer, q + 1, Len(buffer)) ELSE buffer
    BY DEF Room
  <2> HIDE DEF q, room
  <2>1. /\ room \in Seq(Alert) /\ Len(room) \in Nat /\ Len(room) < MaxAlerts
        /\ Len(room) <= Len(buffer)
        /\ Len(room) = Len(buffer) \/ Len(room) = MaxAlerts - q
        /\ \A i \in 1..Len(room) : room[i] = all[Len(all) - Len(room) + i]
    <3>1. CASE Len(buffer) >= MaxAlerts
      <4>1. room = SubSeq(buffer, q + 1, Len(buffer)) /\ Len(buffer) = MaxAlerts
        BY <1>1, <1>2, <2>0, <3>1
      <4>2. \A i \in q + 1 .. Len(buffer) : buffer[i] \in Alert
        BY <1>1, <1>2
      <4>3. /\ room \in Seq(Alert) /\ Len(room) = MaxAlerts - q
            /\ \A i \in 1..(MaxAlerts - q) : room[i] = buffer[q + i]
        BY <1>2, <4>1, <4>2, SubSeqProperties
      <4>4. ASSUME NEW i \in 1..Len(room) PROVE room[i] = all[Len(all) - Len(room) + i]
        <5>1. room[i] = buffer[q + i] /\ q + i \in 1..Len(buffer)
          BY <1>2, <4>1, <4>3
        <5>2. buffer[q + i] = all[Len(all) - Len(buffer) + (q + i)]
          BY <1>3, <5>1
        <5>3. Len(all) - Len(buffer) + (q + i) = Len(all) - Len(room) + i
          BY <1>1, <1>2, <4>1, <4>3
        <5> QED BY <5>1, <5>2, <5>3
      <4>5. Len(room) \in Nat /\ Len(room) < MaxAlerts /\ Len(room) <= Len(buffer)
        BY <1>2, <4>1, <4>3
      <4> QED BY <4>3, <4>4, <4>5
    <3>2. CASE Len(buffer) < MaxAlerts
      <4>1. room = buffer
        BY <1>1, <1>2, <2>0, <3>2
      <4> QED BY <1>1, <1>3, <3>2, <4>1
    <3>3. Len(buffer) >= MaxAlerts \/ Len(buffer) < MaxAlerts
      BY <1>1, <1>2
    <3> QED BY <3>1, <3>2, <3>3
  <2> DEFINE new == Append(room, a)
             total == Append(all, a)
  <2>2. Emit(buffer, fires, a) = new /\ When(fires, a) = <<a>>
    BY <1>5 DEF Emit, When, room
  <2>3. all \o <<a>> = total
    BY <1>1
  <2>4. /\ new \in Seq(Alert) /\ Len(new) = Len(room) + 1
        /\ total \in Seq(Alert) /\ Len(total) = Len(all) + 1
        /\ \A i \in 1..Len(all) : total[i] = all[i]
        /\ \A i \in 1..Len(room) : new[i] = room[i]
        /\ total[Len(all) + 1] = a /\ new[Len(room) + 1] = a
    BY <1>1, <2>1
  <2> HIDE DEF new, total
  <2>5. ASSUME NEW i \in 1..Len(new) PROVE new[i] = total[Len(total) - Len(new) + i]
    <3>1. CASE i = Len(room) + 1
      BY <1>1, <2>1, <2>4, <3>1
    <3>2. CASE i \in 1..Len(room)
      <4>1. Len(all) - Len(room) + i \in 1..Len(all)
        BY <1>1, <2>1, <3>2
      <4> QED BY <1>1, <2>1, <2>4, <3>2, <4>1
    <3> QED BY <2>1, <2>4, <3>1, <3>2
  <2>6. new = SubSeq(total, Len(total) - Len(new) + 1, Len(total))
    <3> DEFINE sub == SubSeq(total, Len(total) - Len(new) + 1, Len(total))
    <3>1. \A i \in (Len(total) - Len(new) + 1)..Len(total) : total[i] \in Alert
      BY <1>1, <2>1, <2>4
    <3>2. /\ sub \in Seq(Alert) /\ Len(sub) = Len(new)
          /\ \A i \in 1..Len(new) : sub[i] = total[Len(total) - Len(new) + i]
      BY <1>1, <2>1, <2>4, <3>1, SubSeqProperties
    <3> HIDE DEF sub
    <3>3. new = sub
      BY <2>4, <2>5, <3>2, SeqEqual
    <3> QED BY <3>3 DEF sub
  <2>7. /\ since \in 0..Len(total) /\ Len(new) <= MaxAlerts /\ Len(new) <= Len(total) - since
        /\ Len(new) = Len(total) - since \/ Len(new) > MaxAlerts - q
    BY <1>1, <1>2, <2>1, <2>4
  <2> QED BY <2>2, <2>3, <2>4, <2>6, <2>7 DEF Newest, q
<1> QED BY <1>4, <1>5

\* Lists of alerts, one after the other.
LEMMA ConcatAlerts ==
  ASSUME NEW s \in Seq(Alert), NEW t \in Seq(Alert), NEW u \in Seq(Alert)
  PROVE  t \o u \in Seq(Alert) /\ (s \o t) \o u = s \o (t \o u)
BY ConcatAssociative, ConcatProperties

\* Five calls of emit keep the newest alerts.
LEMMA BufferedNewest ==
  ASSUME TypeOK, Newest(alerts, raised, first), NEW f \in FlowRecords, ~Ignored(f)
  PROVE  Newest(Buffered(f), raised \o Emitted(f), first)
<1> DEFINE a1 == AlertOf(f, "PORT_SCAN")
           a2 == AlertOf(f, "LATERAL_MOVEMENT")
           a3 == AlertOf(f, "DATA_EXFILTRATION")
           a4 == AlertOf(f, "SENSOR_NET_BREACH")
           a5 == AlertOf(f, "RADIO_BEACON")
           w1 == When(Scan(f), a1)
           w2 == When(Lateral(f), a2)
           w3 == When(Exfiltration(f), a3)
           w4 == When(Breach(f), a4)
           w5 == When(Beacon(f), a5)
           b1 == Emit(alerts, Scan(f), a1)
           b2 == Emit(b1, Lateral(f), a2)
           b3 == Emit(b2, Exfiltration(f), a3)
           b4 == Emit(b3, Breach(f), a4)
           b5 == Emit(b4, Beacon(f), a5)
<1>1. /\ a1 \in Alert /\ a2 \in Alert /\ a3 \in Alert /\ a4 \in Alert /\ a5 \in Alert
      /\ w1 \in Seq(Alert) /\ w2 \in Seq(Alert) /\ w3 \in Seq(Alert) /\ w4 \in Seq(Alert)
      /\ w5 \in Seq(Alert)
  BY AlertType DEF Types
<1>2. Buffered(f) = b5 /\ Emitted(f) = (((w1 \o w2) \o w3) \o w4) \o w5
  BY DEF Buffered, Emitted
<1> HIDE DEF a1, a2, a3, a4, a5
<1>3. Newest(b1, raised \o w1, first)
  BY <1>1, EmitNewest
<1> HIDE DEF b1, w1
<1>4. Newest(b2, (raised \o w1) \o w2, first)
  BY <1>1, <1>3, EmitNewest
<1> HIDE DEF b2, w2
<1>5. Newest(b3, ((raised \o w1) \o w2) \o w3, first)
  BY <1>1, <1>4, EmitNewest
<1> HIDE DEF b3, w3
<1>6. Newest(b4, (((raised \o w1) \o w2) \o w3) \o w4, first)
  BY <1>1, <1>5, EmitNewest
<1> HIDE DEF b4, w4
<1>7. Newest(b5, ((((raised \o w1) \o w2) \o w3) \o w4) \o w5, first)
  BY <1>1, <1>6, EmitNewest
<1> HIDE DEF b5, w5
<1>8. raised \in Seq(Alert)
  BY DEF Newest
<1>9. ((((raised \o w1) \o w2) \o w3) \o w4) \o w5 = raised \o ((((w1 \o w2) \o w3) \o w4) \o w5)
  <2>1. w1 \o w2 \in Seq(Alert) /\ (raised \o w1) \o w2 = raised \o (w1 \o w2)
    BY <1>1, <1>8, ConcatAlerts
  <2> DEFINE p2 == w1 \o w2
             p3 == p2 \o w3
             p4 == p3 \o w4
  <2> HIDE DEF p2
  <2>2. p2 \in Seq(Alert) /\ (raised \o w1) \o w2 = raised \o p2
    BY <2>1 DEF p2
  <2>3. p3 \in Seq(Alert) /\ (raised \o p2) \o w3 = raised \o p3
    BY <1>1, <1>8, <2>2, ConcatAlerts, Zenon
  <2> HIDE DEF p3
  <2>4. p4 \in Seq(Alert) /\ (raised \o p3) \o w4 = raised \o p4
    BY <1>1, <1>8, <2>3, ConcatAlerts, Zenon
  <2> HIDE DEF p4
  <2>5. (raised \o p4) \o w5 = raised \o (p4 \o w5)
    BY <1>1, <1>8, <2>4, ConcatAlerts, Zenon
  <2> QED BY <2>2, <2>3, <2>4, <2>5 DEF p2, p3, p4
<1> QED BY <1>2, <1>7, <1>9

-----------------------------------------------------------------------------
(* Type correctness, and the buffer.                                       *)

Well == TypeOK /\ Newest(alerts, raised, first)

LEMMA WellInit == Init => Well
<1> SUFFICES ASSUME Init PROVE Well
  OBVIOUS
<1>1. TypeOK
  BY DEF Init, TypeOK
<1>2. SubSeq(raised, 1, 0) = <<>>
  BY SubSeqEmpty
<1> QED BY <1>1, <1>2, DetectorAssumption DEF Init, Well, Newest, TypeOK

\* A flow record leaves the state well typed.
LEMMA WellObserve == ASSUME Well, NEW f \in FlowRecords, Observe(f) PROVE Well'
<1>1. /\ TypeOK /\ Newest(alerts, raised, first) /\ ~Ignored(f) /\ f.src \in Addresses
      /\ f.dst \in Addresses /\ now \in Nat
  BY RecordType DEF Well, Observe, TypeOK
<1>2. /\ alerts' = Buffered(f) /\ raised' = raised \o Emitted(f) /\ first' = first
      /\ now' = now /\ stored' = stored /\ restarts' = restarts
  BY DEF Observe
<1>3. Newest(alerts', raised', first')
  BY <1>1, <1>2, BufferedNewest
<1>4. /\ Emitted(f) \in Seq(Alert) /\ Len(Emitted(f)) \in Nat /\ raised \in Seq(Alert)
      /\ Len(raised') = Len(raised) + Len(Emitted(f)) /\ raised' \in Seq(Alert)
  BY <1>1, <1>2, EmittedType DEF TypeOK
<1>5. windows' \in [Addresses -> IpWindow \cup {NoWindow}]
      /\ \A a \in Addresses : windows'[a] # NoWindow => windows'[a].last <= now'
  <2>1. /\ windows' = [Expired EXCEPT ![f.src] = Observed(f)]
        /\ Observed(f) \in IpWindow /\ Observed(f).last = now
    BY <1>1, ObservedType DEF Observe
  <2>2. Expired \in [Addresses -> IpWindow \cup {NoWindow}]
        /\ \A a \in Addresses : Expired[a] \in {windows[a], NoWindow}
    BY <1>1, WindowType
  <2> HIDE DEF Expired, Observed
  <2>3. \A a \in Addresses : windows[a] # NoWindow => windows[a].last <= now
    BY <1>1 DEF TypeOK
  <2> QED BY <1>1, <1>2, <2>1, <2>2, <2>3
<1>6. peers' \subseteq Addresses \ Private
  BY <1>1 DEF Observe, Peers, Intrusion, TypeOK
<1>7. callback' \in Seq(Stages) /\ Len(callback') = Len(raised')
  <2> DEFINE new == [i \in 1..Len(Emitted(f)) |-> "persist"]
             stages == Stages
  <2>0. "persist" \in stages
    BY DEF Stages
  <2>1. callback' = callback \o new /\ callback \in Seq(stages) /\ Len(callback) = Len(raised)
    BY <1>1 DEF Observe, TypeOK
  <2> SUFFICES callback' \in Seq(stages) /\ Len(callback') = Len(raised')
    OBVIOUS
  <2> HIDE DEF stages
  <2>2. new \in Seq(stages) /\ Len(new) = Len(Emitted(f))
    BY <1>4, <2>0
  <2> HIDE DEF new
  <2>3. callback \o new \in Seq(stages) /\ Len(callback \o new) = Len(callback) + Len(new)
    BY <2>1, <2>2, ConcatProperties
  <2> QED BY <1>4, <2>1, <2>2, <2>3
<1>8. log' \in Seq([flow : FlowRecord, time : Nat, run : Nat])
  <2>1. [flow |-> f, time |-> now, run |-> restarts] \in [flow : FlowRecord, time : Nat, run : Nat]
    BY <1>1, DetectorAssumption DEF TypeOK
  <2> QED BY <1>1, <2>1 DEF TypeOK, Observe
<1>9. stored' \subseteq DOMAIN raised'
  BY <1>1, <1>2, <1>4 DEF TypeOK
<1>10. first' \in 0..Len(raised') /\ alerts' \in Seq(Alert)
  BY <1>3 DEF Newest
<1>11. restarts' \in Nat /\ now' \in Nat
  BY <1>1, <1>2 DEF TypeOK
<1>12. TypeOK'
  BY <1>4, <1>5, <1>6, <1>7, <1>8, <1>9, <1>10, <1>11 DEF TypeOK
<1> QED BY <1>3, <1>12 DEF Well

\* Every step keeps the state well typed, and the newest alerts in the buffer.
LEMMA WellNext == Well /\ [Next]_vars => Well'
<1> SUFFICES ASSUME Well, [Next]_vars PROVE Well'
  OBVIOUS
<1>0. TypeOK /\ Newest(alerts, raised, first)
  BY DEF Well
<1>1. ASSUME NEW f \in FlowRecords, Observe(f) PROVE Well'
  BY <1>1, WellObserve
<1>2. ASSUME NEW i \in 1..Len(raised), Callback(i) PROVE Well'
  <2>1. /\ UNCHANGED <<now, windows, peers, alerts, log, raised, first, restarts>>
        /\ stored' \subseteq stored \cup {i}
    BY <1>0, <1>2 DEF Callback, Persist, PersistFails, Respond, RespondFails, TypeOK
  <2>2. callback' \in Seq(Stages) /\ Len(callback') = Len(callback)
    <3> DEFINE stages == Stages
    <3>1. PICK c \in stages : callback' = [callback EXCEPT ![i] = c]
      BY <1>2 DEF Callback, Persist, PersistFails, Respond, RespondFails, Stages
    <3>2. callback \in Seq(stages) /\ i \in 1..Len(callback)
      BY <1>0 DEF TypeOK
    <3> SUFFICES callback' \in Seq(stages) /\ Len(callback') = Len(callback)
      OBVIOUS
    <3> HIDE DEF stages
    <3> QED BY <3>1, <3>2, ExceptSeq
  <2>3. DOMAIN raised = 1..Len(raised)
    BY <1>0 DEF TypeOK
  <2> QED BY <1>0, <2>1, <2>2, <2>3 DEF Well, TypeOK
<1>3. CASE Tick
  BY <1>0, <1>3 DEF Tick, Well, TypeOK, IpWindow
<1>4. CASE Restart
  <2>1. /\ UNCHANGED <<now, stored, log, raised>> /\ restarts' = restarts + 1
        /\ windows' = [a \in Addresses |-> NoWindow] /\ peers' = {} /\ alerts' = <<>>
        /\ first' = Len(raised)
    BY <1>4 DEF Restart
  <2>2. callback' \in Seq(Stages) /\ Len(callback') = Len(raised)
    <3>1. callback' = [i \in 1..Len(callback) |-> IF i \in Running THEN "lost" ELSE callback[i]]
      BY <1>4 DEF Restart
    <3> QED BY <1>0, <3>1 DEF TypeOK, Stages
  <2>3. SubSeq(raised, Len(raised) + 1, Len(raised)) = <<>>
    BY <1>0, SubSeqEmpty DEF TypeOK
  <2>4. Newest(alerts', raised', first')
    BY <1>0, <2>1, <2>3, DetectorAssumption DEF Newest, TypeOK
  <2> QED BY <1>0, <2>1, <2>2, <2>4 DEF Well, TypeOK
<1>5. CASE UNCHANGED vars
  BY <1>0, <1>5 DEF vars, Well, TypeOK
<1> QED BY <1>1, <1>2, <1>3, <1>4, <1>5 DEF Next, ObserveIgnored

\* The type invariant holds of every behaviour.
THEOREM TypeCorrect == Spec => []TypeOK
<1>1. Spec => []Well
  BY WellInit, WellNext, PTL DEF Spec
<1> QED BY <1>1, PTL DEF Well

\* For every size of the buffer, and any number of alerts in one call: it holds
\* the newest alerts of this run, in order, and room is made by a quarter.
THEOREM BufferCorrect == Spec => []BufferKeepsNewest
<1>1. Spec => []Well
  BY WellInit, WellNext, PTL DEF Spec
<1>2. Well => BufferKeepsNewest
  BY DEF Well, Newest, BufferKeepsNewest
<1> QED BY <1>1, <1>2, PTL

-----------------------------------------------------------------------------
(* The breach of the sensor network.                                       *)

Members(s) == {s[i] : i \in DOMAIN s}

LEMMA MembersOfConcat ==
  ASSUME NEW s \in Seq(Alert), NEW t \in Seq(Alert)
  PROVE  Members(s \o t) = Members(s) \cup Members(t)
<1>1. /\ DOMAIN s = 1..Len(s) /\ DOMAIN t = 1..Len(t) /\ Len(s) \in Nat /\ Len(t) \in Nat
      /\ DOMAIN (s \o t) = 1..(Len(s) + Len(t))
      /\ \A i \in 1..(Len(s) + Len(t)) :
           (s \o t)[i] = IF i <= Len(s) THEN s[i] ELSE t[i - Len(s)]
  OBVIOUS
<1>2. Members(s \o t) \subseteq Members(s) \cup Members(t)
  BY <1>1 DEF Members
<1>3. \A i \in 1..Len(s) : s[i] = (s \o t)[i] /\ i \in DOMAIN (s \o t)
  BY <1>1
<1>4. \A i \in 1..Len(t) : t[i] = (s \o t)[Len(s) + i] /\ Len(s) + i \in DOMAIN (s \o t)
  BY <1>1
<1>5. Members(s) \subseteq Members(s \o t)
  BY <1>1, <1>3 DEF Members
<1>6. Members(t) \subseteq Members(s \o t)
  <2> SUFFICES ASSUME NEW i \in 1..Len(t) PROVE t[i] \in Members(s \o t)
    BY <1>1 DEF Members
  <2> QED BY <1>4 DEF Members
<1> QED BY <1>2, <1>5, <1>6

LEMMA MembersOfWhen ==
  ASSUME NEW fires, NEW a
  PROVE  Members(When(fires, a)) = IF fires THEN {a} ELSE {}
<1>1. CASE fires
  <2>1. When(fires, a) = <<a>> /\ DOMAIN <<a>> = 1..1 /\ <<a>>[1] = a
    BY <1>1 DEF When
  <2>2. Members(<<a>>) = {a}
    BY <2>1 DEF Members
  <2> QED BY <1>1, <2>1, <2>2
<1>2. CASE ~fires
  <2>1. When(fires, a) = <<>> /\ DOMAIN <<>> = {}
    BY <1>2 DEF When
  <2> QED BY <1>2, <2>1 DEF Members
<1> QED BY <1>1, <1>2

\* The alerts of a flow record are of its addresses, and one of each type is
\* among them when the rule says so.
LEMMA EmittedMembers ==
  ASSUME TypeOK, NEW f \in FlowRecords, ~Ignored(f)
  PROVE  /\ \A a \in Members(Emitted(f)) : a.src = f.src /\ a.dst = f.dst /\ a.at = Len(log) + 1
         /\ (\E a \in Members(Emitted(f)) : a.type = "PORT_SCAN") <=> Scan(f)
         /\ (\E a \in Members(Emitted(f)) : a.type = "LATERAL_MOVEMENT") <=> Lateral(f)
         /\ (\E a \in Members(Emitted(f)) : a.type = "SENSOR_NET_BREACH") <=> Breach(f)
         /\ (\E a \in Members(Emitted(f)) : a.type = "RADIO_BEACON") <=> Beacon(f)
<1> DEFINE a1 == AlertOf(f, "PORT_SCAN")
           a2 == AlertOf(f, "LATERAL_MOVEMENT")
           a3 == AlertOf(f, "DATA_EXFILTRATION")
           a4 == AlertOf(f, "SENSOR_NET_BREACH")
           a5 == AlertOf(f, "RADIO_BEACON")
           w1 == When(Scan(f), a1)
           w2 == When(Lateral(f), a2)
           w3 == When(Exfiltration(f), a3)
           w4 == When(Breach(f), a4)
           w5 == When(Beacon(f), a5)
<1>1. /\ w1 \in Seq(Alert) /\ w2 \in Seq(Alert) /\ w3 \in Seq(Alert) /\ w4 \in Seq(Alert)
      /\ w5 \in Seq(Alert)
      /\ \A a \in {a1, a2, a3, a4, a5} : a.src = f.src /\ a.dst = f.dst /\ a.at = Len(log) + 1
      /\ a1.type = "PORT_SCAN" /\ a2.type = "LATERAL_MOVEMENT" /\ a3.type = "DATA_EXFILTRATION"
      /\ a4.type = "SENSOR_NET_BREACH" /\ a5.type = "RADIO_BEACON"
  BY AlertType DEF Types
<1>2. Emitted(f) = (((w1 \o w2) \o w3) \o w4) \o w5
  BY DEF Emitted
<1> HIDE DEF a1, a2, a3, a4, a5
<1>3. /\ Members(w1) = (IF Scan(f) THEN {a1} ELSE {})
      /\ Members(w2) = (IF Lateral(f) THEN {a2} ELSE {}) /\ Members(w3) \subseteq {a3}
      /\ Members(w4) = (IF Breach(f) THEN {a4} ELSE {})
      /\ Members(w5) = (IF Beacon(f) THEN {a5} ELSE {})
  BY MembersOfWhen
<1> HIDE DEF w1, w2, w3, w4, w5
<1> DEFINE p2 == w1 \o w2
           p3 == p2 \o w3
           p4 == p3 \o w4
<1>4. p2 \in Seq(Alert) /\ Members(p2) = Members(w1) \cup Members(w2)
  BY <1>1, MembersOfConcat, ConcatAlerts
<1> HIDE DEF p2
<1>5. p3 \in Seq(Alert) /\ Members(p3) = Members(p2) \cup Members(w3)
  BY <1>1, <1>4, MembersOfConcat, ConcatAlerts
<1> HIDE DEF p3
<1>6. p4 \in Seq(Alert) /\ Members(p4) = Members(p3) \cup Members(w4)
  BY <1>1, <1>5, MembersOfConcat, ConcatAlerts
<1> HIDE DEF p4
<1>7. Members(p4 \o w5) = Members(p4) \cup Members(w5)
  BY <1>1, <1>6, MembersOfConcat
<1>8. Members(Emitted(f)) =
        (((Members(w1) \cup Members(w2)) \cup Members(w3)) \cup Members(w4)) \cup Members(w5)
  BY <1>2, <1>4, <1>5, <1>6, <1>7 DEF p2, p3, p4
<1> QED BY <1>1, <1>3, <1>8

IntoSensors(i) == log[i].flow.dst \in SensorNet /\ log[i].flow.src \notin Private

\* The sources remembered are those of this run of the process.
Peered ==
  /\ \A i \in DOMAIN log : log[i].run \in 0..restarts
  /\ \A s \in Addresses : s \in peers <=>
       \E i \in DOMAIN log : log[i].run = restarts /\ IntoSensors(i) /\ log[i].flow.src = s
  /\ \A a \in Members(raised) : a.at \in DOMAIN log

BreachAt(k) ==
  Raised("SENSOR_NET_BREACH", log[k].flow.src, k) <=>
    /\ IntoSensors(k)
    /\ \A i \in 1..(k - 1) : IntoSensors(i) /\ log[i].flow.src = log[k].flow.src =>
                             log[i].run # log[k].run

Breaches == Peered /\ \A k \in DOMAIN log : BreachAt(k)

LEMMA BreachInit == Init => Breaches
BY DEF Init, Breaches, Peered, Members

\* Raised, as a matter of the alerts alone.
LEMMA RaisedMembers ==
  ASSUME NEW t, NEW s, NEW k
  PROVE  Raised(t, s, k) <=> \E a \in Members(raised) : a.type = t /\ a.src = s /\ a.at = k
BY DEF Raised, Members

\* A flow record raises a breach when its source is not yet remembered.
LEMMA BreachObserve ==
  ASSUME Well, Breaches, NEW f \in FlowRecords, Observe(f) PROVE Breaches'
<1>0. PICK n \in Nat : n = Len(log) + 1 /\ Len(log) \in Nat
  BY DEF Well, TypeOK
<1>1. TypeOK /\ ~Ignored(f) /\ f.src \in Addresses /\ raised \in Seq(Alert)
      /\ Emitted(f) \in Seq(Alert) /\ raised' = raised \o Emitted(f) /\ restarts' = restarts
      /\ restarts \in Nat
  BY RecordType, EmittedType DEF Well, Observe, TypeOK
<1>2. /\ Len(log) \in Nat /\ DOMAIN log = 1..Len(log) /\ DOMAIN log' = 1..n
      /\ \A i \in 1..Len(log) : log'[i] = log[i]
      /\ log'[n].flow = f /\ log'[n].run = restarts
  BY <1>0, <1>1 DEF TypeOK, Observe
<1>3. Members(raised') = Members(raised) \cup Members(Emitted(f))
  BY <1>1, MembersOfConcat
<1>4. /\ \A a \in Members(Emitted(f)) : a.src = f.src /\ a.at = n
      /\ (\E a \in Members(Emitted(f)) : a.type = "SENSOR_NET_BREACH") <=> Breach(f)
  BY <1>0, <1>1, EmittedMembers
<1>5. \A a \in Members(raised) : a.at \in 1..Len(log)
  BY <1>2 DEF Breaches, Peered
<1>6. n \in Nat /\ n = Len(log) + 1
  BY <1>0
<1>7. \A i \in 1..Len(log) : IntoSensors(i)' <=> IntoSensors(i)
  BY <1>2 DEF IntoSensors
<1>8. IntoSensors(n)' <=> Intrusion(f)
  BY <1>2, <1>6 DEF IntoSensors, Intrusion
<1>9. Peered'
  <2>1. \A i \in DOMAIN log' : log'[i].run \in 0..restarts'
    BY <1>1, <1>2, <1>6 DEF Breaches, Peered
  <2>2. \A a \in Members(raised') : a.at \in DOMAIN log'
    BY <1>2, <1>3, <1>4, <1>5, <1>6
  <2>3. ASSUME NEW s \in Addresses
        PROVE  s \in peers' <=>
                 \E i \in DOMAIN log' : /\ log'[i].run = restarts' /\ IntoSensors(i)'
                                        /\ log'[i].flow.src = s
    <3>1. s \in peers' <=> s \in peers \/ (Intrusion(f) /\ s = f.src)
      BY DEF Observe, Peers
    <3>2. s \in peers <=>
            \E i \in 1..Len(log) : log[i].run = restarts /\ IntoSensors(i) /\ log[i].flow.src = s
      BY <1>2 DEF Breaches, Peered
    <3>3. (\E i \in DOMAIN log' : /\ log'[i].run = restarts' /\ IntoSensors(i)'
                                  /\ log'[i].flow.src = s)
            <=> \/ \E i \in 1..Len(log) : /\ log[i].run = restarts /\ IntoSensors(i)
                                          /\ log[i].flow.src = s
                \/ Intrusion(f) /\ f.src = s
      <4> DEFINE Old(i) == log[i].run = restarts /\ IntoSensors(i) /\ log[i].flow.src = s
                 New(i) == log'[i].run = restarts' /\ IntoSensors(i)' /\ log'[i].flow.src = s
      <4>1. \A i \in 1..Len(log) : New(i) <=> Old(i)
        BY <1>1, <1>2, <1>7
      <4>2. New(n) <=> Intrusion(f) /\ f.src = s
        BY <1>1, <1>2, <1>8
      <4>3. DOMAIN log' = 1..Len(log) \cup {n}
        BY <1>2, <1>6
      <4> SUFFICES (\E i \in DOMAIN log' : New(i))
                     <=> (\E i \in 1..Len(log) : Old(i)) \/ (Intrusion(f) /\ f.src = s)
        OBVIOUS
      <4> HIDE DEF Old, New
      <4> QED BY <4>1, <4>2, <4>3
    <3> QED BY <3>1, <3>2, <3>3
  <2> QED BY <2>1, <2>2, <2>3 DEF Peered
<1>10. ASSUME NEW k \in 1..Len(log) PROVE BreachAt(k)'
  <2>1. Raised("SENSOR_NET_BREACH", log[k].flow.src, k)' <=>
          \E a \in Members(raised') :
            a.type = "SENSOR_NET_BREACH" /\ a.src = log'[k].flow.src /\ a.at = k
    BY DEF Raised, Members
  <2>2. k # n
    BY <1>2, <1>6
  <2>3. Raised("SENSOR_NET_BREACH", log[k].flow.src, k)'
          <=> Raised("SENSOR_NET_BREACH", log[k].flow.src, k)
    BY <1>2, <1>3, <1>4, <2>1, <2>2, RaisedMembers
  <2>4. BreachAt(k)
    BY <1>2 DEF Breaches
  <2>5. \A i \in 1..(k - 1) : i \in 1..Len(log)
    BY <1>2
  <2> QED BY <1>2, <1>7, <2>3, <2>4, <2>5 DEF BreachAt
<1>11. BreachAt(n)'
  <2>1. Raised("SENSOR_NET_BREACH", log[n].flow.src, n)' <=>
          \E a \in Members(raised') :
            a.type = "SENSOR_NET_BREACH" /\ a.src = f.src /\ a.at = n
    BY <1>2 DEF Raised, Members
  <2>2. n \notin 1..Len(log)
    BY <1>2, <1>6
  <2>3. Raised("SENSOR_NET_BREACH", log[n].flow.src, n)' <=> Breach(f)
    BY <1>3, <1>4, <1>5, <2>1, <2>2
  <2>4. f.src \in peers <=>
          \E i \in 1..Len(log) : log[i].run = restarts /\ IntoSensors(i) /\ log[i].flow.src = f.src
    BY <1>1, <1>2 DEF Breaches, Peered
  <2>5. n - 1 = Len(log)
    BY <1>2, <1>6
  <2> QED BY <1>2, <1>6, <1>7, <1>8, <2>3, <2>4, <2>5 DEF BreachAt, Breach
<1>12. \A k \in DOMAIN log' : BreachAt(k)'
  BY <1>2, <1>6, <1>10, <1>11
<1> QED BY <1>9, <1>12 DEF Breaches

LEMMA BreachNext == Well /\ Breaches /\ [Next]_vars => Breaches'
<1> SUFFICES ASSUME Well, Breaches, [Next]_vars PROVE Breaches'
  OBVIOUS
<1>1. ASSUME NEW f \in FlowRecords, Observe(f) PROVE Breaches'
  BY <1>1, BreachObserve
<1>2. ASSUME UNCHANGED <<log, raised, restarts, peers>> PROVE Breaches'
  BY <1>2 DEF Breaches, Peered, BreachAt, IntoSensors, Raised, Members
<1>3. ASSUME NEW i \in 1..Len(raised), Callback(i) PROVE Breaches'
  BY <1>2, <1>3 DEF Callback, Persist, PersistFails, Respond, RespondFails
<1>4. CASE Tick \/ UNCHANGED vars
  BY <1>2, <1>4 DEF Tick, vars
<1>5. CASE Restart
  <2>1. log' = log /\ raised' = raised /\ restarts' = restarts + 1 /\ peers' = {}
    BY <1>5 DEF Restart
  <2>2. restarts \in Nat
    BY DEF Well, TypeOK
  <2>3. Peered'
    BY <2>1, <2>2 DEF Breaches, Peered, IntoSensors, Members
  <2>4. \A k \in DOMAIN log : BreachAt(k)' <=> BreachAt(k)
    BY <2>1 DEF BreachAt, IntoSensors, Raised
  <2> QED BY <2>1, <2>3, <2>4 DEF Breaches
<1> QED BY <1>1, <1>3, <1>4, <1>5 DEF Next, ObserveIgnored

\* A breach is raised with the first flow of an external source into the sensor
\* network, once for each run of the process, whatever else goes on.
THEOREM BreachCorrect == Spec => []BreachOnce
<1>1. Spec => [](Well /\ Breaches)
  BY WellInit, WellNext, BreachInit, BreachNext, PTL DEF Spec
<1>2. Breaches => BreachOnce
  BY DEF Breaches, BreachAt, IntoSensors, BreachOnce
<1> QED BY <1>1, <1>2, PTL

=============================================================================
