--------------------------- MODULE FlowWireProofs ---------------------------
(***************************************************************************)
(* Proofs about FlowWire, for any number of goroutines, any batches, sizes *)
(* of chunks, templates and sampling rates, and any width of the fields.   *)
(***************************************************************************)
EXTENDS FlowWire, FiniteSetTheorems, SequenceTheorems, TLAPS

-----------------------------------------------------------------------------
(* Chunks, division, and bytes.                                            *)

\* The end of a chunk.
LEMMA MinOfTwo ==
  ASSUME NEW a \in Nat, NEW b \in Nat
  PROVE  Min({a, b}) = IF a < b THEN a ELSE b
<1> DEFINE m == IF a < b THEN a ELSE b
<1>1. m \in {a, b} /\ \A y \in {a, b} : m <= y
  OBVIOUS
<1>2. \A x \in {a, b} : (\A y \in {a, b} : x <= y) => x = m
  OBVIOUS
<1> QED BY <1>1, <1>2 DEF Min

\* A chunk of what is left is not empty, no more than is left, and next in line.
LEMMA ChunkProperties ==
  ASSUME NEW B \in Seq(FlowRecord), NEW from \in Nat, from < Len(B), NEW size \in Nat \ {0}
  PROVE  LET C == Chunk(B, from, size)
         IN /\ C \in Seq(FlowRecord) /\ Len(C) \in Nat \ {0}
            /\ from + Len(C) <= Len(B)
            /\ C = SubSeq(B, from + 1, from + Len(C))
<1> DEFINE end == IF from + size < Len(B) THEN from + size ELSE Len(B)
           C   == Chunk(B, from, size)
<1>1. Len(B) \in Nat /\ end \in Nat /\ end <= Len(B) /\ from < end
  OBVIOUS
<1>2. C = SubSeq(B, from + 1, end)
  BY <1>1, MinOfTwo DEF Chunk
<1>3. \A i \in from + 1 .. end : B[i] \in FlowRecord
  BY <1>1
<1>4. C \in Seq(FlowRecord) /\ Len(C) = end - from
  BY <1>1, <1>2, <1>3, SubSeqProperties
<1> HIDE DEF C
<1>5. Len(C) \in Nat \ {0} /\ from + Len(C) = end
  BY <1>1, <1>4
<1> QED BY <1>1, <1>2, <1>4, <1>5 DEF C

\* Division, in the form the other proofs use.
LEMMA Division ==
  ASSUME NEW a \in Nat
  PROVE  /\ a = Wide * (a \div Wide) + (a % Wide)
         /\ a % Wide \in 0..(Wide - 1) /\ a \div Wide \in Nat
BY FlowWireAssumption

LEMMA DivisionUnique ==
  ASSUME NEW q \in Int, NEW r \in 0..(Wide - 1), NEW a \in Int, a = Wide * q + r
  PROVE  a % Wide = r /\ a \div Wide = q
BY FlowWireAssumption

\* A counter that wraps counts modulo its width.
LEMMA WrappedSum ==
  ASSUME NEW a \in Nat, NEW n \in Nat
  PROVE  ((a % Wide) + n) % Wide = (a + n) % Wide
<1>1. /\ a = Wide * (a \div Wide) + (a % Wide)
      /\ a % Wide \in Nat /\ a \div Wide \in Nat /\ Wide \in Nat
  BY Division, FlowWireAssumption
<1> DEFINE b == (a % Wide) + n
<1>2. b \in Nat /\ b = Wide * (b \div Wide) + (b % Wide)
      /\ b % Wide \in 0..(Wide - 1) /\ b \div Wide \in Nat
  BY <1>1, Division
<1>3. a + n = Wide * ((a \div Wide) + (b \div Wide)) + (b % Wide)
  BY <1>1, <1>2
<1>4. (a \div Wide) + (b \div Wide) \in Int /\ a + n \in Int
  BY <1>1, <1>2
<1> HIDE DEF b
<1>5. (a + n) % Wide = b % Wide
  BY <1>2, <1>3, <1>4, DivisionUnique
<1> QED BY <1>5 DEF b

\* A record has at least the bytes of each of its fields, and at least one.
LEMMA RecordBytes ==
  ASSUME NEW T \in Templates
  PROVE  /\ RecordLen(T) \in Nat \ {0}
         /\ T \cap {"srcIP", "dstIP"} # {} => RecordLen(T) >= 4
<1>1. T \subseteq DOMAIN FieldLen /\ T # {}
  BY FlowWireAssumption
<1>2. \A f \in T : FieldLen[f] \in 1..8
  BY <1>1 DEF FieldLen
<1>3. IsFiniteSet(BytesOf(T)) /\ Cardinality(BytesOf(T)) \in Nat
  <2>1. IsFiniteSet(DOMAIN FieldLen)
    <3>1. DOMAIN FieldLen =
            {"srcIP", "dstIP", "srcPort", "dstPort", "proto", "tos", "tcpFlags", "packets",
             "bytes", "flowStart", "flowEnd", "srcMAC", "dstMAC", "signalStrength",
             "encryptionStatus", "sensorStatus", "cpuLoad"}
      BY DEF FieldLen
    <3>2. \A a, b, c, d : IsFiniteSet({a, b, c, d})
      <4> TAKE a, b, c, d
      <4>1. IsFiniteSet({a})
        BY FS_Singleton
      <4>2. IsFiniteSet({a} \cup {b})
        BY <4>1, FS_AddElement
      <4>3. IsFiniteSet(({a} \cup {b}) \cup {c})
        BY <4>2, FS_AddElement
      <4>4. IsFiniteSet((({a} \cup {b}) \cup {c}) \cup {d})
        BY <4>3, FS_AddElement
      <4>5. ((({a} \cup {b}) \cup {c}) \cup {d}) = {a, b, c, d}
        OBVIOUS
      <4> QED BY <4>4, <4>5
    <3> DEFINE s1 == {"srcIP", "dstIP", "srcPort", "dstPort"}
               s2 == {"proto", "tos", "tcpFlags", "packets"}
               s3 == {"bytes", "flowStart", "flowEnd", "srcMAC"}
               s4 == {"dstMAC", "signalStrength", "encryptionStatus", "sensorStatus"}
               s5 == {"cpuLoad"}
    <3>3. DOMAIN FieldLen = (((s1 \cup s2) \cup s3) \cup s4) \cup s5
      BY <3>1
    <3>4. /\ IsFiniteSet(s1) /\ IsFiniteSet(s2) /\ IsFiniteSet(s3) /\ IsFiniteSet(s4)
          /\ IsFiniteSet(s5)
      BY <3>2, FS_Singleton
    <3> HIDE DEF s1, s2, s3, s4, s5
    <3>5. IsFiniteSet(s1 \cup s2)
      BY <3>4, FS_Union
    <3>6. IsFiniteSet((s1 \cup s2) \cup s3)
      BY <3>4, <3>5, FS_Union
    <3>7. IsFiniteSet(((s1 \cup s2) \cup s3) \cup s4)
      BY <3>4, <3>6, FS_Union
    <3> QED BY <3>3, <3>4, <3>7, FS_Union
  <2>2. IsFiniteSet(1..8)
    BY 1 \in Int, 8 \in Int, FS_Interval
  <2>3. IsFiniteSet((DOMAIN FieldLen) \X (1..8))
    BY <2>1, <2>2, FS_Product
  <2>4. BytesOf(T) \subseteq (DOMAIN FieldLen) \X (1..8)
    BY <1>1, <1>2 DEF BytesOf
  <2> QED BY <2>3, <2>4, FS_Subset, FS_CardinalityType
<1>4. ASSUME NEW f \in T PROVE RecordLen(T) >= FieldLen[f]
  <2>1. IsFiniteSet({f}) /\ Cardinality({f}) = 1
    BY FS_Singleton
  <2>2. IsFiniteSet(1..FieldLen[f]) /\ Cardinality(1..FieldLen[f]) = FieldLen[f]
    BY <1>2, FS_Interval
  <2>3. Cardinality({f} \X (1..FieldLen[f])) = FieldLen[f]
    <3>1. Cardinality({f} \X (1..FieldLen[f])) = Cardinality({f}) * Cardinality(1..FieldLen[f])
      BY <2>1, <2>2, FS_Product
    <3> QED BY <1>2, <2>1, <2>2, <3>1
  <2>4. {f} \X (1..FieldLen[f]) \subseteq BytesOf(T)
    BY DEF BytesOf
  <2>5. Cardinality({f} \X (1..FieldLen[f])) <= Cardinality(BytesOf(T))
    BY <1>3, <2>4, FS_Subset
  <2> QED BY <2>3, <2>5 DEF RecordLen
<1>5. PICK f \in T : TRUE
  BY <1>1
<1>6. RecordLen(T) \in Nat \ {0}
  BY <1>2, <1>3, <1>4, <1>5 DEF RecordLen
<1>7. ASSUME T \cap {"srcIP", "dstIP"} # {} PROVE RecordLen(T) >= 4
  <2>1. PICK g \in T : g \in {"srcIP", "dstIP"}
    BY <1>7
  <2>2. FieldLen[g] = 4
    BY <2>1 DEF FieldLen
  <2> QED BY <1>4, <2>2
<1> QED BY <1>6, <1>7

-----------------------------------------------------------------------------
(* Datagrams.                                                              *)

Unsigned == 0..(Wide - 1)

NetFlowDatagram ==
  [protocol : {"netflow", "unsent"}, of : Batches, flows : Seq(FlowRecord), exportTime : Nat,
   seq : Unsigned, uptime : Unsigned,
   fields : Seq([first : Unsigned, last : Unsigned, packets : Unsigned])]

IpfixDatagram ==
  [protocol : {"ipfix"}, of : Batches, flows : Seq(FlowRecord), payload : Nat]

Datagram == NetFlowDatagram \cup IpfixDatagram

\* What the encoders put in a datagram.
Encodes(d) ==
  IF d.protocol = "ipfix"
  THEN d.payload = Len(d.flows) * RecordLen(template) + Padding(Len(d.flows) * RecordLen(template))
  ELSE /\ d.uptime = d.exportTime % Wide
       /\ d.fields = [i \in DOMAIN d.flows |->
                       [first   |-> d.flows[i].start % Wide, last |-> d.flows[i].last % Wide,
                        packets |-> d.flows[i].packets % Wide]]

\* The type invariant, with the datagrams.
WireType ==
  /\ TypeOK
  /\ wire \in Seq(Datagram)
  /\ \A e \in Exporters : pc[e] = "idle" <=> batch[e] = <<>>

\* What a callback is at: a batch, and records of it that are left.
LEMMA CallbackType ==
  ASSUME WireType, NEW e \in Exporters, pc[e] # "idle"
  PROVE  /\ batch[e] \in Batches /\ batch[e] \in Seq(FlowRecord)
         /\ sent[e] \in Nat /\ Len(batch[e]) \in Nat /\ sent[e] < Len(batch[e])
<1>1. batch[e] \in Batches
  BY DEF WireType, TypeOK
<1>2. batch[e] \in Seq(FlowRecord)
  BY <1>1, FlowWireAssumption
<1> QED BY <1>1, <1>2 DEF WireType, TypeOK

LEMMA NetFlowDatagramType ==
  ASSUME WireType, NEW B \in Batches, NEW C \in Seq(FlowRecord), NEW d, d = NetFlow(B, C)
  PROVE  /\ d \in Datagram /\ Encodes(d)
         /\ d.of = B /\ d.flows = C /\ d.protocol = "netflow" /\ d.seq = nfSeq
<1> DEFINE fields == [i \in DOMAIN C |->
             [first |-> C[i].start % Wide, last |-> C[i].last % Wide, packets |-> C[i].packets % Wide]]
<1>1. \A i \in DOMAIN C : /\ C[i].start \in Nat /\ C[i].last \in Nat /\ C[i].packets \in Nat
  <2>1. \A i \in DOMAIN C : C[i] \in FlowRecord
    OBVIOUS
  <2> QED BY <2>1 DEF FlowRecord
<1>2. \A i \in DOMAIN C : fields[i] \in [first : Unsigned, last : Unsigned, packets : Unsigned]
  BY <1>1, Division DEF Unsigned
<1>3. fields \in Seq([first : Unsigned, last : Unsigned, packets : Unsigned])
  BY <1>2, DOMAIN C = 1..Len(C)
<1>4. now \in Nat /\ now % Wide \in Unsigned /\ nfSeq \in Unsigned
  BY Division DEF WireType, TypeOK, Unsigned
<1> QED BY <1>3, <1>4 DEF NetFlow, Datagram, NetFlowDatagram, Encodes

Unsent(d) == [d EXCEPT !.protocol = "unsent"]

LEMMA UnsentDatagramType ==
  ASSUME WireType, NEW B \in Batches, NEW C \in Seq(FlowRecord),
         NEW d, d = Unsent(NetFlow(B, C))
  PROVE  /\ d \in Datagram /\ Encodes(d)
         /\ d.of = B /\ d.flows = C /\ d.protocol = "unsent" /\ d.seq = nfSeq
<1> DEFINE n == NetFlow(B, C)
<1>1. n = NetFlow(B, C) /\ n.protocol = "netflow" /\ n \in NetFlowDatagram /\ Encodes(n)
      /\ n.of = B /\ n.flows = C /\ n.seq = nfSeq
  BY NetFlowDatagramType DEF Datagram, IpfixDatagram
<1> HIDE DEF n
<1>2. d = [n EXCEPT !.protocol = "unsent"]
  BY <1>1 DEF Unsent
<1> QED BY <1>1, <1>2 DEF Datagram, NetFlowDatagram, Encodes

LEMMA IpfixDatagramType ==
  ASSUME WireType, NEW B \in Batches, NEW C \in Seq(FlowRecord), NEW d, d = Ipfix(B, C)
  PROVE  /\ d \in Datagram /\ Encodes(d)
         /\ d.of = B /\ d.flows = C /\ d.protocol = "ipfix"
<1>1. RecordLen(template) \in Nat /\ Len(C) \in Nat
  BY RecordBytes DEF WireType, TypeOK
<1>2. Len(C) * RecordLen(template) \in Nat
  BY <1>1
<1>3. Padding(Len(C) * RecordLen(template)) \in Nat
  BY <1>2 DEF Padding
<1> QED BY <1>2, <1>3 DEF Ipfix, Datagram, IpfixDatagram, Encodes

-----------------------------------------------------------------------------
(* Type correctness.                                                       *)

\* What a callback sends next, at either protocol.
LEMMA NextChunk ==
  ASSUME WireType, NEW e \in Exporters, pc[e] # "idle", NEW size \in Nat \ {0}
  PROVE  LET C == Chunk(batch[e], sent[e], size)
         IN /\ C \in Seq(FlowRecord) /\ Len(C) \in Nat \ {0}
            /\ sent[e] + Len(C) <= Len(batch[e])
            /\ C = SubSeq(batch[e], sent[e] + 1, sent[e] + Len(C))
BY CallbackType, ChunkProperties

\* A callback that goes on or leaves its protocol is at one, or idle.
LEMMA SendingType ==
  ASSUME WireType, NEW e \in Exporters, pc[e] # "idle", NEW C \in Seq(FlowRecord),
         Sending(e, C) \/ Leave(e, AfterError)
  PROVE  /\ pc' \in [Exporters -> {"idle", "netflow", "ipfix"}]
         /\ batch' \in [Exporters -> Batches \cup {<<>>}]
         /\ sent' \in [Exporters -> Nat]
         /\ \A x \in Exporters : IF pc'[x] = "idle" THEN sent'[x] = 0
                                 ELSE sent'[x] < Len(batch'[x])
         /\ \A x \in Exporters : pc'[x] = "idle" <=> batch'[x] = <<>>
<1>1. /\ pc \in [Exporters -> {"idle", "netflow", "ipfix"}]
      /\ batch \in [Exporters -> Batches \cup {<<>>}] /\ sent \in [Exporters -> Nat]
      /\ \A x \in Exporters : IF pc[x] = "idle" THEN sent[x] = 0 ELSE sent[x] < Len(batch[x])
      /\ \A x \in Exporters : pc[x] = "idle" <=> batch[x] = <<>>
      /\ pc[e] \in {"netflow", "ipfix"}
  BY DEF WireType, TypeOK
<1>2. Len(C) \in Nat /\ batch[e] \in Batches /\ Len(batch[e]) \in Nat /\ sent[e] \in Nat
      /\ sent[e] < Len(batch[e]) /\ batch[e] # <<>>
  BY <1>1, CallbackType
<1>3. \A to \in {NextProtocol, AfterError} : to["netflow"] = "ipfix" /\ to["ipfix"] = "idle"
  BY DEF NextProtocol, AfterError
<1>4. ASSUME NEW to \in {NextProtocol, AfterError}, Leave(e, to)
      PROVE  /\ pc' = [pc EXCEPT ![e] = IF pc[e] = "netflow" THEN "ipfix" ELSE "idle"]
             /\ sent' = [sent EXCEPT ![e] = 0]
             /\ batch' = [batch EXCEPT ![e] = IF pc[e] = "netflow" THEN batch[e] ELSE <<>>]
  BY <1>1, <1>3, <1>4 DEF Leave
<1>5. CASE Sending(e, C) /\ sent[e] + Len(C) < Len(batch[e])
  <2>1. sent' = [sent EXCEPT ![e] = sent[e] + Len(C)] /\ pc' = pc /\ batch' = batch
    BY <1>1, <1>5 DEF Sending
  <2> QED BY <1>1, <1>2, <1>5, <2>1
<1>6. CASE ~(Sending(e, C) /\ sent[e] + Len(C) < Len(batch[e]))
  <2>1. /\ pc' = [pc EXCEPT ![e] = IF pc[e] = "netflow" THEN "ipfix" ELSE "idle"]
        /\ sent' = [sent EXCEPT ![e] = 0]
        /\ batch' = [batch EXCEPT ![e] = IF pc[e] = "netflow" THEN batch[e] ELSE <<>>]
    BY <1>4, <1>6 DEF Sending
  <2>2. CASE pc[e] = "netflow"
    <3>1. /\ pc' = [pc EXCEPT ![e] = "ipfix"] /\ sent' = [sent EXCEPT ![e] = 0]
          /\ batch' = [batch EXCEPT ![e] = batch[e]] /\ batch' = batch
      BY <1>1, <2>1, <2>2
    <3> QED BY <1>1, <1>2, <3>1
  <2>3. CASE pc[e] = "ipfix"
    <3>1. /\ pc' = [pc EXCEPT ![e] = "idle"] /\ sent' = [sent EXCEPT ![e] = 0]
          /\ batch' = [batch EXCEPT ![e] = <<>>]
      BY <1>1, <2>1, <2>3
    <3> QED BY <1>1, <1>2, <3>1
  <2> QED BY <1>1, <2>2, <2>3
<1> QED BY <1>5, <1>6

\* The sequence number stays in its field.
LEMMA NextSeqType ==
  ASSUME NEW n \in Nat, nfSeq \in Unsigned PROVE NextSeq(n) \in Unsigned
BY Division, FlowWireAssumption DEF NextSeq, Unsigned

\* What a step does to the datagrams: nothing, or one more, as it is encoded.
LEMMA WireStep ==
  ASSUME WireType, [Next]_vars
  PROVE  \/ wire' = wire
         \/ \E d \in Datagram : wire' = Append(wire, d) /\ Encodes(d)
<1> DEFINE One(d) == d \in Datagram /\ wire' = Append(wire, d) /\ Encodes(d)
<1>1. ASSUME NEW e \in Exporters, SendNetFlow(e) PROVE \E d : One(d)
  <2> DEFINE C == Chunk(batch[e], sent[e], NfMaxPerPkt)
             d == NetFlow(batch[e], C)
  <2>1. pc[e] # "idle" /\ wire' = Append(wire, d)
    BY <1>1 DEF SendNetFlow
  <2>2. C \in Seq(FlowRecord) /\ batch[e] \in Batches /\ d = NetFlow(batch[e], C)
    BY <2>1, CallbackType, NextChunk, FlowWireAssumption
  <2> HIDE DEF C, d
  <2> QED BY <2>1, <2>2, NetFlowDatagramType
<1>2. ASSUME NEW e \in Exporters, SendIpfix(e) PROVE \E d : One(d)
  <2> DEFINE C == Chunk(batch[e], sent[e], IpfixChunk)
             d == Ipfix(batch[e], C)
  <2>1. pc[e] # "idle" /\ wire' = Append(wire, d)
    BY <1>2 DEF SendIpfix
  <2>2. C \in Seq(FlowRecord) /\ batch[e] \in Batches /\ d = Ipfix(batch[e], C)
    BY <2>1, CallbackType, NextChunk, FlowWireAssumption
  <2> HIDE DEF C, d
  <2> QED BY <2>1, <2>2, IpfixDatagramType
<1>3. ASSUME NEW e \in Exporters, SendFails(e) PROVE wire' = wire \/ \E d : One(d)
  <2> DEFINE C == Chunk(batch[e], sent[e], NfMaxPerPkt)
             d == Unsent(NetFlow(batch[e], C))
  <2>1. pc[e] # "idle" /\ (wire' = wire \/ wire' = Append(wire, d))
    BY <1>3 DEF SendFails, Unsent
  <2>2. /\ C \in Seq(FlowRecord) /\ batch[e] \in Batches
        /\ d = Unsent(NetFlow(batch[e], C))
    BY <2>1, CallbackType, NextChunk, FlowWireAssumption
  <2> HIDE DEF C, d
  <2> QED BY <2>1, <2>2, UnsentDatagramType
<1>4. ASSUME NEW e \in Exporters, NEW B \in Batches, Begin(e, B) PROVE wire' = wire
  BY <1>4 DEF Begin
<1>5. CASE Sample \/ Tick \/ UNCHANGED vars
  BY <1>5 DEF Sample, Tick, vars, callbacks
<1> QED BY <1>1, <1>2, <1>3, <1>4, <1>5 DEF Next

LEMMA WireInit == Init => WireType
BY FlowWireAssumption DEF Init, WireType, TypeOK

LEMMA WireNext == WireType /\ [Next]_vars => WireType'
<1> SUFFICES ASSUME WireType, [Next]_vars PROVE WireType'
  OBVIOUS
<1>1. wire' \in Seq(Datagram)
  BY WireStep DEF WireType
<1>2. TypeOK /\ \A e \in Exporters : pc[e] = "idle" <=> batch[e] = <<>>
  BY DEF WireType
<1>3. nfSeq \in Unsigned
  BY <1>2 DEF TypeOK, Unsigned
<1>4. ASSUME NEW e \in Exporters, NEW B \in Batches, Begin(e, B) PROVE WireType'
  <2>1. B \in Seq(FlowRecord) /\ Len(B) \in Nat \ {0} /\ B # <<>>
    BY FlowWireAssumption
  <2>2. /\ pc' = [pc EXCEPT ![e] = "netflow"] /\ batch' = [batch EXCEPT ![e] = B]
        /\ exported' = exported \cup {B} /\ pc[e] = "idle"
        /\ UNCHANGED <<now, sent, nfSeq, template, rate, pool, counter, sfDatagrams>>
    BY <1>4 DEF Begin, sampler
  <2>3. TypeOK'
    BY <1>2, <2>1, <2>2 DEF TypeOK
  <2> QED BY <1>1, <1>2, <2>1, <2>2, <2>3 DEF WireType, TypeOK
<1>5. ASSUME NEW e \in Exporters, NEW C \in Seq(FlowRecord), pc[e] # "idle",
             Sending(e, C) \/ Leave(e, AfterError),
             UNCHANGED <<now, template, rate, sampler, exported>>, nfSeq' \in Unsigned
      PROVE  WireType'
  <2>1. /\ pc' \in [Exporters -> {"idle", "netflow", "ipfix"}]
        /\ batch' \in [Exporters -> Batches \cup {<<>>}]
        /\ sent' \in [Exporters -> Nat]
        /\ \A x \in Exporters : IF pc'[x] = "idle" THEN sent'[x] = 0
                                ELSE sent'[x] < Len(batch'[x])
        /\ \A x \in Exporters : pc'[x] = "idle" <=> batch'[x] = <<>>
    BY <1>5, SendingType
  <2>2. TypeOK'
    BY <1>2, <1>5, <2>1 DEF TypeOK, sampler, Unsigned
  <2> QED BY <1>1, <2>1, <2>2 DEF WireType
<1>6. ASSUME NEW e \in Exporters, SendNetFlow(e) PROVE WireType'
  <2> DEFINE C == Chunk(batch[e], sent[e], NfMaxPerPkt)
  <2>1. C \in Seq(FlowRecord) /\ Len(C) \in Nat
    BY <1>6, NextChunk, FlowWireAssumption DEF SendNetFlow
  <2>2. /\ pc[e] # "idle" /\ Sending(e, C) /\ UNCHANGED <<now, template, rate, sampler, exported>>
        /\ nfSeq' = NextSeq(Len(C))
    BY <1>6 DEF SendNetFlow
  <2> HIDE DEF C
  <2> QED BY <1>3, <1>5, <2>1, <2>2, NextSeqType
<1>7. ASSUME NEW e \in Exporters, SendIpfix(e) PROVE WireType'
  <2> DEFINE C == Chunk(batch[e], sent[e], IpfixChunk)
  <2>1. C \in Seq(FlowRecord)
    BY <1>7, NextChunk, FlowWireAssumption DEF SendIpfix
  <2>2. /\ pc[e] # "idle" /\ Sending(e, C) /\ UNCHANGED <<now, template, rate, sampler, exported>>
        /\ nfSeq' = nfSeq
    BY <1>7 DEF SendIpfix
  <2> HIDE DEF C
  <2> QED BY <1>3, <1>5, <2>1, <2>2
<1>8. ASSUME NEW e \in Exporters, SendFails(e) PROVE WireType'
  <2> DEFINE C == Chunk(batch[e], sent[e], NfMaxPerPkt)
  <2>1. C \in Seq(FlowRecord) /\ Len(C) \in Nat
    BY <1>8, NextChunk, FlowWireAssumption DEF SendFails
  <2>2. /\ pc[e] # "idle" /\ Leave(e, AfterError)
        /\ UNCHANGED <<now, template, rate, sampler, exported>>
        /\ nfSeq' \in {nfSeq, NextSeq(Len(C))}
    BY <1>8 DEF SendFails
  <2> HIDE DEF C
  <2> QED BY <1>3, <1>5, <2>1, <2>2, NextSeqType
<1>9. CASE Sample
  <2>1. rate \in Nat
    BY <1>2, FlowWireAssumption DEF TypeOK
  <2>2. pool' \in Nat /\ sfDatagrams' \in Nat /\ counter' \in Nat
        /\ (counter' < rate \/ counter' = 0)
    BY <1>2, <1>9, <2>1 DEF Sample, Due, TypeOK
  <2> QED BY <1>1, <1>2, <1>9, <2>2 DEF Sample, callbacks, TypeOK, WireType
<1>10. CASE Tick
  BY <1>1, <1>2, <1>10 DEF Tick, callbacks, sampler, TypeOK, WireType
<1>11. CASE UNCHANGED vars
  BY <1>1, <1>2, <1>11 DEF vars, callbacks, sampler, TypeOK, WireType
<1> QED BY <1>4, <1>6, <1>7, <1>8, <1>9, <1>10, <1>11 DEF Next

\* The type invariant holds of every behaviour.
THEOREM TypeCorrect == Spec => []TypeOK
<1>1. WireType => TypeOK
  BY DEF WireType
<1> QED BY <1>1, WireInit, WireNext, PTL DEF Spec

-----------------------------------------------------------------------------
(* The sampler.                                                            *)

\* Every packet seen is in a sample sent, or counted for the next one.
Sampled == pool = IF rate = 0 THEN sfDatagrams ELSE sfDatagrams * rate + counter

LEMMA SampledNext == TypeOK /\ Sampled /\ [Next]_vars => Sampled'
<1> SUFFICES ASSUME TypeOK, Sampled, [Next]_vars PROVE Sampled'
  OBVIOUS
<1>1. /\ rate \in Nat /\ pool \in Nat /\ counter \in Nat /\ sfDatagrams \in Nat
      /\ counter < rate \/ counter = 0
  BY FlowWireAssumption DEF TypeOK
<1>2. CASE Sample
  <2>1. rate' = rate /\ pool' = pool + 1
    BY <1>2 DEF Sample
  <2>2. CASE Due
    <3>1. counter' = 0 /\ sfDatagrams' = sfDatagrams + 1 /\ counter + 1 >= rate
      BY <1>2, <2>2 DEF Sample, Due
    <3>2. rate # 0 => counter + 1 = rate
      BY <1>1, <3>1
    <3>3. rate # 0 => sfDatagrams' * rate + counter' = (sfDatagrams * rate + counter) + 1
      BY <1>1, <3>1, <3>2
    <3> QED BY <1>1, <2>1, <3>1, <3>3 DEF Sampled
  <2>3. CASE ~Due
    <3>1. counter' = counter + 1 /\ sfDatagrams' = sfDatagrams /\ counter + 1 < rate
      BY <1>1, <1>2, <2>3 DEF Sample, Due
    <3>2. rate # 0 /\ sfDatagrams * rate \in Nat
      BY <1>1, <3>1
    <3> QED BY <1>1, <2>1, <3>1, <3>2 DEF Sampled
  <2> QED BY <2>2, <2>3
<1>3. ASSUME UNCHANGED <<rate, pool, counter, sfDatagrams>> PROVE Sampled'
  BY <1>3 DEF Sampled
<1> QED BY <1>2, <1>3 DEF Next, Begin, SendNetFlow, SendIpfix, SendFails, Tick, vars, sampler

\* For every sampling rate: the samples stand for the packets seen, but for
\* fewer than one in `rate`.
THEOREM SampleCorrect == Spec => []SampleEstimate
<1>1. Init => Sampled
  BY FlowWireAssumption DEF Init, Sampled
<1>2. Spec => [](TypeOK /\ Sampled)
  BY <1>1, SampledNext, TypeCorrect, PTL DEF Spec
<1>3. TypeOK /\ Sampled => SampleEstimate
  <2> SUFFICES ASSUME TypeOK, Sampled PROVE SampleEstimate
    OBVIOUS
  <2>1. /\ rate \in Nat /\ pool \in Nat /\ counter \in Nat /\ sfDatagrams \in Nat
        /\ (counter < rate \/ counter = 0) /\ sfDatagrams * rate \in Nat
    BY FlowWireAssumption DEF TypeOK
  <2>2. CASE rate = 0
    BY <2>1, <2>2 DEF Sampled, SampleEstimate, SampledPackets
  <2>3. CASE rate # 0
    <3>1. pool = sfDatagrams * rate + counter
      BY <2>3 DEF Sampled
    <3> QED BY <2>1, <2>3, <3>1 DEF SampleEstimate, SampledPackets
  <2> QED BY <2>2, <2>3
<1> QED BY <1>2, <1>3, PTL

-----------------------------------------------------------------------------
(* Decoding.                                                               *)

Decodable == \A k \in DOMAIN wire : Encodes(wire[k])

LEMMA DecodableNext == WireType /\ Decodable /\ [Next]_vars => Decodable'
<1> SUFFICES ASSUME WireType, Decodable, [Next]_vars PROVE Decodable'
  OBVIOUS
<1>1. template' = template
  BY DEF Next, Begin, SendNetFlow, SendIpfix, SendFails, Sample, Tick, vars
<1>2. \A d : Encodes(d)' <=> Encodes(d)
  BY <1>1 DEF Encodes
<1>3. CASE wire' = wire
  BY <1>2, <1>3 DEF Decodable, Encodes, Padding, RecordLen, BytesOf
<1>4. ASSUME NEW d \in Datagram, wire' = Append(wire, d), Encodes(d) PROVE Decodable'
  <2>1. /\ wire \in Seq(Datagram) /\ Len(wire) \in Nat /\ DOMAIN wire' = 1..(Len(wire) + 1)
        /\ wire'[Len(wire) + 1] = d /\ \A k \in 1..Len(wire) : wire'[k] = wire[k]
    BY <1>4 DEF WireType
  <2>2. \A k \in DOMAIN wire' : wire'[k] = d \/ (k \in DOMAIN wire /\ wire'[k] = wire[k])
    BY <2>1
  <2>3. \A k \in DOMAIN wire' : Encodes(wire'[k])
    BY <1>4, <2>2 DEF Decodable
  <2> QED BY <1>1, <2>3 DEF Decodable, Encodes, RecordLen
<1> QED BY <1>3, <1>4, WireStep

\* A time that was reduced, as an offset from an export time reduced likewise.
LEMMA TimeDecoded ==
  ASSUME NEW t \in Nat, NEW x \in Nat
  PROVE  x + ((t % Wide) - (x % Wide)) = t + Wide * ((x \div Wide) - (t \div Wide))
<1> DEFINE qt == t \div Wide
           rt == t % Wide
           qx == x \div Wide
           rx == x % Wide
<1>1. /\ t = Wide * qt + rt /\ x = Wide * qx + rx /\ qt \in Nat /\ qx \in Nat
      /\ rt \in Nat /\ rx \in Nat /\ Wide \in Nat
  BY Division, FlowWireAssumption
<1> HIDE DEF qt, rt, qx, rx
<1>2. Wide * (qx - qt) = (Wide * qx) - (Wide * qt)
  BY <1>1
<1>3. Wide * qx \in Nat /\ Wide * qt \in Nat
  BY <1>1
<1>4. x + (rt - rx) = t + Wide * (qx - qt)
  BY <1>1, <1>2, <1>3
<1> QED BY <1>4 DEF qt, rt, qx, rx

\* A counter that was reduced is less by a multiple of the width.
LEMMA CounterDecoded ==
  ASSUME NEW p \in Nat
  PROVE  p % Wide <= p /\ (p - (p % Wide)) % Wide = 0
<1>1. /\ p = Wide * (p \div Wide) + (p % Wide) /\ p \div Wide \in Nat /\ p % Wide \in Nat
      /\ Wide \in Nat \ {0} /\ Wide * (p \div Wide) \in Nat
  BY Division, FlowWireAssumption
<1> DEFINE m == p - (p % Wide)
           q == p \div Wide
<1>2. m = Wide * q + 0 /\ q \in Int
  BY <1>1
<1>3. 0 \in 0..(Wide - 1) /\ m \in Int
  BY <1>1
<1> HIDE DEF m, q
<1>4. m % Wide = 0
  BY <1>2, <1>3, DivisionUnique
<1> QED BY <1>1, <1>4 DEF m

\* The records found in a padded set: those in it, or more when they have no
\* more bytes than the padding.
LEMMA PaddingDecoded ==
  ASSUME NEW n \in Nat, NEW len \in Nat \ {0}
  PROVE  LET found == (n * len + Padding(n * len)) \div len
         IN found = n \/ (found > n /\ len < 4)
<1> DEFINE bytes == n * len
           pad   == Padding(bytes)
           found == (bytes + pad) \div len
<1>1. bytes \in Nat
  OBVIOUS
<1>2. pad \in 0..3
  BY <1>1 DEF Padding
<1> HIDE DEF pad
<1>3. CASE pad < len
  <2>1. found = n
    BY <1>1, <1>2, <1>3
  <2> QED BY <2>1 DEF pad
<1>4. CASE pad >= len
  <2>1. (bytes + pad) = len * found + ((bytes + pad) % len) /\ found \in Nat
        /\ (bytes + pad) % len \in 0..(len - 1)
    BY <1>1, <1>2
  <2>2. len < 4
    BY <1>2, <1>4
  <2>3. ASSUME found <= n PROVE FALSE
    <3>1. len * found <= n * len
      BY <2>1, <2>3
    <3> QED BY <1>1, <1>2, <1>4, <2>1, <3>1
  <2> QED BY <2>1, <2>2, <2>3 DEF pad
<1> QED BY <1>2, <1>3, <1>4

\* For every width of the fields, and every template: what the collector
\* decodes is what was sent, up to the width and the padding.
THEOREM DecodedCorrect == Spec => []DecodedAsSent
<1>1. Init => Decodable
  BY DEF Init, Decodable
<1>2. Spec => [](WireType /\ Decodable)
  BY <1>1, WireInit, WireNext, DecodableNext, PTL DEF Spec
<1>3. WireType /\ Decodable => DecodedAsSent
  <2> SUFFICES ASSUME WireType, Decodable PROVE DecodedAsSent
    OBVIOUS
  <2>1. \A k \in DOMAIN wire : wire[k] \in Datagram
    BY DEF WireType
  <2>2. ASSUME NEW k \in SentAs("netflow"), NEW i \in DOMAIN wire[k].flows
        PROVE  LET f == wire[k].flows[i]
                   s == ParseNetFlow(wire[k])[i]
               IN /\ s.start = f.start + Wide * Wraps(f.start, wire[k])
                  /\ s.last = f.last + Wide * Wraps(f.last, wire[k])
                  /\ s.packets <= f.packets /\ (f.packets - s.packets) % Wide = 0
    <3> DEFINE d == wire[k]
               f == d.flows[i]
    <3>1. d \in NetFlowDatagram /\ d.protocol = "netflow" /\ Encodes(d)
      BY <2>1, <2>2 DEF SentAs, Datagram, IpfixDatagram, Decodable
    <3>2. d.flows \in Seq(FlowRecord) /\ d.exportTime \in Nat
      BY <3>1 DEF NetFlowDatagram
    <3>3. f \in FlowRecord
      BY <2>2, <3>2
    <3>4. f.start \in Nat /\ f.last \in Nat /\ f.packets \in Nat
      BY <3>3 DEF FlowRecord
    <3>5. /\ d.uptime = d.exportTime % Wide /\ i \in DOMAIN d.fields
          /\ d.fields[i] = [first   |-> f.start % Wide, last |-> f.last % Wide,
                            packets |-> f.packets % Wide]
      BY <2>2, <3>1 DEF Encodes
    <3> HIDE DEF d, f
    <3>6. ParseNetFlow(d)[i] =
            [start   |-> d.exportTime + ((f.start % Wide) - (d.exportTime % Wide)),
             last    |-> d.exportTime + ((f.last % Wide) - (d.exportTime % Wide)),
             packets |-> f.packets % Wide]
      BY <3>5 DEF ParseNetFlow
    <3>7. /\ ParseNetFlow(d)[i].start = f.start + Wide * Wraps(f.start, d)
          /\ ParseNetFlow(d)[i].last = f.last + Wide * Wraps(f.last, d)
      BY <3>2, <3>4, <3>6, TimeDecoded DEF Wraps
    <3>8. ParseNetFlow(d)[i].packets = f.packets % Wide
      BY <3>6
    <3>9. f.packets % Wide <= f.packets /\ (f.packets - (f.packets % Wide)) % Wide = 0
      BY <3>4, CounterDecoded
    <3> QED BY <3>7, <3>8, <3>9 DEF d, f
  <2>3. ASSUME NEW k \in SentAs("ipfix")
        PROVE  LET n == Len(wire[k].flows)
               IN \/ ParsedIpfix(wire[k]) = n
                  \/ /\ ParsedIpfix(wire[k]) > n
                     /\ RecordLen(template) < 4 /\ template \cap {"srcIP", "dstIP"} = {}
    <3> DEFINE n   == Len(wire[k].flows)
               len == RecordLen(template)
    <3>1. wire[k].flows \in Seq(FlowRecord) /\ wire[k].protocol = "ipfix" /\ Encodes(wire[k])
      BY <2>1, <2>3 DEF SentAs, Datagram, IpfixDatagram, NetFlowDatagram, Decodable
    <3>2. n \in Nat /\ wire[k].payload = n * len + Padding(n * len)
      BY <3>1 DEF Encodes
    <3>3. len \in Nat \ {0} /\ (template \cap {"srcIP", "dstIP"} # {} => len >= 4)
      BY RecordBytes DEF WireType, TypeOK
    <3>4. ParsedIpfix(wire[k]) = (n * len + Padding(n * len)) \div len
      BY <3>2 DEF ParsedIpfix
    <3> HIDE DEF n, len
    <3>5. ParsedIpfix(wire[k]) = n \/ (ParsedIpfix(wire[k]) > n /\ len < 4)
      BY <3>2, <3>3, <3>4, PaddingDecoded
    <3>6. ~(len < 4 /\ len >= 4)
      BY <3>3
    <3> QED BY <3>3, <3>5, <3>6 DEF n, len
  <2> QED BY <2>2, <2>3 DEF DecodedAsSent
<1> QED BY <1>2, <1>3, PTL

-----------------------------------------------------------------------------
(* Counting flow records.                                                  *)

\* The flow records in the datagrams of w at the positions K.
FlowsAt(w, K) == UNION {{k} \X DOMAIN w[k].flows : k \in K}

\* They are finitely many.
LEMMA FlowsFinite ==
  ASSUME NEW w \in Seq(Datagram), NEW K, K \subseteq DOMAIN w
  PROVE  IsFiniteSet(FlowsAt(w, K)) /\ Cardinality(FlowsAt(w, K)) \in Nat
<1> DEFINE F == [k \in K |-> {k} \X DOMAIN w[k].flows]
           S == {{k} \X DOMAIN w[k].flows : k \in K}
<1>1. IsFiniteSet(K)
  <2>1. IsFiniteSet(1..Len(w))
    BY FS_Interval
  <2> QED BY <2>1, FS_Subset
<1>2. F \in Surjection(K, S)
  BY DEF Surjection
<1>3. IsFiniteSet(S)
  BY <1>1, <1>2, FS_Surjection
<1>4. ASSUME NEW k \in K PROVE IsFiniteSet({k} \X DOMAIN w[k].flows)
  <2>1. w[k].flows \in Seq(FlowRecord)
    BY DEF Datagram, NetFlowDatagram, IpfixDatagram
  <2>2. IsFiniteSet(1..Len(w[k].flows)) /\ DOMAIN w[k].flows = 1..Len(w[k].flows)
    BY <2>1, FS_Interval
  <2> QED BY <2>2, FS_Singleton, FS_Product
<1>5. \A T \in S : IsFiniteSet(T)
  BY <1>4
<1> HIDE DEF S
<1>6. IsFiniteSet(UNION S)
  BY <1>3, <1>5, FS_UNION
<1> QED BY <1>6, FS_CardinalityType DEF S, FlowsAt

\* One more datagram brings as many as it has.
LEMMA FlowsAppend ==
  ASSUME NEW w \in Seq(Datagram), NEW d \in Datagram, NEW K, K \subseteq DOMAIN w
  PROVE  LET n == Len(w) + 1
         IN /\ FlowsAt(Append(w, d), K) = FlowsAt(w, K)
            /\ Cardinality(FlowsAt(Append(w, d), K \cup {n}))
                 = Cardinality(FlowsAt(w, K)) + Len(d.flows)
<1> DEFINE n == Len(w) + 1
           v == Append(w, d)
<1>1. /\ Len(w) \in Nat /\ DOMAIN w = 1..Len(w) /\ v \in Seq(Datagram) /\ v[n] = d
      /\ DOMAIN v = 1..n /\ \A k \in DOMAIN w : v[k] = w[k]
  OBVIOUS
<1>2. d.flows \in Seq(FlowRecord)
  BY DEF Datagram, NetFlowDatagram, IpfixDatagram
<1>3. n \notin K /\ K \cup {n} \subseteq DOMAIN v
  BY <1>1
<1> HIDE DEF v, n
<1>4. FlowsAt(v, K) = FlowsAt(w, K)
  BY <1>1 DEF FlowsAt
<1>5. FlowsAt(v, K \cup {n}) = FlowsAt(v, K) \cup ({n} \X DOMAIN d.flows)
  BY <1>1 DEF FlowsAt
<1>6. FlowsAt(v, K) \cap ({n} \X DOMAIN d.flows) = {}
  BY <1>3 DEF FlowsAt
<1>7. IsFiniteSet({n} \X DOMAIN d.flows) /\ Cardinality({n} \X DOMAIN d.flows) = Len(d.flows)
  <2>1. DOMAIN d.flows = 1..Len(d.flows) /\ Len(d.flows) \in Nat
    BY <1>2
  <2>2. IsFiniteSet(DOMAIN d.flows) /\ Cardinality(DOMAIN d.flows) = Len(d.flows)
    BY <2>1, FS_Interval
  <2>3. IsFiniteSet({n}) /\ Cardinality({n}) = 1
    BY FS_Singleton
  <2>4. /\ IsFiniteSet({n} \X DOMAIN d.flows)
        /\ Cardinality({n} \X DOMAIN d.flows) = Cardinality({n}) * Cardinality(DOMAIN d.flows)
    BY <2>2, <2>3, FS_Product
  <2> QED BY <2>1, <2>2, <2>3, <2>4
<1>8. IsFiniteSet(FlowsAt(w, K)) /\ Cardinality(FlowsAt(w, K)) \in Nat
  BY FlowsFinite
<1> DEFINE old == FlowsAt(v, K)
           new == {n} \X DOMAIN d.flows
<1>9. Cardinality(old \cup new)
        = Cardinality(old) + Cardinality(new) - Cardinality(old \cap new)
  BY <1>4, <1>7, <1>8, FS_Union
<1>10. Cardinality(old \cap new) = 0 /\ Len(d.flows) \in Nat /\ Cardinality(old) \in Nat
  <2>1. old \cap new = {}
    BY <1>6
  <2>2. Len(d.flows) \in Nat
    BY <1>2
  <2>3. Cardinality(old) \in Nat
    BY <1>4, <1>8
  <2> HIDE DEF old, new
  <2> QED BY <2>1, <2>2, <2>3, FS_EmptySet
<1>11. Cardinality(FlowsAt(v, K \cup {n})) = Cardinality(FlowsAt(w, K)) + Len(d.flows)
  <2>1. /\ FlowsAt(v, K \cup {n}) = old \cup new /\ Cardinality(old) = Cardinality(FlowsAt(w, K))
        /\ Cardinality(new) = Len(d.flows)
    BY <1>4, <1>5, <1>7
  <2> HIDE DEF old, new
  <2>2. Cardinality(old \cup new) = Cardinality(old) + Len(d.flows)
    BY <1>9, <1>10, <2>1
  <2> QED BY <2>1, <2>2
<1> QED BY <1>4, <1>11 DEF v, n

Count(w, K) == Cardinality(FlowsAt(w, K))

LEMMA CountAppend ==
  ASSUME NEW w \in Seq(Datagram), NEW d \in Datagram, NEW K, K \subseteq DOMAIN w
  PROVE  /\ Count(w, K) \in Nat
         /\ Count(Append(w, d), K) = Count(w, K)
         /\ Count(Append(w, d), K \cup {Len(w) + 1}) = Count(w, K) + Len(d.flows)
BY FlowsFinite, FlowsAppend DEF Count

\* The sequence number is the number of all flow records encoded so far.
Numbers ==
  /\ nfSeq = Count(wire, Encoded) % Wide
  /\ \A k \in Encoded : wire[k].seq = Count(wire, Before(Encoded, k)) % Wide

\* It goes up by the flows of a datagram as that is encoded.
LEMMA NumbersEncode ==
  ASSUME WireType, Numbers, NEW d \in Datagram, wire' = Append(wire, d),
         d.protocol \in {"netflow", "unsent"}, d.seq = nfSeq, nfSeq' = NextSeq(Len(d.flows))
  PROVE  Numbers'
<1> DEFINE n == Len(wire) + 1
<1>1. /\ wire \in Seq(Datagram) /\ Len(wire) \in Nat /\ DOMAIN wire = 1..Len(wire)
      /\ DOMAIN wire' = 1..n /\ wire'[n] = d /\ \A k \in 1..Len(wire) : wire'[k] = wire[k]
  BY DEF WireType
<1>2. Encoded \subseteq DOMAIN wire /\ Encoded' = Encoded \cup {n}
  BY <1>1 DEF Encoded, SentAs
<1>3. \A k \in Encoded : Before(Encoded', k) = Before(Encoded, k)
  BY <1>1, <1>2 DEF Before
<1>4. Before(Encoded', n) = Encoded
  BY <1>1, <1>2 DEF Before
<1>5. \A K : K \subseteq DOMAIN wire => /\ Count(wire', K) = Count(wire, K)
                                        /\ Count(wire, K) \in Nat
                                        /\ Count(wire', K \cup {n}) = Count(wire, K) + Len(d.flows)
  BY <1>1, CountAppend
<1>6. nfSeq' = Count(wire', Encoded') % Wide
  <2>1. d.flows \in Seq(FlowRecord)
    BY DEF Datagram, NetFlowDatagram, IpfixDatagram
  <2>2. Len(d.flows) \in Nat /\ Count(wire, Encoded) \in Nat
        /\ Count(wire', Encoded') = Count(wire, Encoded) + Len(d.flows)
    BY <1>2, <1>5, <2>1
  <2>3. nfSeq' = ((Count(wire, Encoded) % Wide) + Len(d.flows)) % Wide
    BY DEF Numbers, NextSeq
  <2> QED BY <2>2, <2>3, WrappedSum
<1>7. \A k \in Encoded' : wire'[k].seq = Count(wire', Before(Encoded', k)) % Wide
  <2>1. wire'[n].seq = Count(wire', Before(Encoded', n)) % Wide
    BY <1>1, <1>2, <1>4, <1>5 DEF Numbers
  <2>2. ASSUME NEW k \in Encoded
        PROVE  wire'[k].seq = Count(wire', Before(Encoded', k)) % Wide
    <3>1. Before(Encoded, k) \subseteq DOMAIN wire
      BY <1>2 DEF Before
    <3> QED BY <1>1, <1>2, <1>3, <1>5, <3>1 DEF Numbers
  <2> QED BY <1>2, <2>1, <2>2
<1> QED BY <1>6, <1>7 DEF Numbers, Before

LEMMA NumbersNext == WireType /\ Numbers /\ [Next]_vars => Numbers'
<1> SUFFICES ASSUME WireType, Numbers, [Next]_vars PROVE Numbers'
  OBVIOUS
<1>1. ASSUME UNCHANGED <<nfSeq, wire>> PROVE Numbers'
  BY <1>1 DEF Numbers, Encoded, SentAs, Before
<1>2. ASSUME NEW e \in Exporters, SendNetFlow(e) PROVE Numbers'
  <2> DEFINE C == Chunk(batch[e], sent[e], NfMaxPerPkt)
             d == NetFlow(batch[e], C)
  <2>1. pc[e] # "idle" /\ nfSeq' = NextSeq(Len(C)) /\ wire' = Append(wire, d)
    BY <1>2 DEF SendNetFlow
  <2>2. C \in Seq(FlowRecord) /\ batch[e] \in Batches
    BY <2>1, CallbackType, NextChunk, FlowWireAssumption
  <2>3. d = NetFlow(batch[e], C)
    OBVIOUS
  <2> HIDE DEF C, d
  <2>4. d \in Datagram /\ d.flows = C /\ d.seq = nfSeq /\ d.protocol = "netflow"
    BY <2>2, <2>3, NetFlowDatagramType
  <2> QED BY <2>1, <2>4, NumbersEncode
<1>3. ASSUME NEW e \in Exporters, SendIpfix(e) PROVE Numbers'
  <2> DEFINE C == Chunk(batch[e], sent[e], IpfixChunk)
             d == Ipfix(batch[e], C)
  <2>1. pc[e] # "idle" /\ nfSeq' = nfSeq /\ wire' = Append(wire, d)
    BY <1>3 DEF SendIpfix
  <2>2. C \in Seq(FlowRecord) /\ batch[e] \in Batches
    BY <2>1, CallbackType, NextChunk, FlowWireAssumption
  <2>0. d = Ipfix(batch[e], C)
    OBVIOUS
  <2> HIDE DEF C, d
  <2>3. d \in Datagram /\ d.protocol = "ipfix"
    BY <2>0, <2>2, IpfixDatagramType
  <2>4. /\ wire \in Seq(Datagram) /\ Len(wire) \in Nat /\ DOMAIN wire = 1..Len(wire)
        /\ DOMAIN wire' = 1..(Len(wire) + 1) /\ wire'[Len(wire) + 1] = d
        /\ \A k \in 1..Len(wire) : wire'[k] = wire[k]
    BY <2>1, <2>3 DEF WireType
  <2>5. Encoded' = Encoded /\ Encoded \subseteq DOMAIN wire
    BY <2>3, <2>4 DEF Encoded, SentAs
  <2>6. \A K : K \subseteq DOMAIN wire => Count(wire', K) = Count(wire, K)
    BY <2>1, <2>3, <2>4, CountAppend
  <2>7. \A k \in Encoded : Before(Encoded, k) \subseteq DOMAIN wire
    BY <2>5 DEF Before
  <2>8. nfSeq' = Count(wire', Encoded') % Wide
    BY <2>1, <2>5, <2>6 DEF Numbers
  <2>9. \A k \in Encoded' : wire'[k].seq = Count(wire', Before(Encoded', k)) % Wide
    BY <2>4, <2>5, <2>6, <2>7 DEF Numbers
  <2> QED BY <2>8, <2>9 DEF Numbers, Before
<1>4. ASSUME NEW e \in Exporters, SendFails(e) PROVE Numbers'
  <2> DEFINE C == Chunk(batch[e], sent[e], NfMaxPerPkt)
             d == Unsent(NetFlow(batch[e], C))
  <2>1. CASE pc[e] = "netflow"
    <3>1. pc[e] # "idle" /\ nfSeq' = NextSeq(Len(C)) /\ wire' = Append(wire, d)
      BY <1>4, <2>1 DEF SendFails, Unsent
    <3>2. C \in Seq(FlowRecord) /\ batch[e] \in Batches
      BY <3>1, CallbackType, NextChunk, FlowWireAssumption
    <3>3. d = Unsent(NetFlow(batch[e], C))
      OBVIOUS
    <3> HIDE DEF C, d
    <3>4. d \in Datagram /\ d.flows = C /\ d.seq = nfSeq /\ d.protocol = "unsent"
      BY <3>2, <3>3, UnsentDatagramType
    <3> QED BY <3>1, <3>4, NumbersEncode
  <2>2. CASE pc[e] # "netflow"
    BY <1>1, <1>4, <2>2 DEF SendFails
  <2> QED BY <2>1, <2>2
<1>5. ASSUME NEW e \in Exporters, NEW B \in Batches, Begin(e, B) PROVE Numbers'
  BY <1>1, <1>5 DEF Begin
<1>6. CASE Sample \/ Tick \/ UNCHANGED vars
  BY <1>1, <1>6 DEF Sample, Tick, vars, callbacks
<1> QED BY <1>2, <1>3, <1>4, <1>5, <1>6 DEF Next

\* For any number of goroutines: sequence numbers count flow records, modulo
\* their width, those of datagrams that were not sent included.
THEOREM NumbersCorrect == Spec => []NumbersCountFlows
<1>1. Init => Numbers
  <2> SUFFICES ASSUME Init PROVE Numbers
    OBVIOUS
  <2>1. Encoded = {} /\ nfSeq = 0
    BY DEF Init, Encoded, SentAs
  <2>2. Count(wire, {}) = 0
    BY FS_EmptySet DEF Count, FlowsAt
  <2>3. 0 % Wide = 0
    BY FlowWireAssumption
  <2> QED BY <2>1, <2>2, <2>3 DEF Numbers
<1>2. Spec => [](WireType /\ Numbers)
  BY <1>1, WireInit, WireNext, NumbersNext, PTL DEF Spec
<1>3. Numbers => NumbersCountFlows
  BY DEF Numbers, NumbersCountFlows, FlowsIn, Count, FlowsAt
<1> QED BY <1>2, <1>3, PTL

-----------------------------------------------------------------------------
(* What is sent of a batch.                                                *)

SentOf(B, p) == Count(wire, Pieces(B, p))

\* The datagrams with records of a batch have them in order.
InOrder(B, p) ==
  \A k \in Pieces(B, p) :
    LET n == Count(wire, Before(Pieces(B, p), k))
    IN wire[k].flows = SubSeq(B, n + 1, n + Len(wire[k].flows))

Failed(B, p) == <<B, p>> \in failures

\* A protocol is through with a batch.
Through(B, p) == IF Failed(B, p) THEN SentOf(B, p) < Len(B) ELSE SentOf(B, p) = Len(B)

\* It has not begun with it.
Untouched(B, p) == SentOf(B, p) = 0 /\ ~Failed(B, p)

\* What a callback has done with its batch.
Progress(e, B) ==
  /\ pc[e] = "netflow" =>
       SentOf(B, "netflow") = sent[e] /\ ~Failed(B, "netflow") /\ Untouched(B, "ipfix")
  /\ pc[e] = "ipfix" =>
       Through(B, "netflow") /\ SentOf(B, "ipfix") = sent[e] /\ ~Failed(B, "ipfix")

Protocols == {"netflow", "ipfix"}

\* A batch is with at most one callback, in one of the three stages of its life.
Streams ==
  /\ \A e \in Exporters, B \in Batches : batch[e] = B => B \in exported /\ Progress(e, B)
  /\ \A e, x \in Exporters, B \in Batches : batch[e] = B /\ batch[x] = B => e = x
  /\ \A B \in exported : (\A e \in Exporters : batch[e] # B) => \A p \in Protocols : Through(B, p)
  /\ \A B \in Batches \ exported : \A p \in Protocols : Untouched(B, p)
  /\ \A B \in Batches : \A p \in Protocols : InOrder(B, p)

\* A datagram of another batch or protocol leaves them as they are.
LEMMA PiecesKept ==
  ASSUME WireType, NEW d \in Datagram, wire' = Append(wire, d), NEW B, NEW p,
         d.of # B \/ d.protocol # p
  PROVE  SentOf(B, p)' = SentOf(B, p) /\ (InOrder(B, p) => InOrder(B, p)')
<1> DEFINE n == Len(wire) + 1
<1>1. /\ wire \in Seq(Datagram) /\ Len(wire) \in Nat /\ DOMAIN wire = 1..Len(wire)
      /\ DOMAIN wire' = 1..n /\ wire'[n] = d /\ \A k \in 1..Len(wire) : wire'[k] = wire[k]
  BY DEF WireType
<1>2. Pieces(B, p) \subseteq DOMAIN wire /\ Pieces(B, p)' = Pieces(B, p)
  BY <1>1 DEF Pieces, SentAs
<1>3. \A K : K \subseteq DOMAIN wire => Count(wire', K) = Count(wire, K)
  BY <1>1, CountAppend
<1>4. SentOf(B, p)' = SentOf(B, p)
  BY <1>2, <1>3 DEF SentOf
<1>5. ASSUME InOrder(B, p), NEW k \in Pieces(B, p)
      PROVE  LET c == Count(wire', Before(Pieces(B, p), k))
             IN wire'[k].flows = SubSeq(B, c + 1, c + Len(wire'[k].flows))
  <2>1. Before(Pieces(B, p), k) \subseteq DOMAIN wire
    BY <1>2 DEF Before
  <2>2. wire'[k] = wire[k]
        /\ Count(wire', Before(Pieces(B, p), k)) = Count(wire, Before(Pieces(B, p), k))
    BY <1>1, <1>2, <1>3, <2>1
  <2> QED BY <1>5, <2>2 DEF InOrder
<1> QED BY <1>2, <1>4, <1>5 DEF InOrder, Before

\* One of theirs, with the records that are next, keeps them in order.
LEMMA PiecesGrow ==
  ASSUME WireType, NEW d \in Datagram, wire' = Append(wire, d), NEW B, NEW p,
         d.of = B, d.protocol = p
  PROVE  /\ SentOf(B, p)' = SentOf(B, p) + Len(d.flows)
         /\ InOrder(B, p) /\ d.flows = SubSeq(B, SentOf(B, p) + 1, SentOf(B, p) + Len(d.flows))
              => InOrder(B, p)'
<1> DEFINE n == Len(wire) + 1
<1>1. /\ wire \in Seq(Datagram) /\ Len(wire) \in Nat /\ DOMAIN wire = 1..Len(wire)
      /\ DOMAIN wire' = 1..n /\ wire'[n] = d /\ \A k \in 1..Len(wire) : wire'[k] = wire[k]
  BY DEF WireType
<1>2. Pieces(B, p) \subseteq DOMAIN wire /\ Pieces(B, p)' = Pieces(B, p) \cup {n}
  BY <1>1 DEF Pieces, SentAs
<1>3. \A K : K \subseteq DOMAIN wire => /\ Count(wire', K) = Count(wire, K)
                                        /\ Count(wire', K \cup {n}) = Count(wire, K) + Len(d.flows)
  BY <1>1, CountAppend
<1>4. SentOf(B, p)' = SentOf(B, p) + Len(d.flows)
  BY <1>2, <1>3 DEF SentOf
<1>5. ASSUME InOrder(B, p), d.flows = SubSeq(B, SentOf(B, p) + 1, SentOf(B, p) + Len(d.flows)),
             NEW k \in Pieces(B, p)'
      PROVE  LET c == Count(wire', Before(Pieces(B, p)', k))
             IN wire'[k].flows = SubSeq(B, c + 1, c + Len(wire'[k].flows))
  <2>1. CASE k \in Pieces(B, p)
    <3>1. Before(Pieces(B, p), k) \subseteq DOMAIN wire
          /\ Before(Pieces(B, p)', k) = Before(Pieces(B, p), k)
      BY <1>1, <1>2, <2>1 DEF Before
    <3>2. /\ wire'[k] = wire[k]
          /\ Count(wire', Before(Pieces(B, p)', k)) = Count(wire, Before(Pieces(B, p), k))
      BY <1>1, <1>2, <1>3, <2>1, <3>1
    <3> QED BY <1>5, <2>1, <3>2 DEF InOrder
  <2>2. CASE k = n
    <3>1. Before(Pieces(B, p)', k) = Pieces(B, p)
      BY <1>1, <1>2, <2>2 DEF Before
    <3>2. Count(wire', Before(Pieces(B, p)', k)) = SentOf(B, p)
      BY <1>2, <1>3, <3>1 DEF SentOf
    <3> QED BY <1>1, <1>5, <2>2, <3>2
  <2> QED BY <1>2, <2>1, <2>2
<1> QED BY <1>4, <1>5 DEF InOrder, Before

\* When nothing is encoded, the datagrams are as they were.
LEMMA PiecesSame ==
  ASSUME wire' = wire, NEW B, NEW p
  PROVE  SentOf(B, p)' = SentOf(B, p) /\ (InOrder(B, p) => InOrder(B, p)')
BY DEF SentOf, InOrder, Pieces, SentAs, Before

\* The other batches and callbacks do not notice what a callback does with its own.
LEMMA StreamsStep ==
  ASSUME WireType, WireType', Streams, exported' = exported,
         NEW e \in Exporters, NEW B \in Batches, batch[e] = B,
         \A x \in Exporters \ {e} : pc'[x] = pc[x] /\ batch'[x] = batch[x] /\ sent'[x] = sent[x],
         batch'[e] \in {B, <<>>},
         \A A \in Batches \ {B} : \A p \in Protocols :
           /\ SentOf(A, p)' = SentOf(A, p) /\ (Failed(A, p)' <=> Failed(A, p))
           /\ InOrder(A, p) => InOrder(A, p)',
         \A p \in Protocols : InOrder(B, p)',
         batch'[e] = B => Progress(e, B)',
         batch'[e] = <<>> => \A p \in Protocols : Through(B, p)'
  PROVE  Streams'
<1>1. \A A \in Batches : A # <<>>
  BY FlowWireAssumption
<1>2. B \in exported /\ exported \subseteq Batches /\ "netflow" \in Protocols /\ "ipfix" \in Protocols
  BY DEF Streams, WireType, TypeOK, Protocols
<1>3. ASSUME NEW A \in Batches \ {B}, NEW p \in Protocols
      PROVE  /\ Through(A, p)' <=> Through(A, p)
             /\ Untouched(A, p)' <=> Untouched(A, p)
  BY <1>3 DEF Through, Untouched
<1>4. ASSUME NEW x \in Exporters, NEW A \in Batches, batch'[x] = A
      PROVE  A \in exported' /\ Progress(x, A)'
  <2>1. CASE x = e
    BY <1>1, <1>2, <1>4, <2>1
  <2>2. CASE x # e
    <3>1. batch[x] = A /\ A # B
      BY <1>4, <2>2 DEF Streams
    <3>2. A \in exported /\ Progress(x, A)
      BY <3>1 DEF Streams
    <3>3. pc'[x] = pc[x] /\ sent'[x] = sent[x]
      BY <2>2
    <3> QED BY <1>2, <1>3, <3>1, <3>2, <3>3 DEF Progress
  <2> QED BY <2>1, <2>2
<1>5. ASSUME NEW x \in Exporters, NEW y \in Exporters, NEW A \in Batches, batch'[x] = A, batch'[y] = A
      PROVE  x = y
  <2>1. batch[x] = A /\ batch[y] = A
    BY <1>1, <1>5
  <2> QED BY <2>1 DEF Streams
<1>6. ASSUME NEW A \in exported', \A x \in Exporters : batch'[x] # A, NEW p \in Protocols
      PROVE  Through(A, p)'
  <2>1. CASE A = B
    BY <1>6, <2>1
  <2>2. CASE A # B
    <3>1. \A x \in Exporters : batch[x] # A
      BY <1>6, <2>2
    <3> QED BY <1>2, <1>3, <1>6, <2>2, <3>1 DEF Streams
  <2> QED BY <2>1, <2>2
<1>7. ASSUME NEW A \in Batches \ exported', NEW p \in Protocols PROVE Untouched(A, p)'
  <2>1. A # B /\ Untouched(A, p)
    BY <1>2, <1>7 DEF Streams
  <2> QED BY <1>3, <2>1
<1>8. ASSUME NEW A \in Batches, NEW p \in Protocols PROVE InOrder(A, p)'
  BY DEF Streams
<1> QED BY <1>4, <1>5, <1>6, <1>7, <1>8 DEF Streams

\* A datagram with the next records of the batch a callback has, and the step on
\* to the records after them, or to the next protocol.
LEMMA StreamsSend ==
  ASSUME WireType, WireType', Streams, exported' = exported, failures' = failures,
         NEW e \in Exporters, NEW B \in Batches, batch[e] = B, pc[e] \in Protocols,
         NEW C, C \in Seq(FlowRecord), sent[e] + Len(C) <= Len(B),
         C = SubSeq(B, sent[e] + 1, sent[e] + Len(C)),
         NEW d \in Datagram, wire' = Append(wire, d),
         d.of = B, d.protocol = pc[e], d.flows = C, Sending(e, C)
  PROVE  Streams'
<1>1. /\ pc \in [Exporters -> {"idle", "netflow", "ipfix"}]
      /\ batch \in [Exporters -> Batches \cup {<<>>}] /\ sent \in [Exporters -> Nat]
      /\ sent[e] \in Nat /\ Len(C) \in Nat /\ Len(B) \in Nat /\ B # <<>>
  BY FlowWireAssumption DEF WireType, TypeOK
<1>2. /\ Progress(e, B) /\ B \in exported
      /\ \A p \in Protocols : InOrder(B, p)
  BY DEF Streams
<1>3. SentOf(B, pc[e]) = sent[e]
  BY <1>2 DEF Progress, Protocols
<1>4. \A A : \A p : Failed(A, p)' <=> Failed(A, p)
  BY DEF Failed
<1>5. \A A : \A p : A # B \/ p # pc[e] =>
        SentOf(A, p)' = SentOf(A, p) /\ (InOrder(A, p) => InOrder(A, p)')
  BY PiecesKept
<1>0. PICK at \in Protocols : at = pc[e]
  OBVIOUS
<1>6. at = pc[e] /\ at \in Protocols /\ SentOf(B, at) = sent[e] /\ InOrder(B, at)
  BY <1>0, <1>2, <1>3
<1>7. SentOf(B, at)' = sent[e] + Len(C) /\ InOrder(B, at)'
  BY <1>6, PiecesGrow
<1>8. \A p \in Protocols : InOrder(B, p)'
  BY <1>2, <1>5, <1>6, <1>7
<1>9. CASE sent[e] + Len(C) < Len(B)
  <2>1. sent' = [sent EXCEPT ![e] = sent[e] + Len(C)] /\ pc' = pc /\ batch' = batch
    BY <1>1, <1>9 DEF Sending
  <2>2. sent'[e] = sent[e] + Len(C) /\ pc'[e] = pc[e] /\ batch'[e] = B
    BY <1>1, <2>1
  <2>3. ASSUME at = "netflow" PROVE Progress(e, B)'
    BY <1>2, <1>4, <1>5, <1>6, <1>7, <2>2, <2>3 DEF Progress, Untouched
  <2>4. ASSUME at = "ipfix" PROVE Progress(e, B)'
    BY <1>2, <1>4, <1>5, <1>6, <1>7, <2>2, <2>4 DEF Progress, Through
  <2>5. Progress(e, B)'
    BY <1>6, <2>3, <2>4 DEF Protocols
  <2>6. \A x \in Exporters \ {e} : pc'[x] = pc[x] /\ batch'[x] = batch[x] /\ sent'[x] = sent[x]
    BY <1>1, <2>1
  <2> QED BY <1>1, <1>4, <1>5, <1>8, <2>2, <2>5, <2>6, StreamsStep
<1>10. CASE ~(sent[e] + Len(C) < Len(B))
  <2>1. Leave(e, NextProtocol) /\ sent[e] + Len(C) = Len(B)
    BY <1>1, <1>10 DEF Sending
  <2>2. CASE at = "netflow"
    <3>1. /\ pc' = [pc EXCEPT ![e] = "ipfix"] /\ sent' = [sent EXCEPT ![e] = 0]
          /\ batch' = [batch EXCEPT ![e] = B]
      BY <1>1, <1>6, <2>1, <2>2 DEF Leave, NextProtocol
    <3>2. pc'[e] = "ipfix" /\ sent'[e] = 0 /\ batch'[e] = B
      BY <1>1, <3>1
    <3>3. Through(B, "netflow")'
      BY <1>2, <1>4, <1>6, <1>7, <2>1, <2>2 DEF Progress, Through
    <3>4. Progress(e, B)'
      BY <1>2, <1>4, <1>5, <1>6, <2>2, <3>2, <3>3 DEF Progress, Untouched
    <3>5. \A x \in Exporters \ {e} : pc'[x] = pc[x] /\ batch'[x] = batch[x] /\ sent'[x] = sent[x]
      BY <1>1, <3>1
    <3> QED BY <1>1, <1>4, <1>5, <1>8, <3>2, <3>4, <3>5, StreamsStep
  <2>3. CASE at = "ipfix"
    <3>1. /\ pc' = [pc EXCEPT ![e] = "idle"] /\ sent' = [sent EXCEPT ![e] = 0]
          /\ batch' = [batch EXCEPT ![e] = <<>>]
      BY <1>1, <1>6, <2>1, <2>3 DEF Leave, NextProtocol
    <3>2. batch'[e] = <<>>
      BY <1>1, <3>1
    <3>3. Through(B, "ipfix")'
      BY <1>2, <1>4, <1>6, <1>7, <2>1, <2>3 DEF Progress, Through
    <3>4. Through(B, "netflow")'
      BY <1>2, <1>4, <1>5, <1>6, <2>3 DEF Progress, Through
    <3>5. \A x \in Exporters \ {e} : pc'[x] = pc[x] /\ batch'[x] = batch[x] /\ sent'[x] = sent[x]
      BY <1>1, <3>1
    <3>6. \A p \in Protocols : Through(B, p)'
      BY <3>3, <3>4 DEF Protocols
    <3> QED BY <1>1, <1>4, <1>5, <1>8, <3>2, <3>5, <3>6, StreamsStep
  <2> QED BY <1>6, <2>2, <2>3 DEF Protocols
<1> QED BY <1>9, <1>10

\* A protocol that fails leaves a batch incomplete, and the batch to the next one.
LEMMA StreamsFail ==
  ASSUME WireType, WireType', Streams, NEW e \in Exporters, SendFails(e)
  PROVE  Streams'
<1>1. /\ pc \in [Exporters -> {"idle", "netflow", "ipfix"}]
      /\ batch \in [Exporters -> Batches \cup {<<>>}] /\ sent \in [Exporters -> Nat]
      /\ pc[e] \in {"netflow", "ipfix"} /\ exported' = exported
  BY DEF WireType, TypeOK, SendFails
<1>2. batch[e] \in Batches /\ sent[e] < Len(batch[e])
  BY <1>1, CallbackType
<1>3. PICK B \in Batches : B = batch[e]
  BY <1>2
<1>4. Progress(e, B) /\ \A p \in Protocols : InOrder(B, p)
  BY <1>3 DEF Streams
<1>5. \A A : \A p \in Protocols :
        SentOf(A, p)' = SentOf(A, p) /\ (InOrder(A, p) => InOrder(A, p)')
  <2>1. CASE pc[e] = "netflow"
    <3> DEFINE C == Chunk(batch[e], sent[e], NfMaxPerPkt)
               d == Unsent(NetFlow(batch[e], C))
    <3>1. wire' = Append(wire, d)
      BY <2>1 DEF SendFails, Unsent
    <3>2. C \in Seq(FlowRecord) /\ d = Unsent(NetFlow(batch[e], C))
      BY <1>1, NextChunk, FlowWireAssumption
    <3> HIDE DEF C, d
    <3>3. d \in Datagram /\ d.protocol = "unsent"
      BY <1>2, <3>2, UnsentDatagramType
    <3>4. PICK x \in Datagram : x = d
      BY <3>3
    <3>5. \A p \in Protocols : x.protocol # p
      BY <3>3, <3>4 DEF Protocols
    <3> QED BY <3>1, <3>4, <3>5, PiecesKept
  <2>2. CASE pc[e] # "netflow"
    <3>1. wire' = wire
      BY <2>2 DEF SendFails
    <3> QED BY <3>1, PiecesSame
  <2> QED BY <2>1, <2>2
<1>6. \A A : \A p : Failed(A, p)' <=> Failed(A, p) \/ (A = B /\ p = pc[e])
  BY <1>3 DEF SendFails, Failed
<1>7. \A p \in Protocols : InOrder(B, p)'
  BY <1>4, <1>5
<1>8. "netflow" \in Protocols /\ "ipfix" \in Protocols
  BY DEF Protocols
<1>9. Leave(e, AfterError)
  BY DEF SendFails
<1>10. \A A \in Batches \ {B} : \A p \in Protocols :
         /\ SentOf(A, p)' = SentOf(A, p) /\ (Failed(A, p)' <=> Failed(A, p))
         /\ InOrder(A, p) => InOrder(A, p)'
  BY <1>5, <1>6
<1>11. CASE pc[e] = "netflow"
  <2>1. /\ pc' = [pc EXCEPT ![e] = "ipfix"] /\ sent' = [sent EXCEPT ![e] = 0]
        /\ batch' = [batch EXCEPT ![e] = batch[e]]
    BY <1>1, <1>9, <1>11 DEF Leave, AfterError
  <2>2. pc'[e] = "ipfix" /\ sent'[e] = 0 /\ batch'[e] = B
    BY <1>1, <1>3, <2>1
  <2>3. SentOf(B, "netflow") = sent[e] /\ Untouched(B, "ipfix")
    BY <1>4, <1>11 DEF Progress
  <2>4. Through(B, "netflow")'
    BY <1>2, <1>3, <1>5, <1>6, <1>8, <1>11, <2>3 DEF Through
  <2>5. SentOf(B, "ipfix")' = 0 /\ ~Failed(B, "ipfix")'
    BY <1>5, <1>6, <1>8, <1>11, <2>3 DEF Untouched
  <2>6. Progress(e, B)'
    BY <2>2, <2>4, <2>5 DEF Progress
  <2>7. \A x \in Exporters \ {e} : pc'[x] = pc[x] /\ batch'[x] = batch[x] /\ sent'[x] = sent[x]
    BY <1>1, <2>1
  <2>8. batch'[e] # <<>>
    BY <2>2, FlowWireAssumption
  <2> QED BY <1>1, <1>3, <1>7, <1>10, <2>2, <2>6, <2>7, <2>8, StreamsStep
<1>12. CASE pc[e] = "ipfix"
  <2>1. /\ pc' = [pc EXCEPT ![e] = "idle"] /\ sent' = [sent EXCEPT ![e] = 0]
        /\ batch' = [batch EXCEPT ![e] = <<>>]
    BY <1>1, <1>9, <1>12 DEF Leave, AfterError
  <2>2. batch'[e] = <<>> /\ batch'[e] # B
    BY <1>1, <2>1, FlowWireAssumption
  <2>3. Through(B, "netflow") /\ SentOf(B, "ipfix") = sent[e]
    BY <1>4, <1>12 DEF Progress
  <2>4. Through(B, "ipfix")'
    BY <1>2, <1>3, <1>5, <1>6, <1>8, <1>12, <2>3 DEF Through
  <2>5. Through(B, "netflow")'
    BY <1>5, <1>6, <1>8, <1>12, <2>3 DEF Through
  <2>6. \A p \in Protocols : Through(B, p)'
    BY <2>4, <2>5 DEF Protocols
  <2>7. \A x \in Exporters \ {e} : pc'[x] = pc[x] /\ batch'[x] = batch[x] /\ sent'[x] = sent[x]
    BY <1>1, <2>1
  <2> QED BY <1>1, <1>3, <1>7, <1>10, <2>2, <2>6, <2>7, StreamsStep
<1> QED BY <1>1, <1>11, <1>12

\* A batch that is handed over is new: nothing of it has been sent.
LEMMA StreamsBegin ==
  ASSUME WireType, Streams, NEW e \in Exporters, NEW B \in Batches, Begin(e, B)
  PROVE  Streams'
<1>1. /\ pc \in [Exporters -> {"idle", "netflow", "ipfix"}]
      /\ batch \in [Exporters -> Batches \cup {<<>>}] /\ sent[e] = 0
      /\ B \notin exported /\ exported \subseteq Batches /\ exported' = exported \cup {B}
      /\ wire' = wire /\ failures' = failures /\ sent' = sent
      /\ pc' = [pc EXCEPT ![e] = "netflow"] /\ batch' = [batch EXCEPT ![e] = B]
  BY DEF WireType, TypeOK, Begin
<1>2. /\ pc'[e] = "netflow" /\ batch'[e] = B /\ sent'[e] = 0
      /\ \A x \in Exporters \ {e} : pc'[x] = pc[x] /\ batch'[x] = batch[x] /\ sent'[x] = sent[x]
  BY <1>1
<1>3. \A x \in Exporters : batch[x] # B
  BY <1>1 DEF Streams
<1>4. \A A : \A p \in Protocols :
        /\ SentOf(A, p)' = SentOf(A, p) /\ (Failed(A, p)' <=> Failed(A, p))
        /\ InOrder(A, p) => InOrder(A, p)'
  BY <1>1, PiecesSame DEF Failed
<1>5. ASSUME NEW A \in Batches, NEW p \in Protocols
      PROVE  /\ Through(A, p)' <=> Through(A, p)
             /\ Untouched(A, p)' <=> Untouched(A, p)
  BY <1>4 DEF Through, Untouched
<1>6. "netflow" \in Protocols /\ "ipfix" \in Protocols
  BY DEF Protocols
<1>7. ASSUME NEW x \in Exporters, NEW A \in Batches, batch'[x] = A
      PROVE  A \in exported' /\ Progress(x, A)'
  <2>1. CASE x = e
    <3>1. A = B /\ \A p \in Protocols : Untouched(B, p)
      BY <1>1, <1>2, <1>7, <2>1 DEF Streams
    <3>2. \A p \in Protocols : SentOf(B, p)' = 0 /\ ~Failed(B, p)'
      BY <1>4, <3>1 DEF Untouched
    <3> QED BY <1>1, <1>2, <1>5, <1>6, <2>1, <3>1, <3>2 DEF Progress
  <2>2. CASE x # e
    <3>1. A \in exported /\ Progress(x, A)
      BY <1>2, <1>7, <2>2 DEF Streams
    <3> QED BY <1>1, <1>2, <1>4, <1>5, <1>6, <2>2, <3>1 DEF Progress
  <2> QED BY <2>1, <2>2
<1>8. ASSUME NEW x \in Exporters, NEW y \in Exporters, NEW A \in Batches, batch'[x] = A, batch'[y] = A
      PROVE  x = y
  BY <1>2, <1>3, <1>8 DEF Streams
<1>9. ASSUME NEW A \in exported', \A x \in Exporters : batch'[x] # A, NEW p \in Protocols
      PROVE  Through(A, p)'
  <2>1. A # B
    BY <1>2, <1>9
  <2>2. A \in exported /\ A \in Batches
    BY <1>1, <1>9, <2>1
  <2>3. CASE \E x \in Exporters : batch[x] = A
    <3>1. batch[e] = A
      BY <1>2, <1>9, <2>3
    <3>2. FALSE
      BY <1>1, <2>2, <3>1, FlowWireAssumption DEF WireType, Begin
    <3> QED BY <3>2
  <2> QED BY <1>5, <2>2, <2>3 DEF Streams
<1>10. ASSUME NEW A \in Batches \ exported', NEW p \in Protocols PROVE Untouched(A, p)'
  BY <1>1, <1>5, <1>10 DEF Streams
<1>11. ASSUME NEW A \in Batches, NEW p \in Protocols PROVE InOrder(A, p)'
  BY <1>4 DEF Streams
<1> QED BY <1>7, <1>8, <1>9, <1>10, <1>11 DEF Streams

LEMMA StreamsNext == WireType /\ WireType' /\ Streams /\ [Next]_vars => Streams'
<1> SUFFICES ASSUME WireType, WireType', Streams, [Next]_vars PROVE Streams'
  OBVIOUS
<1>1. ASSUME NEW e \in Exporters, SendNetFlow(e) PROVE Streams'
  <2> DEFINE C == Chunk(batch[e], sent[e], NfMaxPerPkt)
             d == NetFlow(batch[e], C)
  <2>1. /\ pc[e] = "netflow" /\ pc[e] \in Protocols /\ wire' = Append(wire, d)
        /\ Sending(e, C) /\ exported' = exported /\ failures' = failures
    BY <1>1 DEF SendNetFlow, Protocols
  <2>2. /\ C \in Seq(FlowRecord) /\ d = NetFlow(batch[e], C) /\ batch[e] \in Batches
        /\ sent[e] + Len(C) <= Len(batch[e])
        /\ C = SubSeq(batch[e], sent[e] + 1, sent[e] + Len(C))
    BY <2>1, CallbackType, NextChunk, FlowWireAssumption
  <2> HIDE DEF C, d
  <2>3. d \in Datagram /\ d.of = batch[e] /\ d.flows = C /\ d.protocol = pc[e]
    BY <2>1, <2>2, NetFlowDatagramType
  <2>4. PICK B \in Batches, x \in Datagram, S \in Seq(FlowRecord) : B = batch[e] /\ x = d /\ S = C
    BY <2>2, <2>3
  <2> QED BY <2>1, <2>2, <2>3, <2>4, StreamsSend
<1>2. ASSUME NEW e \in Exporters, SendIpfix(e) PROVE Streams'
  <2> DEFINE C == Chunk(batch[e], sent[e], IpfixChunk)
             d == Ipfix(batch[e], C)
  <2>1. /\ pc[e] = "ipfix" /\ pc[e] \in Protocols /\ wire' = Append(wire, d)
        /\ Sending(e, C) /\ exported' = exported /\ failures' = failures
    BY <1>2 DEF SendIpfix, Protocols
  <2>2. /\ C \in Seq(FlowRecord) /\ d = Ipfix(batch[e], C) /\ batch[e] \in Batches
        /\ sent[e] + Len(C) <= Len(batch[e])
        /\ C = SubSeq(batch[e], sent[e] + 1, sent[e] + Len(C))
    BY <2>1, CallbackType, NextChunk, FlowWireAssumption
  <2> HIDE DEF C, d
  <2>3. d \in Datagram /\ d.of = batch[e] /\ d.flows = C /\ d.protocol = pc[e]
    BY <2>1, <2>2, IpfixDatagramType
  <2>4. PICK B \in Batches, x \in Datagram, S \in Seq(FlowRecord) : B = batch[e] /\ x = d /\ S = C
    BY <2>2, <2>3
  <2> QED BY <2>1, <2>2, <2>3, <2>4, StreamsSend
<1>3. ASSUME NEW e \in Exporters, SendFails(e) PROVE Streams'
  BY <1>3, StreamsFail
<1>4. ASSUME NEW e \in Exporters, NEW B \in Batches, Begin(e, B) PROVE Streams'
  BY <1>4, StreamsBegin
<1>5. CASE Sample \/ Tick \/ UNCHANGED vars
  <2>1. UNCHANGED callbacks
    BY <1>5 DEF Sample, Tick, vars
  <2>2. pc' = pc /\ batch' = batch /\ sent' = sent /\ wire' = wire /\ exported' = exported
        /\ failures' = failures
    BY <2>1 DEF callbacks
  <2>3. \A B : \A p \in Protocols :
          /\ SentOf(B, p)' = SentOf(B, p) /\ (Failed(B, p)' <=> Failed(B, p))
          /\ InOrder(B, p) => InOrder(B, p)'
    BY <2>2, PiecesSame DEF Failed
  <2>4. ASSUME NEW B \in Batches, NEW p \in Protocols
        PROVE  /\ Through(B, p)' <=> Through(B, p)
               /\ Untouched(B, p)' <=> Untouched(B, p)
    BY <2>3 DEF Through, Untouched
  <2>5. "netflow" \in Protocols /\ "ipfix" \in Protocols
    BY DEF Protocols
  <2>6. ASSUME NEW e \in Exporters, NEW B \in Batches, batch'[e] = B
        PROVE  B \in exported' /\ Progress(e, B)'
    <3>1. B \in exported /\ Progress(e, B)
      BY <2>2, <2>6 DEF Streams
    <3> QED BY <2>2, <2>3, <2>4, <2>5, <3>1 DEF Progress
  <2>7. \A e, x \in Exporters, B \in Batches : batch'[e] = B /\ batch'[x] = B => e = x
    BY <2>2 DEF Streams
  <2>8. ASSUME NEW B \in exported', \A e \in Exporters : batch'[e] # B, NEW p \in Protocols
        PROVE  Through(B, p)'
    <3>1. B \in exported /\ B \in Batches
      BY <2>2 DEF WireType, TypeOK
    <3> QED BY <2>2, <2>4, <2>8, <3>1 DEF Streams
  <2>9. ASSUME NEW B \in Batches \ exported', NEW p \in Protocols PROVE Untouched(B, p)'
    BY <2>2, <2>4 DEF Streams
  <2>10. ASSUME NEW B \in Batches, NEW p \in Protocols PROVE InOrder(B, p)'
    BY <2>3 DEF Streams
  <2> QED BY <2>6, <2>7, <2>8, <2>9, <2>10 DEF Streams
<1> QED BY <1>1, <1>2, <1>3, <1>4, <1>5 DEF Next

\* For any number of goroutines and any chunks: both protocols send the records of
\* a batch in order and once, to the end unless a write by that protocol fails.
THEOREM SentCorrect == Spec => []EveryRecordSent
<1>1. Init => Streams
  <2> SUFFICES ASSUME Init PROVE Streams
    OBVIOUS
  <2>1. wire = <<>> /\ exported = {} /\ failures = {} /\ \A e \in Exporters : batch[e] = <<>>
    BY DEF Init
  <2>2. \A B, p : Pieces(B, p) = {}
    BY <2>1 DEF Pieces, SentAs
  <2>3. Count(wire, {}) = 0
    BY FS_EmptySet DEF Count, FlowsAt
  <2>4. \A B, p : Untouched(B, p) /\ InOrder(B, p)
    BY <2>1, <2>2, <2>3 DEF Untouched, SentOf, Failed, InOrder
  <2>5. \A B \in Batches : B # <<>>
    BY FlowWireAssumption
  <2> QED BY <2>1, <2>4, <2>5 DEF Streams
<1>2. Spec => [](WireType /\ Streams)
  BY <1>1, WireInit, WireNext, StreamsNext, PTL DEF Spec
<1>3. WireType /\ Streams => EveryRecordSent
  <2> SUFFICES ASSUME WireType, Streams, NEW B \in exported, NEW p \in Protocols
               PROVE  /\ InOrder(B, p)
                      /\ (\A e \in Exporters : batch[e] # B) => Through(B, p)
    BY DEF EveryRecordSent, InOrder, Through, Failed, SentOf, Protocols, FlowsIn, Count, FlowsAt
  <2>1. B \in Batches
    BY DEF WireType, TypeOK
  <2> QED BY <2>1 DEF Streams
<1> QED BY <1>2, <1>3, PTL

=============================================================================
