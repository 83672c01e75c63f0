------------------------------ MODULE FlowWire ------------------------------
(***************************************************************************)
(* What flow records are on the wire (agent/protocols) and what the        *)
(* collector makes of them (collector/parser): the export callback of the  *)
(* agent, run by several goroutines, which sends every batch as NetFlow v5 *)
(* and as IPFIX datagrams; and the sFlow sampler of the capture loop.      *)
(*                                                                         *)
(* The parsers keep no state here: what they decode is a function of a     *)
(* datagram. That datagrams are lost and templates change is the subject   *)
(* of IpfixExport; both ends have the template here.                       *)
(***************************************************************************)
EXTENDS Integers, Sequences, FiniteSets, FiniteSetsExt

CONSTANTS
  Exporters,     \* the goroutines that may export at the same time
  Batches,       \* what the flow cache and the aggregator hand over
  NfMaxPerPkt,   \* 30
  IpfixChunk,    \* 20
  Wide,          \* 2^32: one more than the largest uint32
  Templates,     \* the field lists operators set
  Rates,         \* the values of the sampling rate
  MaxTime, MaxPackets, MaxFailures   \* bounds of the search

\* The lengths of the fields of the catalog, in bytes.
FieldLen ==
  [srcIP |-> 4, dstIP |-> 4, srcPort |-> 2, dstPort |-> 2, proto |-> 1, tos |-> 1, tcpFlags |-> 1,
   packets |-> 8, bytes |-> 8, flowStart |-> 8, flowEnd |-> 8, srcMAC |-> 6, dstMAC |-> 6,
   signalStrength |-> 1, encryptionStatus |-> 1, sensorStatus |-> 1, cpuLoad |-> 1]

\* A flow record: the times, in milliseconds since the agent started, and a
\* counter; bytes are encoded as packets are.
FlowRecord == [start : Nat, last : Nat, packets : Nat]

ASSUME FlowWireAssumption ==
  /\ Batches \subseteq Seq(FlowRecord) \ {<<>>}
  /\ NfMaxPerPkt \in Nat \ {0} /\ IpfixChunk \in Nat \ {0} /\ Wide \in Nat \ {0}
  /\ Templates \subseteq SUBSET DOMAIN FieldLen /\ {} \notin Templates
  /\ Rates \subseteq Nat

VARIABLES
  now,        \* milliseconds since the agent started
  pc,         \* where an export callback is: "idle", "netflow", "ipfix"
  batch,      \* its records
  sent,       \* how many of them it has sent by the protocol it is at
  nfSeq,      \* nfSeq
  template,   \* the template of encoder and collector
  rate,       \* SFlowSampler.rate
  pool, counter,     \* its fields
  sfDatagrams,       \* how many datagrams it has sent
  wire,       \* history: the datagrams encoded, in order
  exported,   \* history: the batches whose export has begun
  failures    \* history: the batches and protocols of failed exports

callbacks == <<pc, batch, sent, nfSeq, wire, exported, failures>>
sampler   == <<pool, counter, sfDatagrams>>
vars      == <<now, callbacks, template, rate, sampler>>

Init ==
  /\ now = 0
  /\ pc = [e \in Exporters |-> "idle"]
  /\ batch = [e \in Exporters |-> <<>>]
  /\ sent = [e \in Exporters |-> 0]
  /\ nfSeq = 0 /\ wire = <<>> /\ exported = {} /\ failures = {}
  /\ template \in Templates /\ rate \in Rates
  /\ pool = 0 /\ counter = 0 /\ sfDatagrams = 0

-----------------------------------------------------------------------------
(* Encoding and decoding.                                                  *)

Chunk(B, from, size) == SubSeq(B, from + 1, Min({from + size, Len(B)}))

\* encodeNetFlow: flow_sequence is the number of flows before this datagram.
NetFlow(B, C) ==
  [protocol |-> "netflow", of |-> B, flows |-> C, exportTime |-> now, seq |-> nfSeq,
   uptime |-> now % Wide,
   fields |-> [i \in DOMAIN C |-> [first |-> C[i].start % Wide, last |-> C[i].last % Wide,
                                   packets |-> C[i].packets % Wide]]]

\* Variant with a bug: times are taken to be since the uptime began.
ParseNetFlowSinceBoot(d) ==
  [i \in DOMAIN d.fields |->
    [start |-> d.exportTime + d.fields[i].first, last |-> d.exportTime + d.fields[i].last,
     packets |-> d.fields[i].packets]]

\* parseNetFlow: an offset from the export time, in 64 bits.
ParseNetFlow(d) ==
  [i \in DOMAIN d.fields |->
    [start   |-> d.exportTime + d.fields[i].first - d.uptime,
     last    |-> d.exportTime + d.fields[i].last - d.uptime,
     packets |-> d.fields[i].packets]]

\* One element for each byte of a record.
BytesOf(T)   == UNION {{f} \X (1..FieldLen[f]) : f \in T}
RecordLen(T) == Cardinality(BytesOf(T))

\* buildDataMsg, padded to four bytes.
Padding(n) == (4 - (n % 4)) % 4

Ipfix(B, C) ==
  [protocol |-> "ipfix", of |-> B, flows |-> C,
   payload  |-> Len(C) * RecordLen(template) + Padding(Len(C) * RecordLen(template))]

\* How many records parse finds: every recordLen bytes of the set are one.
ParsedIpfix(d) == d.payload \div RecordLen(template)

-----------------------------------------------------------------------------
(* The export callback.                                                    *)

\* A record was started and last updated before its export; after a renewal without
\* another packet it was started later than it was last updated (flow.go:265).
Begin(e, B) ==
  /\ pc[e] = "idle" /\ B \notin exported
  /\ \A i \in DOMAIN B : B[i].start <= now /\ B[i].last <= now
  /\ pc' = [pc EXCEPT ![e] = "netflow"]
  /\ batch' = [batch EXCEPT ![e] = B]
  /\ exported' = exported \cup {B}
  /\ UNCHANGED <<now, sent, nfSeq, template, rate, sampler, wire, failures>>

\* Variant with a bug: a NetFlow error ends the callback.
AfterErrorIdle == [netflow |-> "idle", ipfix |-> "idle"]

\* After NetFlow, with or without an error, comes IPFIX.
NextProtocol == [netflow |-> "ipfix", ipfix |-> "idle"]
AfterError   == [netflow |-> "ipfix", ipfix |-> "idle"]

Leave(e, to) ==
  /\ pc' = [pc EXCEPT ![e] = to[@]]
  /\ sent' = [sent EXCEPT ![e] = 0]
  /\ batch' = [batch EXCEPT ![e] = IF to[pc[e]] = "idle" THEN <<>> ELSE @]

Sending(e, C) ==
  IF sent[e] + Len(C) < Len(batch[e])
  THEN /\ sent' = [sent EXCEPT ![e] = @ + Len(C)]
       /\ UNCHANGED <<pc, batch>>
  ELSE Leave(e, NextProtocol)

\* Variant with a bug: the counter counts datagrams.
NextSeqOfDatagrams(n) == (nfSeq + 1) % Wide

\* Variant with a bug: a counter wider than the field.
NextSeqUnbounded(n) == nfSeq + n

\* atomic.AddUint32.
NextSeq(n) == (nfSeq + n) % Wide

SendNetFlow(e) ==
  LET C == Chunk(batch[e], sent[e], NfMaxPerPkt)
  IN /\ pc[e] = "netflow"
     /\ nfSeq' = NextSeq(Len(C))
     /\ wire' = Append(wire, NetFlow(batch[e], C))
     /\ Sending(e, C)
     /\ UNCHANGED <<now, template, rate, sampler, exported, failures>>

SendIpfix(e) ==
  LET C == Chunk(batch[e], sent[e], IpfixChunk)
  IN /\ pc[e] = "ipfix"
     /\ wire' = Append(wire, Ipfix(batch[e], C))
     /\ Sending(e, C)
     /\ UNCHANGED <<now, nfSeq, template, rate, sampler, exported, failures>>

\* Send fails: Export returns. The numbers of a NetFlow datagram are used up.
SendFails(e) ==
  LET C == Chunk(batch[e], sent[e], NfMaxPerPkt)
  IN /\ pc[e] # "idle" /\ Cardinality(failures) < MaxFailures
     /\ nfSeq' = IF pc[e] = "netflow" THEN NextSeq(Len(C)) ELSE nfSeq
     /\ wire' = IF pc[e] = "netflow"
                THEN Append(wire, [NetFlow(batch[e], C) EXCEPT !.protocol = "unsent"]) ELSE wire
     /\ failures' = failures \cup {<<batch[e], pc[e]>>}
     /\ Leave(e, AfterError)
     /\ UNCHANGED <<now, template, rate, sampler, exported>>

-----------------------------------------------------------------------------
(* The sampler.                                                            *)

\* Variant with a bug: the counter is compared before it is incremented.
DueLate == counter >= rate

Due == counter + 1 >= rate

Sample ==
  /\ pool < MaxPackets
  /\ pool' = pool + 1
  /\ counter' = IF Due THEN 0 ELSE counter + 1
  /\ sfDatagrams' = IF Due THEN sfDatagrams + 1 ELSE sfDatagrams
  /\ UNCHANGED <<now, callbacks, template, rate>>

\* parseRawHeader: every datagram stands for rate packets.
SampledPackets == sfDatagrams * rate

-----------------------------------------------------------------------------

Tick ==
  /\ now < MaxTime
  /\ now' = now + 1
  /\ UNCHANGED <<callbacks, template, rate, sampler>>

Next ==
  \/ \E e \in Exporters :
       \/ \E B \in Batches : Begin(e, B)
       \/ SendNetFlow(e) \/ SendIpfix(e) \/ SendFails(e)
  \/ Sample \/ Tick

Spec == Init /\ [][Next]_vars

-----------------------------------------------------------------------------
(* Properties.                                                             *)

TypeOK ==
  /\ now \in Nat
  /\ pc \in [Exporters -> {"idle", "netflow", "ipfix"}]
  /\ batch \in [Exporters -> Batches \cup {<<>>}]
  /\ \A e \in Exporters : IF pc[e] = "idle" THEN sent[e] = 0 ELSE sent[e] < Len(batch[e])
  /\ sent \in [Exporters -> Nat]
  /\ nfSeq \in 0..(Wide - 1)
  /\ template \in Templates /\ rate \in Rates
  /\ pool \in Nat /\ sfDatagrams \in Nat
  /\ counter \in Nat /\ (counter < rate \/ counter = 0)
  /\ exported \subseteq Batches

SentAs(p) == {k \in DOMAIN wire : wire[k].protocol = p}

\* How many flow records there are in the datagrams at some positions.
FlowsIn(K) == Cardinality(UNION {{k} \X DOMAIN wire[k].flows : k \in K})

Before(K, k) == {j \in K : j < k}

\* The datagrams with records of a batch.
Pieces(B, p) == {k \in SentAs(p) : wire[k].of = B}

\* Each protocol sends the records of a batch once and in order, in chunks, and
\* a batch that is through has been sent to the end unless a write by that
\* protocol failed: a failure of NetFlow keeps nothing from IPFIX
\* (main.go:153-158).
EveryRecordSent ==
  \A B \in exported : \A p \in {"netflow", "ipfix"} :
    /\ \A k \in Pieces(B, p) :
         LET n == FlowsIn(Before(Pieces(B, p), k))
         IN wire[k].flows = SubSeq(B, n + 1, n + Len(wire[k].flows))
    /\ (\A e \in Exporters : batch[e] # B) =>
         IF <<B, p>> \in failures THEN FlowsIn(Pieces(B, p)) < Len(B)
         ELSE FlowsIn(Pieces(B, p)) = Len(B)

\* The sequence number of a NetFlow datagram is the number of flow records
\* encoded before it, whichever goroutine encoded them, modulo 2^32: a
\* collector can count what it misses.
Encoded == SentAs("netflow") \cup SentAs("unsent")

NumbersCountFlows ==
  \A k \in Encoded : wire[k].seq = FlowsIn(Before(Encoded, k)) % Wide

\* How often the uptime has wrapped between t and the export of a datagram.
Wraps(t, d) == (d.exportTime \div Wide) - (t \div Wide)

\* What the collector decodes is what was sent. NetFlow: counters modulo 2^32,
\* and times that are right unless the 32-bit uptime has wrapped between them
\* and the export, when they are later by the wraps (49.7 days each). IPFIX:
\* every record, and no more of them unless a record is no longer than the padding,
\* and so has no address. Those that are made of padding (parser.go:185) are
\* ignored by inventory and detector, and stored by the Influx writer (main.go:69).
DecodedAsSent ==
  /\ \A k \in SentAs("netflow") : \A i \in DOMAIN wire[k].flows :
       LET r == wire[k].flows[i]
           s == ParseNetFlow(wire[k])[i]
       IN /\ s.start = r.start + Wide * Wraps(r.start, wire[k])
          /\ s.last = r.last + Wide * Wraps(r.last, wire[k])
          /\ s.packets <= r.packets /\ (r.packets - s.packets) % Wide = 0
  /\ \A k \in SentAs("ipfix") :
       LET n == Len(wire[k].flows)
       IN \/ ParsedIpfix(wire[k]) = n
          \/ /\ ParsedIpfix(wire[k]) > n
             /\ RecordLen(template) < 4 /\ template \cap {"srcIP", "dstIP"} = {}

\* The packets the samples stand for are those the sampler has seen, but for
\* fewer than one in `rate` not sampled yet. (With a rate of 0, which nothing
\* excludes, every packet is sent, and stands for none.)
SampleEstimate ==
  IF rate = 0 THEN sfDatagrams = pool /\ SampledPackets = 0
  ELSE SampledPackets <= pool /\ pool - SampledPackets < rate

=============================================================================
