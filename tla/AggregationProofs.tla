------------------------- MODULE AggregationProofs -------------------------
(***************************************************************************)
(* Proofs about Aggregation, for every set of goroutines and requests, all *)
(* records and their sizes, every cap and every patch.                     *)
(***************************************************************************)
EXTENDS Aggregation, FiniteSetTheorems, TLAPS

-----------------------------------------------------------------------------
(* Sets of records and their bytes.                                        *)

\* A batch is finite, and so are the sets of groups taken from it.
LEMMA Finite ==
  ASSUME NEW B \in SUBSET Records
  PROVE  /\ IsFiniteSet(B) /\ Cardinality(B) \in Nat
         /\ \A G \in SUBSET SUBSET B : IsFiniteSet(G) /\ Cardinality(G) \in Nat
<1>1. IsFiniteSet(B)
  BY AggregationAssumption, FS_Subset
<1>2. IsFiniteSet(SUBSET B)
  BY <1>1, FS_SUBSET
<1>3. \A G \in SUBSET SUBSET B : IsFiniteSet(G)
  BY <1>2, FS_Subset
<1> QED BY <1>1, <1>3, FS_CardinalityType

\* The empty set has no bytes.
LEMMA NoBytes == Bytes[{}] = 0
<1>1. {} \in SUBSET Records /\ {} \cap {} = {} /\ {} \cup {} = {}
  OBVIOUS
<1>2. Bytes[{}] \in Nat
  BY <1>1, BytesAssumption
<1>3. Bytes[{} \cup {}] = Bytes[{}] + Bytes[{}]
  BY <1>1, BytesAssumption
<1> QED BY <1>1, <1>2, <1>3

\* A batch weighs what is kept of it and what is lost of it.
LEMMA KeptAndLost ==
  ASSUME NEW B \in SUBSET Records, NEW K \in SUBSET SUBSET B
  PROVE  /\ UNION K \in SUBSET B /\ Lost(B, K) \in SUBSET B
         /\ Bytes[UNION K] \in Nat /\ Bytes[Lost(B, K)] \in Nat
         /\ Bytes[B] = Bytes[UNION K] + Bytes[Lost(B, K)]
<1> DEFINE U == UNION K
<1>0. U \in SUBSET B
  OBVIOUS
<1> HIDE DEF U
<1>1. U \in SUBSET Records /\ B \ U \in SUBSET Records
  BY <1>0
<1>2. U \cap (B \ U) = {} /\ U \cup (B \ U) = B
  BY <1>0
<1>3. Bytes[U \cup (B \ U)] = Bytes[U] + Bytes[B \ U]
  BY <1>1, <1>2, BytesAssumption
<1>4. Bytes[U] \in Nat /\ Bytes[B \ U] \in Nat
  BY <1>1, BytesAssumption
<1> QED BY <1>0, <1>2, <1>3, <1>4 DEF Lost, U

\* The cap keeps some of the groups, and a group is a part of the batch.
LEMMA KeptGroups ==
  ASSUME NEW B \in SUBSET Records, NEW c, NEW K \in Kept(c, Groups(c.level, B))
  PROVE  K \in SUBSET SUBSET B
<1>1. Groups(c.level, B) \in SUBSET SUBSET B
  BY DEF Groups
<1>2. K \subseteq Groups(c.level, B)
  BY DEF Kept, Top
<1> QED BY <1>1, <1>2

-----------------------------------------------------------------------------
(* Type correctness.                                                       *)

\* A request that is not set aside gives a configuration.
LEMMA DecodedType ==
  ASSUME NEW c \in Config, NEW q \in Requests \cup {NoCall}, Valid(Decoded(c, q))
  PROVE  Decoded(c, q) \in Config
<1>1. Field(c, q, "level") \in Levels
  BY DEF Valid, Decoded
<1>2. Field(c, q, "enabled") \in BOOLEAN /\ Field(c, q, "max_records") \in Int
  <2>1. CASE q \in Patches
    BY <2>1, AggregationAssumption DEF Field, Config, Fields
  <2>2. CASE q \notin Patches
    <3>1. /\ q.enabled = TRUE \/ q.enabled = FALSE
          /\ q.max_records \in {Caps.PORT_SCAN, Caps.LATERAL_MOVEMENT, Caps.DATA_EXFILTRATION, 0}
      BY <2>2 DEF Requests, NoCall
    <3>2. Caps.PORT_SCAN \in Int /\ Caps.LATERAL_MOVEMENT \in Int /\ Caps.DATA_EXFILTRATION \in Int
      BY AggregationAssumption
    <3>3. q["enabled"] \in BOOLEAN
      BY <3>1
    <3>4. q["max_records"] \in Int
      BY <3>1, <3>2
    <3>5. c["enabled"] \in BOOLEAN /\ c["max_records"] \in Int
      BY DEF Config
    <3> QED BY <3>3, <3>4, <3>5 DEF Field
  <2> QED BY <2>1, <2>2
<1> QED BY <1>1, <1>2 DEF Decoded, Config

\* A new aggregator is well typed.
LEMMA TypeInit == Init => TypeOK
BY AggregationAssumption DEF Init, TypeOK, Config, Levels, NoCall

\* A call that returns leaves the calls well typed.
LEMMA TypeReturn ==
  ASSUME TypeOK, NEW e \in Exporters, NEW K \in SUBSET SUBSET Records, Return(e, K)
  PROVE  /\ pc' \in [Exporters -> {"idle", "in", "merge", "drop"}]
         /\ batch' \in [Exporters -> SUBSET Records]
         /\ \A f \in Exporters : pc'[f] = "idle" <=> batch'[f] = {}
         /\ snap' \in [Exporters -> Config]
         /\ merged' \in [Exporters -> SUBSET SUBSET Records]
         /\ returned' \subseteq
              [batch : SUBSET Records, cfg : Config, out : SUBSET SUBSET Records]
<1>1. NoCall \in Config
  BY DEF NoCall, Config, Levels
<1>2. [batch |-> batch[e], cfg |-> snap[e], out |-> K]
        \in [batch : SUBSET Records, cfg : Config, out : SUBSET SUBSET Records]
  BY DEF TypeOK
<1>3. returned' \subseteq [batch : SUBSET Records, cfg : Config, out : SUBSET SUBSET Records]
  BY <1>2 DEF TypeOK, Return
<1> QED BY <1>1, <1>3 DEF TypeOK, Return

\* A step of Process keeps the types.
LEMMA TypeProcess ==
  ASSUME TypeOK, NEW e \in Exporters, Process(e)
  PROVE  TypeOK'
<1>0. batch[e] \in SUBSET Records
  BY DEF TypeOK
<1>1. ASSUME NEW B \in SUBSET (Records \ Arrived), B # {}, ReadConfig(e, B)
      PROVE  TypeOK'
  BY <1>1 DEF ReadConfig, TypeOK, counters, requests
<1>2. CASE CountIn(e)
  BY <1>0, <1>2, Finite DEF CountIn, TypeOK, requests
<1>3. CASE PassThrough(e)
  <2> DEFINE K == {{r} : r \in batch[e]}
  <2>1. K \in SUBSET SUBSET Records /\ Return(e, K)
    BY <1>0, <1>3 DEF PassThrough
  <2>2. totalOut' \in Nat
    BY <1>0, <1>3, Finite DEF PassThrough, TypeOK
  <2> HIDE DEF K
  <2> QED BY <1>3, <2>1, <2>2, TypeReturn DEF PassThrough, TypeOK, requests
<1>4. CASE Merge(e)
  <2>1. PICK K \in Kept(snap[e], Groups(snap[e].level, batch[e])) :
          /\ totalOut' = totalOut + Cardinality(K)
          /\ \/ Return(e, K)
             \/ /\ pc' = [pc EXCEPT ![e] = "drop"]
                /\ merged' = [merged EXCEPT ![e] = K]
                /\ UNCHANGED <<batch, snap, returned>>
    BY <1>4 DEF Merge
  <2>2. K \in SUBSET SUBSET batch[e]
    BY <1>0, KeptGroups
  <2>3. totalOut' \in Nat /\ K \in SUBSET SUBSET Records
    BY <1>0, <2>1, <2>2, Finite DEF TypeOK
  <2>4. UNCHANGED <<cfg, totalIn, droppedBytes, requests>> /\ pc[e] = "merge"
    BY <1>4 DEF Merge
  <2>5. CASE Return(e, K)
    BY <2>3, <2>4, <2>5, TypeReturn DEF TypeOK, requests
  <2>6. CASE /\ pc' = [pc EXCEPT ![e] = "drop"]
             /\ merged' = [merged EXCEPT ![e] = K]
             /\ UNCHANGED <<batch, snap, returned>>
    BY <1>0, <2>2, <2>3, <2>4, <2>6 DEF TypeOK, requests
  <2> QED BY <2>1, <2>5, <2>6
<1>5. CASE CountDropped(e)
  <2>1. Lost(batch[e], merged[e]) \in SUBSET Records
    BY <1>0 DEF Lost
  <2>2. droppedBytes' \in Nat
    BY <1>5, <2>1, BytesAssumption DEF CountDropped, TypeOK
  <2> QED BY <1>5, <2>2, TypeReturn DEF CountDropped, TypeOK, requests
<1> QED BY <1>1, <1>2, <1>3, <1>4, <1>5 DEF Process

\* A step of a request keeps the types.
LEMMA TypeHandle ==
  ASSUME TypeOK, NEW h \in Handlers, HandleAggregate(h)
  PROVE  TypeOK'
<1>0. NoCall \in Config
  BY DEF NoCall, Config, Levels
<1>1. ASSUME NEW q \in Requests, ReceivePost(h, q)
      PROVE  TypeOK'
  BY <1>1 DEF ReceivePost, TypeOK, counters, calls
<1>2. ASSUME Finish(h), cfg' \in Config
      PROVE  TypeOK'
  BY <1>0, <1>2 DEF Finish, TypeOK, counters, calls
<1>3. CASE ApplyPost(h)
  <2>1. hcfg[h] \in Config /\ req[h] \in Requests \cup {NoCall}
    BY DEF TypeOK
  <2>2. cfg' \in Config
    BY <1>3, <2>1, DecodedType DEF ApplyPost
  <2> QED BY <1>2, <1>3, <2>2 DEF ApplyPost
<1>4. CASE RejectPost(h)
  BY <1>2, <1>4 DEF RejectPost, TypeOK
<1> QED BY <1>1, <1>3, <1>4 DEF HandleAggregate

\* The values of the variables stay in their sets: the counters stay natural
\* numbers, and every configuration in use has one of the three levels.
THEOREM TypeCorrect == Spec => []TypeOK
<1>1. ASSUME TypeOK, [Next]_vars PROVE TypeOK'
  <2>1. CASE UNCHANGED vars
    BY <1>1, <2>1 DEF TypeOK, vars, counters, calls, requests
  <2> QED BY <1>1, <2>1, TypeProcess, TypeHandle DEF Next
<1> QED BY <1>1, TypeInit, PTL DEF Spec

-----------------------------------------------------------------------------
(* Conservation of bytes.                                                  *)

\* A record is in one call at a time, and a call gives out only what it got.
Disjoint ==
  /\ \A e, f \in Exporters : e # f => batch[e] \cap batch[f] = {}
  /\ \A e \in Exporters : UNION merged[e] \subseteq batch[e]
  /\ \A c \in returned : /\ UNION c.out \subseteq c.batch
                         /\ \A e \in Exporters : batch[e] \cap c.batch = {}

Conservation == TypeOK /\ Disjoint /\ BytesConserved

\* The records of all the calls are records.
LEMMA SetsOfRecords ==
  ASSUME TypeOK
  PROVE  /\ InCalls \in SUBSET Records /\ Arrived \in SUBSET Records
         /\ Delivered \in SUBSET Records
         /\ Bytes[InCalls] \in Nat /\ Bytes[Arrived] \in Nat /\ Bytes[Delivered] \in Nat
<1>1. InCalls \in SUBSET Records
  BY DEF TypeOK, InCalls
<1>2. Arrived \in SUBSET Records
  BY <1>1 DEF TypeOK, Arrived
<1>3. Delivered \in SUBSET Records
  BY DEF TypeOK, Delivered
<1> QED BY <1>1, <1>2, <1>3, BytesAssumption

\* A call that returns a part of its batch and has counted the rest as dropped
\* keeps every record in one place and every byte counted.
LEMMA ReturnConserves ==
  ASSUME Conservation, NEW e \in Exporters, NEW K \in SUBSET SUBSET batch[e], Return(e, K),
         droppedBytes' = droppedBytes + Bytes[Lost(batch[e], K)]
  PROVE  Disjoint' /\ BytesConserved'
<1> DEFINE B == batch[e]
           c == [batch |-> B, cfg |-> snap[e], out |-> K]
<1>1. /\ B \in SUBSET Records /\ droppedBytes \in Nat
      /\ batch' = [batch EXCEPT ![e] = {}] /\ batch \in [Exporters -> SUBSET Records]
      /\ merged' = [merged EXCEPT ![e] = {}] /\ DOMAIN merged = Exporters
      /\ returned' = returned \cup {c}
  BY DEF Conservation, TypeOK, Return
<1>2. UNION K \subseteq B
  OBVIOUS
<1>3. Disjoint'
  <2>1. \A f \in Exporters : batch'[f] = IF f = e THEN {} ELSE batch[f]
    BY <1>1
  <2>2. \A f \in Exporters : merged'[f] = IF f = e THEN {} ELSE merged[f]
    BY <1>1
  <2>3. c.batch = B /\ c.out = K
    OBVIOUS
  <2> HIDE DEF c
  <2>4. \A f, g \in Exporters : f # g => batch'[f] \cap batch'[g] = {}
    BY <2>1 DEF Conservation, Disjoint
  <2>5. \A f \in Exporters : UNION merged'[f] \subseteq batch'[f]
    BY <2>1, <2>2 DEF Conservation, Disjoint
  <2>6. \A d \in returned' : UNION d.out \subseteq d.batch
    BY <1>1, <1>2, <2>3 DEF Conservation, Disjoint
  <2>7. \A d \in returned', f \in Exporters : batch'[f] \cap d.batch = {}
    BY <1>1, <2>1, <2>3 DEF Conservation, Disjoint
  <2> QED BY <2>4, <2>5, <2>6, <2>7 DEF Disjoint
<1>4. InCalls' \cap B = {} /\ InCalls = InCalls' \cup B
  BY <1>1 DEF Conservation, Disjoint, InCalls
<1>5. c.batch = B /\ c.out = K
  OBVIOUS
<1> HIDE DEF c, B
<1>6. Arrived' = Arrived
  <2>1. \A r : r \in Arrived <=> r \in InCalls \/ \E d \in returned : r \in d.batch
    BY DEF Arrived
  <2>2. \A r : r \in Arrived' <=> r \in InCalls' \/ \E d \in returned' : r \in d.batch
    BY DEF Arrived
  <2> QED BY <1>1, <1>4, <1>5, <2>1, <2>2
<1>7. Delivered' = Delivered \cup UNION K /\ Delivered \cap UNION K = {}
  <2>1. \A r : r \in Delivered <=> \E d \in returned : r \in UNION d.out
    BY DEF Delivered
  <2>2. \A r : r \in Delivered' <=> \E d \in returned' : r \in UNION d.out
    BY DEF Delivered
  <2>3. \A d \in returned : UNION d.out \subseteq d.batch /\ B \cap d.batch = {}
    BY DEF Conservation, Disjoint, B
  <2> QED BY <1>1, <1>2, <1>5, <2>1, <2>2, <2>3
<1>8. Bytes[InCalls] = Bytes[InCalls'] + Bytes[B] /\ Bytes[InCalls'] \in Nat
  BY <1>1, <1>4, SetsOfRecords, BytesAssumption DEF Conservation
<1>9. Bytes[Delivered'] = Bytes[Delivered] + Bytes[UNION K]
  BY <1>1, <1>2, <1>7, SetsOfRecords, BytesAssumption DEF Conservation
<1>10. Bytes[B] = Bytes[UNION K] + Bytes[Lost(B, K)]
       /\ Bytes[UNION K] \in Nat /\ Bytes[Lost(B, K)] \in Nat
  BY <1>1, KeptAndLost DEF B
<1>11. Bytes[Arrived] = Bytes[Delivered] + droppedBytes + Bytes[InCalls]
  BY DEF Conservation, BytesConserved
<1>12. Bytes[Delivered] \in Nat
  BY SetsOfRecords DEF Conservation
<1>13. droppedBytes' = droppedBytes + Bytes[Lost(B, K)]
  BY DEF B
<1>14. BytesConserved'
  BY <1>1, <1>6, <1>8, <1>9, <1>10, <1>11, <1>12, <1>13 DEF BytesConserved
<1> QED BY <1>3, <1>14

\* A call that starts with records not yet in any call.
LEMMA ReadConserves ==
  ASSUME Conservation, NEW e \in Exporters, NEW B \in SUBSET (Records \ Arrived),
         ReadConfig(e, B)
  PROVE  Disjoint' /\ BytesConserved'
<1>1. /\ batch[e] = {} /\ batch' = [batch EXCEPT ![e] = B]
      /\ batch \in [Exporters -> SUBSET Records]
      /\ merged' = merged /\ returned' = returned /\ droppedBytes' = droppedBytes
  BY DEF Conservation, TypeOK, ReadConfig, counters
<1>2. \A f \in Exporters : batch'[f] = IF f = e THEN B ELSE batch[f]
  BY <1>1
<1>3. B \cap Arrived = {} /\ B \in SUBSET Records
  OBVIOUS
<1>4. /\ \A f \in Exporters : batch[f] \subseteq Arrived
      /\ \A c \in returned : c.batch \subseteq Arrived
  BY DEF Arrived, InCalls
<1>5. InCalls' = InCalls \cup B
  <2>1. \A r : r \in InCalls <=> \E f \in Exporters : r \in batch[f]
    BY DEF InCalls
  <2>2. \A r : r \in InCalls' <=> \E f \in Exporters : r \in batch'[f]
    BY DEF InCalls
  <2> QED BY <1>1, <1>2, <2>1, <2>2
<1>6. Arrived' = Arrived \cup B /\ Delivered' = Delivered /\ InCalls \subseteq Arrived
  BY <1>1, <1>5 DEF Arrived, Delivered
<1>7. Disjoint'
  BY <1>1, <1>2, <1>3, <1>4 DEF Conservation, Disjoint
<1>8. Bytes[Arrived'] = Bytes[Arrived] + Bytes[B] /\ Bytes[InCalls'] = Bytes[InCalls] + Bytes[B]
  BY <1>3, <1>5, <1>6, SetsOfRecords, BytesAssumption DEF Conservation
<1>9. Bytes[B] \in Nat
  BY <1>3, BytesAssumption
<1>10. BytesConserved'
  BY <1>1, <1>6, <1>8, <1>9, SetsOfRecords DEF Conservation, TypeOK, BytesConserved
<1> QED BY <1>7, <1>10

\* A step that moves no record and drops none.
LEMMA StillConserves ==
  ASSUME Conservation, UNCHANGED <<batch, returned, droppedBytes>>,
         \A e \in Exporters : UNION merged'[e] \subseteq batch[e]
  PROVE  Disjoint' /\ BytesConserved'
<1>1. InCalls' = InCalls /\ Arrived' = Arrived /\ Delivered' = Delivered
  BY DEF InCalls, Arrived, Delivered
<1>2. BytesConserved'
  BY <1>1 DEF Conservation, BytesConserved
<1> QED BY <1>2 DEF Conservation, Disjoint

\* A step of Process keeps every record in one place and every byte counted.
LEMMA ProcessConserves ==
  ASSUME Conservation, NEW e \in Exporters, Process(e)
  PROVE  Disjoint' /\ BytesConserved'
<1>0. /\ TypeOK /\ batch[e] \in SUBSET Records /\ merged[e] \in SUBSET SUBSET batch[e]
      /\ droppedBytes \in Nat
      /\ \A f \in Exporters : UNION merged[f] \subseteq batch[f]
  BY DEF Conservation, Disjoint, TypeOK
<1>1. ASSUME NEW B \in SUBSET (Records \ Arrived), ReadConfig(e, B)
      PROVE  Disjoint' /\ BytesConserved'
  BY <1>1, ReadConserves
<1>2. CASE CountIn(e)
  BY <1>0, <1>2, StillConserves DEF CountIn
<1>3. CASE PassThrough(e)
  <2> DEFINE K == {{r} : r \in batch[e]}
  <2>1. K \in SUBSET SUBSET batch[e] /\ Lost(batch[e], K) = {}
    BY DEF Lost
  <2>2. Return(e, K) /\ droppedBytes' = droppedBytes
    BY <1>3 DEF PassThrough
  <2> HIDE DEF K
  <2>3. droppedBytes' = droppedBytes + Bytes[Lost(batch[e], K)]
    BY <1>0, <2>1, <2>2, NoBytes
  <2> QED BY <2>1, <2>2, <2>3, ReturnConserves
<1>4. CASE Merge(e)
  <2>1. PICK K \in Kept(snap[e], Groups(snap[e].level, batch[e])) :
          \/ Bytes[Lost(batch[e], K)] = 0 /\ Return(e, K)
          \/ merged' = [merged EXCEPT ![e] = K] /\ UNCHANGED <<batch, snap, returned>>
    BY <1>4 DEF Merge
  <2>2. K \in SUBSET SUBSET batch[e] /\ droppedBytes' = droppedBytes
    BY <1>0, <1>4, KeptGroups DEF Merge
  <2>3. CASE Bytes[Lost(batch[e], K)] = 0 /\ Return(e, K)
    <3>1. droppedBytes' = droppedBytes + Bytes[Lost(batch[e], K)]
      BY <1>0, <2>2, <2>3
    <3> QED BY <2>2, <2>3, <3>1, ReturnConserves
  <2>4. CASE merged' = [merged EXCEPT ![e] = K] /\ UNCHANGED <<batch, snap, returned>>
    <3>1. UNION K \subseteq batch[e]
      BY <2>2
    <3>2. \A f \in Exporters : merged'[f] = IF f = e THEN K ELSE merged[f]
      BY <1>0, <2>4 DEF TypeOK
    <3>3. \A f \in Exporters : UNION merged'[f] \subseteq batch[f]
      BY <1>0, <3>1, <3>2
    <3> QED BY <2>2, <2>4, <3>3, StillConserves
  <2> QED BY <2>1, <2>3, <2>4
<1>5. CASE CountDropped(e)
  BY <1>0, <1>5, ReturnConserves DEF CountDropped
<1> QED BY <1>1, <1>2, <1>3, <1>4, <1>5 DEF Process

\* Every record is in one place and every byte counted, in every state.
LEMMA ConservationAlways == Spec => []Conservation
<1>1. Init => Conservation
  <2> SUFFICES ASSUME Init PROVE Conservation
    OBVIOUS
  <2>1. \A e \in Exporters : batch[e] = {} /\ merged[e] = {}
    BY DEF Init
  <2>2. Disjoint
    BY <2>1 DEF Init, Disjoint
  <2>3. InCalls = {} /\ returned = {}
    BY <2>1 DEF Init, InCalls
  <2>4. Arrived = {} /\ Delivered = {}
    BY <2>3 DEF Arrived, Delivered
  <2>5. BytesConserved
    BY <2>3, <2>4, NoBytes DEF Init, BytesConserved
  <2> QED BY <2>2, <2>5, TypeInit DEF Conservation
<1>2. ASSUME Conservation, TypeOK', [Next]_vars PROVE Conservation'
  <2>1. CASE UNCHANGED vars
    BY <1>2, <2>1, StillConserves DEF Conservation, Disjoint, vars, counters, calls
  <2>2. ASSUME NEW e \in Exporters, Process(e) PROVE Conservation'
    BY <1>2, <2>2, ProcessConserves DEF Conservation
  <2>3. ASSUME NEW h \in Handlers, HandleAggregate(h) PROVE Conservation'
    <3>1. UNCHANGED <<counters, calls>>
      BY <2>3 DEF HandleAggregate, ReceivePost, ApplyPost, RejectPost, Finish
    <3> QED BY <1>2, <3>1, StillConserves DEF Conservation, Disjoint, counters, calls
  <2> QED BY <1>2, <2>1, <2>2, <2>3 DEF Next
<1> QED BY <1>1, <1>2, TypeCorrect, PTL DEF Spec

\* No traffic disappears in the aggregator: however calls and reconfigurations
\* mix, its bytes are delivered, counted as dropped or in a call under way.
THEOREM Conserved == Spec => []BytesConserved
<1>1. Conservation => BytesConserved
  BY DEF Conservation
<1> QED BY <1>1, ConservationAlways, PTL

-----------------------------------------------------------------------------
(* The counters of records.                                                *)

\* The records counted in and not yet counted out.
Merging == UNION {batch[e] : e \in {d \in Exporters : pc[d] = "merge"}}

OutBounded == totalOut + Cardinality(Merging) <= totalIn

\* Grouping makes no more groups than there are records, and the cap no more.
LEMMA FewerGroups ==
  ASSUME NEW B \in SUBSET Records, NEW c, NEW K \in Kept(c, Groups(c.level, B))
  PROVE  Cardinality(K) \in Nat /\ Cardinality(K) <= Cardinality(B)
<1> DEFINE G    == Groups(c.level, B)
           f[r \in B] == {s \in B : KeyOf(c.level, s) = KeyOf(c.level, r)}
<1>1. f \in Surjection(B, G)
  BY DEF Surjection, Groups
<1>2. Cardinality(G) <= Cardinality(B)
  BY <1>1, Finite, FS_Surjection
<1>3. K \in SUBSET G /\ G \in SUBSET SUBSET B
  BY DEF Kept, Top, Groups
<1> HIDE DEF G, f
<1>4. IsFiniteSet(G) /\ Cardinality(G) \in Nat /\ Cardinality(B) \in Nat
  BY <1>3, Finite
<1>5. Cardinality(K) <= Cardinality(G) /\ IsFiniteSet(K)
  BY <1>3, <1>4, FS_Subset
<1>6. Cardinality(K) \in Nat
  BY <1>5, FS_CardinalityType
<1> QED BY <1>2, <1>4, <1>5, <1>6

\* A call that has been counted in and returns, or waits to count what it
\* dropped, has at most its own records to count out.
LEMMA CountedOut ==
  ASSUME Conservation, OutBounded, NEW e \in Exporters, pc[e] = "merge",
         pc'[e] # "merge", \A d \in Exporters \ {e} : pc'[d] = pc[d] /\ batch'[d] = batch[d],
         NEW n \in Nat, n <= Cardinality(batch[e]), totalOut' = totalOut + n, totalIn' = totalIn
  PROVE  OutBounded'
<1>0. /\ totalIn \in Nat /\ totalOut \in Nat /\ batch \in [Exporters -> SUBSET Records]
      /\ \A d, f \in Exporters : d # f => batch[d] \cap batch[f] = {}
  BY DEF Conservation, TypeOK, Disjoint
<1>1. \A r : r \in Merging <=> \E d \in Exporters : pc[d] = "merge" /\ r \in batch[d]
  BY DEF Merging
<1>2. \A r : r \in Merging' <=> \E d \in Exporters : pc'[d] = "merge" /\ r \in batch'[d]
  BY DEF Merging
<1>3. Merging' = Merging \ batch[e] /\ Merging \cap batch[e] = batch[e] /\ Merging \in SUBSET Records
  BY <1>0, <1>1, <1>2
<1>4. Cardinality(Merging') = Cardinality(Merging) - Cardinality(batch[e])
  <2>1. IsFiniteSet(Merging)
    BY <1>3, Finite
  <2>2. Cardinality(Merging \ batch[e]) = Cardinality(Merging) - Cardinality(Merging \cap batch[e])
    BY <2>1, FS_Difference
  <2> QED BY <1>3, <2>2
<1>5. Cardinality(Merging) \in Nat /\ Cardinality(batch[e]) \in Nat
  BY <1>0, <1>3, Finite
<1> QED BY <1>0, <1>4, <1>5 DEF OutBounded

\* A step that neither counts nor takes a batch to or from the merging.
LEMMA NotCounting ==
  ASSUME Conservation, OutBounded, UNCHANGED <<totalIn, totalOut>>,
         \A d \in Exporters : /\ pc'[d] = "merge" <=> pc[d] = "merge"
                              /\ pc[d] = "merge" => batch'[d] = batch[d]
  PROVE  OutBounded'
<1>1. \A r : r \in Merging <=> \E d \in Exporters : pc[d] = "merge" /\ r \in batch[d]
  BY DEF Merging
<1>2. \A r : r \in Merging' <=> \E d \in Exporters : pc'[d] = "merge" /\ r \in batch'[d]
  BY DEF Merging
<1>3. Merging' = Merging
  BY <1>1, <1>2
<1> QED BY <1>3 DEF OutBounded

\* A step of Process counts out no more than was counted in.
LEMMA ProcessBounded ==
  ASSUME Conservation, OutBounded, NEW e \in Exporters, Process(e)
  PROVE  OutBounded'
<1>0. /\ TypeOK /\ totalIn \in Nat /\ totalOut \in Nat
      /\ batch \in [Exporters -> SUBSET Records] /\ batch[e] \in SUBSET Records
      /\ pc \in [Exporters -> {"idle", "in", "merge", "drop"}]
      /\ \A d, f \in Exporters : d # f => batch[d] \cap batch[f] = {}
  BY DEF Conservation, TypeOK, Disjoint
<1>1. ASSUME NEW B \in SUBSET (Records \ Arrived), ReadConfig(e, B)
      PROVE  OutBounded'
  BY <1>0, <1>1, NotCounting DEF ReadConfig, counters
<1>2. CASE CountIn(e)
  <2>1. /\ pc' = [pc EXCEPT ![e] = "merge"] /\ pc[e] = "in" /\ batch' = batch
        /\ totalOut' = totalOut /\ totalIn' = totalIn + Cardinality(batch[e])
    BY <1>2 DEF CountIn
  <2>2. \A r : r \in Merging <=> \E d \in Exporters : pc[d] = "merge" /\ r \in batch[d]
    BY DEF Merging
  <2>3. \A r : r \in Merging' <=> \E d \in Exporters : pc'[d] = "merge" /\ r \in batch'[d]
    BY DEF Merging
  <2>4. \A d \in Exporters : pc'[d] = "merge" <=> pc[d] = "merge" \/ d = e
    BY <1>0, <2>1
  <2>5. Merging' = Merging \cup batch[e]
    BY <2>1, <2>2, <2>3, <2>4
  <2>6. Merging \cap batch[e] = {} /\ Merging \in SUBSET Records
    BY <1>0, <2>1, <2>2
  <2>7. /\ IsFiniteSet(Merging) /\ IsFiniteSet(batch[e])
        /\ Cardinality(Merging) \in Nat /\ Cardinality(batch[e]) \in Nat
    BY <1>0, <2>6, Finite
  <2>8. Cardinality(Merging') = Cardinality(Merging) + Cardinality(batch[e])
    BY <2>5, <2>6, <2>7, FS_Union, FS_EmptySet
  <2> QED BY <1>0, <2>1, <2>7, <2>8 DEF OutBounded
<1>3. CASE PassThrough(e)
  <2>1. Cardinality(batch[e]) \in Nat
    BY <1>0, Finite
  <2> QED BY <1>0, <1>3, <2>1, CountedOut DEF PassThrough, Return
<1>4. CASE Merge(e)
  <2>1. PICK K \in Kept(snap[e], Groups(snap[e].level, batch[e])) :
          /\ totalOut' = totalOut + Cardinality(K)
          /\ \/ Return(e, K)
             \/ pc' = [pc EXCEPT ![e] = "drop"] /\ batch' = batch
    BY <1>4 DEF Merge
  <2>2. Cardinality(K) \in Nat /\ Cardinality(K) <= Cardinality(batch[e])
    BY <1>0, FewerGroups
  <2>3. /\ pc[e] = "merge" /\ totalIn' = totalIn /\ pc'[e] # "merge"
        /\ \A d \in Exporters \ {e} : pc'[d] = pc[d] /\ batch'[d] = batch[d]
    BY <1>0, <1>4, <2>1 DEF Merge, Return
  <2> QED BY <2>1, <2>2, <2>3, CountedOut
<1>5. CASE CountDropped(e)
  BY <1>0, <1>5, NotCounting DEF CountDropped, Return
<1> QED BY <1>1, <1>2, <1>3, <1>4, <1>5 DEF Process

\* The counters never say that more records went out than came in
\* (aggregate.go:133-163), although the calls add to them one at a time.
THEOREM ExpandsNever == Spec => []NeverExpands
<1>1. Init => OutBounded
  <2> SUFFICES ASSUME Init PROVE OutBounded
    OBVIOUS
  <2>1. Merging = {}
    BY DEF Init, Merging
  <2> QED BY <2>1, FS_EmptySet DEF Init, OutBounded
<1>2. ASSUME Conservation, OutBounded, [Next]_vars PROVE OutBounded'
  <2>1. CASE UNCHANGED vars
    BY <1>2, <2>1, NotCounting DEF vars, counters, calls
  <2>2. ASSUME NEW h \in Handlers, HandleAggregate(h) PROVE OutBounded'
    <3>1. UNCHANGED <<counters, calls>>
      BY <2>2 DEF HandleAggregate, ReceivePost, ApplyPost, RejectPost, Finish
    <3> QED BY <1>2, <3>1, NotCounting DEF counters, calls
  <2> QED BY <1>2, <2>1, <2>2, ProcessBounded DEF Next
<1>3. Conservation /\ OutBounded => NeverExpands
  <2> SUFFICES ASSUME Conservation, OutBounded PROVE NeverExpands
    OBVIOUS
  <2>1. totalIn \in Nat /\ totalOut \in Nat /\ Merging \in SUBSET Records
    BY DEF Conservation, TypeOK, Merging
  <2>2. Cardinality(Merging) \in Nat
    BY <2>1, Finite
  <2> QED BY <2>1, <2>2 DEF OutBounded, NeverExpands
<1> QED BY <1>1, <1>2, <1>3, ConservationAlways, PTL DEF Spec

-----------------------------------------------------------------------------
(* What a call returns.                                                    *)

\* Records with one key are the records of one flow.
LEMMA GroupsAreFlows ==
  ASSUME NEW B, NEW level, NEW out, NEW conf, conf.level = level
  PROVE  LET c == [batch |-> B, cfg |-> conf, out |-> out]
         IN  Groups(level, B) = {Flow(c, r) : r \in B}
<1>1. \A r, s : KeyOf(level, s) = KeyOf(level, r) <=> SameFlow(level, r, s)
  BY DEF KeyOf, SameFlow
<1> QED BY <1>1 DEF Groups, Flow

\* Merging and the cap give what the configuration promises.
LEMMA MergeReduces ==
  ASSUME NEW B \in SUBSET Records, NEW conf \in Config, ~Bypassed(conf),
         NEW K \in Kept(conf, Groups(conf.level, B))
  PROVE  Reduced([batch |-> B, cfg |-> conf, out |-> K])
<1> DEFINE c == [batch |-> B, cfg |-> conf, out |-> K]
           G == Groups(conf.level, B)
<1>1. c.batch = B /\ c.cfg = conf /\ c.out = K
  OBVIOUS
<1>2. G = {Flow(c, r) : r \in B}
  BY GroupsAreFlows
<1>3. K \subseteq G /\ G \in SUBSET SUBSET B
  BY DEF Kept, Top, Groups
<1>4. Cardinality(G) \in Nat /\ conf.max_records \in Int
  BY <1>3, Finite DEF Config
<1>5. \A r \in B : r \in Flow(c, r)
  BY <1>1 DEF Flow, SameFlow
<1>6. \A g \in G : Bytes[g] \in Nat
  BY <1>3, BytesAssumption
<1> HIDE DEF c, G
<1>7. \A g \in c.out : \E r \in c.batch : g = Flow(c, r)
  BY <1>1, <1>2, <1>3
<1>8. CASE Capped(conf, G)
  <2>1. /\ conf.max_records > 0 /\ Cardinality(K) = conf.max_records
        /\ \A k \in K, g \in G \ K : Bytes[k] >= Bytes[g]
    BY <1>8 DEF Kept, Capped, Top, G
  <2>2. ASSUME NEW r \in B, ~Keeps(c, r)
        PROVE  \A g \in K : Bytes[Flow(c, r)] <= Bytes[g]
    <3>1. Flow(c, r) \in G \ K
      BY <1>1, <1>2, <1>5, <2>2 DEF Keeps
    <3> QED BY <1>3, <1>6, <2>1, <3>1
  <2>3. Cardinality(K) <= conf.max_records
    BY <1>4, <2>1
  <2> QED BY <1>1, <1>7, <2>1, <2>2, <2>3 DEF Reduced, c
<1>9. CASE ~Capped(conf, G)
  <2>1. K = G
    BY <1>9 DEF Kept, G
  <2>2. conf.max_records > 0 => Cardinality(K) <= conf.max_records
    BY <1>4, <1>9, <2>1 DEF Capped
  <2>3. \A r \in B : Keeps(c, r)
    BY <1>1, <1>2, <1>5, <2>1 DEF Keeps
  <2> QED BY <1>1, <1>7, <2>2, <2>3 DEF Reduced, c
<1> QED BY <1>8, <1>9

\* A call about to return has already merged as its configuration says.
Merged ==
  \A e \in Exporters : pc[e] = "drop" =>
    Reduced([batch |-> batch[e], cfg |-> snap[e], out |-> merged[e]])

\* A call that returns what its configuration promises.
LEMMA ReturnReduces ==
  ASSUME TypeOK, Merged, ReducedAsConfigured, NEW e \in Exporters, NEW K, Return(e, K),
         Reduced([batch |-> batch[e], cfg |-> snap[e], out |-> K])
  PROVE  Merged' /\ ReducedAsConfigured'
<1>1. \A f \in Exporters : pc'[f] = "drop" =>
        /\ pc[f] = "drop"
        /\ batch'[f] = batch[f] /\ snap'[f] = snap[f] /\ merged'[f] = merged[f]
  BY DEF TypeOK, Return
<1>2. Merged'
  BY <1>1 DEF Merged, Reduced, Flow, Keeps
<1>3. \A c \in returned' : Reduced(c)
  BY DEF Return, ReducedAsConfigured
<1>4. ReducedAsConfigured'
  BY <1>3 DEF ReducedAsConfigured, Reduced, Flow, Keeps
<1> QED BY <1>2, <1>4

\* A step that returns nothing and, but for one call, leaves the calls alone.
LEMMA StillReduces ==
  ASSUME TypeOK, Merged, ReducedAsConfigured, returned' = returned,
         \A f \in Exporters : pc'[f] = "drop" =>
           \/ /\ pc[f] = "drop" /\ batch'[f] = batch[f] /\ snap'[f] = snap[f]
              /\ merged'[f] = merged[f]
           \/ Reduced([batch |-> batch'[f], cfg |-> snap'[f], out |-> merged'[f]])
  PROVE  Merged' /\ ReducedAsConfigured'
<1>1. Merged'
  BY DEF Merged, Reduced, Flow, Keeps
<1> QED BY <1>1 DEF ReducedAsConfigured, Reduced, Flow, Keeps

\* A step of Process returns what one configuration promises.
LEMMA ProcessReduces ==
  ASSUME TypeOK, Merged, ReducedAsConfigured, NEW e \in Exporters, Process(e)
  PROVE  Merged' /\ ReducedAsConfigured'
<1>0. batch[e] \in SUBSET Records /\ snap[e] \in Config
  BY DEF TypeOK
<1>1. ASSUME NEW B \in SUBSET (Records \ Arrived), ReadConfig(e, B)
      PROVE  Merged' /\ ReducedAsConfigured'
  BY <1>1, StillReduces DEF ReadConfig, TypeOK
<1>2. CASE CountIn(e)
  BY <1>2, StillReduces DEF CountIn, TypeOK
<1>3. CASE PassThrough(e)
  <2>1. Reduced([batch |-> batch[e], cfg |-> snap[e], out |-> {{r} : r \in batch[e]}])
    BY <1>3 DEF PassThrough, Reduced
  <2> QED BY <1>3, <2>1, ReturnReduces DEF PassThrough
<1>4. CASE Merge(e)
  <2>1. PICK K \in Kept(snap[e], Groups(snap[e].level, batch[e])) :
          \/ Return(e, K)
          \/ /\ pc' = [pc EXCEPT ![e] = "drop"]
             /\ merged' = [merged EXCEPT ![e] = K]
             /\ UNCHANGED <<batch, snap, returned>>
    BY <1>4 DEF Merge
  <2>2. Reduced([batch |-> batch[e], cfg |-> snap[e], out |-> K])
    BY <1>0, <1>4, MergeReduces DEF Merge
  <2>3. CASE Return(e, K)
    BY <2>2, <2>3, ReturnReduces
  <2>4. CASE /\ pc' = [pc EXCEPT ![e] = "drop"]
             /\ merged' = [merged EXCEPT ![e] = K]
             /\ UNCHANGED <<batch, snap, returned>>
    <3>1. /\ merged'[e] = K /\ batch' = batch /\ snap' = snap
          /\ \A f \in Exporters \ {e} : pc'[f] = pc[f] /\ merged'[f] = merged[f]
      BY <2>4 DEF TypeOK
    <3> QED BY <2>2, <2>4, <3>1, StillReduces
  <2> QED BY <2>1, <2>3, <2>4
<1>5. CASE CountDropped(e)
  BY <1>5, ReturnReduces DEF CountDropped, Merged
<1> QED BY <1>1, <1>2, <1>3, <1>4, <1>5 DEF Process

\* Every call returns what one configuration promises, the one it read when it
\* began: whole flows, no more than max_records, the heaviest of them.
THEOREM ReducedCorrect == Spec => []ReducedAsConfigured
<1>1. Init => Merged /\ ReducedAsConfigured
  BY DEF Init, Merged, ReducedAsConfigured
<1>2. ASSUME TypeOK, Merged, ReducedAsConfigured, [Next]_vars
      PROVE  Merged' /\ ReducedAsConfigured'
  <2>1. CASE UNCHANGED vars
    BY <1>2, <2>1, StillReduces DEF vars, calls
  <2>2. ASSUME NEW h \in Handlers, HandleAggregate(h) PROVE Merged' /\ ReducedAsConfigured'
    <3>1. UNCHANGED calls
      BY <2>2 DEF HandleAggregate, ReceivePost, ApplyPost, RejectPost, Finish
    <3> QED BY <1>2, <3>1, StillReduces DEF calls
  <2> QED BY <1>2, <2>1, <2>2, ProcessReduces DEF Next
<1> QED BY <1>1, <1>2, TypeCorrect, PTL DEF Spec

=============================================================================
