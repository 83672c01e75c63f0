------------------------- MODULE FlowTrackerProofs -------------------------
(***************************************************************************)
(* Proofs about FlowTracker, for every set of keys, every limit on the     *)
(* table, every pair of timeouts and every bound.                          *)
(***************************************************************************)
EXTENDS FlowTracker, FiniteSetTheorems, TLAPS

-----------------------------------------------------------------------------
(* What the operators of FlowTracker return.                               *)

\* The packet taken from the channel is one that was captured.
LEMMA PacketType ==
  ASSUME TypeOK, Take
  PROVE  /\ Packet.key \in Keys \cup {NotIPv4} /\ Packet.ts \in Nat
         /\ consumed' = consumed + 1 /\ consumed' \in 1..Len(captured)
<1>1. consumed + 1 \in 1..Len(captured)
  BY DEF TypeOK, Take
<1>2. \A S : captured \in Seq(S) => Packet \in S
  BY <1>1 DEF Packet
<1>3. Packet \in [key : Keys \cup {NotIPv4}, ts : Nat]
  BY <1>2 DEF TypeOK
<1>4. consumed' = consumed + 1
  BY DEF Take
<1> QED BY <1>1, <1>3, <1>4

\* A pointer in the table points to an allocated record.
LEMMA LivePointer ==
  ASSUME TypeOK, NEW k \in Live
  PROVE  k \in Keys /\ flows[k] \in 1..Len(heap[k]) /\ heap[k][flows[k]] \in Record
<1>1. k \in Keys /\ flows[k] \in 1..Len(heap[k])
  BY DEF TypeOK, Live, Nil
<1> QED BY <1>1 DEF TypeOK

\* What Process creates for a new key is a record.
LEMMA NewRecordType ==
  ASSUME TypeOK, NEW k \in Keys, NEW ts \in Nat, NEW i \in Nat \ {0}
  PROVE  NewRecord(k, ts, i) \in Record
<1>1. Impaired(k, Clean) \in Problems \cup {Clean}
  BY DEF TypeOK, Impaired
<1>2. ied.meta \in IedMetas \cup {NoMeta}
  BY DEF TypeOK
<1> QED BY <1>1, <1>2 DEF TypeOK, NewRecord, Record

\* Counting a packet in a record yields a record.
LEMMA CountedType ==
  ASSUME TypeOK, NEW k \in Keys, NEW ts \in Nat, NEW i \in Nat \ {0}, NEW rec \in Record
  PROVE  Counted(rec, k, ts, i) \in Record
<1>1. Impaired(k, rec.problem) \in Problems \cup {Clean}
  BY DEF TypeOK, Impaired, Record
<1> QED BY <1>1 DEF Counted, Record

-----------------------------------------------------------------------------
(* Type correctness.                                                       *)

\* A new tracker is well typed.
LEMMA TypeInit == Init => TypeOK
<1> SUFFICES ASSUME Init PROVE TypeOK
  OBVIOUS
<1>1. \A k \in Keys : heap[k] \in Seq(Record) /\ Len(heap[k]) = 0
  BY DEF Init
<1> QED BY <1>1 DEF Init, TypeOK, Handed, Nil

\* Allocating a record keeps the heap well typed and adds one record.
LEMMA TypeAllocate ==
  ASSUME TypeOK, Take, Packet.key \in Keys, Allocate(Packet.key, Packet.ts)
  PROVE  /\ heap' \in [Keys -> Seq(Record)]
         /\ Len(heap'[Packet.key]) = Len(heap[Packet.key]) + 1
         /\ \A k \in Keys : Len(heap[k]) <= Len(heap'[k])
<1> DEFINE k == Packet.key
           new == NewRecord(k, Packet.ts, consumed')
<1>1. new \in Record
  BY PacketType, NewRecordType
<1>2. heap' = [heap EXCEPT ![k] = Append(heap[k], new)]
  BY DEF Allocate
<1>3. heap[k] \in Seq(Record)
  BY DEF TypeOK
<1>4. Append(heap[k], new) \in Seq(Record) /\ Len(Append(heap[k], new)) = Len(heap[k]) + 1
  BY <1>1, <1>3
<1> HIDE DEF new
<1>5. heap' \in [Keys -> Seq(Record)]
  BY <1>2, <1>4 DEF TypeOK
<1>6. \A j \in Keys : heap'[j] = IF j = k THEN Append(heap[k], new) ELSE heap[j]
  BY <1>2 DEF TypeOK
<1>7. \A j \in Keys : Len(heap[j]) \in Nat
  BY DEF TypeOK
<1> QED BY <1>4, <1>5, <1>6, <1>7

\* Pointers already handed over stay good while no sequence of records shrinks.
LEMMA PointersKept ==
  ASSUME TypeOK, heap' \in [Keys -> Seq(Record)],
         \A k \in Keys : Len(heap[k]) <= Len(heap'[k])
  PROVE  \A r \in Handed : r \in Keys \X Nat /\ r[2] \in 1..Len(heap'[r[1]])
<1> TAKE r \in Handed
<1>1. r \in Keys \X Nat /\ r[2] \in 1..Len(heap[r[1]])
  BY DEF TypeOK
<1>2. r[1] \in Keys /\ Len(heap[r[1]]) \in Nat /\ Len(heap'[r[1]]) \in Nat
  BY <1>1 DEF TypeOK
<1>3. Len(heap[r[1]]) <= Len(heap'[r[1]])
  BY <1>2
<1> QED BY <1>1, <1>2, <1>3

\* What an update and a sweep do to the records of one key.
LEMMA UpdateType ==
  ASSUME TypeOK, ProcessUpdate
  PROVE  /\ heap' \in [Keys -> Seq(Record)]
         /\ \A k \in Keys : Len(heap'[k]) = Len(heap[k])
<1> DEFINE k == Packet.key
           new == Counted(heap[k][flows[k]], k, Packet.ts, consumed')
<1>1. k \in Live /\ Take
  BY DEF ProcessUpdate
<1>2. k \in Keys /\ flows[k] \in 1..Len(heap[k]) /\ heap[k][flows[k]] \in Record
  BY <1>1, LivePointer
<1>3. new \in Record
  BY <1>1, <1>2, PacketType, CountedType
<1>4. heap' = [heap EXCEPT ![k] = [heap[k] EXCEPT ![flows[k]] = new]]
  BY DEF ProcessUpdate
<1>5. heap[k] \in Seq(Record)
  BY <1>2 DEF TypeOK
<1> HIDE DEF new
<1>6. [heap[k] EXCEPT ![flows[k]] = new] \in Seq(Record)
  BY <1>2, <1>3, <1>5
<1>7. Len([heap[k] EXCEPT ![flows[k]] = new]) = Len(heap[k])
  BY <1>2, <1>5
<1> QED BY <1>2, <1>4, <1>6, <1>7 DEF TypeOK

\* What a sweep leaves of each key's records: renewed ones and clones.
LEMMA ScanHeap ==
  ASSUME TypeOK, Scan, NEW k \in Keys
  PROVE  /\ heap'[k] \in Seq(Record)
         /\ k \notin ActiveKeys => heap'[k] = heap[k]
         /\ k \in ActiveKeys =>
              /\ flows[k] \in 1..Len(heap[k])
              /\ Len(heap'[k]) = Len(heap[k]) + 1
              /\ heap'[k][Len(heap[k]) + 1] = heap[k][flows[k]]
              /\ heap'[k][flows[k]] = Renewed(heap[k][flows[k]])
              /\ \A n \in 1..Len(heap[k]) : n # flows[k] => heap'[k][n] = heap[k][n]
<1>1. heap'[k] = IF k \in ActiveKeys
                 THEN Append([heap[k] EXCEPT ![flows[k]] = Renewed(heap[k][flows[k]])],
                             heap[k][flows[k]])
                 ELSE heap[k]
  BY DEF Scan, Slot, IdleHanded, ActiveHanded
<1>2. heap[k] \in Seq(Record)
  BY DEF TypeOK
<1>3. CASE k \in ActiveKeys
  <2> DEFINE old == heap[k][flows[k]]
             s   == [heap[k] EXCEPT ![flows[k]] = Renewed(old)]
  <2>1. flows[k] \in 1..Len(heap[k]) /\ old \in Record
    BY <1>3, LivePointer DEF ActiveKeys
  <2>2. Renewed(old) \in Record
    BY <2>1 DEF TypeOK, Renewed, Record
  <2>3. heap'[k] = Append(s, old)
    BY <1>1, <1>3
  <2> HIDE DEF old
  <2>4. s \in Seq(Record) /\ Len(s) = Len(heap[k]) /\ s[flows[k]] = Renewed(old)
    BY <1>2, <2>1, <2>2
  <2>5. \A n \in 1..Len(heap[k]) : n # flows[k] => s[n] = heap[k][n]
    BY <1>2, <2>1
  <2> HIDE DEF s
  <2>6. Append(s, old) \in Seq(Record) /\ Len(Append(s, old)) = Len(s) + 1
          /\ Append(s, old)[Len(s) + 1] = old
          /\ \A n \in 1..Len(s) : Append(s, old)[n] = s[n]
    BY <2>1, <2>4
  <2> QED BY <1>3, <2>1, <2>3, <2>4, <2>5, <2>6 DEF old
<1> QED BY <1>1, <1>2, <1>3

\* A sweep keeps the heap well typed.
LEMMA ScanType ==
  ASSUME TypeOK, Scan
  PROVE  /\ heap' \in [Keys -> Seq(Record)]
         /\ \A k \in Keys : Len(heap[k]) <= Len(heap'[k])
<1>1. heap' = [k \in Keys |-> heap'[k]]
  BY DEF Scan, Slot, IdleHanded, ActiveHanded
<1>2. \A k \in Keys : heap'[k] \in Seq(Record)
  BY ScanHeap
<1>3. \A k \in Keys : Len(heap[k]) \in Nat
  BY DEF TypeOK
<1> QED BY <1>1, <1>2, <1>3, ScanHeap

\* Process keeps the types, whichever way the packet goes.
LEMMA TypeProcess == TypeOK /\ Process => TypeOK'
<1> SUFFICES ASSUME TypeOK, Process PROVE TypeOK'
  OBVIOUS
<1>1. Take
  BY DEF Process, ProcessIgnored, ProcessUpdate, ProcessCreate, ProcessEvict
<1>2. consumed' \in 0..Len(captured')
  BY <1>1, PacketType DEF Take
<1>3. UNCHANGED <<clock, captured, stamps, run, exported>>
  BY <1>1 DEF Take
<1>4. CASE ProcessIgnored
  BY <1>2, <1>3, <1>4 DEF ProcessIgnored, TypeOK, Handed, table, stamps, run
<1>5. CASE ProcessUpdate
  BY <1>2, <1>3, <1>5, UpdateType DEF ProcessUpdate, TypeOK, Handed, stamps, run
<1>6. CASE ProcessCreate
  <2>1. Packet.key \in Keys /\ Allocate(Packet.key, Packet.ts)
    BY <1>6 DEF ProcessCreate
  <2>2. /\ heap' \in [Keys -> Seq(Record)]
        /\ \A k \in Keys : Len(heap[k]) <= Len(heap'[k])
    BY <1>1, <2>1, TypeAllocate
  <2>3. flows' \in [Keys -> Nat] /\ \A k \in Keys : flows'[k] <= Len(heap'[k])
    BY <1>6, <2>1, <2>2 DEF ProcessCreate, TypeOK
  <2>4. Handed' = Handed
    BY <1>3, <1>6 DEF ProcessCreate, Handed, run
  <2>5. \A r \in Handed' : r \in Keys \X Nat /\ r[2] \in 1..Len(heap'[r[1]])
    BY <2>2, <2>4, PointersKept
  <2> QED BY <1>2, <1>3, <1>6, <2>2, <2>3, <2>5 DEF ProcessCreate, TypeOK, stamps, run
<1>7. ASSUME NEW v \in Keys, ProcessEvict(v) PROVE TypeOK'
  <2>1. Packet.key \in Keys /\ Allocate(Packet.key, Packet.ts)
    BY <1>7 DEF ProcessEvict, Evicted
  <2>2. /\ heap' \in [Keys -> Seq(Record)]
        /\ \A k \in Keys : Len(heap[k]) <= Len(heap'[k])
    BY <1>1, <2>1, TypeAllocate
  <2>3. flows' \in [Keys -> Nat] /\ \A k \in Keys : flows'[k] <= Len(heap'[k])
    <3> DEFINE n == Len(heap'[Packet.key])
    <3>1. \A k \in Keys : Len(heap[k]) \in Nat /\ Len(heap'[k]) \in Nat
      BY <2>2 DEF TypeOK
    <3>2. flows' = [flows EXCEPT ![v] = Nil, ![Packet.key] = n]
      BY <1>7 DEF ProcessEvict, Evicted
    <3>3. n \in Nat
      BY <2>1, <3>1
    <3>4. \A k \in Keys : flows'[k] \in {Nil, flows[k]} \/ (k = Packet.key /\ flows'[k] = n)
      BY <3>2 DEF TypeOK
    <3>5. flows' \in [Keys -> Nat]
      BY <3>2, <3>3 DEF TypeOK, Nil
    <3>6. \A k \in Keys : flows[k] \in Nat /\ flows[k] <= Len(heap[k])
      BY DEF TypeOK
    <3>7. ASSUME NEW k \in Keys PROVE flows'[k] <= Len(heap'[k])
      <4>1. CASE flows'[k] = Nil
        BY <3>1, <4>1 DEF Nil
      <4>2. CASE flows'[k] = flows[k]
        BY <2>2, <3>1, <3>6, <4>2
      <4>3. CASE k = Packet.key /\ flows'[k] = n
        BY <3>1, <4>3
      <4> QED BY <3>4, <4>1, <4>2, <4>3
    <3> QED BY <3>5, <3>7
  <2>4. flows[v] \in 1..Len(heap[v]) /\ flows[v] \in Nat
    BY <1>7, LivePointer DEF ProcessEvict, Evicted, Oldest
  <2>5. Handed' = Handed \cup {<<v, flows[v]>>}
    BY <1>3, <1>7 DEF ProcessEvict, Evicted, Handed, run
  <2>6. <<v, flows[v]>>[2] \in 1..Len(heap'[v])
    BY <2>2, <2>4 DEF TypeOK
  <2>7. \A r \in Handed' : r \in Keys \X Nat /\ r[2] \in 1..Len(heap'[r[1]])
    BY <2>2, <2>4, <2>5, <2>6, PointersKept
  <2>8. evictions' \in Nat
    BY <1>7 DEF ProcessEvict, Evicted, TypeOK
  <2> QED BY <1>2, <1>3, <2>2, <2>3, <2>7, <2>8 DEF TypeOK, stamps, run
<1> QED BY <1>4, <1>5, <1>6, <1>7 DEF Process

\* A sweep keeps the types, and the pointers it takes out point to records.
LEMMA TypeScan == TypeOK /\ Scan => TypeOK'
<1> SUFFICES ASSUME TypeOK, Scan PROVE TypeOK'
  OBVIOUS
<1>1. UNCHANGED <<clock, channel, evictions, stamps, runNow, spawned, exported>>
  BY DEF Scan, Slot, IdleHanded, ActiveHanded
<1>2. flows' \in [Keys -> Nat] /\ \A k \in Keys : flows'[k] <= Len(heap'[k])
  <2>1. flows' = [k \in Keys |-> IF k \in IdleKeys THEN Nil ELSE flows[k]]
    BY DEF Scan, Slot, IdleHanded, ActiveHanded
  <2>2. \A k \in Keys : Len(heap[k]) \in Nat /\ Len(heap'[k]) \in Nat
    BY ScanType DEF TypeOK
  <2> QED BY <2>1, <2>2, ScanType DEF TypeOK, Nil
<1>3. \A r \in expired' : r \in Keys \X Nat /\ r[2] \in 1..Len(heap'[r[1]])
  <2>1. \A k \in IdleKeys : k \in Keys /\ flows[k] \in 1..Len(heap[k]) /\ flows[k] \in Nat
    BY LivePointer DEF IdleKeys
  <2>2. \A k \in ActiveKeys : k \in Keys /\ Len(heap'[k]) = Len(heap[k]) + 1
    BY ScanHeap DEF ActiveKeys, Live
  <2>3. \A k \in Keys : Len(heap[k]) \in Nat /\ Len(heap'[k]) \in Nat
    BY ScanType DEF TypeOK
  <2>4. expired' = {<<k, flows[k]>> : k \in IdleKeys}
                     \cup {<<k, Len(heap[k]) + 1>> : k \in ActiveKeys}
    BY DEF Scan, Slot, IdleHanded, ActiveHanded
  <2> QED BY <2>1, <2>2, <2>3, <2>4, ScanType
<1>4. \A r \in Handed' : r \in Keys \X Nat /\ r[2] \in 1..Len(heap'[r[1]])
  BY <1>1, <1>3, ScanType, PointersKept DEF Handed
<1>5. runPc' \in {"idle", "scan", "export"}
  BY DEF Scan, Slot, IdleHanded, ActiveHanded
<1> QED BY <1>1, <1>2, <1>4, <1>5, ScanType DEF TypeOK, channel, stamps

\* Every step keeps the types.
LEMMA TypeNext == TypeOK /\ [Next]_vars => TypeOK'
<1> SUFFICES ASSUME TypeOK, [Next]_vars PROVE TypeOK'
  OBVIOUS
<1> USE DEF channel, table, stamps, run, Handed
<1>1. CASE Tick
  BY <1>1 DEF Tick, TypeOK
<1>2. ASSUME NEW k \in Keys \cup {NotIPv4}, Capture(k) PROVE TypeOK'
  <2>1. [key |-> k, ts |-> clock] \in [key : Keys \cup {NotIPv4}, ts : Nat]
    BY DEF TypeOK
  <2>2. /\ captured' \in Seq([key : Keys \cup {NotIPv4}, ts : Nat])
        /\ consumed \in 0..Len(captured')
    BY <1>2, <2>1 DEF Capture, TypeOK
  <2> QED BY <1>2, <2>2 DEF Capture, TypeOK
<1>3. CASE Process
  BY <1>3, TypeProcess
<1>4. ASSUME NEW r \in spawned, EvictExport(r) PROVE TypeOK'
  BY <1>4 DEF EvictExport, TypeOK
<1>5. CASE CheckBegin
  BY <1>5 DEF CheckBegin, TypeOK
<1>6. CASE Scan
  BY <1>6, TypeScan
<1>7. CASE RunExport
  BY <1>7 DEF RunExport, TypeOK
<1>8. ASSUME NEW c \in CpuLoads, SetCpuLoad(c) PROVE TypeOK'
  BY <1>8 DEF SetCpuLoad, TypeOK
<1>9. ASSUME NEW k \in Keys, NEW p \in Problems, InjectProblem(k, p) PROVE TypeOK'
  BY <1>9 DEF InjectProblem, TypeOK
<1>10. CASE ClearProblems
  BY <1>10 DEF ClearProblems, TypeOK
<1>11. CASE PollIEDStart
  BY <1>11 DEF PollIEDStart, TypeOK
<1>12. ASSUME NEW m \in IedMetas, PollIED(m) PROVE TypeOK'
  BY <1>12 DEF PollIED, TypeOK
<1>13. CASE UNCHANGED vars
  BY <1>13 DEF vars, TypeOK
<1> QED
  BY <1>1, <1>2, <1>3, <1>4, <1>5, <1>6, <1>7, <1>8, <1>9, <1>10, <1>11, <1>12, <1>13
     DEF Next, Agent, Environment

\* Every pointer points to a record: no sweep, eviction or insertion leaves a
\* key in the table, a sweep's list or a goroutine without its record.
THEOREM TypeCorrect == Spec => []TypeOK
<1> QED BY TypeInit, TypeNext, PTL DEF Spec

-----------------------------------------------------------------------------
(* Which record counts which packet, and how the steps that write records  *)
(* change it.                                                              *)

Counts(i, k, n) == n \in 1..Len(heap[k]) /\ i \in heap[k][n].pkts

\* An allocation makes the new packet counted in the new record and changes
\* nothing else.
LEMMA CountsAllocate ==
  ASSUME TypeOK, Take, Packet.key \in Keys, Allocate(Packet.key, Packet.ts)
  PROVE  \A k \in Keys : \A n, i :
           Counts(i, k, n)' <=>
             \/ Counts(i, k, n)
             \/ k = Packet.key /\ n = Len(heap[k]) + 1 /\ i = consumed'
<1> DEFINE p == Packet.key
           new == NewRecord(p, Packet.ts, consumed')
<1>1. new.pkts = {consumed'}
  BY DEF NewRecord
<1>2. heap' = [heap EXCEPT ![p] = Append(heap[p], new)]
  BY DEF Allocate
<1> HIDE DEF new
<1>3. \A k \in Keys : heap'[k] = IF k = p THEN Append(heap[p], new) ELSE heap[k]
  BY <1>2 DEF TypeOK
<1>4. heap[p] \in Seq(Record)
  BY DEF TypeOK
<1>5. /\ Len(Append(heap[p], new)) = Len(heap[p]) + 1
      /\ Append(heap[p], new)[Len(heap[p]) + 1] = new
      /\ \A n \in 1..Len(heap[p]) : Append(heap[p], new)[n] = heap[p][n]
      /\ Len(heap[p]) \in Nat
  BY <1>4
<1>6. ASSUME NEW k \in Keys, k = p, NEW n, NEW i
      PROVE  Counts(i, k, n)' <=> Counts(i, k, n) \/ (n = Len(heap[k]) + 1 /\ i = consumed')
  <2>1. /\ Len(heap'[k]) = Len(heap[k]) + 1 /\ Len(heap[k]) \in Nat
        /\ heap'[k][Len(heap[k]) + 1] = new
        /\ \A m \in 1..Len(heap[k]) : heap'[k][m] = heap[k][m]
    BY <1>3, <1>5, <1>6
  <2>2. CASE n \in 1..Len(heap[k])
    BY <2>1, <2>2 DEF Counts
  <2>3. CASE n = Len(heap[k]) + 1
    BY <1>1, <2>1, <2>3 DEF Counts
  <2>4. CASE n \notin 1..(Len(heap[k]) + 1)
    BY <2>1, <2>4 DEF Counts
  <2> QED BY <2>1, <2>2, <2>3, <2>4
<1>7. ASSUME NEW k \in Keys, k # p, NEW n, NEW i
      PROVE  Counts(i, k, n)' <=> Counts(i, k, n)
  BY <1>3, <1>7 DEF Counts
<1> QED BY <1>6, <1>7

\* A packet of a known flow is counted in its live record and nowhere else.
LEMMA CountsUpdate ==
  ASSUME TypeOK, ProcessUpdate
  PROVE  \A k \in Keys : \A n, i :
           Counts(i, k, n)' <=>
             \/ Counts(i, k, n)
             \/ k = Packet.key /\ n = flows[k] /\ i = consumed'
<1> DEFINE p == Packet.key
           old == heap[p][flows[p]]
           new == Counted(old, p, Packet.ts, consumed')
           s == [heap[p] EXCEPT ![flows[p]] = new]
<1>1. p \in Keys /\ flows[p] \in 1..Len(heap[p]) /\ old \in Record
  BY LivePointer DEF ProcessUpdate
<1>2. new.pkts = old.pkts \cup {consumed'}
  BY <1>1 DEF Counted, Record
<1>3. heap' = [heap EXCEPT ![p] = s]
  BY DEF ProcessUpdate
<1> HIDE DEF new
<1>4. heap[p] \in Seq(Record)
  BY <1>1 DEF TypeOK
<1>5. Len(s) = Len(heap[p]) /\ s[flows[p]] = new
        /\ \A n \in 1..Len(heap[p]) : n # flows[p] => s[n] = heap[p][n]
  BY <1>1, <1>4
<1> HIDE DEF s
<1>6. \A k \in Keys : heap'[k] = IF k = p THEN s ELSE heap[k]
  BY <1>3 DEF TypeOK
<1>7. ASSUME NEW k \in Keys, k = p, NEW n, NEW i
      PROVE  Counts(i, k, n)' <=> Counts(i, k, n) \/ (n = flows[k] /\ i = consumed')
  <2>1. CASE n = flows[k]
    BY <1>1, <1>2, <1>5, <1>6, <1>7, <2>1 DEF Counts
  <2>2. CASE n # flows[k]
    BY <1>1, <1>5, <1>6, <1>7, <2>2 DEF Counts
  <2> QED BY <2>1, <2>2
<1>8. ASSUME NEW k \in Keys, k # p, NEW n, NEW i
      PROVE  Counts(i, k, n)' <=> Counts(i, k, n)
  BY <1>6, <1>8 DEF Counts
<1> QED BY <1>7, <1>8

\* A sweep moves what an active record counts to its clone.
LEMMA CountsScan ==
  ASSUME TypeOK, Scan
  PROVE  \A k \in Keys : \A n, i :
           Counts(i, k, n)' <=>
             \/ Counts(i, k, n) /\ ~(k \in ActiveKeys /\ n = flows[k])
             \/ k \in ActiveKeys /\ n = Len(heap[k]) + 1 /\ Counts(i, k, flows[k])
<1> SUFFICES ASSUME NEW k \in Keys, NEW n, NEW i
             PROVE  Counts(i, k, n)' <=>
                      \/ Counts(i, k, n) /\ ~(k \in ActiveKeys /\ n = flows[k])
                      \/ k \in ActiveKeys /\ n = Len(heap[k]) + 1 /\ Counts(i, k, flows[k])
  OBVIOUS
<1>1. CASE k \notin ActiveKeys
  BY <1>1, ScanHeap DEF Counts
<1>2. CASE k \in ActiveKeys
  <2>1. Len(heap[k]) \in Nat
    BY DEF TypeOK
  <2>2. Renewed(heap[k][flows[k]]).pkts = {}
    <3>1. heap[k][flows[k]] \in Record
      BY <1>2, LivePointer DEF ActiveKeys
    <3> QED BY <3>1 DEF Renewed, Record
  <2>3. CASE n = flows[k]
    BY <1>2, <2>1, <2>2, <2>3, ScanHeap DEF Counts
  <2>4. CASE n = Len(heap[k]) + 1
    BY <1>2, <2>1, <2>4, ScanHeap DEF Counts
  <2>5. CASE n # flows[k] /\ n # Len(heap[k]) + 1
    <3>1. n \in 1..Len(heap[k]) <=> n \in 1..Len(heap'[k])
      BY <1>2, <2>1, <2>5, ScanHeap
    <3> QED BY <1>2, <2>5, <3>1, ScanHeap DEF Counts
  <2> QED BY <2>3, <2>4, <2>5
<1> QED BY <1>1, <1>2

-----------------------------------------------------------------------------
(* Accounting: every packet consumed is counted, by one record of its key. *)

Accounts ==
  /\ \A k \in Keys : \A n, i : Counts(i, k, n) =>
       i \in 1..consumed /\ captured[i].key = k /\ \A m : Counts(i, k, m) => m = n
  /\ \A i \in 1..consumed : captured[i].key # NotIPv4 =>
       \E n : Counts(i, captured[i].key, n)

\* The invariant on counts says what PacketAccounting says.
LEMMA AccountsMeaning == Accounts => PacketAccounting
<1> SUFFICES ASSUME Accounts PROVE PacketAccounting
  OBVIOUS
<1>1. ASSUME NEW k \in Keys, NEW n \in 1..Len(heap[k]), NEW i \in heap[k][n].pkts
      PROVE  /\ i <= consumed /\ captured[i].key = k
             /\ \A m \in 1..Len(heap[k]) : i \in heap[k][m].pkts => m = n
  <2>1. Counts(i, k, n)
    BY DEF Counts
  <2> QED BY <2>1 DEF Accounts, Counts
<1>2. ASSUME NEW i \in 1..consumed, captured[i].key # NotIPv4
      PROVE  \E n \in 1..Len(heap[captured[i].key]) : i \in heap[captured[i].key][n].pkts
  BY <1>2 DEF Accounts, Counts
<1> QED BY <1>1, <1>2 DEF PacketAccounting

\* A packet is counted in a record that did not count it, and by no other.
LEMMA AccountsGrow ==
  ASSUME TypeOK, Accounts, Take, NEW k \in Keys, NEW n, k = Packet.key,
         \A j \in Keys : \A m, i :
           Counts(i, j, m)' <=> Counts(i, j, m) \/ (j = k /\ m = n /\ i = consumed')
  PROVE  Accounts'
<1>1. consumed' = consumed + 1 /\ captured' = captured /\ consumed \in Nat
  BY PacketType DEF Take, TypeOK
<1>2. captured[consumed'].key = k
  BY <1>1 DEF Packet
<1>3. \A j \in Keys : \A m : ~Counts(consumed', j, m)
  BY <1>1 DEF Accounts
<1>4. ASSUME NEW j \in Keys, NEW m, NEW i, Counts(i, j, m)'
      PROVE  i \in 1..consumed' /\ captured'[i].key = j /\ \A l : Counts(i, j, l)' => l = m
  <2>1. CASE Counts(i, j, m)
    <3>1. i \in 1..consumed /\ captured[i].key = j /\ \A l : Counts(i, j, l) => l = m
      BY <2>1 DEF Accounts
    <3> QED BY <1>1, <3>1
  <2>2. CASE j = k /\ m = n /\ i = consumed'
    BY <1>1, <1>2, <1>3, <2>2
  <2> QED BY <1>4, <2>1, <2>2
<1>5. ASSUME NEW i \in 1..consumed', captured'[i].key # NotIPv4
      PROVE  \E m : Counts(i, captured[i].key, m)'
  <2>1. CASE i = consumed'
    BY <1>1, <1>2, <2>1
  <2>2. CASE i \in 1..consumed
    <3>1. PICK m : Counts(i, captured[i].key, m)
      BY <1>1, <1>5, <2>2 DEF Accounts
    <3>2. captured[i].key \in Keys
      <4>1. \A S : captured \in Seq(S) => captured[i] \in S
        BY <2>2 DEF TypeOK
      <4>2. captured[i] \in [key : Keys \cup {NotIPv4}, ts : Nat]
        BY <4>1 DEF TypeOK
      <4> QED BY <1>1, <1>5, <4>2
    <3>3. Counts(i, captured[i].key, m)'
      <4>1. PICK j \in Keys : j = captured[i].key
        BY <3>2
      <4>2. Counts(i, j, m)'
        BY <3>1, <4>1
      <4>3. captured'[i].key = j
        BY <1>1, <4>1
      <4> QED BY <4>2, <4>3 DEF Counts
    <3> QED BY <3>3
  <2> QED BY <1>1, <2>1, <2>2
<1> QED BY <1>4, <1>5 DEF Accounts

\* A step that leaves heap and channel alone keeps the accounts.
LEMMA AccountsSame ==
  ASSUME Accounts, UNCHANGED <<heap, captured, consumed>>
  PROVE  Accounts'
<1> QED BY DEF Accounts, Counts

\* A packet that waits in the channel is in no account.
LEMMA AccountsCapture ==
  ASSUME TypeOK, Accounts, NEW k \in Keys \cup {NotIPv4}, Capture(k)
  PROVE  Accounts'
<1>1. UNCHANGED <<heap, consumed>> /\ captured' = Append(captured, [key |-> k, ts |-> clock])
  BY DEF Capture, table
<1>2. consumed \in Nat /\ consumed <= Len(captured) /\ Len(captured) \in Nat
  BY DEF TypeOK
<1>3. \A i \in 1..Len(captured) : captured'[i] = captured[i]
  BY <1>1 DEF TypeOK
<1>4. \A i \in 1..consumed : captured'[i].key = captured[i].key
  BY <1>2, <1>3
<1>5. \A i, j, n : Counts(i, j, n)' <=> Counts(i, j, n)
  BY <1>1 DEF Counts
<1>6. ASSUME NEW i \in 1..consumed, captured[i].key # NotIPv4
      PROVE  \E n : Counts(i, captured[i].key, n)'
  <2>1. PICK n : Counts(i, captured[i].key, n)
    BY <1>6 DEF Accounts
  <2> QED BY <1>1, <1>4, <2>1 DEF Counts
<1> QED BY <1>1, <1>4, <1>5, <1>6 DEF Accounts

\* A sweep neither loses a packet nor counts it twice.
LEMMA AccountsScan ==
  ASSUME TypeOK, Accounts, Scan
  PROVE  Accounts'
<1>1. UNCHANGED <<captured, consumed>>
  BY DEF Scan, Slot, IdleHanded, ActiveHanded, channel
<1>2. \A k \in Keys : \A i : ~Counts(i, k, Len(heap[k]) + 1)
  BY DEF Counts, TypeOK
<1>3. ASSUME NEW k \in Keys, NEW n, NEW i, Counts(i, k, n)'
      PROVE  i \in 1..consumed /\ captured[i].key = k /\ \A m : Counts(i, k, m)' => m = n
  <2>1. PICK o : Counts(i, k, o)
    BY <1>3, CountsScan
  <2>2. i \in 1..consumed /\ captured[i].key = k /\ \A m : Counts(i, k, m) => m = o
    BY <2>1 DEF Accounts
  <2> QED BY <1>2, <1>3, <2>2, CountsScan
<1>4. ASSUME NEW i \in 1..consumed, captured[i].key # NotIPv4
      PROVE  \E n : Counts(i, captured[i].key, n)'
  <2>1. PICK o : Counts(i, captured[i].key, o)
    BY <1>4 DEF Accounts
  <2>2. PICK k \in Keys : k = captured[i].key
    <3>1. \A S : captured \in Seq(S) => captured[i] \in S
      BY <1>4 DEF TypeOK
    <3>2. captured[i] \in [key : Keys \cup {NotIPv4}, ts : Nat]
      BY <3>1 DEF TypeOK
    <3> QED BY <1>4, <3>2
  <2>3. \E n : Counts(i, k, n)'
    BY <2>1, <2>2, CountsScan
  <2> QED BY <1>1, <2>2, <2>3 DEF Counts
<1> QED BY <1>1, <1>3, <1>4 DEF Accounts

\* Process adds the packet it takes to one account.
LEMMA AccountsProcess == TypeOK /\ Accounts /\ Process => Accounts'
<1> SUFFICES ASSUME TypeOK, Accounts, Process PROVE Accounts'
  OBVIOUS
<1>1. CASE ProcessIgnored
  <2>1. Take /\ Packet.key = NotIPv4 /\ heap' = heap
    BY <1>1 DEF ProcessIgnored, table
  <2>2. consumed' = consumed + 1 /\ captured' = captured /\ consumed \in Nat
    BY <2>1, PacketType DEF Take, TypeOK
  <2>3. captured[consumed'].key = NotIPv4
    BY <2>1, <2>2 DEF Packet
  <2> QED BY <2>1, <2>2, <2>3 DEF Accounts, Counts
<1>2. CASE ProcessUpdate
  <2>1. Take /\ Packet.key \in Keys
    BY <1>2 DEF ProcessUpdate, Live
  <2>2. PICK k \in Keys : k = Packet.key
    BY <2>1
  <2>3. PICK n : n = flows[k]
    OBVIOUS
  <2>4. \A j \in Keys : \A m, i :
          Counts(i, j, m)' <=> Counts(i, j, m) \/ (j = k /\ m = n /\ i = consumed')
    BY <1>2, <2>2, <2>3, CountsUpdate
  <2> QED BY <2>1, <2>2, <2>4, AccountsGrow
<1>3. ASSUME Take, Packet.key \in Keys, Allocate(Packet.key, Packet.ts)
      PROVE  Accounts'
  <2>1. PICK k \in Keys : k = Packet.key
    BY <1>3
  <2>2. PICK n : n = Len(heap[k]) + 1
    OBVIOUS
  <2>3. \A j \in Keys : \A m, i :
          Counts(i, j, m)' <=> Counts(i, j, m) \/ (j = k /\ m = n /\ i = consumed')
    BY <1>3, <2>1, <2>2, CountsAllocate
  <2> QED BY <1>3, <2>1, <2>3, AccountsGrow
<1> QED BY <1>1, <1>2, <1>3 DEF Process, ProcessCreate, ProcessEvict

\* An empty cache has nothing to account for.
LEMMA AccountsInit == Init => Accounts
<1> QED BY DEF Init, Accounts, Counts

\* Every step keeps the accounts.
LEMMA AccountsNext == TypeOK /\ Accounts /\ [Next]_vars => Accounts'
<1> SUFFICES ASSUME TypeOK, Accounts, [Next]_vars PROVE Accounts'
  OBVIOUS
<1>1. ASSUME UNCHANGED <<heap, captured, consumed>> PROVE Accounts'
  BY <1>1, AccountsSame
<1>2. CASE \E k \in Keys \cup {NotIPv4} : Capture(k)
  BY <1>2, AccountsCapture
<1>3. CASE Process
  BY <1>3, AccountsProcess
<1>4. CASE Scan
  BY <1>4, AccountsScan
<1>5. CASE Tick \/ CheckBegin \/ RunExport \/ \E r \in spawned : EvictExport(r)
  BY <1>1, <1>5 DEF Tick, CheckBegin, RunExport, EvictExport, channel, table
<1>6. CASE Environment
  BY <1>1, <1>6 DEF Environment, SetCpuLoad, InjectProblem, ClearProblems, PollIEDStart,
                    PollIED, channel, table
<1>7. CASE UNCHANGED vars
  BY <1>1, <1>7 DEF vars, channel, table
<1> QED BY <1>2, <1>3, <1>4, <1>5, <1>6, <1>7 DEF Next, Agent

\* Each packet that Process has counted is in exactly one record, however
\* updates, evictions, active-timeout clones and idle removals interleave.
THEOREM AccountingCorrect == Spec => []PacketAccounting
<1>1. Init => TypeOK /\ Accounts
  BY TypeInit, AccountsInit
<1>2. TypeOK /\ Accounts /\ [Next]_vars => TypeOK' /\ Accounts'
  BY TypeNext, AccountsNext
<1> QED BY <1>1, <1>2, AccountsMeaning, PTL DEF Spec

-----------------------------------------------------------------------------
(* Places: a record is in the table, in the sweep's list, with a goroutine *)
(* or exported, and in one of them only.                                   *)

\* A record just allocated was nowhere before.
LEMMA FreshRef ==
  ASSUME TypeOK, NEW k \in Keys
  PROVE  <<k, Len(heap[k]) + 1>> \notin LiveRefs \cup Handed
<1>1. Len(heap[k]) \in Nat /\ flows[k] \in Nat /\ flows[k] <= Len(heap[k])
  BY DEF TypeOK
<1>2. \A r \in Handed : r[2] \in 1..Len(heap[r[1]])
  BY DEF TypeOK
<1> QED BY <1>1, <1>2 DEF LiveRefs

\* No record, no place.
LEMMA PlaceInit == Init => OnePlace
<1> QED BY DEF Init, OnePlace, LiveRefs, Live, Nil, Handed

\* A new record is in the table, and every other one where it was.
LEMMA PlaceCreate ==
  ASSUME TypeOK, OnePlace, ProcessCreate
  PROVE  OnePlace'
<1>1. PICK k \in Keys \ Live : k = Packet.key
  BY DEF ProcessCreate
<1>2. PICK n : n = Len(heap[k]) + 1
  OBVIOUS
<1>3. Take /\ Allocate(Packet.key, Packet.ts) /\ Packet.key \in Keys
  BY DEF ProcessCreate
<1>4. heap' \in [Keys -> Seq(Record)] /\ Len(heap'[k]) = n
  BY <1>1, <1>2, <1>3, TypeAllocate
<1>5. \A j \in Keys : j # k => heap'[j] = heap[j]
  BY <1>1, <1>3 DEF Allocate, TypeOK
<1>6. flows' = [flows EXCEPT ![k] = n] /\ n \in Nat \ {0}
  BY <1>1, <1>2, <1>4 DEF ProcessCreate, TypeOK
<1>7. UNCHANGED <<expired, spawned, exported, runPc>>
  BY DEF ProcessCreate, Take, run
<1>8. LiveRefs' = LiveRefs \cup {<<k, n>>}
  BY <1>1, <1>6 DEF LiveRefs, Live, TypeOK, Nil
<1>9. <<k, n>> \notin Handed
  BY <1>1, <1>2, FreshRef
<1>10. \A j \in Keys : \A m \in 1..Len(heap'[j]) : m \in 1..Len(heap[j]) \/ (j = k /\ m = n)
  BY <1>2, <1>4, <1>5 DEF TypeOK
<1> QED BY <1>7, <1>8, <1>9, <1>10 DEF OnePlace, Handed

\* An evicted record goes to its goroutine, the new one to the table.
LEMMA PlaceEvict ==
  ASSUME TypeOK, OnePlace, NEW v \in Keys, ProcessEvict(v)
  PROVE  OnePlace'
<1>1. PICK k \in Keys \ Live : k = Packet.key
  BY DEF ProcessEvict, Evicted
<1>2. PICK n : n = Len(heap[k]) + 1
  OBVIOUS
<1>3. Take /\ Allocate(Packet.key, Packet.ts) /\ Packet.key \in Keys
  BY DEF ProcessEvict, Evicted
<1>4. heap' \in [Keys -> Seq(Record)] /\ Len(heap'[k]) = n
  BY <1>1, <1>2, <1>3, TypeAllocate
<1>5. \A j \in Keys : j # k => heap'[j] = heap[j]
  BY <1>1, <1>3 DEF Allocate, TypeOK
<1>6. v \in Live /\ v # k
  BY <1>1 DEF ProcessEvict, Evicted, Oldest
<1>7. PICK o : o = flows[v]
  OBVIOUS
<1>8. <<v, o>> \in LiveRefs
  BY <1>6, <1>7 DEF LiveRefs
<1>9. flows' = [flows EXCEPT ![v] = Nil, ![k] = n] /\ n \in Nat \ {0}
  BY <1>1, <1>2, <1>4 DEF ProcessEvict, Evicted, TypeOK
<1>10. LiveRefs' = (LiveRefs \ {<<v, o>>}) \cup {<<k, n>>}
  <2>1. \A j \in Keys : flows'[j] = IF j = k THEN n ELSE IF j = v THEN Nil ELSE flows[j]
    BY <1>6, <1>9 DEF TypeOK
  <2>2. Live' = (Live \ {v}) \cup {k}
    BY <1>6, <1>9, <2>1 DEF Live, Nil
  <2> QED BY <1>1, <1>6, <1>7, <2>1, <2>2 DEF LiveRefs, Live
<1>11. spawned' = spawned \cup {<<v, o>>} /\ UNCHANGED <<expired, exported, runPc>>
  BY <1>7 DEF ProcessEvict, Evicted, Take, run
<1>12. <<k, n>> \notin Handed /\ <<k, n>> # <<v, o>>
  BY <1>1, <1>2, <1>6, FreshRef
<1>13. \A j \in Keys : \A m \in 1..Len(heap'[j]) : m \in 1..Len(heap[j]) \/ (j = k /\ m = n)
  BY <1>2, <1>4, <1>5 DEF TypeOK
<1>14. <<v, o>> \notin Handed
  BY <1>8 DEF OnePlace
<1>15. \A r \in LiveRefs' : r \notin Handed'
  BY <1>10, <1>11, <1>12 DEF OnePlace, Handed
<1>16. \A j \in Keys : \A m \in 1..Len(heap'[j]) : <<j, m>> \in LiveRefs' \cup Handed'
  BY <1>10, <1>11, <1>13 DEF OnePlace, Handed
<1> QED BY <1>11, <1>14, <1>15, <1>16 DEF OnePlace, Handed

\* A sweep takes idle records and clones to its list and leaves the rest.
LEMMA PlaceScan ==
  ASSUME TypeOK, OnePlace, Scan
  PROVE  OnePlace'
<1> DEFINE Gone == {<<k, flows[k]>> : k \in IdleKeys}
           Clones == {<<k, Len(heap[k]) + 1>> : k \in ActiveKeys}
<1>1. expired = {}
  BY DEF OnePlace, Scan
<1>2. expired' = Gone \cup Clones /\ UNCHANGED <<spawned, exported>>
  BY DEF Scan, Slot, IdleHanded, ActiveHanded
<1>3. runPc' = "idle" => expired' = {}
  BY DEF Scan, Slot, IdleHanded, ActiveHanded
<1>4. LiveRefs' = LiveRefs \ Gone
  <2>1. flows' = [k \in Keys |-> IF k \in IdleKeys THEN Nil ELSE flows[k]]
    BY DEF Scan, Slot, IdleHanded, ActiveHanded
  <2>2. Live' = Live \ IdleKeys
    BY <2>1 DEF Live, Nil
  <2>3. \A k \in Live' : flows'[k] = flows[k]
    BY <2>1, <2>2 DEF Live
  <2>4. LiveRefs' = {<<k, flows[k]>> : k \in Live \ IdleKeys}
    BY <2>2, <2>3 DEF LiveRefs
  <2> QED BY <2>4 DEF LiveRefs
<1>5. Gone \subseteq LiveRefs
  BY DEF IdleKeys, LiveRefs
<1>6. \A r \in Clones : r \notin LiveRefs \cup Handed
  BY FreshRef DEF ActiveKeys, Live
<1>7. \A k \in Keys : \A n \in 1..Len(heap'[k]) : n \in 1..Len(heap[k]) \/ <<k, n>> \in Clones
  <2> TAKE k \in Keys
  <2>1. Len(heap[k]) \in Nat
    BY DEF TypeOK
  <2> QED BY <2>1, ScanHeap
<1>8. runPc' \in {"idle", "export"}
  BY DEF Scan, Slot, IdleHanded, ActiveHanded
<1> HIDE DEF Gone, Clones
<1>9. \A k \in Keys : \A n \in 1..Len(heap'[k]) : <<k, n>> \in LiveRefs' \cup Handed'
  BY <1>1, <1>2, <1>4, <1>7 DEF OnePlace, Handed
<1>10. \A r \in LiveRefs' : r \notin Handed'
  BY <1>2, <1>4, <1>6 DEF OnePlace, Handed
<1> QED BY <1>2, <1>3, <1>5, <1>6, <1>8, <1>9, <1>10 DEF OnePlace, Handed

\* Every step keeps each record in one place.
LEMMA PlaceNext == TypeOK /\ OnePlace /\ [Next]_vars => OnePlace'
<1> SUFFICES ASSUME TypeOK, OnePlace, [Next]_vars PROVE OnePlace'
  OBVIOUS
<1>1. ASSUME UNCHANGED <<heap, flows, run, spawned, exported>> PROVE OnePlace'
  BY <1>1 DEF OnePlace, LiveRefs, Live, Handed, run
<1>2. CASE ProcessIgnored
  BY <1>1, <1>2 DEF ProcessIgnored, Take, table
<1>3. CASE ProcessUpdate
  <2>1. UNCHANGED <<flows, run, spawned, exported>>
    BY <1>3 DEF ProcessUpdate, Take
  <2> QED BY <1>3, <2>1, UpdateType DEF OnePlace, LiveRefs, Live, Handed, run
<1>4. CASE CheckBegin
  BY <1>4 DEF CheckBegin, OnePlace, LiveRefs, Live, Handed, table
<1>5. CASE RunExport
  <2>1. UNCHANGED <<LiveRefs, spawned>> /\ expired' = {} /\ exported' = exported \cup expired
    BY <1>5 DEF RunExport, LiveRefs, Live, table
  <2>2. heap' = heap
    BY <1>5 DEF RunExport, table
  <2>3. Handed' = Handed
    BY <2>1 DEF Handed
  <2> QED BY <2>1, <2>2, <2>3 DEF OnePlace
<1>6. ASSUME NEW r \in spawned, EvictExport(r) PROVE OnePlace'
  <2>1. UNCHANGED <<LiveRefs, expired, runPc, heap>>
    BY <1>6 DEF EvictExport, LiveRefs, Live, table, run
  <2>2. spawned' = spawned \ {r} /\ exported' = exported \cup {r}
    BY <1>6 DEF EvictExport
  <2>3. Handed' = Handed
    BY <2>1, <2>2 DEF Handed
  <2> QED BY <2>1, <2>2, <2>3 DEF OnePlace
<1>7. CASE Tick \/ Environment \/ \E k \in Keys \cup {NotIPv4} : Capture(k)
  BY <1>1, <1>7 DEF Tick, Capture, Environment, SetCpuLoad, InjectProblem, ClearProblems,
                    PollIEDStart, PollIED, table
<1>8. CASE UNCHANGED vars
  BY <1>1, <1>8 DEF vars, table
<1> QED
  BY <1>2, <1>3, <1>4, <1>5, <1>6, <1>7, <1>8, PlaceCreate, PlaceEvict, PlaceScan
     DEF Next, Agent, Process

\* No record is in two places, nor lost between them: what a sweep or an
\* eviction takes out of the table, one goroutine hands to onExport.
THEOREM PlacesCorrect == Spec => []OnePlace
<1>1. Init => TypeOK /\ OnePlace
  BY TypeInit, PlaceInit
<1>2. TypeOK /\ OnePlace /\ [Next]_vars => TypeOK' /\ OnePlace'
  BY TypeNext, PlaceNext
<1> QED BY <1>1, <1>2, PTL DEF Spec

-----------------------------------------------------------------------------
(* What has been handed over is not written again.                         *)

\* A packet is written into a live record or a new one, never another.
LEMMA AllocateKeeps ==
  ASSUME TypeOK, Packet.key \in Keys, Allocate(Packet.key, Packet.ts),
         NEW r \in Handed
  PROVE  Deref(r)' = Deref(r)
<1> DEFINE p == Packet.key
           new == NewRecord(p, Packet.ts, consumed')
<1>1. r[1] \in Keys /\ r[2] \in 1..Len(heap[r[1]]) /\ heap[r[1]] \in Seq(Record)
  BY DEF TypeOK
<1>2. heap' = [heap EXCEPT ![p] = Append(heap[p], new)]
  BY DEF Allocate
<1> HIDE DEF new
<1>3. heap'[r[1]][r[2]] = heap[r[1]][r[2]]
  BY <1>1, <1>2 DEF TypeOK
<1> QED BY <1>3 DEF Deref

\* Counting a packet writes a live record, so no record handed over.
LEMMA UpdateKeeps ==
  ASSUME TypeOK, OnePlace, ProcessUpdate, NEW r \in Handed
  PROVE  Deref(r)' = Deref(r)
<1> DEFINE p == Packet.key
           new == Counted(heap[p][flows[p]], p, Packet.ts, consumed')
<1>1. r = <<r[1], r[2]>> /\ r[1] \in Keys /\ heap[r[1]] \in Seq(Record)
  BY DEF TypeOK
<1>2. p \in Live /\ heap' = [heap EXCEPT ![p] = [heap[p] EXCEPT ![flows[p]] = new]]
  BY DEF ProcessUpdate
<1>3. r[1] = p => r[2] # flows[p]
  BY <1>1, <1>2 DEF OnePlace, LiveRefs
<1> HIDE DEF new
<1>4. heap'[r[1]][r[2]] = heap[r[1]][r[2]]
  BY <1>1, <1>2, <1>3 DEF TypeOK
<1> QED BY <1>4 DEF Deref

\* A sweep writes live records only.
LEMMA ScanKeeps ==
  ASSUME TypeOK, OnePlace, Scan, NEW r \in Handed
  PROVE  Deref(r)' = Deref(r)
<1>1. r = <<r[1], r[2]>> /\ r[1] \in Keys /\ r[2] \in 1..Len(heap[r[1]])
  BY DEF TypeOK
<1>2. r[1] \in Live => r[2] # flows[r[1]]
  BY <1>1 DEF OnePlace, LiveRefs
<1>3. heap'[r[1]][r[2]] = heap[r[1]][r[2]]
  BY <1>1, <1>2, ScanHeap DEF ActiveKeys
<1> QED BY <1>3 DEF Deref

\* No step writes a record handed over before it.
LEMMA HandedKept ==
  ASSUME TypeOK, OnePlace, [Next]_vars, NEW r \in Handed
  PROVE  r \in Handed' /\ Deref(r)' = Deref(r)
<1>1. ASSUME UNCHANGED <<heap, expired, spawned, exported>>
      PROVE  r \in Handed' /\ Deref(r)' = Deref(r)
  BY <1>1 DEF Handed, Deref
<1>2. CASE ProcessIgnored
  BY <1>1, <1>2 DEF ProcessIgnored, Take, table, run
<1>3. CASE ProcessUpdate
  BY <1>3, UpdateKeeps DEF ProcessUpdate, Take, run, Handed
<1>4. CASE ProcessCreate
  BY <1>4, AllocateKeeps DEF ProcessCreate, Take, run, Handed
<1>5. CASE \E v \in Keys : ProcessEvict(v)
  BY <1>5, AllocateKeeps DEF ProcessEvict, Evicted, Take, run, Handed
<1>6. CASE Scan
  <2>1. expired = {} /\ UNCHANGED <<spawned, exported>>
    BY <1>6 DEF OnePlace, Scan
  <2> QED BY <1>6, <2>1, ScanKeeps DEF Handed
<1>7. CASE RunExport \/ \E s \in spawned : EvictExport(s)
  BY <1>7 DEF RunExport, EvictExport, table, run, Handed, Deref
<1>8. CASE Tick \/ CheckBegin \/ Environment \/ \E k \in Keys \cup {NotIPv4} : Capture(k)
  BY <1>1, <1>8 DEF Tick, CheckBegin, Capture, Environment, SetCpuLoad, InjectProblem,
                    ClearProblems, PollIEDStart, PollIED, table, run
<1>9. CASE UNCHANGED vars
  BY <1>1, <1>9 DEF vars, table, run
<1> QED
  BY <1>2, <1>3, <1>4, <1>5, <1>6, <1>7, <1>8, <1>9 DEF Next, Agent, Process

\* The goroutine that aggregates and encodes a record reads it without a lock,
\* and no step of any other one changes it from the moment it left the table.
THEOREM FrozenAfterHandOver == Spec => HandedOverFrozen
<1>1. Init => TypeOK /\ OnePlace
  BY TypeInit, PlaceInit
<1>2. TypeOK /\ OnePlace /\ [Next]_vars => TypeOK' /\ OnePlace'
  BY TypeNext, PlaceNext
<1>3. TypeOK /\ OnePlace /\ [Next]_vars
        => [\A r \in Handed : r \in Handed' /\ Deref(r)' = Deref(r)]_vars
  BY HandedKept
<1> QED BY <1>1, <1>2, <1>3, PTL DEF Spec, HandedOverFrozen

-----------------------------------------------------------------------------
(* What a record is stamped with.                                          *)

\* The stamps of a flow that stays in the table, on its record and its copies.
StampsKept(k) ==
  \A n \in {flows[k]} \cup (Len(heap[k]) + 1)..Len(heap'[k]) :
    flows'[k] = flows[k] =>
      /\ heap'[k][n].cpu = heap[k][flows[k]].cpu
      /\ heap'[k][n].ied = heap[k][flows[k]].ied

\* A flow whose records a step leaves alone keeps its stamps.
LEMMA SameStamps ==
  ASSUME TypeOK, NEW k \in Live, heap'[k] = heap[k] PROVE StampsKept(k)
<1>1. Len(heap[k]) \in Nat /\ (Len(heap[k]) + 1)..Len(heap'[k]) = {}
  BY DEF TypeOK, Live
<1> QED BY <1>1 DEF StampsKept

\* A packet of a flow in the table leaves the stamps of its record.
LEMMA UpdateStamps ==
  ASSUME TypeOK, ProcessUpdate, NEW k \in Live PROVE StampsKept(k)
<1> DEFINE p == Packet.key
           new == Counted(heap[p][flows[p]], p, Packet.ts, consumed')
<1>1. p \in Live /\ heap' = [heap EXCEPT ![p] = [heap[p] EXCEPT ![flows[p]] = new]]
  BY DEF ProcessUpdate
<1>2. CASE k # p
  BY <1>1, <1>2, SameStamps DEF TypeOK, Live
<1>3. CASE k = p
  <2>1. /\ k \in Keys /\ flows[k] \in 1..Len(heap[k]) /\ heap[k] \in Seq(Record)
        /\ heap[k][flows[k]] \in Record
    BY LivePointer DEF TypeOK, Live
  <2>2. new.cpu = heap[k][flows[k]].cpu /\ new.ied = heap[k][flows[k]].ied
    BY <1>3, <2>1 DEF Counted, Record
  <2> HIDE DEF new
  <2>3. heap'[k] = [heap[k] EXCEPT ![flows[k]] = new]
    BY <1>1, <1>3, <2>1 DEF TypeOK
  <2>4. Len(heap'[k]) = Len(heap[k]) /\ heap'[k][flows[k]] = new
    BY <2>1, <2>3
  <2>5. (Len(heap[k]) + 1)..Len(heap'[k]) = {}
    BY <2>1, <2>4
  <2> QED BY <2>2, <2>4, <2>5 DEF StampsKept
<1> QED BY <1>2, <1>3

\* The renewed record and its clone have the stamps of the record before.
LEMMA ScanStamps ==
  ASSUME TypeOK, Scan, NEW k \in Live PROVE StampsKept(k)
<1>1. CASE k \notin ActiveKeys
  BY <1>1, ScanHeap, SameStamps DEF Live
<1>2. CASE k \in ActiveKeys
  <2>1. /\ k \in Keys /\ Len(heap[k]) \in Nat /\ Len(heap'[k]) = Len(heap[k]) + 1
        /\ heap'[k][Len(heap[k]) + 1] = heap[k][flows[k]]
        /\ heap'[k][flows[k]] = Renewed(heap[k][flows[k]])
    BY <1>2, ScanHeap DEF Live, TypeOK
  <2>2. heap[k][flows[k]] \in Record
    BY LivePointer
  <2>3. /\ Renewed(heap[k][flows[k]]).cpu = heap[k][flows[k]].cpu
        /\ Renewed(heap[k][flows[k]]).ied = heap[k][flows[k]].ied
    BY <2>2 DEF Renewed, Record
  <2>4. (Len(heap[k]) + 1)..Len(heap'[k]) = {Len(heap[k]) + 1}
    BY <2>1
  <2> QED BY <2>1, <2>3, <2>4 DEF StampsKept
<1> QED BY <1>1, <1>2

\* No step changes the stamps of a flow that stays in the table.
LEMMA StampsNext ==
  ASSUME TypeOK, [Next]_vars, NEW k \in Live PROVE StampsKept(k)
<1>1. CASE UNCHANGED heap
  BY <1>1, SameStamps
<1>2. CASE Packet.key \in Keys \ Live /\ Allocate(Packet.key, Packet.ts)
  <2>1. heap'[k] = heap[k]
    BY <1>2 DEF Allocate, Live, TypeOK
  <2> QED BY <2>1, SameStamps
<1>3. CASE Process
  BY <1>1, <1>2, <1>3, UpdateStamps
     DEF Process, ProcessIgnored, ProcessCreate, ProcessEvict, table
<1>4. CASE Scan
  BY <1>4, ScanStamps
<1>5. CASE RunExport \/ CheckBegin \/ \E r \in spawned : EvictExport(r)
  BY <1>1, <1>5 DEF RunExport, CheckBegin, EvictExport, table
<1>6. CASE Tick \/ Environment \/ \E j \in Keys \cup {NotIPv4} : Capture(j)
  BY <1>1, <1>6 DEF Tick, Capture, Environment, SetCpuLoad, InjectProblem,
                    ClearProblems, PollIEDStart, PollIED, table
<1>7. CASE UNCHANGED vars
  BY <1>1, <1>7 DEF vars, table
<1> QED BY <1>3, <1>4, <1>5, <1>6, <1>7 DEF Next, Agent

\* The CPU load and the IED's metadata of a flow are those of its creation as
\* long as it is in the table, and what an active timeout reports has the same.
THEOREM StampsCorrect == Spec => StampsFixedAtCreation
<1>1. TypeOK /\ [Next]_vars
        => [\A k \in Live :
             \A n \in {flows[k]} \cup (Len(heap[k]) + 1)..Len(heap'[k]) :
               flows'[k] = flows[k] =>
                 /\ heap'[k][n].cpu = heap[k][flows[k]].cpu
                 /\ heap'[k][n].ied = heap[k][flows[k]].ied]_vars
  <2> SUFFICES ASSUME TypeOK, [Next]_vars, NEW k \in Live
               PROVE  \A n \in {flows[k]} \cup (Len(heap[k]) + 1)..Len(heap'[k]) :
                        flows'[k] = flows[k] =>
                          /\ heap'[k][n].cpu = heap[k][flows[k]].cpu
                          /\ heap'[k][n].ied = heap[k][flows[k]].ied
    OBVIOUS
  <2>1. StampsKept(k)
    BY StampsNext
  <2> QED BY <2>1 DEF StampsKept
<1> QED BY <1>1, TypeCorrect, PTL DEF Spec, StampsFixedAtCreation

-----------------------------------------------------------------------------
(* The bound on the table.                                                 *)

BoundInv == IsFiniteSet(Live) /\ TableBound

\* The empty table is within the limit.
LEMMA BoundInit == Init => BoundInv
<1> SUFFICES ASSUME Init PROVE BoundInv
  OBVIOUS
<1>1. Live = {}
  BY DEF Init, Live, Nil
<1> QED BY <1>1, FS_EmptySet, TrackerAssumption DEF BoundInv, TableBound

\* A step that only removes flows keeps the bound.
LEMMA BoundShrinks ==
  ASSUME BoundInv, Live' \subseteq Live
  PROVE  BoundInv'
<1>1. IsFiniteSet(Live') /\ Cardinality(Live') <= Cardinality(Live)
  BY FS_Subset DEF BoundInv
<1>2. Cardinality(Live) \in Nat /\ Cardinality(Live') \in Nat
  BY <1>1, FS_CardinalityType DEF BoundInv
<1> QED BY <1>1, <1>2, TrackerAssumption DEF BoundInv, TableBound

\* Every step keeps the bound: a creation needs room, an eviction makes it.
LEMMA BoundNext == TypeOK /\ BoundInv /\ [Next]_vars => BoundInv'
<1> SUFFICES ASSUME TypeOK, BoundInv, [Next]_vars PROVE BoundInv'
  OBVIOUS
<1>1. CASE flows' = flows
  BY <1>1, BoundShrinks DEF Live
<1>2. CASE ProcessCreate
  <2>1. PICK k \in Keys \ Live : k = Packet.key
    BY <1>2 DEF ProcessCreate
  <2>2. Live' \subseteq Live \cup {k}
    BY <1>2, <2>1 DEF ProcessCreate, Live, TypeOK
  <2>3. IsFiniteSet(Live \cup {k}) /\ Cardinality(Live \cup {k}) = Cardinality(Live) + 1
    BY <2>1, FS_AddElement DEF BoundInv
  <2>4. IsFiniteSet(Live') /\ Cardinality(Live') <= Cardinality(Live) + 1
    BY <2>2, <2>3, FS_Subset
  <2>5. Cardinality(Live) \in Nat /\ Cardinality(Live') \in Nat
    BY <2>4, FS_CardinalityType DEF BoundInv
  <2>6. MaxFlows > 0 => Cardinality(Live) < MaxFlows
    BY <1>2, <2>5, TrackerAssumption DEF ProcessCreate, Full
  <2> QED BY <2>4, <2>5, <2>6, TrackerAssumption DEF BoundInv, TableBound
<1>3. ASSUME NEW v \in Keys, ProcessEvict(v) PROVE BoundInv'
  <2>1. PICK k \in Keys \ Live : k = Packet.key
    BY <1>3 DEF ProcessEvict, Evicted
  <2>2. v \in Live
    BY <1>3 DEF ProcessEvict, Evicted, Oldest
  <2>3. Live' \subseteq (Live \ {v}) \cup {k}
    BY <1>3, <2>1, <2>2 DEF ProcessEvict, Evicted, Live, TypeOK, Nil
  <2>4. IsFiniteSet(Live \ {v}) /\ Cardinality(Live \ {v}) = Cardinality(Live) - 1
    BY <2>2, FS_RemoveElement DEF BoundInv
  <2>5. /\ IsFiniteSet((Live \ {v}) \cup {k})
        /\ Cardinality((Live \ {v}) \cup {k}) = Cardinality(Live \ {v}) + 1
    BY <2>1, <2>4, FS_AddElement
  <2>6. IsFiniteSet(Live') /\ Cardinality(Live') <= Cardinality(Live \ {v}) + 1
    BY <2>3, <2>5, FS_Subset
  <2>7. Cardinality(Live) \in Nat /\ Cardinality(Live') \in Nat
    BY <2>6, FS_CardinalityType DEF BoundInv
  <2> QED BY <2>4, <2>6, <2>7, TrackerAssumption DEF BoundInv, TableBound
<1>4. CASE Scan
  <2>1. Live' \subseteq Live
    BY <1>4 DEF Scan, Slot, IdleHanded, ActiveHanded, Live, Nil
  <2> QED BY <2>1, BoundShrinks
<1> QED
  BY <1>1, <1>2, <1>3, <1>4 DEF Next, Agent, Process, Environment, Tick, Capture,
     ProcessIgnored, ProcessUpdate, CheckBegin, RunExport, EvictExport, SetCpuLoad,
     InjectProblem, ClearProblems, PollIEDStart, PollIED, table, vars

\* The table never holds more than MAX_FLOWS flows, whatever traffic arrives:
\* a packet with a new key first evicts a flow when the table is full.
THEOREM BoundCorrect == Spec => []TableBound
<1>1. Init => TypeOK /\ BoundInv
  BY TypeInit, BoundInit
<1>2. TypeOK /\ BoundInv /\ [Next]_vars => TypeOK' /\ BoundInv'
  BY TypeNext, BoundNext
<1>3. BoundInv => TableBound
  BY DEF BoundInv
<1> QED BY <1>1, <1>2, <1>3, PTL DEF Spec

-----------------------------------------------------------------------------
(* Reports and time: which packets a record counts, before or after which  *)
(* others, and what Last says of them.                                     *)

CapturedInOrder ==
  \A i, j \in 1..Len(captured) :
    captured[i].ts <= clock /\ (i <= j => captured[i].ts <= captured[j].ts)

Last(k, n)  == heap[k][n].last
Empty(k, n) == \A i : ~Counts(i, k, n)

\* The packets of a record come before those of another.
Precedes(k, n, m) == \A i, j : Counts(i, k, n) /\ Counts(j, k, m) => i < j

\* A packet that Last may be the time of.
SeenAt(k, n, m, i) ==
  /\ Counts(i, k, m) /\ captured[i].ts = Last(k, n)
  /\ m = n \/ (Empty(k, n) /\ <<k, m>> \in Handed)

\* Last is no earlier than the packets of the record, and the time of one.
LastSeen(k, n) ==
  /\ \A i : Counts(i, k, n) => captured[i].ts <= Last(k, n)
  /\ \E m, i : SeenAt(k, n, m, i)

Stretches(k) ==
  \A n, m \in 1..Len(heap[k]) : n # m => Precedes(k, n, m) \/ Precedes(k, m, n)

\* The record in the table is the latest: all packets consumed are no later
\* than its Last, and it counts those after the ones of other records.
Latest(k) ==
  /\ \A i \in 1..consumed : captured[i].key = k => captured[i].ts <= Last(k, flows[k])
  /\ \A m \in 1..Len(heap[k]) : m # flows[k] => Precedes(k, m, flows[k])

Timely ==
  /\ CapturedInOrder
  /\ \A k \in Keys : Stretches(k) /\ \A n \in 1..Len(heap[k]) : LastSeen(k, n)
  /\ \A k \in Live : Latest(k)

\* What it says of reports.
LEMMA TimelyMeaning == Timely => ReportsInOrder
<1> SUFFICES ASSUME Timely, NEW k \in Keys, NEW n \in 1..Len(heap[k])
             PROVE  /\ \A i \in heap[k][n].pkts : captured[i].ts <= heap[k][n].last
                    /\ \E m \in 1..Len(heap[k]) : \E i \in heap[k][m].pkts :
                         /\ captured[i].ts = heap[k][n].last
                         /\ IF heap[k][n].pkts # {} THEN m = n ELSE <<k, m>> \in Handed
                    /\ \A m \in 1..Len(heap[k]) \ {n} :
                         \/ \A i \in heap[k][n].pkts, j \in heap[k][m].pkts : i < j
                         \/ \A i \in heap[k][n].pkts, j \in heap[k][m].pkts : j < i
  BY DEF ReportsInOrder
<1>1. Stretches(k) /\ LastSeen(k, n)
  BY DEF Timely
<1>2. \A m \in 1..Len(heap[k]) : \A i : Counts(i, k, m) <=> i \in heap[k][m].pkts
  BY DEF Counts
<1>3. \A i \in heap[k][n].pkts : captured[i].ts <= heap[k][n].last
  BY <1>1, <1>2 DEF LastSeen, Last
<1>4. \E m \in 1..Len(heap[k]) : \E i \in heap[k][m].pkts :
        /\ captured[i].ts = heap[k][n].last
        /\ IF heap[k][n].pkts # {} THEN m = n ELSE <<k, m>> \in Handed
  <2>1. PICK m, i : SeenAt(k, n, m, i)
    BY <1>1 DEF LastSeen
  <2>2. m \in 1..Len(heap[k]) /\ i \in heap[k][m].pkts /\ captured[i].ts = heap[k][n].last
    BY <2>1 DEF SeenAt, Counts, Last
  <2>3. m = n \/ (heap[k][n].pkts = {} /\ <<k, m>> \in Handed)
    BY <1>2, <2>1 DEF SeenAt, Empty
  <2> QED BY <2>2, <2>3
<1>5. ASSUME NEW m \in 1..Len(heap[k]) \ {n}
      PROVE  \/ \A i \in heap[k][n].pkts, j \in heap[k][m].pkts : i < j
             \/ \A i \in heap[k][n].pkts, j \in heap[k][m].pkts : j < i
  BY <1>1, <1>2 DEF Stretches, Precedes
<1> QED BY <1>3, <1>4, <1>5

\* A step that writes no record and consumes nothing.
LEMMA TimelySame ==
  ASSUME TypeOK, OnePlace, Timely, [Next]_vars,
         UNCHANGED <<heap, flows, captured, consumed>>, clock <= clock'
  PROVE  Timely'
<1>1. \A i, k, n : Counts(i, k, n)' <=> Counts(i, k, n)
  BY DEF Counts
<1>2. \A r \in Handed : r \in Handed'
  BY HandedKept
<1>3. CapturedInOrder'
  <2>1. \A i \in 1..Len(captured) : captured[i].ts <= clock'
    <3> TAKE i \in 1..Len(captured)
    <3>1. \A S : captured \in Seq(S) => captured[i] \in S
      OBVIOUS
    <3>2. captured[i].ts \in Nat /\ clock \in Nat
      BY <3>1 DEF TypeOK
    <3>3. clock' \in Nat
      BY TypeNext DEF TypeOK
    <3> QED BY <3>2, <3>3 DEF Timely, CapturedInOrder
  <2> QED BY <2>1 DEF Timely, CapturedInOrder
<1>4. \A k, n, m, i : SeenAt(k, n, m, i) => SeenAt(k, n, m, i)'
  BY <1>1, <1>2 DEF SeenAt, Last, Empty
<1>5. ASSUME NEW k \in Keys, NEW n \in 1..Len(heap[k]) PROVE LastSeen(k, n)'
  BY <1>1, <1>4 DEF Timely, LastSeen, Last
<1>6. \A k \in Keys : Stretches(k)'
  BY <1>1 DEF Timely, Stretches, Precedes
<1>7. \A k \in Live : Latest(k)'
  BY <1>1 DEF Timely, Latest, Precedes, Last
<1> QED BY <1>3, <1>5, <1>6, <1>7 DEF Timely, Live

\* A packet that waits in the channel is later than all before it.
LEMMA TimelyCapture ==
  ASSUME TypeOK, OnePlace, Accounts, Timely, [Next]_vars,
         NEW c \in Keys \cup {NotIPv4}, Capture(c)
  PROVE  Timely'
<1>1. /\ UNCHANGED <<heap, flows, consumed, clock, Handed>>
      /\ captured' = Append(captured, [key |-> c, ts |-> clock])
  BY DEF Capture, table, run, Handed
<1> DEFINE n == Len(captured)
<1>2. n \in Nat /\ consumed \in 0..n
  BY DEF TypeOK
<1>3. /\ Len(captured') = n + 1 /\ captured'[n + 1].ts = clock
      /\ \A i \in 1..n : captured'[i] = captured[i]
  BY <1>1, <1>2 DEF TypeOK
<1>4. \A i \in 1..n : captured[i].ts \in Nat /\ clock \in Nat
  <2> TAKE i \in 1..n
  <2>1. \A S : captured \in Seq(S) => captured[i] \in S
    OBVIOUS
  <2> QED BY <2>1 DEF TypeOK
<1>5. CapturedInOrder'
  <2> SUFFICES ASSUME NEW i \in 1..(n + 1), NEW j \in 1..(n + 1)
               PROVE  captured'[i].ts <= clock /\ (i <= j => captured'[i].ts <= captured'[j].ts)
    BY <1>1, <1>3 DEF CapturedInOrder
  <2>1. clock \in Nat
    BY DEF TypeOK
  <2>2. CASE i \in 1..n /\ j \in 1..n
    BY <1>3, <2>2 DEF Timely, CapturedInOrder
  <2>3. CASE i \in 1..n /\ j = n + 1
    BY <1>3, <2>3 DEF Timely, CapturedInOrder
  <2>4. CASE i = n + 1
    BY <1>2, <1>3, <2>1, <2>4
  <2> QED BY <1>2, <2>2, <2>3, <2>4
<1> HIDE DEF n
<1>6. \A i, k, m : Counts(i, k, m)' <=> Counts(i, k, m)
  BY <1>1 DEF Counts
<1>7. \A i \in 1..consumed : captured'[i] = captured[i]
  BY <1>2, <1>3
<1>8. \A k \in Keys : \A m, i : Counts(i, k, m) => captured'[i] = captured[i]
  BY <1>7 DEF Accounts
<1>9. ASSUME NEW k \in Keys, NEW m \in 1..Len(heap[k]) PROVE LastSeen(k, m)'
  <2>1. \A l, i : SeenAt(k, m, l, i) => SeenAt(k, m, l, i)'
    BY <1>1, <1>6, <1>8 DEF SeenAt, Last, Empty
  <2>2. \A i : Counts(i, k, m)' => captured'[i].ts <= heap'[k][m].last
    BY <1>1, <1>6, <1>8 DEF Timely, LastSeen, Last
  <2> QED BY <2>1, <2>2 DEF Timely, LastSeen, Last
<1>10. \A k \in Keys : Stretches(k)'
  BY <1>1, <1>6 DEF Timely, Stretches, Precedes
<1>11. \A k \in Live : Latest(k)'
  BY <1>1, <1>6, <1>7 DEF Timely, Latest, Precedes, Last
<1> QED BY <1>1, <1>5, <1>9, <1>10, <1>11 DEF Timely, Live

\* A packet is later than those consumed before it, and so is its record.
LEMMA TimelyGrow ==
  ASSUME TypeOK, TypeOK', OnePlace, Accounts, Timely, [Next]_vars, Take,
         NEW k \in Keys, k = Packet.key, NEW n,
         \A j \in Keys : \A m, i :
           Counts(i, j, m)' <=> Counts(i, j, m) \/ (j = k /\ m = n /\ i = consumed'),
         \A j \in Keys : \A m \in 1..Len(heap'[j]) :
           (j = k /\ m = n) \/ (m \in 1..Len(heap[j]) /\ Last(j, m)' = Last(j, m)),
         Last(k, n)' = Packet.ts, flows'[k] = n,
         \A j \in Live' : j = k \/ (j \in Live /\ flows'[j] = flows[j]),
         \A m : m # n => Precedes(k, m, n)
  PROVE  Timely'
<1>1. /\ consumed' = consumed + 1 /\ consumed' \in 1..Len(captured) /\ consumed \in Nat
      /\ captured' = captured /\ clock' = clock
  BY PacketType DEF Take, TypeOK
<1>2. captured[consumed'].ts = Packet.ts /\ captured[consumed'].key = k
  BY <1>1 DEF Packet
<1>3. CapturedInOrder'
  BY <1>1 DEF Timely, CapturedInOrder
<1>4. \A i \in 1..consumed' : captured[i].ts <= Packet.ts
  BY <1>1, <1>2 DEF Timely, CapturedInOrder
<1>5. \A j \in Keys : \A m, i : Counts(i, j, m) => i \in 1..consumed
  BY DEF Accounts
<1>6. \A m : m # n => Precedes(k, m, n)'
  <2> TAKE m
  <2> SUFFICES ASSUME m # n, NEW i, NEW j, Counts(i, k, m)', Counts(j, k, n)' PROVE i < j
    BY DEF Precedes
  <2>1. Counts(i, k, m) /\ i \in 1..consumed
    BY <1>5
  <2>2. CASE Counts(j, k, n)
    BY <2>1, <2>2 DEF Precedes
  <2>3. CASE j = consumed'
    BY <1>1, <2>1, <2>3
  <2> QED BY <2>2, <2>3
<1>7. ASSUME NEW j \in Keys PROVE Stretches(j)'
  <2> SUFFICES ASSUME NEW l \in 1..Len(heap'[j]), NEW m \in 1..Len(heap'[j]), l # m
               PROVE  Precedes(j, l, m)' \/ Precedes(j, m, l)'
    BY DEF Stretches
  <2>1. CASE j = k /\ (l = n \/ m = n)
    BY <1>6, <2>1
  <2>2. CASE ~(j = k /\ (l = n \/ m = n))
    <3>1. l \in 1..Len(heap[j]) /\ m \in 1..Len(heap[j])
      BY <2>2
    <3>2. Precedes(j, l, m) \/ Precedes(j, m, l)
      BY <3>1 DEF Timely, Stretches
    <3>3. \A i : (Counts(i, j, l)' <=> Counts(i, j, l)) /\ (Counts(i, j, m)' <=> Counts(i, j, m))
      BY <2>2
    <3> QED BY <3>2, <3>3 DEF Precedes
  <2> QED BY <2>1, <2>2
<1>8. ASSUME NEW j \in Keys, NEW m \in 1..Len(heap'[j]) PROVE LastSeen(j, m)'
  <2>1. CASE j = k /\ m = n
    <3>1. \A i : Counts(i, k, n)' => i \in 1..consumed'
      BY <1>1, <1>5
    <3>2. \A i : Counts(i, k, n)' => captured'[i].ts <= Last(k, n)'
      BY <1>1, <1>4, <3>1
    <3>3. PICK i : i = consumed'
      OBVIOUS
    <3>4. SeenAt(k, n, n, i)'
      BY <1>1, <1>2, <3>3 DEF SeenAt
    <3> QED BY <2>1, <3>2, <3>4 DEF LastSeen
  <2>2. CASE ~(j = k /\ m = n)
    <3>1. m \in 1..Len(heap[j]) /\ Last(j, m)' = Last(j, m)
      BY <2>2
    <3>2. \A i : Counts(i, j, m)' <=> Counts(i, j, m)
      BY <2>2
    <3>3. PICK l, i : SeenAt(j, m, l, i)
      BY <3>1 DEF Timely, LastSeen
    <3>4. \A r \in Handed : r \in Handed'
      BY HandedKept
    <3>5. SeenAt(j, m, l, i)'
      BY <1>1, <3>1, <3>2, <3>3, <3>4 DEF SeenAt, Empty
    <3>6. \A h : Counts(h, j, m) => captured[h].ts <= Last(j, m)
      BY <3>1 DEF Timely, LastSeen
    <3> QED BY <1>1, <3>1, <3>2, <3>5, <3>6 DEF LastSeen
  <2> QED BY <2>1, <2>2
<1>9. ASSUME NEW j \in Live' PROVE Latest(j)'
  <2>1. j \in Keys
    BY DEF Live
  <2>2. CASE j = k
    <3>1. \A i \in 1..consumed' : captured'[i].ts <= Last(k, flows[k])'
      BY <1>1, <1>4
    <3>2. \A m \in 1..Len(heap'[k]) : m # flows'[k] => Precedes(k, m, flows[k])'
      BY <1>6
    <3> QED BY <2>2, <3>1, <3>2 DEF Latest
  <2>3. CASE j # k
    <3>1. j \in Live /\ flows'[j] = flows[j] /\ Latest(j)
      BY <2>3 DEF Timely
    <3>2. flows'[j] \in 1..Len(heap'[j]) /\ Last(j, flows[j])' = Last(j, flows[j])
      <4>1. flows'[j] \in 1..Len(heap'[j])
        BY <2>1 DEF TypeOK, Live, Nil
      <4> QED BY <2>1, <2>3, <3>1, <4>1 DEF Last
    <3>3. \A i \in 1..consumed' : captured'[i].key = j => i \in 1..consumed
      BY <1>1, <1>2, <2>3
    <3>4. \A i \in 1..consumed' : captured'[i].key = j => captured'[i].ts <= Last(j, flows[j])'
      BY <1>1, <3>1, <3>2, <3>3 DEF Latest
    <3>5. \A m, i : Counts(i, j, m)' <=> Counts(i, j, m)
      BY <2>1, <2>3
    <3>6. \A m \in 1..Len(heap'[j]) : m # flows'[j] => Precedes(j, m, flows[j])'
      BY <2>1, <2>3, <3>1, <3>5 DEF Latest, Precedes
    <3> QED BY <3>4, <3>6 DEF Latest
  <2> QED BY <2>2, <2>3
<1> QED BY <1>3, <1>7, <1>8, <1>9 DEF Timely

\* Process takes the next packet, and the record it counts it in is the latest.
LEMMA TimelyProcess ==
  ASSUME TypeOK, TypeOK', OnePlace, Accounts, Timely, [Next]_vars, Process
  PROVE  Timely'
<1>1. Take
  BY DEF Process, ProcessIgnored, ProcessUpdate, ProcessCreate, ProcessEvict
<1>2. consumed' = consumed + 1 /\ captured' = captured /\ clock' = clock /\ consumed \in Nat
  BY <1>1, PacketType DEF Take, TypeOK
<1>3. CASE ProcessIgnored
  <2>1. UNCHANGED <<heap, flows, Handed>> /\ captured[consumed'].key = NotIPv4
    BY <1>2, <1>3 DEF ProcessIgnored, Take, table, run, Handed, Packet
  <2>2. \A i, k, n : Counts(i, k, n)' <=> Counts(i, k, n)
    BY <2>1 DEF Counts
  <2>3. \A k \in Live : k # NotIPv4
    BY TrackerAssumption DEF Live
  <2>4. \A k \in Live : \A i \in 1..consumed' : captured[i].key = k => i \in 1..consumed
    BY <1>2, <2>1, <2>3
  <2>5. \A k \in Live : Latest(k)'
    BY <1>2, <2>1, <2>2, <2>4 DEF Timely, Latest, Precedes, Last
  <2>6. \A k \in Keys : Stretches(k)'
    BY <2>1, <2>2 DEF Timely, Stretches, Precedes
  <2>7. \A k \in Keys : \A n \in 1..Len(heap[k]) : LastSeen(k, n)'
    <3> TAKE k \in Keys
    <3> TAKE n \in 1..Len(heap[k])
    <3>1. \A m, i : SeenAt(k, n, m, i) => SeenAt(k, n, m, i)'
      BY <1>2, <2>1, <2>2 DEF SeenAt, Last, Empty
    <3>2. \A i : Counts(i, k, n)' => captured'[i].ts <= Last(k, n)'
      BY <1>2, <2>1, <2>2 DEF Timely, LastSeen, Last
    <3> QED BY <3>1, <3>2 DEF Timely, LastSeen
  <2>8. CapturedInOrder'
    BY <1>2 DEF Timely, CapturedInOrder
  <2> QED BY <2>1, <2>5, <2>6, <2>7, <2>8 DEF Timely, Live
<1>4. CASE ProcessUpdate
  <2>1. PICK k \in Live : k = Packet.key
    BY <1>4 DEF ProcessUpdate
  <2>2. PICK n : n = flows[k]
    OBVIOUS
  <2>3. k \in Keys /\ n \in 1..Len(heap[k]) /\ heap[k] \in Seq(Record) /\ heap[k][n] \in Record
    BY <2>1, <2>2, LivePointer DEF TypeOK, Live
  <2>4. \A j \in Keys : \A m, i :
          Counts(i, j, m)' <=> Counts(i, j, m) \/ (j = k /\ m = n /\ i = consumed')
    BY <1>4, <2>1, <2>2, CountsUpdate
  <2>5. PICK new : new = Counted(heap[k][n], k, Packet.ts, consumed')
    OBVIOUS
  <2>6. heap' = [heap EXCEPT ![k] = [heap[k] EXCEPT ![n] = new]] /\ flows' = flows
    BY <1>4, <2>1, <2>2, <2>5 DEF ProcessUpdate
  <2>7. new.last = Packet.ts
    BY <2>3, <2>5 DEF Counted, Record
  <2>8. heap'[k][n].last = Packet.ts
    BY <2>3, <2>6, <2>7 DEF TypeOK
  <2>9. \A j \in Keys : \A m \in 1..Len(heap'[j]) :
          (j = k /\ m = n) \/ (m \in 1..Len(heap[j]) /\ Last(j, m)' = Last(j, m))
    BY <2>3, <2>6 DEF TypeOK, Last
  <2>10. \A m : m # n => Precedes(k, m, n)
    BY <2>1, <2>2 DEF Timely, Latest, Precedes, Counts
  <2>11. \A j \in Live' : j \in Live /\ flows'[j] = flows[j]
    BY <2>6 DEF Live
  <2> QED BY <1>1, <2>1, <2>2, <2>3, <2>4, <2>6, <2>8, <2>9, <2>10, <2>11, TimelyGrow DEF Last
<1>5. ASSUME Allocate(Packet.key, Packet.ts), NEW k \in Keys, k = Packet.key,
             flows'[k] = Len(heap'[k]),
             \A j \in Live' : j = k \/ (j \in Live /\ flows'[j] = flows[j])
      PROVE  Timely'
  <2>1. PICK n : n = Len(heap[k]) + 1
    OBVIOUS
  <2>2. \A j \in Keys : \A m, i :
          Counts(i, j, m)' <=> Counts(i, j, m) \/ (j = k /\ m = n /\ i = consumed')
    BY <1>1, <1>5, <2>1, CountsAllocate
  <2>3. PICK new : new = NewRecord(k, Packet.ts, consumed')
    OBVIOUS
  <2>4. heap' = [heap EXCEPT ![k] = Append(heap[k], new)] /\ new.last = Packet.ts
    BY <1>5, <2>3 DEF Allocate, NewRecord
  <2>5. heap[k] \in Seq(Record) /\ n \in Nat
    BY <2>1 DEF TypeOK
  <2>6. /\ Len(Append(heap[k], new)) = n /\ Append(heap[k], new)[n] = new
        /\ \A m \in 1..Len(heap[k]) : Append(heap[k], new)[m] = heap[k][m]
        /\ \A m \in 1..n : m = n \/ m \in 1..Len(heap[k])
    BY <2>1, <2>5
  <2>7. \A j \in Keys : heap'[j] = IF j = k THEN Append(heap[k], new) ELSE heap[j]
    BY <2>4 DEF TypeOK
  <2>8. Last(k, n)' = Packet.ts /\ flows'[k] = n
    BY <1>5, <2>4, <2>6, <2>7 DEF Last
  <2>9. \A j \in Keys : \A m \in 1..Len(heap'[j]) :
          (j = k /\ m = n) \/ (m \in 1..Len(heap[j]) /\ Last(j, m)' = Last(j, m))
    BY <2>6, <2>7 DEF Last
  <2>10. \A m : Precedes(k, m, n)
    BY <2>1, <2>5 DEF Precedes, Counts
  <2> QED BY <1>1, <1>5, <2>2, <2>8, <2>9, <2>10, TimelyGrow
<1>6. CASE ProcessCreate
  <2>1. PICK k \in Keys \ Live : k = Packet.key
    BY <1>6 DEF ProcessCreate
  <2>2. Allocate(Packet.key, Packet.ts) /\ flows' = [flows EXCEPT ![k] = Len(heap'[k])]
    BY <1>6, <2>1 DEF ProcessCreate
  <2>3. flows'[k] = Len(heap'[k]) /\ \A j \in Live' : j = k \/ (j \in Live /\ flows'[j] = flows[j])
    BY <2>1, <2>2 DEF TypeOK, Live
  <2> QED BY <1>5, <2>1, <2>2, <2>3
<1>7. ASSUME NEW v \in Keys, ProcessEvict(v) PROVE Timely'
  <2>1. PICK k \in Keys \ Live : k = Packet.key
    BY <1>7 DEF ProcessEvict, Evicted
  <2>2. PICK n : n = Len(heap'[k])
    OBVIOUS
  <2>3. Allocate(Packet.key, Packet.ts) /\ flows' = [flows EXCEPT ![v] = Nil, ![k] = n]
    BY <1>7, <2>1, <2>2 DEF ProcessEvict, Evicted
  <2>4. flows'[k] = n /\ \A j \in Keys : j # k => flows'[j] = IF j = v THEN Nil ELSE flows[j]
    BY <2>1, <2>3 DEF TypeOK
  <2>5. \A j \in Live' : j = k \/ (j \in Live /\ flows'[j] = flows[j])
    BY <2>4 DEF Live, Nil
  <2> QED BY <1>5, <2>1, <2>2, <2>3, <2>4, <2>5
<1> QED BY <1>3, <1>4, <1>6, <1>7 DEF Process

\* A sweep hands over what was counted, and the renewed records start empty.
LEMMA TimelyScan ==
  ASSUME TypeOK, TypeOK', OnePlace, Accounts, Timely, [Next]_vars, Scan
  PROVE  Timely'
<1> DEFINE Old(k, n) == IF k \in ActiveKeys /\ n = Len(heap[k]) + 1 THEN flows[k] ELSE n
           Renew(k, n) == k \in ActiveKeys /\ n = flows[k]
<1>1. UNCHANGED <<captured, consumed, clock>>
  BY DEF Scan, channel
<1>2. /\ flows' = [k \in Keys |-> IF k \in IdleKeys THEN Nil ELSE flows[k]]
      /\ \A k \in ActiveKeys : <<k, Len(heap[k]) + 1>> \in Handed'
  BY DEF Scan, Slot, IdleHanded, ActiveHanded, Handed
<1>3. \A r \in Handed : r \in Handed'
  BY HandedKept
<1>4. \A k \in ActiveKeys : k \in Live /\ k \in Keys /\ flows[k] \in 1..Len(heap[k])
  BY LivePointer DEF ActiveKeys
<1>5. \A k \in Keys : Len(heap[k]) \in Nat
  BY DEF TypeOK
<1>6. \A k \in Keys : \A n \in 1..Len(heap'[k]) :
        /\ Old(k, n) \in 1..Len(heap[k]) /\ Last(k, n)' = Last(k, Old(k, n))
        /\ \A i : Counts(i, k, n)' <=> Counts(i, k, Old(k, n)) /\ ~Renew(k, n)
  <2> SUFFICES ASSUME NEW k \in Keys, NEW n \in 1..Len(heap'[k])
               PROVE  /\ Old(k, n) \in 1..Len(heap[k]) /\ Last(k, n)' = Last(k, Old(k, n))
                      /\ \A i : Counts(i, k, n)' <=> Counts(i, k, Old(k, n)) /\ ~Renew(k, n)
    OBVIOUS
  <2>1. CASE k \notin ActiveKeys
    <3>1. heap'[k] = heap[k]
      BY <2>1, ScanHeap
    <3> QED BY <2>1, <3>1, CountsScan DEF Last
  <2>2. CASE k \in ActiveKeys
    <3>1. PICK c : c = Len(heap[k]) + 1
      OBVIOUS
    <3>2. \A i : ~Counts(i, k, c)
      BY <1>5, <3>1 DEF Counts
    <3>3. flows[k] \in 1..Len(heap[k]) /\ Len(heap'[k]) = c /\ c \notin 1..Len(heap[k])
      BY <1>4, <1>5, <2>2, <3>1, ScanHeap
    <3>4. heap[k][flows[k]] \in Record
      BY <2>2, LivePointer DEF ActiveKeys
    <3>5. Renewed(heap[k][flows[k]]).last = heap[k][flows[k]].last
      BY <3>4 DEF Renewed, Record
    <3>6. CASE n = c
      BY <2>2, <3>1, <3>2, <3>3, <3>6, ScanHeap, CountsScan DEF Last
    <3>7. CASE n = flows[k]
      BY <2>2, <3>1, <3>2, <3>3, <3>5, <3>7, ScanHeap, CountsScan DEF Last
    <3>8. CASE n # c /\ n # flows[k]
      <4>1. n \in 1..Len(heap[k])
        BY <1>5, <3>1, <3>3, <3>8
      <4>2. heap'[k][n] = heap[k][n]
        BY <2>2, <3>8, <4>1, ScanHeap
      <4> QED BY <2>2, <3>1, <3>8, <4>1, <4>2, CountsScan DEF Last
    <3> QED BY <3>6, <3>7, <3>8
  <2> QED BY <2>1, <2>2
<1>7. \A k \in Keys : \A n, m \in 1..Len(heap'[k]) :
        n # m /\ Old(k, n) = Old(k, m) => Renew(k, n) \/ Renew(k, m)
  BY <1>4, <1>5
<1> HIDE DEF Old
<1>8. ASSUME NEW k \in Keys PROVE Stretches(k)'
  <2> SUFFICES ASSUME NEW n \in 1..Len(heap'[k]), NEW m \in 1..Len(heap'[k]), n # m
               PROVE  Precedes(k, n, m)' \/ Precedes(k, m, n)'
    BY DEF Stretches
  <2>1. CASE Renew(k, n) \/ Renew(k, m)
    BY <1>6, <2>1 DEF Precedes
  <2>2. CASE Old(k, n) # Old(k, m)
    <3>1. Precedes(k, Old(k, n), Old(k, m)) \/ Precedes(k, Old(k, m), Old(k, n))
      BY <1>6, <2>2 DEF Timely, Stretches
    <3> QED BY <1>6, <3>1 DEF Precedes
  <2> QED BY <1>7, <2>1, <2>2
<1>9. ASSUME NEW k \in Keys, NEW n \in 1..Len(heap'[k]) PROVE LastSeen(k, n)'
  <2>1. LastSeen(k, Old(k, n))
    BY <1>6 DEF Timely
  <2>2. \A i : Counts(i, k, n)' => captured'[i].ts <= Last(k, n)'
    BY <1>1, <1>6, <2>1 DEF LastSeen
  <2>3. PICK m, i : SeenAt(k, Old(k, n), m, i)
    BY <2>1 DEF LastSeen
  <2>4. Counts(i, k, m) /\ captured'[i].ts = Last(k, n)'
    BY <1>1, <1>6, <2>3 DEF SeenAt
  <2>5. CASE Renew(k, m)
    <3>1. PICK c : c = Len(heap[k]) + 1
      OBVIOUS
    <3>2. Counts(i, k, c)' /\ <<k, c>> \in Handed'
      BY <1>2, <2>4, <2>5, <3>1, CountsScan
    <3>3. <<k, m>> \notin Handed
      BY <1>4, <2>5 DEF OnePlace, LiveRefs
    <3>4. m = Old(k, n)
      BY <2>3, <3>3 DEF SeenAt
    <3>5. n = c \/ n = m
      BY <2>5, <3>1, <3>4 DEF Old
    <3>6. n = m => Empty(k, n)'
      BY <1>6, <2>5 DEF Empty
    <3>7. SeenAt(k, n, c, i)'
      BY <2>4, <3>2, <3>5, <3>6 DEF SeenAt
    <3> QED BY <2>2, <3>7 DEF LastSeen
  <2>6. CASE ~Renew(k, m)
    <3>1. Counts(i, k, m)'
      BY <2>4, <2>6, CountsScan
    <3>2. CASE m = Old(k, n) /\ m = n
      BY <2>2, <2>4, <3>1, <3>2 DEF LastSeen, SeenAt
    <3>3. CASE m = Old(k, n) /\ m # n
      BY <2>6, <3>3 DEF Old
    <3>4. CASE m # Old(k, n)
      <4>1. Empty(k, Old(k, n)) /\ <<k, m>> \in Handed
        BY <2>3, <3>4 DEF SeenAt
      <4>2. Empty(k, n)' /\ <<k, m>> \in Handed'
        BY <1>3, <1>6, <4>1 DEF Empty
      <4>3. SeenAt(k, n, m, i)'
        BY <2>4, <3>1, <4>2 DEF SeenAt
      <4> QED BY <2>2, <4>3 DEF LastSeen
    <3> QED BY <3>2, <3>3, <3>4
  <2> QED BY <2>5, <2>6
<1>10. ASSUME NEW k \in Live' PROVE Latest(k)'
  <2>1. k \in Live /\ k \in Keys /\ flows'[k] = flows[k] /\ flows[k] \in 1..Len(heap[k])
    BY <1>2, LivePointer DEF Live, Nil
  <2>2. flows[k] \in 1..Len(heap'[k]) /\ Old(k, flows[k]) = flows[k]
    BY <1>5, <2>1, ScanHeap DEF Old
  <2>3. Last(k, flows[k])' = Last(k, flows[k])
    BY <1>6, <2>1, <2>2 DEF Last
  <2>4. \A m \in 1..Len(heap'[k]) : m # flows[k] => Precedes(k, m, flows[k])'
    <3>1. CASE k \in ActiveKeys
      BY <1>6, <2>1, <2>2, <3>1 DEF Precedes
    <3>2. CASE k \notin ActiveKeys
      <4>1. heap'[k] = heap[k]
        BY <2>1, <3>2, ScanHeap
      <4> QED BY <2>1, <4>1 DEF Timely, Latest, Precedes, Counts
    <3> QED BY <3>1, <3>2
  <2>5. Latest(k)
    BY <2>1 DEF Timely
  <2> QED BY <1>1, <2>1, <2>3, <2>4, <2>5 DEF Latest
<1>11. CapturedInOrder'
  BY <1>1 DEF Timely, CapturedInOrder
<1> QED BY <1>8, <1>9, <1>10, <1>11 DEF Timely

\* No packet, no time.
LEMMA TimelyInit == Init => Timely
<1> SUFFICES ASSUME Init PROVE Timely
  OBVIOUS
<1>1. captured = <<>> /\ consumed = 0 /\ Live = {} /\ \A k \in Keys : heap[k] = <<>>
  BY DEF Init, Live, Nil
<1> QED BY <1>1 DEF Timely, CapturedInOrder, Stretches

\* Every step keeps the records in order.
LEMMA TimelyNext ==
  ASSUME TypeOK, OnePlace, Accounts, Timely, [Next]_vars PROVE Timely'
<1>1. TypeOK' /\ clock \in Nat
  BY TypeNext DEF TypeOK
<1>2. ASSUME UNCHANGED <<heap, flows, captured, consumed>>, clock' \in {clock, clock + 1}
      PROVE  Timely'
  BY <1>1, <1>2, TimelySame
<1>3. CASE \E k \in Keys \cup {NotIPv4} : Capture(k)
  BY <1>3, TimelyCapture
<1>4. CASE Process
  BY <1>1, <1>4, TimelyProcess
<1>5. CASE Scan
  BY <1>1, <1>5, TimelyScan
<1>6. CASE Tick \/ CheckBegin \/ RunExport \/ \E r \in spawned : EvictExport(r)
  BY <1>2, <1>6 DEF Tick, CheckBegin, RunExport, EvictExport, channel, table
<1>7. CASE Environment
  BY <1>2, <1>7 DEF Environment, SetCpuLoad, InjectProblem, ClearProblems, PollIEDStart,
                    PollIED, channel, table
<1>8. CASE UNCHANGED vars
  BY <1>2, <1>8 DEF vars, channel, table
<1> QED BY <1>3, <1>4, <1>5, <1>6, <1>7, <1>8 DEF Next, Agent

\* What has been proved of every reachable state so far.
LEMMA TimelyCorrect == Spec => [](TypeOK /\ OnePlace /\ Accounts /\ Timely)
<1>1. Init => TypeOK /\ OnePlace /\ Accounts /\ Timely
  BY TypeInit, PlaceInit, AccountsInit, TimelyInit
<1>2. TypeOK /\ OnePlace /\ Accounts /\ Timely /\ [Next]_vars
        => TypeOK' /\ OnePlace' /\ Accounts' /\ Timely'
  BY TypeNext, PlaceNext, AccountsNext, TimelyNext
<1> QED BY <1>1, <1>2, PTL DEF Spec

\* The reports of a flow are about stretches of its packets, one after the
\* other, and a report without packets repeats the end of an earlier one:
\* whatever was evicted, created anew, renewed or exported by several
\* goroutines at a time.
THEOREM OrderCorrect == Spec => []ReportsInOrder
<1> QED BY TimelyCorrect, TimelyMeaning, PTL

\* A sweep ends exactly the flows that have been without traffic for longer
\* than the inactive timeout.
THEOREM IdleCorrect == Spec => IdleExactly
<1> DEFINE Ended ==
      runPc = "scan" /\ runPc' # "scan" =>
        \A k \in Live :
          flows'[k] = Nil <=>
            \A i \in 1..consumed : captured[i].key = k => captured[i].ts + InactiveTo < runNow
<1>1. TypeOK /\ OnePlace /\ Accounts /\ Timely /\ [Next]_vars => Ended
  <2> SUFFICES ASSUME TypeOK, Accounts, Timely, [Next]_vars,
                      runPc = "scan", runPc' # "scan", NEW k \in Live
               PROVE  flows'[k] = Nil <=>
                        \A i \in 1..consumed :
                          captured[i].key = k => captured[i].ts + InactiveTo < runNow
    OBVIOUS
  <2>1. Scan
    BY DEF Next, Agent, Process, Environment, Tick, Capture, Take, ProcessIgnored, ProcessUpdate,
           ProcessCreate, ProcessEvict, EvictExport, CheckBegin, RunExport, SetCpuLoad,
           InjectProblem, ClearProblems, PollIEDStart, PollIED, run, vars
  <2>2. k \in Keys /\ flows[k] # Nil /\ flows[k] \in 1..Len(heap[k]) /\ heap[k][flows[k]] \in Record
    BY LivePointer DEF Live
  <2>3. flows'[k] = Nil <=> Idle(k)
    BY <2>1, <2>2 DEF Scan, Slot, IdleKeys
  <2>4. Latest(k) /\ LastSeen(k, flows[k])
    BY <2>2 DEF Timely
  <2>5. \A i \in 1..consumed : captured[i].ts \in Nat
    <3> TAKE i \in 1..consumed
    <3>1. i \in 1..Len(captured)
      BY DEF TypeOK
    <3>2. \A S : captured \in Seq(S) => captured[i] \in S
      BY <3>1
    <3> QED BY <3>2 DEF TypeOK
  <2>6. Last(k, flows[k]) \in Nat /\ runNow \in Nat /\ InactiveTo \in Nat
    BY <2>2, TrackerAssumption DEF Last, Record, TypeOK
  <2>7. ASSUME Idle(k), NEW i \in 1..consumed, captured[i].key = k
        PROVE  captured[i].ts + InactiveTo < runNow
    BY <2>4, <2>5, <2>6, <2>7 DEF Idle, Latest, Last
  <2>8. ASSUME \A i \in 1..consumed : captured[i].key = k => captured[i].ts + InactiveTo < runNow
        PROVE  Idle(k)
    <3>1. PICK m, i : Counts(i, k, m) /\ captured[i].ts = Last(k, flows[k])
      BY <2>4 DEF LastSeen, SeenAt
    <3>2. i \in 1..consumed /\ captured[i].key = k
      BY <2>2, <3>1 DEF Accounts
    <3> QED BY <2>6, <2>8, <3>1, <3>2 DEF Idle, Last
  <2> QED BY <2>3, <2>7, <2>8
<1>2. TypeOK /\ OnePlace /\ Accounts /\ Timely /\ [Next]_vars => [Ended]_vars
  BY <1>1
<1> QED BY <1>2, TimelyCorrect, PTL DEF Spec, IdleExactly

-----------------------------------------------------------------------------
(* The cache implements PacketLedger.  The packets held are those of the   *)
(* records not exported, and every step that writes records keeps what     *)
(* those records count together.                                           *)

HeldPackets     == PacketsOf(LiveRefs \cup expired \cup spawned)
ReportedPackets == PacketsOf(exported)
ArrivedKeys     == [i \in 1..Len(captured) |-> captured[i].key]

IInv == TypeOK /\ OnePlace /\ Accounts

Holds(i)   == \E k \in Keys : \E n : Counts(i, k, n) /\ <<k, n>> \notin exported
Reports(i) == \E k \in Keys : \E n : Counts(i, k, n) /\ <<k, n>> \in exported

\* The packets held and reported, in terms of the accounts.
LEMMA PacketsMeaning ==
  IInv => /\ \A i : i \in HeldPackets <=> Holds(i)
          /\ \A i : i \in ReportedPackets <=> Reports(i)
<1> SUFFICES ASSUME IInv
             PROVE  /\ \A i : i \in HeldPackets <=> Holds(i)
                    /\ \A i : i \in ReportedPackets <=> Reports(i)
  OBVIOUS
<1>1. \A r \in LiveRefs \cup Handed :
        r = <<r[1], r[2]>> /\ r[1] \in Keys /\ r[2] \in 1..Len(heap[r[1]])
  BY LivePointer DEF IInv, TypeOK, LiveRefs
<1>2. \A i, r : r \in LiveRefs \cup Handed => (i \in Deref(r).pkts <=> Counts(i, r[1], r[2]))
  BY <1>1 DEF Deref, Counts
<1>3. \A R, i : i \in PacketsOf(R) <=> \E r \in R : i \in Deref(r).pkts
  BY DEF PacketsOf
<1>4. \A k \in Keys : \A n, i : Counts(i, k, n) =>
        (<<k, n>> \notin exported <=> <<k, n>> \in LiveRefs \cup expired \cup spawned)
  BY DEF Counts, IInv, OnePlace, Handed
<1>5. ASSUME NEW i PROVE i \in HeldPackets <=> Holds(i)
  <2>1. ASSUME NEW r \in LiveRefs \cup expired \cup spawned, i \in Deref(r).pkts
        PROVE  Holds(i)
    <3>1. r[1] \in Keys /\ r = <<r[1], r[2]>> /\ Counts(i, r[1], r[2])
      BY <1>1, <1>2, <2>1 DEF Handed
    <3> QED BY <1>4, <3>1 DEF Holds
  <2>2. ASSUME NEW k \in Keys, NEW n, Counts(i, k, n), <<k, n>> \notin exported
        PROVE  \E r \in LiveRefs \cup expired \cup spawned : i \in Deref(r).pkts
    <3>1. <<k, n>> \in LiveRefs \cup expired \cup spawned
      BY <1>4, <2>2
    <3> QED BY <1>2, <2>2, <3>1 DEF Handed
  <2> QED BY <1>3, <2>1, <2>2 DEF HeldPackets, Holds
<1>6. ASSUME NEW i PROVE i \in ReportedPackets <=> Reports(i)
  <2>1. ASSUME NEW r \in exported, i \in Deref(r).pkts PROVE Reports(i)
    <3>1. r[1] \in Keys /\ r = <<r[1], r[2]>> /\ Counts(i, r[1], r[2])
      BY <1>1, <1>2, <2>1 DEF Handed
    <3> QED BY <3>1 DEF Reports
  <2>2. ASSUME NEW k \in Keys, NEW n, Counts(i, k, n), <<k, n>> \in exported
        PROVE  \E r \in exported : i \in Deref(r).pkts
    BY <1>2, <2>2 DEF Handed
  <2> QED BY <1>3, <2>1, <2>2 DEF ReportedPackets, Reports
<1> QED BY <1>5, <1>6

\* The inductive invariant of the refinement.
LEMMA IInvNext == IInv /\ [Next]_vars => IInv'
<1> QED BY TypeNext, PlaceNext, AccountsNext DEF IInv

\* The same of the state after a step.
LEMMA PacketsMeaningNext ==
  ASSUME IInv, [Next]_vars
  PROVE  /\ \A i : i \in HeldPackets' <=> Holds(i)'
         /\ \A i : i \in ReportedPackets' <=> Reports(i)'
<1>1. IInv'
  BY IInvNext
<1>2. (IInv => /\ \A i : i \in HeldPackets <=> Holds(i)
               /\ \A i : i \in ReportedPackets <=> Reports(i))'
  BY PacketsMeaning, PTL
<1> QED BY <1>1, <1>2

\* A step that neither exports nor consumes, and keeps what is held.
LEMMA QuietStep ==
  ASSUME IInv, [Next]_vars,
         \A i : Holds(i)' <=> Holds(i), \A i : Reports(i)' <=> Reports(i)
  PROVE  HeldPackets' = HeldPackets /\ ReportedPackets' = ReportedPackets
<1> QED BY PacketsMeaning, PacketsMeaningNext

\* Setting a packet's record aside as exported is a report.
LEMMA ReportStep ==
  ASSUME IInv, [Next]_vars, NEW E \in SUBSET Handed,
         UNCHANGED <<heap, captured, consumed>>, exported' = exported \cup E
  PROVE  Ledger!Next
<1> DEFINE S == HeldPackets \cap ReportedPackets'
<1>1. \A i, k, n : Counts(i, k, n)' <=> Counts(i, k, n)
  BY DEF Counts
<1>2. \A i : Reports(i)' <=> Reports(i) \/ i \in S
  <2>1. \A i : Reports(i) => Reports(i)'
    BY <1>1 DEF Reports
  <2>2. \A i : Reports(i)' => Reports(i) \/ Holds(i)
    BY <1>1 DEF Reports, Holds
  <2> QED BY <2>1, <2>2, PacketsMeaning, PacketsMeaningNext
<1>3. \A i : Holds(i)' <=> Holds(i) /\ i \notin S
  <2>1. \A i : Holds(i)' => Holds(i)
    BY <1>1 DEF Holds
  <2>2. \A i : Holds(i) => Holds(i)' \/ Reports(i)'
    BY <1>1 DEF Holds, Reports
  <2>3. \A i : ~(Holds(i)' /\ Reports(i)')
    <3> SUFFICES ASSUME NEW i, Holds(i)', Reports(i)' PROVE FALSE
      OBVIOUS
    <3>1. PICK k, n : k \in Keys /\ Counts(i, k, n) /\ <<k, n>> \notin exported'
      BY <1>1 DEF Holds
    <3>2. PICK j, m : j \in Keys /\ Counts(i, j, m) /\ <<j, m>> \in exported'
      BY <1>1 DEF Reports
    <3>3. j = k /\ m = n
      BY <3>1, <3>2 DEF IInv, Accounts
    <3> QED BY <3>1, <3>2, <3>3
  <2> QED BY <2>1, <2>2, <2>3, PacketsMeaning, PacketsMeaningNext
<1>4. HeldPackets' = HeldPackets \ S /\ ReportedPackets' = ReportedPackets \cup S
  BY <1>2, <1>3, PacketsMeaning, PacketsMeaningNext
<1>5. S \in SUBSET HeldPackets
  OBVIOUS
<1> HIDE DEF S
<1>6. Ledger!Report(S)
  BY <1>4 DEF Ledger!Report, HeldPackets, ReportedPackets
<1> QED BY <1>5, <1>6 DEF Ledger!Next, HeldPackets

\* What has arrived and what has been read, as the ledger sees it.
LEMMA ArrivedRead ==
  ASSUME TypeOK, Take
  PROVE  /\ consumed < Len(ArrivedKeys) /\ consumed' = consumed + 1
         /\ ArrivedKeys' = ArrivedKeys
         /\ ArrivedKeys[consumed'] = Packet.key
<1>1. consumed' = consumed + 1 /\ consumed' \in 1..Len(captured) /\ captured' = captured
  BY PacketType DEF Take
<1>2. ArrivedKeys \in Seq({captured[i].key : i \in 1..Len(captured)})
  BY DEF TypeOK, ArrivedKeys
<1>3. Len(ArrivedKeys) = Len(captured)
  BY <1>2 DEF TypeOK, ArrivedKeys
<1> QED BY <1>1, <1>3 DEF ArrivedKeys, Packet, Take

\* Reading a packet and counting it in a record that is not exported.
LEMMA ReadStep ==
  ASSUME IInv, [Next]_vars, Take, exported' = exported, NEW k \in Keys, k = Packet.key,
         NEW n, <<k, n>> \notin exported,
         \A j \in Keys : \A m, i :
           Counts(i, j, m)' <=> Counts(i, j, m) \/ (j = k /\ m = n /\ i = consumed')
  PROVE  Ledger!Next
<1>1. \A i : Holds(i)' <=> Holds(i) \/ i = consumed'
  BY DEF Holds
<1>2. \A i : Reports(i)' <=> Reports(i)
  BY DEF Reports
<1>3. HeldPackets' = HeldPackets \cup {consumed'} /\ ReportedPackets' = ReportedPackets
  BY <1>1, <1>2, PacketsMeaning, PacketsMeaningNext
<1>4. k # NotIPv4
  BY TrackerAssumption
<1>5. Ledger!Read
  BY <1>3, <1>4, ArrivedRead
     DEF IInv, Ledger!Read, HeldPackets, ReportedPackets, ArrivedKeys
<1> QED BY <1>5 DEF Ledger!Next

\* Process is a Read of the ledger.
LEMMA LedgerProcess ==
  ASSUME IInv, [Next]_vars, Process
  PROVE  Ledger!Next
<1>1. CASE ProcessIgnored
  <2>1. Take /\ Packet.key = NotIPv4
    BY <1>1 DEF ProcessIgnored
  <2>2. UNCHANGED <<heap, flows, expired, spawned, exported>>
    BY <1>1 DEF ProcessIgnored, Take, table, run
  <2>3. HeldPackets' = HeldPackets /\ ReportedPackets' = ReportedPackets
    BY <2>2 DEF HeldPackets, ReportedPackets, PacketsOf, Deref, LiveRefs, Live
  <2>4. Ledger!Read
    BY <2>1, <2>3, ArrivedRead
       DEF IInv, Ledger!Read, HeldPackets, ReportedPackets, ArrivedKeys
  <2> QED BY <2>4 DEF Ledger!Next
<1>2. CASE ProcessUpdate
  <2>1. Take /\ Packet.key \in Live /\ exported' = exported
    BY <1>2 DEF ProcessUpdate, Take
  <2>2. PICK k \in Keys : k = Packet.key
    BY <2>1 DEF Live
  <2>3. PICK n : n = flows[k]
    OBVIOUS
  <2>4. <<k, n>> \notin exported
    BY <2>1, <2>2, <2>3 DEF IInv, OnePlace, LiveRefs, Handed
  <2>5. \A j \in Keys : \A m, i :
          Counts(i, j, m)' <=> Counts(i, j, m) \/ (j = k /\ m = n /\ i = consumed')
    BY <1>2, <2>2, <2>3, CountsUpdate DEF IInv
  <2> QED BY <2>1, <2>2, <2>4, <2>5, ReadStep
<1>3. ASSUME Take, Packet.key \in Keys, Allocate(Packet.key, Packet.ts) PROVE Ledger!Next
  <2>1. PICK k \in Keys : k = Packet.key
    BY <1>3
  <2>2. PICK n : n = Len(heap[k]) + 1
    OBVIOUS
  <2>3. <<k, n>> \notin exported /\ exported' = exported
    BY <1>3, <2>2, FreshRef DEF IInv, Handed, Take
  <2>4. \A j \in Keys : \A m, i :
          Counts(i, j, m)' <=> Counts(i, j, m) \/ (j = k /\ m = n /\ i = consumed')
    BY <1>3, <2>1, <2>2, CountsAllocate DEF IInv
  <2> QED BY <1>3, <2>1, <2>3, <2>4, ReadStep
<1> QED BY <1>1, <1>2, <1>3 DEF Process, ProcessCreate, ProcessEvict

\* A sweep is invisible to the ledger.
LEMMA LedgerScan ==
  ASSUME IInv, [Next]_vars, Scan
  PROVE  UNCHANGED <<ArrivedKeys, consumed, HeldPackets, ReportedPackets>>
<1>1. UNCHANGED <<captured, consumed, exported>>
  BY DEF Scan, Slot, IdleHanded, ActiveHanded, channel
<1>2. \A k \in ActiveKeys : /\ <<k, flows[k]>> \notin exported
                            /\ <<k, Len(heap[k]) + 1>> \notin exported
  BY FreshRef DEF IInv, OnePlace, ActiveKeys, LiveRefs, Live, Handed
<1>3. \A i : Reports(i)' <=> Reports(i)
  BY <1>1, <1>2, CountsScan DEF IInv, Reports
<1>4. \A i : Holds(i)' => Holds(i)
  BY <1>1, <1>2, CountsScan DEF IInv, Holds
<1>5. ASSUME NEW i, Holds(i) PROVE Holds(i)'
  <2>1. PICK k, n : k \in Keys /\ Counts(i, k, n) /\ <<k, n>> \notin exported
    BY <1>5 DEF Holds
  <2>2. CASE k \in ActiveKeys /\ n = flows[k]
    <3>1. PICK m : m = Len(heap[k]) + 1
      OBVIOUS
    <3>2. Counts(i, k, m)' /\ <<k, m>> \notin exported
      BY <1>2, <2>1, <2>2, <3>1, CountsScan DEF IInv
    <3> QED BY <1>1, <2>1, <3>2 DEF Holds
  <2>3. CASE ~(k \in ActiveKeys /\ n = flows[k])
    <3>1. Counts(i, k, n)'
      BY <2>1, <2>3, CountsScan DEF IInv
    <3> QED BY <1>1, <2>1, <3>1 DEF Holds
  <2> QED BY <2>2, <2>3
<1>6. HeldPackets' = HeldPackets /\ ReportedPackets' = ReportedPackets
  BY <1>3, <1>4, <1>5, QuietStep
<1> QED BY <1>1, <1>6 DEF ArrivedKeys

\* A capture is an Arrive of the ledger.
LEMMA LedgerCapture ==
  ASSUME IInv, NEW k \in Keys \cup {NotIPv4}, Capture(k)
  PROVE  Ledger!Next
<1>1. UNCHANGED <<consumed, heap, flows, expired, spawned, exported>>
  BY DEF Capture, table, run
<1>2. HeldPackets' = HeldPackets /\ ReportedPackets' = ReportedPackets
  BY <1>1 DEF HeldPackets, ReportedPackets, PacketsOf, Deref, LiveRefs, Live
<1>3. ArrivedKeys' = Append(ArrivedKeys, k)
  <2> DEFINE n == Len(captured)
  <2>1. captured' = Append(captured, [key |-> k, ts |-> clock]) /\ n \in Nat
    BY DEF Capture, IInv, TypeOK
  <2>2. Len(captured') = n + 1 /\ captured'[n + 1].key = k
          /\ \A i \in 1..n : captured'[i] = captured[i]
    BY <2>1 DEF IInv, TypeOK
  <2>3. ArrivedKeys' = [i \in 1..(n + 1) |-> IF i = n + 1 THEN k ELSE captured[i].key]
    BY <2>2 DEF ArrivedKeys
  <2>4. ArrivedKeys \in Seq({captured[i].key : i \in 1..n}) /\ Len(ArrivedKeys) = n
    <3>1. ArrivedKeys \in Seq({captured[i].key : i \in 1..n})
      BY <2>1 DEF ArrivedKeys
    <3> QED BY <2>1, <3>1 DEF ArrivedKeys
  <2> QED BY <2>1, <2>3, <2>4 DEF ArrivedKeys
<1>4. Ledger!Arrive(k)
  BY <1>1, <1>2, <1>3 DEF Ledger!Arrive, HeldPackets, ReportedPackets, ArrivedKeys
<1> QED BY <1>4 DEF Ledger!Next

\* An empty cache is an empty ledger.
LEMMA LedgerInit == Init => Ledger!Init
<1> SUFFICES ASSUME Init PROVE Ledger!Init
  OBVIOUS
<1>1. Live = {} /\ LiveRefs = {}
  BY DEF Init, Live, LiveRefs, Nil
<1>2. ArrivedKeys = <<>>
  BY DEF Init, ArrivedKeys
<1>3. HeldPackets = {} /\ ReportedPackets = {}
  BY <1>1 DEF Init, HeldPackets, ReportedPackets, PacketsOf
<1> QED BY <1>2, <1>3 DEF Init, Ledger!Init, ArrivedKeys, HeldPackets, ReportedPackets

\* Every step is a step of the ledger or a stutter.
LEMMA LedgerNext == IInv /\ [Next]_vars => [Ledger!Next]_(Ledger!ledger)
<1> SUFFICES ASSUME IInv, [Next]_vars
             PROVE  Ledger!Next \/ UNCHANGED <<ArrivedKeys, consumed, HeldPackets, ReportedPackets>>
  BY DEF Ledger!ledger, ArrivedKeys, HeldPackets, ReportedPackets
<1>1. ASSUME UNCHANGED <<captured, consumed, heap, flows, expired, spawned, exported>>
      PROVE  UNCHANGED <<ArrivedKeys, consumed, HeldPackets, ReportedPackets>>
  BY <1>1 DEF ArrivedKeys, HeldPackets, ReportedPackets, PacketsOf, Deref, LiveRefs, Live
<1>2. CASE \E k \in Keys \cup {NotIPv4} : Capture(k)
  BY <1>2, LedgerCapture
<1>3. CASE Process
  BY <1>3, LedgerProcess
<1>4. CASE Scan
  BY <1>4, LedgerScan
<1>5. CASE RunExport
  <2>1. UNCHANGED <<heap, captured, consumed>> /\ exported' = exported \cup expired
    BY <1>5 DEF RunExport, channel, table
  <2>2. expired \in SUBSET Handed
    BY DEF Handed
  <2> QED BY <2>1, <2>2, ReportStep
<1>6. ASSUME NEW r \in spawned, EvictExport(r) PROVE Ledger!Next
  <2>1. UNCHANGED <<heap, captured, consumed>> /\ exported' = exported \cup {r}
    BY <1>6 DEF EvictExport, channel, table
  <2>2. {r} \in SUBSET Handed
    BY DEF Handed
  <2> QED BY <2>1, <2>2, ReportStep
<1>7. CASE Tick \/ CheckBegin \/ Environment
  BY <1>1, <1>7 DEF Tick, CheckBegin, Environment, SetCpuLoad, InjectProblem, ClearProblems,
                    PollIEDStart, PollIED, channel, table, run
<1>8. CASE UNCHANGED vars
  BY <1>1, <1>8 DEF vars, channel, table, run
<1> QED BY <1>2, <1>3, <1>4, <1>5, <1>6, <1>7, <1>8 DEF Next, Agent

\* The flow cache implements PacketLedger: seen from outside, consuming a
\* packet holds it, and a call of onExport reports packets held, each of them
\* for the first and only time.
THEOREM LedgerImplemented == Spec => LedgerSpec
<1>1. Init => IInv /\ Ledger!Init
  BY TypeInit, PlaceInit, AccountsInit, LedgerInit DEF IInv
<1> QED BY <1>1, IInvNext, LedgerNext, PTL DEF Spec, LedgerSpec, Ledger!Spec

=============================================================================
