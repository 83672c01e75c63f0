---------------------------- MODULE FlowTracker ----------------------------
(***************************************************************************)
(* The flow cache of the agent (agent/flow/flow.go) with the goroutines    *)
(* that share it: the capture loop of agent/main.go, which takes packets   *)
(* from the bounded channel of agent/capture and calls Process; the Run    *)
(* goroutine, which sweeps the cache for timeouts; one goroutine for every *)
(* record evicted from a full cache; the CPU sampler, the IED poller and   *)
(* the HTTP control plane.                                                 *)
(*                                                                         *)
(* A Go pointer to a Record is a pair <<k, n>>: the n-th record allocated  *)
(* for key k.  A record's Packets and Bytes are the set of the numbers of  *)
(* the packets counted in it, so that a packet counted twice, or lost, can *)
(* be told.  TCPFlags, ToS, the MAC addresses and the sizes of packets are *)
(* payload and are left out.                                               *)
(***************************************************************************)
EXTENDS Naturals, Sequences, FiniteSets

CONSTANTS
  Keys,         \* the 5-tuples that occur
  NotIPv4,      \* what extractKey makes of any other frame
  MaxFlows,     \* MAX_FLOWS, 0 for no limit
  ActiveTo,     \* ACTIVE_TIMEOUT
  InactiveTo,   \* INACTIVE_TIMEOUT
  ChanBuf,      \* capacity of the packet channel
  CpuLoads,     \* the loads the CPU sampler measures
  Problems,     \* the impairments the API injects
  Clean,        \* no loss and no latency, the impairment of a new record
  Absent,       \* what t.problems says of a key it does not hold
  IedMetas,     \* the answers of the IED's /status
  NoMeta,       \* no answer yet
  SensorKeys,   \* the keys with the IED's address in them
  MaxPackets,   \* bound: packets captured
  Horizon,      \* bound: the last moment at which a packet is captured
  MaxTime       \* bound: the moment at which the clock stops

ASSUME TrackerAssumption ==
  /\ NotIPv4 \notin Keys
  /\ MaxFlows \in Nat /\ ActiveTo \in Nat /\ InactiveTo \in Nat
  /\ ChanBuf \in Nat \ {0}
  /\ Absent \notin Problems \cup {Clean}
  /\ NoMeta \notin IedMetas
  /\ SensorKeys \subseteq Keys
  /\ MaxPackets \in Nat /\ Horizon \in Nat /\ MaxTime \in Nat

VARIABLES
  clock,      \* wall clock, read by time.Now() and by the capture's time stamps
  captured,   \* every packet put in the channel so far, [key, ts]
  consumed,   \* how many of them the capture loop has taken out
  heap,       \* heap[k]: the records allocated for key k, in order
  flows,      \* t.flows: the number of the live record of each key, Nil if none
  evictions,  \* t.overflowEvictions
  problems,   \* t.problems
  ied,        \* t.ied
  cpuLoad,    \* t.cpuLoad
  cpuSince,   \* history: since when cpuLoad has been what it is
  runPc,      \* where the Run goroutine is: "idle", "scan" or "export"
  runNow,     \* its local variable now
  expired,    \* its local variable expired: the pointers it will export
  spawned,    \* the pointers eviction goroutines have yet to export
  exported    \* the pointers handed to onExport so far

table   == <<heap, flows, evictions>>
stamps  == <<problems, ied, cpuLoad, cpuSince>>
channel == <<captured, consumed>>
run     == <<runPc, runNow, expired>>
vars    == <<clock, channel, table, stamps, run, spawned, exported>>

Nil == 0

Live     == {k \in Keys : flows[k] # Nil}
LiveRefs == {<<k, flows[k]>> : k \in Live}
Deref(r) == heap[r[1]][r[2]]
Handed   == expired \cup spawned \cup exported

Init ==
  /\ clock = 0
  /\ captured = <<>> /\ consumed = 0
  /\ heap = [k \in Keys |-> <<>>]
  /\ flows = [k \in Keys |-> Nil]
  /\ evictions = 0
  /\ problems = [k \in Keys |-> Absent]
  /\ ied = [device |-> FALSE, meta |-> NoMeta]
  /\ cpuLoad = 0 /\ cpuSince = 0
  /\ runPc = "idle" /\ runNow = 0 /\ expired = {}
  /\ spawned = {} /\ exported = {}

Tick ==
  /\ clock < MaxTime
  /\ clock' = clock + 1
  /\ UNCHANGED <<channel, table, stamps, run, spawned, exported>>

-----------------------------------------------------------------------------
(* Capture and the packet path.                                            *)

\* The capture goroutine puts a frame in the channel; when the channel is
\* full it blocks, and the frames that arrive are lost before they are seen.
Capture(k) ==
  /\ clock <= Horizon
  /\ Len(captured) < MaxPackets
  /\ Len(captured) - consumed < ChanBuf
  /\ captured' = Append(captured, [key |-> k, ts |-> clock])
  /\ UNCHANGED <<clock, consumed, table, stamps, run, spawned, exported>>

Packet == captured[consumed + 1]

Take ==
  /\ consumed < Len(captured)
  /\ consumed' = consumed + 1
  /\ UNCHANGED <<clock, captured, stamps, run, exported>>

\* Variant with a bug: the lookup does not ask whether the key is there.
ImpairedUnasked(k, old) == problems[k]

\* A key with an injected problem puts it in the record; a key without one
\* leaves what an earlier packet put there.
Impaired(k, old) == IF problems[k] # Absent THEN problems[k] ELSE old

\* Process stamps a new record with what the IED and the CPU last said; it
\* holds t.mu throughout, so that no other user of the table can interfere.
NewRecord(k, ts, i) ==
  [pkts |-> {i}, start |-> ts, last |-> ts, cpu |-> cpuLoad,
   ied |-> IF ied.device /\ k \in SensorKeys THEN ied.meta ELSE NoMeta,
   problem |-> Impaired(k, Clean)]

\* Variant with a bug: the load is stamped again with every packet.
CountedRestamps(rec, k, ts, i) ==
  [rec EXCEPT !.pkts = @ \cup {i}, !.last = ts, !.cpu = cpuLoad, !.problem = Impaired(k, @)]

Counted(rec, k, ts, i) ==
  [rec EXCEPT !.pkts = @ \cup {i}, !.last = ts, !.problem = Impaired(k, @)]

ProcessIgnored ==
  /\ Take
  /\ Packet.key = NotIPv4
  /\ UNCHANGED <<table, spawned>>

ProcessUpdate ==
  /\ Take
  /\ Packet.key \in Live
  /\ LET k == Packet.key
     IN  heap' = [heap EXCEPT ![k][flows[k]] = Counted(@, k, Packet.ts, consumed')]
  /\ UNCHANGED <<flows, evictions, spawned>>

\* Variant with a bug: eviction one flow too late.
FullLate == MaxFlows > 0 /\ Cardinality(Live) > MaxFlows

Full == MaxFlows > 0 /\ Cardinality(Live) >= MaxFlows

\* The keys evictOldest may pick: ties are broken by the order of a Go map.
Oldest == {k \in Live : \A j \in Live : Deref(<<k, flows[k]>>).start
                                          <= Deref(<<j, flows[j]>>).start}

Allocate(k, ts) ==
  heap' = [heap EXCEPT ![k] = Append(@, NewRecord(k, ts, consumed'))]

ProcessCreate ==
  /\ Take
  /\ Packet.key \in Keys \ Live
  /\ ~Full
  /\ Allocate(Packet.key, Packet.ts)
  /\ flows' = [flows EXCEPT ![Packet.key] = Len(heap'[Packet.key])]
  /\ UNCHANGED <<evictions, spawned>>

\* Variant with a bug: the evicted record is not exported.
EvictedForgotten(v) == {}

\* The copy evictOldest gives its goroutine is of a record that no one else
\* can reach any more, so the goroutine is given the record itself.
Evicted(v) == {<<v, flows[v]>>}

ProcessEvict(v) ==
  /\ Take
  /\ Packet.key \in Keys \ Live
  /\ Full
  /\ v \in Oldest
  /\ Allocate(Packet.key, Packet.ts)
  /\ flows' = [flows EXCEPT ![v] = Nil, ![Packet.key] = Len(heap'[Packet.key])]
  /\ evictions' = evictions + 1
  /\ spawned' = spawned \cup Evicted(v)

Process == \/ ProcessIgnored \/ ProcessUpdate \/ ProcessCreate
           \/ \E v \in Keys : ProcessEvict(v)

EvictExport(r) ==
  /\ r \in spawned
  /\ spawned' = spawned \ {r}
  /\ exported' = exported \cup {r}
  /\ UNCHANGED <<clock, channel, table, stamps, run>>

-----------------------------------------------------------------------------
(* The Run goroutine.  time.Now() is read before the mutex is taken.       *)

CheckBegin ==
  /\ runPc = "idle"
  /\ runPc' = "scan"
  /\ runNow' = clock
  /\ UNCHANGED <<clock, channel, table, stamps, expired, spawned, exported>>

\* Variant with a bug: a flow is idle when it is old.
IdleWhenOld(k) == runNow > heap[k][flows[k]].start + InactiveTo

Idle(k)   == runNow > heap[k][flows[k]].last + InactiveTo
Active(k) == runNow > heap[k][flows[k]].start + ActiveTo

IdleKeys   == {k \in Live : Idle(k)}
ActiveKeys == {k \in Live : ~Idle(k) /\ Active(k)}

\* Variants with a bug: the counters are not reset; the time of the last packet
\* is; the record in the table is handed over instead of its clone; an idle
\* record is not deleted.
RenewedNotReset(rec) == [rec EXCEPT !.start = runNow]
RenewedSeen(rec)     == [rec EXCEPT !.start = runNow, !.last = runNow, !.pkts = {}]
ActiveHandedShared   == {<<k, flows[k]>> : k \in ActiveKeys}
SlotKept(k)          == flows[k]

Renewed(rec) == [rec EXCEPT !.start = runNow, !.pkts = {}]

\* An idle record is handed over itself and leaves the table; of an active
\* one a clone is handed over, and the record starts again where it is.
IdleHanded   == {<<k, flows[k]>> : k \in IdleKeys}
ActiveHanded == {<<k, Len(heap[k]) + 1>> : k \in ActiveKeys}
Slot(k)      == IF k \in IdleKeys THEN Nil ELSE flows[k]

Scan ==
  /\ runPc = "scan"
  /\ heap' = [k \in Keys |->
       IF k \in ActiveKeys
       THEN Append([heap[k] EXCEPT ![flows[k]] = Renewed(@)], heap[k][flows[k]])
       ELSE heap[k]]
  /\ flows' = [k \in Keys |-> Slot(k)]
  /\ expired' = IdleHanded \cup ActiveHanded
  /\ runPc' = IF expired' = {} THEN "idle" ELSE "export"
  /\ UNCHANGED <<clock, channel, evictions, stamps, runNow, spawned, exported>>

RunExport ==
  /\ runPc = "export"
  /\ runPc' = "idle"
  /\ exported' = exported \cup expired
  /\ expired' = {}
  /\ UNCHANGED <<clock, channel, table, stamps, runNow, spawned>>

-----------------------------------------------------------------------------
(* The CPU sampler, the API's /problem, and the poller of the IED.         *)

SetCpuLoad(c) ==
  /\ cpuLoad' = c
  /\ cpuSince' = IF c = cpuLoad THEN cpuSince ELSE clock
  /\ UNCHANGED <<clock, channel, table, problems, ied, run, spawned, exported>>

InjectProblem(k, p) ==
  /\ problems' = [problems EXCEPT ![k] = p]
  /\ UNCHANGED <<clock, channel, table, ied, cpuLoad, cpuSince, run, spawned, exported>>

ClearProblems ==
  /\ problems' = [k \in Keys |-> Absent]
  /\ UNCHANGED <<clock, channel, table, ied, cpuLoad, cpuSince, run, spawned, exported>>

\* The poller learns the device's address before its first request, and an
\* answer never changes it.
PollIEDStart ==
  /\ ~ied.device
  /\ ied' = [ied EXCEPT !.device = TRUE]
  /\ UNCHANGED <<clock, channel, table, problems, cpuLoad, cpuSince, run, spawned, exported>>

PollIED(m) ==
  /\ ied.device
  /\ ied' = [ied EXCEPT !.meta = m]
  /\ UNCHANGED <<clock, channel, table, problems, cpuLoad, cpuSince, run, spawned, exported>>

-----------------------------------------------------------------------------

Environment ==
  \/ \E c \in CpuLoads : SetCpuLoad(c)
  \/ \E k \in Keys, p \in Problems : InjectProblem(k, p)
  \/ ClearProblems
  \/ PollIEDStart
  \/ \E m \in IedMetas : PollIED(m)

Agent ==
  \/ Process
  \/ \E r \in spawned : EvictExport(r)
  \/ CheckBegin \/ Scan \/ RunExport

Next ==
  \/ Tick
  \/ \E k \in Keys \cup {NotIPv4} : Capture(k)
  \/ Agent
  \/ Environment

Spec == Init /\ [][Next]_vars

\* Time passes, the capture loop and the Run goroutine are never blocked for
\* ever, and the Go scheduler runs every eviction goroutine.
Fairness ==
  /\ WF_vars(Tick)
  /\ WF_vars(Process)
  /\ WF_vars(CheckBegin) /\ WF_vars(Scan) /\ WF_vars(RunExport)
  /\ \A k \in Keys : \A n \in 1..(MaxPackets + MaxTime) :
       WF_vars(EvictExport(<<k, n>>))

FairSpec == Spec /\ Fairness

-----------------------------------------------------------------------------
(* Properties.                                                             *)

Record == [pkts : SUBSET (Nat \ {0}), start : Nat, last : Nat,
           cpu : CpuLoads \cup {0}, ied : IedMetas \cup {NoMeta}, problem : Problems \cup {Clean}]

\* The type invariant: every pointer, in the table, in the sweep's list, in an
\* eviction goroutine or already exported, points to an allocated record.
TypeOK ==
  /\ clock \in Nat
  /\ captured \in Seq([key : Keys \cup {NotIPv4}, ts : Nat])
  /\ consumed \in 0..Len(captured)
  /\ heap \in [Keys -> Seq(Record)]
  /\ flows \in [Keys -> Nat] /\ \A k \in Keys : flows[k] <= Len(heap[k])
  /\ evictions \in Nat
  /\ problems \in [Keys -> Problems \cup {Absent}]
  /\ ied \in [device : BOOLEAN, meta : IedMetas \cup {NoMeta}]
  /\ cpuLoad \in CpuLoads \cup {0} /\ cpuSince \in Nat
  /\ runPc \in {"idle", "scan", "export"} /\ runNow \in Nat
  /\ \A r \in Handed : r \in Keys \X Nat /\ r[2] \in 1..Len(heap[r[1]])

\* An allocated record is in exactly one place: still in the table, in the
\* list of the sweep that took it out, with its eviction goroutine, or already
\* handed to onExport.  Three goroutines move records between these places,
\* and a sweep does not forget the list of the sweep before it.
OnePlace ==
  /\ \A k \in Keys : \A n \in 1..Len(heap[k]) : <<k, n>> \in LiveRefs \cup Handed
  /\ \A r \in LiveRefs : r \notin Handed
  /\ expired \cap spawned = {} /\ (runPc # "export" => expired = {})
  /\ (expired \cup spawned) \cap exported = {}

\* Every packet of a flow that the capture loop has consumed is counted in
\* one record, of its own key: eviction, the clone made by the active timeout
\* and the reset that follows it neither lose a packet nor count it twice.
PacketAccounting ==
  /\ \A k \in Keys : \A n \in 1..Len(heap[k]) : \A i \in heap[k][n].pkts :
       /\ i <= consumed /\ captured[i].key = k
       /\ \A m \in 1..Len(heap[k]) : i \in heap[k][m].pkts => m = n
  /\ \A i \in 1..consumed : captured[i].key # NotIPv4 =>
       \E n \in 1..Len(heap[captured[i].key]) : i \in heap[captured[i].key][n].pkts

\* A record that has been taken out of the table is never written again: the
\* goroutines that encode it hold no lock, and a later packet of the same key,
\* a sweep or an eviction must not touch what they read.
HandedOverFrozen ==
  [][\A r \in Handed : r \in Handed' /\ Deref(r)' = Deref(r)]_vars

\* The records of a flow count stretches of its packets, one after the other,
\* and Last is the time of the latest packet of its stretch. Only in a record
\* that was renewed and has had no packet since (flow.go:263-267) is it that of
\* a packet already handed over: a report without packets repeats the end of an
\* earlier one.
ReportsInOrder ==
  \A k \in Keys : \A n \in 1..Len(heap[k]) :
    LET R == heap[k][n]
    IN /\ \A i \in R.pkts : captured[i].ts <= R.last
       /\ \E m \in 1..Len(heap[k]) : \E i \in heap[k][m].pkts :
            /\ captured[i].ts = R.last
            /\ IF R.pkts # {} THEN m = n ELSE <<k, m>> \in Handed
       /\ \A m \in 1..Len(heap[k]) \ {n} :
            \/ \A i \in R.pkts, j \in heap[k][m].pkts : i < j
            \/ \A i \in R.pkts, j \in heap[k][m].pkts : j < i

\* A sweep takes a flow out of the table if, and only if, all its packets that
\* have been consumed are older than the inactive timeout, by the clock the
\* sweep read before it had the lock (flow.go:254-261): neither a renewal nor an
\* eviction, and no packet processed since the clock was read, deceives it.
IdleExactly ==
  [][runPc = "scan" /\ runPc' # "scan" =>
       \A k \in Live :
         flows'[k] = Nil <=>
           \A i \in 1..consumed : captured[i].key = k => captured[i].ts + InactiveTo < runNow]_vars

\* MAX_FLOWS bounds the table, although every packet may bring a new key.
TableBound == MaxFlows > 0 => Cardinality(Live) <= MaxFlows

\* The cache keeps the promise of PacketLedger: a packet is held from the time
\* it is consumed until the one record that counts it reaches onExport.
PacketsOf(R) == UNION {Deref(r).pkts : r \in R}

Ledger == INSTANCE PacketLedger WITH
  FlowKeys <- Keys, NoFlow <- NotIPv4,
  arrived  <- [i \in 1..Len(captured) |-> captured[i].key],
  read     <- consumed,
  held     <- PacketsOf(LiveRefs \cup expired \cup spawned),
  reported <- PacketsOf(exported)

LedgerSpec == Ledger!Spec

\* Every packet of a flow that enters the channel is in the end reported: the
\* two timeouts leave no record in the table for ever, and an eviction
\* goroutine or a sweep that took one out does export it.
EventuallyReported ==
  \A i \in 1..MaxPackets :
    i <= Len(captured) /\ captured[i].key # NotIPv4 ~> i \in PacketsOf(exported)

\* What a new record is stamped with, the CPU load and the IED's metadata, is
\* fixed at the flow's creation: no poll, no sample and no later packet changes
\* it while the flow is in the table, and its exported copy has the same.
StampsFixedAtCreation ==
  [][\A k \in Live :
       \A n \in {flows[k]} \cup (Len(heap[k]) + 1)..Len(heap'[k]) :
         flows'[k] = flows[k] =>
           /\ heap'[k][n].cpu = heap[k][flows[k]].cpu
           /\ heap'[k][n].ied = heap[k][flows[k]].ied]_vars

\* The CPU load in a report is the load of the time at which the reported
\* interval starts (flow.go:49, api.go:164-165): a report with
\* traffic has the load of its beginning if that load has not changed since.
CpuLoadAtFlowStart ==
  \A r \in expired \cup spawned :
    Deref(r).pkts # {} /\ Deref(r).start > cpuSince => Deref(r).cpu = cpuLoad

=============================================================================
