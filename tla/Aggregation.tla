---------------------------- MODULE Aggregation ----------------------------
(***************************************************************************)
(* The aggregator (agent/aggregate) between the flow cache and the         *)
(* encoders: Process, called by the sweep and by eviction goroutines at    *)
(* the same time; /api/aggregate (agent/api), which changes its            *)
(* configuration meanwhile, for an operator or for the collector's         *)
(* responder (collector/responder).                                        *)
(*                                                                         *)
(* A merged record is the set of the flow records merged into it: packets, *)
(* bytes, flags and time stamps of the set are sums, unions and bounds     *)
(* over its members.                                                       *)
(***************************************************************************)
EXTENDS Integers, FiniteSets

CONSTANTS
  Exporters,   \* the goroutines that may be in Process at the same time
  Handlers,    \* the requests to /api/aggregate served at the same time
  Records,     \* the flow records handed to the export callback
  Pair,        \* the host pair of a record
  Proto,       \* its protocol
  Bytes,       \* the bytes of a set of records
  InitialMax,  \* AGG_MAX_RECORDS
  Caps,        \* the responder's max_records by alert: 100, 50 and 20
  Patches      \* the requests of operators, as functions on the fields they set

Levels   == {"none", "protocol", "host_pair"}
Fields   == {"enabled", "level", "max_records"}
Config   == [enabled : BOOLEAN, level : Levels, max_records : Int]
Requests == {[enabled |-> TRUE, level |-> "protocol",  max_records |-> Caps.PORT_SCAN],
             [enabled |-> TRUE, level |-> "host_pair", max_records |-> Caps.LATERAL_MOVEMENT],
             [enabled |-> TRUE, level |-> "host_pair", max_records |-> Caps.DATA_EXFILTRATION]}
              \cup Patches

ASSUME AggregationAssumption ==
  /\ IsFiniteSet(Records) /\ IsFiniteSet(Exporters)
  /\ InitialMax \in Int
  /\ Caps \in [{"PORT_SCAN", "LATERAL_MOVEMENT", "DATA_EXFILTRATION"} -> Nat]
  /\ \A q \in Patches :
       /\ DOMAIN q \subseteq Fields
       /\ "enabled" \in DOMAIN q => q["enabled"] \in BOOLEAN
       /\ "max_records" \in DOMAIN q => q["max_records"] \in Int

\* The bytes of a set are those of its parts.
ASSUME BytesAssumption ==
  /\ Bytes \in [SUBSET Records -> Nat]
  /\ \A S, T \in SUBSET Records : S \cap T = {} => Bytes[S \cup T] = Bytes[S] + Bytes[T]

VARIABLES
  cfg,           \* a.cfg
  totalIn, totalOut, droppedBytes,   \* the atomic counters
  pc,            \* where each Process is: "idle", "in", "merge" or "drop"
  batch,         \* its argument
  snap,          \* its copy of the configuration
  merged,        \* its local variable merged, after the cap
  returned,      \* history: the calls that have returned, [batch, cfg, out]
  hpc,           \* where each request is: "idle" or "decode"
  req,           \* what it asks for
  hcfg           \* its copy of the configuration

counters == <<totalIn, totalOut, droppedBytes>>
calls    == <<pc, batch, snap, merged, returned>>
requests == <<hpc, req, hcfg>>
vars     == <<cfg, counters, calls, requests>>

NoCall == [enabled |-> FALSE, level |-> "none", max_records |-> 0]

\* The records that have reached the aggregator.
InCalls == UNION {batch[e] : e \in Exporters}
Arrived == InCalls \cup UNION {c.batch : c \in returned}

Init ==
  /\ cfg = [enabled |-> TRUE, level |-> "protocol", max_records |-> InitialMax]
  /\ totalIn = 0 /\ totalOut = 0 /\ droppedBytes = 0
  /\ pc = [e \in Exporters |-> "idle"]
  /\ batch = [e \in Exporters |-> {}]
  /\ snap = [e \in Exporters |-> NoCall]
  /\ merged = [e \in Exporters |-> {}]
  /\ returned = {}
  /\ hpc = [h \in Handlers |-> "idle"]
  /\ req = [h \in Handlers |-> NoCall]
  /\ hcfg = [h \in Handlers |-> NoCall]

-----------------------------------------------------------------------------
(* Merging and the cap.                                                    *)

\* Variant with a bug: flows of different protocols are merged.
KeyOfPairOnly(level, r) == <<Pair[r]>>

KeyOf(level, r) == IF level = "host_pair" THEN <<Pair[r]>> ELSE <<Pair[r], Proto[r]>>

Groups(level, B) == {{s \in B : KeyOf(level, s) = KeyOf(level, r)} : r \in B}

Capped(c, G) == c.max_records > 0 /\ Cardinality(G) > c.max_records

\* Variant with a bug: ascending order.
TopLightest(G, n) ==
  {K \in SUBSET G : Cardinality(K) = n /\ \A k \in K, g \in G \ K : Bytes[k] <= Bytes[g]}

\* What the first n of a sort by bytes, descending, may be: neither the sort
\* nor the order of the map it starts from decides between equals.
Top(G, n) ==
  {K \in SUBSET G : Cardinality(K) = n /\ \A k \in K, g \in G \ K : Bytes[k] >= Bytes[g]}

Kept(c, G) == IF Capped(c, G) THEN Top(G, c.max_records) ELSE {G}

\* Variant with a bug: every record is counted as kept.
LostForgotten(B, K) == {}

Lost(B, K) == B \ UNION K

-----------------------------------------------------------------------------
(* Process.                                                                *)

ReadConfig(e, B) ==
  /\ pc[e] = "idle"
  /\ pc' = [pc EXCEPT ![e] = "in"]
  /\ batch' = [batch EXCEPT ![e] = B]
  /\ snap' = [snap EXCEPT ![e] = cfg]
  /\ UNCHANGED <<cfg, counters, merged, returned, requests>>

Bypassed(c) == ~c.enabled \/ c.level = "none"

\* Variant with a bug: the records are counted after the early return.
CountInMergedOnly(e) ==
  /\ pc[e] = "in"
  /\ totalIn' = IF Bypassed(snap[e]) THEN totalIn ELSE totalIn + Cardinality(batch[e])
  /\ pc' = [pc EXCEPT ![e] = "merge"]
  /\ UNCHANGED <<cfg, totalOut, droppedBytes, batch, snap, merged, returned, requests>>

CountIn(e) ==
  /\ pc[e] = "in"
  /\ totalIn' = totalIn + Cardinality(batch[e])
  /\ pc' = [pc EXCEPT ![e] = "merge"]
  /\ UNCHANGED <<cfg, totalOut, droppedBytes, batch, snap, merged, returned, requests>>

Return(e, K) ==
  /\ returned' = returned \cup {[batch |-> batch[e], cfg |-> snap[e], out |-> K]}
  /\ pc' = [pc EXCEPT ![e] = "idle"]
  /\ batch' = [batch EXCEPT ![e] = {}]
  /\ snap' = [snap EXCEPT ![e] = NoCall]
  /\ merged' = [merged EXCEPT ![e] = {}]

PassThrough(e) ==
  /\ pc[e] = "merge"
  /\ Bypassed(snap[e])
  /\ totalOut' = totalOut + Cardinality(batch[e])
  /\ Return(e, {{r} : r \in batch[e]})
  /\ UNCHANGED <<cfg, totalIn, droppedBytes, requests>>

\* droppedBytes is added to only when there is something to add.
Merge(e) ==
  /\ pc[e] = "merge"
  /\ ~Bypassed(snap[e])
  /\ \E K \in Kept(snap[e], Groups(snap[e].level, batch[e])) :
       /\ totalOut' = totalOut + Cardinality(K)
       /\ \/ /\ Bytes[Lost(batch[e], K)] = 0
             /\ Return(e, K)
          \/ /\ Bytes[Lost(batch[e], K)] > 0
             /\ pc' = [pc EXCEPT ![e] = "drop"]
             /\ merged' = [merged EXCEPT ![e] = K]
             /\ UNCHANGED <<batch, snap, returned>>
  /\ UNCHANGED <<cfg, totalIn, droppedBytes, requests>>

CountDropped(e) ==
  /\ pc[e] = "drop"
  /\ droppedBytes' = droppedBytes + Bytes[Lost(batch[e], merged[e])]
  /\ Return(e, merged[e])
  /\ UNCHANGED <<cfg, totalIn, totalOut, requests>>

-----------------------------------------------------------------------------
(* POST /api/aggregate: the request is decoded over a copy of the          *)
(* configuration, and a copy with a valid level is written back.           *)

ReceivePost(h, q) ==
  /\ hpc[h] = "idle"
  /\ hpc' = [hpc EXCEPT ![h] = "decode"]
  /\ req' = [req EXCEPT ![h] = q]
  /\ hcfg' = [hcfg EXCEPT ![h] = cfg]
  /\ UNCHANGED <<cfg, counters, calls>>

Field(c, q, f) == IF f \in DOMAIN q THEN q[f] ELSE c[f]
Decoded(c, q)  == [enabled     |-> Field(c, q, "enabled"),
                   level       |-> Field(c, q, "level"),
                   max_records |-> Field(c, q, "max_records")]

Finish(h) ==
  /\ hpc[h] = "decode"
  /\ hpc' = [hpc EXCEPT ![h] = "idle"]
  /\ req' = [req EXCEPT ![h] = NoCall]
  /\ hcfg' = [hcfg EXCEPT ![h] = NoCall]
  /\ UNCHANGED <<counters, calls>>

\* Variant with a bug: the level is not validated.
ValidAny(c) == TRUE

Valid(c) == c.level \in Levels

ApplyPost(h) ==
  /\ Finish(h)
  /\ Valid(Decoded(hcfg[h], req[h]))
  /\ cfg' = Decoded(hcfg[h], req[h])

\* An error, and no change. A body that is no JSON ends here too: it sets
\* nothing, as a request for an unknown level does.
RejectPost(h) ==
  /\ Finish(h)
  /\ ~Valid(Decoded(hcfg[h], req[h]))
  /\ cfg' = cfg

-----------------------------------------------------------------------------

\* The callback is never given an empty slice (flow.go).
Process(e) ==
  \/ \E B \in SUBSET (Records \ Arrived) : B # {} /\ ReadConfig(e, B)
  \/ CountIn(e) \/ PassThrough(e) \/ Merge(e) \/ CountDropped(e)

HandleAggregate(h) ==
  \/ \E q \in Requests : ReceivePost(h, q)
  \/ ApplyPost(h) \/ RejectPost(h)

Next ==
  \/ \E e \in Exporters : Process(e)
  \/ \E h \in Handlers : HandleAggregate(h)

Spec == Init /\ [][Next]_vars

-----------------------------------------------------------------------------
(* Properties.                                                             *)

TypeOK ==
  /\ cfg \in Config
  /\ totalIn \in Nat /\ totalOut \in Nat /\ droppedBytes \in Nat
  /\ pc \in [Exporters -> {"idle", "in", "merge", "drop"}]
  /\ batch \in [Exporters -> SUBSET Records]
  /\ \A e \in Exporters : pc[e] = "idle" <=> batch[e] = {}
  /\ snap \in [Exporters -> Config]
  /\ merged \in [Exporters -> SUBSET SUBSET Records]
  /\ returned \subseteq [batch : SUBSET Records, cfg : Config, out : SUBSET SUBSET Records]
  /\ hpc \in [Handlers -> {"idle", "decode"}]
  /\ req \in [Handlers -> Requests \cup {NoCall}]
  /\ hcfg \in [Handlers -> Config]

\* No traffic disappears: the bytes of the records that have reached the
\* aggregator are those delivered to the encoders, those reported as dropped,
\* and those of the calls under way, however calls and reconfigurations mix.
Delivered == UNION {UNION c.out : c \in returned}

BytesConserved == Bytes[Arrived] = Bytes[Delivered] + droppedBytes + Bytes[InCalls]

\* What a call returns is what its configuration promises (aggregate.go:6-13):
\* one record for each flow of the configured granularity, made of all of it,
\* no more than max_records, and nothing lost that is heavier than what stays.
\* All of it of one configuration, although it may change during the call.
SameFlow(level, r, s) == Pair[r] = Pair[s] /\ (level = "host_pair" \/ Proto[r] = Proto[s])
Flow(c, r)            == {s \in c.batch : SameFlow(c.cfg.level, r, s)}
Keeps(c, r)           == \E g \in c.out : r \in g

Reduced(c) ==
  IF Bypassed(c.cfg) THEN c.out = {{r} : r \in c.batch}
  ELSE /\ \A g \in c.out : \E r \in c.batch : g = Flow(c, r)
       /\ c.cfg.max_records > 0 => Cardinality(c.out) <= c.cfg.max_records
       /\ \A r \in c.batch : ~Keeps(c, r) =>
            /\ c.cfg.max_records > 0 /\ Cardinality(c.out) = c.cfg.max_records
            /\ \A g \in c.out : Bytes[Flow(c, r)] <= Bytes[g]

ReducedAsConfigured == \A c \in returned : Reduced(c)

\* The counters never say that more records went out than came in.
NeverExpands == totalOut <= totalIn

\* A request changes the fields it names and no other (api.go:248).
PatchKeepsOtherFields ==
  [][\A h \in Handlers : hpc[h] = "decode" /\ hpc'[h] = "idle" =>
       \A f \in Fields \ DOMAIN req[h] : cfg'[f] = cfg[f]]_vars

=============================================================================
