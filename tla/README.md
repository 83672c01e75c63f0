# Formal model of flow-monitoring

TLA+ modules, TLC configurations and TLAPS proofs for the concurrent core of
flow-monitoring: an agent that turns packets into flow records and exports them
as NetFlow v5 and IPFIX, a collector that decodes them into a time-series
database, an asset inventory and an anomaly detector, and a responder that
reconfigures the agent when an alert fires.

## 1. The system

| Component | State | Operations | Talks to |
|---|---|---|---|
| Packet capture `agent/capture` | channel of 10000 packets | goroutine that forwards pcap packets | capture loop |
| Flow cache `agent/flow` | `flows`, `overflowEvictions` (mutex), `problems`, `ied`, `cpuLoad` (a lock each) | `Process`, `evictOldest`, `checkTimeouts` every 5 s, `SetCpuLoad`, `InjectProblem`, `ClearProblems`, `pollIED` | export callback, from the sweep or from a goroutine per eviction |
| Aggregator `agent/aggregate` | configuration (lock), three atomic counters | `Process`, `SetConfig`, `Stats` | called by the export callback, configured by the API |
| IPFIX encoder `agent/protocols` | `fields`, `templateID`, `dirty` (mutex) | `Export`, `SetTemplate`, refresh ticker | UDP socket |
| NetFlow encoder, sFlow sampler `agent/protocols` | sequence numbers, sampling counter | `Export`, `Sample` | UDP sockets |
| HTTP control plane `agent/api` | none of its own | `/api/problem`, `/api/ipfix/template`, `/api/aggregate`, `/api/failure`, `/api/status` | flow cache, encoder, aggregator |
| Listeners `collector/parser` | template cache of the IPFIX listener | parse a datagram, call the handler for each record | handler of `collector/main.go` |
| Inventory `collector/cmdb` | `known` (mutex), tables `assets`, `topology`, `alerts` in PostgreSQL | `Observe`, `PersistAlert`, queries | called by three listeners at once |
| Detector `collector/anomaly` | per-source windows, known sensor peers, alert buffer (mutex) | `Observe` with five rules, `Alerts` | a goroutine per alert |
| Responder `collector/responder` | none | `OnAlert` | POSTs to the agent's control plane |
| Failure manager `generator/failures` | expiry per address (lock) | `Disconnect`, `IsDisconnected`, `Active` | traffic profiles |
| Field device `field-device` | signal and encryption status (lock) | drift ticker, `/status`, `/status/set` | polled by the flow cache |

What is hard in it, and what makes each part correct:

* *Flow cache.* Three kinds of goroutine move records out of one table and
  encode them with no lock held. Correct means: no packet lost, none counted
  twice, nothing written after it was handed over, the table bounded, every
  packet reported in the end.
* *IPFIX.* Templates and data travel in separate datagrams over UDP, the schema
  changes at run time, two goroutines may export at once, and neither end keeps
  anything over a restart. Correct means: data is never decoded with a schema
  it was not encoded with, templates go out before their data, and the
  collector recovers by the refresh.
* *Aggregator and control plane.* Batches in parallel with reconfiguration.
  Correct means: bytes in equal bytes out plus bytes dropped, the heaviest
  flows survive the cap, a request changes what it names and nothing else.
* *NetFlow, sFlow and the decoding of all three.* Narrow fields, chunks,
  padding, writes that fail between two chunks. Correct means: every record is
  sent once by each protocol, the collector decodes what was sent, sequence
  numbers count flows, the samples stand for the packets seen.
* *Inventory.* Three listeners share it, the decision what to write is taken
  under a lock and written after it, statements fail on their own, and a
  restart keeps only the tables. Correct means: every device seen is registered,
  once, its counters agree with what was observed, score, category and times
  agree with the counters.
* *Detector.* Five rules over windows that are reset, expire and are forgotten
  by a restart. Correct means: a rule fires when what was observed calls for it
  by its doc, and only then, the buffer keeps the newest alerts, every alert is answered.
* *Responder, failures, field device.* Unordered responses, check-then-act
  races, integer wrap.

`PROJECT.json` lists each hazard with the line at which it bites.

## 2. Modules

| Module | Models |
|---|---|
| `PacketLedger` | abstract: what a flow cache promises, whatever its timeouts and size |
| `FlowTracker` | the flow cache with capture loop, sweep, eviction goroutines, CPU sampler, IED poller and `/api/problem` |
| `MCFlowTracker` | instances of it; symmetry of keys |
| `FlowTrackerProofs` | theorems about it |
| `IpfixExport` | encoder, socket, network and the collector's template cache |
| `MCIpfixExport` | instances of it; symmetry of exporting goroutines |
| `IpfixExportProofs` | theorems about it |
| `Aggregation` | the aggregator, and `/api/aggregate` as operators and the responder use it |
| `MCAggregation` | instances of it; symmetry of goroutines and of equal records |
| `AggregationProofs` | theorems about it |
| `Inventory` | `Observe` of the inventory with concurrent listeners, failing statements and restarts |
| `MCInventory` | an instance of it |
| `InventoryProofs` | theorems about it |
| `Detector` | `Observe` of the detector, its alert buffer, and the goroutine of each alert in `collector/main.go` |
| `MCDetector` | an instance of it |
| `DetectorProofs` | theorems about it: types, buffer, sensor peers |
| `DetectorRuleProofs` | theorems about the rules that look back over a window |
| `FlowWire` | the export callback of `agent/main.go`, NetFlow and IPFIX datagrams and what the parsers make of them, the sFlow sampler |
| `MCFlowWire` | an instance of it |
| `FlowWireProofs` | theorems about it |

### FlowTracker

A pointer to a `Record` is a pair of a key and the number of the record among
those allocated for the key, `heap` is what the pointers point to, `flows` the
number of the live record of each key. `Packets` and `Bytes` are the *set of the
numbers of the packets counted*: a set is what a counter abstracts when one
wants to know whether a packet was counted once.

One action is one critical section. `Process` takes `t.mu` for its whole body,
so it is one step with three cases, `ProcessUpdate`, `ProcessCreate` and
`ProcessEvict(v)`, where `v` is any of the oldest flows because ties are broken
by the iteration order of a Go map. The locks of `problems`, `ied` and `cpuLoad`
are taken inside it; since each is read once and written by actions that touch
nothing else, reading them in the same step loses no behaviour of the properties
below. `checkTimeouts` is three steps: `CheckBegin` reads the clock *before* the
mutex is taken, `Scan` is the critical section, `RunExport` the call of the
callback after the unlock. The goroutine of an eviction is `EvictExport(r)`. What
the callback does with the records is the subject of `IpfixExport`; here they are
`exported`. IED metadata is one value: `pollIED` replaces it under a lock and
`Process` reads it under the same lock.

### IpfixExport

A schema is a model value standing for an ordered list of fields. `Export` is one
step under the encoder's lock, `Start`, and one step per write: `SendTemplate`
when the flag was set, then `SendData` for each chunk; `SendFails` is a write
that returns an error, after which `Export` returns. Any number of goroutines
(`Exporters`) may be inside it. The wire is a set of datagrams from which one is
received, lost, or received and left to be received again. `Deliver` is the
listener: a template replaces what the cache holds for its ID, data is decoded
with what the cache holds, or dropped. A restart of either end forgets all that
end knows. `announced`, `unsent` and `recycled` are history variables: the templates
the running agent has written, those it has tried to write in vain, and whether an ID
used before may have been given a second meaning, by the wrap of the `uint16` or by a
restart. `NoSnap` stands for the copies of an `Export` that has returned.

### Aggregation

A merged record is the set of the flow records merged into it; `Bytes` is the
additive measure that gives the bytes of such a set. `Process` has a step per
access to shared state: `ReadConfig` (under the configuration's lock), `CountIn`,
then `PassThrough`, or `Merge` followed by `CountDropped` when something was
dropped. What is between two of them is local to the call. `Top` is the cut
after `max_records` of a sort that is not stable over a map in no particular
order: any set of that size with nothing heavier outside it. The counters are
`uint64`, too wide to wrap, and are naturals. A POST to `/api/aggregate` is two
steps, `ReceivePost`, which copies the configuration, and `ApplyPost` or
`RejectPost`: the body is decoded over the copy, so a request is a function on
the fields it sets. `Requests` are the three responses of `responder.go` to
alerts and, as `Patches`, what operators send. `returned` and `batch` make the
records of finished calls and of calls under way visible to the properties.

### Inventory

A flow record is known by its position in `observed`, which is also what
`Observe` read from the clock; `hand` is the flow a listener is handling, `at`
whether it is at the source, the destination or the edge of the topology, and
`stmt` the statement it is about to send. `Look` is the critical section of
`c.mu`; `Insert`, `Update` and `Link` are what the database does with a
statement, atomic because a row is locked for it; `Fail` is a statement that
returns an error and has stored nothing. `Skip` and `SkipLink` are the early
returns. A `Restart` loads `known` from the table and loses what the listeners
had in hand. A row has the counters, whether a MAC address is known, the times
and the two columns computed from the counters, by `Classify` in Go for the
`INSERT`, by `Recategorised` in SQL for the `UPDATE`. `ports` and `protocols` are
those of the flows counted, and an edge of the topology is the set of flows it
adds up. `counted`, `missed` and `Ahead` say of each part of each flow what has
become of it.

Two things a database may do need no action of their own. A statement that is
committed and then reports an error leaves the tables and the map as success does,
since an error is only logged (`cmdb.go:222-224`): it is an `Insert`, `Update` or
`Link`. A statement the database is executing when the collector dies is one of these
followed by `Restart`: `migrate` alters `assets` before `loadKnown` reads it, the
`ALTER TABLE` (`cmdb.go:149-159`) waits for the statement to end, and nobody reads the
table in between. That the database takes up a statement of the dead process only
after the new one has gone through `loadKnown` is left out; `RegisteredOnce` rests on
that.

### Detector

`Observe(f)` holds the lock for its whole body and is one step: expire windows,
five rules in order, the resets, the alerts. `log` has each flow record with its
time and the run of the process it was seen in, and `raised` each alert with the
position in `log` that caused it: the properties say of `log` when there must be
an alert, and know nothing of windows. Sizes are two Booleans (`big`: 5 MB or
more, `smallUdp`: UDP below 1500 bytes). The jitter is decided in whole numbers:
`n * Sum(d^2) - S^2 <= 9 * S^2` is what `stddev / mean <= 3` means. `callback` is
where the goroutine of an alert is: the `INSERT` of `PersistAlert`, which may fail
(`PersistFails`), then the responder, with a POST that may fail as well
(`RespondFails`; the four types in `Posts`), or a log line. What the POSTs do to the
agent is in `Aggregation` and `IpfixExport`. The order in which callbacks end is free,
and `Observe` waits for none of them: `MaxRunning` bounds how many are under way in
the search. The goroutines in `Slow` may wait for their statement for ever, and those in
`Failing` are the ones whose `INSERT` and POST may fail.

### FlowWire

`pc` is where an export callback is, at NetFlow or at IPFIX, and `sent` how much of
the batch its current protocol has sent. A datagram has the flows it was encoded from
and what is in its fields, modulo `Wide`, which stands for 2^32. `ParseNetFlow` and
`ParsedIpfix` are the parsers, as functions of a datagram; what the network does with
datagrams is in `IpfixExport`. Of an IPFIX data set the length matters: the records
found in it are its length with padding, divided by that of a record. A record may
start later than its last packet, as one that was renewed and had no more traffic does
(`flow.go:265`). The flow records in some datagrams are counted as the pairs of a
datagram and a position in it (`FlowsIn`), so that the properties need no fold. The
sampler is the three counters of `Sample`, without the datagram it sends, and
`SampledPackets` what the collector takes the samples for.

## 3. Runs

| Run | Bounds | Shows |
|---|---|---|
| `tracker_accounting` | 3 symmetric keys, table of 2, 4 packets, active timeout 2, inactive 1, clock to 5 | accounting, one place per record, frozen hand-over, reports in order, idle flows and only they end, table bound, implementation of `PacketLedger` |
| `tracker_reporting` | 2 keys, table of 1, 2 packets, channel of 1, all environment actions, fairness | every packet reported, stamps fixed at creation |
| `tracker_stale_cpu` | 1 key, 3 packets | *violated:* CPU load at the start of the reported interval |
| `ipfix` | 2 goroutines, 2 schemas, IDs 2 and 3 (so that they wrap), 2 changes, 1 restart of either end, failing writes, fairness | types, one meaning per ID, no wrong decoding, a template missing only for a race or a failed write, the collector gets the current template |
| `ipfix_race` | 2 goroutines, writes succeed, no restart | *violated:* template before data |
| `aggregation_conservation` | 2 goroutines, 4 records (three of one host pair, two protocols, sizes 0 to 2), 1 request at a time, caps 2 and 1 | bytes conserved, one configuration per call, the heaviest kept, never more out than in |
| `aggregation_lost_update` | the same with 2 requests at a time | *violated:* a request leaves other fields alone |
| `inventory` | 2 listeners, 2 hosts and a sensor, 3 flow records (one to no address), 3 flows, 1 failure, 1 restart, thresholds of 1 to 2, fairness | registered once, nothing counted twice or lost unseen, score and category fit, times within overlap, every device registered in the end |
| `detector` | an external host, a server, a sensor and 0.0.0.0, 5 flow records, 4 flows, thresholds 2, 2 and 3, window 1, clock to 2, buffer of 4, 2 callbacks under way, of which the first alert's may hang and the second's may fail, 1 restart, fairness | scans within the window and regular beacons are reported, and nothing for less than its threshold; lateral movement and breaches exactly; the buffer keeps the newest; every alert but one that hangs is answered |
| `detector_sliding` | one source and three ports, threshold 3, window 1 | *violated:* the ports reported lie within the window |
| `detector_irregular` | one sensor and one peer, the thresholds of the code, window 5 | *violated:* a burst and a gap are no regular beacon |
| `wire` | 2 goroutines, 2^32 scaled to 4, clock to 5, chunks of 2, records of 1, 2, 3, 4 and 64 bytes, one of five that starts after its last packet, sampling rates 0, 1 and 3 of 4 packets, 1 failing write | every record sent once by each protocol and decoded as sent, sequence numbers count flows, samples stand for packets |

Why the bounds are enough. Three keys and a table of two are the smallest instance in
which an eviction has a choice, and the evicted key can come back while its goroutine
still holds the old record. Four packets let one key be created, counted, evicted and
created again. With an active timeout of two and a last capture at moment three a flow
is renewed with packets on both sides of the renewal. `Horizon` keeps captures early
enough for the sweeps after them to happen before the clock stops at `MaxTime`. Two
goroutines, two schemas and two IDs give every order of clearing the flag and sending;
two schema changes wrap the ID. A restart leaves an end as it was at the start, so
that one, of either end, at any point of the other's work, shows what can be lost by
it. In the model the ID space is `IdBase..IdLimit-1`; in the code it is 256..65535,
one more than the comment at `protocols.go:252` says. Four records, three of one host
pair, make batches that each of the two keys groups differently, with ties at the cap
and a group of no bytes, dropped without being tallied; two goroutines and one request
suffice for every order of a reconfiguration and the steps of concurrent calls.

Two listeners and three flows let a listener be overtaken between the look-up
and its `INSERT`, by the other one's `UPDATE` of the same address, with a failure
or a restart in between; thresholds are scaled so that a row passes through the
categories within three flows. In `detector` four flows at three moments are enough
for a window that expires, one that survives a pause of its length, flows at equal
intervals of no and of one unit and at unequal ones, a rule that fires, is reset and
fires again, and a buffer that rotates between two alerts of one flow. With two
callbacks under way a flow comes in, and alerts are raised, while those of an earlier
one are stored and answered; `MaxRunning` bounds the search, not the program. The
goroutine of the first alert may hang at either step (`Slow`), that of the second may
fail at either (`Failing`), beside each other. In `wire`
the uptime wraps within the clock's range, so that batches lie before, across and
after the wrap, and every residue of the padding occurs.

### Findings

* `tracker_stale_cpu`: `checkTimeouts` restarts the interval of an active flow
  and keeps `CpuLoad`. Reports of a long flow have the load of its first packet,
  against `flow.go:49` ("at flow-start time") and `api.go:164-165` ("into all
  subsequent IPFIX flow records").
* `ipfix_race`: `dirty` is cleared under the lock, the template sent after it. A
  second `Export` in between sends data the collector cannot decode, against
  `protocols.go:253` and `protocols.go:292-293`.
* `aggregation_lost_update`: an operator's `{"enabled": false}` and a response of
  the collector, handled at the same time: the later write brings back the
  fields it did not name, against `api.go:248` ("PATCH individual fields").
* `detector_sliding`: a window goes only when its source has been silent for five
  minutes (`anomaly.go:183`); until then the ports in it may be of any age, against
  `anomaly.go:22-23` ("within the sliding window"). A source that probes one port
  every four minutes is reported as a scanner after two hours.
* `detector_irregular`: five intervals have a coefficient of variation of at most 2,
  and the limit is 3, so the test of `anomaly.go:276` cannot fail. Five flows at one
  moment and a sixth after a gap are a beacon, against `anomaly.go:40-41` ("very
  regular"), and against `anomaly_test.go:138-153`, which takes such times for
  irregular, but tests the function with more intervals than the rule ever has.
Met while modelling, and stated in the properties as the code has them:

* When the write of a template fails, the flag stays clear and the next `Export` sends
  data without it, against `protocols.go:341-342`, until the refresh. `ipfix_race` shows
  the promise broken by the shorter way; `TemplateAccounted` says that there are these
  two ways, and `CollectorCatchesUp` that the refresh makes up for both.
* `observeIP` marks an address (`cmdb.go:198`) and does not unmark it when its `INSERT`
  fails: the device is not in the inventory until the collector restarts, against
  `cmdb.go:81` ("IP → already registered in DB"), and every `UPDATE` meanwhile changes
  no row. `KnownIsRegistered` and `AppearedIsRegistered` except exactly these addresses.
* The mark is made under the lock and the `INSERT` sent after it (`cmdb.go:196`): the
  `UPDATE` of another listener in between finds no row, and nobody is told. That flow is
  not counted, against `cmdb.go:180-181` ("updates counters"); in `EveryFlowAccounted`
  it is `missed`.
* The parser takes the padding of a data set for records when a record has at most three
  bytes (`parser.go:185`, against `protocols.go:417`). Inventory and detector ignore such
  records, which have no address, but the Influx writer, the third consumer
  (`main.go:69`), writes a point for each (`writer.go:46-91`). `DecodedAsSent` says that
  it happens with no longer record.

And these, of which no doc says otherwise:

* A flow renewed by the active timeout that has no more traffic is reported once more
  with no packets, and `Start` may be after `Last`. `ReportsInOrder` says what such a
  report is: it repeats the end of one already handed over.
* A device first seen as a receiver is `SHADOW` and stays so when it starts to send,
  until more than five flows of its own: the `UPDATE` keeps the category where the
  `INSERT` would have said `UNKNOWN` (`CategoryFitsRow`).
* Hosts of any age count for `LATERAL_MOVEMENT`, as long as no pause is longer than
  the window (`LateralExact`); the rule's own doc, `anomaly.go:26-27`, names no window.
* `BreachOnce` holds of one process: a restart forgets the peers and raises the
  alert again.
* NetFlow start times are 49.7 days late for a flow that spans the wrap of the
  uptime, and counters are reduced modulo 2^32 (`DecodedAsSent`).
* A sampling rate of 0 sends every packet as a sample that stands for none
  (`SampleEstimate`).
* Every flow is exported by two protocols and observed twice, so the topology
  counts its bytes twice; aggregation leaves one port of a merged flow, so a scan
  in one batch shows one port to the detector. No property is about these.

### Fairness

Weak fairness of the clock, of `Process`, of the three steps of the sweep and of each
eviction goroutine: the capture loop and the ticker run for ever, no lock is held for
ever, and the Go scheduler runs every goroutine. None is assumed of the API, the
sampler or the poller. For IPFIX: the refresh ticker ticks, there are flows to export,
a write of a template attempted again and again succeeds (strong fairness), and a
datagram sent again and again arrives (strong fairness, the usual assumption on a
lossy channel); stale copies of templates do not arrive for ever. For the inventory: a
listener in `Observe` goes on, as the database answers each statement with success or
an error. For the detector: the goroutines of alerts go on, as the HTTP client of the
responder gives up after five seconds and the database answers. The `INSERT` of an
alert has no timeout, so nothing is assumed of the goroutines in `Slow`: what they do
must not matter to the others. Nothing of this is used in the safety properties.

## 4. Proofs

For every set of keys, all timeouts, every table size and bound
(`FlowTrackerProofs`), from `TrackerAssumption`:

* `TypeCorrect`: `TypeOK`, inductive on its own.
* `AccountingCorrect`: `PacketAccounting`. The inductive invariant is `Accounts`,
  which states for each packet which record of which key counts it; with
  `TypeOK` it is preserved because an allocation counts one new packet
  (`CountsAllocate`), an update adds it to the live record (`CountsUpdate`), and a
  sweep moves what an active record counts to its clone (`CountsScan`).
* `PlacesCorrect`: `OnePlace`, inductive with `TypeOK`.
* `FrozenAfterHandOver`: only live records are written, and by `OnePlace` no live
  record has been handed over.
* `BoundCorrect`: `TableBound`, strengthened with the finiteness of the table.
* `StampsCorrect`: `StampsFixedAtCreation`, from `TypeOK` alone, by the three ways
  a record is written (`UpdateStamps`, `ScanStamps`, an allocation of another key).
* `OrderCorrect` and `IdleCorrect`: `ReportsInOrder` and `IdleExactly`. The invariant
  is `Timely`: captures are in order of time; the `Last` of a record is no earlier than
  its packets and the time of one of them, or, when it has none, of one that has been
  handed over (`LastSeen`); the packets of two records of a key do not interleave
  (`Stretches`); and the live record is the latest of its key (`Latest`), which is
  what lets the sweep judge by `Last` alone. `TimelyGrow` is about a packet, whichever
  way it is counted, `TimelyScan` about a renewal, where the clone takes over what the
  live record was.
* `LedgerImplemented`: `Spec` implements `PacketLedger!Spec`. The invariant is
  `TypeOK /\ OnePlace /\ Accounts`; a `Process` maps to `Read`, a capture to
  `Arrive`, an export to `Report`, a sweep to a stutter.

For every set of goroutines and schemas and every ID space (`IpfixExportProofs`),
from `IpfixAssumption`:

* `TypeCorrect`: `TypeOK`; the wrap of the ID stays in the ID space.
* `OneMeaningCorrect`: `OneMeaningPerId`, inductive with `TypeOK`: every ID in use
  anywhere, in the encoder, in an `Export`, on the wire or in the cache, is at most
  the encoder's, so a new one is fresh.
* `DecodingCorrect`: `NoMisdecode`, which follows from it.
* `TemplateAccountedCorrect`: `TemplateAccounted`, for any number of goroutines and
  failing writes: data goes out without its template only while another goroutine that
  took the same template is about to write it, or after that write has failed. So the
  race that `ipfix_race` shows and a write that fails are the only ways to break the
  promise. The invariant `AccountInv` adds that the current template is accounted for
  whenever the flag is clear; `AccountKept` says which steps keep a template accounted
  for.

For every set of goroutines and requests, all records with any additive measure
of bytes, every cap and every patch (`AggregationProofs`), from
`AggregationAssumption` and `BytesAssumption`:

* `TypeCorrect`: `TypeOK`; a request that passes the check of the level gives a
  configuration.
* `Conserved`: `BytesConserved`. It is inductive with `Disjoint`: a record is in
  one call at a time and a call gives out only what it got, so that `Bytes` adds
  up over the parts (`ReturnConserves` for the four ways a call ends).
* `ReducedCorrect`: `ReducedAsConfigured`, from `MergeReduces` about the grouping
  and the cap, and `Merged`, which says it of the call that has yet to count
  what it dropped.

* `ExpandsNever`: `NeverExpands`. The invariant is `OutBounded`: the records of the
  calls that are counted in and not yet out, which are disjoint by `Conservation`,
  still fit between the two counters; grouping and the cap give no more than there
  were (`FewerGroups`).

For every set of listeners and addresses, all flow records, all thresholds and any
number of failures and restarts (`InventoryProofs`), from `InventoryAssumption`:

* `TypeCorrect`: `TypeOK`.
* `OnceCorrect` and `KnownCorrect`: `RegisteredOnce` and `KnownIsRegistered`, together
  inductive (`Registration`): only who marks an address inserts it, and a mark is
  left by an `INSERT` that has stored its row, is under way or has failed.
* `AccountingCorrect`: `EveryFlowAccounted`, from two inductive parts. `Ledger`: no
  flow is in two hands, and each part of a flow is in exactly one of `counted`,
  `missed` and `Ahead` (`PartMoves`). `Books`: rows and edges are the sums of what is
  counted (`TableStep`).
* `ScoreCorrect` and `CategoryCorrect`: `ScoreFitsRow` and `CategoryFitsRow`; a row
  changes by one flow at a time (`RowStep`), and the old category is kept only where
  it still fits.
* `SeenCorrect`: `SeenWithinOverlap`. `Overlap` says that a flow taken while another
  is in hand has it in `during`; with it the times of a row are never off by more.

For every set of addresses and flow records, all thresholds and sizes
(`DetectorProofs`), from `DetectorAssumption` and `NoWindowAssumption`:

* `TypeCorrect`: `TypeOK`.
* `BufferCorrect`: `BufferKeepsNewest`, inductive; `EmitNewest` is about one alert and
  `BufferedNewest` about the five that one flow may raise.
* `BreachCorrect`: `BreachOnce`. The strengthening `Peered` says that the known peers
  are the external sources of this run that have contacted the sensor network.

The rules that look back (`DetectorRuleProofs`), from these and, for the beacon, from
`RegularAssumption`, that its threshold is at most 11 (in the code it is 6):

* `ScanRule` and `LateralCorrect`: `ScanExact` and `LateralExact`, which speak of
  the whole log and not of windows. The invariant `Windowed` says what a window stands
  for: that of a source holds the ports and hosts of exactly the flows in `Since`, of
  this run, without a pause, not reported, and a source without one has been silent
  for longer than the window. It is inductive with the order of the log
  (`LogInOrder`); `TogetherGrows` says how the next flow continues `Together` or begins
  it anew.
* `ScanCorrect`: `ScanReported`, what of the rule's doc the code keeps. `ScanExact` is
  the rule the code has in its place, ports of any age included; `ScanReported`
  follows, as the ports within the window are among them (`WithinTogether`).
* `BeaconRule` and `BeaconCorrect`: `BeaconExact`, the rule the code has, in which
  regularity has no part, and `BeaconReported`, what of the doc it keeps. `Tracked`
  says that the times in a window are those of unreported flows, in order, and that
  none within the window is missing; what is trimmed may linger until the next flow,
  so the two need not be equal. The rest is that the regularity test always passes
  (`AlwaysRegular`): for `n` steps `n * Sum(d^2) <= n * S^2`, as squares of
  non-negative numbers add up to at most the square of their sum, and `n * S^2 - S^2
  <= 9 * S^2` for `n` up to ten. `SumsBound` shows it by the least counterexample
  (`NatMin`): an induction over numbers, not over data.

For every set of goroutines, all batches, every template, chunk size, sampling rate and
width of the counters (`FlowWireProofs`), from `FlowWireAssumption`, which asks nothing
of the times of a record but that they are natural numbers:

* `TypeCorrect`: `TypeOK`, with what is in datagrams (`WireType`).
* `SentCorrect`: `EveryRecordSent`. `Streams` follows each batch through both
  protocols: what its callback has sent is what `sent` says, in order, and what is
  through stays complete, or short of the write that failed, while other callbacks
  go on (`StreamsSend`, `StreamsFail`).
* `NumbersCorrect`: `NumbersCountFlows`, with `nfSeq` the count of all records encoded
  (`Numbers`, `CountAppend`).
* `DecodedCorrect`: `DecodedAsSent`. A datagram never changes (`Decodable`), so the
  rest is arithmetic: `TimeDecoded`, `CounterDecoded` and `PaddingDecoded`.
* `SampleCorrect`: `SampleEstimate`; `Sampled` says that the packets seen are the
  samples times the rate, plus the counter.

So every safety property of the passing runs is proved. Only model-checked are
`EventuallyReported`, `CollectorCatchesUp`, `AppearedIsRegistered` and
`EveryAlertAnswered`, liveness under fairness, which the prover cannot treat.

## 5. What is left

In this order:

1. A composition of the flow cache, the aggregator and the encoders, checked
   against a ledger of what reaches the collector.
2. The interval of a report (`Start` may be after `Last`, see the hazards), once a
   doc says what a consumer may expect of it.

## 6. Not modelled

Parsing of packets and of `/proc/stat`, the headers of sampled packets, datagrams
that are malformed, HTTP and JSON syntax, SQL as text. The queries of the collector
only read. The Influx writer keeps no state: it converts a record to a point and
writes it. The generator (traffic profiles, attacks, its flow exporter, its failure
manager) and the field device simulate an environment for demonstrations; what the
agent sees of them are packets and answers, which the models let be any. The race in
the failure manager and the wrap of the field device's drift are in the list of
hazards. The server, router and switch containers answer HTTP requests and set up
forwarding; dashboards and deployment are configuration.

`Stats` of the aggregator loads its counters one by one, so what it shows need not be
of one moment; it changes nothing and is left out. TCP flags, ToS, MAC addresses and
sizes are payload. Packets dropped by the kernel while the capture channel, or a
listener that waits for the database, is busy are not seen by the program.
