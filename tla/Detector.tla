------------------------------ MODULE Detector ------------------------------
(***************************************************************************)
(* The anomaly detector of the collector (collector/anomaly): Observe, one *)
(* flow record at a time under its lock, with the five rules; the buffer   *)
(* of recent alerts; and the goroutine started for each alert, which       *)
(* stores it (cmdb.PersistAlert) and answers it (collector/responder).     *)
(*                                                                         *)
(* log is what the detector was given, with the time of each flow record:  *)
(* what the rules report is stated over it.                                *)
(***************************************************************************)
EXTENDS Integers, Sequences, FiniteSets

CONSTANTS
  Addresses,    \* the addresses in flow records
  NoAddress,    \* ""
  AnyAddress,   \* 0.0.0.0, which a flow may go to but not come from
  Private,      \* those of the private ranges
  SensorNet,    \* those of 10.0.2.
  FlowRecords,  \* what the parsers decode
  ScanPorts, LateralHosts, BeaconFlows,   \* the thresholds: 30, 8 and 6
  Window,       \* windowDuration
  MaxAlerts,    \* 500
  NoWindow,     \* an address without a window
  Slow,         \* the alerts whose goroutine may hang for ever
  Failing,      \* those whose INSERT and whose POST may fail
  MaxLog, MaxTime, MaxRunning, MaxRestarts   \* bounds of the search

FlowRecord == [src : Addresses \cup {NoAddress}, dst : Addresses \cup {NoAddress},
               port : Nat, big : BOOLEAN, smallUdp : BOOLEAN]

\* big: 5 MB or more. smallUdp: UDP, less than 1500 bytes.
ASSUME DetectorAssumption ==
  /\ NoAddress \notin Addresses /\ AnyAddress \in Addresses
  /\ SensorNet \subseteq Private /\ Private \subseteq Addresses
  /\ FlowRecords \subseteq FlowRecord
  /\ ScanPorts \in Nat \ {0} /\ LateralHosts \in Nat \ {0}
  /\ BeaconFlows \in Nat /\ BeaconFlows > 2
  /\ Window \in Nat
  /\ MaxAlerts \in Nat /\ MaxAlerts >= 4

\* Up to ten intervals are always regular: see Regular.
ASSUME RegularAssumption == BeaconFlows <= 11

Types == {"PORT_SCAN", "LATERAL_MOVEMENT", "DATA_EXFILTRATION", "SENSOR_NET_BREACH",
          "RADIO_BEACON"}

\* Those the responder answers by a POST to the agent; the other it only logs.
Posts == Types \ {"RADIO_BEACON"}

Alert == [type : Types, src : Addresses, dst : Addresses, at : Nat]

\* last: when its source was last seen. ports, ips: those contacted.
\* times: of the small UDP flows to each address.
IpWindow == [last : Nat, ips : SUBSET Addresses, ports : SUBSET (Nat \ {0}),
             times : [Addresses -> Seq(Nat)]]
ASSUME NoWindowAssumption == NoWindow \notin IpWindow

\* Where the goroutine of an alert is. "failed": through, with a POST that failed.
Stages == {"persist", "respond", "done", "failed", "lost"}

VARIABLES
  now,        \* the clock
  windows,    \* d.windows
  peers,      \* d.knownSensorPeers
  alerts,     \* d.alerts
  callback,   \* where the goroutine of an alert is: see Stages
  stored,     \* the table alerts: positions in raised
  log,        \* history: the flow records, each with its time and the run it was seen in
  raised,     \* history: all alerts; at is the position in log that caused one
  first,      \* history: how many were raised before the process started
  restarts    \* how many there have been

vars == <<now, windows, peers, alerts, callback, stored, log, raised, first, restarts>>

Init ==
  /\ now = 0
  /\ windows = [a \in Addresses |-> NoWindow]
  /\ peers = {} /\ alerts = <<>> /\ callback = <<>> /\ stored = {}
  /\ log = <<>> /\ raised = <<>> /\ first = 0 /\ restarts = 0

-----------------------------------------------------------------------------
(* Windows.                                                                *)

Stale(w) == now - w.last > Window

Expired == [a \in Addresses |->
  IF windows[a] # NoWindow /\ Stale(windows[a]) THEN NoWindow ELSE windows[a]]

NewWindow == [last |-> now, ips |-> {}, ports |-> {}, times |-> [a \in Addresses |-> <<>>]]

\* Variant with a bug: a window is found again after any pause.
WindowKept(a) == IF windows[a] = NoWindow THEN NewWindow ELSE windows[a]

WindowOf(a) == IF Expired[a] = NoWindow THEN NewWindow ELSE Expired[a]

Ports(f) == WindowOf(f.src).ports \cup ({f.port} \ {0})
Hosts(f) == WindowOf(f.src).ips \cup {f.dst}

-----------------------------------------------------------------------------
(* The rules.                                                              *)

Scan(f) == Cardinality(Ports(f)) >= ScanPorts

\* Variant with a bug: external hosts count as well.
LateralAnywhere(f) == Cardinality(Hosts(f)) >= LateralHosts

Lateral(f) == Cardinality(Hosts(f) \cap Private) >= LateralHosts

Exfiltration(f) == f.big /\ f.dst \notin Private

Intrusion(f) == f.dst \in SensorNet /\ f.src \notin Private

Breach(f) == Intrusion(f) /\ f.src \notin peers

\* Variant with a bug: what is remembered is the device contacted.
PeersOfDevice(f) == IF Intrusion(f) THEN peers \cup {f.dst} ELSE peers

Peers(f) == IF Intrusion(f) THEN peers \cup {f.src} ELSE peers

Candidate(f) == f.src \in SensorNet /\ f.dst \notin Private /\ f.smallUdp

\* Variant with a bug: old times are kept.
TimesUntrimmed(f) == Append(WindowOf(f.src).times[f.dst], now)

\* The times are in order, so those before the cutoff are the first ones.
Times(f) ==
  LET times == Append(WindowOf(f.src).times[f.dst], now)
      old   == {i \in DOMAIN times : times[i] < now - Window}
  IN SubSeq(times, Cardinality(old) + 1, Len(times))

\* intervalCoeffVariation(times) <= beaconMaxIntervalJitter, over n intervals d
\* with the sum S: n * Sum(d^2) - S^2 <= 3^2 * S^2. With up to ten intervals it
\* always is, and with BeaconFlows = 6 there are five.
Regular(times) ==
  LET n == Len(times) - 1
      d == [i \in 1..n |-> times[i + 1] - times[i]]
      squares[i \in 0..n] == IF i = 0 THEN 0 ELSE squares[i - 1] + d[i] * d[i]
      S == times[n + 1] - times[1]
  IN n * squares[n] <= 10 * S * S

Beacon(f) == Candidate(f) /\ Len(Times(f)) >= BeaconFlows /\ Regular(Times(f))

\* Variant with a bug: the ports are kept when they have been reported.
ObservedKeepsPorts(f) ==
  [last  |-> now,
   ips   |-> IF Lateral(f) THEN {} ELSE Hosts(f),
   ports |-> Ports(f),
   times |-> IF ~Candidate(f) THEN WindowOf(f.src).times
             ELSE [WindowOf(f.src).times EXCEPT ![f.dst] = IF Beacon(f) THEN <<>> ELSE Times(f)]]

\* The window when the rules have been through: what was reported is reset.
Observed(f) ==
  [last  |-> now,
   ips   |-> IF Lateral(f) THEN {} ELSE Hosts(f),
   ports |-> IF Scan(f) THEN {} ELSE Ports(f),
   times |-> IF ~Candidate(f) THEN WindowOf(f.src).times
             ELSE [WindowOf(f.src).times EXCEPT ![f.dst] = IF Beacon(f) THEN <<>> ELSE Times(f)]]

-----------------------------------------------------------------------------
(* Alerts.                                                                 *)

\* Variant with a bug: the newest quarter is discarded.
RoomOfNewest(buffer) ==
  IF Len(buffer) >= MaxAlerts THEN SubSeq(buffer, 1, Len(buffer) - MaxAlerts \div 4) ELSE buffer

\* The oldest quarter is discarded when the buffer is full.
Room(buffer) ==
  IF Len(buffer) >= MaxAlerts THEN SubSeq(buffer, MaxAlerts \div 4 + 1, Len(buffer)) ELSE buffer

Emit(buffer, fires, a) == IF fires THEN Append(Room(buffer), a) ELSE buffer

AlertOf(f, type) == [type |-> type, src |-> f.src, dst |-> f.dst, at |-> Len(log) + 1]

When(fires, a) == IF fires THEN <<a>> ELSE <<>>

\* The five calls of emit, in the order of the rules.
Emitted(f) ==
  When(Scan(f), AlertOf(f, "PORT_SCAN")) \o When(Lateral(f), AlertOf(f, "LATERAL_MOVEMENT"))
    \o When(Exfiltration(f), AlertOf(f, "DATA_EXFILTRATION"))
    \o When(Breach(f), AlertOf(f, "SENSOR_NET_BREACH"))
    \o When(Beacon(f), AlertOf(f, "RADIO_BEACON"))

Buffered(f) ==
  LET b1 == Emit(alerts, Scan(f), AlertOf(f, "PORT_SCAN"))
      b2 == Emit(b1, Lateral(f), AlertOf(f, "LATERAL_MOVEMENT"))
      b3 == Emit(b2, Exfiltration(f), AlertOf(f, "DATA_EXFILTRATION"))
      b4 == Emit(b3, Breach(f), AlertOf(f, "SENSOR_NET_BREACH"))
  IN Emit(b4, Beacon(f), AlertOf(f, "RADIO_BEACON"))

Ignored(f) == f.src \in {NoAddress, AnyAddress} \/ f.dst = NoAddress

Running == {i \in DOMAIN callback : callback[i] \in {"persist", "respond"}}

Observe(f) ==
  /\ Len(log) < MaxLog /\ Cardinality(Running) < MaxRunning
  /\ ~Ignored(f)
  /\ windows' = [Expired EXCEPT ![f.src] = Observed(f)]
  /\ peers' = Peers(f)
  /\ alerts' = Buffered(f)
  /\ raised' = raised \o Emitted(f)
  /\ callback' = callback \o [i \in 1..Len(Emitted(f)) |-> "persist"]
  /\ log' = Append(log, [flow |-> f, time |-> now, run |-> restarts])
  /\ UNCHANGED <<now, stored, first, restarts>>

ObserveIgnored(f) == Ignored(f) /\ UNCHANGED vars

\* The goroutine of an alert: PersistAlert, with an error that is only logged.
Persist(i) ==
  /\ callback[i] = "persist"
  /\ callback' = [callback EXCEPT ![i] = "respond"]
  /\ stored' = stored \cup {i}
  /\ UNCHANGED <<now, windows, peers, alerts, log, raised, first, restarts>>

\* Variant with a bug: the goroutine returns when it cannot store the alert.
PersistFailsReturns(i) ==
  /\ callback[i] = "persist" /\ i \in Failing
  /\ callback' = [callback EXCEPT ![i] = "lost"]
  /\ UNCHANGED <<now, windows, peers, alerts, stored, log, raised, first, restarts>>

PersistFails(i) ==
  /\ callback[i] = "persist" /\ i \in Failing
  /\ callback' = [callback EXCEPT ![i] = "respond"]
  /\ UNCHANGED <<now, windows, peers, alerts, stored, log, raised, first, restarts>>

\* OnAlert: the POST to the agent, or the log line, and the goroutine ends.
Respond(i) ==
  /\ callback[i] = "respond"
  /\ callback' = [callback EXCEPT ![i] = "done"]
  /\ UNCHANGED <<now, windows, peers, alerts, stored, log, raised, first, restarts>>

\* postJSON logs the error of a POST, and does not try again.
RespondFails(i) ==
  /\ callback[i] = "respond" /\ raised[i].type \in Posts /\ i \in Failing
  /\ callback' = [callback EXCEPT ![i] = "failed"]
  /\ UNCHANGED <<now, windows, peers, alerts, stored, log, raised, first, restarts>>

-----------------------------------------------------------------------------

Tick ==
  /\ now < MaxTime
  /\ now' = now + 1
  /\ UNCHANGED <<windows, peers, alerts, callback, stored, log, raised, first, restarts>>

\* The collector dies and starts again: NewDetector.
Restart ==
  /\ restarts < MaxRestarts
  /\ restarts' = restarts + 1
  /\ windows' = [a \in Addresses |-> NoWindow]
  /\ peers' = {} /\ alerts' = <<>>
  /\ callback' = [i \in 1..Len(callback) |-> IF i \in Running THEN "lost" ELSE callback[i]]
  /\ first' = Len(raised)
  /\ UNCHANGED <<now, stored, log, raised>>

Callback(i) == Persist(i) \/ PersistFails(i) \/ Respond(i) \/ RespondFails(i)

Next ==
  \/ \E f \in FlowRecords : Observe(f) \/ ObserveIgnored(f)
  \/ \E i \in 1..Len(raised) : Callback(i)
  \/ Tick \/ Restart

Spec == Init /\ [][Next]_vars

\* Requests end after five seconds at most. A statement has no timeout: the
\* goroutines in Slow are the ones that may wait for theirs for ever.
FairSpec == Spec /\ WF_vars(\E i \in 1..Len(raised) : i \notin Slow /\ Callback(i))

-----------------------------------------------------------------------------
(* Properties.                                                             *)

TypeOK ==
  /\ now \in Nat /\ first \in 0..Len(raised) /\ restarts \in Nat
  /\ windows \in [Addresses -> IpWindow \cup {NoWindow}]
  /\ peers \subseteq Addresses \ Private
  /\ alerts \in Seq(Alert) /\ raised \in Seq(Alert)
  /\ callback \in Seq(Stages)
  /\ Len(callback) = Len(raised)
  /\ stored \subseteq DOMAIN raised
  /\ log \in Seq([flow : FlowRecord, time : Nat, run : Nat])
  /\ \A a \in Addresses : windows[a] # NoWindow => windows[a].last <= now

\* The buffer holds the newest alerts of this run of the process, in order, at
\* most MaxAlerts and, once there were enough, more than three quarters of that.
BufferKeepsNewest ==
  /\ Len(alerts) <= MaxAlerts
  /\ Len(alerts) <= Len(raised) - first
  /\ alerts = SubSeq(raised, Len(raised) - Len(alerts) + 1, Len(raised))
  /\ \/ Len(alerts) = Len(raised) - first
     \/ Len(alerts) > MaxAlerts - MaxAlerts \div 4

\* Positions in log: the flows of a source up to k, in one run of the process,
\* without a pause longer than the window, since the last alert of a type.
FlowsOf(s)    == {i \in DOMAIN log : log[i].flow.src = s}
Raised(t, s, k) == \E j \in DOMAIN raised : /\ raised[j].type = t /\ raised[j].src = s
                                           /\ raised[j].at = k

Unbroken(s, i, k) ==
  \A p \in FlowsOf(s) : i < p /\ p <= k =>
    \E q \in FlowsOf(s) : i <= q /\ q < p /\ log[p].time - log[q].time <= Window

Together(t, s, k) ==
  {i \in FlowsOf(s) : /\ i <= k /\ log[i].run = log[k].run /\ Unbroken(s, i, k)
                      /\ \A j \in i..(k - 1) : ~Raised(t, s, j)}

\* Those of them within the sliding window that ends with k.
Within(t, s, k) == {i \in Together(t, s, k) : log[k].time - log[i].time <= Window}

PortsOf(I) == {log[i].flow.port : i \in I} \ {0}

\* A source that contacts ScanPorts ports within the sliding window, since it was
\* last reported, is reported (anomaly.go:22-23); and none is that has not
\* contacted as many, after its last report and without a pause longer than the
\* window. Whether those lie within the window is another matter: ScanWithinWindow.
ScanReported ==
  \A k \in DOMAIN log :
    LET s == log[k].flow.src
    IN /\ Cardinality(PortsOf(Within("PORT_SCAN", s, k))) >= ScanPorts => Raised("PORT_SCAN", s, k)
       /\ Raised("PORT_SCAN", s, k) =>
            Cardinality(PortsOf(Together("PORT_SCAN", s, k))) >= ScanPorts

\* PORT_SCAN is raised for ports probed "within the sliding window" (anomaly.go:22-23,
\* 2, 91), and for those only. The code expires windows as a whole, by the time of the
\* last flow (anomaly.go:182-186), and breaks this.
ScanWithinWindow ==
  \A k \in DOMAIN log :
    LET s == log[k].flow.src
    IN Raised("PORT_SCAN", s, k) => Cardinality(PortsOf(Within("PORT_SCAN", s, k))) >= ScanPorts

\* LATERAL_MOVEMENT is raised exactly when a source has contacted LateralHosts
\* internal hosts since it was last reported, without a pause longer than the
\* window: this rule's doc names no window (anomaly.go:26-27).
LateralExact ==
  \A k \in DOMAIN log :
    LET s == log[k].flow.src
    IN Raised("LATERAL_MOVEMENT", s, k) <=>
         Cardinality({log[i].flow.dst : i \in Together("LATERAL_MOVEMENT", s, k)} \cap Private)
           >= LateralHosts

\* SENSOR_NET_BREACH is raised the first time an external source is seen to
\* contact the sensor network, and never again by the same process
\* (anomaly.go:33-34, 123-125).
BreachOnce ==
  \A k \in DOMAIN log :
    LET Into(i) == log[i].flow.dst \in SensorNet /\ log[i].flow.src \notin Private
    IN Raised("SENSOR_NET_BREACH", log[k].flow.src, k) <=>
         /\ Into(k)
         /\ \A i \in 1..(k - 1) : Into(i) /\ log[i].flow.src = log[k].flow.src =>
                                  log[i].run # log[k].run

\* The small UDP flows to one external peer within the window that ends with k,
\* since the last report of the pair.
Beacons(k) ==
  LET Alike(i) == /\ log[i].flow.src = log[k].flow.src /\ log[i].flow.dst = log[k].flow.dst
                  /\ log[i].flow.smallUdp
                  /\ log[i].run = log[k].run /\ log[k].time - log[i].time <= Window
      Reported(i) == \E j \in DOMAIN raised :
                       /\ raised[j].type = "RADIO_BEACON" /\ raised[j].at \in i..(k - 1)
                       /\ raised[j].src = log[k].flow.src /\ raised[j].dst = log[k].flow.dst
  IN {i \in 1..k : Alike(i) /\ ~Reported(i)}

\* One interval between each flow and the next.
Steady(B) ==
  \E d \in 0..Window : \A i, j \in B :
    i < j /\ (\A m \in B : m <= i \/ m >= j) => log[j].time - log[i].time = d

\* A sensor that sends BeaconFlows small UDP flows at equal intervals to one
\* external peer, within the window and since it was last reported, is reported
\* (anomaly.go:40-42); and none is that has not sent as many.
BeaconReported ==
  \A k \in DOMAIN log :
    LET f == log[k].flow
        Sent == /\ f.src \in SensorNet /\ f.dst \notin Private /\ f.smallUdp
                /\ Cardinality(Beacons(k)) >= BeaconFlows
    IN /\ Sent /\ Steady(Beacons(k)) => Raised("RADIO_BEACON", f.src, k)
       /\ Raised("RADIO_BEACON", f.src, k) => Sent

\* Flows at one moment and a last one after a gap.
BurstThenGap(B, k) == \A i \in B \ {k} : \A j \in B \ {k} :
                        log[i].time = log[j].time /\ log[i].time < log[k].time

\* RADIO_BEACON is raised for "very regular" flows (anomaly.go:40-42, 260-261),
\* never for rapid ones and one large gap, which anomaly_test.go:138-153 calls
\* irregular and expects above the limit of anomaly.go:85. The code breaks this.
BeaconRegular ==
  \A k \in DOMAIN log :
    Raised("RADIO_BEACON", log[k].flow.src, k) => ~BurstThenGap(Beacons(k), k)

\* The goroutine of every alert comes to its end, through the responder, whether
\* the alert could be stored or not (main.go:60-65), and whatever others wait for,
\* unless the process dies first. A POST that fails is not repeated.
EveryAlertAnswered ==
  []<>(\A i \in DOMAIN callback : callback[i] \in {"done", "failed"} \/ i <= first \/ i \in Slow)

=============================================================================
