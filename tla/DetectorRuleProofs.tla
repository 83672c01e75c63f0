------------------------- MODULE DetectorRuleProofs -------------------------
(***************************************************************************)
(* Proofs about the rules of Detector that look back over a window: what   *)
(* the windows hold is what the log says of the flows since the last       *)
(* report, for any addresses, flow records, thresholds and window.         *)
(***************************************************************************)
EXTENDS DetectorProofs, FunctionTheorems

-----------------------------------------------------------------------------
(* What a window stands for.                                               *)

\* The flows of a source in this run, without a pause longer than the window,
\* since its last alert of a type.
Since(t, s) ==
  {i \in FlowsOf(s) : /\ log[i].run = restarts /\ Unbroken(s, i, Len(log))
                      /\ \A j \in i..Len(log) : ~Raised(t, s, j)}

\* Time and runs go forward in the log.
LogInOrder ==
  /\ \A i \in DOMAIN log : log[i].time <= now /\ log[i].run \in 0..restarts
  /\ \A i, j \in DOMAIN log : i <= j => log[i].time <= log[j].time /\ log[i].run <= log[j].run

\* A window is of the last flow of its source, and holds what was not reported.
WindowOfLog(s) ==
  \E q \in FlowsOf(s) :
    /\ \A i \in FlowsOf(s) : i <= q
    /\ log[q].run = restarts /\ log[q].time = windows[s].last
    /\ windows[s].ports = {log[i].flow.port : i \in Since("PORT_SCAN", s)} \ {0}
    /\ windows[s].ips = {log[i].flow.dst : i \in Since("LATERAL_MOVEMENT", s)}

\* A source without one has no flow that a window would reach back to.
LongAgo(s) == \A i \in FlowsOf(s) : log[i].run = restarts => now - log[i].time > Window

Windowed ==
  /\ LogInOrder
  /\ \A s \in Addresses : IF windows[s] = NoWindow THEN LongAgo(s) ELSE WindowOfLog(s)

ScanAt(k) ==
  LET s == log[k].flow.src
  IN Raised("PORT_SCAN", s, k) <=>
       Cardinality({log[i].flow.port : i \in Together("PORT_SCAN", s, k)} \ {0}) >= ScanPorts

LateralAt(k) ==
  LET s == log[k].flow.src
  IN Raised("LATERAL_MOVEMENT", s, k) <=>
       Cardinality({log[i].flow.dst : i \in Together("LATERAL_MOVEMENT", s, k)} \cap Private)
         >= LateralHosts

-----------------------------------------------------------------------------
(* What a flow record changes.                                             *)

\* It is the next in the log, and its alerts are the rules' answers to it.
LEMMA LogGrows ==
  ASSUME Well, Peered, NEW f \in FlowRecords, Observe(f), NEW n, n = Len(log) + 1
  PROVE  /\ Len(log) \in Nat /\ n \in Nat /\ DOMAIN log = 1..Len(log)
         /\ DOMAIN log' = 1..n /\ Len(log') = n /\ restarts' = restarts /\ now' = now
         /\ \A i \in 1..Len(log) : log'[i] = log[i]
         /\ log'[n].flow = f /\ log'[n].time = now /\ log'[n].run = restarts
         /\ \A t, s : \A k \in 1..Len(log) : Raised(t, s, k)' <=> Raised(t, s, k)
         /\ \A t, s : Raised(t, s, n)' => s = f.src
         /\ Raised("PORT_SCAN", f.src, n)' <=> Scan(f)
         /\ Raised("LATERAL_MOVEMENT", f.src, n)' <=> Lateral(f)
         /\ Raised("RADIO_BEACON", f.src, n)' <=> Beacon(f)
<1>1. /\ TypeOK /\ ~Ignored(f) /\ raised \in Seq(Alert) /\ Emitted(f) \in Seq(Alert)
      /\ raised' = raised \o Emitted(f) /\ restarts' = restarts /\ now' = now
      /\ log' = Append(log, [flow |-> f, time |-> now, run |-> restarts])
  BY EmittedType DEF Well, Observe, TypeOK
<1>2. /\ Len(log) \in Nat /\ n \in Nat /\ DOMAIN log = 1..Len(log) /\ DOMAIN log' = 1..n
      /\ Len(log') = n /\ \A i \in 1..Len(log) : log'[i] = log[i]
      /\ log'[n].flow = f /\ log'[n].time = now /\ log'[n].run = restarts
  BY <1>1 DEF TypeOK
<1>3. Members(raised') = Members(raised) \cup Members(Emitted(f))
  BY <1>1, MembersOfConcat
<1>4. /\ \A a \in Members(Emitted(f)) : a.src = f.src /\ a.at = n
      /\ (\E a \in Members(Emitted(f)) : a.type = "PORT_SCAN") <=> Scan(f)
      /\ (\E a \in Members(Emitted(f)) : a.type = "LATERAL_MOVEMENT") <=> Lateral(f)
      /\ (\E a \in Members(Emitted(f)) : a.type = "RADIO_BEACON") <=> Beacon(f)
  BY <1>1, EmittedMembers
<1>5. \A a \in Members(raised) : a.at \in 1..Len(log)
  BY <1>2 DEF Peered
<1>6. \A t, s, k : Raised(t, s, k)' <=>
                     \E a \in Members(raised') : a.type = t /\ a.src = s /\ a.at = k
  BY DEF Raised, Members
<1>7. n \notin 1..Len(log)
  BY <1>2
<1>8. \A t, s : \A k \in 1..Len(log) : Raised(t, s, k)' <=> Raised(t, s, k)
  BY <1>3, <1>4, <1>6, <1>7, RaisedMembers
<1>9. \A t : Raised(t, f.src, n)' <=> \E a \in Members(Emitted(f)) : a.type = t
  BY <1>3, <1>4, <1>5, <1>6, <1>7
<1>10. \A t, s : Raised(t, s, n)' => s = f.src
  BY <1>3, <1>4, <1>5, <1>6, <1>7
<1> QED BY <1>1, <1>2, <1>4, <1>8, <1>9, <1>10

\* The flows of its source are one more, and what went before is as it was.
LEMMA FlowsGrow ==
  ASSUME Well, Peered, NEW f \in FlowRecords, Observe(f), NEW n, n = Len(log) + 1, NEW s
  PROVE  /\ FlowsOf(s) \subseteq 1..Len(log)
         /\ FlowsOf(s)' = IF s = f.src THEN FlowsOf(s) \cup {n} ELSE FlowsOf(s)
         /\ \A i, k \in 1..Len(log) : Unbroken(s, i, k)' <=> Unbroken(s, i, k)
         /\ s # f.src => \A i \in 1..Len(log) : Unbroken(s, i, n)' <=> Unbroken(s, i, Len(log))
         /\ s = f.src => \A i \in 1..Len(log) :
              Unbroken(s, i, n)' <=>
                /\ Unbroken(s, i, Len(log))
                /\ \E q \in FlowsOf(s) : i <= q /\ now - log[q].time <= Window
<1>1. /\ Len(log) \in Nat /\ n \in Nat /\ DOMAIN log = 1..Len(log) /\ DOMAIN log' = 1..n
      /\ \A i \in 1..Len(log) : log'[i] = log[i]
      /\ log'[n].flow = f /\ log'[n].time = now
  BY LogGrows
<1>2. FlowsOf(s) \subseteq 1..Len(log) /\ n \notin FlowsOf(s)
  BY <1>1 DEF FlowsOf
<1>3. FlowsOf(s)' = IF s = f.src THEN FlowsOf(s) \cup {n} ELSE FlowsOf(s)
  BY <1>1 DEF FlowsOf
<1> DEFINE F == FlowsOf(s)
           G == FlowsOf(s)'
           Near(p, i)  == \E q \in F : i <= q /\ q < p /\ log[p].time - log[q].time <= Window
           Near1(p, i) == \E q \in G : i <= q /\ q < p /\ log'[p].time - log'[q].time <= Window
<1>4. \A i, k : Unbroken(s, i, k)' <=> \A p \in G : i < p /\ p <= k => Near1(p, i)
  BY DEF Unbroken
<1>5. \A i, k : Unbroken(s, i, k) <=> \A p \in F : i < p /\ p <= k => Near(p, i)
  BY DEF Unbroken
<1>6. /\ F \subseteq 1..Len(log) /\ n \notin F /\ G \subseteq F \cup {n} /\ F \subseteq G
      /\ n \in G <=> s = f.src
  BY <1>2, <1>3
<1> HIDE DEF F, G
<1>7. ASSUME NEW p \in F, NEW i \in 1..Len(log) PROVE Near1(p, i) <=> Near(p, i)
  BY <1>1, <1>6
<1>8. ASSUME NEW i \in 1..Len(log)
      PROVE  Near1(n, i) <=> \E q \in F : i <= q /\ now - log[q].time <= Window
  <2>1. ASSUME NEW q \in G, i <= q, q < n, log'[n].time - log'[q].time <= Window
        PROVE  q \in F /\ now - log[q].time <= Window
    <3>1. q \in F
      BY <1>1, <1>6, <2>1
    <3> QED BY <1>1, <1>6, <2>1, <3>1
  <2>2. ASSUME NEW q \in F, i <= q, now - log[q].time <= Window
        PROVE  q \in G /\ q < n /\ log'[n].time - log'[q].time <= Window
    BY <1>1, <1>6, <2>2
  <2> QED BY <2>1, <2>2
<1> HIDE DEF Near, Near1
<1>9. ASSUME NEW i \in 1..Len(log), NEW k \in 1..Len(log)
      PROVE  Unbroken(s, i, k)' <=> Unbroken(s, i, k)
  <2>1. ~(n <= k)
    BY <1>1
  <2>2. \A p \in G : p <= k => p \in F
    BY <1>6, <2>1
  <2>3. \A p \in F : Near1(p, i) <=> Near(p, i)
    BY <1>7
  <2> QED BY <1>4, <1>5, <1>6, <2>2, <2>3
<1>10. ASSUME NEW i \in 1..Len(log)
       PROVE  Unbroken(s, i, n)' <=> Unbroken(s, i, Len(log)) /\ (s = f.src => Near1(n, i))
  <2>1. i < n /\ n <= n /\ \A p \in F : p <= n /\ p <= Len(log)
    BY <1>1, <1>6
  <2>2. Unbroken(s, i, n)' <=>
          (\A p \in F : i < p => Near1(p, i)) /\ (s = f.src => Near1(n, i))
    BY <1>4, <1>6, <2>1
  <2>3. Unbroken(s, i, Len(log)) <=> \A p \in F : i < p => Near1(p, i)
    BY <1>5, <1>7, <2>1
  <2> QED BY <2>2, <2>3
<1> QED BY <1>2, <1>3, <1>8, <1>9, <1>10 DEF F

\* Times and runs are numbers.
LEMMA LogType ==
  ASSUME Well, NEW i \in DOMAIN log
  PROVE  log[i].time \in Nat /\ log[i].run \in Nat /\ now \in Nat /\ restarts \in Nat /\ Window \in Nat
<1> DEFINE entries == [flow : FlowRecord, time : Nat, run : Nat]
<1>1. log \in Seq(entries)
  BY DEF Well, TypeOK
<1> HIDE DEF entries
<1>2. log[i] \in entries
  BY <1>1
<1> USE DEF entries
<1> QED BY <1>2, DetectorAssumption DEF Well, TypeOK

\* A source whose window has expired has been silent for longer than it.
LEMMA ExpiredLongAgo ==
  ASSUME Well, Windowed, NEW s \in Addresses, Expired[s] = NoWindow,
         NEW i \in FlowsOf(s), log[i].run = restarts
  PROVE  now - log[i].time > Window
<1>1. CASE windows[s] = NoWindow
  BY <1>1 DEF Windowed, LongAgo
<1>2. CASE windows[s] # NoWindow
  <2>1. now - windows[s].last > Window
    BY <1>2 DEF Expired, Stale
  <2>2. PICK q \in FlowsOf(s) : i <= q /\ log[q].time = windows[s].last
    BY <1>2 DEF Windowed, WindowOfLog
  <2>3. i \in DOMAIN log /\ q \in DOMAIN log
    BY DEF FlowsOf
  <2>4. log[i].time <= log[q].time
    BY <2>2, <2>3 DEF Windowed, LogInOrder
  <2>5. now \in Nat /\ log[i].time \in Nat /\ log[q].time \in Nat /\ Window \in Nat
    BY <2>3, LogType
  <2> QED BY <2>1, <2>2, <2>4, <2>5
<1> QED BY <1>1, <1>2

\* What belonged together at an earlier flow still does.
LEMMA TogetherKept ==
  ASSUME Well, Peered, NEW f \in FlowRecords, Observe(f), NEW t, NEW s, NEW k \in DOMAIN log
  PROVE  Together(t, s, k)' = Together(t, s, k)
<1>1. PICK n : n = Len(log) + 1
  OBVIOUS
<1>2. /\ Len(log) \in Nat /\ n \in Nat /\ DOMAIN log = 1..Len(log)
      /\ \A i \in 1..Len(log) : log'[i] = log[i]
      /\ \A j \in 1..Len(log) : Raised(t, s, j)' <=> Raised(t, s, j)
  BY <1>1, LogGrows
<1>3. /\ FlowsOf(s) \subseteq 1..Len(log) /\ FlowsOf(s)' \subseteq FlowsOf(s) \cup {n}
      /\ FlowsOf(s) \subseteq FlowsOf(s)'
      /\ \A i \in 1..Len(log) : Unbroken(s, i, k)' <=> Unbroken(s, i, k)
  BY <1>1, <1>2, FlowsGrow
<1>4. k \in 1..Len(log) /\ ~(n <= k)
  BY <1>1, <1>2
<1>5. \A i : i \in FlowsOf(s)' /\ i <= k <=> i \in FlowsOf(s) /\ i <= k
  BY <1>3, <1>4
<1>6. ASSUME NEW i \in FlowsOf(s), i <= k
      PROVE  /\ log'[i].run = log'[k].run <=> log[i].run = log[k].run
             /\ Unbroken(s, i, k)' <=> Unbroken(s, i, k)
             /\ (\A j \in i..(k - 1) : ~Raised(t, s, j)')
                  <=> \A j \in i..(k - 1) : ~Raised(t, s, j)
  <2>1. i \in 1..Len(log) /\ \A j \in i..(k - 1) : j \in 1..Len(log)
    BY <1>2, <1>3, <1>4
  <2> QED BY <1>2, <1>3, <1>4, <2>1
<1>7. Together(t, s, k)' =
        {i \in FlowsOf(s)' : /\ i <= k /\ log'[i].run = log'[k].run /\ Unbroken(s, i, k)'
                             /\ \A j \in i..(k - 1) : ~Raised(t, s, j)'}
  BY DEF Together
<1> QED BY <1>5, <1>6, <1>7 DEF Together

\* The flows that belong together with a new one are those since the last report,
\* unless its source has paused for longer than the window.
LEMMA TogetherGrows ==
  ASSUME Well, Peered, Windowed, NEW f \in FlowRecords, Observe(f), NEW n, n = Len(log) + 1,
         NEW t, NEW s \in Addresses, s = f.src
  PROVE  /\ Together(t, s, n)' =
              {n} \cup (IF Expired[s] = NoWindow THEN {} ELSE Since(t, s))
         /\ Raised(t, s, n)' => Since(t, s)' = {}
         /\ ~Raised(t, s, n)' => Since(t, s)' = Together(t, s, n)'
<1>1. /\ Len(log) \in Nat /\ n \in Nat /\ DOMAIN log = 1..Len(log) /\ DOMAIN log' = 1..n
      /\ Len(log') = n /\ restarts' = restarts
      /\ \A i \in 1..Len(log) : log'[i] = log[i]
      /\ log'[n].run = restarts
      /\ \A j \in 1..Len(log) : Raised(t, s, j)' <=> Raised(t, s, j)
  BY LogGrows
<1>2. /\ FlowsOf(s) \subseteq 1..Len(log) /\ FlowsOf(s)' = FlowsOf(s) \cup {n}
      /\ \A i \in 1..Len(log) :
           Unbroken(s, i, n)' <=> /\ Unbroken(s, i, Len(log))
                                  /\ \E q \in FlowsOf(s) : i <= q /\ now - log[q].time <= Window
  BY FlowsGrow
<1>3. n \in FlowsOf(s)' /\ Unbroken(s, n, n)' /\ \A i \in 1..Len(log) : i <= n /\ i # n
  <2>1. \A p \in FlowsOf(s)' : ~(n < p /\ p <= n)
    BY <1>1, <1>2
  <2>2. Unbroken(s, n, n)' <=> \A p \in FlowsOf(s)' : n < p /\ p <= n =>
          \E q \in FlowsOf(s)' : n <= q /\ q < p /\ log'[p].time - log'[q].time <= Window
    BY DEF Unbroken
  <2> QED BY <1>1, <1>2, <2>1, <2>2
<1> DEFINE New(i) == /\ i <= n /\ log'[i].run = log'[n].run /\ Unbroken(s, i, n)'
                     /\ \A j \in i..(n - 1) : ~Raised(t, s, j)'
           Old(i) == /\ log[i].run = restarts /\ Unbroken(s, i, Len(log))
                     /\ \A j \in i..Len(log) : ~Raised(t, s, j)
<1>4. Together(t, s, n)' = {i \in FlowsOf(s)' : New(i)}
  BY DEF Together
<1>5. Since(t, s) = {i \in FlowsOf(s) : Old(i)}
  BY DEF Since
<1>6. New(n)
  BY <1>1, <1>3
<1>7. ASSUME NEW i \in FlowsOf(s)
      PROVE  New(i) <=> Old(i) /\ \E q \in FlowsOf(s) : i <= q /\ now - log[q].time <= Window
  <2>1. i \in 1..Len(log) /\ n - 1 = Len(log) /\ \A j \in i..Len(log) : j \in 1..Len(log)
    BY <1>1, <1>2
  <2>2. i <= n /\ (log'[i].run = log'[n].run <=> log[i].run = restarts)
    BY <1>1, <1>3, <2>1
  <2>3. (\A j \in i..(n - 1) : ~Raised(t, s, j)') <=> \A j \in i..Len(log) : ~Raised(t, s, j)
    BY <1>1, <2>1
  <2> QED BY <1>2, <2>1, <2>2, <2>3
<1> HIDE DEF New, Old
<1>8. ASSUME Expired[s] = NoWindow PROVE Together(t, s, n)' = {n}
  <2>1. ASSUME NEW i \in FlowsOf(s), log[i].run = restarts PROVE now - log[i].time > Window
    BY <1>8, <2>1, ExpiredLongAgo
  <2>2. ASSUME NEW i \in FlowsOf(s) PROVE ~New(i)
    <3> SUFFICES ASSUME New(i) PROVE FALSE
      OBVIOUS
    <3>1. PICK q \in FlowsOf(s) : i <= q /\ now - log[q].time <= Window
      BY <1>7
    <3>2. log[i].run = restarts
      BY <1>7 DEF Old
    <3>3. log[q].run = restarts
      <4>1. log[i].run <= log[q].run /\ log[q].run \in 0..restarts
        BY <1>1, <1>2, <3>1 DEF Windowed, LogInOrder
      <4>2. restarts \in Nat
        BY DEF Well, TypeOK
      <4> QED BY <3>2, <4>1, <4>2
    <3>4. now - log[q].time > Window
      BY <2>1, <3>3
    <3>5. now \in Nat /\ log[q].time \in Nat /\ Window \in Nat
      BY <1>1, <1>2, LogType
    <3> QED BY <3>1, <3>4, <3>5
  <2> QED BY <1>2, <1>4, <1>6, <1>8, <2>2
<1>9. ASSUME Expired[s] # NoWindow PROVE Together(t, s, n)' = {n} \cup Since(t, s)
  <2>1. windows[s] # NoWindow /\ ~(now - windows[s].last > Window)
    BY <1>9 DEF Expired, Stale
  <2>2. PICK q \in FlowsOf(s) : log[q].time = windows[s].last /\ \A i \in FlowsOf(s) : i <= q
    BY <2>1 DEF Windowed, WindowOfLog
  <2>3. now - log[q].time <= Window
    <3>1. now \in Nat /\ log[q].time \in Nat /\ Window \in Nat
      BY <1>1, <1>2, LogType
    <3> QED BY <2>1, <2>2, <3>1
  <2>4. \A i \in FlowsOf(s) : New(i) <=> Old(i)
    BY <1>7, <2>2, <2>3
  <2> QED BY <1>2, <1>4, <1>5, <1>6, <1>9, <2>4
<1>10. Together(t, s, n)' = {n} \cup (IF Expired[s] = NoWindow THEN {} ELSE Since(t, s))
  BY <1>8, <1>9
<1>11. Since(t, s)' = IF Raised(t, s, n)' THEN {} ELSE Together(t, s, n)'
  <2>1. Since(t, s)' =
          {i \in FlowsOf(s)' : /\ log'[i].run = restarts' /\ Unbroken(s, i, n)'
                               /\ \A j \in i..n : ~Raised(t, s, j)'}
    BY <1>1 DEF Since
  <2>2. \A i \in FlowsOf(s)' : i <= n /\ i \in Nat
    BY <1>1, <1>2
  <2>3. ASSUME NEW i \in FlowsOf(s)'
        PROVE  (/\ log'[i].run = restarts' /\ Unbroken(s, i, n)'
                /\ \A j \in i..n : ~Raised(t, s, j)')
                 <=> New(i) /\ ~Raised(t, s, n)'
    <3>1. i <= n /\ i..n = i..(n - 1) \cup {n}
      BY <1>1, <2>2
    <3> QED BY <1>1, <3>1 DEF New
  <2> QED BY <1>4, <2>1, <2>3
<1> QED BY <1>10, <1>11

\* Nothing changes for the other sources.
LEMMA SinceKept ==
  ASSUME Well, Peered, NEW f \in FlowRecords, Observe(f), NEW t, NEW s, s # f.src
  PROVE  Since(t, s)' = Since(t, s) /\ FlowsOf(s)' = FlowsOf(s)
<1>1. PICK n : n = Len(log) + 1
  OBVIOUS
<1>2. /\ Len(log) \in Nat /\ n \in Nat /\ DOMAIN log = 1..Len(log) /\ Len(log') = n
      /\ restarts' = restarts /\ \A i \in 1..Len(log) : log'[i] = log[i]
      /\ \A j \in 1..Len(log) : Raised(t, s, j)' <=> Raised(t, s, j)
      /\ ~Raised(t, s, n)'
  BY <1>1, LogGrows
<1>3. /\ FlowsOf(s) \subseteq 1..Len(log) /\ FlowsOf(s)' = FlowsOf(s)
      /\ \A i \in 1..Len(log) : Unbroken(s, i, n)' <=> Unbroken(s, i, Len(log))
  BY <1>1, FlowsGrow
<1>4. Since(t, s)' =
        {i \in FlowsOf(s) : /\ log'[i].run = restarts /\ Unbroken(s, i, n)'
                            /\ \A j \in i..n : ~Raised(t, s, j)'}
  BY <1>2, <1>3 DEF Since
<1>5. ASSUME NEW i \in FlowsOf(s)
      PROVE  /\ log'[i].run = log[i].run /\ (Unbroken(s, i, n)' <=> Unbroken(s, i, Len(log)))
             /\ (\A j \in i..n : ~Raised(t, s, j)') <=> \A j \in i..Len(log) : ~Raised(t, s, j)
  <2>1. i \in 1..Len(log) /\ i..n = i..Len(log) \cup {n} /\ i..Len(log) \subseteq 1..Len(log)
    BY <1>1, <1>2, <1>3
  <2> QED BY <1>2, <1>3, <2>1
<1> QED BY <1>3, <1>4, <1>5 DEF Since

-----------------------------------------------------------------------------
(* Port scans and lateral movement.                                        *)

\* The window that a flow record is added to holds what belongs together with it.
LEMMA WindowGrows ==
  ASSUME Well, Peered, Windowed, NEW f \in FlowRecords, Observe(f), NEW n, n = Len(log) + 1,
         NEW s \in Addresses, s = f.src
  PROVE  /\ Ports(f) = {log'[i].flow.port : i \in Together("PORT_SCAN", s, n)'} \ {0}
         /\ Hosts(f) = {log'[i].flow.dst : i \in Together("LATERAL_MOVEMENT", s, n)'}
<1>1. /\ Len(log) \in Nat /\ n \in Nat /\ DOMAIN log = 1..Len(log)
      /\ \A i \in 1..Len(log) : log'[i] = log[i]
      /\ log'[n].flow = f
  BY LogGrows
<1>2. \A t : Since(t, s) \subseteq 1..Len(log)
  BY <1>1 DEF Since, FlowsOf
<1>3. \A t : Together(t, s, n)' =
               {n} \cup (IF Expired[s] = NoWindow THEN {} ELSE Since(t, s))
  BY TogetherGrows
<1>4. CASE Expired[s] = NoWindow
  <2>1. WindowOf(s).ports = {} /\ WindowOf(s).ips = {}
    BY <1>4 DEF WindowOf, NewWindow
  <2>2. \A t : Together(t, s, n)' = {n}
    BY <1>3, <1>4
  <2> QED BY <1>1, <2>1, <2>2 DEF Ports, Hosts
<1>5. CASE Expired[s] # NoWindow
  <2>1. WindowOf(s) = windows[s] /\ windows[s] # NoWindow
    BY <1>5 DEF WindowOf, Expired
  <2>2. /\ windows[s].ports = {log[i].flow.port : i \in Since("PORT_SCAN", s)} \ {0}
        /\ windows[s].ips = {log[i].flow.dst : i \in Since("LATERAL_MOVEMENT", s)}
    BY <2>1 DEF Windowed, WindowOfLog
  <2>3. \A t : Together(t, s, n)' = {n} \cup Since(t, s)
    BY <1>3, <1>5
  <2>4. \A t : \A i \in Since(t, s) : log'[i] = log[i]
    BY <1>1, <1>2
  <2>5. Ports(f) = {log'[i].flow.port : i \in Together("PORT_SCAN", s, n)'} \ {0}
    <3>1. Ports(f) = ({log[i].flow.port : i \in Since("PORT_SCAN", s)} \ {0}) \cup ({f.port} \ {0})
      BY <2>1, <2>2 DEF Ports
    <3>2. {log'[i].flow.port : i \in Together("PORT_SCAN", s, n)'}
            = {log[i].flow.port : i \in Since("PORT_SCAN", s)} \cup {f.port}
      BY <1>1, <2>3, <2>4
    <3> QED BY <3>1, <3>2
  <2>6. Hosts(f) = {log'[i].flow.dst : i \in Together("LATERAL_MOVEMENT", s, n)'}
    <3>1. Hosts(f) = {log[i].flow.dst : i \in Since("LATERAL_MOVEMENT", s)} \cup {f.dst}
      BY <2>1, <2>2 DEF Hosts
    <3>2. {log'[i].flow.dst : i \in Together("LATERAL_MOVEMENT", s, n)'}
            = {log[i].flow.dst : i \in Since("LATERAL_MOVEMENT", s)} \cup {f.dst}
      BY <1>1, <2>3, <2>4
    <3> QED BY <3>1, <3>2
  <2> QED BY <2>5, <2>6
<1> QED BY <1>4, <1>5

\* The log stays in order.
LEMMA OrderObserve ==
  ASSUME Well, Peered, LogInOrder, NEW f \in FlowRecords, Observe(f) PROVE LogInOrder'
<1>1. PICK n : n = Len(log) + 1
  OBVIOUS
<1>2. /\ Len(log) \in Nat /\ n \in Nat /\ DOMAIN log = 1..Len(log) /\ DOMAIN log' = 1..n
      /\ restarts' = restarts /\ now' = now
      /\ \A i \in 1..Len(log) : log'[i] = log[i]
      /\ log'[n].time = now /\ log'[n].run = restarts
  BY <1>1, LogGrows
<1>3. \A i \in 1..Len(log) : /\ log[i].time <= now /\ log[i].run \in 0..restarts
                             /\ log[i].time \in Nat /\ log[i].run \in Nat
  BY <1>2, LogType DEF LogInOrder
<1>4. now \in Nat /\ restarts \in Nat
  BY DEF Well, TypeOK
<1>5. \A i \in DOMAIN log' : log'[i].time <= now' /\ log'[i].run \in 0..restarts'
  BY <1>1, <1>2, <1>3, <1>4
<1>6. ASSUME NEW i \in DOMAIN log', NEW j \in DOMAIN log', i <= j
      PROVE  log'[i].time <= log'[j].time /\ log'[i].run <= log'[j].run
  <2>1. CASE j = n
    BY <1>2, <1>4, <1>5, <2>1
  <2>2. CASE j # n
    <3>1. i \in 1..Len(log) /\ j \in 1..Len(log)
      BY <1>1, <1>2, <1>6, <2>2
    <3> QED BY <1>2, <1>6, <3>1 DEF LogInOrder
  <2> QED BY <2>1, <2>2
<1> QED BY <1>5, <1>6 DEF LogInOrder

\* The window is again that of the log when the rules have been through.
LEMMA WindowedObserve ==
  ASSUME Well, Peered, Windowed, NEW f \in FlowRecords, Observe(f) PROVE Windowed'
<1>1. PICK n : n = Len(log) + 1
  OBVIOUS
<1>2. PICK r \in Addresses : r = f.src
  BY RecordType DEF Observe
<1>3. /\ Len(log) \in Nat /\ n \in Nat /\ DOMAIN log = 1..Len(log) /\ DOMAIN log' = 1..n
      /\ restarts' = restarts /\ now' = now
      /\ \A i \in 1..Len(log) : log'[i] = log[i]
      /\ log'[n].flow = f /\ log'[n].time = now /\ log'[n].run = restarts
      /\ Raised("PORT_SCAN", f.src, n)' <=> Scan(f)
      /\ Raised("LATERAL_MOVEMENT", f.src, n)' <=> Lateral(f)
  BY <1>1, LogGrows
<1>4. LogInOrder'
  BY OrderObserve DEF Windowed
<1>5. /\ Expired \in [Addresses -> IpWindow \cup {NoWindow}]
      /\ Observed(f) \in IpWindow /\ windows' = [Expired EXCEPT ![f.src] = Observed(f)]
  BY <1>2, WindowType, ObservedType DEF Well, Observe
<1>6. ASSUME NEW s \in Addresses, s # r
      PROVE  IF windows'[s] = NoWindow THEN LongAgo(s)' ELSE WindowOfLog(s)'
  <2>1. windows'[s] = Expired[s]
    BY <1>2, <1>5, <1>6
  <2>2. /\ FlowsOf(s)' = FlowsOf(s) /\ FlowsOf(s) \subseteq 1..Len(log)
        /\ \A t : Since(t, s)' = Since(t, s) /\ Since(t, s) \subseteq 1..Len(log)
    <3>1. ASSUME NEW t PROVE FlowsOf(s)' = FlowsOf(s) /\ Since(t, s)' = Since(t, s)
      BY <1>2, <1>6, SinceKept
    <3>2. FlowsOf(s) \subseteq 1..Len(log) /\ \A t : Since(t, s) \subseteq FlowsOf(s)
      BY <1>3 DEF FlowsOf, Since
    <3> QED BY <3>1, <3>2
  <2>3. CASE Expired[s] = NoWindow
    <3>1. ASSUME NEW i \in FlowsOf(s), log[i].run = restarts PROVE now - log[i].time > Window
      BY <2>3, <3>1, ExpiredLongAgo
    <3>2. LongAgo(s)'
      BY <1>3, <2>2, <3>1 DEF LongAgo
    <3> QED BY <2>1, <2>3, <3>2
  <2>4. CASE Expired[s] # NoWindow
    <3>1. windows'[s] = windows[s] /\ windows[s] # NoWindow
      BY <2>1, <2>4 DEF Expired
    <3>2. PICK q \in FlowsOf(s) :
            /\ \A i \in FlowsOf(s) : i <= q
            /\ log[q].run = restarts /\ log[q].time = windows[s].last
            /\ windows[s].ports = {log[i].flow.port : i \in Since("PORT_SCAN", s)} \ {0}
            /\ windows[s].ips = {log[i].flow.dst : i \in Since("LATERAL_MOVEMENT", s)}
      BY <3>1 DEF Windowed, WindowOfLog
    <3>3. /\ {log'[i].flow.port : i \in Since("PORT_SCAN", s)}
               = {log[i].flow.port : i \in Since("PORT_SCAN", s)}
          /\ {log'[i].flow.dst : i \in Since("LATERAL_MOVEMENT", s)}
               = {log[i].flow.dst : i \in Since("LATERAL_MOVEMENT", s)}
      BY <1>3, <2>2
    <3>4. /\ q \in FlowsOf(s)' /\ \A i \in FlowsOf(s)' : i <= q
          /\ log'[q].run = restarts' /\ log'[q].time = windows'[s].last
          /\ windows'[s].ports = {log'[i].flow.port : i \in Since("PORT_SCAN", s)'} \ {0}
          /\ windows'[s].ips = {log'[i].flow.dst : i \in Since("LATERAL_MOVEMENT", s)'}
      BY <1>3, <2>2, <3>1, <3>2, <3>3
    <3>5. WindowOfLog(s)'
      BY <3>4 DEF WindowOfLog
    <3> QED BY <3>1, <3>5
  <2> QED BY <2>3, <2>4
<1>7. windows'[r] # NoWindow /\ WindowOfLog(r)'
  <2>1. windows'[r] = Observed(f) /\ windows'[r] # NoWindow
    BY <1>2, <1>5, NoWindowAssumption
  <2>2. n \in FlowsOf(r)' /\ \A i \in FlowsOf(r)' : i <= n
    <3>1. FlowsOf(r)' = {i \in DOMAIN log' : log'[i].flow.src = r}
      BY DEF FlowsOf
    <3> QED BY <1>1, <1>2, <1>3, <3>1
  <2>3. ASSUME NEW t
        PROVE  Since(t, r)' = IF Raised(t, r, n)' THEN {} ELSE Together(t, r, n)'
    BY <1>1, <1>2, TogetherGrows
  <2>4. /\ Ports(f) = {log'[i].flow.port : i \in Together("PORT_SCAN", r, n)'} \ {0}
        /\ Hosts(f) = {log'[i].flow.dst : i \in Together("LATERAL_MOVEMENT", r, n)'}
    BY <1>1, <1>2, WindowGrows
  <2>5. /\ Observed(f).last = now
        /\ Observed(f).ports = IF Scan(f) THEN {} ELSE Ports(f)
        /\ Observed(f).ips = IF Lateral(f) THEN {} ELSE Hosts(f)
    BY DEF Observed
  <2>6. windows'[r].ports = {log'[i].flow.port : i \in Since("PORT_SCAN", r)'} \ {0}
    BY <1>2, <1>3, <2>1, <2>3, <2>4, <2>5
  <2>7. windows'[r].ips = {log'[i].flow.dst : i \in Since("LATERAL_MOVEMENT", r)'}
    BY <1>2, <1>3, <2>1, <2>3, <2>4, <2>5
  <2> QED BY <1>3, <2>1, <2>2, <2>5, <2>6, <2>7 DEF WindowOfLog
<1> QED BY <1>4, <1>6, <1>7 DEF Windowed

\* The alerts are those of the flows that belong together, at every flow.
Reports == \A k \in DOMAIN log : ScanAt(k) /\ LateralAt(k)

LEMMA ReportsObserve ==
  ASSUME Well, Peered, Windowed, Reports, NEW f \in FlowRecords, Observe(f) PROVE Reports'
<1>1. PICK n : n = Len(log) + 1
  OBVIOUS
<1>2. PICK r \in Addresses : r = f.src
  BY RecordType DEF Observe
<1>3. /\ Len(log) \in Nat /\ n \in Nat /\ DOMAIN log = 1..Len(log) /\ DOMAIN log' = 1..n
      /\ \A i \in 1..Len(log) : log'[i] = log[i]
      /\ log'[n].flow = f
      /\ Raised("PORT_SCAN", f.src, n)' <=> Scan(f)
      /\ Raised("LATERAL_MOVEMENT", f.src, n)' <=> Lateral(f)
      /\ \A t, s : \A k \in 1..Len(log) : Raised(t, s, k)' <=> Raised(t, s, k)
  BY <1>1, LogGrows
<1>4. ASSUME NEW k \in 1..Len(log) PROVE ScanAt(k)' /\ LateralAt(k)'
  <2>1. PICK s : s = log[k].flow.src
    OBVIOUS
  <2>2. log'[k].flow.src = s /\ k \in DOMAIN log
    BY <1>3, <2>1
  <2>3. \A t : Together(t, s, k)' = Together(t, s, k)
    BY <2>2, TogetherKept
  <2>4. \A t : Together(t, s, k) \subseteq 1..Len(log)
    BY <1>3 DEF Together, FlowsOf
  <2>5. /\ {log'[i].flow.port : i \in Together("PORT_SCAN", s, k)'}
             = {log[i].flow.port : i \in Together("PORT_SCAN", s, k)}
        /\ {log'[i].flow.dst : i \in Together("LATERAL_MOVEMENT", s, k)'}
             = {log[i].flow.dst : i \in Together("LATERAL_MOVEMENT", s, k)}
    BY <1>3, <2>3, <2>4
  <2>6. ScanAt(k) /\ LateralAt(k)
    BY <2>2 DEF Reports
  <2>7. /\ ScanAt(k)' <=>
             (Raised("PORT_SCAN", s, k)' <=>
                Cardinality({log'[i].flow.port : i \in Together("PORT_SCAN", s, k)'} \ {0})
                  >= ScanPorts)
        /\ LateralAt(k)' <=>
             (Raised("LATERAL_MOVEMENT", s, k)' <=>
                Cardinality({log'[i].flow.dst : i \in Together("LATERAL_MOVEMENT", s, k)'}
                              \cap Private) >= LateralHosts)
    BY <2>2 DEF ScanAt, LateralAt, Raised, Together, FlowsOf, Unbroken
  <2> QED BY <1>3, <2>1, <2>5, <2>6, <2>7 DEF ScanAt, LateralAt
<1>5. ScanAt(n)' /\ LateralAt(n)'
  <2>1. log'[n].flow.src = r
    BY <1>2, <1>3
  <2>2. /\ Ports(f) = {log'[i].flow.port : i \in Together("PORT_SCAN", r, n)'} \ {0}
        /\ Hosts(f) = {log'[i].flow.dst : i \in Together("LATERAL_MOVEMENT", r, n)'}
    BY <1>1, <1>2, WindowGrows
  <2>3. /\ ScanAt(n)' <=>
             (Raised("PORT_SCAN", r, n)' <=>
                Cardinality({log'[i].flow.port : i \in Together("PORT_SCAN", r, n)'} \ {0})
                  >= ScanPorts)
        /\ LateralAt(n)' <=>
             (Raised("LATERAL_MOVEMENT", r, n)' <=>
                Cardinality({log'[i].flow.dst : i \in Together("LATERAL_MOVEMENT", r, n)'}
                              \cap Private) >= LateralHosts)
    BY <2>1 DEF ScanAt, LateralAt, Raised, Together, FlowsOf, Unbroken
  <2> QED BY <1>2, <1>3, <2>2, <2>3 DEF Scan, Lateral
<1> QED BY <1>1, <1>3, <1>4, <1>5 DEF Reports

LEMMA RulesNext ==
  Well /\ Peered /\ Windowed /\ Reports /\ [Next]_vars => Windowed' /\ Reports'
<1> SUFFICES ASSUME Well, Peered, Windowed, Reports, [Next]_vars PROVE Windowed' /\ Reports'
  OBVIOUS
<1>1. ASSUME NEW f \in FlowRecords, Observe(f) PROVE Windowed' /\ Reports'
  BY <1>1, WindowedObserve, ReportsObserve
<1>2. ASSUME UNCHANGED <<log, raised>> PROVE Reports'
  <2>1. \A k \in DOMAIN log : (ScanAt(k)' <=> ScanAt(k)) /\ (LateralAt(k)' <=> LateralAt(k))
    BY <1>2 DEF ScanAt, LateralAt, Raised, Together, FlowsOf, Unbroken
  <2> QED BY <1>2, <2>1 DEF Reports
<1>3. ASSUME UNCHANGED <<log, raised, restarts, windows, now>> PROVE Windowed'
  <2>1. LogInOrder' <=> LogInOrder
    BY <1>3 DEF LogInOrder
  <2>2. \A s : FlowsOf(s)' = FlowsOf(s) /\ (LongAgo(s)' <=> LongAgo(s))
    BY <1>3 DEF FlowsOf, LongAgo
  <2>3. \A t, s : Since(t, s)' = Since(t, s)
    BY <1>3 DEF Since, FlowsOf, Unbroken, Raised
  <2>4. \A s : WindowOfLog(s)' <=> WindowOfLog(s)
    BY <1>3, <2>2, <2>3 DEF WindowOfLog
  <2> QED BY <1>3, <2>1, <2>2, <2>4 DEF Windowed
<1>4. ASSUME NEW i \in 1..Len(raised), Callback(i) PROVE Windowed' /\ Reports'
  BY <1>2, <1>3, <1>4 DEF Callback, Persist, PersistFails, Respond, RespondFails
<1>5. CASE UNCHANGED vars
  BY <1>2, <1>3, <1>5 DEF vars
<1>6. CASE Tick
  <2>1. now' = now + 1 /\ UNCHANGED <<windows, raised, log, restarts>>
    BY <1>6 DEF Tick
  <2>2. \A i \in DOMAIN log : log[i].time \in Nat /\ now \in Nat /\ Window \in Nat
    BY LogType
  <2>3. LogInOrder'
    BY <2>1, <2>2 DEF Windowed, LogInOrder
  <2>4. \A s : FlowsOf(s)' = FlowsOf(s) /\ FlowsOf(s) \subseteq DOMAIN log
    BY <2>1 DEF FlowsOf
  <2>5. \A s : LongAgo(s) => LongAgo(s)'
    BY <2>1, <2>2, <2>4 DEF LongAgo
  <2>6. \A t, s : Since(t, s)' = Since(t, s)
    BY <2>1 DEF Since, FlowsOf, Unbroken, Raised
  <2>7. \A s : WindowOfLog(s)' <=> WindowOfLog(s)
    BY <2>1, <2>4, <2>6 DEF WindowOfLog
  <2> QED BY <1>2, <2>1, <2>3, <2>5, <2>7 DEF Windowed
<1>7. CASE Restart
  <2>1. /\ restarts' = restarts + 1 /\ UNCHANGED <<now, raised, log>>
        /\ windows' = [a \in Addresses |-> NoWindow]
    BY <1>7 DEF Restart
  <2>2. restarts \in Nat /\ \A i \in DOMAIN log : log[i].run \in 0..restarts
    BY DEF Well, TypeOK, Windowed, LogInOrder
  <2>3. LogInOrder'
    BY <2>1, <2>2 DEF Windowed, LogInOrder
  <2>4. \A s : LongAgo(s)'
    BY <2>1, <2>2 DEF LongAgo, FlowsOf
  <2> QED BY <1>2, <2>1, <2>3, <2>4 DEF Windowed
<1> QED BY <1>1, <1>4, <1>5, <1>6, <1>7 DEF Next, ObserveIgnored

LEMMA RulesInit == Init => Windowed /\ Reports
BY DEF Init, Windowed, LogInOrder, LongAgo, FlowsOf, Reports

LEMMA RulesCorrect == Spec => [](Well /\ Breaches /\ Windowed /\ Reports)
BY WellInit, WellNext, BreachInit, BreachNext, RulesInit, RulesNext, PTL DEF Spec, Breaches

\* The rule for port scans as the code has it: PORT_SCAN is raised exactly when a
\* source has contacted ScanPorts ports, of any age, since it was last reported and
\* without a pause longer than the window. This is not the rule of its doc, which
\* says "within the sliding window" (anomaly.go:22-23): see ScanWithinWindow.
ScanExact ==
  \A k \in DOMAIN log :
    LET s == log[k].flow.src
    IN Raised("PORT_SCAN", s, k) <=>
         Cardinality(PortsOf(Together("PORT_SCAN", s, k))) >= ScanPorts

LEMMA ScanExactAlways == Spec => [](Well /\ ScanExact)
<1>1. Reports => ScanExact
  BY DEF Reports, ScanAt, ScanExact, PortsOf
<1> QED BY <1>1, RulesCorrect, PTL

\* For every threshold and window: a port scan is reported with exactly the flow that
\* brings the ports since the last report, without a pause, to the threshold.
THEOREM ScanRule == Spec => []ScanExact
BY ScanExactAlways, PTL

\* What lies within the window is not more than what is counted.
LEMMA WithinTogether ==
  ASSUME Well, NEW t, NEW s, NEW k \in DOMAIN log
  PROVE  /\ Cardinality(PortsOf(Within(t, s, k))) \in Nat
         /\ Cardinality(PortsOf(Together(t, s, k))) \in Nat
         /\ Cardinality(PortsOf(Within(t, s, k))) <= Cardinality(PortsOf(Together(t, s, k)))
<1> DEFINE T == Together(t, s, k)
           all == {log[i].flow.port : i \in T}
           F == [i \in T |-> log[i].flow.port]
<1>1. IsFiniteSet(T)
  <2>1. T \subseteq 1..Len(log) /\ Len(log) \in Nat
    BY DEF Together, FlowsOf, Well, TypeOK
  <2>2. IsFiniteSet(1..Len(log))
    BY <2>1, FS_Interval
  <2> HIDE DEF T
  <2> QED BY <2>1, <2>2, FS_Subset
<1>2. IsFiniteSet(all)
  <2>1. F \in Surjection(T, all)
    <3> HIDE DEF T
    <3> QED BY DEF Surjection
  <2> HIDE DEF T, F, all
  <2> QED BY <1>1, <2>1, FS_Surjection
<1>3. IsFiniteSet(PortsOf(T))
  BY <1>2, FS_Subset DEF PortsOf
<1>4. PortsOf(Within(t, s, k)) \subseteq PortsOf(T)
  BY DEF PortsOf, Within
<1> QED BY <1>3, <1>4, FS_Subset, FS_CardinalityType

\* For every threshold and window: a source that contacts as many ports as the
\* threshold within the sliding window, since its last report, is reported, and none
\* is for fewer ports than that.
THEOREM ScanCorrect == Spec => []ScanReported
<1>1. Well /\ ScanExact => ScanReported
  <2> SUFFICES ASSUME Well, ScanExact, NEW k \in DOMAIN log
               PROVE LET s == log[k].flow.src
                     IN /\ Cardinality(PortsOf(Within("PORT_SCAN", s, k))) >= ScanPorts
                             => Raised("PORT_SCAN", s, k)
                        /\ Raised("PORT_SCAN", s, k) =>
                             Cardinality(PortsOf(Together("PORT_SCAN", s, k))) >= ScanPorts
    BY DEF ScanReported
  <2> DEFINE s == log[k].flow.src
             within == Cardinality(PortsOf(Within("PORT_SCAN", s, k)))
             together == Cardinality(PortsOf(Together("PORT_SCAN", s, k)))
  <2>1. within \in Nat /\ together \in Nat /\ within <= together
    BY WithinTogether
  <2>2. Raised("PORT_SCAN", s, k) <=> together >= ScanPorts
    BY DEF ScanExact
  <2> HIDE DEF within, together
  <2>3. within >= ScanPorts => together >= ScanPorts
    BY <2>1, DetectorAssumption
  <2> QED BY <2>2, <2>3 DEF within, together
<1> QED BY <1>1, ScanExactAlways, PTL

\* And lateral movement with the flow that brings the internal hosts to it.
THEOREM LateralCorrect == Spec => []LateralExact
<1>1. Reports => LateralExact
  BY DEF Reports, LateralAt, LateralExact
<1> QED BY <1>1, RulesCorrect, PTL

-----------------------------------------------------------------------------
(* Counting and adding.                                                    *)

\* A set of natural numbers has a least one: how the lemmas below do induction.
LEMMA NatMin ==
  ASSUME NEW T, T \subseteq Nat, T # {} PROVE \E x \in T : \A y \in T : x <= y
<1>1. IsWellFoundedOn(OpToRel(<, Nat), Nat)
  BY NatLessThanWellFounded, Zenon
<1>2. PICK x \in T : \A y \in T : ~(<<y, x>> \in OpToRel(<, Nat))
  BY <1>1, WFMin, Zenon
<1>3. \A y \in T : ~(y < x)
  BY <1>2 DEF OpToRel
<1> QED BY <1>3

\* A set of positions that has all before any of its own is the first so many.
LEMMA FirstOnes ==
  ASSUME NEW m \in Nat, NEW S, S \subseteq 1..m, \A i \in S : \A j \in 1..i : j \in S
  PROVE  Cardinality(S) \in 0..m /\ S = 1..Cardinality(S)
<1> DEFINE T == (1..(m + 1)) \ S
<1>1. T \subseteq Nat /\ m + 1 \in T
  OBVIOUS
<1>2. PICK x \in T : \A y \in T : x <= y
  BY <1>1, NatMin
<1>3. \A i \in S : i < x
  BY <1>2
<1>4. \A i \in 1..(x - 1) : i \in S
  BY <1>2
<1>5. x \in 1..(m + 1) /\ S = 1..(x - 1)
  <2>1. x \in 1..(m + 1)
    OBVIOUS
  <2>2. \A i \in S : i \in 1..(x - 1)
    BY <1>3, <2>1
  <2> QED BY <1>4, <2>1, <2>2
<1>6. Cardinality(1..(x - 1)) = x - 1
  BY <1>5, FS_Interval
<1> QED BY <1>5, <1>6

\* g adds up the squares of d.
SumsUp(g, d, n) == g = [i \in 0..n |-> IF i = 0 THEN 0 ELSE g[i - 1] + d[i] * d[i]]

LEMMA SumsExist ==
  ASSUME NEW n \in Nat, NEW d \in [1..n -> Int] PROVE \E g : SumsUp(g, d, n)
<1> SUFFICES ASSUME ~\E g : SumsUp(g, d, n) PROVE FALSE
  OBVIOUS
<1> DEFINE Bad == {m \in 0..n : ~\E g : SumsUp(g, d, m)}
<1>1. Bad \subseteq Nat /\ n \in Bad
  OBVIOUS
<1>2. PICK x \in Bad : \A y \in Bad : x <= y
  BY <1>1, NatMin
<1>3. SumsUp([i \in 0..0 |-> 0], d, 0)
  BY DEF SumsUp
<1>4. x # 0 /\ x \in 1..n /\ x - 1 \in 0..n /\ ~(x <= x - 1)
  BY <1>2, <1>3
<1>5. PICK g : SumsUp(g, d, x - 1)
  BY <1>2, <1>4
<1> DEFINE h == [i \in 0..x |-> IF i = x THEN g[x - 1] + d[x] * d[x] ELSE g[i]]
<1>6. \A i \in 0..(x - 1) : g[i] = IF i = 0 THEN 0 ELSE g[i - 1] + d[i] * d[i]
  BY <1>5 DEF SumsUp
<1>7. \A i \in 0..x : h[i] = IF i = 0 THEN 0 ELSE h[i - 1] + d[i] * d[i]
  BY <1>4, <1>6
<1>8. h = [i \in 0..x |-> IF i = 0 THEN 0 ELSE h[i - 1] + d[i] * d[i]]
  BY <1>7
<1> HIDE DEF h
<1>9. SumsUp(h, d, x)
  BY <1>8 DEF SumsUp
<1> QED BY <1>2, <1>9

LEMMA SquareOfSum ==
  ASSUME NEW a \in Nat, NEW b \in Nat PROVE a * a + b * b <= (a + b) * (a + b)
<1>1. (a + b) * (a + b) = a * a + b * b + 2 * (a * b)
  OBVIOUS
<1>2. a * b \in Nat /\ a * a \in Nat /\ b * b \in Nat
  OBVIOUS
<1> QED BY <1>1, <1>2

\* The squares of the steps of a sequence add up to no more than that of the whole.
LEMMA SumsBound ==
  ASSUME NEW n \in Nat, NEW t \in Seq(Nat), Len(t) = n + 1,
         \A i \in 1..n : t[i] <= t[i + 1],
         NEW d, d = [i \in 1..n |-> t[i + 1] - t[i]], NEW g, SumsUp(g, d, n)
  PROVE  t[n + 1] - t[1] \in Nat /\ g[n] \in Nat /\ g[n] <= (t[n + 1] - t[1]) * (t[n + 1] - t[1])
<1>1. \A i \in 1..(n + 1) : t[i] \in Nat
  OBVIOUS
<1>2. g[0] = 0 /\ \A i \in 1..n : g[i] = g[i - 1] + d[i] * d[i]
  <2>1. \A i \in 0..n : g[i] = IF i = 0 THEN 0 ELSE g[i - 1] + d[i] * d[i]
    BY DEF SumsUp
  <2>2. 0 \in 0..n /\ \A i \in 1..n : i \in 0..n /\ i # 0
    OBVIOUS
  <2> QED BY <2>1, <2>2
<1> DEFINE Good(m) == /\ t[m + 1] - t[1] \in Nat /\ g[m] \in Nat
                      /\ g[m] <= (t[m + 1] - t[1]) * (t[m + 1] - t[1])
           Bad == {m \in 0..n : ~Good(m)}
<1>3. Good(0)
  <2>1. g[0] = 0 /\ t[1] \in Nat /\ t[0 + 1] - t[1] = 0
    <3>1. 1 \in 1..(n + 1) /\ 0 + 1 = 1
      OBVIOUS
    <3>2. t[1] \in Nat /\ t[0 + 1] = t[1]
      BY <1>1, <3>1
    <3>3. t[1] - t[1] = 0
      BY <3>2
    <3> QED BY <1>2, <3>2, <3>3
  <2> QED BY <1>2, <2>1
<1>4. ASSUME NEW x \in 1..n, Good(x - 1) PROVE Good(x)
  <2>1. t[x] \in Nat /\ t[x + 1] \in Nat /\ t[1] \in Nat /\ t[x] <= t[x + 1]
    BY <1>1
  <2>2. /\ t[x] - t[1] \in Nat /\ g[x - 1] \in Nat
        /\ g[x - 1] <= (t[x] - t[1]) * (t[x] - t[1])
    BY <1>4
  <2> HIDE DEF Good, Bad
  <2>3. PICK a \in Nat, b \in Nat : a = t[x] - t[1] /\ b = t[x + 1] - t[x]
    BY <2>1, <2>2
  <2>4. g[x] = g[x - 1] + b * b /\ t[x + 1] - t[1] = a + b
    <3>0. d[x] = b
      BY <2>3
    <3>1. g[x] = g[x - 1] + d[x] * d[x] /\ d[x] = b
      BY <1>2, <3>0
    <3>2. t[x + 1] - t[1] = a + b
      BY <2>1, <2>3
    <3> QED BY <3>1, <3>2
  <2>5. a * a + b * b <= (a + b) * (a + b) /\ b * b \in Nat /\ a * a \in Nat
        /\ (a + b) * (a + b) \in Nat
    <3>1. \A u, v \in Nat : u * v \in Nat /\ u + v \in Nat
      OBVIOUS
    <3> QED BY <3>1, SquareOfSum
  <2>6. PICK q \in Nat, aa \in Nat, bb \in Nat, ab \in Nat :
          q = g[x - 1] /\ aa = a * a /\ bb = b * b /\ ab = (a + b) * (a + b)
    BY <2>2, <2>5
  <2>7. q <= aa /\ aa + bb <= ab /\ g[x] = q + bb
    BY <2>2, <2>3, <2>4, <2>5, <2>6
  <2>8. g[x] \in Nat /\ g[x] <= ab
    BY <2>7
  <2>9. t[x + 1] - t[1] \in Nat
    <3>1. a + b \in Nat
      OBVIOUS
    <3> QED BY <2>4, <3>1
  <2> QED BY <2>4, <2>6, <2>8, <2>9 DEF Good
<1> SUFFICES Good(n)
  OBVIOUS
<1> HIDE DEF Good
<1> SUFFICES ASSUME n \in Bad PROVE FALSE
  OBVIOUS
<1>5. PICK x \in Bad : \A y \in Bad : x <= y
  <2>1. Bad \subseteq Nat
    OBVIOUS
  <2> HIDE DEF Bad
  <2> QED BY <2>1, NatMin
<1>6. x \in 1..n /\ x - 1 \in 0..n /\ ~(x <= x - 1)
  BY <1>3, <1>5
<1>7. Good(x - 1)
  BY <1>5, <1>6
<1> QED BY <1>4, <1>5, <1>6, <1>7

\* With up to ten intervals, flows are always regular.
LEMMA AlwaysRegular ==
  ASSUME NEW t \in Seq(Nat), Len(t) \in 1..11, \A i \in 1..(Len(t) - 1) : t[i] <= t[i + 1]
  PROVE  Regular(t)
<1> DEFINE n == Len(t) - 1
           d == [i \in 1..n |-> t[i + 1] - t[i]]
           sums == CHOOSE g : SumsUp(g, d, n)
           S == t[n + 1] - t[1]
<1>1. n \in 0..10 /\ Len(t) = n + 1 /\ \A i \in 1..n : t[i] <= t[i + 1]
  OBVIOUS
<1>2. d \in [1..n -> Int]
  <2>1. \A i \in 1..n : t[i] \in Nat /\ t[i + 1] \in Nat
    BY <1>1
  <2> QED BY <2>1
<1>3. SumsUp(sums, d, n)
  <2>1. n \in Nat
    BY <1>1
  <2> HIDE DEF n, d
  <2>2. \E g : SumsUp(g, d, n)
    BY <1>2, <2>1, SumsExist
  <2> QED BY <2>2
<1>4. S \in Nat /\ sums[n] \in Nat /\ sums[n] <= S * S
  <2>1. n \in Nat /\ d = [i \in 1..n |-> t[i + 1] - t[i]]
    BY <1>1
  <2> HIDE DEF n, d, sums
  <2> QED BY <1>1, <1>3, <2>1, SumsBound
<1> HIDE DEF n
<1>5. PICK r \in Nat, q \in Nat : r = S /\ q = sums[n]
  BY <1>4
<1>6. n * q <= 10 * r * r
  <2>1. n * q <= 10 * q
    BY <1>1
  <2>2. q <= r * r /\ r * r \in Nat /\ 10 * r * r = 10 * (r * r)
    BY <1>4, <1>5
  <2>3. 10 * q <= 10 * (r * r)
    BY <2>2
  <2> QED BY <1>1, <2>1, <2>2, <2>3
<1>7. n * sums[n] <= 10 * S * S
  BY <1>5, <1>6
<1> QED BY <1>7 DEF Regular, SumsUp, n

-----------------------------------------------------------------------------
(* Radio beacons.                                                          *)

PairReported(s, d, i, k) ==
  \E j \in DOMAIN raised : /\ raised[j].type = "RADIO_BEACON" /\ raised[j].at \in i..k
                           /\ raised[j].src = s /\ raised[j].dst = d

\* The small UDP flows of this run from a source to a destination, since they were
\* last reported.
Unreported(s, d) ==
  {i \in FlowsOf(s) : /\ log[i].flow.dst = d /\ log[i].flow.smallUdp
                      /\ log[i].run = restarts /\ ~PairReported(s, d, i, Len(log))}

\* P lists members of U in their order and T their times, none since w is missing.
Follows(P, T, U, time, w) ==
  /\ Len(P) = Len(T)
  /\ \A j \in 1..Len(T) : P[j] \in U /\ time[P[j]] = T[j]
  /\ \A j, l \in 1..Len(T) : j < l => P[j] < P[l]
  /\ \A i \in U : time[i] >= w => \E j \in 1..Len(T) : P[j] = i

TimeOf(U) == [i \in U |-> log[i].time]

\* T are the times of flows that were not reported, all in the window included.
Tracks(P, T, s, d) ==
  Follows(P, T, Unreported(s, d), TimeOf(Unreported(s, d)), now - Window)

\* What a window has kept of a destination.
TimesOf(s, d) == IF windows[s] = NoWindow THEN <<>> ELSE windows[s].times[d]

Tracked ==
  \A s \in SensorNet : \A d \in Addresses \ Private :
    /\ Len(TimesOf(s, d)) < BeaconFlows
    /\ \E P \in Seq(Nat) : Tracks(P, TimesOf(s, d), s, d)

BeaconAt(k) ==
  LET f == log[k].flow
  IN Raised("RADIO_BEACON", f.src, k) <=>
       /\ f.src \in SensorNet /\ f.dst \notin Private /\ f.smallUdp
       /\ Cardinality(Beacons(k)) >= BeaconFlows

LEMMA Suffix ==
  ASSUME NEW s \in Seq(Nat), NEW c \in 0..Len(s)
  PROVE  /\ SubSeq(s, c + 1, Len(s)) \in Seq(Nat)
         /\ Len(SubSeq(s, c + 1, Len(s))) = Len(s) - c
         /\ \A j \in 1..(Len(s) - c) : SubSeq(s, c + 1, Len(s))[j] = s[c + j]
<1>1. Len(s) \in Nat /\ c \in Nat /\ c + 1 \in 1..(Len(s) + 1)
  OBVIOUS
<1>2. PICK a \in Int, b \in Int : a = c + 1 /\ b = Len(s)
  BY <1>1
<1>3. \A j \in a..b : s[j] \in Nat
  BY <1>1, <1>2
<1>4. /\ SubSeq(s, a, b) \in Seq(Nat)
      /\ Len(SubSeq(s, a, b)) = IF a <= b THEN b - a + 1 ELSE 0
      /\ \A i \in 1..(b - a + 1) : SubSeq(s, a, b)[i] = s[a + i - 1]
  BY <1>3, SubSeqProperties
<1>5. b - a + 1 = Len(s) - c /\ (~(a <= b) => Len(s) - c = 0)
  BY <1>1, <1>2
<1>6. \A i \in 1..(Len(s) - c) : a + i - 1 = c + i
  BY <1>1, <1>2
<1> QED BY <1>2, <1>4, <1>5, <1>6

\* What is left of times T in order when those before w are dropped, as in Times.
Trimmed(T, w) == SubSeq(T, Cardinality({i \in DOMAIN T : T[i] < w}) + 1, Len(T))

Later(U, time, w) == {i \in U : time[i] >= w}
InOrder(U, time) == \A x, y \in U : x <= y => time[x] <= time[y]
Ordered(T) == \A i \in 1..(Len(T) - 1) : T[i] <= T[i + 1]

SuffixOf(q, s, c, k) == Len(s) = c + k /\ Len(q) = k /\ \A j \in 1..k : q[j] = s[c + j]
AllSince(T, w) == \A j \in 1..Len(T) : T[j] >= w
OldOnes(T, w, c) == \A j \in 1..Len(T) : T[j] < w <=> j <= c

\* The members since w are as many as their times.
LEMMA FollowsCount ==
  ASSUME NEW P \in Seq(Nat), NEW n \in Nat, NEW T, Len(T) = n, NEW U, NEW time, NEW w \in Int,
         Follows(P, T, U, time, w), AllSince(T, w)
  PROVE  Cardinality(Later(U, time, w)) = n
<1> DEFINE S == {i \in U : time[i] >= w}
           g == [j \in 1..n |-> P[j]]
<1>1. /\ \A j \in 1..n : P[j] \in S /\ P[j] \in Nat
      /\ \A j, l \in 1..n : j < l => P[j] < P[l]
      /\ \A i \in S : \E j \in 1..n : P[j] = i
  <2>1. Len(P) = n /\ \A j \in 1..n : P[j] \in U /\ time[P[j]] = T[j] /\ T[j] >= w
    BY DEF Follows, AllSince
  <2>2. /\ \A j, l \in 1..n : j < l => P[j] < P[l]
        /\ \A i \in S : \E j \in 1..n : P[j] = i
    BY DEF Follows
  <2> QED BY <2>1, <2>2
<1> HIDE DEF S
<1>2. g \in [1..n -> S]
  BY <1>1
<1>3. ASSUME NEW j \in 1..n, NEW l \in 1..n, j # l PROVE P[j] # P[l]
  <2>1. j < l \/ l < j
    BY <1>3
  <2>2. \A x, y \in Nat : x < y => x # y
    OBVIOUS
  <2> QED BY <1>1, <2>1, <2>2
<1>4. \A j, l \in 1..n : g[j] = g[l] => j = l
  BY <1>3
<1>5. \A i \in S : \E j \in 1..n : g[j] = i
  BY <1>1
<1> HIDE DEF g
<1>6. g \in Bijection(1..n, S)
  BY <1>2, <1>4, <1>5, Fun_IsBij
<1>7. IsFiniteSet(1..n) /\ Cardinality(1..n) = n
  <2>1. 1 \in Int /\ n \in Int
    OBVIOUS
  <2> QED BY <2>1, FS_Interval
<1>8. Cardinality(S) = n
  <2>1. ExistsBijection(1..n, S)
    BY <1>6 DEF ExistsBijection
  <2> QED BY <1>7, <2>1, FS_Bijection
<1> QED BY <1>8 DEF S, Later

\* Dropping the times before w keeps the members since.
LEMMA FollowsSuffix ==
  ASSUME NEW c \in Nat, NEW k \in Nat, NEW U, NEW time \in [U -> Nat], NEW w \in Int,
         NEW P, NEW T, Follows(P, T, U, time, w), OldOnes(T, w, c),
         NEW P2, NEW T2, SuffixOf(P2, P, c, k), SuffixOf(T2, T, c, k)
  PROVE  Follows(P2, T2, U, time, w) /\ AllSince(T2, w)
<1>1. /\ Len(P2) = k /\ Len(T2) = k /\ Len(T) = c + k /\ \A i \in U : time[i] \in Int
      /\ \A j \in 1..k : T2[j] = T[c + j] /\ P2[j] = P[c + j]
      /\ \A j \in 1..(c + k) : T[j] < w <=> j <= c
  BY DEF OldOnes, SuffixOf
<1>2. \A j \in 1..k : c + j \in 1..(c + k) /\ ~(c + j <= c)
  OBVIOUS
<1>3. /\ \A j \in 1..(c + k) : P[j] \in U /\ time[P[j]] = T[j]
      /\ \A j, l \in 1..(c + k) : j < l => P[j] < P[l]
      /\ \A i \in U : time[i] >= w => \E j \in 1..(c + k) : P[j] = i
  BY <1>1 DEF Follows
<1>4. \A j \in 1..k : P2[j] \in U /\ time[P2[j]] = T2[j] /\ T2[j] >= w
  <2>1. ASSUME NEW j \in 1..k PROVE P2[j] \in U /\ time[P2[j]] = T2[j] /\ T2[j] >= w
    <3>1. PICK l \in 1..(c + k) : l = c + j /\ ~(l <= c)
      BY <1>2
    <3>2. P2[j] = P[l] /\ T2[j] = T[l] /\ P[l] \in U /\ time[P[l]] = T[l] /\ ~(T[l] < w)
      BY <1>1, <1>3, <3>1
    <3>3. T[l] \in Int
      BY <1>1, <3>2
    <3> QED BY <3>2, <3>3
  <2> QED BY <2>1
<1>5. \A j, l \in 1..k : j < l => P2[j] < P2[l]
  <2>1. ASSUME NEW j \in 1..k, NEW l \in 1..k, j < l PROVE P2[j] < P2[l]
    <3>1. c + j < c + l
      BY <2>1
    <3> QED BY <1>1, <1>2, <1>3, <3>1
  <2> QED BY <2>1
<1>6. ASSUME NEW i \in U, time[i] >= w PROVE \E j \in 1..k : P2[j] = i
  <2>1. PICK j \in 1..(c + k) : P[j] = i
    BY <1>3, <1>6
  <2>2. time[i] = T[j] /\ time[i] \in Int
    BY <1>1, <1>3, <2>1
  <2>3. ~(j <= c)
    BY <1>1, <1>6, <2>2
  <2>4. \E l \in 1..k : c + l = j
    <3>1. j - c \in 1..k /\ c + (j - c) = j
      BY <2>3
    <3> QED BY <3>1
  <2> QED BY <1>1, <2>1, <2>4
<1> QED BY <1>1, <1>4, <1>5, <1>6 DEF Follows, AllSince

\* What is left is as the rule for beacons would have it.
LEMMA FollowsTrimmed ==
  ASSUME NEW P \in Seq(Nat), NEW T \in Seq(Nat), NEW U, U \subseteq Nat,
         NEW time \in [U -> Nat], InOrder(U, time),
         NEW w \in Int, Follows(P, T, U, time, w)
  PROVE  /\ Trimmed(T, w) \in Seq(Nat) /\ Len(Trimmed(T, w)) \in 0..Len(T)
         /\ Ordered(Trimmed(T, w))
         /\ Cardinality(Later(U, time, w)) = Len(Trimmed(T, w))
         /\ \E P2 \in Seq(Nat) : Follows(P2, Trimmed(T, w), U, time, w)
<1> DEFINE old == {i \in DOMAIN T : T[i] < w}
<1>1. PICK m \in Nat : m = Len(T)
  OBVIOUS
<1>2. /\ DOMAIN T = 1..m /\ Len(P) = m
      /\ \A j \in 1..m : /\ P[j] \in U /\ P[j] \in Nat /\ T[j] \in Nat /\ time[P[j]] = T[j]
      /\ \A j, l \in 1..m : j < l => P[j] < P[l]
  BY <1>1 DEF Follows
<1>3. \A j, l \in 1..m : j <= l => T[j] <= T[l]
  <2>1. ASSUME NEW j \in 1..m, NEW l \in 1..m, j <= l PROVE P[j] <= P[l]
    <3>1. j = l \/ j < l
      BY <2>1
    <3> QED BY <1>2, <3>1
  <2> QED BY <1>2, <2>1 DEF InOrder
<1>4. PICK c \in 0..m : c = Cardinality(old) /\ old = 1..c
  <2>1. old \subseteq 1..m
    BY <1>2
  <2>2. \A i \in old : \A j \in 1..i : j \in old
    <3>1. ASSUME NEW i \in old, NEW j \in 1..i PROVE j \in old
      <4>1. i \in 1..m /\ j \in 1..m /\ j <= i /\ T[i] < w
        BY <1>2
      <4>2. T[j] <= T[i] /\ T[j] \in Nat /\ T[i] \in Nat
        BY <1>2, <1>3, <4>1
      <4> QED BY <1>2, <4>1, <4>2
    <3> QED BY <3>1
  <2> HIDE DEF old
  <2>3. Cardinality(old) \in 0..m /\ old = 1..Cardinality(old)
    BY <2>1, <2>2, FirstOnes
  <2> QED BY <2>3
<1>5. \A j \in 1..m : T[j] < w <=> j <= c
  <2>1. \A j \in 1..m : T[j] < w <=> j \in old
    BY <1>2
  <2>2. \A j \in 1..m : j \in 1..c <=> j <= c
    OBVIOUS
  <2> HIDE DEF old
  <2> QED BY <1>4, <2>1, <2>2
<1>6. PICK k \in Nat : m = c + k
  <2>1. m - c \in Nat /\ m = c + (m - c)
    OBVIOUS
  <2> QED BY <2>1
<1> DEFINE T2 == SubSeq(T, c + 1, Len(T))
           P2 == SubSeq(P, c + 1, Len(P))
<1>7. /\ T2 \in Seq(Nat) /\ Len(T2) = k /\ SuffixOf(T2, T, c, k)
      /\ P2 \in Seq(Nat) /\ SuffixOf(P2, P, c, k)
  <2>1. c \in 0..Len(T) /\ c \in 0..Len(P)
    BY <1>1, <1>2
  <2>2. Len(T) - c = k /\ Len(P) - c = k /\ Len(T) = c + k /\ Len(P) = c + k
    BY <1>1, <1>2, <1>6
  <2>3. T2 \in Seq(Nat) /\ Len(T2) = k /\ \A j \in 1..k : T2[j] = T[c + j]
    BY <2>1, <2>2, Suffix
  <2>4. P2 \in Seq(Nat) /\ Len(P2) = k /\ \A j \in 1..k : P2[j] = P[c + j]
    BY <2>1, <2>2, Suffix
  <2> HIDE DEF P2, T2
  <2> QED BY <2>2, <2>3, <2>4 DEF SuffixOf
<1> HIDE DEF P2, T2, old
<1>8. Follows(P2, T2, U, time, w) /\ AllSince(T2, w)
  <2>1. c \in Nat /\ OldOnes(T, w, c)
    BY <1>1, <1>5 DEF OldOnes
  <2> QED BY <1>7, <2>1, FollowsSuffix
<1>9. Cardinality(Later(U, time, w)) = k
  BY <1>7, <1>8, FollowsCount
<1>10. Ordered(T2)
  <2>1. ASSUME NEW i \in 1..(k - 1) PROVE T2[i] <= T2[i + 1]
    <3>1. i \in 1..k /\ i + 1 \in 1..k /\ c + i \in 1..m /\ c + (i + 1) \in 1..m /\ c + i <= c + (i + 1)
      BY <1>6
    <3> QED BY <1>3, <1>7, <3>1 DEF SuffixOf
  <2> QED BY <1>7, <2>1 DEF Ordered
<1>11. k \in 0..m
  BY <1>6
<1>12. Trimmed(T, w) = T2
  BY <1>4 DEF Trimmed, T2, old
<1> QED BY <1>1, <1>7, <1>8, <1>9, <1>10, <1>11, <1>12

\* A report, as a matter of the alerts alone.
LEMMA ReportedMembers ==
  ASSUME NEW s, NEW d, NEW i, NEW k
  PROVE  /\ PairReported(s, d, i, k) <=>
              \E a \in Members(raised) :
                a.type = "RADIO_BEACON" /\ a.at \in i..k /\ a.src = s /\ a.dst = d
         /\ PairReported(s, d, i, k)' <=>
              \E a \in Members(raised)' :
                a.type = "RADIO_BEACON" /\ a.at \in i..k /\ a.src = s /\ a.dst = d
BY DEF PairReported, Members

\* A flow record reports nothing that went before but by its own alert.
LEMMA ReportedGrows ==
  ASSUME Well, Peered, NEW f \in FlowRecords, Observe(f), NEW n, n = Len(log) + 1,
         NEW s, NEW d, NEW i \in 1..n
  PROVE  /\ \A k \in 0..Len(log) :
              PairReported(s, d, i, k)' <=> PairReported(s, d, i, k)
         /\ PairReported(s, d, i, n)' <=>
              \/ PairReported(s, d, i, Len(log))
              \/ s = f.src /\ d = f.dst /\ Beacon(f)
         /\ ~PairReported(s, d, n, Len(log))
<1>1. /\ TypeOK /\ ~Ignored(f) /\ raised \in Seq(Alert) /\ Emitted(f) \in Seq(Alert)
      /\ raised' = raised \o Emitted(f) /\ Len(log) \in Nat /\ n \in Nat
      /\ DOMAIN log = 1..Len(log)
  BY EmittedType, LogGrows DEF Well, Observe, TypeOK
<1>2. Members(raised)' = Members(raised) \cup Members(Emitted(f))
  <2>1. Members(raised') = Members(raised) \cup Members(Emitted(f))
    BY <1>1, MembersOfConcat
  <2> QED BY <2>1 DEF Members
<1>3. /\ \A a \in Members(Emitted(f)) : a.src = f.src /\ a.dst = f.dst /\ a.at = n
      /\ (\E a \in Members(Emitted(f)) : a.type = "RADIO_BEACON") <=> Beacon(f)
  BY <1>1, EmittedMembers
<1>4. \A a \in Members(raised) : a.at \in 1..Len(log)
  BY <1>1 DEF Peered
<1>5. /\ \A k \in 0..Len(log) : n \notin i..k
      /\ n \in i..n /\ \A a \in Members(raised) : a.at \in i..n <=> a.at \in i..Len(log)
      /\ \A a \in Members(raised) : a.at \notin n..Len(log)
  BY <1>1, <1>4
<1>6. ASSUME NEW k \in 0..Len(log)
      PROVE  PairReported(s, d, i, k)' <=> PairReported(s, d, i, k)
  BY <1>2, <1>3, <1>5, ReportedMembers
<1>7. PairReported(s, d, i, n)' <=>
        \/ PairReported(s, d, i, Len(log))
        \/ s = f.src /\ d = f.dst /\ Beacon(f)
  BY <1>2, <1>3, <1>5, ReportedMembers
<1>8. ~PairReported(s, d, n, Len(log))
  BY <1>5, ReportedMembers
<1> QED BY <1>6, <1>7, <1>8

\* It is one more flow to its own destination, if it is a small UDP flow, and is
\* the end of them if it makes a beacon.
LEMMA UnreportedGrows ==
  ASSUME Well, Peered, NEW f \in FlowRecords, Observe(f), NEW n, n = Len(log) + 1,
         NEW s, NEW d
  PROVE  /\ Unreported(s, d) \subseteq FlowsOf(s) /\ Unreported(s, d) \subseteq 1..Len(log)
         /\ ~(s = f.src /\ d = f.dst /\ f.smallUdp) => Unreported(s, d)' = Unreported(s, d)
         /\ s = f.src /\ d = f.dst /\ f.smallUdp /\ Beacon(f) => Unreported(s, d)' = {}
         /\ s = f.src /\ d = f.dst /\ f.smallUdp /\ ~Beacon(f) =>
              Unreported(s, d)' = Unreported(s, d) \cup {n}
<1>1. /\ Len(log) \in Nat /\ n \in Nat /\ DOMAIN log = 1..Len(log) /\ DOMAIN log' = 1..n
      /\ Len(log') = n /\ restarts' = restarts
      /\ \A i \in 1..Len(log) : log'[i] = log[i]
      /\ log'[n].flow = f /\ log'[n].run = restarts
  BY LogGrows
<1>2. FlowsOf(s) \subseteq 1..Len(log) /\ Unreported(s, d) \subseteq FlowsOf(s)
  BY <1>1 DEF FlowsOf, Unreported
<1>3. FlowsOf(s)' = IF s = f.src THEN FlowsOf(s) \cup {n} ELSE FlowsOf(s)
  BY FlowsGrow
<1>4. Unreported(s, d)' =
        {i \in FlowsOf(s)' : /\ log'[i].flow.dst = d /\ log'[i].flow.smallUdp
                             /\ log'[i].run = restarts /\ ~PairReported(s, d, i, n)'}
  BY <1>1 DEF Unreported, PairReported
<1>5. ASSUME NEW i \in 1..n
      PROVE  PairReported(s, d, i, n)' <=>
               \/ PairReported(s, d, i, Len(log))
               \/ s = f.src /\ d = f.dst /\ Beacon(f)
  BY ReportedGrows
<1>6. ~PairReported(s, d, n, Len(log)) /\ n \in 1..n /\ n \notin 1..Len(log)
  <2>1. n \in 1..n
    BY <1>1
  <2> QED BY <1>1, <2>1, ReportedGrows
<1>7. Beacon(f) => f.smallUdp
  BY DEF Beacon, Candidate
<1>8. \A i \in FlowsOf(s) : i \in 1..n /\ log'[i] = log[i]
  BY <1>1, <1>2
<1>9. CASE ~(s = f.src /\ d = f.dst /\ f.smallUdp)
  <2>1. \A i \in FlowsOf(s) : PairReported(s, d, i, n)' <=> PairReported(s, d, i, Len(log))
    BY <1>5, <1>7, <1>8, <1>9
  <2>2. s = f.src => ~(log'[n].flow.dst = d /\ log'[n].flow.smallUdp)
    BY <1>1, <1>9
  <2>3. Unreported(s, d)' = Unreported(s, d)
    BY <1>3, <1>4, <1>8, <2>1, <2>2 DEF Unreported
  <2> QED BY <1>2, <1>9, <2>3
<1>10. CASE s = f.src /\ d = f.dst /\ f.smallUdp
  <2>1. CASE Beacon(f)
    <3>1. \A i \in FlowsOf(s)' : PairReported(s, d, i, n)'
      BY <1>3, <1>5, <1>6, <1>8, <1>10, <2>1
    <3>2. Unreported(s, d)' = {}
      BY <1>4, <3>1
    <3> QED BY <1>2, <1>10, <2>1, <3>2
  <2>2. CASE ~Beacon(f)
    <3>1. \A i \in FlowsOf(s)' : PairReported(s, d, i, n)' <=> PairReported(s, d, i, Len(log))
      BY <1>3, <1>5, <1>6, <1>8, <2>2
    <3>2. Unreported(s, d)' = Unreported(s, d) \cup {n}
      BY <1>1, <1>3, <1>4, <1>6, <1>8, <1>10, <3>1 DEF Unreported
    <3> QED BY <1>2, <1>10, <2>2, <3>2
  <2> QED BY <2>1, <2>2
<1> QED BY <1>9, <1>10

\* The flows that count for a small UDP flow are it and those not reported yet, as
\* far as they are in the window.
LEMMA BeaconsGrow ==
  ASSUME Well, Peered, NEW f \in FlowRecords, Observe(f), NEW n, n = Len(log) + 1,
         NEW s, s = f.src, NEW d, d = f.dst, Candidate(f)
  PROVE  Beacons(n)' = {i \in Unreported(s, d) \cup {n} : now - log'[i].time <= Window}
<1>1. /\ Len(log) \in Nat /\ n \in Nat /\ DOMAIN log = 1..Len(log) /\ DOMAIN log' = 1..n
      /\ Len(log') = n /\ restarts' = restarts
      /\ \A i \in 1..Len(log) : log'[i] = log[i]
      /\ log'[n].flow = f /\ log'[n].run = restarts /\ log'[n].time = now
  BY LogGrows
<1>2. PICK m : m = Len(log)
  OBVIOUS
<1>3. m \in Nat /\ n - 1 = m /\ f.smallUdp
  BY <1>1, <1>2 DEF Candidate
<1>4. n \in 1..n /\ 1..n = 1..m \cup {n} /\ n \notin 1..m /\ DOMAIN log = 1..m
  BY <1>1, <1>2, <1>3
<1>5. Beacons(n)' =
        {i \in 1..n : /\ log'[i].flow.src = s /\ log'[i].flow.dst = d /\ log'[i].flow.smallUdp
                      /\ log'[i].run = restarts /\ now - log'[i].time <= Window
                      /\ ~PairReported(s, d, i, m)'}
  BY <1>1, <1>2, <1>3 DEF Beacons, PairReported
<1>6. ~PairReported(s, d, n, m)'
  <2>1. \A a : a \notin n..m
    BY <1>1, <1>2, <1>3
  <2> QED BY <2>1 DEF PairReported
<1>7. ASSUME NEW i \in 1..m
      PROVE  PairReported(s, d, i, m)' <=> PairReported(s, d, i, m)
  <2>1. i \in 1..n /\ m \in 0..Len(log)
    BY <1>2, <1>4, <1>3
  <2>2. \A k \in 0..Len(log) : PairReported(s, d, i, k)' <=> PairReported(s, d, i, k)
    BY <2>1, ReportedGrows
  <2> QED BY <2>1, <2>2
<1>8. Unreported(s, d) =
        {i \in 1..m : /\ log[i].flow.src = s /\ log[i].flow.dst = d /\ log[i].flow.smallUdp
                      /\ log[i].run = restarts /\ ~PairReported(s, d, i, m)}
  BY <1>2, <1>4, <1>3 DEF Unreported, FlowsOf
<1>9. \A i \in 1..m : log'[i] = log[i]
  BY <1>1, <1>2
<1> QED BY <1>1, <1>2, <1>4, <1>5, <1>6, <1>7, <1>8, <1>9, <1>3

\* The times that a flow record is added to are of flows not reported yet, and miss none
\* in the window, as those of a source that has been silent for longer are not.
LEMMA BaseTracks ==
  ASSUME Well, Windowed, Tracked, NEW s \in SensorNet, NEW d \in Addresses \ Private
  PROVE  /\ WindowOf(s).times[d] \in Seq(Nat) /\ Len(WindowOf(s).times[d]) < BeaconFlows
         /\ \E P \in Seq(Nat) : Tracks(P, WindowOf(s).times[d], s, d)
         /\ Expired[s] # NoWindow => WindowOf(s).times[d] = TimesOf(s, d)
<1>1. s \in Addresses /\ d \in Addresses /\ 0 < BeaconFlows
  BY DetectorAssumption
<1>2. WindowOf(s).times[d] \in Seq(Nat)
  BY <1>1, WindowType DEF Well, IpWindow
<1>3. CASE Expired[s] = NoWindow
  <2>1. WindowOf(s).times[d] = <<>>
    BY <1>1, <1>3 DEF WindowOf, NewWindow
  <2>2. ASSUME NEW i \in Unreported(s, d) PROVE ~(TimeOf(Unreported(s, d))[i] >= now - Window)
    <3>1. i \in FlowsOf(s) /\ log[i].run = restarts /\ i \in DOMAIN log
      BY DEF Unreported, FlowsOf
    <3>2. now - log[i].time > Window
      BY <1>1, <1>3, <3>1, ExpiredLongAgo
    <3>3. TimeOf(Unreported(s, d))[i] = log[i].time
      BY DEF TimeOf
    <3>4. log[i].time \in Nat /\ now \in Nat /\ Window \in Nat
      BY <3>1, LogType
    <3> QED BY <3>2, <3>3, <3>4
  <2>3. Tracks(<<>>, <<>>, s, d)
    BY <2>2 DEF Tracks, Follows
  <2> QED BY <1>1, <1>2, <1>3, <2>1, <2>3
<1>4. CASE Expired[s] # NoWindow
  <2>1. WindowOf(s).times[d] = TimesOf(s, d)
    BY <1>1, <1>4 DEF WindowOf, Expired, TimesOf
  <2>2. Len(TimesOf(s, d)) < BeaconFlows /\ \E P \in Seq(Nat) : Tracks(P, TimesOf(s, d), s, d)
    BY DEF Tracked
  <2> QED BY <1>2, <1>4, <2>1, <2>2
<1> QED BY <1>3, <1>4

\* They are the same when a flow record is not a small UDP flow between the two.
LEMMA TracksKept ==
  ASSUME Well, Peered, NEW f \in FlowRecords, Observe(f), NEW s, NEW d,
         ~(s = f.src /\ d = f.dst /\ f.smallUdp), NEW P, NEW T, Tracks(P, T, s, d)
  PROVE  Tracks(P, T, s, d)'
<1>1. PICK n : n = Len(log) + 1
  OBVIOUS
<1>2. now' = now /\ \A i \in 1..Len(log) : log'[i] = log[i]
  BY <1>1, LogGrows
<1>3. Unreported(s, d)' = Unreported(s, d) /\ Unreported(s, d) \subseteq 1..Len(log)
  BY <1>1, UnreportedGrows
<1>4. TimeOf(Unreported(s, d))' = TimeOf(Unreported(s, d))
  <2>1. TimeOf(Unreported(s, d))' = [i \in Unreported(s, d)' |-> log'[i].time]
    BY DEF TimeOf, Unreported, PairReported, FlowsOf
  <2> QED BY <1>2, <1>3, <2>1 DEF TimeOf
<1>5. Tracks(P, T, s, d)' <=>
        Follows(P, T, Unreported(s, d)', TimeOf(Unreported(s, d))', now' - Window)
  BY DEF Tracks, TimeOf, Unreported, PairReported, FlowsOf, Follows
<1> QED BY <1>2, <1>3, <1>4, <1>5 DEF Tracks

\* One more flow, at the end.
LEMMA FollowsGrow ==
  ASSUME NEW P \in Seq(Nat), NEW T \in Seq(Nat), NEW U, NEW time, NEW w,
         Follows(P, T, U, time, w), NEW n \in Nat, \A i \in U : i < n, NEW t \in Nat,
         NEW time1, time1[n] = t, \A i \in U : time1[i] = time[i]
  PROVE  Follows(Append(P, n), Append(T, t), U \cup {n}, time1, w)
<1> DEFINE P1 == Append(P, n)
           T1 == Append(T, t)
<1>1. PICK m \in Nat : m = Len(T)
  OBVIOUS
<1>2. /\ Len(P) = m /\ \A j \in 1..m : P[j] \in U /\ time[P[j]] = T[j]
      /\ \A j, l \in 1..m : j < l => P[j] < P[l]
      /\ \A i \in U : time[i] >= w => \E j \in 1..m : P[j] = i
  BY <1>1 DEF Follows
<1>3. /\ Len(P1) = m + 1 /\ Len(T1) = m + 1 /\ P1[m + 1] = n /\ T1[m + 1] = t
      /\ \A j \in 1..m : P1[j] = P[j] /\ T1[j] = T[j]
  BY <1>1, <1>2
<1>4. 1..(m + 1) = 1..m \cup {m + 1} /\ \A j \in 1..m : ~(m + 1 < j)
  OBVIOUS
<1> HIDE DEF P1, T1
<1>5. \A j \in 1..(m + 1) : P1[j] \in U \cup {n} /\ time1[P1[j]] = T1[j]
  BY <1>2, <1>3, <1>4
<1>6. ASSUME NEW j \in 1..(m + 1), NEW l \in 1..(m + 1), j < l PROVE P1[j] < P1[l]
  <2>1. j \in 1..m /\ (l \in 1..m \/ l = m + 1)
    BY <1>6
  <2> QED BY <1>2, <1>3, <1>6, <2>1
<1>7. \A i \in U \cup {n} : time1[i] >= w => \E j \in 1..(m + 1) : P1[j] = i
  BY <1>2, <1>3, <1>4
<1> QED BY <1>3, <1>5, <1>6, <1>7 DEF Follows, P1, T1

\* The rule for beacons counts the flows not reported yet in the window, and keeps
\* the times of all these.
LEMMA CandidateTracks ==
  ASSUME Well, Peered, Windowed, Tracked, NEW f \in FlowRecords, Observe(f), Candidate(f),
         NEW n, n = Len(log) + 1,
         NEW s \in SensorNet, s = f.src, NEW d \in Addresses \ Private, d = f.dst,
         NEW T2, T2 = Times(f)
  PROVE  /\ T2 \in Seq(Nat)
         /\ Beacon(f) <=> Len(T2) >= BeaconFlows
         /\ Cardinality(Beacons(n)') = Len(T2)
         /\ ~Beacon(f) => \E P \in Seq(Nat) : Tracks(P, T2, s, d)'
<1>1. /\ Len(log) \in Nat /\ n \in Nat /\ DOMAIN log = 1..Len(log) /\ DOMAIN log' = 1..n
      /\ restarts' = restarts /\ now' = now
      /\ \A i \in 1..Len(log) : log'[i] = log[i]
      /\ log'[n].time = now
  BY LogGrows
<1>2. PICK U : U = Unreported(s, d)
  OBVIOUS
<1>3. U \subseteq 1..Len(log) /\ (~Beacon(f) => Unreported(s, d)' = U \cup {n})
  BY <1>2, UnreportedGrows DEF Candidate
<1>4. Beacons(n)' = {i \in U \cup {n} : now - log'[i].time <= Window}
  BY <1>2, BeaconsGrow
<1>5. PICK T \in Seq(Nat), P \in Seq(Nat) :
        T = WindowOf(s).times[d] /\ Len(T) < BeaconFlows /\ Follows(P, T, U, TimeOf(U), now - Window)
  BY <1>2, BaseTracks DEF Tracks
<1>6. /\ now \in Nat /\ Window \in Nat /\ \A i \in 1..Len(log) : log[i].time \in Nat
      /\ \A i, j \in 1..n : i <= j => log'[i].time <= log'[j].time
  <2>1. LogInOrder'
    BY OrderObserve DEF Windowed
  <2>2. \A i, j \in DOMAIN log' : i <= j => log'[i].time <= log'[j].time
    BY <2>1 DEF LogInOrder
  <2> QED BY <1>1, <2>2, LogType, DetectorAssumption DEF Well, TypeOK
<1> DEFINE V == U \cup {n}
           T1 == Append(T, now)
<1>7. PICK time : time = [i \in V |-> log'[i].time]
  OBVIOUS
<1>8. PICK w \in Int : w = now - Window
  BY <1>6
<1>9. V \subseteq 1..n /\ V \subseteq Nat /\ \A i \in U : i < n /\ log'[i] = log[i]
  <2>1. n \in 1..n /\ \A i \in 1..Len(log) : i \in 1..n /\ i \in Nat /\ i < n
    BY <1>1
  <2> QED BY <1>1, <1>3, <2>1
<1>10. time \in [V -> Nat] /\ InOrder(V, time)
  BY <1>1, <1>3, <1>6, <1>7, <1>9 DEF InOrder
<1>11. Append(P, n) \in Seq(Nat) /\ T1 \in Seq(Nat)
  BY <1>1, <1>6
<1>12. Follows(Append(P, n), T1, V, time, w)
  <2>1. time[n] = now /\ \A i \in U : time[i] = TimeOf(U)[i]
    BY <1>1, <1>7, <1>9 DEF TimeOf
  <2>2. Follows(P, T, U, TimeOf(U), w) /\ n \in Nat /\ now \in Nat
    BY <1>1, <1>5, <1>6, <1>8
  <2>3. \A i \in U : i < n
    BY <1>9
  <2> QED BY <2>1, <2>2, <2>3, FollowsGrow
<1>13. Times(f) = Trimmed(T1, w)
  BY <1>5, <1>8 DEF Times, Trimmed
<1>14. Len(T1) = Len(T) + 1 /\ Len(T) \in Nat /\ BeaconFlows \in Nat /\ Len(T1) <= BeaconFlows
  BY <1>5, DetectorAssumption
<1> HIDE DEF V, T1
<1>15. /\ T2 \in Seq(Nat) /\ Len(T2) \in 0..Len(T1)
       /\ Ordered(T2)
       /\ Cardinality(Later(V, time, w)) = Len(T2)
       /\ \E P2 \in Seq(Nat) : Follows(P2, T2, V, time, w)
  <2>1. PICK P1 \in Seq(Nat) : Follows(P1, T1, V, time, w)
    BY <1>11, <1>12
  <2>2. V \subseteq Nat /\ T1 \in Seq(Nat)
    BY <1>9, <1>11
  <2>3. /\ Trimmed(T1, w) \in Seq(Nat) /\ Len(Trimmed(T1, w)) \in 0..Len(T1)
        /\ Ordered(Trimmed(T1, w))
        /\ Cardinality(Later(V, time, w)) = Len(Trimmed(T1, w))
        /\ \E P2 \in Seq(Nat) : Follows(P2, Trimmed(T1, w), V, time, w)
    BY <1>10, <2>1, <2>2, FollowsTrimmed
  <2> QED BY <1>13, <2>3
<1>16. Later(V, time, w) = Beacons(n)'
  <2>1. \A i \in V : time[i] = log'[i].time /\ time[i] \in Nat
    BY <1>7, <1>10
  <2>2. \A i \in V : time[i] >= w <=> now - log'[i].time <= Window
    BY <1>6, <1>8, <2>1
  <2> QED BY <1>4, <2>2 DEF V, Later
<1>17. Beacon(f) <=> Len(T2) >= BeaconFlows
  <2>1. ASSUME Len(T2) >= BeaconFlows PROVE Regular(T2)
    <3>1. BeaconFlows \in 3..11
      BY DetectorAssumption, RegularAssumption
    <3>2. Len(T2) \in Nat /\ Len(T2) <= BeaconFlows
      BY <1>14, <1>15
    <3>3. Len(T2) \in 1..11
      <4>1. \A x \in Nat : \A b \in 3..11 : x <= b /\ x >= b => x \in 1..11
        OBVIOUS
      <4> QED BY <2>1, <3>1, <3>2, <4>1
    <3> QED BY <1>15, <3>3, AlwaysRegular DEF Ordered
  <2> QED BY <2>1 DEF Beacon
<1>18. ASSUME ~Beacon(f) PROVE \E P2 \in Seq(Nat) : Tracks(P2, T2, s, d)'
  <2>1. PICK P2 \in Seq(Nat) : Follows(P2, T2, V, time, w)
    BY <1>15
  <2>2. Unreported(s, d)' = V
    BY <1>3, <1>18 DEF V
  <2>3. TimeOf(V)' = time
    BY <1>7 DEF TimeOf
  <2>4. Follows(P2, T2, V, TimeOf(V)', now' - Window)
    BY <1>1, <1>8, <2>1, <2>3
  <2>5. Tracks(P2, T2, s, d)'
    BY <2>2, <2>4 DEF Tracks
  <2> QED BY <2>5
<1> QED BY <1>15, <1>16, <1>17, <1>18

\* The windows again have the times of the flows not reported.
LEMMA TrackedObserve ==
  ASSUME Well, Peered, Windowed, Tracked, NEW f \in FlowRecords, Observe(f) PROVE Tracked'
<1>1. PICK n : n = Len(log) + 1
  OBVIOUS
<1>2. /\ f.src \in Addresses /\ f.dst \in Addresses /\ 0 < BeaconFlows
      /\ Expired \in [Addresses -> IpWindow \cup {NoWindow}]
      /\ Observed(f) \in IpWindow /\ Observed(f) # NoWindow
      /\ windows' = [Expired EXCEPT ![f.src] = Observed(f)]
  BY RecordType, WindowType, ObservedType, NoWindowAssumption, DetectorAssumption
  DEF Well, Observe
<1>3. SUFFICES ASSUME NEW s \in SensorNet, NEW d \in Addresses \ Private,
                      NEW T, T = IF windows'[s] = NoWindow THEN <<>> ELSE windows'[s].times[d]
               PROVE  Len(T) < BeaconFlows /\ \E P \in Seq(Nat) : Tracks(P, T, s, d)'
  BY DEF Tracked, TimesOf
<1>4. s \in Addresses /\ d \in Addresses /\ d \notin Private
  BY DetectorAssumption
<1>5. ASSUME ~(s = f.src /\ d = f.dst /\ f.smallUdp), T = WindowOf(s).times[d]
      PROVE  Len(T) < BeaconFlows /\ \E P \in Seq(Nat) : Tracks(P, T, s, d)'
  <2>1. PICK P \in Seq(Nat) : Len(T) < BeaconFlows /\ Tracks(P, T, s, d)
    BY <1>5, BaseTracks
  <2>2. Tracks(P, T, s, d)'
    BY <1>5, <2>1, TracksKept
  <2> QED BY <2>1, <2>2
<1>6. CASE s # f.src
  <2>1. windows'[s] = Expired[s]
    BY <1>2, <1>4, <1>6
  <2>2. T = WindowOf(s).times[d]
    BY <1>3, <1>4, <2>1 DEF WindowOf, NewWindow
  <2> QED BY <1>5, <1>6, <2>2
<1>7. CASE s = f.src
  <2>1. windows'[s] # NoWindow /\ T = Observed(f).times[d]
    BY <1>2, <1>3, <1>7
  <2>2. WindowOf(s).times \in [Addresses -> Seq(Nat)]
    BY <1>4, WindowType DEF Well, IpWindow
  <2>3. CASE ~(Candidate(f) /\ d = f.dst)
    <3>1. T = WindowOf(s).times[d]
      BY <1>4, <1>7, <2>1, <2>2, <2>3 DEF Observed
    <3>2. ~(d = f.dst /\ f.smallUdp)
      BY <1>4, <1>7, <2>3 DEF Candidate
    <3> QED BY <1>5, <3>1, <3>2
  <2>4. CASE Candidate(f) /\ d = f.dst
    <3>1. T = IF Beacon(f) THEN <<>> ELSE Times(f)
      BY <1>2, <1>7, <2>1, <2>2, <2>4 DEF Observed
    <3>2. CASE Beacon(f)
      <4>1. Unreported(s, d)' = {}
        BY <1>1, <1>7, <2>4, <3>2, UnreportedGrows DEF Candidate
      <4>2. Tracks(<<>>, <<>>, s, d)'
        BY <4>1 DEF Tracks, Follows
      <4>3. T = <<>>
        BY <3>1, <3>2
      <4>4. <<>> \in Seq(Nat) /\ Len(<<>>) = 0
        OBVIOUS
      <4>5. Len(T) < BeaconFlows
        BY <1>2, <4>3, <4>4
      <4> QED BY <4>2, <4>3, <4>4, <4>5
    <3>3. CASE ~Beacon(f)
      <4>1. T = Times(f)
        BY <3>1, <3>3
      <4>2. /\ T \in Seq(Nat) /\ ~(Len(T) >= BeaconFlows)
            /\ \E P \in Seq(Nat) : Tracks(P, T, s, d)'
        BY <1>1, <1>7, <2>4, <3>3, <4>1, CandidateTracks
      <4>3. Len(T) \in Nat /\ BeaconFlows \in Nat
        BY <4>2, DetectorAssumption
      <4> QED BY <4>2, <4>3
    <3> QED BY <3>2, <3>3
  <2> QED BY <2>3, <2>4
<1> QED BY <1>6, <1>7

\* The flows that counted for an earlier one still do.
LEMMA BeaconsKept ==
  ASSUME Well, Peered, NEW f \in FlowRecords, Observe(f), NEW k \in DOMAIN log
  PROVE  Beacons(k)' = Beacons(k) /\ (BeaconAt(k)' <=> BeaconAt(k))
<1>1. PICK n : n = Len(log) + 1
  OBVIOUS
<1>2. /\ Len(log) \in Nat /\ DOMAIN log = 1..Len(log)
      /\ \A i \in 1..Len(log) : log'[i] = log[i]
      /\ \A t, s : \A j \in 1..Len(log) : Raised(t, s, j)' <=> Raised(t, s, j)
  BY <1>1, LogGrows
<1>3. k \in 1..Len(log) /\ log'[k] = log[k] /\ \A i \in 1..k : log'[i] = log[i]
  BY <1>2
<1>4. PICK m : m = k - 1
  OBVIOUS
<1>5. m \in 0..Len(log)
  BY <1>2, <1>3, <1>4
<1>6. PICK s, d : s = log[k].flow.src /\ d = log[k].flow.dst
  OBVIOUS
<1>7. ASSUME NEW i \in 1..k PROVE PairReported(s, d, i, m)' <=> PairReported(s, d, i, m)
  <2>1. i \in 1..n
    BY <1>1, <1>2, <1>3
  <2>2. \A j \in 0..Len(log) : PairReported(s, d, i, j)' <=> PairReported(s, d, i, j)
    BY <1>1, <2>1, ReportedGrows
  <2> QED BY <1>5, <2>2
<1>8. Beacons(k) =
        {i \in 1..k : /\ log[i].flow.src = s /\ log[i].flow.dst = d /\ log[i].flow.smallUdp
                      /\ log[i].run = log[k].run /\ log[k].time - log[i].time <= Window
                      /\ ~PairReported(s, d, i, m)}
  BY <1>4, <1>6 DEF Beacons, PairReported
<1>9. Beacons(k)' =
        {i \in 1..k : /\ log'[i].flow.src = s /\ log'[i].flow.dst = d /\ log'[i].flow.smallUdp
                      /\ log'[i].run = log'[k].run /\ log'[k].time - log'[i].time <= Window
                      /\ ~PairReported(s, d, i, m)'}
  BY <1>3, <1>4, <1>6 DEF Beacons, PairReported
<1>10. Beacons(k)' = Beacons(k)
  BY <1>3, <1>7, <1>8, <1>9
<1>11. BeaconAt(k)' <=>
         (Raised("RADIO_BEACON", s, k)' <=>
            /\ s \in SensorNet /\ d \notin Private /\ log[k].flow.smallUdp
            /\ Cardinality(Beacons(k)') >= BeaconFlows)
  BY <1>3, <1>6 DEF BeaconAt, Raised, Beacons
<1>12. BeaconAt(k) <=>
         (Raised("RADIO_BEACON", s, k) <=>
            /\ s \in SensorNet /\ d \notin Private /\ log[k].flow.smallUdp
            /\ Cardinality(Beacons(k)) >= BeaconFlows)
  BY <1>6 DEF BeaconAt
<1> QED BY <1>2, <1>3, <1>10, <1>11, <1>12

\* A flow record raises the alert exactly when the flows that count are enough.
LEMMA BeaconObserve ==
  ASSUME Well, Peered, Windowed, Tracked, NEW f \in FlowRecords, Observe(f),
         NEW n, n = Len(log) + 1
  PROVE  BeaconAt(n)'
<1>1. log'[n].flow = f /\ (Raised("RADIO_BEACON", f.src, n)' <=> Beacon(f))
  BY LogGrows
<1>2. f.src \in Addresses /\ f.dst \in Addresses
  BY RecordType DEF Observe
<1>3. BeaconAt(n)' <=>
        (Raised("RADIO_BEACON", f.src, n)' <=>
           Candidate(f) /\ Cardinality(Beacons(n)') >= BeaconFlows)
  BY <1>1 DEF BeaconAt, Raised, Beacons, Candidate
<1>4. CASE ~Candidate(f)
  BY <1>1, <1>3, <1>4 DEF Beacon
<1>5. CASE Candidate(f)
  <2>1. f.src \in SensorNet /\ f.dst \in Addresses \ Private
    BY <1>2, <1>5 DEF Candidate
  <2>2. Beacon(f) <=> Cardinality(Beacons(n)') >= BeaconFlows
    <3>1. PICK T2 : T2 = Times(f)
      OBVIOUS
    <3>2. /\ Beacon(f) <=> Len(T2) >= BeaconFlows
          /\ Cardinality(Beacons(n)') = Len(T2)
      BY <1>5, <2>1, <3>1, CandidateTracks
    <3> QED BY <3>2
  <2> QED BY <1>1, <1>3, <1>5, <2>2
<1> QED BY <1>4, <1>5

LEMMA BeaconNext ==
  /\ Well /\ Peered /\ Windowed /\ Tracked /\ (\A k \in DOMAIN log : BeaconAt(k)) /\ [Next]_vars
  => Tracked' /\ (\A k \in DOMAIN log : BeaconAt(k))'
<1> SUFFICES ASSUME Well, Peered, Windowed, Tracked, \A k \in DOMAIN log : BeaconAt(k), [Next]_vars
             PROVE  Tracked' /\ (\A k \in DOMAIN log : BeaconAt(k))'
  OBVIOUS
<1>1. ASSUME NEW f \in FlowRecords, Observe(f)
      PROVE  Tracked' /\ (\A k \in DOMAIN log : BeaconAt(k))'
  <2>1. PICK n : n = Len(log) + 1
    OBVIOUS
  <2>2. DOMAIN log' = DOMAIN log \cup {n}
    <3>1. Len(log) \in Nat /\ DOMAIN log = 1..Len(log) /\ DOMAIN log' = 1..n
      BY <1>1, <2>1, LogGrows
    <3>2. 1..n = 1..Len(log) \cup {n}
      BY <2>1, <3>1
    <3> QED BY <3>1, <3>2
  <2>3. \A k \in DOMAIN log : BeaconAt(k)'
    BY <1>1, BeaconsKept
  <2>4. BeaconAt(n)'
    BY <1>1, <2>1, BeaconObserve
  <2> QED BY <1>1, <2>2, <2>3, <2>4, TrackedObserve
<1>2. ASSUME UNCHANGED <<log, raised>> PROVE (\A k \in DOMAIN log : BeaconAt(k))'
  <2>1. \A k \in DOMAIN log : BeaconAt(k)' <=> BeaconAt(k)
    BY <1>2 DEF BeaconAt, Raised, Beacons
  <2> QED BY <1>2, <2>1
<1>3. ASSUME UNCHANGED <<log, raised, restarts, windows, now>> PROVE Tracked'
  <2>1. \A s, d : TimesOf(s, d)' = TimesOf(s, d) /\ Unreported(s, d)' = Unreported(s, d)
    BY <1>3 DEF TimesOf, Unreported, PairReported, FlowsOf
  <2>2. \A s, d : TimeOf(Unreported(s, d))' = TimeOf(Unreported(s, d))
    BY <1>3, <2>1 DEF TimeOf
  <2>3. \A P, T, s, d : Tracks(P, T, s, d)' <=> Tracks(P, T, s, d)
    BY <1>3, <2>1, <2>2 DEF Tracks
  <2> QED BY <2>1, <2>3 DEF Tracked
<1>4. ASSUME NEW i \in 1..Len(raised), Callback(i)
      PROVE  Tracked' /\ (\A k \in DOMAIN log : BeaconAt(k))'
  BY <1>2, <1>3, <1>4 DEF Callback, Persist, PersistFails, Respond, RespondFails
<1>5. CASE UNCHANGED vars
  BY <1>2, <1>3, <1>5 DEF vars
<1>6. CASE Tick
  <2>1. now' = now + 1 /\ UNCHANGED <<windows, raised, log, restarts>>
    BY <1>6 DEF Tick
  <2>2. ASSUME NEW s \in SensorNet, NEW d \in Addresses \ Private,
               NEW P \in Seq(Nat), NEW T, T = TimesOf(s, d), Tracks(P, T, s, d)
        PROVE  Tracks(P, T, s, d)'
    <3>1. PICK U : U = Unreported(s, d)
      OBVIOUS
    <3>2. PICK time : time = TimeOf(U)
      OBVIOUS
    <3>3. Unreported(s, d)' = U /\ TimeOf(U)' = time
      BY <2>1, <3>1, <3>2 DEF Unreported, PairReported, FlowsOf, TimeOf
    <3>4. now \in Nat /\ Window \in Nat /\ \A i \in U : time[i] \in Nat
      BY <3>1, <3>2, LogType, DetectorAssumption DEF Well, TypeOK, TimeOf, Unreported, FlowsOf
    <3>5. Follows(P, T, U, time, now - Window)
      BY <2>2, <3>1, <3>2 DEF Tracks
    <3>6. \A i \in U : time[i] >= now' - Window => time[i] >= now - Window
      BY <2>1, <3>4
    <3>7. Follows(P, T, U, time, now' - Window)
      BY <3>5, <3>6 DEF Follows
    <3> QED BY <3>3, <3>7 DEF Tracks
  <2>3. \A s, d : TimesOf(s, d)' = TimesOf(s, d)
    BY <2>1 DEF TimesOf
  <2>4. Tracked'
    BY <2>2, <2>3 DEF Tracked
  <2> QED BY <1>2, <2>1, <2>4
<1>7. CASE Restart
  <2>1. /\ restarts' = restarts + 1 /\ UNCHANGED <<now, raised, log>>
        /\ windows' = [a \in Addresses |-> NoWindow]
    BY <1>7 DEF Restart
  <2>2. restarts \in Nat /\ \A i \in DOMAIN log : log[i].run \in 0..restarts
    BY DEF Well, TypeOK, Windowed, LogInOrder
  <2>3. \A s, d : Unreported(s, d)' = {}
    BY <2>1, <2>2 DEF Unreported, FlowsOf
  <2>4. \A s \in SensorNet : \A d : TimesOf(s, d)' = <<>>
    BY <2>1, DetectorAssumption DEF TimesOf
  <2>5. \A s, d : Tracks(<<>>, <<>>, s, d)'
    BY <2>3 DEF Tracks, Follows
  <2>6. <<>> \in Seq(Nat) /\ Len(<<>>) < BeaconFlows
    BY DetectorAssumption
  <2>7. Tracked'
    BY <2>4, <2>5, <2>6 DEF Tracked
  <2> QED BY <1>2, <2>1, <2>7
<1> QED BY <1>1, <1>4, <1>5, <1>6, <1>7 DEF Next, ObserveIgnored

LEMMA BeaconInit == Init => Tracked /\ \A k \in DOMAIN log : BeaconAt(k)
<1> SUFFICES ASSUME Init PROVE Tracked /\ \A k \in DOMAIN log : BeaconAt(k)
  OBVIOUS
<1>1. log = <<>> /\ \A s \in SensorNet : \A d : TimesOf(s, d) = <<>>
  BY DetectorAssumption DEF Init, TimesOf
<1>2. \A s, d : Unreported(s, d) = {}
  BY <1>1 DEF Unreported, FlowsOf
<1>3. \A s, d : Tracks(<<>>, <<>>, s, d)
  BY <1>2 DEF Tracks, Follows
<1>4. <<>> \in Seq(Nat) /\ Len(<<>>) < BeaconFlows
  BY DetectorAssumption
<1>5. \A s \in SensorNet : \A d \in Addresses \ Private :
        /\ Len(TimesOf(s, d)) < BeaconFlows
        /\ \E P \in Seq(Nat) : Tracks(P, TimesOf(s, d), s, d)
  <2>1. ASSUME NEW s \in SensorNet, NEW d, NEW T, T = TimesOf(s, d)
        PROVE  Len(T) < BeaconFlows /\ \E P \in Seq(Nat) : Tracks(P, T, s, d)
    <3>1. T = <<>>
      BY <1>1, <2>1
    <3> QED BY <1>3, <1>4, <3>1
  <2> QED BY <2>1
<1>6. DOMAIN log = {}
  BY <1>1
<1> QED BY <1>5, <1>6 DEF Tracked

\* The rule for radio beacons as the code has it: RADIO_BEACON is raised exactly with
\* the BeaconFlows-th small UDP flow from a sensor to one external peer within the
\* window, since it was last reported. This is not the rule of its doc, which wants
\* the flows regular (anomaly.go:40-42): see BeaconRegular.
BeaconExact ==
  \A k \in DOMAIN log :
    LET f == log[k].flow
    IN Raised("RADIO_BEACON", f.src, k) <=>
         /\ f.src \in SensorNet /\ f.dst \notin Private /\ f.smallUdp
         /\ Cardinality(Beacons(k)) >= BeaconFlows

\* For every threshold up to 11 and every window: a radio beacon is reported with
\* exactly the flow that brings those of the pair to the threshold; that the rule wants
\* them regular never keeps one from being reported.
THEOREM BeaconRule == Spec => []BeaconExact
<1> DEFINE All == \A k \in DOMAIN log : BeaconAt(k)
<1>1. Init => Tracked /\ All
  BY BeaconInit
<1>2. Well /\ Peered /\ Windowed /\ Tracked /\ All /\ [Next]_vars => Tracked' /\ All'
  BY BeaconNext
<1>3. Breaches => Peered
  BY DEF Breaches
<1>4. All => BeaconExact
  BY DEF BeaconAt, BeaconExact
<1> HIDE DEF All
<1> QED BY <1>1, <1>2, <1>3, <1>4, RulesCorrect, PTL DEF Spec

\* For every threshold up to 11 and every window: a sensor that sends as many small
\* UDP flows as the threshold, at equal intervals to one external peer within the
\* window, is reported, and none is for fewer flows.
THEOREM BeaconCorrect == Spec => []BeaconReported
<1>1. BeaconExact => BeaconReported
  BY DEF BeaconExact, BeaconReported
<1> QED BY <1>1, BeaconRule, PTL

=============================================================================
