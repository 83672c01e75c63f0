------------------------------ MODULE Inventory ------------------------------
(***************************************************************************)
(* The passive inventory of the collector (collector/cmdb): three          *)
(* listeners decode flow records and call Observe for each, at the same    *)
(* time. Observe decides under a lock, from a map in memory, whether an    *)
(* address is new, and sends its INSERT or UPDATE to Postgres after it has *)
(* let the lock go; a statement may fail, and the process may be           *)
(* restarted, with the tables where they were.                             *)
(*                                                                         *)
(* A flow record is known by its position in observed, which is also the   *)
(* time Observe read from the clock. The ports and protocols of a row are  *)
(* those of the flows counted in it, and what an edge of the topology adds *)
(* up, packets and bytes, is given by the set of flows it stands for.      *)
(***************************************************************************)
EXTENDS Integers, Sequences, FiniteSets

CONSTANTS
  Listeners,    \* the NetFlow, IPFIX and sFlow goroutines
  Addresses,    \* the addresses of the network
  Unset,        \* the addresses that are none: "" and 0.0.0.0
  Role,         \* what an address looks like: "router", "switch", "sensor", "host"
  Records,      \* the flow records the parsers decode
  Limits,       \* the thresholds of the categories
  NoRow,        \* an address without a row
  MaxObserved, MaxFailures, MaxRestarts   \* bounds of the search

Roles      == {"router", "switch", "sensor", "host"}
Categories == {"ROUTER", "SWITCH", "SENSOR", "SHADOW", "SERVER", "SCANNER",
               "WORKSTATION", "UNKNOWN"}

\* mac: whether a MAC address is known. first, last: positions in observed.
Row == [src : Nat, dst : Nat, mac : BOOLEAN, first : Nat, last : Nat,
        category : Categories, stealth : 0..100]

\* cmdb.go has shadow 3, ratio 5, server 10, scanner 50 and workstation 5.
ASSUME InventoryAssumption ==
  /\ Unset \cap Addresses = {}
  /\ Role \in [Addresses -> Roles]
  /\ Records \subseteq [src : Addresses \cup Unset, dst : Addresses \cup Unset,
                        srcMac : BOOLEAN, dstMac : BOOLEAN]
  /\ Limits \in [shadow : Nat, ratio : Nat, server : Nat, scanner : Nat, workstation : Nat]
  /\ Limits.shadow > 1 /\ Limits.server > 0 /\ 0 < Limits.workstation
  /\ Limits.workstation <= Limits.scanner
  /\ NoRow \notin Row

VARIABLES
  known,      \* c.known: the addresses taken to be in the table
  assets,     \* the table assets
  topology,   \* the table topology
  at,         \* where a listener is in Observe: "idle", "src", "dst", "link"
  stmt,       \* the statement observeIP is about to send: "none", "insert", "update"
  hand,       \* the flow in its hands
  observed,   \* history: the flow records, in the order Observe took them
  during,     \* history: the flows in other hands when a flow was taken
  counted,    \* history: the parts of flows, <<flow, side>>, a statement has stored
  missed,     \* history: those whose statement failed, found no row, or was never sent
  failed,     \* history: the addresses whose INSERT failed since the start
  failures, restarts   \* how many there have been

tables   == <<assets, topology>>
listener == <<at, stmt, hand>>
history  == <<observed, during, counted, missed>>
vars     == <<known, tables, listener, history, failed, failures, restarts>>

Sides == {"src", "dst"}
Parts == {"src", "dst", "link"}
Flows == 1..Len(observed)

Address(f, s) == IF s = "src" THEN observed[f].src ELSE observed[f].dst
HasMac(f, s)  == IF s = "src" THEN observed[f].srcMac ELSE observed[f].dstMac

Following == [src |-> "dst", dst |-> "link", link |-> "idle"]
Stages(s) == CASE s = "src" -> {"src", "dst", "link"} [] s = "dst" -> {"dst", "link"}
               [] s = "link" -> {"link"} [] OTHER -> {}

\* What the listeners still have before them.
Ahead == {p \in Flows \X Parts : \E l \in Listeners : hand[l] = p[1] /\ p[2] \in Stages(at[l])}

Init ==
  /\ known = {}
  /\ assets = [a \in Addresses |-> NoRow]
  /\ topology = [e \in Addresses \X Addresses |-> {}]
  /\ at = [l \in Listeners |-> "idle"]
  /\ stmt = [l \in Listeners |-> "none"]
  /\ hand = [l \in Listeners |-> 0]
  /\ observed = <<>> /\ during = <<>> /\ counted = {} /\ missed = {}
  /\ failed = {} /\ failures = 0 /\ restarts = 0

-----------------------------------------------------------------------------
(* Classification and score.                                               *)

Server(src, dst) == dst > src * Limits.ratio /\ dst > Limits.server
ShadowOnly(src, dst) == src = 0 /\ dst < Limits.shadow

RoleCategory == [router |-> "ROUTER", switch |-> "SWITCH", sensor |-> "SENSOR"]

\* classify, for the INSERT.
Classify(a, src, dst) ==
  IF Role[a] # "host" THEN RoleCategory[Role[a]]
  ELSE IF ShadowOnly(src, dst) THEN "SHADOW"
  ELSE IF Server(src, dst) THEN "SERVER"
  ELSE IF src > Limits.workstation THEN "WORKSTATION" ELSE "UNKNOWN"

\* Variant with a bug: the lower of two thresholds is tested first.
RecategorisedLow(a, src, dst, old) ==
  IF Role[a] # "host" THEN RoleCategory[Role[a]]
  ELSE IF ShadowOnly(src, dst) THEN "SHADOW"
  ELSE IF Server(src, dst) THEN "SERVER"
  ELSE IF src > Limits.workstation THEN "WORKSTATION"
  ELSE IF src > Limits.scanner THEN "SCANNER" ELSE old

\* The CASE of the UPDATE, which keeps the category when no rule matches.
Recategorised(a, src, dst, old) ==
  IF Role[a] # "host" THEN RoleCategory[Role[a]]
  ELSE IF ShadowOnly(src, dst) THEN "SHADOW"
  ELSE IF Server(src, dst) THEN "SERVER"
  ELSE IF src > Limits.scanner THEN "SCANNER"
  ELSE IF src > Limits.workstation THEN "WORKSTATION" ELSE old

AtMost(bound, n) == IF n < bound THEN n ELSE bound

StealthScore(src, dst, mac) ==
  100 - AtMost(40, (src + dst) \div 5) - (IF src > 0 THEN 20 ELSE 0) - (IF mac THEN 10 ELSE 0)

One(s, side) == IF s = side THEN 1 ELSE 0

NewRow(a, f, s) ==
  [src |-> One(s, "src"), dst |-> One(s, "dst"), mac |-> HasMac(f, s), first |-> f, last |-> f,
   category |-> Classify(a, One(s, "src"), One(s, "dst")),
   stealth  |-> StealthScore(One(s, "src"), One(s, "dst"), HasMac(f, s))]

\* Variant with a bug: score and category of the counts before the statement,
\* which is what a column on the right of a SET stands for.
UpdatedOldCounts(a, row, f, s) ==
  [row EXCEPT !.src = @ + One(s, "src"), !.dst = @ + One(s, "dst"),
              !.mac = row.mac \/ HasMac(f, s), !.last = f,
              !.category = Recategorised(a, row.src, row.dst, @),
              !.stealth  = StealthScore(row.src, row.dst, row.mac)]

\* Variant with a bug: one counter for both directions.
UpdatedBoth(a, row, f, s) ==
  [row EXCEPT !.src = @ + 1, !.dst = @ + 1, !.mac = row.mac \/ HasMac(f, s), !.last = f,
              !.category = Recategorised(a, row.src + 1, row.dst + 1, @),
              !.stealth  = StealthScore(row.src + 1, row.dst + 1, row.mac \/ HasMac(f, s))]

\* Variant with a bug: last_seen is left as it is.
UpdatedUnseen(a, row, f, s) ==
  LET src == row.src + One(s, "src")
      dst == row.dst + One(s, "dst")
      mac == row.mac \/ HasMac(f, s)
  IN [row EXCEPT !.src = src, !.dst = dst, !.mac = mac,
                 !.category = Recategorised(a, src, dst, @),
                 !.stealth  = StealthScore(src, dst, mac)]

Updated(a, row, f, s) ==
  LET src == row.src + One(s, "src")
      dst == row.dst + One(s, "dst")
      mac == row.mac \/ HasMac(f, s)
  IN [row EXCEPT !.src = src, !.dst = dst, !.mac = mac, !.last = f,
                 !.category = Recategorised(a, src, dst, @),
                 !.stealth  = StealthScore(src, dst, mac)]

-----------------------------------------------------------------------------
(* Observe.                                                                *)

Receive(l, r) ==
  /\ at[l] = "idle" /\ Len(observed) < MaxObserved
  /\ observed' = Append(observed, r)
  /\ during' = Append(during, {hand[m] : m \in Listeners} \ {0})
  /\ at' = [at EXCEPT ![l] = "src"]
  /\ hand' = [hand EXCEPT ![l] = Len(observed) + 1]
  /\ UNCHANGED <<known, tables, stmt, counted, missed, failed, failures, restarts>>

GoOn(l) ==
  /\ at' = [at EXCEPT ![l] = Following[@]]
  /\ stmt' = [stmt EXCEPT ![l] = "none"]
  /\ hand' = [hand EXCEPT ![l] = IF at[l] = "link" THEN 0 ELSE @]

\* Variant with a bug: addresses are not looked at.
IgnoredNever(a) == FALSE

Ignored(a) == a \in Unset

Skip(l) ==
  /\ at[l] \in Sides
  /\ Ignored(Address(hand[l], at[l]))
  /\ GoOn(l)
  /\ UNCHANGED <<known, tables, history, failed, failures, restarts>>

\* Variant with a bug: the address is looked up, and marked once it is stored.
MarkedLater(a) == known

Marked(a) == known \cup {a}

\* Variant with a bug: the address is marked first, and then looked up.
LookMarked(l) ==
  /\ at[l] \in Sides /\ stmt[l] = "none"
  /\ LET a == Address(hand[l], at[l])
     IN /\ ~Ignored(a)
        /\ known' = Marked(a)
        /\ stmt' = [stmt EXCEPT ![l] = IF a \in known' THEN "update" ELSE "insert"]
  /\ UNCHANGED <<tables, at, hand, history, failed, failures, restarts>>

\* Under c.mu: is the address new, and if so it no longer is.
Look(l) ==
  /\ at[l] \in Sides /\ stmt[l] = "none"
  /\ LET a == Address(hand[l], at[l])
     IN /\ ~Ignored(a)
        /\ known' = Marked(a)
        /\ stmt' = [stmt EXCEPT ![l] = IF a \in known THEN "update" ELSE "insert"]
  /\ UNCHANGED <<tables, at, hand, history, failed, failures, restarts>>

\* ON CONFLICT DO NOTHING.
Insert(l) ==
  LET a == Address(hand[l], at[l])
      stores == assets[a] = NoRow
      part == <<hand[l], at[l]>>
  IN /\ stmt[l] = "insert"
     /\ assets'  = IF stores THEN [assets EXCEPT ![a] = NewRow(a, hand[l], at[l])] ELSE assets
     /\ counted' = IF stores THEN counted \cup {part} ELSE counted
     /\ missed'  = IF stores THEN missed ELSE missed \cup {part}
     /\ GoOn(l)
     /\ UNCHANGED <<known, topology, observed, during, failed, failures, restarts>>

\* WHERE ip = $1.
Update(l) ==
  LET a == Address(hand[l], at[l])
      part == <<hand[l], at[l]>>
  IN /\ stmt[l] = "update"
     /\ \/ /\ assets[a] # NoRow
           /\ assets'  = [assets EXCEPT ![a] = Updated(a, @, hand[l], at[l])]
           /\ counted' = counted \cup {part}
           /\ missed'  = missed
        \/ /\ assets[a] = NoRow
           /\ missed'  = missed \cup {part}
           /\ UNCHANGED <<assets, counted>>
     /\ GoOn(l)
     /\ UNCHANGED <<known, topology, observed, during, failed, failures, restarts>>

Edge(f) == <<observed[f].src, observed[f].dst>>
Linked(f) == observed[f].src \notin Unset /\ observed[f].dst \notin Unset

Link(l) ==
  /\ at[l] = "link" /\ Linked(hand[l])
  /\ topology' = [topology EXCEPT ![Edge(hand[l])] = @ \cup {hand[l]}]
  /\ counted' = counted \cup {<<hand[l], "link">>}
  /\ GoOn(l)
  /\ UNCHANGED <<known, assets, observed, during, missed, failed, failures, restarts>>

SkipLink(l) ==
  /\ at[l] = "link" /\ ~Linked(hand[l])
  /\ GoOn(l)
  /\ UNCHANGED <<known, tables, history, failed, failures, restarts>>

\* An error of a statement is logged, and Observe goes on. (That of a statement which
\* is committed all the same makes no difference to what is stored: it is an Insert,
\* Update or Link.)
Fail(l) ==
  /\ failures < MaxFailures
  /\ stmt[l] # "none" \/ (at[l] = "link" /\ Linked(hand[l]))
  /\ missed' = missed \cup {<<hand[l], at[l]>>}
  /\ failed' = IF stmt[l] = "insert" THEN failed \cup {Address(hand[l], at[l])} ELSE failed
  /\ failures' = failures + 1
  /\ GoOn(l)
  /\ UNCHANGED <<known, tables, observed, during, counted, restarts>>

\* Variant with a bug: a restarted collector knows no address.
LoadedNone == {}

Loaded == {a \in Addresses : assets[a] # NoRow}

\* The process dies and starts again: New, migrate and loadKnown. A statement that
\* the database is executing then is an Insert, Update or Link before the Restart:
\* migrate's ALTER TABLE assets waits for it, and loadKnown comes after migrate.
Restart ==
  /\ restarts < MaxRestarts
  /\ restarts' = restarts + 1
  /\ known' = Loaded
  /\ failed' = {}
  /\ missed' = missed \cup Ahead
  /\ at' = [l \in Listeners |-> "idle"]
  /\ stmt' = [l \in Listeners |-> "none"]
  /\ hand' = [l \in Listeners |-> 0]
  /\ UNCHANGED <<tables, observed, during, counted, failures>>

-----------------------------------------------------------------------------

Observe(l) == Skip(l) \/ Look(l) \/ Insert(l) \/ Update(l) \/ Link(l) \/ SkipLink(l) \/ Fail(l)

Next ==
  \/ \E l \in Listeners : Observe(l) \/ \E r \in Records : Receive(l, r)
  \/ Restart

Spec == Init /\ [][Next]_vars

\* The database answers every statement, with success or an error.
Fairness == \A l \in Listeners : WF_vars(Observe(l))

FairSpec == Spec /\ Fairness

-----------------------------------------------------------------------------
(* Properties.                                                             *)

TypeOK ==
  /\ known \subseteq Addresses
  /\ assets \in [Addresses -> Row \cup {NoRow}]
  /\ topology \in [Addresses \X Addresses -> SUBSET Flows]
  /\ at \in [Listeners -> {"idle", "src", "dst", "link"}]
  /\ stmt \in [Listeners -> {"none", "insert", "update"}]
  /\ \A l \in Listeners : stmt[l] # "none" =>
       at[l] \in Sides /\ Address(hand[l], at[l]) \in known
  /\ hand \in [Listeners -> Nat]
  /\ \A l \in Listeners : IF at[l] = "idle" THEN hand[l] = 0 ELSE hand[l] \in Flows
  /\ observed \in Seq(Records)
  /\ during \in Seq(SUBSET Flows) /\ Len(during) = Len(observed)
  /\ counted \subseteq Flows \X Parts
  /\ missed \subseteq Flows \X Parts
  /\ failed \subseteq Addresses
  /\ failures \in Nat /\ restarts \in Nat

Inserting(l, a) == stmt[l] = "insert" /\ Address(hand[l], at[l]) = a

\* An address is registered by one listener, once: while its INSERT is under
\* way there is no row and no other INSERT of it, so ON CONFLICT never has a
\* conflict to resolve and [DISCOVERY] names a device once (cmdb.go:201-216).
RegisteredOnce ==
  \A a \in Addresses : \A l \in Listeners : Inserting(l, a) =>
    assets[a] = NoRow /\ \A m \in Listeners : Inserting(m, a) => m = l

\* What the map in memory takes for registered (cmdb.go:81) is: only an INSERT
\* under way, or one that failed since the start, comes between it and the
\* table. So an UPDATE misses its row in these cases only.
KnownIsRegistered ==
  /\ \A a \in known : \/ assets[a] # NoRow
                      \/ \E l \in Listeners : Inserting(l, a)
                      \/ a \in failed
  /\ \A a \in Addresses : assets[a] # NoRow => a \in known

\* The flows counted in the row of an address, as its source or destination.
PartsOf(a, s) == {f \in Flows : Address(f, s) = a /\ <<f, s>> \in counted}

\* What has become of the flows: of each side, and of the edge, of each flow
\* with addresses, it is known whether it is stored, missed or still ahead, and
\* the tables hold what was stored: src_flow_count and dst_flow_count of a row
\* are the flows counted, and an edge adds up the flows between its ends.
Relevant(f, s) == IF s = "link" THEN Linked(f) ELSE Address(f, s) \notin Unset

EveryFlowAccounted ==
  /\ \A f \in Flows : \A s \in Parts : Relevant(f, s) =>
       <<f, s>> \in counted \cup missed \cup Ahead
  /\ counted \cap missed = {} /\ counted \cap Ahead = {}
  /\ \A e \in Addresses \X Addresses :
       topology[e] = {f \in Flows : <<f, "link">> \in counted /\ Edge(f) = e}
  /\ \A a \in Addresses :
       IF assets[a] = NoRow THEN PartsOf(a, "src") = {} /\ PartsOf(a, "dst") = {}
       ELSE /\ assets[a].src = Cardinality(PartsOf(a, "src"))
            /\ assets[a].dst = Cardinality(PartsOf(a, "dst"))

\* The score of a row is the score of what the row says: it is computed twice,
\* in Go for the INSERT and in SQL for the UPDATE (cmdb.go:210, 253-258).
ScoreFitsRow ==
  \A a \in Addresses : assets[a] # NoRow =>
    assets[a].stealth = StealthScore(assets[a].src, assets[a].dst, assets[a].mac)

\* The category of a host never contradicts its counters, although the UPDATE
\* keeps the old one when no rule matches: a device found as the receiver of a
\* flow stays SHADOW until it has sent more than `workstation` flows.
HostCategory(category, src, dst) ==
  /\ category \in {"SHADOW", "SERVER", "SCANNER", "WORKSTATION", "UNKNOWN"}
  /\ src = 0 /\ dst < Limits.shadow => category = "SHADOW"
  /\ category = "SERVER" =>
       dst > Limits.server /\ (dst > src * Limits.ratio \/ src <= Limits.workstation)
  /\ category = "SCANNER" => src > Limits.scanner
  /\ category = "WORKSTATION" => Limits.workstation < src /\ src <= Limits.scanner
  /\ category \in {"SHADOW", "UNKNOWN"} => src <= Limits.workstation

FitsCategory(a, row) ==
  /\ Role[a] = "router" => row.category = "ROUTER"
  /\ Role[a] = "switch" => row.category = "SWITCH"
  /\ Role[a] = "sensor" => row.category = "SENSOR"
  /\ Role[a] = "host"   => HostCategory(row.category, row.src, row.dst)

CategoryFitsRow ==
  \A a \in Addresses : assets[a] # NoRow => FitsCategory(a, assets[a])

\* first_seen and last_seen are the times of flows counted in the row. They
\* may be out of order, as Observe reads the clock before its statements wait
\* for those of others, but by no more than flows handled at the same time:
\* a counted flow that is later than last_seen, or earlier than first_seen,
\* was in hand together with the flow the time is of.
SeenWithinOverlap ==
  \A f \in Flows : \A s \in Sides : <<f, s>> \in counted =>
    LET row == assets[Address(f, s)]
    IN /\ row # NoRow
       /\ row.last \in Flows /\ row.first \in Flows
       /\ f > row.last  => row.last \in during[f]
       /\ f < row.first => f \in during[row.first]

\* A device that appears in a flow is added to the inventory (cmdb.go:2),
\* unless its INSERT fails or the collector dies first.
Touched(a) == \E l \in Listeners : at[l] \in Sides /\ Address(hand[l], at[l]) = a

AppearedIsRegistered ==
  \A a \in Addresses : \A n \in 0..MaxRestarts :
    Touched(a) /\ restarts = n ~> assets[a] # NoRow \/ a \in failed \/ restarts > n

=============================================================================
