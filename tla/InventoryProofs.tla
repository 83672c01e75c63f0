--------------------------- MODULE InventoryProofs ---------------------------
(***************************************************************************)
(* Proofs about Inventory, for any listeners, addresses, flow records and  *)
(* thresholds, and every bound.                                            *)
(***************************************************************************)
EXTENDS Inventory, FiniteSetTheorems, TLAPS

-----------------------------------------------------------------------------
(* Lemmas about the operators.                                             *)

\* A score is a score, whatever the counters.
LEMMA ScoreType ==
  ASSUME NEW src \in Nat, NEW dst \in Nat, NEW mac \in BOOLEAN
  PROVE  StealthScore(src, dst, mac) \in 0..100
<1>1. (src + dst) \div 5 \in Nat
  OBVIOUS
<1>2. AtMost(40, (src + dst) \div 5) \in 0..40
  BY <1>1 DEF AtMost
<1> QED BY <1>2 DEF StealthScore

\* Both ways to classify a device give a category.
LEMMA CategoryType ==
  ASSUME NEW a \in Addresses, NEW src \in Nat, NEW dst \in Nat, NEW old \in Categories
  PROVE  Classify(a, src, dst) \in Categories /\ Recategorised(a, src, dst, old) \in Categories
<1>1. Role[a] \in {"router", "switch", "sensor", "host"}
  BY InventoryAssumption DEF Roles
<1>2. Role[a] # "host" => RoleCategory[Role[a]] \in Categories
  BY <1>1 DEF RoleCategory, Categories
<1>3. Classify(a, src, dst) \in Categories
  BY <1>2 DEF Classify, Categories
<1> QED BY <1>2, <1>3 DEF Recategorised, Categories

\* What an INSERT stores is a row.
LEMMA NewRowType ==
  ASSUME NEW a \in Addresses, NEW f \in Nat, NEW s \in Sides, HasMac(f, s) \in BOOLEAN
  PROVE  NewRow(a, f, s) \in Row
<1>1. One(s, "src") \in Nat /\ One(s, "dst") \in Nat
  BY DEF One
<1>2. "SHADOW" \in Categories
  BY DEF Categories
<1>3. Classify(a, One(s, "src"), One(s, "dst")) \in Categories
  BY <1>1, <1>2, CategoryType
<1>4. StealthScore(One(s, "src"), One(s, "dst"), HasMac(f, s)) \in 0..100
  BY <1>1, ScoreType
<1> QED BY <1>1, <1>3, <1>4 DEF NewRow, Row

\* What an UPDATE leaves is a row: each column, and its type.
LEMMA UpdatedType ==
  ASSUME NEW a \in Addresses, NEW row \in Row, NEW f \in Nat, NEW s \in Sides,
         HasMac(f, s) \in BOOLEAN
  PROVE  /\ Updated(a, row, f, s) \in Row
         /\ Updated(a, row, f, s).src = row.src + One(s, "src")
         /\ Updated(a, row, f, s).dst = row.dst + One(s, "dst")
         /\ Updated(a, row, f, s).mac = (row.mac \/ HasMac(f, s))
         /\ Updated(a, row, f, s).first = row.first
         /\ Updated(a, row, f, s).last = f
         /\ Updated(a, row, f, s).category =
              Recategorised(a, row.src + One(s, "src"), row.dst + One(s, "dst"), row.category)
         /\ Updated(a, row, f, s).stealth =
              StealthScore(row.src + One(s, "src"), row.dst + One(s, "dst"),
                           row.mac \/ HasMac(f, s))
<1> DEFINE src == row.src + One(s, "src")
           dst == row.dst + One(s, "dst")
           mac == row.mac \/ HasMac(f, s)
           cat == Recategorised(a, src, dst, row.category)
           score == StealthScore(src, dst, mac)
<1>1. src \in Nat /\ dst \in Nat
  BY DEF One, Row
<1>2. mac \in BOOLEAN
  BY DEF Row
<1>3. row.category \in Categories
  BY DEF Row
<1>4. cat \in Categories
  BY <1>1, <1>3, CategoryType
<1>5. score \in 0..100
  BY <1>1, <1>2, ScoreType
<1>6. Updated(a, row, f, s) = [row EXCEPT !.src = src, !.dst = dst, !.mac = mac, !.last = f,
                                          !.category = cat, !.stealth = score]
  BY DEF Updated
<1> HIDE DEF src, dst, mac, cat, score
<1>7. /\ Updated(a, row, f, s) \in Row
      /\ Updated(a, row, f, s).src = src /\ Updated(a, row, f, s).dst = dst
      /\ Updated(a, row, f, s).mac = mac
      /\ Updated(a, row, f, s).first = row.first /\ Updated(a, row, f, s).last = f
      /\ Updated(a, row, f, s).category = cat /\ Updated(a, row, f, s).stealth = score
  BY <1>1, <1>2, <1>4, <1>5, <1>6 DEF Row
<1> QED BY <1>7 DEF src, dst, mac, cat, score

-----------------------------------------------------------------------------
(* Type correctness.                                                       *)

ListenersOK ==
  /\ at \in [Listeners -> {"idle", "src", "dst", "link"}]
  /\ stmt \in [Listeners -> {"none", "insert", "update"}]
  /\ \A l \in Listeners : stmt[l] # "none" =>
       at[l] \in Sides /\ Address(hand[l], at[l]) \in known
  /\ hand \in [Listeners -> Nat]
  /\ \A l \in Listeners : IF at[l] = "idle" THEN hand[l] = 0 ELSE hand[l] \in Flows

\* The initial state is well typed.
LEMMA TypeInit == Init => TypeOK
<1> SUFFICES ASSUME Init PROVE TypeOK
  OBVIOUS
<1>1. observed \in Seq(Records) /\ during \in Seq(SUBSET Flows)
  BY DEF Init
<1> QED BY <1>1 DEF Init, TypeOK

\* A flow in hand is a flow record, and its addresses are addresses or unset.
LEMMA InHandType ==
  ASSUME TypeOK, NEW f \in Flows, NEW s \in Sides
  PROVE  /\ observed[f] \in Records /\ f \in Nat
         /\ Address(f, s) \in Addresses \cup Unset
         /\ HasMac(f, s) \in BOOLEAN
<1>1. observed[f] \in Records /\ f \in Nat
  BY DEF TypeOK, Flows
<1>2. observed[f] \in [src : Addresses \cup Unset, dst : Addresses \cup Unset,
                       srcMac : BOOLEAN, dstMac : BOOLEAN]
  BY <1>1, InventoryAssumption
<1> QED BY <1>1, <1>2 DEF Address, HasMac

\* A listener that goes on stays well typed.
LEMMA GoOnType ==
  ASSUME TypeOK, NEW l \in Listeners, at[l] # "idle", GoOn(l),
         observed' = observed, known' = known
  PROVE  ListenersOK'
<1>1. at[l] \in {"src", "dst", "link"}
  BY DEF TypeOK
<1>2. Following[at[l]] \in {"idle", "dst", "link"} /\ (Following[at[l]] = "idle" <=> at[l] = "link")
  BY <1>1 DEF Following
<1>3. /\ at' \in [Listeners -> {"idle", "src", "dst", "link"}]
      /\ stmt' \in [Listeners -> {"none", "insert", "update"}]
  BY <1>2 DEF TypeOK, GoOn
<1>4. hand' \in [Listeners -> Nat]
  BY DEF TypeOK, GoOn
<1>5. \A m \in Listeners : m # l => at'[m] = at[m] /\ stmt'[m] = stmt[m] /\ hand'[m] = hand[m]
  BY DEF TypeOK, GoOn
<1>6. at'[l] = Following[at[l]] /\ stmt'[l] = "none"
      /\ hand'[l] = (IF at[l] = "link" THEN 0 ELSE hand[l])
  BY DEF TypeOK, GoOn
<1>7. ASSUME NEW m \in Listeners, stmt'[m] # "none"
      PROVE  at'[m] \in Sides /\ Address(hand[m], at[m])' \in known'
  <2>1. m # l
    BY <1>6, <1>7
  <2>2. at[m] \in Sides /\ Address(hand[m], at[m]) \in known
    BY <2>1, <1>5, <1>7 DEF TypeOK
  <2> QED BY <2>1, <2>2, <1>5 DEF Address, Sides
<1>8. ASSUME NEW m \in Listeners
      PROVE  IF at'[m] = "idle" THEN hand'[m] = 0 ELSE hand'[m] \in Flows'
  <2>1. CASE m = l
    BY <2>1, <1>2, <1>6 DEF TypeOK, Flows
  <2>2. CASE m # l
    BY <2>2, <1>5 DEF TypeOK, Flows
  <2> QED BY <2>1, <2>2
<1> QED BY <1>3, <1>4, <1>7, <1>8 DEF ListenersOK, Address

\* The parts of the history that no statement changes.
TablesOK ==
  /\ assets \in [Addresses -> Row \cup {NoRow}]
  /\ topology \in [Addresses \X Addresses -> SUBSET Flows]
  /\ counted \subseteq Flows \X Parts /\ missed \subseteq Flows \X Parts
  /\ failed \subseteq Addresses
  /\ failures \in Nat /\ restarts \in Nat

LogOK ==
  /\ observed \in Seq(Records)
  /\ during \in Seq(SUBSET Flows) /\ Len(during) = Len(observed)

\* The type invariant in three parts.
LEMMA TypeParts == TypeOK <=> known \subseteq Addresses /\ ListenersOK /\ TablesOK /\ LogOK
BY DEF TypeOK, ListenersOK, TablesOK, LogOK

\* What a statement of a listener works on.
LEMMA StatementType ==
  ASSUME TypeOK, NEW l \in Listeners, stmt[l] # "none"
  PROVE  /\ at[l] \in Sides /\ at[l] # "idle"
         /\ hand[l] \in Flows /\ hand[l] \in Nat
         /\ Address(hand[l], at[l]) \in known
         /\ Address(hand[l], at[l]) \in Addresses
         /\ HasMac(hand[l], at[l]) \in BOOLEAN
         /\ <<hand[l], at[l]>> \in Flows \X Parts
<1>1. at[l] \in Sides /\ at[l] # "idle" /\ Address(hand[l], at[l]) \in known
  BY DEF TypeOK, Sides
<1>2. hand[l] \in Flows
  BY <1>1 DEF TypeOK
<1>3. hand[l] \in Nat /\ HasMac(hand[l], at[l]) \in BOOLEAN
  BY <1>1, <1>2, InHandType
<1> QED BY <1>1, <1>2, <1>3 DEF TypeOK, Sides, Parts

\* Every step keeps the types.
LEMMA TypeNext == TypeOK /\ [Next]_vars => TypeOK'
<1> SUFFICES ASSUME TypeOK, [Next]_vars PROVE TypeOK'
  OBVIOUS
<1>0. known \subseteq Addresses /\ ListenersOK /\ TablesOK /\ LogOK
  BY TypeParts
<1> SUFFICES known' \subseteq Addresses /\ ListenersOK' /\ TablesOK' /\ LogOK'
  BY DEF TypeOK, ListenersOK, TablesOK, LogOK, Address, Flows, Parts
<1>1. ASSUME NEW l \in Listeners, NEW r \in Records, Receive(l, r)
      PROVE  known' \subseteq Addresses /\ ListenersOK' /\ TablesOK' /\ LogOK'
  <2>1. /\ observed' \in Seq(Records) /\ Len(observed') = Len(observed) + 1
        /\ Flows' = Flows \cup {Len(observed) + 1}
        /\ \A f \in Flows : observed'[f] = observed[f]
    BY <1>0, <1>1 DEF Receive, LogOK, Flows
  <2>2. {hand[m] : m \in Listeners} \ {0} \in SUBSET Flows
    BY <1>0 DEF ListenersOK
  <2>3. during' \in Seq(SUBSET Flows) /\ Len(during') = Len(observed')
    BY <1>0, <1>1, <2>1, <2>2 DEF Receive, LogOK
  <2>4. LogOK'
    <3>1. SUBSET Flows \subseteq SUBSET (Flows')
      BY <2>1
    <3>2. \A i \in 1..Len(during') : during'[i] \in SUBSET (Flows')
      BY <2>3, <3>1
    <3> QED BY <2>1, <2>3, <3>2 DEF LogOK
  <2>5. TablesOK'
    BY <1>0, <1>1, <2>1 DEF Receive, tables, TablesOK
  <2>6. /\ at' = [at EXCEPT ![l] = "src"] /\ stmt' = stmt /\ known' = known
        /\ hand' = [hand EXCEPT ![l] = Len(observed) + 1] /\ at[l] = "idle"
    BY <1>1 DEF Receive
  <2>7. Len(observed) + 1 \in Nat
    BY <1>0 DEF LogOK
  <2>8. at' \in [Listeners -> {"idle", "src", "dst", "link"}] /\ hand' \in [Listeners -> Nat]
    BY <1>0, <2>6, <2>7 DEF ListenersOK
  <2>9. ASSUME NEW m \in Listeners, stmt'[m] # "none"
        PROVE  at'[m] \in Sides /\ Address(hand[m], at[m])' \in known'
    <3>1. at[m] \in Sides /\ Address(hand[m], at[m]) \in known /\ m # l
      BY <1>0, <2>6, <2>9 DEF ListenersOK, Sides
    <3>2. hand[m] \in Flows
      BY <1>0, <3>1 DEF ListenersOK, Sides
    <3>3. hand'[m] = hand[m] /\ at'[m] = at[m] /\ observed'[hand[m]] = observed[hand[m]]
      BY <1>0, <2>1, <2>6, <3>1, <3>2 DEF ListenersOK
    <3> QED BY <3>1, <3>3, <2>6 DEF Address
  <2>10. ASSUME NEW m \in Listeners
         PROVE  IF at'[m] = "idle" THEN hand'[m] = 0 ELSE hand'[m] \in Flows'
    BY <1>0, <2>1, <2>6 DEF ListenersOK
  <2>11. ListenersOK'
    BY <1>0, <2>6, <2>8, <2>9, <2>10 DEF ListenersOK
  <2> QED BY <1>0, <2>4, <2>5, <2>6, <2>11
<1>2. ASSUME NEW l \in Listeners, Skip(l)
      PROVE  known' \subseteq Addresses /\ ListenersOK' /\ TablesOK' /\ LogOK'
  <2>1. at[l] # "idle" /\ GoOn(l) /\ observed' = observed /\ known' = known
    BY <1>2 DEF Skip, Sides, history
  <2> QED BY <1>0, <1>2, <2>1, GoOnType DEF Skip, tables, history, TablesOK, LogOK, Flows, Parts
<1>3. ASSUME NEW l \in Listeners, Look(l)
      PROVE  known' \subseteq Addresses /\ ListenersOK' /\ TablesOK' /\ LogOK'
  <2> DEFINE a == Address(hand[l], at[l])
  <2>1. hand[l] \in Flows /\ at[l] \in Sides
    BY <1>0, <1>3 DEF Look, ListenersOK, Sides
  <2>2. a \in Addresses
    BY <2>1, <1>3, InHandType DEF Look, Ignored
  <2>3. known' = known \cup {a} /\ observed' = observed /\ at' = at /\ hand' = hand
    BY <1>3 DEF Look, Marked, history
  <2>4. stmt' \in [Listeners -> {"none", "insert", "update"}]
        /\ \A m \in Listeners : m # l => stmt'[m] = stmt[m]
    <3>1. (IF a \in known THEN "update" ELSE "insert") \in {"none", "insert", "update"}
      OBVIOUS
    <3>2. stmt' = [stmt EXCEPT ![l] = IF a \in known THEN "update" ELSE "insert"]
      BY <1>3 DEF Look
    <3> QED BY <1>0, <3>1, <3>2 DEF ListenersOK
  <2>5. ListenersOK'
    BY <1>0, <2>1, <2>3, <2>4 DEF ListenersOK, Address, Flows
  <2> QED BY <1>0, <1>3, <2>2, <2>3, <2>5 DEF Look, tables, history, TablesOK, LogOK, Flows, Parts
<1>4. ASSUME NEW l \in Listeners, Insert(l)
      PROVE  known' \subseteq Addresses /\ ListenersOK' /\ TablesOK' /\ LogOK'
  <2>1. /\ GoOn(l) /\ known' = known /\ topology' = topology /\ observed' = observed
        /\ during' = during /\ failed' = failed /\ failures' = failures /\ restarts' = restarts
        /\ stmt[l] # "none"
    BY <1>4 DEF Insert
  <2>2. NewRow(Address(hand[l], at[l]), hand[l], at[l]) \in Row
    BY <2>1, StatementType, NewRowType
  <2>3. assets' \in [Addresses -> Row \cup {NoRow}]
    BY <1>0, <1>4, <2>1, <2>2, StatementType DEF Insert, TablesOK
  <2>4. counted' \subseteq Flows \X Parts /\ missed' \subseteq Flows \X Parts
    BY <1>0, <1>4, <2>1, StatementType DEF Insert, TablesOK
  <2>5. ListenersOK'
    BY <2>1, StatementType, GoOnType
  <2> QED BY <1>0, <2>1, <2>3, <2>4, <2>5 DEF TablesOK, LogOK, Flows, Parts
<1>5. ASSUME NEW l \in Listeners, Update(l)
      PROVE  known' \subseteq Addresses /\ ListenersOK' /\ TablesOK' /\ LogOK'
  <2> DEFINE a == Address(hand[l], at[l])
  <2>1. /\ GoOn(l) /\ known' = known /\ topology' = topology /\ observed' = observed
        /\ during' = during /\ failed' = failed /\ failures' = failures /\ restarts' = restarts
        /\ stmt[l] # "none"
    BY <1>5 DEF Update
  <2>2. ASSUME assets[a] # NoRow PROVE Updated(a, assets[a], hand[l], at[l]) \in Row
    <3>1. a \in Addresses /\ hand[l] \in Nat /\ at[l] \in Sides /\ HasMac(hand[l], at[l]) \in BOOLEAN
      BY <2>1, StatementType
    <3>2. assets[a] \in Row
      BY <1>0, <2>2, <3>1 DEF TablesOK
    <3> QED BY <3>1, <3>2, UpdatedType
  <2>3. assets' \in [Addresses -> Row \cup {NoRow}]
    <3>1. \/ assets' = assets
          \/ assets[a] # NoRow
             /\ assets' = [assets EXCEPT ![a] = Updated(a, assets[a], hand[l], at[l])]
      BY <1>5 DEF Update
    <3> QED BY <1>0, <2>2, <3>1 DEF TablesOK
  <2>4. counted' \subseteq Flows \X Parts /\ missed' \subseteq Flows \X Parts
    BY <1>0, <1>5, <2>1, StatementType DEF Update, TablesOK
  <2>5. ListenersOK'
    BY <2>1, StatementType, GoOnType
  <2> QED BY <1>0, <2>1, <2>3, <2>4, <2>5 DEF TablesOK, LogOK, Flows, Parts
<1>6. ASSUME NEW l \in Listeners, Link(l)
      PROVE  known' \subseteq Addresses /\ ListenersOK' /\ TablesOK' /\ LogOK'
  <2>1. /\ at[l] = "link" /\ GoOn(l) /\ known' = known /\ assets' = assets
        /\ observed' = observed /\ during' = during /\ missed' = missed /\ failed' = failed
        /\ failures' = failures /\ restarts' = restarts
    BY <1>6 DEF Link
  <2>2. hand[l] \in Flows
    BY <1>0, <2>1 DEF ListenersOK
  <2>3. topology' \in [Addresses \X Addresses -> SUBSET Flows]
    <3> DEFINE e == Edge(hand[l])
    <3>1. topology' = [topology EXCEPT ![e] = topology[e] \cup {hand[l]}]
      BY <1>6 DEF Link
    <3> HIDE DEF e
    <3> QED BY <1>0, <2>2, <3>1 DEF TablesOK
  <2>5. counted' \subseteq Flows \X Parts
    BY <1>0, <1>6, <2>2 DEF Link, TablesOK, Parts
  <2>4. ListenersOK'
    BY <2>1, GoOnType
  <2> QED BY <1>0, <2>1, <2>3, <2>4, <2>5 DEF TablesOK, LogOK, Flows, Parts
<1>7. ASSUME NEW l \in Listeners, SkipLink(l)
      PROVE  known' \subseteq Addresses /\ ListenersOK' /\ TablesOK' /\ LogOK'
  <2>1. at[l] # "idle" /\ GoOn(l) /\ observed' = observed /\ known' = known
    BY <1>7 DEF SkipLink, history
  <2> QED BY <1>0, <1>7, <2>1, GoOnType
          DEF SkipLink, tables, history, TablesOK, LogOK, Flows, Parts
<1>8. ASSUME NEW l \in Listeners, Fail(l)
      PROVE  known' \subseteq Addresses /\ ListenersOK' /\ TablesOK' /\ LogOK'
  <2>1. /\ GoOn(l) /\ known' = known /\ tables' = tables /\ observed' = observed
        /\ during' = during /\ counted' = counted /\ restarts' = restarts
        /\ failures' = failures + 1 /\ missed' = missed \cup {<<hand[l], at[l]>>}
    BY <1>8 DEF Fail, tables
  <2>2. at[l] # "idle" /\ <<hand[l], at[l]>> \in Flows \X Parts
    <3>1. CASE stmt[l] # "none"
      BY <3>1, StatementType
    <3>2. CASE at[l] = "link"
      BY <3>2, <1>0 DEF ListenersOK, Parts
    <3> QED BY <3>1, <3>2, <1>8 DEF Fail
  <2>3. failed' \subseteq Addresses
    BY <1>0, <1>8, StatementType DEF Fail, TablesOK
  <2>4. ListenersOK'
    BY <2>1, <2>2, GoOnType
  <2> QED BY <1>0, <2>1, <2>2, <2>3, <2>4 DEF tables, TablesOK, LogOK, Flows, Parts
<1>9. CASE Restart
  <2>1. Ahead \subseteq Flows \X Parts
    BY DEF Ahead
  <2>2. ListenersOK'
    BY <1>9 DEF Restart, ListenersOK, Address
  <2> QED BY <1>0, <1>9, <2>1, <2>2
          DEF Restart, Loaded, tables, TablesOK, LogOK, Flows, Parts
<1>10. CASE UNCHANGED vars
  BY <1>0, <1>10 DEF vars, tables, listener, history, ListenersOK, TablesOK, LogOK, Address,
                     Flows, Parts
<1> QED BY <1>1, <1>2, <1>3, <1>4, <1>5, <1>6, <1>7, <1>8, <1>9, <1>10 DEF Next, Observe

\* The type invariant holds of every behaviour.
THEOREM TypeCorrect == Spec => []TypeOK
BY TypeInit, TypeNext, PTL DEF Spec

-----------------------------------------------------------------------------
(* Registration.                                                           *)

Registration == RegisteredOnce /\ KnownIsRegistered

\* A listener with a statement before it is not at an unset address, nor at the edge.
LEMMA NoStatement ==
  ASSUME TypeOK, NEW l \in Listeners
  PROVE  Skip(l) \/ Link(l) \/ SkipLink(l) => stmt[l] = "none" /\ at[l] # "idle"
<1>1. ASSUME stmt[l] # "none" PROVE at[l] \in Sides /\ Address(hand[l], at[l]) \in Addresses
  BY <1>1, StatementType
<1> QED BY <1>1, InventoryAssumption DEF Skip, Link, SkipLink, Sides, Ignored

\* A listener that goes on has nothing to insert, and the others go on with theirs.
LEMMA InsertingGoOn ==
  ASSUME TypeOK, NEW l \in Listeners, GoOn(l), observed' = observed,
         NEW m \in Listeners, NEW a \in Addresses
  PROVE  Inserting(m, a)' <=> m # l /\ Inserting(m, a)
<1>1. stmt'[l] = "none"
  BY DEF TypeOK, GoOn
<1>2. m # l => stmt'[m] = stmt[m] /\ hand'[m] = hand[m] /\ at'[m] = at[m]
  BY DEF TypeOK, GoOn
<1> QED BY <1>1, <1>2 DEF Inserting, Address

\* A flow that comes in changes no INSERT.
LEMMA InsertingReceive ==
  ASSUME TypeOK, NEW l \in Listeners, NEW r \in Records, Receive(l, r),
         NEW m \in Listeners, NEW a \in Addresses
  PROVE  Inserting(m, a)' <=> Inserting(m, a)
<1>1. stmt' = stmt /\ at[l] = "idle" /\ observed' = Append(observed, r)
  BY DEF Receive
<1>2. ASSUME stmt[m] = "insert"
      PROVE  hand'[m] = hand[m] /\ at'[m] = at[m] /\ observed'[hand[m]] = observed[hand[m]]
  <2>1. at[m] # "idle" /\ hand[m] \in Flows
    BY <1>2, StatementType
  <2>2. hand'[m] = hand[m] /\ at'[m] = at[m]
    BY <1>1, <2>1 DEF Receive, TypeOK
  <2> QED BY <1>1, <2>1, <2>2 DEF TypeOK, Flows
<1> QED BY <1>1, <1>2 DEF Inserting, Address

\* What a statement of l does to the table: the row of the address it is at.
LEMMA RowsAfterStatement ==
  ASSUME TypeOK, NEW l \in Listeners, Insert(l) \/ Update(l), NEW a \in Addresses
  PROVE  /\ assets[a] # NoRow => assets'[a] # NoRow
         /\ a # Address(hand[l], at[l]) => assets'[a] = assets[a]
         /\ Insert(l) /\ a = Address(hand[l], at[l]) => assets'[a] # NoRow
<1> DEFINE b == Address(hand[l], at[l])
<1>1. b \in Addresses /\ hand[l] \in Nat /\ at[l] \in Sides /\ HasMac(hand[l], at[l]) \in BOOLEAN
  BY StatementType DEF Insert, Update
<1>2. NewRow(b, hand[l], at[l]) \in Row
  BY <1>1, NewRowType
<1>3. assets[b] # NoRow => Updated(b, assets[b], hand[l], at[l]) \in Row
  <2>1. assets[b] # NoRow => assets[b] \in Row
    BY <1>1 DEF TypeOK
  <2> QED BY <1>1, <2>1, UpdatedType
<1>4. \/ assets' = assets /\ (Insert(l) => assets[b] # NoRow)
      \/ assets' = [assets EXCEPT ![b] = NewRow(b, hand[l], at[l])]
      \/ assets[b] # NoRow /\ ~Insert(l)
         /\ assets' = [assets EXCEPT ![b] = Updated(b, assets[b], hand[l], at[l])]
  BY DEF Insert, Update
<1>5. assets \in [Addresses -> Row \cup {NoRow}]
  BY DEF TypeOK
<1> QED BY <1>1, <1>2, <1>3, <1>4, <1>5, InventoryAssumption

\* At the start nothing is known and nothing is registered.
LEMMA RegistrationInit == Init => Registration
BY DEF Init, Registration, RegisteredOnce, KnownIsRegistered, Inserting

\* Every step keeps the map and the table together.
LEMMA RegistrationNext == TypeOK /\ Registration /\ [Next]_vars => Registration'
<1> SUFFICES ASSUME TypeOK, Registration, [Next]_vars PROVE Registration'
  OBVIOUS
<1> USE DEF Registration, RegisteredOnce, KnownIsRegistered
\* A step that changes neither the map nor the table, nor what is inserted.
<1>0. ASSUME known' = known, assets' = assets, failed' = failed,
             \A m \in Listeners, a \in Addresses : Inserting(m, a)' <=> Inserting(m, a)
      PROVE  Registration'
  BY <1>0 DEF TypeOK
<1>1. ASSUME NEW l \in Listeners, NEW r \in Records, Receive(l, r) PROVE Registration'
  <2>1. \A m \in Listeners, a \in Addresses : Inserting(m, a)' <=> Inserting(m, a)
    BY <1>1, InsertingReceive
  <2> QED BY <1>0, <1>1, <2>1 DEF Receive, tables
<1>2. ASSUME NEW l \in Listeners, Skip(l) \/ Link(l) \/ SkipLink(l) PROVE Registration'
  <2>1. /\ GoOn(l) /\ observed' = observed /\ known' = known /\ assets' = assets
        /\ failed' = failed
    BY <1>2 DEF Skip, Link, SkipLink, tables, history
  <2>2. \A m \in Listeners, a \in Addresses : Inserting(m, a)' <=> Inserting(m, a)
    <3>1. stmt[l] = "none"
      BY <1>2, NoStatement
    <3> QED BY <2>1, <3>1, InsertingGoOn DEF Inserting
  <2> QED BY <1>0, <2>1, <2>2
<1>3. ASSUME NEW l \in Listeners, Look(l) PROVE Registration'
  <2>1. hand[l] \in Flows /\ at[l] \in Sides
    BY <1>3 DEF Look, TypeOK, Sides
  <2>2. PICK b \in Addresses : b = Address(hand[l], at[l])
    BY <2>1, <1>3, InHandType DEF Look, Ignored
  <2>3. /\ known' = known \cup {b} /\ assets' = assets /\ failed' = failed /\ at' = at
        /\ hand' = hand /\ observed' = observed /\ stmt[l] = "none"
        /\ stmt' = [stmt EXCEPT ![l] = IF b \in known THEN "update" ELSE "insert"]
    BY <1>3, <2>2 DEF Look, Marked, tables, history
  <2>4. \A m \in Listeners, a \in Addresses :
          Inserting(m, a)' <=> Inserting(m, a) \/ (m = l /\ a = b /\ b \notin known)
    BY <2>2, <2>3 DEF Inserting, Address, TypeOK
  <2>5. \A m \in Listeners, a \in Addresses : Inserting(m, a) => a \in known
    BY StatementType DEF Inserting
  <2>6. RegisteredOnce'
    BY <2>3, <2>4, <2>5
  <2>7. \A a \in known : \/ assets[a] # NoRow
                         \/ \E m \in Listeners : Inserting(m, a)'
                         \/ a \in failed
    BY <2>4 DEF TypeOK
  <2>8. assets[b] # NoRow \/ (\E m \in Listeners : Inserting(m, b)') \/ b \in failed
    BY <2>2, <2>4, <2>7
  <2>9. \A a \in Addresses : assets'[a] # NoRow => a \in known'
    BY <2>3
  <2>10. KnownIsRegistered'
    BY <2>3, <2>7, <2>8, <2>9
  <2> QED BY <2>6, <2>10
<1>4. ASSUME NEW l \in Listeners, Insert(l) \/ Update(l) PROVE Registration'
  <2>1. GoOn(l) /\ observed' = observed /\ known' = known /\ failed' = failed /\ stmt[l] # "none"
    BY <1>4 DEF Insert, Update
  <2>2. \A m \in Listeners, a \in Addresses : Inserting(m, a)' <=> m # l /\ Inserting(m, a)
    BY <2>1, InsertingGoOn
  <2>3. \A a \in Addresses : a # Address(hand[l], at[l]) => assets'[a] = assets[a]
    BY <1>4, RowsAfterStatement
  <2>4. \A a \in Addresses : assets[a] # NoRow => assets'[a] # NoRow
    BY <1>4, RowsAfterStatement
  <2>5. Address(hand[l], at[l]) \in known
    BY <2>1, StatementType
  <2>6. ASSUME NEW a \in Addresses, NEW m \in Listeners, Inserting(m, a)'
        PROVE  assets'[a] = NoRow /\ \A k \in Listeners : Inserting(k, a)' => k = m
    <3>1. m # l /\ Inserting(m, a) /\ assets[a] = NoRow
      BY <2>2, <2>6
    <3>2. CASE Insert(l)
      <4>1. Inserting(l, Address(hand[l], at[l]))
        BY <3>2 DEF Insert, Inserting
      <4>2. a # Address(hand[l], at[l])
        BY <3>1, <4>1
      <4> QED BY <2>2, <2>3, <3>1, <4>2
    <3>3. CASE Update(l)
      <4>1. a = Address(hand[l], at[l]) => assets'[a] = assets[a]
        BY <3>1, <3>3 DEF Update
      <4> QED BY <2>2, <2>3, <3>1, <4>1
    <3> QED BY <1>4, <3>2, <3>3
  <2>7. ASSUME NEW a \in known
        PROVE  assets'[a] # NoRow \/ (\E m \in Listeners : Inserting(m, a)') \/ a \in failed
    <3>0. a \in Addresses
      BY DEF TypeOK
    <3>1. CASE assets[a] # NoRow
      BY <3>0, <3>1, <2>4
    <3>2. CASE \E m \in Listeners : Inserting(m, a)
      <4>1. PICK m \in Listeners : Inserting(m, a)
        BY <3>2
      <4>2. CASE m = l
        BY <3>0, <4>1, <4>2, <1>4, RowsAfterStatement DEF Inserting, Update
      <4>3. CASE m # l
        BY <3>0, <4>1, <4>3, <2>2
      <4> QED BY <4>2, <4>3
    <3> QED BY <3>1, <3>2
  <2>8. \A a \in Addresses : assets'[a] # NoRow => a \in known
    BY <2>3, <2>5
  <2> QED BY <2>1, <2>6, <2>7, <2>8
<1>5. ASSUME NEW l \in Listeners, Fail(l) PROVE Registration'
  <2>1. GoOn(l) /\ observed' = observed /\ known' = known /\ assets' = assets
    BY <1>5 DEF Fail, tables
  <2>2. \A m \in Listeners, a \in Addresses : Inserting(m, a)' <=> m # l /\ Inserting(m, a)
    BY <2>1, InsertingGoOn
  <2>3. \A a \in Addresses : Inserting(l, a) \/ a \in failed => a \in failed'
    BY <1>5 DEF Fail, Inserting
  <2> QED BY <2>1, <2>2, <2>3 DEF TypeOK
<1>6. CASE Restart
  <2>1. \A m \in Listeners, a \in Addresses : ~Inserting(m, a)'
    BY <1>6 DEF Restart, Inserting
  <2>2. assets' = assets /\ known' = {a \in Addresses : assets[a] # NoRow}
    BY <1>6 DEF Restart, Loaded, tables
  <2> QED BY <2>1, <2>2
<1>7. CASE UNCHANGED vars
  <2>1. \A m \in Listeners, a \in Addresses : Inserting(m, a)' <=> Inserting(m, a)
    BY <1>7 DEF vars, listener, history, Inserting, Address
  <2> QED BY <1>0, <1>7, <2>1 DEF vars, tables
<1> QED BY <1>1, <1>2, <1>3, <1>4, <1>5, <1>6, <1>7 DEF Next, Observe

\* Every address the map knows has a row, one INSERT under way, or a failure.
LEMMA RegistrationAlways == Spec => [](TypeOK /\ Registration)
BY TypeInit, TypeNext, RegistrationInit, RegistrationNext, PTL DEF Spec

\* An address has one INSERT under way at most (cmdb.go:195-200), however the
\* three listeners mix and whether statements fail or the collector restarts.
THEOREM OnceCorrect == Spec => []RegisteredOnce
BY RegistrationAlways, PTL DEF Registration

\* The map in memory is ahead of the table only by INSERTs under way, and by
\* those that failed, for which nothing takes the mark back (cmdb.go:198).
THEOREM KnownCorrect == Spec => []KnownIsRegistered
BY RegistrationAlways, PTL DEF Registration

-----------------------------------------------------------------------------
(* Scores and categories.                                                  *)

\* A step leaves a row as it is, stores a new one or updates it for a flow.
LEMMA RowStep ==
  ASSUME TypeOK, [Next]_vars, NEW a \in Addresses
  PROVE  \/ assets'[a] = assets[a]
         \/ \E f \in Flows, s \in Sides :
              /\ HasMac(f, s) \in BOOLEAN
              /\ \/ assets[a] = NoRow /\ assets'[a] = NewRow(a, f, s)
                 \/ assets[a] \in Row /\ assets'[a] = Updated(a, assets[a], f, s)
<1>1. ASSUME NEW l \in Listeners, Insert(l) \/ Update(l)
      PROVE  \/ assets'[a] = assets[a]
             \/ \E f \in Flows, s \in Sides :
                  /\ HasMac(f, s) \in BOOLEAN
                  /\ \/ assets[a] = NoRow /\ assets'[a] = NewRow(a, f, s)
                     \/ assets[a] \in Row /\ assets'[a] = Updated(a, assets[a], f, s)
  <2>1. /\ hand[l] \in Flows /\ at[l] \in Sides /\ HasMac(hand[l], at[l]) \in BOOLEAN
        /\ assets \in [Addresses -> Row \cup {NoRow}]
    BY <1>1, StatementType DEF Insert, Update, TypeOK
  <2>2. CASE a # Address(hand[l], at[l])
    BY <1>1, <2>2, RowsAfterStatement
  <2>3. CASE a = Address(hand[l], at[l]) /\ Insert(l)
    <3>1. \/ assets' = assets
          \/ assets[a] = NoRow /\ assets' = [assets EXCEPT ![a] = NewRow(a, hand[l], at[l])]
      BY <2>3 DEF Insert
    <3> QED BY <2>1, <3>1
  <2>4. CASE a = Address(hand[l], at[l]) /\ Update(l)
    <3>1. \/ assets' = assets
          \/ /\ assets[a] # NoRow
             /\ assets' = [assets EXCEPT ![a] = Updated(a, assets[a], hand[l], at[l])]
      BY <2>4 DEF Update
    <3> QED BY <2>1, <3>1
  <2> QED BY <1>1, <2>2, <2>3, <2>4
<1>2. ASSUME NEW l \in Listeners,
             Skip(l) \/ Look(l) \/ Link(l) \/ SkipLink(l) \/ Fail(l)
             \/ \E r \in Records : Receive(l, r)
      PROVE  assets' = assets
  BY <1>2 DEF Skip, Look, Link, SkipLink, Fail, Receive, tables
<1>3. CASE Restart \/ UNCHANGED vars
  BY <1>3 DEF Restart, vars, tables
<1> QED BY <1>1, <1>2, <1>3 DEF Next, Observe

\* The new row of a device has a category that fits it.
LEMMA NewCategory ==
  ASSUME NEW a \in Addresses, NEW f, NEW s \in Sides
  PROVE  FitsCategory(a, NewRow(a, f, s))
<1> DEFINE row == NewRow(a, f, s)
<1>1. Role[a] \in {"router", "switch", "sensor", "host"}
  BY InventoryAssumption DEF Roles
<1>2. /\ row.src = One(s, "src") /\ row.dst = One(s, "dst")
      /\ row.category = Classify(a, One(s, "src"), One(s, "dst"))
  BY DEF NewRow
<1> SUFFICES FitsCategory(a, row)
  OBVIOUS
<1> HIDE DEF row
<1>3. CASE Role[a] # "host"
  BY <1>1, <1>2, <1>3 DEF Classify, RoleCategory, FitsCategory
<1>4. CASE Role[a] = "host" /\ s = "dst"
  <2>1. row.src = 0 /\ row.dst = 1
    BY <1>2, <1>4 DEF One
  <2>2. row.category = "SHADOW"
    BY <1>2, <1>4, InventoryAssumption DEF One, Classify, ShadowOnly
  <2> QED BY <1>4, <2>1, <2>2, InventoryAssumption DEF FitsCategory, HostCategory
<1>5. CASE Role[a] = "host" /\ s = "src"
  <2>1. row.src = 1 /\ row.dst = 0
    BY <1>2, <1>5 DEF One
  <2>2. ~ShadowOnly(1, 0) /\ ~Server(1, 0) /\ ~(1 > Limits.workstation)
    BY InventoryAssumption DEF ShadowOnly, Server
  <2>3. row.category = "UNKNOWN"
    BY <1>2, <1>5, <2>1, <2>2 DEF Classify
  <2> QED BY <1>5, <2>1, <2>3, InventoryAssumption DEF FitsCategory, HostCategory
<1> QED BY <1>1, <1>3, <1>4, <1>5 DEF Sides

\* The rules of the UPDATE, with the old category where none of them matches,
\* keep the category in step with the counters.
LEMMA UpdatedCategory ==
  ASSUME NEW a \in Addresses, NEW row \in Row, NEW f \in Nat, NEW s \in Sides,
         HasMac(f, s) \in BOOLEAN, FitsCategory(a, row)
  PROVE  FitsCategory(a, Updated(a, row, f, s))
<1> DEFINE new == Updated(a, row, f, s)
<1>1. Role[a] \in {"router", "switch", "sensor", "host"}
  BY InventoryAssumption DEF Roles
<1>2. /\ new.src = row.src + One(s, "src") /\ new.dst = row.dst + One(s, "dst")
      /\ new.category = Recategorised(a, new.src, new.dst, row.category)
  BY UpdatedType
<1>3. row.src \in Nat /\ row.dst \in Nat /\ new.src \in Nat /\ new.dst \in Nat
  BY <1>2 DEF Row, One
<1>4. new.src >= row.src /\ new.dst >= row.dst
  BY <1>2, <1>3 DEF One
<1> SUFFICES FitsCategory(a, new)
  OBVIOUS
<1> HIDE DEF new
<1>5. CASE Role[a] # "host"
  BY <1>1, <1>2, <1>5 DEF Recategorised, RoleCategory, FitsCategory
<1>6. CASE Role[a] = "host"
  <2>0. /\ Limits.shadow \in Nat /\ Limits.server \in Nat /\ Limits.workstation \in Nat
        /\ Limits.scanner \in Nat /\ Limits.workstation <= Limits.scanner
        /\ 0 < Limits.workstation
    BY InventoryAssumption
  <2>1. CASE ShadowOnly(new.src, new.dst)
    BY <1>2, <1>3, <1>6, <2>0, <2>1 DEF Recategorised, FitsCategory, HostCategory, ShadowOnly
  <2>2. CASE ~ShadowOnly(new.src, new.dst) /\ Server(new.src, new.dst)
    <3>1. new.category = "SERVER"
      BY <1>2, <1>6, <2>2 DEF Recategorised
    <3>2. ~(new.src = 0 /\ new.dst < Limits.shadow)
      BY <2>2 DEF ShadowOnly
    <3>3. new.dst > Limits.server /\ new.dst > new.src * Limits.ratio
      BY <2>2 DEF Server
    <3> QED BY <1>6, <3>1, <3>2, <3>3 DEF FitsCategory, HostCategory
  <2>3. CASE ~ShadowOnly(new.src, new.dst) /\ ~Server(new.src, new.dst)
             /\ new.src > Limits.workstation
    <3>1. new.category = IF new.src > Limits.scanner THEN "SCANNER" ELSE "WORKSTATION"
      BY <1>2, <1>6, <2>3 DEF Recategorised
    <3>2. ~(new.src = 0 /\ new.dst < Limits.shadow)
      BY <2>3 DEF ShadowOnly
    <3> QED BY <1>3, <1>6, <2>0, <2>3, <3>1, <3>2 DEF FitsCategory, HostCategory
  <2>4. CASE ~ShadowOnly(new.src, new.dst) /\ ~Server(new.src, new.dst)
             /\ ~(new.src > Limits.workstation)
    <3>1. new.category = row.category /\ new.src <= Limits.workstation
      BY <1>2, <1>3, <1>6, <2>0, <2>4 DEF Recategorised
    <3>2. ~(new.src = 0 /\ new.dst < Limits.shadow)
      BY <2>4 DEF ShadowOnly
    <3>3. /\ row.category \in {"SHADOW", "SERVER", "SCANNER", "WORKSTATION", "UNKNOWN"}
          /\ row.category = "SERVER" => row.dst > Limits.server
          /\ row.category = "SCANNER" => row.src > Limits.scanner
          /\ row.category = "WORKSTATION" => row.src > Limits.workstation
      BY <1>6 DEF FitsCategory, HostCategory
    <3>4. row.category \notin {"SCANNER", "WORKSTATION"}
      BY <1>3, <1>4, <2>0, <3>1, <3>3
    <3>5. new.category = "SERVER" => new.dst > Limits.server
      BY <1>3, <1>4, <2>0, <3>1, <3>3
    <3> QED BY <1>6, <3>1, <3>2, <3>3, <3>4, <3>5 DEF FitsCategory, HostCategory
  <2> QED BY <2>1, <2>2, <2>3, <2>4
<1> QED BY <1>5, <1>6

\* At the start there are no rows.
LEMMA FitInit == Init => ScoreFitsRow /\ CategoryFitsRow
BY DEF Init, ScoreFitsRow, CategoryFitsRow

\* Every step leaves rows whose score and category fit.
LEMMA FitNext ==
  TypeOK /\ ScoreFitsRow /\ CategoryFitsRow /\ [Next]_vars => ScoreFitsRow' /\ CategoryFitsRow'
<1> SUFFICES ASSUME TypeOK, ScoreFitsRow, CategoryFitsRow, [Next]_vars,
                    NEW a \in Addresses, assets'[a] # NoRow
             PROVE  /\ assets'[a].stealth
                         = StealthScore(assets'[a].src, assets'[a].dst, assets'[a].mac)
                    /\ FitsCategory(a, assets'[a])
  BY DEF ScoreFitsRow, CategoryFitsRow, FitsCategory
<1>1. CASE assets'[a] = assets[a]
  BY <1>1 DEF ScoreFitsRow, CategoryFitsRow
<1>2. CASE \E f \in Flows, s \in Sides :
             /\ HasMac(f, s) \in BOOLEAN
             /\ assets[a] = NoRow /\ assets'[a] = NewRow(a, f, s)
  BY <1>2, NewCategory DEF NewRow
<1>3. CASE \E f \in Flows, s \in Sides :
             /\ HasMac(f, s) \in BOOLEAN
             /\ assets[a] \in Row /\ assets'[a] = Updated(a, assets[a], f, s)
  <2>1. PICK f \in Flows, s \in Sides :
          /\ HasMac(f, s) \in BOOLEAN
          /\ assets[a] \in Row /\ assets'[a] = Updated(a, assets[a], f, s)
    BY <1>3
  <2>2. f \in Nat /\ FitsCategory(a, assets[a])
    BY <2>1, InventoryAssumption DEF Flows, CategoryFitsRow
  <2>3. FitsCategory(a, Updated(a, assets[a], f, s))
    BY <2>1, <2>2, UpdatedCategory
  <2>4. Updated(a, assets[a], f, s).stealth
          = StealthScore(Updated(a, assets[a], f, s).src, Updated(a, assets[a], f, s).dst,
                         Updated(a, assets[a], f, s).mac)
    BY <2>1, <2>2, UpdatedType
  <2> QED BY <2>1, <2>3, <2>4
<1> QED BY <1>1, <1>2, <1>3, RowStep

\* Score and category of a row fit its counters.
LEMMA FitAlways == Spec => [](TypeOK /\ ScoreFitsRow /\ CategoryFitsRow)
BY TypeInit, TypeNext, FitInit, FitNext, PTL DEF Spec

\* The stealth score of a row is that of the counters beside it, although the
\* statement computes it from the old ones (cmdb.go:249-258).
THEOREM ScoreCorrect == Spec => []ScoreFitsRow
BY FitAlways, PTL

\* The category of a row fits its counters for every threshold, although the
\* statement keeps the old category where no rule applies (cmdb.go:261-271).
THEOREM CategoryCorrect == Spec => []CategoryFitsRow
BY FitAlways, PTL

-----------------------------------------------------------------------------
(* What becomes of the flows. Each part of a flow is ahead of a listener,  *)
(* and moves once, to what is counted or to what is missed.                *)

\* No flow is in two hands.
OwnHands == \A l, m \in Listeners : at[l] # "idle" /\ hand[l] = hand[m] => l = m

Disjoint == counted \cap missed = {} /\ counted \cap Ahead = {} /\ missed \cap Ahead = {}

Placed ==
  \A f \in Flows, s \in Parts : Relevant(f, s) => <<f, s>> \in counted \cup missed \cup Ahead

Ledger == OwnHands /\ Disjoint /\ Placed

\* Going on takes the part a listener is at from what is ahead, and nothing else.
LEMMA PartMoves ==
  ASSUME TypeOK, OwnHands, NEW l \in Listeners, at[l] # "idle", GoOn(l), observed' = observed
  PROVE  /\ <<hand[l], at[l]>> \in Ahead
         /\ Ahead' = Ahead \ {<<hand[l], at[l]>>}
         /\ OwnHands'
<1>1. at[l] \in {"src", "dst", "link"} /\ hand[l] \in Flows /\ hand[l] # 0
  BY DEF TypeOK, Flows
<1>2. /\ at'[l] = Following[at[l]] /\ hand'[l] = (IF at[l] = "link" THEN 0 ELSE hand[l])
      /\ \A m \in Listeners : m # l => at'[m] = at[m] /\ hand'[m] = hand[m]
      /\ Flows' = Flows
  BY DEF TypeOK, GoOn, Flows
<1>3. Following[at[l]] = "idle" <=> at[l] = "link"
  BY <1>1 DEF Following
<1>4. Stages(Following[at[l]]) = Stages(at[l]) \ {at[l]} /\ at[l] \in Stages(at[l])
      /\ at[l] \in Parts
  <2>1. /\ Stages("src") = {"src", "dst", "link"} /\ Stages("dst") = {"dst", "link"}
        /\ Stages("link") = {"link"} /\ Stages("idle") = {}
    BY DEF Stages
  <2>2. Following["src"] = "dst" /\ Following["dst"] = "link" /\ Following["link"] = "idle"
    BY DEF Following
  <2> QED BY <1>1, <2>1, <2>2 DEF Parts
<1>5. <<hand[l], at[l]>> \in Ahead
  BY <1>1, <1>4 DEF Ahead
<1>6. OwnHands'
  <2> SUFFICES ASSUME NEW m \in Listeners, NEW k \in Listeners,
                      at'[m] # "idle", hand'[m] = hand'[k]
               PROVE  m = k
    BY DEF OwnHands
  <2>1. hand'[m] = hand[m] /\ at[m] # "idle"
    BY <1>1, <1>2, <1>3
  <2>2. hand[m] \in Flows /\ hand[m] # 0
    BY <2>1 DEF TypeOK, Flows
  <2>3. hand'[k] = hand[k]
    BY <1>2, <2>1, <2>2
  <2> QED BY <2>1, <2>3 DEF OwnHands
<1>7. ASSUME NEW f \in Flows, NEW s \in Parts
      PROVE  <<f, s>> \in Ahead' <=> <<f, s>> \in Ahead /\ ~(f = hand[l] /\ s = at[l])
  <2>1. <<f, s>> \in Ahead' <=> \E m \in Listeners : hand'[m] = f /\ s \in Stages(at'[m])
    BY <1>2, <1>7 DEF Ahead
  <2>2. <<f, s>> \in Ahead <=> \E m \in Listeners : hand[m] = f /\ s \in Stages(at[m])
    BY <1>7 DEF Ahead
  <2>3. f # 0
    BY <1>7 DEF Flows
  <2>4. hand'[l] = f /\ s \in Stages(at'[l]) <=>
          hand[l] = f /\ s \in Stages(at[l]) /\ s # at[l]
    <3>1. CASE at[l] = "link"
      <4>1. Stages(at[l]) \ {at[l]} = {}
        BY <3>1 DEF Stages
      <4> QED BY <1>2, <1>4, <2>3, <3>1, <4>1
    <3>2. CASE at[l] # "link"
      BY <1>2, <1>4, <3>2
    <3> QED BY <3>1, <3>2
  <2>5. \A m \in Listeners : m # l /\ hand[m] = f => f # hand[l]
    BY DEF OwnHands
  <2> QED BY <1>2, <2>1, <2>2, <2>4, <2>5
<1>8. Ahead' \subseteq Flows \X Parts /\ Ahead \subseteq Flows \X Parts
  BY <1>2 DEF Ahead
<1>9. Ahead' = Ahead \ {<<hand[l], at[l]>>}
  BY <1>7, <1>8
<1> QED BY <1>5, <1>6, <1>9

\* A statement stores its part or misses it; what is not about an address, or
\* not about a link, is in no table.
LEMMA PartOutcome ==
  ASSUME TypeOK, NEW l \in Listeners,
         Skip(l) \/ Insert(l) \/ Update(l) \/ Link(l) \/ SkipLink(l) \/ Fail(l)
  PROVE  /\ GoOn(l) /\ observed' = observed /\ at[l] # "idle"
         /\ <<hand[l], at[l]>> \in Flows \X Parts
         /\ \/ counted' = counted \cup {<<hand[l], at[l]>>} /\ missed' = missed
            \/ counted' = counted /\ missed' = missed \cup {<<hand[l], at[l]>>}
            \/ counted' = counted /\ missed' = missed /\ ~Relevant(hand[l], at[l])
<1>1. at[l] # "idle"
  BY StatementType DEF Skip, Insert, Update, Link, SkipLink, Fail, Sides
<1>2. <<hand[l], at[l]>> \in Flows \X Parts
  BY <1>1 DEF TypeOK, Parts
<1>3. CASE Skip(l)
  BY <1>1, <1>2, <1>3 DEF Skip, history, Relevant, Ignored, Sides
<1>4. CASE SkipLink(l)
  BY <1>1, <1>2, <1>4 DEF SkipLink, history, Relevant
<1>5. CASE Insert(l) \/ Update(l)
  BY <1>1, <1>2, <1>5 DEF Insert, Update
<1>6. CASE Link(l)
  BY <1>1, <1>2, <1>6 DEF Link
<1>7. CASE Fail(l)
  BY <1>1, <1>2, <1>7 DEF Fail
<1> QED BY <1>3, <1>4, <1>5, <1>6, <1>7

LEMMA LedgerInit == Init => Ledger
<1> SUFFICES ASSUME Init PROVE Ledger
  OBVIOUS
<1>1. Flows = {}
  BY DEF Init, Flows
<1> QED BY <1>1 DEF Init, Ledger, OwnHands, Disjoint, Placed

\* A flow that comes in is ahead with all its parts, and nothing else changes place.
LEMMA AheadReceive ==
  ASSUME TypeOK, NEW l \in Listeners, NEW r \in Records, Receive(l, r)
  PROVE  /\ Flows' = Flows \cup {Len(observed) + 1} /\ Len(observed) + 1 \notin Flows
         /\ Ahead' = Ahead \cup ({Len(observed) + 1} \X Parts)
         /\ \A f \in Flows : observed'[f] = observed[f]
<1> DEFINE n == Len(observed) + 1
<1>1. /\ Flows' = Flows \cup {n} /\ n \notin Flows /\ n \in Nat
      /\ \A f \in Flows : observed'[f] = observed[f]
  BY DEF Receive, TypeOK, Flows
<1>2. /\ at[l] = "idle" /\ hand[l] = 0 /\ at'[l] = "src" /\ hand'[l] = n
      /\ \A m \in Listeners : m # l => at'[m] = at[m] /\ hand'[m] = hand[m]
  BY <1>1 DEF Receive, TypeOK
<1>3. Stages("src") = Parts /\ Stages("idle") = {}
  BY DEF Stages, Parts
<1>4. \A m \in Listeners : Stages(at[m]) # {} => hand[m] \in Flows
  BY <1>3 DEF TypeOK
<1> HIDE DEF n
<1>5. ASSUME NEW f \in Flows', NEW s \in Parts
      PROVE  <<f, s>> \in Ahead' <=> <<f, s>> \in Ahead \/ f = n
  <2>1. <<f, s>> \in Ahead' <=> \E m \in Listeners : hand'[m] = f /\ s \in Stages(at'[m])
    BY <1>5 DEF Ahead
  <2>2. <<f, s>> \in Ahead <=> \E m \in Listeners : hand[m] = f /\ s \in Stages(at[m])
    BY <1>1, <1>4, <1>5 DEF Ahead
  <2> QED BY <1>1, <1>2, <1>3, <1>4, <2>1, <2>2
<1>6. Ahead' \subseteq Flows' \X Parts /\ Ahead \subseteq Flows' \X Parts
      /\ {n} \X Parts \subseteq Flows' \X Parts
  BY <1>1 DEF Ahead
<1>7. Ahead' = Ahead \cup ({n} \X Parts)
  BY <1>5, <1>6
<1> QED BY <1>1, <1>7 DEF n

\* Every step keeps the ledger.
LEMMA LedgerNext == TypeOK /\ Ledger /\ [Next]_vars => Ledger'
<1> SUFFICES ASSUME TypeOK, Ledger, [Next]_vars PROVE Ledger'
  OBVIOUS
<1>0. OwnHands /\ Disjoint /\ Placed
  BY DEF Ledger
<1>1. ASSUME NEW l \in Listeners, NEW r \in Records, Receive(l, r) PROVE Ledger'
  <2>1. /\ Flows' = Flows \cup {Len(observed) + 1} /\ Len(observed) + 1 \notin Flows
        /\ Ahead' = Ahead \cup ({Len(observed) + 1} \X Parts)
        /\ \A f \in Flows : observed'[f] = observed[f]
    BY <1>1, AheadReceive
  <2>2. counted' = counted /\ missed' = missed
    BY <1>1 DEF Receive
  <2>3. Disjoint'
    BY <1>0, <2>1, <2>2 DEF Disjoint, TypeOK
  <2>4. Placed'
    <3> SUFFICES ASSUME NEW f \in Flows', NEW s \in Parts, Relevant(f, s)'
                 PROVE  <<f, s>> \in counted' \cup missed' \cup Ahead'
      BY DEF Placed
    <3>1. CASE f = Len(observed) + 1
      BY <2>1, <3>1
    <3>2. CASE f \in Flows
      <4>1. Relevant(f, s)
        BY <2>1, <3>2 DEF Relevant, Linked, Address
      <4> QED BY <1>0, <2>1, <2>2, <3>2, <4>1 DEF Placed
    <3> QED BY <2>1, <3>1, <3>2
  <2>5. OwnHands'
    <3>1. /\ hand'[l] = Len(observed) + 1
          /\ \A m \in Listeners : m # l => at'[m] = at[m] /\ hand'[m] = hand[m]
      BY <1>1 DEF Receive, TypeOK
    <3>2. \A m \in Listeners : hand[m] \in Flows \cup {0}
      BY DEF TypeOK
    <3>3. Len(observed) + 1 # 0
      BY DEF TypeOK
    <3>4. \A m \in Listeners : m # l => hand[m] # Len(observed) + 1
      BY <2>1, <3>2, <3>3
    <3> QED BY <1>0, <3>1, <3>4 DEF OwnHands
  <2> QED BY <2>3, <2>4, <2>5 DEF Ledger
<1>2. ASSUME NEW l \in Listeners,
             Skip(l) \/ Insert(l) \/ Update(l) \/ Link(l) \/ SkipLink(l) \/ Fail(l)
      PROVE  Ledger'
  <2>1. PICK f \in Flows, s \in Parts : f = hand[l] /\ s = at[l]
    BY <1>2, PartOutcome
  <2>2. /\ GoOn(l) /\ observed' = observed /\ at[l] # "idle"
        /\ \/ counted' = counted \cup {<<f, s>>} /\ missed' = missed
           \/ counted' = counted /\ missed' = missed \cup {<<f, s>>}
           \/ counted' = counted /\ missed' = missed /\ ~Relevant(f, s)
    BY <1>2, <2>1, PartOutcome
  <2>3. <<f, s>> \in Ahead /\ Ahead' = Ahead \ {<<f, s>>} /\ OwnHands'
    BY <1>0, <2>1, <2>2, PartMoves
  <2>4. Disjoint'
    BY <1>0, <2>2, <2>3 DEF Disjoint
  <2>5. ASSUME NEW g \in Flows, NEW p \in Parts, Relevant(g, p)
        PROVE  <<g, p>> \in counted' \cup missed' \cup Ahead'
    BY <1>0, <2>2, <2>3, <2>5 DEF Placed
  <2>6. Placed'
    BY <2>2, <2>5 DEF Placed, Relevant, Linked, Address, Flows
  <2> QED BY <2>3, <2>4, <2>6 DEF Ledger
<1>3. ASSUME NEW l \in Listeners, Look(l) PROVE Ledger'
  BY <1>0, <1>3 DEF Look, Ledger, OwnHands, Disjoint, Placed, Ahead, Relevant, Linked, Address,
                    Flows, history
<1>4. CASE Restart
  <2>1. /\ missed' = missed \cup Ahead /\ counted' = counted /\ observed' = observed
        /\ at' = [l \in Listeners |-> "idle"]
    BY <1>4 DEF Restart
  <2>2. Ahead' = {}
    BY <2>1 DEF Ahead, Stages
  <2>3. Disjoint' /\ OwnHands'
    BY <1>0, <2>1, <2>2 DEF Disjoint, OwnHands
  <2>4. Placed'
    BY <1>0, <2>1, <2>2 DEF Placed, Relevant, Linked, Address, Flows
  <2> QED BY <2>3, <2>4 DEF Ledger
<1>5. CASE UNCHANGED vars
  BY <1>0, <1>5 DEF vars, listener, history, Ledger, OwnHands, Disjoint, Placed, Ahead, Relevant,
                    Linked, Address, Flows
<1> QED BY <1>1, <1>2, <1>3, <1>4, <1>5 DEF Next, Observe

-----------------------------------------------------------------------------
(* The tables, as what is counted in them.                                 *)

\* Flow f is stored as side s of the row of address a.
Stored(l, a, f, s) ==
  /\ hand[l] = f /\ at[l] = s /\ Address(f, s) = a
  /\ counted' = counted \cup {<<f, s>>}
  /\ UNCHANGED <<topology, observed, during>>
  /\ HasMac(f, s) \in BOOLEAN
  /\ \/ assets[a] = NoRow /\ assets' = [assets EXCEPT ![a] = NewRow(a, f, s)]
     \/ assets[a] \in Row /\ assets' = [assets EXCEPT ![a] = Updated(a, assets[a], f, s)]

\* What a step does to the tables: nothing, a flow comes in, a side of it is
\* stored, or its edge.
LEMMA TableStep ==
  ASSUME TypeOK, [Next]_vars
  PROVE  \/ UNCHANGED <<tables, counted, observed, during>>
         \/ \E l \in Listeners, r \in Records : Receive(l, r)
         \/ \E l \in Listeners, a \in Addresses, f \in Flows, s \in Sides : Stored(l, a, f, s)
         \/ \E l \in Listeners : Link(l)
<1>1. ASSUME NEW l \in Listeners, Insert(l) \/ Update(l)
      PROVE  \/ UNCHANGED <<tables, counted, observed, during>>
             \/ \E a \in Addresses, f \in Flows, s \in Sides : Stored(l, a, f, s)
  <2>1. PICK a \in Addresses, f \in Flows, s \in Sides :
          hand[l] = f /\ at[l] = s /\ Address(f, s) = a /\ HasMac(f, s) \in BOOLEAN
    BY <1>1, StatementType DEF Insert, Update
  <2>2. UNCHANGED <<topology, observed, during>>
    BY <1>1 DEF Insert, Update
  <2>3. assets[a] \in Row \cup {NoRow}
    BY DEF TypeOK
  <2>4. CASE Insert(l)
    BY <2>1, <2>2, <2>4 DEF Insert, Stored, tables
  <2>5. CASE Update(l)
    BY <2>1, <2>2, <2>3, <2>5 DEF Update, Stored, tables
  <2> QED BY <1>1, <2>4, <2>5
<1>2. ASSUME NEW l \in Listeners, Skip(l) \/ Look(l) \/ SkipLink(l) \/ Fail(l)
      PROVE  UNCHANGED <<tables, counted, observed, during>>
  BY <1>2 DEF Skip, Look, SkipLink, Fail, history
<1>3. CASE Restart \/ UNCHANGED vars
  BY <1>3 DEF Restart, vars, history
<1> QED BY <1>1, <1>2, <1>3 DEF Next, Observe

\* A stored side is a new part of its address, and of no other.
LEMMA PartsAfterStored ==
  ASSUME TypeOK, Ledger, NEW l \in Listeners, NEW a \in Addresses, NEW f \in Flows,
         NEW s \in Sides, Stored(l, a, f, s)
  PROVE  /\ f \notin PartsOf(a, s)
         /\ \A b \in Addresses, p \in Sides :
              PartsOf(b, p)' = IF b = a /\ p = s THEN PartsOf(b, p) \cup {f} ELSE PartsOf(b, p)
<1>1. <<f, s>> \in Ahead
  <2>1. s \in Stages(s)
    BY DEF Sides, Stages
  <2> QED BY <2>1 DEF Stored, Ahead, Sides, Parts
<1>2. <<f, s>> \notin counted
  BY <1>1 DEF Ledger, Disjoint
<1>3. Flows' = Flows /\ \A g \in Flows, p \in Sides : Address(g, p)' = Address(g, p)
  BY DEF Stored, Flows, Address
<1> QED BY <1>2, <1>3 DEF PartsOf, Stored

\* A set of flows is finite.
LEMMA FiniteParts ==
  ASSUME TypeOK, NEW a, NEW s
  PROVE  IsFiniteSet(PartsOf(a, s)) /\ Cardinality(PartsOf(a, s)) \in Nat
<1>1. IsFiniteSet(Flows)
  BY FS_Interval DEF Flows, TypeOK
<1>2. IsFiniteSet(PartsOf(a, s))
  BY <1>1, FS_Subset DEF PartsOf
<1> QED BY <1>2, FS_CardinalityType

Edges ==
  \A e \in Addresses \X Addresses :
    topology[e] = {f \in Flows : <<f, "link">> \in counted /\ Edge(f) = e}

Counts ==
  \A a \in Addresses :
    IF assets[a] = NoRow THEN PartsOf(a, "src") = {} /\ PartsOf(a, "dst") = {}
    ELSE /\ assets[a].src = Cardinality(PartsOf(a, "src"))
         /\ assets[a].dst = Cardinality(PartsOf(a, "dst"))

Books == Edges /\ Counts

LEMMA BooksInit == Init => Books
<1> SUFFICES ASSUME Init PROVE Books
  OBVIOUS
<1>1. Edges
  BY DEF Init, Edges
<1>2. \A a \in Addresses, s \in Sides : PartsOf(a, s) = {}
  BY DEF Init, PartsOf
<1> QED BY <1>1, <1>2 DEF Init, Books, Counts, Sides

\* Every step keeps the tables and what is counted in them together.
LEMMA BooksNext == TypeOK /\ Ledger /\ Books /\ [Next]_vars => Books'
<1> SUFFICES ASSUME TypeOK, Ledger, Books, [Next]_vars PROVE Books'
  OBVIOUS
<1>0. Edges /\ Counts
  BY DEF Books
\* Rows and their parts unchanged.
<1>1. ASSUME assets' = assets, \A a \in Addresses, s \in Sides : PartsOf(a, s)' = PartsOf(a, s)
      PROVE  Counts'
  BY <1>0, <1>1 DEF Counts, Sides
<1>2. CASE UNCHANGED <<tables, counted, observed, during>>
  <2>1. \A a \in Addresses, s \in Sides : PartsOf(a, s)' = PartsOf(a, s)
    BY <1>2 DEF PartsOf, Address, Flows
  <2>2. Edges'
    BY <1>0, <1>2 DEF Edges, Edge, Flows, tables
  <2> QED BY <1>1, <1>2, <2>1, <2>2 DEF Books, tables
<1>3. ASSUME NEW l \in Listeners, NEW r \in Records, Receive(l, r) PROVE Books'
  <2>1. /\ Flows' = Flows \cup {Len(observed) + 1} /\ Len(observed) + 1 \notin Flows
        /\ \A f \in Flows : observed'[f] = observed[f]
    BY <1>3, AheadReceive
  <2>2. counted' = counted /\ counted \subseteq Flows \X Parts /\ tables' = tables
    BY <1>3 DEF Receive, TypeOK
  <2>3. \A f \in Flows' : \A s : <<f, s>> \in counted' => f \in Flows /\ <<f, s>> \in counted
    BY <2>2
  <2>4. \A a \in Addresses, s \in Sides : PartsOf(a, s)' = PartsOf(a, s)
    BY <2>1, <2>2, <2>3 DEF PartsOf, Address
  <2>5. Edges'
    BY <1>0, <2>1, <2>2, <2>3 DEF Edges, Edge, tables
  <2> QED BY <1>1, <2>2, <2>4, <2>5 DEF Books, tables
<1>4. ASSUME NEW l \in Listeners, NEW a \in Addresses, NEW f \in Flows, NEW s \in Sides,
             Stored(l, a, f, s)
      PROVE  Books'
  <2>1. /\ f \notin PartsOf(a, s)
        /\ \A b \in Addresses, p \in Sides :
             PartsOf(b, p)' = IF b = a /\ p = s THEN PartsOf(b, p) \cup {f} ELSE PartsOf(b, p)
    BY <1>4, PartsAfterStored
  <2>2. Edges'
    <3>1. \A g \in Flows : <<g, "link">> \in counted' <=> <<g, "link">> \in counted
      BY <1>4 DEF Stored, Sides
    <3> QED BY <1>0, <1>4, <3>1 DEF Stored, Edges, Edge, Flows
  <2>3. assets \in [Addresses -> Row \cup {NoRow}] /\ f \in Nat /\ HasMac(f, s) \in BOOLEAN
    BY <1>4 DEF TypeOK, Stored, Flows
  <2>4. \A p \in Sides : Cardinality(PartsOf(a, p))' = Cardinality(PartsOf(a, p)) + One(s, p)
    <3> SUFFICES ASSUME NEW p \in Sides
                 PROVE  Cardinality(PartsOf(a, p))' = Cardinality(PartsOf(a, p)) + One(s, p)
      OBVIOUS
    <3>1. IsFiniteSet(PartsOf(a, p)) /\ Cardinality(PartsOf(a, p)) \in Nat
      BY FiniteParts
    <3>2. CASE p = s
      <4>1. PartsOf(a, p)' = PartsOf(a, p) \cup {f} /\ f \notin PartsOf(a, p)
        BY <2>1, <3>2
      <4>2. Cardinality(PartsOf(a, p) \cup {f}) = Cardinality(PartsOf(a, p)) + 1
        BY <3>1, <4>1, FS_AddElement
      <4> QED BY <3>2, <4>1, <4>2 DEF One
    <3>3. CASE p # s
      <4>1. PartsOf(a, p)' = PartsOf(a, p)
        BY <2>1, <3>3
      <4> QED BY <3>1, <3>3, <4>1 DEF One
    <3> QED BY <3>2, <3>3
  <2>5. /\ assets'[a] # NoRow
        /\ assets'[a].src = Cardinality(PartsOf(a, "src"))'
        /\ assets'[a].dst = Cardinality(PartsOf(a, "dst"))'
    <3>1. CASE assets[a] = NoRow /\ assets' = [assets EXCEPT ![a] = NewRow(a, f, s)]
      <4>1. Cardinality(PartsOf(a, "src")) = 0 /\ Cardinality(PartsOf(a, "dst")) = 0
        BY <1>0, <3>1, FS_EmptySet DEF Counts
      <4>2. assets'[a] = NewRow(a, f, s) /\ NewRow(a, f, s) \in Row
        BY <2>3, <3>1, NewRowType
      <4>3. One(s, "src") \in Nat /\ One(s, "dst") \in Nat
        BY DEF One
      <4>4. NewRow(a, f, s).src = One(s, "src") /\ NewRow(a, f, s).dst = One(s, "dst")
        BY DEF NewRow
      <4> QED BY <2>4, <4>1, <4>2, <4>3, <4>4, InventoryAssumption DEF Sides
    <3>2. CASE assets[a] \in Row /\ assets' = [assets EXCEPT ![a] = Updated(a, assets[a], f, s)]
      <4>1. /\ assets[a].src = Cardinality(PartsOf(a, "src"))
            /\ assets[a].dst = Cardinality(PartsOf(a, "dst"))
        BY <1>0, <3>2, InventoryAssumption DEF Counts
      <4>2. /\ assets'[a] = Updated(a, assets[a], f, s) /\ assets'[a] \in Row
            /\ assets'[a].src = assets[a].src + One(s, "src")
            /\ assets'[a].dst = assets[a].dst + One(s, "dst")
        BY <2>3, <3>2, UpdatedType
      <4> QED BY <2>4, <4>1, <4>2, InventoryAssumption DEF Sides
    <3> QED BY <1>4, <3>1, <3>2 DEF Stored
  <2>6. Counts'
    <3> SUFFICES ASSUME NEW b \in Addresses
                 PROVE  (IF assets[b] = NoRow THEN PartsOf(b, "src") = {} /\ PartsOf(b, "dst") = {}
                         ELSE /\ assets[b].src = Cardinality(PartsOf(b, "src"))
                              /\ assets[b].dst = Cardinality(PartsOf(b, "dst")))'
      BY DEF Counts
    <3>1. CASE b = a
      BY <2>5, <3>1
    <3>2. CASE b # a
      <4>1. assets'[b] = assets[b]
        BY <1>4, <2>3, <3>2 DEF Stored
      <4>2. PartsOf(b, "src")' = PartsOf(b, "src") /\ PartsOf(b, "dst")' = PartsOf(b, "dst")
        BY <2>1, <3>2 DEF Sides
      <4> QED BY <1>0, <4>1, <4>2 DEF Counts
    <3> QED BY <3>1, <3>2
  <2> QED BY <2>2, <2>6 DEF Books
<1>5. ASSUME NEW l \in Listeners, Link(l) PROVE Books'
  <2>1. PICK f \in Flows : f = hand[l]
    BY <1>5 DEF Link, TypeOK
  <2>2. /\ counted' = counted \cup {<<f, "link">>} /\ observed' = observed /\ assets' = assets
        /\ topology' = [topology EXCEPT ![Edge(f)] = topology[Edge(f)] \cup {f}]
    BY <1>5, <2>1 DEF Link
  <2>3. \A a \in Addresses, s \in Sides : PartsOf(a, s)' = PartsOf(a, s)
    BY <2>2 DEF PartsOf, Address, Flows, Sides
  <2>4. Edges'
    <3> SUFFICES ASSUME NEW e \in Addresses \X Addresses
                 PROVE  topology'[e] = {g \in Flows : <<g, "link">> \in counted' /\ Edge(g) = e}
      BY <2>2 DEF Edges, Edge, Flows
    <3>1. topology[e] = {g \in Flows : <<g, "link">> \in counted /\ Edge(g) = e}
      BY <1>0 DEF Edges
    <3>2. topology'[e] = IF e = Edge(f) THEN topology[e] \cup {f} ELSE topology[e]
      BY <2>2 DEF TypeOK
    <3> QED BY <2>2, <3>1, <3>2
  <2> QED BY <1>1, <2>2, <2>3, <2>4 DEF Books
<1> QED BY <1>2, <1>3, <1>4, <1>5, TableStep

\* Ledger and tables together are the accounting of the flows.
LEMMA AccountsFit == TypeOK /\ Ledger /\ Books => EveryFlowAccounted
BY DEF Ledger, Disjoint, Placed, Books, Edges, Counts, EveryFlowAccounted

\* Each part of each flow is in one place, and the tables are the sums of what
\* is counted in them, for any number of listeners, failures and restarts.
THEOREM AccountingCorrect == Spec => []EveryFlowAccounted
<1>1. Spec => [](TypeOK /\ Ledger /\ Books)
  BY TypeInit, TypeNext, LedgerInit, LedgerNext, BooksInit, BooksNext, PTL DEF Spec
<1> QED BY <1>1, AccountsFit, PTL

-----------------------------------------------------------------------------
(* When a device was seen.                                                 *)

\* A flow that is later than one in hand came in while that one was in hand.
Overlap ==
  \A l \in Listeners : at[l] # "idle" =>
    \A f \in Flows : f > hand[l] => hand[l] \in during[f]

LEMMA OverlapInit == Init => Overlap
BY DEF Init, Overlap

LEMMA OverlapNext == TypeOK /\ Overlap /\ [Next]_vars => Overlap'
<1> SUFFICES ASSUME TypeOK, Overlap, [Next]_vars PROVE Overlap'
  OBVIOUS
<1>1. ASSUME NEW l \in Listeners, NEW r \in Records, Receive(l, r) PROVE Overlap'
  <2> DEFINE n == Len(observed) + 1
  <2>1. /\ n \in Nat /\ Flows' = Flows \cup {n} /\ \A f \in Flows : f < n
    BY <1>1 DEF Receive, TypeOK, Flows
  <2>2. /\ during'[n] = {hand[m] : m \in Listeners} \ {0}
        /\ \A f \in Flows : during'[f] = during[f]
    BY <1>1 DEF Receive, TypeOK, Flows
  <2>3. /\ at[l] = "idle" /\ hand'[l] = n
        /\ \A m \in Listeners : m # l => at'[m] = at[m] /\ hand'[m] = hand[m]
    BY <1>1 DEF Receive, TypeOK
  <2>4. \A m \in Listeners : at[m] # "idle" => hand[m] \in Flows /\ hand[m] # 0
    BY DEF TypeOK, Flows
  <2> HIDE DEF n
  <2> SUFFICES ASSUME NEW m \in Listeners, at'[m] # "idle", NEW f \in Flows', f > hand'[m]
               PROVE  hand'[m] \in during'[f]
    BY DEF Overlap
  <2>5. m # l
    <3>1. ASSUME m = l PROVE FALSE
      <4>1. hand'[m] = n /\ (f = n \/ f \in Flows)
        BY <2>1, <2>3, <3>1
      <4>2. f \in Nat
        BY <2>1 DEF Flows
      <4> QED BY <2>1, <4>1, <4>2
    <3> QED BY <3>1
  <2>6. hand'[m] = hand[m] /\ at[m] # "idle" /\ hand[m] # 0
    BY <2>3, <2>4, <2>5
  <2>7. CASE f = n
    BY <2>2, <2>6, <2>7
  <2>8. CASE f \in Flows
    BY <2>2, <2>6, <2>8 DEF Overlap
  <2> QED BY <2>1, <2>7, <2>8
<1>2. ASSUME NEW l \in Listeners,
             Skip(l) \/ Insert(l) \/ Update(l) \/ Link(l) \/ SkipLink(l) \/ Fail(l)
      PROVE  Overlap'
  <2>1. GoOn(l) /\ observed' = observed /\ at[l] # "idle" /\ during' = during
    BY <1>2, PartOutcome DEF Skip, Insert, Update, Link, SkipLink, Fail, history
  <2>2. \A m \in Listeners : at'[m] # "idle" => at[m] # "idle" /\ hand'[m] = hand[m]
    BY <2>1 DEF GoOn, TypeOK, Following
  <2> QED BY <2>1, <2>2 DEF Overlap, Flows
<1>3. ASSUME NEW l \in Listeners, Look(l) PROVE Overlap'
  BY <1>3 DEF Look, Overlap, Flows, history
<1>4. CASE Restart
  BY <1>4 DEF Restart, Overlap
<1>5. CASE UNCHANGED vars
  BY <1>5 DEF vars, listener, history, Overlap, Flows
<1> QED BY <1>1, <1>2, <1>3, <1>4, <1>5 DEF Next, Observe

\* The times of a row are flows, and SeenWithinOverlap.
SeenTimes ==
  \A a \in Addresses : assets[a] # NoRow => assets[a].first \in Flows /\ assets[a].last \in Flows

SeenOrder ==
  \A f \in Flows, s \in Sides : <<f, s>> \in counted =>
    /\ Address(f, s) \in Addresses /\ assets[Address(f, s)] # NoRow
    /\ f > assets[Address(f, s)].last  => assets[Address(f, s)].last \in during[f]
    /\ f < assets[Address(f, s)].first => f \in during[assets[Address(f, s)].first]

Seen == SeenTimes /\ SeenOrder

LEMMA SeenInit == Init => Seen
BY DEF Init, Seen, SeenTimes, SeenOrder, Flows

\* Every step keeps the times within an overlap.
LEMMA SeenNext == TypeOK /\ Ledger /\ Books /\ Overlap /\ Seen /\ [Next]_vars => Seen'
<1> SUFFICES ASSUME TypeOK, Ledger, Books, Overlap, Seen, [Next]_vars PROVE Seen'
  OBVIOUS
<1>0. SeenTimes /\ SeenOrder
  BY DEF Seen
<1>1. CASE UNCHANGED <<tables, counted, observed, during>>
  BY <1>0, <1>1 DEF Seen, SeenTimes, SeenOrder, Address, Flows, tables
<1>2. ASSUME NEW l \in Listeners, NEW r \in Records, Receive(l, r) PROVE Seen'
  <2>1. /\ Flows' = Flows \cup {Len(observed) + 1} /\ Len(observed) + 1 \notin Flows
        /\ \A f \in Flows : observed'[f] = observed[f]
    BY <1>2, AheadReceive
  <2>2. \A f \in Flows : during'[f] = during[f]
    BY <1>2 DEF Receive, TypeOK, Flows
  <2>3. counted' = counted /\ counted \subseteq Flows \X Parts /\ assets' = assets
    BY <1>2 DEF Receive, TypeOK, tables
  <2>4. SeenTimes'
    BY <1>0, <2>1, <2>3 DEF SeenTimes
  <2>5. ASSUME NEW f \in Flows', NEW s \in Sides, <<f, s>> \in counted'
        PROVE  /\ Address(f, s)' \in Addresses /\ assets'[Address(f, s)'] # NoRow
               /\ f > assets'[Address(f, s)'].last  => assets'[Address(f, s)'].last \in during'[f]
               /\ f < assets'[Address(f, s)'].first
                    => f \in during'[assets'[Address(f, s)'].first]
    <3>1. f \in Flows /\ <<f, s>> \in counted
      BY <2>3, <2>5
    <3>2. Address(f, s)' = Address(f, s)
      BY <2>1, <3>1 DEF Address
    <3>3. /\ Address(f, s) \in Addresses /\ assets[Address(f, s)] # NoRow
          /\ f > assets[Address(f, s)].last  => assets[Address(f, s)].last \in during[f]
          /\ f < assets[Address(f, s)].first => f \in during[assets[Address(f, s)].first]
      BY <1>0, <3>1 DEF SeenOrder
    <3>4. assets[Address(f, s)].first \in Flows
      BY <1>0, <3>3 DEF SeenTimes
    <3> QED BY <2>2, <2>3, <3>1, <3>2, <3>3, <3>4
  <2>6. SeenOrder'
    BY <2>5 DEF SeenOrder
  <2> QED BY <2>4, <2>6 DEF Seen
<1>3. ASSUME NEW l \in Listeners, NEW a \in Addresses, NEW f \in Flows, NEW s \in Sides,
             Stored(l, a, f, s)
      PROVE  Seen'
  <2>1. /\ assets \in [Addresses -> Row \cup {NoRow}] /\ f \in Nat /\ HasMac(f, s) \in BOOLEAN
        /\ Flows \subseteq Nat
    BY <1>3 DEF TypeOK, Stored, Flows
  <2>2. /\ Flows' = Flows /\ during' = during /\ counted' = counted \cup {<<f, s>>}
        /\ \A g \in Flows, p \in Sides : Address(g, p)' = Address(g, p)
        /\ Address(f, s) = a
        /\ hand[l] = f /\ at[l] # "idle"
    BY <1>3 DEF Stored, Flows, Address, Sides
  <2>3. \A g \in Flows : g > f => f \in during[g]
    BY <2>2 DEF Overlap
  <2>4. \A b \in Addresses : b # a => assets'[b] = assets[b]
    BY <1>3, <2>1 DEF Stored
  \* The row of a: new, with no other part counted, or with the times it had.
  <2>5. /\ assets'[a] # NoRow /\ assets'[a].last = f
        /\ \/ assets'[a].first = f /\ \A p \in Sides : PartsOf(a, p) = {}
           \/ assets[a] # NoRow /\ assets'[a].first = assets[a].first
    <3>1. CASE assets[a] = NoRow /\ assets' = [assets EXCEPT ![a] = NewRow(a, f, s)]
      <4>1. assets'[a] = NewRow(a, f, s) /\ NewRow(a, f, s) \in Row
        BY <2>1, <3>1, NewRowType
      <4>2. \A p \in Sides : PartsOf(a, p) = {}
        BY <3>1 DEF Books, Counts, Sides
      <4>3. NewRow(a, f, s).first = f /\ NewRow(a, f, s).last = f
        BY DEF NewRow
      <4> QED BY <4>1, <4>2, <4>3, InventoryAssumption
    <3>2. CASE assets[a] \in Row /\ assets' = [assets EXCEPT ![a] = Updated(a, assets[a], f, s)]
      <4>1. /\ assets'[a] \in Row /\ assets'[a].last = f
            /\ assets'[a].first = assets[a].first
        BY <2>1, <3>2, UpdatedType
      <4> QED BY <3>2, <4>1, InventoryAssumption
    <3> QED BY <1>3, <3>1, <3>2 DEF Stored
  <2>6. assets'[a].first \in Flows
    BY <1>0, <2>5 DEF SeenTimes
  <2>7. SeenTimes'
    BY <1>0, <2>2, <2>4, <2>5, <2>6 DEF SeenTimes
  <2>8. ASSUME NEW g \in Flows, NEW p \in Sides, <<g, p>> \in counted'
        PROVE  /\ Address(g, p) \in Addresses /\ assets'[Address(g, p)] # NoRow
               /\ g > assets'[Address(g, p)].last  => assets'[Address(g, p)].last \in during[g]
               /\ g < assets'[Address(g, p)].first => g \in during[assets'[Address(g, p)].first]
    <3>1. CASE <<g, p>> \in counted /\ Address(g, p) # a
      BY <1>0, <2>4, <3>1 DEF SeenOrder
    <3>2. CASE <<g, p>> \in counted /\ Address(g, p) = a
      <4>1. assets[a] # NoRow /\ assets'[a].first = assets[a].first
        BY <2>5, <3>2 DEF PartsOf
      <4>2. g < assets[a].first => g \in during[assets[a].first]
        BY <1>0, <3>2 DEF SeenOrder
      <4> QED BY <2>3, <2>5, <3>2, <4>1, <4>2
    <3>3. CASE g = f /\ p = s
      <4>1. Address(g, p) = a
        BY <2>2, <3>3
      <4>2. ~(g > assets'[a].last)
        BY <2>1, <2>5, <3>3
      <4>3. g < assets'[a].first => g \in during[assets'[a].first]
        BY <2>1, <2>3, <2>6, <3>3
      <4> QED BY <2>5, <4>1, <4>2, <4>3
    <3> QED BY <2>2, <2>8, <3>1, <3>2, <3>3
  <2>9. SeenOrder'
    <3> SUFFICES ASSUME NEW g \in Flows', NEW p \in Sides, <<g, p>> \in counted'
                 PROVE  (/\ Address(g, p) \in Addresses /\ assets[Address(g, p)] # NoRow
                         /\ g > assets[Address(g, p)].last
                              => assets[Address(g, p)].last \in during[g]
                         /\ g < assets[Address(g, p)].first
                              => g \in during[assets[Address(g, p)].first])'
      BY DEF SeenOrder
    <3>1. g \in Flows /\ Address(g, p)' = Address(g, p)
      BY <2>2
    <3> QED BY <2>2, <2>8, <3>1
  <2> QED BY <2>7, <2>9 DEF Seen
<1>4. ASSUME NEW l \in Listeners, Link(l) PROVE Seen'
  <2>1. /\ assets' = assets /\ observed' = observed /\ during' = during
        /\ \A f \in Flows, s \in Sides : <<f, s>> \in counted' => <<f, s>> \in counted
    BY <1>4 DEF Link, Sides
  <2> QED BY <1>0, <2>1 DEF Seen, SeenTimes, SeenOrder, Address, Flows
<1> QED BY <1>1, <1>2, <1>3, <1>4, TableStep

\* first_seen and last_seen of a row are out of order by flows handled at the
\* same time at most.
THEOREM SeenCorrect == Spec => []SeenWithinOverlap
<1>1. Spec => [](TypeOK /\ Ledger /\ Books /\ Overlap /\ Seen)
  BY TypeInit, TypeNext, LedgerInit, LedgerNext, BooksInit, BooksNext, OverlapInit, OverlapNext,
     SeenInit, SeenNext, PTL DEF Spec
<1>2. Seen => SeenWithinOverlap
  BY DEF Seen, SeenTimes, SeenOrder, SeenWithinOverlap
<1> QED BY <1>1, <1>2, PTL

=============================================================================
