------------------------- MODULE IpfixExportProofs -------------------------
(***************************************************************************)
(* Proofs about IpfixExport, for every set of exporting goroutines and of  *)
(* schemas, every range of template IDs and every bound.                   *)
(***************************************************************************)
EXTENDS IpfixExport, TLAPS

\* The next template ID is a template ID, whether or not it wraps.
LEMMA NextIdType ==
  ASSUME templateID \in Ids
  PROVE  NextId \in Ids /\ (templateID + 1 # IdLimit => NextId = templateID + 1)
<1>1. templateID + 1 \in Nat /\ templateID + 1 <= IdLimit
  BY IpfixAssumption DEF Ids
<1>2. CASE templateID + 1 < IdLimit
  <2>1. (templateID + 1) % IdLimit = templateID + 1
    BY <1>1, <1>2, IpfixAssumption
  <2> QED BY <2>1, <1>2, IpfixAssumption DEF NextId, Ids
<1>3. CASE templateID + 1 = IdLimit
  <2>1. (templateID + 1) % IdLimit = 0
    BY <1>1, <1>3, IpfixAssumption
  <2> QED BY <2>1, IpfixAssumption DEF NextId, Ids
<1> QED BY <1>1, <1>2, <1>3, IpfixAssumption DEF Ids

-----------------------------------------------------------------------------
(* Type correctness.                                                       *)

\* What an Export leaves behind is well typed.
LEMMA NoSnapType == NoSnap \in Binding
BY IpfixAssumption DEF NoSnap, Binding, Ids

\* A new agent and a new collector are well typed.
LEMMA TypeInit == Init => TypeOK
<1> SUFFICES ASSUME Init PROVE TypeOK
  OBVIOUS
<1>1. templateID \in Ids
  BY IpfixAssumption DEF Init, NewAgent, Ids
<1> QED BY <1>1, NoSnapType, IpfixAssumption DEF Init, NewAgent, TypeOK

\* Every step keeps the types.
LEMMA TypeNext == TypeOK /\ [Next]_vars => TypeOK'
<1> SUFFICES ASSUME TypeOK, [Next]_vars PROVE TypeOK'
  OBVIOUS
<1> USE IpfixAssumption DEF TypeOK
<1>1. ASSUME NEW s \in Schemas, SetTemplate(s) PROVE TypeOK'
  BY <1>1, NextIdType DEF SetTemplate, exports
<1>2. CASE Refresh
  BY <1>2 DEF Refresh, exports, counts
<1>3. ASSUME NEW e \in Exporters, NEW n \in 1..MaxChunks, Start(e, n) PROVE TypeOK'
  <2>1. Current \in Binding
    BY DEF Current, Binding
  <2>2. snap' \in [Exporters -> Binding] /\ left' \in [Exporters -> Nat]
    BY <1>3, <2>1 DEF Start
  <2>3. \A d \in Exporters : d # e => pc'[d] = pc[d] /\ left'[d] = left[d]
    BY <1>3 DEF Start
  <2>4. left'[e] = n /\ n > 0
    BY <1>3 DEF Start
  <2>5. pc' \in [Exporters -> {"idle", "template", "data"}]
    <3> DEFINE v == IF dirty THEN "template" ELSE "data"
    <3>1. v \in {"idle", "template", "data"}
      OBVIOUS
    <3>2. pc' = [pc EXCEPT ![e] = v]
      BY <1>3 DEF Start
    <3> QED BY <3>1, <3>2
  <2>6. \A d \in Exporters : pc'[d] # "idle" => left'[d] > 0
    BY <2>3, <2>4
  <2> QED BY <1>3, <2>2, <2>5, <2>6 DEF Start, counts
<1>4. ASSUME NEW e \in Exporters, SendTemplate(e) PROVE TypeOK'
  <2>1. Msg("template", snap[e]) \in Datagram
    BY DEF Msg, Datagram, Binding
  <2> QED BY <1>4, <2>1 DEF SendTemplate, encoder, counts
<1>5. ASSUME NEW e \in Exporters, SendData(e) PROVE TypeOK'
  <2>1. Msg("data", snap[e]) \in Datagram
    BY DEF Msg, Datagram, Binding
  <2>2. snap' \in [Exporters -> Binding]
    BY <1>5, NoSnapType DEF SendData
  <2> QED BY <1>5, <2>1, <2>2 DEF SendData, DataMsg, encoder, counts
<1>6. ASSUME NEW e \in Exporters, SendFails(e) PROVE TypeOK'
  BY <1>6, NoSnapType DEF SendFails, encoder, counts
<1>7. ASSUME NEW m \in wire, Receive(m) \/ Duplicate(m) PROVE TypeOK'
  <2>1. m.id \in Ids /\ m.schema \in Schemas
    BY DEF Datagram
  <2> QED BY <1>7, <2>1 DEF Receive, Duplicate, Deliver, encoder, exports, counts
<1>8. ASSUME NEW m \in wire, Lose(m) PROVE TypeOK'
  BY <1>8 DEF Lose, encoder, exports, counts
<1>9. CASE AgentRestart
  <2>1. IdBase \in Ids
    BY DEF Ids
  <2> QED BY <1>9, <2>1, NoSnapType DEF AgentRestart, NewAgent
<1>10. CASE CollectorRestart
  BY <1>10 DEF CollectorRestart, encoder, exports
<1>11. CASE UNCHANGED vars
  BY <1>11 DEF vars, encoder, exports, counts
<1> QED
  BY <1>1, <1>2, <1>3, <1>4, <1>5, <1>6, <1>7, <1>8, <1>9, <1>10, <1>11 DEF Next

\* The type invariant holds: in particular a template ID never leaves the
\* range of IDs of data sets, in spite of the wrap (protocols.go:309-313).
THEOREM TypeCorrect == Spec => []TypeOK
<1> QED BY TypeInit, TypeNext, PTL DEF Spec

-----------------------------------------------------------------------------
(* Decoding.  OneMeaningPerId is inductive: no step but a change of the    *)
(* schema and a restart of the agent brings a template ID into use.        *)

\* A data datagram decoded with the cached template is decoded with its own
\* schema if template IDs have one meaning.
LEMMA OneMeaningSuffices == TypeOK /\ OneMeaningPerId => NoMisdecode
<1> SUFFICES ASSUME TypeOK, OneMeaningPerId, ~recycled,
                    NEW m \in wire, templates[m.id] # NoTemplate
             PROVE  templates[m.id] = m.schema
  BY DEF NoMisdecode
<1> DEFINE b == [id |-> m.id, schema |-> templates[m.id]]
<1>1. m.id \in Ids /\ m.schema \in Schemas
  BY DEF TypeOK, Datagram
<1>2. b \in InUse
  BY <1>1 DEF TypeOK, InUse, Cached, Binding
<1>3. [id |-> m.id, schema |-> m.schema] \in InUse
  BY DEF InUse
<1> QED BY <1>2, <1>3 DEF OneMeaningPerId

\* A step that keeps the encoder's binding and brings no other into use
\* keeps the meaning of the template IDs.
LEMMA NothingNew ==
  ASSUME TypeOK, OneMeaningPerId, InUse' \subseteq InUse,
         UNCHANGED <<templateID, fields>>, recycled => recycled'
  PROVE  OneMeaningPerId'
<1> QED BY DEF OneMeaningPerId, TypeOK

\* At the start only the default template has an ID.
LEMMA OneMeaningInit == Init => OneMeaningPerId
<1> SUFFICES ASSUME Init PROVE OneMeaningPerId
  OBVIOUS
<1>1. Cached = {}
  BY IpfixAssumption DEF Init, Cached, Binding
<1>2. InUse = {Current}
  BY <1>1 DEF Init, InUse, NewAgent
<1> QED BY <1>2, IpfixAssumption DEF Init, NewAgent, OneMeaningPerId, Current

\* Every step keeps one schema per ID: only SetTemplate brings an ID into use,
\* and it is above every one in use.
LEMMA OneMeaningNext == TypeOK /\ OneMeaningPerId /\ [Next]_vars => OneMeaningPerId'
<1> SUFFICES ASSUME TypeOK, OneMeaningPerId, [Next]_vars PROVE OneMeaningPerId'
  OBVIOUS
<1>1. ASSUME NEW s \in Schemas, SetTemplate(s) PROVE OneMeaningPerId'
  <2> SUFFICES ASSUME ~recycled' PROVE OneMeaningPerId'
    BY DEF OneMeaningPerId
  <2>1. ~recycled /\ templateID' = templateID + 1 /\ templateID \in Ids
    <3>1. NextId \in Ids /\ templateID \in Ids /\ templateID' = NextId
      BY <1>1, NextIdType DEF SetTemplate, TypeOK
    <3>2. ~recycled /\ templateID + 1 # IdLimit
      BY <1>1, Zenon DEF SetTemplate
    <3> QED BY <3>1, <3>2, NextIdType, IpfixAssumption DEF Ids
  <2>2. InUse' \subseteq InUse \cup {Current'}
    BY <1>1 DEF SetTemplate, exports, InUse, Cached
  <2>3. \A b \in InUse : b.id <= templateID
    BY <2>1 DEF OneMeaningPerId
  <2>4. Current'.id = templateID + 1
    BY <2>1 DEF Current
  <2>5. \A b \in InUse : b.id \in Nat
    BY IpfixAssumption DEF InUse, Cached, Current, Binding, TypeOK, Datagram, Ids
  <2>6. \A b \in InUse' : b.id <= templateID'
    BY <2>1, <2>2, <2>3, <2>4, <2>5, IpfixAssumption DEF Ids
  <2>7. \A b, c \in InUse' : b.id = c.id => b.schema = c.schema
    BY <2>1, <2>2, <2>3, <2>4, <2>5, IpfixAssumption DEF OneMeaningPerId, Ids
  <2>8. templateID' # IdBase
    BY <2>1, IpfixAssumption DEF Ids
  <2> QED BY <2>6, <2>7, <2>8 DEF OneMeaningPerId
<1>2. CASE Refresh
  <2>1. InUse' = InUse
    BY <1>2 DEF Refresh, exports, counts, InUse, Cached, Current
  <2> QED BY <1>2, <2>1, NothingNew DEF Refresh
<1>3. ASSUME NEW e \in Exporters, NEW n \in 1..MaxChunks, Start(e, n)
      PROVE  OneMeaningPerId'
  <2>1. \A d \in Exporters : pc'[d] # "idle" => snap'[d] = Current \/ (pc[d] # "idle" /\ snap'[d] = snap[d])
    BY <1>3 DEF Start, TypeOK
  <2>2. UNCHANGED <<templateID, fields, wire, templates, recycled>>
    BY <1>3 DEF Start
  <2>3. InUse' \subseteq InUse
    BY <2>1, <2>2 DEF InUse, Cached, Current
  <2> QED BY <2>2, <2>3, NothingNew
<1>4. ASSUME NEW e \in Exporters, SendTemplate(e) \/ SendData(e)
      PROVE  OneMeaningPerId'
  <2>1. UNCHANGED <<templateID, fields, templates, recycled>>
    BY <1>4 DEF SendTemplate, SendData, encoder
  <2>2. pc[e] # "idle" /\ \A d \in Exporters : pc'[d] # "idle" => pc[d] # "idle" /\ snap'[d] = snap[d]
    BY <1>4 DEF SendTemplate, SendData, TypeOK
  <2>3. \A m \in wire' \ wire : [id |-> m.id, schema |-> m.schema] = snap[e]
    BY <1>4 DEF SendTemplate, SendData, DataMsg, Msg, TypeOK, Binding
  <2>4. InUse' \subseteq InUse
    BY <2>1, <2>2, <2>3 DEF InUse, Cached, Current
  <2> QED BY <2>1, <2>4, NothingNew
<1>5. ASSUME NEW e \in Exporters, SendFails(e) PROVE OneMeaningPerId'
  <2>1. \A d \in Exporters : pc'[d] # "idle" => pc[d] # "idle" /\ snap'[d] = snap[d]
    BY <1>5 DEF SendFails, TypeOK
  <2>2. InUse' \subseteq InUse
    BY <1>5, <2>1 DEF SendFails, encoder, counts, InUse, Cached, Current
  <2> QED BY <1>5, <2>2, NothingNew DEF SendFails, encoder
<1>6. ASSUME NEW m \in wire, Receive(m) \/ Duplicate(m) PROVE OneMeaningPerId'
  <2>1. UNCHANGED <<templateID, fields, pc, snap, recycled>> /\ wire' \subseteq wire
    BY <1>6 DEF Receive, Duplicate, Deliver, encoder, exports
  <2>2. \A b \in Cached' : b \in Cached \/ b = [id |-> m.id, schema |-> m.schema]
    BY <1>6 DEF Receive, Duplicate, Deliver, Cached, Binding, TypeOK
  <2>3. InUse' \subseteq InUse
    BY <2>1, <2>2 DEF InUse, Current
  <2> QED BY <2>1, <2>3, NothingNew
<1>7. ASSUME NEW m \in wire, Lose(m) PROVE OneMeaningPerId'
  <2>1. InUse' \subseteq InUse
    BY <1>7 DEF Lose, encoder, exports, counts, InUse, Cached, Current
  <2> QED BY <1>7, <2>1, NothingNew DEF Lose, encoder
<1>8. CASE AgentRestart
  <2> SUFFICES ASSUME ~recycled' PROVE OneMeaningPerId'
    BY DEF OneMeaningPerId
  <2>1. UNCHANGED <<templateID, fields>> /\ ~recycled
    BY <1>8 DEF AgentRestart, NewAgent, OneMeaningPerId
  <2>2. InUse' \subseteq InUse
    BY <1>8, <2>1 DEF AgentRestart, NewAgent, InUse, Cached, Current
  <2> QED BY <2>1, <2>2, NothingNew
<1>9. CASE CollectorRestart
  <2>1. Cached' = {}
    BY <1>9, IpfixAssumption DEF CollectorRestart, Cached, Binding
  <2>2. InUse' \subseteq InUse
    BY <1>9, <2>1 DEF CollectorRestart, encoder, exports, InUse, Current
  <2> QED BY <1>9, <2>2, NothingNew DEF CollectorRestart, encoder
<1>10. CASE UNCHANGED vars
  <2>1. InUse' = InUse
    BY <1>10 DEF vars, encoder, exports, counts, InUse, Cached, Current
  <2> QED BY <1>10, <2>1, NothingNew DEF vars, encoder
<1> QED
  BY <1>1, <1>2, <1>3, <1>4, <1>5, <1>6, <1>7, <1>8, <1>9, <1>10 DEF Next

\* An ID in use means one schema, in every state of the program.
LEMMA MeaningAlways == Spec => [](TypeOK /\ OneMeaningPerId)
<1>1. Init => TypeOK /\ OneMeaningPerId
  BY TypeInit, OneMeaningInit
<1>2. TypeOK /\ OneMeaningPerId /\ [Next]_vars => TypeOK' /\ OneMeaningPerId'
  BY TypeNext, OneMeaningNext
<1> QED BY <1>1, <1>2, PTL DEF Spec

\* The encoder, the exports under way, the wire and the collector's cache agree
\* on the schema of every ID (protocols.go:307-314, parser.go:129), until IDs
\* are used a second time.
THEOREM OneMeaningCorrect == Spec => []OneMeaningPerId
BY MeaningAlways, PTL

\* So no data datagram is ever decoded with a schema that is not its own
\* (parser.go:179-190), whatever is lost, repeated, reordered or restarted.
THEOREM DecodingCorrect == Spec => []NoMisdecode
BY MeaningAlways, OneMeaningSuffices, PTL

-----------------------------------------------------------------------------
(* The order of a template and its data, with any number of goroutines that *)
(* export, over a socket that may fail.                                    *)

\* While the flag is clear, the current template is accounted for: some goroutine
\* that exports took it when it cleared the flag.
AccountInv == TemplateAccounted /\ (dirty \/ Accounted(Current))

\* A new encoder owes its template.
LEMMA AccountInit == Init => AccountInv
BY DEF Init, NewAgent, AccountInv, TemplateAccounted

\* A template stays accounted for while no goroutine that is to write it stops.
LEMMA AccountKept ==
  ASSUME announced \cup unsent \subseteq announced' \cup unsent',
         \A e \in Exporters : pc[e] = "template" =>
            \/ pc'[e] = "template" /\ snap'[e] = snap[e]
            \/ snap[e] \in announced' \cup unsent',
         NEW b, Accounted(b)
  PROVE  Accounted(b)'
BY DEF Accounted

\* Every step keeps account: a goroutine that gives up the template has written it,
\* or its write has failed.
LEMMA AccountNext == TypeOK /\ AccountInv /\ [Next]_vars => AccountInv'
<1> SUFFICES ASSUME TypeOK, AccountInv, [Next]_vars PROVE AccountInv'
  OBVIOUS
<1>0. ASSUME UNCHANGED <<fields, templateID>>, dirty => dirty',
             \A b : Accounted(b) => Accounted(b)',
             \A e \in Exporters : pc'[e] = "data" =>
                (pc[e] = "data" /\ snap'[e] = snap[e]) \/ Accounted(snap[e])'
      PROVE  AccountInv'
  BY <1>0 DEF AccountInv, TemplateAccounted, Current
<1>1. ASSUME NEW s \in Schemas, SetTemplate(s) PROVE AccountInv'
  <2>1. \A b : Accounted(b) => Accounted(b)'
    BY <1>1 DEF SetTemplate, exports, Accounted
  <2> QED BY <1>1, <2>1 DEF SetTemplate, exports, AccountInv, TemplateAccounted
<1>2. CASE Refresh
  BY <1>0, <1>2 DEF Refresh, exports, Accounted
<1>3. ASSUME NEW e \in Exporters, NEW n \in 1..MaxChunks, Start(e, n) PROVE AccountInv'
  <2>1. /\ pc[e] = "idle" /\ snap'[e] = Current
        /\ UNCHANGED <<fields, templateID, announced, unsent>>
    BY <1>3 DEF Start, TypeOK
  <2>2. \A d \in Exporters : d # e => pc'[d] = pc[d] /\ snap'[d] = snap[d]
    BY <1>3 DEF Start
  <2>3. \A b : Accounted(b) => Accounted(b)'
    BY <2>1, <2>2 DEF Accounted
  <2>4. Accounted(Current)'
    <3>1. CASE dirty
      <4>1. pc'[e] = "template"
        BY <1>3, <3>1 DEF Start, TypeOK
      <4> QED BY <2>1, <4>1 DEF Accounted, Current
    <3>2. CASE ~dirty
      BY <2>1, <2>3, <3>2 DEF AccountInv, Current
    <3> QED BY <3>1, <3>2
  <2>5. \A d \in Exporters : pc'[d] = "data" => Accounted(snap[d])'
    BY <2>1, <2>2, <2>3, <2>4 DEF AccountInv, TemplateAccounted, Current
  <2> QED BY <2>4, <2>5 DEF AccountInv, TemplateAccounted
<1>4. ASSUME NEW e \in Exporters, SendTemplate(e) PROVE AccountInv'
  <2>1. /\ UNCHANGED <<snap, fields, templateID, dirty>>
        /\ announced' = announced \cup {snap[e]} /\ unsent' = unsent \ {snap[e]}
        /\ \A d \in Exporters : d # e => pc'[d] = pc[d]
    BY <1>4 DEF SendTemplate, encoder
  <2>2. \A b : Accounted(b) => Accounted(b)'
    BY <2>1, AccountKept
  <2>3. Accounted(snap[e])'
    BY <2>1 DEF Accounted
  <2> QED BY <1>0, <2>1, <2>2, <2>3
<1>5. ASSUME NEW e \in Exporters, SendData(e) PROVE AccountInv'
  <2>1. /\ UNCHANGED <<fields, templateID, dirty, announced, unsent>> /\ pc[e] = "data"
        /\ \A d \in Exporters : d # e => pc'[d] = pc[d]
        /\ \A d \in Exporters : pc'[d] # "idle" => snap'[d] = snap[d]
    BY <1>5 DEF SendData, encoder, TypeOK
  <2>2. \A b : Accounted(b) => Accounted(b)'
    BY <2>1, AccountKept
  <2> QED BY <1>0, <2>1, <2>2
<1>6. ASSUME NEW e \in Exporters, SendFails(e) PROVE AccountInv'
  <2>1. /\ UNCHANGED <<fields, templateID, dirty, announced>>
        /\ \A d \in Exporters : d # e => pc'[d] = pc[d] /\ snap'[d] = snap[d]
    BY <1>6 DEF SendFails, encoder
  <2>2. unsent \subseteq unsent' /\ (pc[e] = "template" => snap[e] \in announced' \cup unsent')
    BY <1>6 DEF SendFails
  <2>3. \A b : Accounted(b) => Accounted(b)'
    BY <2>1, <2>2, AccountKept
  <2>4. pc'[e] # "data"
    BY <1>6 DEF SendFails, TypeOK
  <2> QED BY <1>0, <2>1, <2>3, <2>4
<1>7. ASSUME NEW m \in wire, Receive(m) \/ Duplicate(m) \/ Lose(m) PROVE AccountInv'
  BY <1>0, <1>7 DEF Receive, Duplicate, Deliver, Lose, encoder, exports, Accounted
<1>8. CASE AgentRestart
  BY <1>8 DEF AgentRestart, NewAgent, AccountInv, TemplateAccounted
<1>9. CASE CollectorRestart
  BY <1>0, <1>9 DEF CollectorRestart, encoder, exports, Accounted
<1>10. CASE UNCHANGED vars
  BY <1>0, <1>10 DEF vars, encoder, exports, Accounted
<1> QED
  BY <1>1, <1>2, <1>3, <1>4, <1>5, <1>6, <1>7, <1>8, <1>9, <1>10 DEF Next

\* For any number of goroutines that export, over a socket that may fail: no data
\* goes out whose template was not written, unless another of them is about to
\* write it or its write has failed. That race and a failing write are the only
\* ways to break the promise of protocols.go:292-293.
THEOREM TemplateAccountedCorrect == Spec => []TemplateAccounted
<1>1. Init => TypeOK /\ AccountInv
  BY TypeInit, AccountInit
<1>2. TypeOK /\ AccountInv /\ [Next]_vars => TypeOK' /\ AccountInv'
  BY TypeNext, AccountNext
<1>3. AccountInv => TemplateAccounted
  BY DEF AccountInv
<1> QED BY <1>1, <1>2, <1>3, PTL DEF Spec

=============================================================================
