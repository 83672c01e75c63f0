---------------------------- MODULE IpfixExport ----------------------------
(***************************************************************************)
(* IPFIX between the agent and the collector: the encoder of               *)
(* agent/protocols, whose template the API can change at any moment and    *)
(* whose Export runs in the goroutine of the timeout sweep and in those of *)
(* evictions at the same time; the UDP socket of agent/export; the network *)
(* between them; and the template cache of the IPFIX listener of           *)
(* collector/parser.                                                       *)
(*                                                                         *)
(* A schema stands for an ordered list of fields, a data datagram for its  *)
(* records encoded with one schema.  The collector decodes it with the     *)
(* schema cached under its set ID, and drops it when there is none.        *)
(***************************************************************************)
EXTENDS Naturals, FiniteSets

CONSTANTS
  Exporters,        \* the goroutines that may be in Export at the same time
  Schemas,          \* the field lists that occur
  DefaultTemplate,  \* the one the agent starts with
  IdBase,           \* ipfixBaseTemplateID, 256
  IdLimit,          \* 2^16, the wrap of the template ID
  SendMayFail,      \* whether a write to the socket may return an error
  NoTemplate,       \* the cache's answer for an ID it does not hold
  MaxChunks,        \* bound: data messages of one Export
  MaxChanges,       \* bound: calls of SetTemplate
  MaxCrashes        \* bound: restarts of the agent and of the collector

ASSUME IpfixAssumption ==
  /\ DefaultTemplate \in Schemas /\ NoTemplate \notin Schemas
  /\ IdBase \in Nat /\ IdLimit \in Nat /\ IdBase < IdLimit
  /\ SendMayFail \in BOOLEAN
  /\ MaxChunks \in Nat /\ MaxChanges \in Nat /\ MaxCrashes \in Nat

VARIABLES
  fields,       \* e.fields
  templateID,   \* e.templateID
  dirty,        \* e.dirty
  pc,           \* where each Export is: "idle", "template" or "data"
  snap,         \* its copies of the template ID and of the fields
  left,         \* the data messages it has still to send
  wire,         \* the datagrams in flight
  templates,    \* the collector's cache, by template ID
  announced,    \* history: the templates this agent has written to the socket
  unsent,       \* history: those it has tried to write, and not succeeded
  recycled,     \* history: an ID in use before may get a second meaning
  changes, crashes  \* how often SetTemplate and a restart have happened

encoder == <<fields, templateID, dirty>>
exports == <<pc, snap, left>>
counts  == <<changes, crashes>>
vars    == <<encoder, exports, wire, templates, announced, unsent, recycled, counts>>

Ids       == IdBase..(IdLimit - 1)
Binding   == [id : Ids, schema : Schemas]
Current   == [id |-> templateID, schema |-> fields]
Msg(k, b) == [kind |-> k, id |-> b.id, schema |-> b.schema]
Datagram  == [kind : {"template", "data"}, id : Ids, schema : Schemas]

\* What stands for the copies of an Export that has returned.
NoSnap == [id |-> IdBase, schema |-> DefaultTemplate]

NewAgent(f, id, d, p) == f = DefaultTemplate /\ id = IdBase /\ d = TRUE
                           /\ p = [e \in Exporters |-> "idle"]

Init ==
  /\ NewAgent(fields, templateID, dirty, pc)
  /\ snap = [e \in Exporters |-> NoSnap]
  /\ left = [e \in Exporters |-> 0]
  /\ wire = {}
  /\ templates = [id \in Ids |-> NoTemplate]
  /\ announced = {} /\ unsent = {}
  /\ recycled = FALSE
  /\ changes = 0 /\ crashes = 0

-----------------------------------------------------------------------------
(* The encoder's mutable state: the API and the refresh ticker.            *)

\* Variants with a bug: no guard against the wrap, and no new ID.
NextIdUnguarded == (templateID + 1) % IdLimit
NextIdSame      == templateID

\* e.templateID++ on a uint16, with the guard against its wrap.
NextId == LET i == (templateID + 1) % IdLimit
          IN  IF i < IdBase THEN IdBase ELSE i

\* Variant with a bug: the new template is not sent before the next refresh.
SetTemplateClean(s) ==
  /\ changes < MaxChanges
  /\ changes' = changes + 1
  /\ fields' = s
  /\ templateID' = NextId
  /\ recycled' = (recycled \/ templateID + 1 = IdLimit)
  /\ UNCHANGED <<dirty, exports, wire, templates, announced, unsent, crashes>>

SetTemplate(s) ==
  /\ changes < MaxChanges
  /\ changes' = changes + 1
  /\ fields' = s
  /\ templateID' = NextId
  /\ dirty' = TRUE
  /\ recycled' = (recycled \/ templateID + 1 = IdLimit)
  /\ UNCHANGED <<exports, wire, templates, announced, unsent, crashes>>

\* Variant with a bug: nobody reads the ticker.
RefreshStopped == dirty /\ UNCHANGED vars

Refresh ==
  /\ dirty' = TRUE
  /\ UNCHANGED <<fields, templateID, exports, wire, templates, announced, unsent, recycled, counts>>

-----------------------------------------------------------------------------
(* Export: one step under the encoder's lock, then one per write.          *)

Start(e, n) ==
  /\ pc[e] = "idle"
  /\ snap' = [snap EXCEPT ![e] = Current]
  /\ dirty' = FALSE
  /\ pc' = [pc EXCEPT ![e] = IF dirty THEN "template" ELSE "data"]
  /\ left' = [left EXCEPT ![e] = n]
  /\ UNCHANGED <<fields, templateID, wire, templates, announced, unsent, recycled, counts>>

SendTemplate(e) ==
  /\ pc[e] = "template"
  /\ wire' = wire \cup {Msg("template", snap[e])}
  /\ announced' = announced \cup {snap[e]}
  /\ unsent' = unsent \ {snap[e]}
  /\ pc' = [pc EXCEPT ![e] = "data"]
  /\ UNCHANGED <<encoder, snap, left, templates, recycled, counts>>

\* Variant with a bug: the fields are read when the message is built.
DataMsgLate(e) == [kind |-> "data", id |-> snap[e].id, schema |-> fields]

DataMsg(e) == Msg("data", snap[e])

SendData(e) ==
  /\ pc[e] = "data"
  /\ wire' = wire \cup {DataMsg(e)}
  /\ left' = [left EXCEPT ![e] = @ - 1]
  /\ pc' = [pc EXCEPT ![e] = IF left[e] = 1 THEN "idle" ELSE "data"]
  /\ snap' = IF left[e] = 1 THEN [snap EXCEPT ![e] = NoSnap] ELSE snap
  /\ UNCHANGED <<encoder, templates, announced, unsent, recycled, counts>>

\* A write that fails makes Export return, whatever it had still to send.
SendFails(e) ==
  /\ SendMayFail
  /\ pc[e] # "idle"
  /\ pc' = [pc EXCEPT ![e] = "idle"]
  /\ left' = [left EXCEPT ![e] = 0]
  /\ snap' = [snap EXCEPT ![e] = NoSnap]
  /\ unsent' = IF pc[e] = "template" THEN unsent \cup ({snap[e]} \ announced) ELSE unsent
  /\ UNCHANGED <<encoder, wire, templates, announced, recycled, counts>>

-----------------------------------------------------------------------------
(* The network loses, reorders and duplicates; the listener caches what a  *)
(* template says, and keeps nothing of a data datagram.                    *)

Deliver(m) ==
  /\ templates' = IF m.kind = "template" THEN [templates EXCEPT ![m.id] = m.schema]
                                         ELSE templates
  /\ UNCHANGED <<encoder, exports, announced, unsent, recycled, counts>>

Receive(m)   == m \in wire /\ wire' = wire \ {m} /\ Deliver(m)
Duplicate(m) == m \in wire /\ wire' = wire /\ Deliver(m)

Lose(m) ==
  /\ m \in wire
  /\ wire' = wire \ {m}
  /\ UNCHANGED <<encoder, exports, templates, announced, unsent, recycled, counts>>

-----------------------------------------------------------------------------
(* Neither end keeps anything over a restart.                              *)

AgentRestart ==
  /\ crashes < MaxCrashes
  /\ crashes' = crashes + 1
  /\ NewAgent(fields', templateID', dirty', pc')
  /\ left' = [e \in Exporters |-> 0]
  /\ announced' = {} /\ unsent' = {}
  /\ recycled' = (recycled \/ templateID # IdBase)
  /\ snap' = [e \in Exporters |-> NoSnap]
  /\ UNCHANGED <<wire, templates, changes>>

CollectorRestart ==
  /\ crashes < MaxCrashes
  /\ crashes' = crashes + 1
  /\ templates' = [id \in Ids |-> NoTemplate]
  /\ UNCHANGED <<encoder, exports, wire, announced, unsent, recycled, changes>>

Next ==
  \/ \E s \in Schemas : SetTemplate(s)
  \/ Refresh
  \/ \E e \in Exporters : \/ \E n \in 1..MaxChunks : Start(e, n)
                          \/ SendTemplate(e) \/ SendData(e) \/ SendFails(e)
  \/ \E m \in wire : Receive(m) \/ Duplicate(m) \/ Lose(m)
  \/ AgentRestart \/ CollectorRestart

Spec == Init /\ [][Next]_vars

-----------------------------------------------------------------------------
(* Fairness: the ticker ticks; there is traffic, so that Export is called  *)
(* again and again, and runs to its end; the socket does not fail for ever *)
(* and the network does not lose a template that is sent again and again;  *)
(* and copies of an old template do not arrive for ever.                   *)

Template == Msg("template", Current)

Fairness ==
  /\ WF_vars(Refresh)
  /\ WF_vars(\E e \in Exporters, n \in 1..MaxChunks : Start(e, n))
  /\ \A e \in Exporters : SF_vars(SendTemplate(e)) /\ WF_vars(SendData(e))
  /\ SF_vars(Receive(Template))
  /\ WF_vars(\E m \in wire \ {Template} : m.kind = "template" /\ (Receive(m) \/ Lose(m)))

FairSpec == Spec /\ Fairness

-----------------------------------------------------------------------------
(* Properties.                                                             *)

TypeOK ==
  /\ fields \in Schemas /\ templateID \in Ids /\ dirty \in BOOLEAN
  /\ pc \in [Exporters -> {"idle", "template", "data"}]
  /\ snap \in [Exporters -> Binding]
  /\ left \in [Exporters -> Nat]
  /\ \A e \in Exporters : pc[e] # "idle" => left[e] > 0
  /\ wire \subseteq Datagram
  /\ templates \in [Ids -> Schemas \cup {NoTemplate}]
  /\ announced \subseteq Binding /\ unsent \subseteq Binding
  /\ recycled \in BOOLEAN
  /\ changes \in Nat /\ crashes \in Nat

\* No data datagram is decoded with another schema than the one it was encoded
\* with, in whatever order templates and data arrive, however many are lost,
\* and whoever restarts: at worst it is dropped.  As long as template IDs have
\* not been used twice: they wrap, and a restart of the agent begins again.
NoMisdecode ==
  ~recycled => \A m \in wire :
    m.kind = "data" => templates[m.id] \in {NoTemplate, m.schema}

\* What a template ID stands for anywhere: for the encoder, for an Export under
\* way, in a datagram in flight and in the collector's cache.
Cached == {b \in Binding : templates[b.id] = b.schema}
InUse  == {Current} \cup {snap[e] : e \in {d \in Exporters : pc[d] # "idle"}}
            \cup {[id |-> m.id, schema |-> m.schema] : m \in wire} \cup Cached

\* The reason for NoMisdecode: every change of the schema takes an ID that
\* stands for nothing yet, so that an ID stands for the same schema wherever
\* it is in use, and a restart that is not a recycling starts where it was.
OneMeaningPerId ==
  ~recycled =>
    /\ templateID = IdBase => fields = DefaultTemplate
    /\ \A b \in InUse : b.id <= templateID
    /\ \A b, c \in InUse : b.id = c.id => b.schema = c.schema

\* Export sends no data of a template that has not been written to the socket
\* before (protocols.go:292-293, 340-341).
TemplateBeforeData ==
  \A e \in Exporters : pc[e] = "data" => snap[e] \in announced

\* A template that was taken from the encoder has been written, an Export that
\* took it is about to write it, or its write has failed.
Accounted(b) ==
  b \in announced \cup unsent \/ \E e \in Exporters : pc[e] = "template" /\ snap[e] = b

\* How far the promise holds, for any goroutines over a socket that may fail: data
\* goes out without its template only while another Export, which cleared the flag
\* for the same template, is about to write it, or after that write has failed
\* (protocols.go:343-360). In particular no change of the template is missed.
TemplateAccounted == \A e \in Exporters : pc[e] = "data" => Accounted(snap[e])

\* When schema changes and restarts stop, the collector comes to hold the
\* encoder's current template for good, although any template may be lost and
\* its sending may fail (protocols.go:262-263).
CollectorCatchesUp == <>[](templates[templateID] = fields)

=============================================================================
