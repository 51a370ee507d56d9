------------------------- MODULE TemplateSendProofs -------------------------
(***************************************************************************)
(* Proofs about the template catalogue, the credentials of a channel and   *)
(* the requests that send by template, for any number of administrators,   *)
(* senders, providers and schemas.                                         *)
(*                                                                         *)
(* The two tables have little to do with each other, and one invariant     *)
(* each.  The versions of a slug are 1..k, each made by a request of its   *)
(* own, and a request about to insert follows an existing version of its   *)
(* channel: that is why one channel is enough, and why numbers do not run  *)
(* out.  Of the registrations, only one may be moving the default, and no  *)
(* two hold one row: that leaves a single shape for a circle of waits.     *)
(***************************************************************************)
EXTENDS TemplateSend, TLAPS, FiniteSetTheorems

TemplateRow == [channel : Channel, active : BOOLEAN, by : Admin, schema : StoredSchemas]

\* The versions are numbered from one without a gap.
Dense == \E k \in Nat : templates \in [1 .. k -> TemplateRow]

\* A version was made by one request, which has ended.
MadeOnce ==
  /\ \A v \in DOMAIN templates : job[templates[v].by].at = "done"
  /\ \A u, v \in DOMAIN templates : u # v => templates[u].by # templates[v].by

\* A version to be inserted is the first, or follows one of its channel.
FollowsChannel(a) ==
  job[a].at = "inserting" =>
    \/ job[a].version = 1
    \/ /\ job[a].version - 1 \in DOMAIN templates
       /\ templates[job[a].version - 1].channel = job[a].channel

\* What validate_schema returns: a type of the six for each name, in small letters.
UsableSchema(schema) ==
  \A x \in DOMAIN schema : schema[x].lower = TRUE /\ schema[x].word \in SchemaTypes

SchemasUsable ==
  /\ \A v \in DOMAIN templates : UsableSchema(templates[v].schema)
  /\ \A a \in Admin : job[a].at = "inserting" => UsableSchema(job[a].schema)

\* The registrations past their UPDATE.
Open == {"cleared", "keyed", "upserted"}

\* What an UPDATE has unset are still defaults for the others; without is_default
\* there was no UPDATE.
OffByDefault(a) ==
  job[a].at \in Open =>
    job[a].off \subseteq Defaults /\ (~job[a].default => job[a].off = {})

\* A row, or the key of one, is held by one registration.
LocksExclusive == \A a, b \in Admin : a # b => Holds(a) \cap Holds(b) = {}

\* A registration has written a default row and not committed.
Moving(a) == job[a].at = "upserted" /\ job[a].default

\* One registration at a time moves the default, and it has unset every other.
MovesAlone ==
  /\ \A a, b \in Admin : Moving(a) /\ Moving(b) => a = b
  /\ \A a \in Admin : Moving(a) => Defaults \subseteq job[a].off \cup {job[a].provider}

\* uq_tenant_channel_default: a channel has at most one default credential.
OneDefault == \A p, q \in Defaults : p = q

TemplatesInv ==
  Dense /\ MadeOnce /\ (\A a \in Admin : FollowsChannel(a)) /\ SchemasUsable /\ OneChannel

CredsInv ==
  (\A a \in Admin : OffByDefault(a)) /\ LocksExclusive /\ MovesAlone /\ OneDefault

CatalogInv == CatalogTypeOK /\ TemplatesInv /\ CredsInv

\* A message, inserted or about to be, says what the version it names rendered to
\* with its variables, and the variables passed that version's schema.
MessageRight(message) ==
  /\ message.version \in DOMAIN templates
  /\ message.variables \in Variables
  /\ message = Message(message.version, message.variables, message.own)
  /\ ValidVariables(templates[message.version].schema, message.variables)

SenderInv(s) ==
  /\ sending[s].at \in {"new", "storing", "done"}
  /\ sending[s].at = "storing" => MessageRight(sending[s].message)
  /\ stored[s] # NoMessage => MessageRight(stored[s])

SendInv ==
  /\ CatalogInv
  /\ DOMAIN sending = Sender /\ DOMAIN stored = Sender
  /\ \A s \in Sender : SenderInv(s)

-----------------------------------------------------------------------------
\* What a request carries, by where it is.
LEMMA JobFields ==
  ASSUME job \in [Admin -> Job], NEW a \in Admin
  PROVE  /\ job[a].at \in {"new", "done", "inserting", "clearing"} \cup Open
         /\ job[a].at = "inserting" => /\ job[a].version \in Version
                                       /\ job[a].channel \in Channel
                                       /\ job[a].schema \in StoredSchemas
         /\ job[a].at = "clearing" => /\ job[a].provider \in Provider
                                      /\ job[a].seen \subseteq Provider
         /\ job[a].at \in Open => /\ job[a].provider \in Provider
                                   /\ job[a].default \in BOOLEAN
                                   /\ job[a].off \subseteq Provider
<1> DEFINE j == job[a]
<1>0. j \in Job
  OBVIOUS
<1>1. CASE j = New
  BY <1>1 DEF New, Open
<1>2. CASE \E r \in Reply : j = Done(r)
  BY <1>2 DEF Done, Open
<1>3. CASE \E v \in Version, ch \in Channel, schema \in StoredSchemas : j = Inserting(v, ch, schema)
  BY <1>3 DEF Inserting, Open
<1>4. CASE \E p \in Provider, S \in SUBSET Provider : j = Registering(p, S)
  BY <1>4 DEF Registering, Open
<1>5. CASE j \in [at : Open, provider : Provider, default : BOOLEAN, off : SUBSET Provider]
  BY <1>5 DEF Open
<1> QED
  BY <1>0, <1>1, <1>2, <1>3, <1>4, <1>5 DEF Job, Open

\* The jobs a handler goes to are jobs.
LEMMA NextJobs ==
  /\ \A r \in Reply : Done(r) \in Job
  /\ \A v \in Version, ch \in Channel, schema \in StoredSchemas : Inserting(v, ch, schema) \in Job
  /\ \A p \in Provider, S \in SUBSET Provider : Registering(p, S) \in Job
  /\ \A p \in Provider, d \in BOOLEAN, S \in SUBSET Provider :
       Cleared(p, d, S) \in Job /\ Keyed(p, d, S) \in Job /\ Upserted(p, d, S) \in Job
<1>1. \A r \in Reply : Done(r) \in Job
  BY DEF Job
<1>2. \A v \in Version, ch \in Channel, schema \in StoredSchemas : Inserting(v, ch, schema) \in Job
  BY DEF Job
<1>3. \A p \in Provider, S \in SUBSET Provider : Registering(p, S) \in Job
  BY DEF Job
<1>4. ASSUME NEW p \in Provider, NEW d \in BOOLEAN, NEW S \in SUBSET Provider
      PROVE  Cleared(p, d, S) \in Job /\ Keyed(p, d, S) \in Job /\ Upserted(p, d, S) \in Job
  BY DEF Job, Cleared, Keyed, Upserted
<1> QED
  BY <1>1, <1>2, <1>3, <1>4

\* A handler's step moves its own job only.
LEMMA GoesMoves ==
  ASSUME job \in [Admin -> Job], NEW a \in Admin, NEW next \in Job, Goes(a, next)
  PROVE  /\ job' \in [Admin -> Job]
         /\ job'[a] = next
         /\ \A b \in Admin \ {a} : job'[b] = job[b]
BY DEF Goes

\* The type invariant after a step, from the parts the proofs keep.
LEMMA NextTypes ==
  ASSUME Dense', DOMAIN templates' \subseteq Version,
         creds' \in [Provider -> {"absent", "plain", "default"}], job' \in [Admin -> Job]
  PROVE  CatalogTypeOK'
<1>1. PICK k \in Nat : templates' \in [1 .. k -> TemplateRow]
  BY DEF Dense
<1>2. ASSUME NEW v \in DOMAIN templates'
      PROVE  /\ DOMAIN templates'[v] = {"channel", "active", "by", "schema"}
             /\ templates'[v].channel \in Channel /\ templates'[v].active \in BOOLEAN
             /\ templates'[v].by \in Admin /\ templates'[v].schema \in StoredSchemas
  <2>1. templates'[v] \in TemplateRow
    BY <1>1
  <2> QED
    BY <2>1 DEF TemplateRow
<1> QED
  BY <1>2 DEF CatalogTypeOK

\* While a request has not ended, one more version can be numbered: each of the
\* others has made at most one.
LEMMA RoomForOne ==
  ASSUME Dense, MadeOnce, NEW a \in Admin, job[a].at # "done"
  PROVE  1 \in Version /\ \A v \in DOMAIN templates : v + 1 \in Version
<1>1. PICK k \in Nat : templates \in [1 .. k -> TemplateRow]
  BY DEF Dense
<1>2. /\ IsFiniteSet(Admin \ {a})
      /\ Cardinality(Admin) \in Nat
      /\ Cardinality(Admin \ {a}) = Cardinality(Admin) - 1
      /\ Cardinality(Admin \ {a}) \in Nat
  BY AdminAssumption, FS_RemoveElement, FS_CardinalityType
<1>3. IsFiniteSet(1 .. k) /\ Cardinality(1 .. k) = k
  <2>1. /\ IsFiniteSet(1 .. k)
        /\ Cardinality(1 .. k) = IF 1 > k THEN 0 ELSE k - 1 + 1
    BY FS_Interval
  <2> QED
    BY <2>1
<1>4. k <= Cardinality(Admin) - 1
  <2> SUFFICES ASSUME Cardinality(Admin \ {a}) < k PROVE FALSE
    BY <1>2
  <2> DEFINE made == [v \in 1 .. k |-> templates[v].by]
  <2>1. \A v \in 1 .. k : templates[v].by \in Admin \ {a}
    BY <1>1 DEF TemplateRow, MadeOnce
  <2>2. made \in [1 .. k -> Admin \ {a}]
    BY <2>1
  <2>3. \E u, v \in 1 .. k : u # v /\ made[u] = made[v]
    <3> HIDE DEF made
    <3> QED
      BY <1>2, <1>3, <2>2, FS_PigeonHole
  <2>4. PICK u \in 1 .. k, v \in 1 .. k : u # v /\ templates[u].by = templates[v].by
    BY <2>3
  <2> QED
    BY <1>1, <2>4 DEF MadeOnce
<1> QED
  BY <1>1, <1>2, <1>4 DEF Version

\* A schema that passes validate_schema is usable as it is stored.
LEMMA NormalizedUsable ==
  ASSUME NEW a \in Admin, NEW schema \in Schemas[a], ValidSchema(schema)
  PROVE  UsableSchema(Normalized(schema)) /\ Normalized(schema) \in StoredSchemas
<1>1. ASSUME NEW x \in DOMAIN schema
      PROVE  /\ Normalized(schema)[x].lower = TRUE
             /\ Normalized(schema)[x].word \in SchemaTypes
  <2>1. schema[x] \in DeclaredType
    BY AdminAssumption
  <2>2. Normalized(schema)[x] = [schema[x] EXCEPT !.lower = TRUE]
    BY DEF Normalized
  <2>3. schema[x].word \in SchemaTypes
    BY DEF ValidSchema
  <2> QED
    BY <2>1, <2>2, <2>3 DEF DeclaredType
<1>2. DOMAIN Normalized(schema) = DOMAIN schema
  BY DEF Normalized
<1>3. Normalized(schema) \in StoredSchemas
  BY DEF StoredSchemas
<1> QED
  BY <1>1, <1>2, <1>3 DEF UsableSchema

-----------------------------------------------------------------------------
\* A step of a request that leaves the versions alone keeps what is known of
\* them, if what it is to insert follows its channel and has a usable schema.
LEMMA TemplatesStill ==
  ASSUME CatalogTypeOK, TemplatesInv, UNCHANGED templates,
         NEW a \in Admin, NEW next \in Job, Goes(a, next), job[a].at # "done",
         next.at = "inserting" =>
           /\ \/ next.version = 1
              \/ /\ next.version - 1 \in DOMAIN templates
                 /\ templates[next.version - 1].channel = next.channel
           /\ UsableSchema(next.schema)
  PROVE  TemplatesInv' /\ job' \in [Admin -> Job] /\ DOMAIN templates' \subseteq Version
<1>1. /\ job' \in [Admin -> Job]
      /\ job'[a] = next
      /\ \A b \in Admin \ {a} : job'[b] = job[b]
  BY GoesMoves DEF CatalogTypeOK
<1>2. \A v \in DOMAIN templates : templates[v].by \in Admin \ {a}
  BY DEF CatalogTypeOK, TemplatesInv, MadeOnce
<1>3. Dense' /\ OneChannel'
  BY DEF TemplatesInv, Dense, OneChannel
<1>4. MadeOnce'
  BY <1>1, <1>2 DEF TemplatesInv, MadeOnce
<1>5. \A b \in Admin : FollowsChannel(b)'
  BY <1>1 DEF TemplatesInv, FollowsChannel
<1>6. SchemasUsable'
  BY <1>1 DEF TemplatesInv, SchemasUsable
<1> QED
  BY <1>1, <1>3, <1>4, <1>5, <1>6 DEF TemplatesInv, CatalogTypeOK

\* What a request may go on to in its registration: what it unset are defaults, what
\* it holds nobody else does, and it begins to move the default only when it is alone
\* and every other default is unset.
MayRegister(a, next) ==
  /\ next.at \in Open =>
       next.off \subseteq Defaults /\ (~next.default => next.off = {})
  /\ next.at = "cleared" => \A b \in Admin \ {a} : Holds(b) \cap next.off = {}
  /\ next.at \in {"keyed", "upserted"} =>
       \A b \in Admin \ {a} : Holds(b) \cap (next.off \cup {next.provider}) = {}
  /\ next.at = "upserted" /\ next.default =>
       /\ \A b \in Admin \ {a} : ~Moving(b)
       /\ Defaults \subseteq next.off \cup {next.provider}

\* A step of a request that leaves the rows of the credentials alone keeps what
\* is known of them.
LEMMA CredsStill ==
  ASSUME CatalogTypeOK, CredsInv, UNCHANGED creds,
         NEW a \in Admin, NEW next \in Job, Goes(a, next), MayRegister(a, next)
  PROVE  CredsInv'
<1>1. /\ job'[a] = next
      /\ \A b \in Admin \ {a} : job'[b] = job[b]
  BY GoesMoves DEF CatalogTypeOK
<1>2. Defaults' = Defaults
  BY DEF Defaults
<1>3. \A b \in Admin : OffByDefault(b)'
  BY <1>1, <1>2 DEF CredsInv, OffByDefault, MayRegister
<1>4. MovesAlone'
  <2>1. ASSUME NEW b \in Admin, NEW c \in Admin, Moving(b)', Moving(c)'
        PROVE  b = c
    BY <1>1, <2>1 DEF CredsInv, MovesAlone, Moving, MayRegister
  <2>2. ASSUME NEW b \in Admin, Moving(b)'
        PROVE  Defaults' \subseteq job'[b].off \cup {job'[b].provider}
    BY <1>1, <1>2, <2>2 DEF CredsInv, MovesAlone, Moving, MayRegister
  <2> QED
    BY <2>1, <2>2 DEF MovesAlone
<1>5. OneDefault'
  BY <1>2 DEF CredsInv, OneDefault
<1>6. LocksExclusive'
  <2>1. \A b \in Admin \ {a} : Holds(b)' = Holds(b)
    BY <1>1 DEF Holds
  <2>2. Holds(a)' = CASE next.at = "cleared"                -> next.off
                      [] next.at \in {"keyed", "upserted"} -> next.off \cup {next.provider}
                      [] OTHER                             -> {}
    BY <1>1 DEF Holds
  <2>3. \A b \in Admin \ {a} : Holds(b) \cap Holds(a)' = {}
    BY <2>2 DEF MayRegister
  <2> QED
    BY <2>1, <2>3 DEF CredsInv, LocksExclusive
<1> QED
  BY <1>3, <1>4, <1>5, <1>6 DEF CredsInv

\* The two together: a step of a request that writes no row yet.
LEMMA RowsStill ==
  ASSUME CatalogInv, UNCHANGED <<templates, creds>>,
         NEW a \in Admin, NEW next \in Job, Goes(a, next), job[a].at # "done",
         next.at = "inserting" =>
           /\ \/ next.version = 1
              \/ /\ next.version - 1 \in DOMAIN templates
                 /\ templates[next.version - 1].channel = next.channel
           /\ UsableSchema(next.schema),
         MayRegister(a, next)
  PROVE  CatalogInv'
<1>1. TemplatesInv' /\ job' \in [Admin -> Job] /\ DOMAIN templates' \subseteq Version
  BY TemplatesStill DEF CatalogInv
<1>2. CredsInv'
  BY CredsStill DEF CatalogInv
<1>3. creds' \in [Provider -> {"absent", "plain", "default"}]
  BY DEF CatalogInv, CatalogTypeOK
<1>4. CatalogTypeOK'
  BY <1>1, <1>3, NextTypes DEF TemplatesInv
<1> QED
  BY <1>1, <1>2, <1>4 DEF CatalogInv

\* Refuse, Crash, and any other step that ends a request.
LEMMA EndingInv ==
  ASSUME CatalogInv, NEW a \in Admin, NEW r \in Reply, Goes(a, Done(r)),
         job[a].at # "done", UNCHANGED <<templates, creds>>
  PROVE  CatalogInv'
<1>1. Done(r) \in Job /\ Done(r).at = "done" /\ MayRegister(a, Done(r))
  BY NextJobs DEF Done, MayRegister, Open
<1> QED
  BY <1>1, RowsStill

LEMMA CreateInv ==
  ASSUME CatalogInv, NEW a \in Admin, NEW schema \in Schemas[a], NEW ch \in Channel,
         Create(a, ch, schema)
  PROVE  CatalogInv'
<1>0. job[a].at = "new" /\ UNCHANGED <<templates, creds>> /\ ValidSchema(schema)
  BY DEF Create, New
<1>1. CASE VersionsFor(ch) # {}
  BY <1>0, <1>1, EndingInv DEF Create, Reply
<1>2. CASE VersionsFor(ch) = {}
  <2> DEFINE next == Inserting(1, ch, Normalized(schema))
  <2>1. Goes(a, next)
    BY <1>2 DEF Create
  <2>2. UsableSchema(Normalized(schema)) /\ Normalized(schema) \in StoredSchemas
    BY <1>0, NormalizedUsable
  <2>3. 1 \in Version
    BY <1>0, RoomForOne DEF CatalogInv, TemplatesInv
  <2>4. /\ next \in Job
        /\ next.at = "inserting" /\ next.version = 1 /\ next.schema = Normalized(schema)
        /\ MayRegister(a, next)
    BY <2>2, <2>3, NextJobs DEF Inserting, MayRegister, Open
  <2> HIDE DEF next
  <2> QED
    BY <1>0, <2>1, <2>2, <2>4, RowsStill
<1> QED
  BY <1>1, <1>2

LEMMA PatchInv ==
  ASSUME CatalogInv, NEW a \in Admin, NEW schema \in Schemas[a],
         NEW base \in DOMAIN templates, Patch(a, base, schema)
  PROVE  CatalogInv'
<1>0. job[a].at = "new" /\ UNCHANGED <<templates, creds>>
  BY DEF Patch, New
<1>1. CASE ~(templates[base].active /\ ValidSchema(schema))
  BY <1>0, <1>1, EndingInv DEF Patch, Reply
<1>2. CASE templates[base].active /\ ValidSchema(schema)
  <2> DEFINE next == Inserting(base + 1, templates[base].channel, Normalized(schema))
  <2>1. Goes(a, next)
    BY <1>2 DEF Patch, NextVersion
  <2>2. UsableSchema(Normalized(schema)) /\ Normalized(schema) \in StoredSchemas
    BY <1>2, NormalizedUsable
  <2>3. base + 1 \in Version /\ base \in Nat
    BY <1>0, RoomForOne DEF CatalogInv, CatalogTypeOK, TemplatesInv, Version
  <2>4. templates[base].channel \in Channel
    BY DEF CatalogInv, CatalogTypeOK
  <2>5. /\ next \in Job
        /\ next.at = "inserting" /\ next.version = base + 1 /\ next.schema = Normalized(schema)
        /\ next.channel = templates[base].channel
        /\ MayRegister(a, next)
    BY <2>2, <2>3, <2>4, NextJobs DEF Inserting, MayRegister, Open
  <2>6. next.version - 1 = base
    BY <2>3, <2>5
  <2> HIDE DEF next
  <2> QED
    BY <1>0, <2>1, <2>2, <2>5, <2>6, RowsStill
<1> QED
  BY <1>1, <1>2

LEMMA RegisterInv ==
  ASSUME CatalogInv, NEW a \in Admin, NEW p \in Provider, NEW d \in BOOLEAN,
         Register(a, p, d)
  PROVE  CatalogInv'
<1>0. job[a].at = "new" /\ UNCHANGED <<templates, creds>>
  BY DEF Register, New
<1>1. CASE d
  <2> DEFINE next == Registering(p, Defaults)
  <2>1. Goes(a, next)
    BY <1>1 DEF Register
  <2>2. next \in Job /\ next.at = "clearing" /\ MayRegister(a, next)
    BY NextJobs DEF Registering, Defaults, MayRegister, Open
  <2> HIDE DEF next
  <2> QED
    BY <1>0, <2>1, <2>2, RowsStill
<1>2. CASE ~d
  <2> DEFINE next == Cleared(p, FALSE, {})
  <2>1. Goes(a, next)
    BY <1>2 DEF Register
  <2>2. next \in Job /\ next.at = "cleared" /\ MayRegister(a, next)
    BY NextJobs DEF Cleared, MayRegister, Open
  <2> HIDE DEF next
  <2> QED
    BY <1>0, <2>1, <2>2, RowsStill
<1> QED
  BY <1>1, <1>2

LEMMA ClearDefaultsInv ==
  ASSUME CatalogInv, NEW a \in Admin, ClearDefaults(a)
  PROVE  CatalogInv'
<1> DEFINE next == Cleared(job[a].provider, TRUE, job[a].seen \cap Defaults)
<1>1. job[a].at = "clearing" /\ UNCHANGED <<templates, creds>> /\ Goes(a, next)
  BY DEF ClearDefaults
<1>2. job[a].provider \in Provider /\ job[a].seen \subseteq Provider
  BY <1>1, JobFields DEF CatalogInv, CatalogTypeOK
<1>3. next \in Job /\ next.at = "cleared"
  BY <1>2, NextJobs DEF Cleared
<1>4. MayRegister(a, next)
  <2>1. \A b \in Admin \ {a} : job[a].seen \cap Holds(b) = {}
    BY <1>1 DEF ClearDefaults, WaitsFor, Others
  <2> QED
    BY <2>1 DEF MayRegister, Cleared
<1> HIDE DEF next
<1> QED
  BY <1>1, <1>3, <1>4, RowsStill

LEMMA TakeKeyInv ==
  ASSUME CatalogInv, NEW a \in Admin, TakeKey(a)
  PROVE  CatalogInv'
<1> DEFINE next == Keyed(job[a].provider, job[a].default, job[a].off)
<1>1. job[a].at = "cleared" /\ UNCHANGED <<templates, creds>> /\ Goes(a, next)
  BY DEF TakeKey
<1>2. /\ job[a].provider \in Provider /\ job[a].default \in BOOLEAN
      /\ job[a].off \subseteq Provider
  BY <1>1, JobFields DEF CatalogInv, CatalogTypeOK, Open
<1>3. next \in Job /\ next.at = "keyed"
  BY <1>2, NextJobs DEF Keyed
<1>4. MayRegister(a, next)
  <2>1. \A b \in Admin \ {a} : job[a].provider \notin Holds(b)
    BY <1>1 DEF TakeKey, WaitsFor, KeyHolders, Others
  <2>2. \A b \in Admin \ {a} : Holds(b) \cap job[a].off = {}
    BY <1>1 DEF CatalogInv, CredsInv, LocksExclusive, Holds
  <2>3. OffByDefault(a)
    BY DEF CatalogInv, CredsInv
  <2> QED
    BY <1>1, <2>1, <2>2, <2>3 DEF MayRegister, Keyed, OffByDefault, Open
<1> HIDE DEF next
<1> QED
  BY <1>1, <1>3, <1>4, RowsStill

LEMMA TakeDefaultInv ==
  ASSUME CatalogInv, NEW a \in Admin, TakeDefault(a)
  PROVE  CatalogInv'
<1>0. job[a].at = "keyed" /\ WaitsFor(a) = {} /\ UNCHANGED <<templates, creds>>
  BY DEF TakeDefault
<1>1. CASE SecondDefault(a)
  BY <1>0, <1>1, EndingInv DEF TakeDefault, Reply
<1>2. CASE ~SecondDefault(a)
  <2> DEFINE next == Upserted(job[a].provider, job[a].default, job[a].off)
  <2>1. Goes(a, next)
    BY <1>2 DEF TakeDefault
  <2>2. /\ job[a].provider \in Provider /\ job[a].default \in BOOLEAN
        /\ job[a].off \subseteq Provider
    BY <1>0, JobFields DEF CatalogInv, CatalogTypeOK, Open
  <2>3. /\ next \in Job /\ next.at = "upserted" /\ next.provider = job[a].provider
        /\ next.default = job[a].default /\ next.off = job[a].off
    BY <2>2, NextJobs DEF Upserted
  <2>4. OffByDefault(a) /\ job[a].at \in Open
    BY <1>0 DEF CatalogInv, CredsInv, Open
  <2>5. next.default => \A b \in Admin \ {a} : ~Moving(b)
    BY <1>0, <2>3 DEF WaitsFor, Others, MovesDefault, Moving
  <2>6. next.default => Defaults \subseteq next.off \cup {next.provider}
    BY <1>2, <2>3 DEF SecondDefault
  <2>7. \A b \in Admin \ {a} : Holds(b) \cap (job[a].off \cup {job[a].provider}) = {}
    BY <1>0 DEF CatalogInv, CredsInv, LocksExclusive, Holds
  <2>8. MayRegister(a, next)
    BY <2>3, <2>4, <2>5, <2>6, <2>7 DEF MayRegister, OffByDefault
  <2> HIDE DEF next
  <2> QED
    BY <1>0, <2>1, <2>3, <2>8, RowsStill
<1> QED
  BY <1>1, <1>2

LEMMA CrashInv ==
  ASSUME CatalogInv, NEW a \in Admin, Crash(a)
  PROVE  CatalogInv'
BY EndingInv DEF Crash, Busy, Reply

\* The row a COMMIT of the registration leaves: at most the new default.
LEMMA CommitRegistrationInv ==
  ASSUME CatalogInv, NEW a \in Admin, CommitRegistration(a)
  PROVE  CatalogInv'
<1>1. job[a].at = "upserted" /\ UNCHANGED templates /\ Goes(a, Done("created"))
  BY DEF CommitRegistration
<1>2. /\ Done("created") \in Job /\ Done("created").at = "done"
  BY NextJobs DEF Done, Reply
<1>3. /\ job[a].provider \in Provider /\ job[a].default \in BOOLEAN
      /\ job[a].off \subseteq Provider
  BY <1>1, JobFields DEF CatalogInv, CatalogTypeOK, Open
<1>4. /\ job' \in [Admin -> Job]
      /\ job'[a] = Done("created")
      /\ \A b \in Admin \ {a} : job'[b] = job[b]
  BY <1>1, <1>2, GoesMoves DEF CatalogInv, CatalogTypeOK
<1>5. /\ creds' \in [Provider -> {"absent", "plain", "default"}]
      /\ \A p \in Provider :
           creds'[p] = IF p = job[a].provider
                       THEN (IF job[a].default THEN "default" ELSE "plain")
                       ELSE IF p \in job[a].off THEN "plain" ELSE creds[p]
  BY DEF CommitRegistration, CatalogInv, CatalogTypeOK
<1>6. TemplatesInv' /\ DOMAIN templates' \subseteq Version
  BY <1>1, <1>2, TemplatesStill DEF CatalogInv
<1>7. CatalogTypeOK'
  BY <1>4, <1>5, <1>6, NextTypes DEF TemplatesInv
<1>8. Defaults' \subseteq IF job[a].default THEN {job[a].provider} ELSE Defaults
  BY <1>1, <1>5 DEF Defaults, CatalogInv, CredsInv, MovesAlone, Moving
<1>9. OneDefault'
  BY <1>8 DEF CatalogInv, CredsInv, OneDefault
<1>10. \A b \in Admin : OffByDefault(b)'
  <2> SUFFICES ASSUME NEW b \in Admin, job'[b].at \in Open
               PROVE  /\ job'[b].off \subseteq Defaults'
                      /\ ~job'[b].default => job'[b].off = {}
    BY DEF OffByDefault
  <2>1. b # a /\ job'[b] = job[b] /\ OffByDefault(b)
    BY <1>2, <1>4 DEF CatalogInv, CredsInv, Open
  <2>2. Holds(a) = job[a].off \cup {job[a].provider} /\ job[b].off \subseteq Holds(b)
    BY <1>1, <2>1 DEF Holds, Open
  <2>3. job[b].off \cap (job[a].off \cup {job[a].provider}) = {}
    BY <2>1, <2>2 DEF CatalogInv, CredsInv, LocksExclusive
  <2>4. \A p \in Defaults : p \notin job[a].off \cup {job[a].provider} => p \in Defaults'
    BY <1>5 DEF Defaults
  <2> QED
    BY <2>1, <2>3, <2>4 DEF OffByDefault
<1>11. MovesAlone'
  <2>1. ASSUME NEW b \in Admin, Moving(b)'
        PROVE  Moving(b) /\ b # a /\ job'[b] = job[b]
    BY <1>2, <1>4, <2>1 DEF Moving
  <2>2. ASSUME NEW b \in Admin, NEW c \in Admin, Moving(b)', Moving(c)'
        PROVE  b = c
    BY <2>1, <2>2 DEF CatalogInv, CredsInv, MovesAlone
  <2>3. ASSUME NEW b \in Admin, Moving(b)'
        PROVE  Defaults' \subseteq job'[b].off \cup {job'[b].provider}
    <3>1. ~job[a].default
      BY <1>1, <2>1, <2>3 DEF CatalogInv, CredsInv, MovesAlone, Moving
    <3>2. Defaults' \subseteq Defaults
      BY <1>8, <3>1
    <3> QED
      BY <2>1, <2>3, <3>2 DEF CatalogInv, CredsInv, MovesAlone
  <2> QED
    BY <2>2, <2>3 DEF MovesAlone
<1>12. LocksExclusive'
  <2>1. Holds(a)' = {} /\ \A b \in Admin \ {a} : Holds(b)' = Holds(b)
    BY <1>2, <1>4 DEF Holds
  <2> QED
    BY <2>1 DEF CatalogInv, CredsInv, LocksExclusive
<1> QED
  BY <1>6, <1>7, <1>9, <1>10, <1>11, <1>12 DEF CatalogInv, CredsInv

\* The operator writes is_active, and no other column.
LEMMA SetActiveInv ==
  ASSUME CatalogInv, NEW r \in DOMAIN templates, NEW active \in BOOLEAN, SetActive(r, active)
  PROVE  CatalogInv'
<1>1. UNCHANGED <<creds, job>> /\ templates' = [templates EXCEPT ![r].active = active]
  BY DEF SetActive
<1>2. PICK k \in Nat : templates \in [1 .. k -> TemplateRow]
  BY DEF CatalogInv, TemplatesInv, Dense
<1>3. /\ templates' \in [1 .. k -> TemplateRow]
      /\ \A v \in 1 .. k : /\ templates'[v].channel = templates[v].channel
                           /\ templates'[v].by = templates[v].by
                           /\ templates'[v].schema = templates[v].schema
  BY <1>1, <1>2 DEF TemplateRow
<1>4. DOMAIN templates = 1 .. k /\ DOMAIN templates' = 1 .. k
  BY <1>2, <1>3
<1>5. Dense'
  BY <1>3 DEF Dense
<1>6. CatalogTypeOK'
  BY <1>1, <1>4, <1>5, NextTypes DEF CatalogInv, CatalogTypeOK
<1>7. MadeOnce'
  BY <1>1, <1>3, <1>4 DEF CatalogInv, TemplatesInv, MadeOnce
<1>8. \A a \in Admin : FollowsChannel(a)'
  BY <1>1, <1>3, <1>4 DEF CatalogInv, TemplatesInv, FollowsChannel
<1>9. SchemasUsable'
  BY <1>1, <1>3, <1>4 DEF CatalogInv, TemplatesInv, SchemasUsable
<1>10. OneChannel'
  BY <1>3, <1>4 DEF CatalogInv, TemplatesInv, OneChannel
<1>11. CredsInv'
  BY <1>1 DEF CatalogInv, CredsInv, OffByDefault, LocksExclusive, Holds, MovesAlone, Moving,
              OneDefault, Defaults
<1> QED
  BY <1>5, <1>6, <1>7, <1>8, <1>9, <1>10, <1>11 DEF CatalogInv, TemplatesInv

\* The INSERT: a number that is free is the next one, and goes to the channel of
\* the version before it.
LEMMA InsertTemplateInv ==
  ASSUME CatalogInv, NEW a \in Admin, InsertTemplate(a)
  PROVE  CatalogInv'
<1> DEFINE v  == job[a].version
           ch == job[a].channel
           row == [channel |-> ch, active |-> TRUE, by |-> a, schema |-> job[a].schema]
<1>0. job[a].at = "inserting" /\ UNCHANGED creds
  BY DEF InsertTemplate
<1>1. CASE v \in DOMAIN templates
  BY <1>0, <1>1, EndingInv DEF InsertTemplate, KeyTaken, Reply
<1>2. CASE v \notin DOMAIN templates
  <2>1. /\ Goes(a, Done("created"))
        /\ templates' = [u \in DOMAIN templates \cup {v} |->
                           IF u = v THEN row ELSE templates[u]]
    BY <1>2 DEF InsertTemplate, KeyTaken
  <2>2. v \in Version /\ ch \in Channel /\ job[a].schema \in StoredSchemas
    BY <1>0, JobFields DEF CatalogInv, CatalogTypeOK
  <2>3. row \in TemplateRow
    BY <2>2 DEF TemplateRow
  <2>4. PICK k \in Nat : templates \in [1 .. k -> TemplateRow]
    BY DEF CatalogInv, TemplatesInv, Dense
  <2>5. /\ v = k + 1
        /\ \A u \in 1 .. k : templates[u].channel = ch
    BY <1>0, <1>2, <2>2, <2>4
       DEF CatalogInv, TemplatesInv, FollowsChannel, OneChannel, Version
  <2>6. DOMAIN templates \cup {v} = 1 .. k + 1
    BY <2>4, <2>5
  <2>7. /\ DOMAIN templates' = 1 .. k + 1
        /\ \A u \in 1 .. k : u # v /\ templates'[u] = templates[u]
        /\ templates'[v] = row
    <3> HIDE DEF row, v
    <3> QED
      BY <2>1, <2>4, <2>5, <2>6
  <2>8. templates' \in [1 .. k + 1 -> TemplateRow]
    <3> HIDE DEF row, v
    <3> QED
      BY <2>1, <2>3, <2>4, <2>5, <2>6
  <2>9. Dense'
    BY <2>8 DEF Dense
  <2>10. /\ Done("created") \in Job /\ Done("created").at = "done"
         /\ Done("created").at # "inserting" /\ MayRegister(a, Done("created"))
    BY NextJobs DEF Done, Reply, MayRegister, Open
  <2>11. /\ job' \in [Admin -> Job]
         /\ job'[a] = Done("created")
         /\ \A b \in Admin \ {a} : job'[b] = job[b]
    BY <2>1, <2>10, GoesMoves DEF CatalogInv, CatalogTypeOK
  <2>12. /\ row.by = a /\ row.channel = ch /\ row.schema = job[a].schema
    OBVIOUS
  <2>13. CatalogTypeOK'
    BY <1>0, <2>2, <2>4, <2>6, <2>7, <2>9, <2>11, NextTypes DEF CatalogInv, CatalogTypeOK
  <2>14. \A u \in 1 .. k : templates[u].by \in Admin \ {a}
    BY <1>0, <2>4 DEF CatalogInv, CatalogTypeOK, TemplatesInv, MadeOnce
  <2>15. \A u \in DOMAIN templates' : u \in 1 .. k \/ u = v
    BY <2>5, <2>7
  <2> HIDE DEF row, ch, v
  <2>16. MadeOnce'
    <3>1. \A u \in DOMAIN templates' : job'[templates'[u].by].at = "done"
      BY <2>4, <2>7, <2>10, <2>11, <2>12, <2>14, <2>15 DEF CatalogInv, TemplatesInv, MadeOnce
    <3>2. \A u, w \in DOMAIN templates' : u # w => templates'[u].by # templates'[w].by
      BY <2>4, <2>7, <2>12, <2>14, <2>15 DEF CatalogInv, TemplatesInv, MadeOnce
    <3> QED
      BY <3>1, <3>2 DEF MadeOnce
  <2>17. \A b \in Admin : FollowsChannel(b)'
    <3> SUFFICES ASSUME NEW b \in Admin, job'[b].at = "inserting"
                 PROVE  \/ job'[b].version = 1
                        \/ /\ job'[b].version - 1 \in DOMAIN templates'
                           /\ templates'[job'[b].version - 1].channel = job'[b].channel
      BY DEF FollowsChannel
    <3>1. job'[b] = job[b] /\ FollowsChannel(b)
      BY <2>10, <2>11 DEF CatalogInv, TemplatesInv
    <3> QED
      BY <2>4, <2>7, <3>1 DEF FollowsChannel
  <2>18. SchemasUsable'
    <3>1. \A u \in DOMAIN templates' : UsableSchema(templates'[u].schema)
      BY <1>0, <2>4, <2>7, <2>12, <2>15 DEF CatalogInv, TemplatesInv, SchemasUsable
    <3>2. \A b \in Admin : job'[b].at = "inserting" => UsableSchema(job'[b].schema)
      BY <2>10, <2>11 DEF CatalogInv, TemplatesInv, SchemasUsable
    <3> QED
      BY <3>1, <3>2 DEF SchemasUsable
  <2>19. OneChannel'
    BY <2>5, <2>7, <2>12, <2>15 DEF OneChannel
  <2>20. CredsInv'
    BY <1>0, <2>1, <2>10, CredsStill DEF CatalogInv
  <2> QED
    BY <2>9, <2>13, <2>16, <2>17, <2>18, <2>19, <2>20 DEF CatalogInv, TemplatesInv
<1> QED
  BY <1>1, <1>2

LEMMA CatalogInitInv == CatalogInit => CatalogInv
<1> SUFFICES ASSUME CatalogInit PROVE CatalogInv
  OBVIOUS
<1>1. DOMAIN templates = {} /\ templates \in [1 .. 0 -> TemplateRow]
  BY DEF CatalogInit
<1>2. New \in Job /\ \A a \in Admin : job[a] = New
  BY DEF CatalogInit, Job
<1>3. \A a \in Admin : job[a].at = "new"
  BY <1>2 DEF New
<1>4. Defaults = {}
  BY DEF CatalogInit, Defaults
<1>5. CatalogTypeOK
  BY <1>1, <1>2 DEF CatalogInit, CatalogTypeOK
<1>6. Dense
  BY <1>1 DEF Dense
<1>7. TemplatesInv
  BY <1>1, <1>3, <1>6 DEF TemplatesInv, MadeOnce, FollowsChannel, SchemasUsable, OneChannel
<1>8. CredsInv
  BY <1>3, <1>4 DEF CredsInv, OffByDefault, Open, LocksExclusive, Holds, MovesAlone, Moving,
                    OneDefault
<1> QED
  BY <1>5, <1>7, <1>8 DEF CatalogInv

LEMMA CatalogNextInv == CatalogInv /\ [CatalogNext]_catalogVars => CatalogInv'
<1> SUFFICES ASSUME CatalogInv, [CatalogNext]_catalogVars PROVE CatalogInv'
  OBVIOUS
<1>1. ASSUME NEW a \in Admin, Arrive(a) PROVE CatalogInv'
  <2>1. CASE Refuse(a)
    BY <2>1, EndingInv DEF Refuse, New, Reply
  <2>2. ASSUME NEW schema \in Schemas[a], NEW ch \in Channel, Create(a, ch, schema)
        PROVE  CatalogInv'
    BY <2>2, CreateInv
  <2>3. ASSUME NEW schema \in Schemas[a], NEW v \in DOMAIN templates, Patch(a, v, schema)
        PROVE  CatalogInv'
    BY <2>3, PatchInv
  <2>4. ASSUME NEW p \in Provider, NEW d \in BOOLEAN, Register(a, p, d) PROVE CatalogInv'
    BY <2>4, RegisterInv
  <2> QED
    BY <1>1, <2>1, <2>2, <2>3, <2>4 DEF Arrive
<1>2. ASSUME NEW a \in Admin, Proceed(a) PROVE CatalogInv'
  BY <1>2, InsertTemplateInv, ClearDefaultsInv, TakeKeyInv, TakeDefaultInv,
     CommitRegistrationInv DEF Proceed
<1>3. ASSUME NEW a \in Admin, Crash(a) PROVE CatalogInv'
  BY <1>3, CrashInv
<1>4. ASSUME NEW v \in DOMAIN templates, NEW active \in BOOLEAN, SetActive(v, active)
      PROVE  CatalogInv'
  BY <1>4, SetActiveInv
<1>5. CASE UNCHANGED catalogVars
  BY <1>5 DEF catalogVars, CatalogInv, CatalogTypeOK, TemplatesInv, Dense, MadeOnce, FollowsChannel,
              SchemasUsable, OneChannel, CredsInv, OffByDefault, LocksExclusive, Holds,
              MovesAlone, Moving, OneDefault, Defaults
<1> QED
  BY <1>1, <1>2, <1>3, <1>4, <1>5 DEF CatalogNext

-----------------------------------------------------------------------------
\* A step writes no column of an existing version but is_active.
LEMMA VersionsKept ==
  ASSUME CatalogInv, [CatalogNext]_catalogVars, NEW v \in DOMAIN templates
  PROVE  /\ v \in DOMAIN templates'
         /\ templates'[v].by = templates[v].by
         /\ templates'[v].schema = templates[v].schema
<1>1. CASE UNCHANGED templates
  BY <1>1
<1>2. ASSUME NEW a \in Admin, InsertTemplate(a), templates' # templates
      PROVE  v \in DOMAIN templates' /\ templates'[v] = templates[v]
  <2>1. job[a].version \notin DOMAIN templates
    BY <1>2 DEF InsertTemplate, KeyTaken
  <2>2. /\ DOMAIN templates' = DOMAIN templates \cup {job[a].version}
        /\ \A u \in DOMAIN templates : u # job[a].version => templates'[u] = templates[u]
    BY <1>2 DEF InsertTemplate
  <2> QED
    BY <2>1, <2>2
<1>3. ASSUME NEW r \in DOMAIN templates, NEW active \in BOOLEAN, SetActive(r, active)
      PROVE  /\ v \in DOMAIN templates'
             /\ templates'[v].by = templates[v].by
             /\ templates'[v].schema = templates[v].schema
  <2>1. templates' = [templates EXCEPT ![r].active = active]
    BY <1>3 DEF SetActive
  <2>2. templates[v] \in TemplateRow
    BY DEF CatalogInv, TemplatesInv, Dense
  <2> QED
    BY <2>1, <2>2 DEF TemplateRow
<1>4. \/ UNCHANGED templates
      \/ \E a \in Admin : InsertTemplate(a)
      \/ \E r \in DOMAIN templates, active \in BOOLEAN : SetActive(r, active)
  BY DEF CatalogNext, catalogVars, Arrive, Proceed, Refuse, Create, Patch, Register, ClearDefaults,
         TakeKey, TakeDefault, CommitRegistration, Crash
<1> QED
  BY <1>1, <1>2, <1>3, <1>4

\* The default goes only with a COMMIT of a registration without is_default, of
\* the provider that was the default.
LEMMA DefaultGoes ==
  ASSUME CatalogInv, [CatalogNext]_catalogVars, Defaults # {}, Defaults' = {}
  PROVE  \E a \in Admin : /\ job[a].at = "upserted" /\ job'[a].at = "done"
                          /\ ~job[a].default
                          /\ job[a].provider \in Defaults
<1>1. ~UNCHANGED creds
  BY DEF Defaults
<1>2. PICK a \in Admin : CommitRegistration(a)
  BY <1>1 DEF CatalogNext, catalogVars, Arrive, Proceed, Refuse, Create, Patch, Register,
              InsertTemplate, ClearDefaults, TakeKey, TakeDefault, Crash, SetActive
<1>3. job[a].at = "upserted" /\ job'[a].at = "done"
  BY <1>2 DEF CommitRegistration, Goes, Done, CatalogInv, CatalogTypeOK
<1>4. /\ job[a].provider \in Provider /\ job[a].default \in BOOLEAN
  BY <1>3, JobFields DEF CatalogInv, CatalogTypeOK, Open
<1>5. \A p \in Provider :
        creds'[p] = IF p = job[a].provider
                    THEN (IF job[a].default THEN "default" ELSE "plain")
                    ELSE IF p \in job[a].off THEN "plain" ELSE creds[p]
  BY <1>2 DEF CommitRegistration
<1>6. ~job[a].default
  BY <1>4, <1>5 DEF Defaults
<1>7. job[a].off = {}
  BY <1>3, <1>6 DEF CatalogInv, CredsInv, OffByDefault, Open
<1>8. \A p \in Provider \ {job[a].provider} : creds'[p] = creds[p]
  BY <1>5, <1>7
<1>9. job[a].provider \in Defaults
  BY <1>8 DEF Defaults
<1> QED
  BY <1>3, <1>6, <1>9

-----------------------------------------------------------------------------
\* What a message says of the version it names stays true: no step of the
\* administrators or of the operator writes what it was rendered from.
LEMMA MessageStaysRight ==
  ASSUME CatalogInv, [CatalogNext]_catalogVars, NEW message, MessageRight(message)
  PROVE  MessageRight(message)'
<1>1. message.version \in DOMAIN templates
  BY DEF MessageRight
<1>2. /\ message.version \in DOMAIN templates'
      /\ templates'[message.version].by = templates[message.version].by
      /\ templates'[message.version].schema = templates[message.version].schema
  BY <1>1, VersionsKept
<1> QED
  BY <1>2 DEF MessageRight, Message

\* A SELECT of the version and a render of it, without a write in between.
LEMMA LoadInv ==
  ASSUME SendInv, NEW s \in Sender, NEW variables \in Variables, NEW own \in SUBSET TextFields,
         Load(s, variables, own)
  PROVE  SendInv'
<1>1. UNCHANGED <<templates, creds, job, stored>>
  BY DEF Load, catalogVars
<1>2. CatalogInv'
  BY <1>1 DEF SendInv, CatalogInv, CatalogTypeOK, TemplatesInv, Dense, MadeOnce, FollowsChannel,
              SchemasUsable, OneChannel, CredsInv, OffByDefault, LocksExclusive, Holds,
              MovesAlone, Moving, OneDefault, Defaults
<1>3. PICK next : /\ sending' = [sending EXCEPT ![s] = next]
                  /\ \/ \E r \in {"404", "422"} : next = Done(r)
                     \/ \E v \in DOMAIN templates :
                          /\ next = Storing(Message(v, variables, own))
                          /\ ValidVariables(templates[v].schema, variables)
  BY Zenon DEF Load
<1>4. next.at \in {"storing", "done"}
  BY <1>3 DEF Done, Storing
<1>5. next.at = "storing" => MessageRight(next.message)
  <2> SUFFICES ASSUME next.at = "storing" PROVE MessageRight(next.message)
    OBVIOUS
  <2>1. PICK v \in DOMAIN templates :
          /\ next = Storing(Message(v, variables, own))
          /\ ValidVariables(templates[v].schema, variables)
    BY <1>3 DEF Done
  <2>2. next.message = Message(v, variables, own)
    BY <2>1 DEF Storing
  <2>3. /\ Message(v, variables, own).version = v
        /\ Message(v, variables, own).variables = variables
        /\ Message(v, variables, own).own = own
    BY DEF Message
  <2> QED
    BY <2>1, <2>2, <2>3 DEF MessageRight
<1>6. \A m : MessageRight(m) => MessageRight(m)'
  BY <1>1 DEF MessageRight, Message
<1>7. ASSUME NEW t \in Sender PROVE SenderInv(t)'
  <2>1. CASE t = s
    BY <1>1, <1>3, <1>4, <1>5, <1>6, <2>1 DEF SendInv, SenderInv
  <2>2. CASE t # s
    BY <1>1, <1>3, <1>6, <2>2 DEF SendInv, SenderInv
  <2> QED
    BY <2>1, <2>2
<1> QED
  BY <1>1, <1>2, <1>3, <1>7 DEF SendInv

\* The rest of a sender's steps, the INSERT and its failure, write what the load
\* left in hand, or nothing.
LEMMA StoreInv ==
  ASSUME SendInv, NEW s \in Sender, Store(s) \/ Abandon(s)
  PROVE  SendInv'
<1>1. UNCHANGED <<templates, creds, job>> /\ sending[s].at = "storing"
  BY DEF Store, Abandon, catalogVars
<1>2. CatalogInv'
  BY <1>1 DEF SendInv, CatalogInv, CatalogTypeOK, TemplatesInv, Dense, MadeOnce, FollowsChannel,
              SchemasUsable, OneChannel, CredsInv, OffByDefault, LocksExclusive, Holds,
              MovesAlone, Moving, OneDefault, Defaults
<1>3. /\ \E r \in {"202", "500"} : sending' = [sending EXCEPT ![s] = Done(r)]
      /\ stored' = stored \/ stored' = [stored EXCEPT ![s] = sending[s].message]
  BY DEF Store, Abandon
<1>4. /\ DOMAIN sending' = Sender /\ DOMAIN stored' = Sender
      /\ sending'[s].at = "done"
      /\ stored'[s] \in {stored[s], sending[s].message}
      /\ \A t \in Sender \ {s} : sending'[t] = sending[t] /\ stored'[t] = stored[t]
  BY <1>3 DEF Done, SendInv
<1>5. \A m : MessageRight(m) => MessageRight(m)'
  BY <1>1 DEF MessageRight, Message
<1>6. ASSUME NEW t \in Sender PROVE SenderInv(t)'
  <2>1. CASE t = s
    BY <1>1, <1>4, <1>5, <2>1 DEF SendInv, SenderInv
  <2>2. CASE t # s
    BY <1>4, <1>5, <2>2 DEF SendInv, SenderInv
  <2> QED
    BY <2>1, <2>2
<1> QED
  BY <1>2, <1>4, <1>6 DEF SendInv

\* The senders write no row of the administrators': the composition implements
\* the catalogue alone, and inherits what is proved of it.
LEMMA SendStepIsCatalogStep == [SendNext]_sendVars => [CatalogNext]_catalogVars
BY DEF SendNext, sendVars, Load, Store, Abandon

LEMMA SendNextInv == SendInv /\ [SendNext]_sendVars => SendInv'
<1> SUFFICES ASSUME SendInv, [SendNext]_sendVars PROVE SendInv'
  OBVIOUS
<1>1. CASE [CatalogNext]_catalogVars /\ UNCHANGED <<sending, stored>>
  <2>1. CatalogInv'
    BY <1>1, CatalogNextInv DEF SendInv
  <2>2. \A m : MessageRight(m) => MessageRight(m)'
    BY <1>1, MessageStaysRight DEF SendInv
  <2> QED
    BY <1>1, <2>1, <2>2 DEF SendInv, SenderInv
<1>2. ASSUME NEW s \in Sender, NEW variables \in Variables, NEW own \in SUBSET TextFields,
             Load(s, variables, own)
      PROVE  SendInv'
  BY <1>2, LoadInv
<1>3. ASSUME NEW s \in Sender, Store(s) \/ Abandon(s) PROVE SendInv'
  BY <1>3, StoreInv
<1> QED
  BY <1>1, <1>2, <1>3 DEF SendNext, sendVars

LEMMA SendInitInv == SendInit => SendInv
BY CatalogInitInv DEF SendInit, SendInv, SenderInv, New

-----------------------------------------------------------------------------
\* The catalogue with its senders implements the catalogue: sending by template
\* is reading.
THEOREM SendImplementsCatalog == SendSpec => CatalogSpec
<1>1. SendInit => CatalogInit
  BY DEF SendInit
<1> QED
  BY <1>1, SendStepIsCatalogStep, PTL DEF SendSpec, CatalogSpec

\* The invariant of the two tables, of the catalogue by itself.
THEOREM CatalogInvariance == CatalogSpec => []CatalogInv
BY CatalogInitInv, CatalogNextInv, PTL DEF CatalogSpec

\* The inductive invariant of the catalogue and its senders.
THEOREM SendInvariance == SendSpec => []SendInv
BY SendInitInv, SendNextInv, PTL DEF SendSpec

LEMMA SendInvTypes == SendInv => SendTypeOK
<1> SUFFICES ASSUME SendInv PROVE SendTypeOK
  OBVIOUS
<1>1. CatalogTypeOK
  BY DEF SendInv, CatalogInv
<1>2. ASSUME NEW s \in Sender
      PROVE  /\ sending[s].at \in {"new", "storing", "done"}
             /\ stored[s] = NoMessage \/ /\ stored[s].version \in DOMAIN templates
                                         /\ stored[s].variables \in Variables
  BY DEF SendInv, SenderInv, MessageRight
<1> QED
  BY <1>1, <1>2 DEF SendTypeOK

\* Every reachable state is well typed: version numbers do not go past the
\* number of requests, and every version names the request it comes from.
THEOREM SendTypeCorrect == SendSpec => []SendTypeOK
BY SendInvariance, SendInvTypes, PTL

\* A slug is for one channel, though create_template looks for the slug in its
\* own channel only.
THEOREM OneChannelHolds == SendSpec => []OneChannel
<1>1. SendInv => OneChannel
  BY DEF SendInv, CatalogInv, TemplatesInv
<1> QED
  BY <1>1, SendInvariance, PTL

\* No channel of a tenant ever has two default credentials, in spite of
\* registrations that each unset only the defaults they found.
THEOREM OneDefaultHolds == SendSpec => []OneDefault
<1>1. SendInv => OneDefault
  BY DEF SendInv, CatalogInv, CredsInv
<1> QED
  BY <1>1, SendInvariance, PTL

\* The version of a creation or correction that was answered 201 is never
\* overwritten by another request.
THEOREM CorrectionKeptHolds == SendSpec => CorrectionKept
<1>1. SendInv /\ [SendNext]_sendVars =>
        [\A v \in DOMAIN templates :
            v \in DOMAIN templates' /\ templates'[v].by = templates[v].by]_catalogVars
  BY SendStepIsCatalogStep, VersionsKept DEF SendInv
<1> QED
  BY <1>1, SendInvariance, PTL DEF SendSpec, CorrectionKept

\* Switching the default leaves no moment without a default credential.
THEOREM DefaultStaysHolds == SendSpec => DefaultStays
<1>1. SendInv /\ [SendNext]_sendVars =>
        [Defaults # {} /\ Defaults' = {} =>
           \E a \in Admin : /\ job[a].at = "upserted" /\ job'[a].at = "done"
                            /\ ~job[a].default
                            /\ job[a].provider \in Defaults]_catalogVars
  BY SendStepIsCatalogStep, DefaultGoes DEF SendInv
<1> QED
  BY <1>1, SendInvariance, PTL DEF SendSpec, DefaultStays

-----------------------------------------------------------------------------
\* One registration at a time moves the default: two would hold one row, the only
\* default there is.
LEMMA OneMover ==
  ASSUME CredsInv, NEW a \in Admin, NEW b \in Admin, MovesDefault(a), MovesDefault(b)
  PROVE  a = b
<1>1. ASSUME NEW c \in Admin, Moving(c) PROVE Defaults \subseteq Holds(c)
  BY <1>1 DEF CredsInv, MovesAlone, Moving, Holds
<1>2. CASE Moving(a) /\ Moving(b)
  BY <1>2 DEF CredsInv, MovesAlone
<1>3. CASE ~(Moving(a) /\ Moving(b))
  <2>1. Holds(a) \cap Holds(b) # {}
    BY <1>1, <1>3 DEF MovesDefault, Moving, CredsInv, OneDefault
  <2> QED
    BY <2>1 DEF CredsInv, LocksExclusive
<1> QED
  BY <1>2, <1>3

\* In a circle nobody is past its INSERT, so who holds a default has it unset, and is
\* the one that moves it: it waits for a key, and only a request with the key and no
\* default in hand can be what it waits for.
LEMMA CircleIsOfRivals == CatalogInv => OnlyRivalsDeadlock
<1> SUFFICES ASSUME CatalogInv, NEW S \in SUBSET Admin, Circle(S)
             PROVE  \E a, b \in S :
                      /\ job[a].at = "keyed" /\ job[a].default /\ job[a].off = {}
                      /\ job[b].at = "cleared" /\ job[b].off # {}
                      /\ job[a].provider = job[b].provider
  BY DEF OnlyRivalsDeadlock
<1>1. ASSUME NEW a \in S
      PROVE  /\ job[a].at \in {"clearing", "cleared", "keyed"}
             /\ \E b \in S \ {a} : b \in WaitsFor(a)
  <2>1. WaitsFor(a) \cap S # {}
    BY DEF Circle
  <2>2. a \notin WaitsFor(a)
    BY DEF WaitsFor, KeyHolders, Others
  <2> QED
    BY <2>1, <2>2 DEF WaitsFor
<1>2. ASSUME NEW b \in S, Holds(b) # {}
      PROVE  /\ job[b].at \in {"cleared", "keyed"}
             /\ job[b].at = "cleared" => Holds(b) = job[b].off
             /\ job[b].at = "keyed" => Holds(b) = job[b].off \cup {job[b].provider}
             /\ job[b].off # {} => MovesDefault(b)
  BY <1>1, <1>2 DEF Holds, MovesDefault, CatalogInv, CredsInv, OffByDefault, Open
<1>3. ASSUME NEW b \in S, MovesDefault(b)
      PROVE  /\ job[b].at = "cleared" /\ job[b].off # {}
             /\ \E c \in S \ {b} : job[b].provider \in Holds(c)
  <2>1. Holds(b) # {}
    BY <1>1, <1>3 DEF MovesDefault
  <2>2. PICK c \in S \ {b} : c \in WaitsFor(b)
    BY <1>1
  <2>3. ~MovesDefault(c)
    BY <1>3, <2>2, OneMover DEF CatalogInv
  <2>4. job[b].at = "cleared"
    BY <1>2, <2>1, <2>2, <2>3 DEF WaitsFor
  <2> QED
    BY <1>2, <2>1, <2>2, <2>4 DEF WaitsFor, KeyHolders
<1>4. \E b \in S : MovesDefault(b)
  <2>1. CASE \E a \in S : job[a].at = "keyed"
    BY <1>1, <2>1 DEF WaitsFor
  <2>2. CASE \A a \in S : job[a].at # "keyed"
    <3>1. PICK a \in S, b \in S : b \in WaitsFor(a)
      BY <1>1 DEF Circle
    <3>2. Holds(b) # {}
      BY <1>1, <2>2, <3>1 DEF WaitsFor, KeyHolders
    <3> QED
      BY <1>2, <2>2, <3>2
  <2> QED
    BY <2>1, <2>2
<1>5. PICK b \in S : MovesDefault(b)
  BY <1>4
<1>6. PICK a \in S \ {b} : job[b].provider \in Holds(a)
  BY <1>3, <1>5
<1>7. job[a].off = {} /\ job[a].at = "keyed" /\ Holds(a) = {job[a].provider}
  <2>1. ~MovesDefault(a)
    BY <1>5, <1>6, OneMover DEF CatalogInv
  <2> QED
    BY <1>2, <1>6, <2>1
<1>8. job[a].default
  BY <1>1, <1>7 DEF WaitsFor
<1> QED
  BY <1>3, <1>5, <1>6, <1>7, <1>8

\* Registrations deadlock only as two of one provider, one of which found no default
\* to unset; those of different providers never do, however many there are.
THEOREM OnlyRivalsDeadlockHolds == SendSpec => []OnlyRivalsDeadlock
<1>1. SendInv => OnlyRivalsDeadlock
  BY CircleIsOfRivals DEF SendInv
<1> QED
  BY <1>1, SendInvariance, PTL

-----------------------------------------------------------------------------
\* A value that _matches_type accepts is one a caller may mean by the type.
LEMMA MatchedValues ==
  ASSUME NEW value, NEW type, MatchesType(value, type)
  PROVE  value \in ValuesOf[type.word]
<1>1. type.word \in SchemaTypes
  BY DEF MatchesType, SchemaTypes
<1>2. CASE type.word = "string"
  <2>1. IsInstance(value, "str")
    BY <1>2 DEF MatchesType
  <2>2. value = "str" \/ value = ""
    BY <2>1 DEF IsInstance
  <2>3. ValuesOf["string"] = {"", "str"}
    BY DEF ValuesOf
  <2> QED
    BY <1>2, <2>2, <2>3
<1>3. CASE type.word = "integer"
  BY <1>3 DEF MatchesType, IsInstance, ValuesOf
<1>4. CASE type.word = "number"
  BY <1>4 DEF MatchesType, IsInstance, ValuesOf
<1>5. CASE type.word = "boolean"
  BY <1>5 DEF MatchesType, IsInstance, ValuesOf
<1>6. CASE type.word = "array"
  BY <1>6 DEF MatchesType, IsInstance, ValuesOf
<1>7. CASE type.word = "object"
  BY <1>7 DEF MatchesType, IsInstance, ValuesOf
<1> QED
  BY <1>1, <1>2, <1>3, <1>4, <1>5, <1>6, <1>7 DEF SchemaTypes

\* Each of the six types, in small letters, has a value that matches it.
LEMMA TypesAreInhabited ==
  ASSUME NEW type, type.lower = TRUE, type.word \in SchemaTypes
  PROVE  \E value \in Values : MatchesType(value, type)
<1>1. CASE type.word = "string"
  <2>1. MatchesType("str", type)
    BY <1>1 DEF MatchesType, IsInstance
  <2> QED
    BY <2>1 DEF Values
<1>2. CASE type.word = "integer"
  <2>1. MatchesType("int", type)
    BY <1>2 DEF MatchesType, IsInstance
  <2> QED
    BY <2>1 DEF Values
<1>3. CASE type.word = "number"
  <2>1. MatchesType("float", type)
    BY <1>3 DEF MatchesType, IsInstance
  <2> QED
    BY <2>1 DEF Values
<1>4. CASE type.word = "boolean"
  <2>1. MatchesType("bool", type)
    BY <1>4 DEF MatchesType, IsInstance
  <2> QED
    BY <2>1 DEF Values
<1>5. CASE type.word = "array"
  <2>1. MatchesType("list", type)
    BY <1>5 DEF MatchesType, IsInstance
  <2> QED
    BY <2>1 DEF Values
<1>6. CASE type.word = "object"
  <2>1. MatchesType("dict", type)
    BY <1>6 DEF MatchesType, IsInstance
  <2> QED
    BY <2>1 DEF Values
<1> QED
  BY <1>1, <1>2, <1>3, <1>4, <1>5, <1>6 DEF SchemaTypes

\* What is stored with a message explains its text for good, whatever
\* corrections and retirements came while it was sent or since.
THEOREM RenderedAsStoredHolds == SendSpec => []RenderedAsStored
<1>1. SendInv => RenderedAsStored
  BY DEF SendInv, SenderInv, MessageRight, RenderedAsStored, Sent
<1> QED
  BY <1>1, SendInvariance, PTL

\* A message carries a value of the declared type for every variable of the
\* version it names.
THEOREM DeclaredAreFilledHolds == SendSpec => []DeclaredAreFilled
<1>1. SendInv => DeclaredAreFilled
  <2> SUFFICES ASSUME SendInv, NEW message \in Sent,
                      NEW x \in DOMAIN templates[message.version].schema
               PROVE  /\ x \in DOMAIN message.variables
                      /\ message.variables[x]
                           \in ValuesOf[templates[message.version].schema[x].word]
    BY DEF DeclaredAreFilled
  <2>1. MessageRight(message)
    BY DEF SendInv, SenderInv, Sent
  <2>2. /\ x \in DOMAIN message.variables
        /\ MatchesType(message.variables[x], templates[message.version].schema[x])
    BY <2>1 DEF MessageRight, ValidVariables
  <2> QED
    BY <2>2, MatchedValues
<1> QED
  BY <1>1, SendInvariance, PTL

\* Every version that was accepted can be sent: its schema as it is stored asks
\* for nothing that no value is.
THEOREM StoredSchemaUsableHolds == SendSpec => []StoredSchemaUsable
<1>1. SendInv => StoredSchemaUsable
  BY TypesAreInhabited
     DEF SendInv, CatalogInv, TemplatesInv, SchemasUsable, UsableSchema, StoredSchemaUsable
<1> QED
  BY <1>1, SendInvariance, PTL
=============================================================================
