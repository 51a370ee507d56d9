------------------------------ MODULE Catalog ------------------------------
(***************************************************************************)
(* What a tenant's administrators write and send_email reads: the versions *)
(* of a template (POST and PATCH /admin/v1/templates) and the credentials  *)
(* of a channel (POST .../credentials).  Both are a SELECT or UPDATE       *)
(* followed by an INSERT, kept together only by a unique constraint, and   *)
(* run concurrently at READ COMMITTED: a statement sees what was committed *)
(* when it began, and waits for the transaction that holds a row or a      *)
(* unique key it needs.                                                    *)
(*                                                                         *)
(* Slugs share nothing, nor do channels and tenants in the credentials: it *)
(* is one slug, and one channel of one tenant.  A request is named by its  *)
(* member of Admin and ends once.                                          *)
(***************************************************************************)
EXTENDS Naturals, FiniteSets, TemplateRender

CONSTANTS Admin,      \* the administration requests
          Schemas,    \* request -> the values of variables_schema it may bring
          Channel,    \* the channels a template may be for
          Provider    \* the supported providers of the credentials' channel

ASSUME AdminAssumption ==
  /\ IsFiniteSet(Admin)
  /\ DOMAIN Schemas = Admin
  /\ \A a \in Admin : \A s \in Schemas[a] : \A x \in DOMAIN s : s[x] \in DeclaredType

VARIABLES
  templates,   \* the rows of the slug: version -> channel, is_active,
               \* variables_schema, and the request that made it
  creds,       \* provider -> its row: absent, plain, or the default
  job          \* request -> where its handler is, and what it read and wrote

catalogVars == <<templates, creds, job>>

New         == [at |-> "new"]
Done(reply) == [at |-> "done", reply |-> reply]

\* A template INSERT about to be made, and the open transaction of a
\* registration: the provider, is_default, and the defaults it has unset.
Inserting(v, ch, schema) ==
  [at |-> "inserting", version |-> v, channel |-> ch, schema |-> schema]
Registering(p, seen) == [at |-> "clearing", provider |-> p, seen |-> seen]
Cleared(p, d, off)   == [at |-> "cleared", provider |-> p, default |-> d, off |-> off]

\* The INSERT once it has its row, or the key of a row yet to be, and once it is made.
Keyed(p, d, off)     == [at |-> "keyed", provider |-> p, default |-> d, off |-> off]
Upserted(p, d, off)  == [at |-> "upserted", provider |-> p, default |-> d, off |-> off]

\* What the requests' schemas may be stored as.
StoredSchemas == UNION {{Normalized(s) : s \in Schemas[a]} : a \in Admin}

Version == 1 .. Cardinality(Admin)
Reply   == {"created", "conflict", "refused", "error"}
Job ==
  {New} \cup {Done(r) : r \in Reply}
  \cup {Inserting(v, ch, schema) : v \in Version, ch \in Channel,
                                   schema \in StoredSchemas}
  \cup {Registering(p, S) : p \in Provider, S \in SUBSET Provider}
  \cup [at : {"cleared", "keyed", "upserted"}, provider : Provider, default : BOOLEAN,
        off : SUBSET Provider]

CatalogTypeOK ==
  /\ DOMAIN templates \subseteq Version
  /\ \A v \in DOMAIN templates :
       /\ DOMAIN templates[v] = {"channel", "active", "by", "schema"}
       /\ templates[v].channel \in Channel /\ templates[v].active \in BOOLEAN
       /\ templates[v].by \in Admin /\ templates[v].schema \in StoredSchemas
  /\ creds \in [Provider -> {"absent", "plain", "default"}]
  /\ job \in [Admin -> Job]

CatalogInit ==
  /\ templates = [v \in {} |-> 0]
  /\ creds = [p \in Provider |-> "absent"]
  /\ job = [a \in Admin |-> New]

Goes(a, next) == job' = [job EXCEPT ![a] = next]
Defaults == {p \in Provider : creds[p] = "default"}

-----------------------------------------------------------------------------
(* Templates.                                                              *)

VersionsFor(ch) == {v \in DOMAIN templates : templates[v].channel = ch}

\* create_template up to its INSERT: 422 for its schema (see Refuse), or SELECT
\* MAX(version) of slug and channel.
Create(a, ch, schema) ==
  /\ job[a] = New
  /\ ValidSchema(schema)
  /\ Goes(a, IF VersionsFor(ch) # {} THEN Done("conflict")
             ELSE Inserting(1, ch, Normalized(schema)))
  /\ UNCHANGED <<templates, creds>>

\* Slip for the mutation checks: a number is left out.
NextVersionSkips(base) == base + 2

NextVersion(base) == base + 1

\* patch_template up to its INSERT: the base must be active, and keeps its
\* channel; the new version follows the base's, not the highest.
Patch(a, base, schema) ==
  /\ job[a] = New
  /\ base \in DOMAIN templates
  /\ Goes(a, IF templates[base].active /\ ValidSchema(schema)
             THEN Inserting(NextVersion(base), templates[base].channel, Normalized(schema))
             ELSE Done("refused"))
  /\ UNCHANGED <<templates, creds>>

\* Slip: the key has the channel in it, like the SELECT.
KeyTakenInChannel(v, ch) == v \in VersionsFor(ch)

\* Slip: an INSERT ... ON CONFLICT DO UPDATE meets no key.
KeyTakenNever(v, ch) == FALSE

\* UNIQUE (tenant_id, slug, version).
KeyTaken(v, ch) == v \in DOMAIN templates

\* The INSERT and its commit: an INSERT of the same key by another transaction
\* waits for this one to end.  IntegrityError is nobody's except: a 500.
InsertTemplate(a) ==
  LET v  == job[a].version
      ch == job[a].channel
  IN /\ job[a].at = "inserting"
     /\ IF KeyTaken(v, ch)
        THEN Goes(a, Done("error")) /\ UNCHANGED templates
        ELSE /\ templates' = [u \in DOMAIN templates \cup {v} |->
                                IF u = v
                                THEN [channel |-> ch, active |-> TRUE, by |-> a,
                                      schema |-> job[a].schema]
                                ELSE templates[u]]
             /\ Goes(a, Done("created"))
     /\ UNCHANGED creds

\* The operator takes a version out of use, or into it again, by SQL: is_active
\* is what the triggers of the table leave open.
SetActive(v, active) ==
  /\ v \in DOMAIN templates
  /\ templates[v].active # active
  /\ templates' = [templates EXCEPT ![v].active = active]
  /\ UNCHANGED <<creds, job>>

-----------------------------------------------------------------------------
(* Credentials: one transaction of an UPDATE and an INSERT per request.      *)

\* What others wait for when they need it: the rows the open transaction of b has
\* written, and from "keyed" the row or the key of its INSERT.
Holds(b) ==
  CASE job[b].at = "cleared"                -> job[b].off
    [] job[b].at \in {"keyed", "upserted"} -> job[b].off \cup {job[b].provider}
    [] OTHER                                -> {}

Others(a) == Admin \ {a}

\* The transaction of b may turn the default into another row, or into none: it
\* has written the default's row or inserted a default, and either is in
\* uq_tenant_channel_default until it ends.
MovesDefault(b) ==
  \/ Holds(b) \cap Defaults # {}
  \/ job[b].at = "upserted" /\ job[b].default

\* Slip for the mutation checks: LOCK TABLE after the UPDATE, in place of the key.
KeyHoldersTable(a) ==
  {b \in Others(a) : /\ job[b].at \in {"cleared", "keyed", "upserted"}
                     /\ job[b].default}

\* Whoever has the row or the key the INSERT of a asks for first.
KeyHolders(a) == {b \in Others(a) : job[a].provider \in Holds(b)}

\* The transactions that must end before the statement of a goes on: the UPDATE
\* waits for the rows it found, the INSERT first for its key and then, keeping
\* it, a new default for whoever is moving the default.
WaitsFor(a) ==
  CASE job[a].at = "clearing" -> {b \in Others(a) : job[a].seen \cap Holds(b) # {}}
    [] job[a].at = "cleared"  -> KeyHolders(a)
    [] job[a].at = "keyed"    -> {b \in Others(a) : job[a].default /\ MovesDefault(b)}
    [] OTHER                  -> {}

\* 403, 422, an unknown provider; or a body that does not parse.
Refuse(a) ==
  /\ job[a] = New
  /\ Goes(a, Done("refused"))
  /\ UNCHANGED <<templates, creds>>

\* register_credentials: with is_default the UPDATE begins, and finds the rows
\* that are defaults at this moment; without it there is no UPDATE.
Register(a, p, default) ==
  /\ job[a] = New
  /\ Goes(a, IF default THEN Registering(p, Defaults) ELSE Cleared(p, FALSE, {}))
  /\ UNCHANGED <<templates, creds>>

\* Slip: a commit after the UPDATE.
ClearDefaultsCommitted(a) ==
  /\ job[a].at = "clearing"
  /\ WaitsFor(a) = {}
  /\ Goes(a, Cleared(job[a].provider, TRUE, {}))
  /\ creds' = [p \in Provider |-> IF p \in job[a].seen /\ creds[p] = "default"
                                  THEN "plain" ELSE creds[p]]
  /\ UNCHANGED templates

\* UPDATE ... SET is_default = false: of the rows it found, and has waited for,
\* it looks again whether each is still a default.
ClearDefaults(a) ==
  /\ job[a].at = "clearing"
  /\ WaitsFor(a) = {}
  /\ Goes(a, Cleared(job[a].provider, TRUE, job[a].seen \cap Defaults))
  /\ UNCHANGED <<templates, creds>>

\* uq_tenant_channel_default: a default the UPDATE did not find.
SecondDefault(a) ==
  job[a].default /\ Defaults \ (job[a].off \cup {job[a].provider}) # {}

\* INSERT ... ON CONFLICT (tenant_id, channel, provider_slug) DO UPDATE finds the
\* row, and locks it, or makes the key its own.
TakeKey(a) ==
  /\ job[a].at = "cleared"
  /\ WaitsFor(a) = {}
  /\ Goes(a, Keyed(job[a].provider, job[a].default, job[a].off))
  /\ UNCHANGED <<templates, creds>>

\* The same INSERT at the other index, for which ON CONFLICT settles nothing: a
\* second default is a 500.
TakeDefault(a) ==
  /\ job[a].at = "keyed"
  /\ WaitsFor(a) = {}
  /\ Goes(a, IF SecondDefault(a) THEN Done("error")
             ELSE Upserted(job[a].provider, job[a].default, job[a].off))
  /\ UNCHANGED <<templates, creds>>

CommitRegistration(a) ==
  /\ job[a].at = "upserted"
  /\ creds' = [p \in Provider |->
                 IF p = job[a].provider
                 THEN (IF job[a].default THEN "default" ELSE "plain")
                 ELSE IF p \in job[a].off THEN "plain" ELSE creds[p]]
  /\ Goes(a, Done("created"))
  /\ UNCHANGED templates

-----------------------------------------------------------------------------
Busy(a) == job[a].at \notin {"new", "done"}

\* The process ends, the database fails, or it breaks a circle of waits by ending
\* one of its transactions: rolled back.
Crash(a) ==
  /\ Busy(a)
  /\ Goes(a, Done("error"))
  /\ UNCHANGED <<templates, creds>>

Arrive(a) ==
  \/ Refuse(a)
  \/ \E schema \in Schemas[a] :
       \/ \E ch \in Channel : Create(a, ch, schema)
       \/ \E v \in DOMAIN templates : Patch(a, v, schema)
  \/ \E p \in Provider, d \in BOOLEAN : Register(a, p, d)

Proceed(a) ==
  \/ InsertTemplate(a) \/ ClearDefaults(a) \/ TakeKey(a) \/ TakeDefault(a)
  \/ CommitRegistration(a)

CatalogNext ==
  \/ \E a \in Admin : Arrive(a) \/ Proceed(a) \/ Crash(a)
  \/ \E v \in DOMAIN templates, active \in BOOLEAN : SetActive(v, active)

CatalogSpec == CatalogInit /\ [][CatalogNext]_catalogVars

-----------------------------------------------------------------------------
\* All versions of a slug are for one channel, as patch_template demands of a
\* correction, although create_template asks for the slug in its own channel
\* only: of two creations for two channels the key lets one through.
OneChannel ==
  \A u, v \in DOMAIN templates : templates[u].channel = templates[v].channel

\* A creation or correction answered 201 has a version of its own, and keeps
\* it: corrections of one base at once do not overwrite each other.
CorrectionKept ==
  [][\A v \in DOMAIN templates :
        v \in DOMAIN templates' /\ templates'[v].by = templates[v].by]_catalogVars

\* Switching the default leaves no moment without one, in which a dispatch
\* would fail its message for want of a credential: a default goes only when
\* its own provider is registered again with is_default = false.
DefaultStays ==
  [][Defaults # {} /\ Defaults' = {} =>
       \E a \in Admin : /\ job[a].at = "upserted" /\ job'[a].at = "done"
                        /\ ~job[a].default
                        /\ job[a].provider \in Defaults]_catalogVars

\* Requests that all wait, each for another of them.
Circle(S) == S # {} /\ \A a \in S : WaitsFor(a) \cap S # {}

\* Registrations wait for each other in a circle in one case only, which the
\* database ends with a 500: two of one provider as the default, of which the one
\* with the key found no default to unset, and waits for the other to move the one
\* there is, and the other waits for the key.  Those of different providers never do.
OnlyRivalsDeadlock ==
  \A S \in SUBSET Admin : Circle(S) =>
    \E a, b \in S :
      /\ job[a].at = "keyed" /\ job[a].default /\ job[a].off = {}
      /\ job[b].at = "cleared" /\ job[b].off # {}
      /\ job[a].provider = job[b].provider

\* The integration document: to correct a template, a PATCH makes a version
\* with the next number.  And patch_template, to whom gives an inactive base:
\* use another active version.  So as long as a version is active, some active
\* version must have a PATCH that can succeed.
CorrectionPossible ==
  LET active == {v \in DOMAIN templates : templates[v].active}
  IN active # {} => \E v \in active : NextVersion(v) \notin DOMAIN templates
=============================================================================
