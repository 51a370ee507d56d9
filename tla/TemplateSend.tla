---------------------------- MODULE TemplateSend ----------------------------
(***************************************************************************)
(* send_email with origin_kind = template, next to the administrators of   *)
(* Catalog: it loads the highest active version of the slug, checks the    *)
(* caller's variables against its schema, renders it, and inserts a        *)
(* message with the version's number and the text, from which a report or  *)
(* an operator explains later what was sent.  Corrections and retirements  *)
(* may come between any two of its statements.                             *)
(***************************************************************************)
EXTENDS Catalog

CONSTANTS
  Fields,     \* administration request -> the subject and the two bodies of its template
  Sender,     \* the requests of POST /v1/messages/email for the slug
  Variables   \* the variables their callers may give

\* None for a field, of a template or of a caller; and a text of the caller's own.
NoField == [null |-> TRUE]
OwnText == [own |-> TRUE]

ASSUME SenderAssumption == DOMAIN Fields = Admin /\ Sender \cap Admin = {}

VARIABLES
  sending,    \* sender -> where its handler is
  stored      \* sender -> the message it has inserted, or NoMessage

sendVars == <<catalogVars, sending, stored>>

NoMessage == [version |-> 0]
Storing(message) == [at |-> "storing", message |-> message]

SendTypeOK ==
  /\ CatalogTypeOK
  /\ \A s \in Sender :
       /\ sending[s].at \in {"new", "storing", "done"}
       /\ stored[s] = NoMessage \/ /\ stored[s].version \in DOMAIN templates
                                   /\ stored[s].variables \in Variables

SendInit ==
  /\ CatalogInit
  /\ sending = [s \in Sender |-> New]
  /\ stored = [s \in Sender |-> NoMessage]

-----------------------------------------------------------------------------
Usable(v) == templates[v].active /\ templates[v].channel = "email"

\* _load_template: ORDER BY version DESC LIMIT 1.
IsLoaded(v) == Usable(v) /\ \A u \in DOMAIN templates : Usable(u) => u <= v

\* What a template may have and a caller may bring.
TextFields == {"subject", "html", "text"}

\* `_render_safe(template, variables) or own`: the caller's own text, or its None,
\* where the template has no such field or it renders to nothing.
RenderedOr(field, variables, own) ==
  IF field # NoField /\ ~IsEmpty(Render(field, variables))
  THEN Render(field, variables) ELSE own

Message(v, variables, own) ==
  [version   |-> v,
   variables |-> variables,
   own       |-> own,
   content   |-> [f \in TextFields |->
                    RenderedOr(Fields[templates[v].by][f], variables,
                               IF f \in own THEN OwnText ELSE NoField)]]

\* 422 without: a subject, and one of the two bodies.
Complete(content) ==
  /\ content["subject"] # NoField
  /\ content["html"] # NoField \/ content["text"] # NoField

\* Up to the INSERT: 404 without a version, 422 for the variables or for what is
\* left of the message.
Load(s, variables, own) ==
  /\ sending[s] = New
  /\ \/ /\ \A v \in DOMAIN templates : ~Usable(v)
        /\ sending' = [sending EXCEPT ![s] = Done("404")]
     \/ \E v \in DOMAIN templates :
          LET message == Message(v, variables, own)
          IN /\ IsLoaded(v)
             /\ sending' = [sending EXCEPT ![s] =
                  IF /\ ValidVariables(templates[v].schema, variables)
                     /\ Complete(message.content)
                  THEN Storing(message) ELSE Done("422")]
  /\ UNCHANGED <<catalogVars, stored>>

\* The INSERT of the message and its commit.
Store(s) ==
  /\ sending[s].at = "storing"
  /\ stored' = [stored EXCEPT ![s] = sending[s].message]
  /\ sending' = [sending EXCEPT ![s] = Done("202")]
  /\ UNCHANGED catalogVars

\* The process ends, or the INSERT fails.
Abandon(s) ==
  /\ sending[s].at = "storing"
  /\ sending' = [sending EXCEPT ![s] = Done("500")]
  /\ UNCHANGED <<catalogVars, stored>>

SendNext ==
  \/ CatalogNext /\ UNCHANGED <<sending, stored>>
  \/ \E s \in Sender :
       \/ \E variables \in Variables, own \in SUBSET TextFields : Load(s, variables, own)
       \/ Store(s) \/ Abandon(s)

SendSpec == SendInit /\ [][SendNext]_sendVars

-----------------------------------------------------------------------------
\* The values of each type a caller may mean by it.
ValuesOf ==
  [string  |-> {"", "str"}, integer |-> {"int"},  number |-> {"int", "float"},
   boolean |-> {"bool"},    array   |-> {"list"}, object |-> {"dict"}]

Sent == {stored[s] : s \in Sender} \ {NoMessage}

\* What a message says can be told from what is stored with it: rendering the
\* version it names with its variables gives its text, whatever corrections and
\* retirements came while it was sent or since.
RenderedAsStored ==
  \A message \in Sent :
    message = Message(message.version, message.variables, message.own)

\* A message goes out with a value of the declared type for every variable the
\* version it names declares: an administrator who corrects the schema never has
\* a message of the old version checked against the new one.
DeclaredAreFilled ==
  \A message \in Sent :
    LET schema == templates[message.version].schema
    IN \A x \in DOMAIN schema :
         /\ x \in DOMAIN message.variables
         /\ message.variables[x] \in ValuesOf[schema[x].word]

\* A version that was accepted can be sent: its schema, as it is stored, is met by
\* some variables, with a value for each of the six types.
StoredSchemaUsable ==
  \A v \in DOMAIN templates : LET schema == templates[v].schema
    IN \A x \in DOMAIN schema : \E value \in Values : MatchesType(value, schema[x])
=============================================================================
