--------------------------- MODULE TemplateRender ---------------------------
(***************************************************************************)
(* core/template_render.py: the types a template declares for its          *)
(* variables, the check of a caller's variables against them, and the      *)
(* substitution of {name} in the template's fields.                        *)
(*                                                                         *)
(* A value is abstracted to its Python type, and "" is the empty str.  A   *)
(* declared type is its word and whether that is written in small letters. *)
(* A field of a template is the placeholders in it and whether there is    *)
(* text besides; a rendered one says what each placeholder became.         *)
(***************************************************************************)

Values == {"", "str", "int", "float", "bool", "list", "dict", "None"}

\* isinstance: a bool is an int too.
IsInstance(value, class) ==
  \/ value = class
  \/ value = "" /\ class = "str"
  \/ value = "bool" /\ class = "int"

\* What a schema may declare for a name, before it is validated; what is not a
\* str is a word that is none of the six.
DeclaredType == [word : STRING, lower : BOOLEAN]

SchemaTypes == {"string", "integer", "number", "boolean", "array", "object"}

\* A name _PLACEHOLDER_RE matches whole; the others are in no placeholder either.
BadNames == {"var-name", "1var", ""}

\* validate_schema: 422 unless every name is one of a placeholder and every type,
\* in small letters, is one of the six.
ValidSchema(schema) ==
  \A x \in DOMAIN schema : x \notin BadNames /\ schema[x].word \in SchemaTypes

\* Slip for the mutation checks: the schema is stored as it came.
NormalizedAsCame(schema) == schema

Normalized(schema) == [x \in DOMAIN schema |-> [schema[x] EXCEPT !.lower = TRUE]]

\* _matches_type compares the word as it is stored.
MatchesType(value, type) ==
  type.lower /\
    CASE type.word = "string"  -> IsInstance(value, "str")
      [] type.word = "integer" -> IsInstance(value, "int") /\ ~IsInstance(value, "bool")
      [] type.word = "number"  -> /\ IsInstance(value, "int") \/ IsInstance(value, "float")
                                  /\ ~IsInstance(value, "bool")
      [] type.word = "boolean" -> IsInstance(value, "bool")
      [] type.word = "array"   -> IsInstance(value, "list")
      [] type.word = "object"  -> IsInstance(value, "dict")
      [] OTHER                 -> FALSE

\* Slip: a declared variable may be missing.
ValidVariablesGiven(schema, variables) ==
  \A x \in DOMAIN schema \cap DOMAIN variables : MatchesType(variables[x], schema[x])

\* validate_variables: every declared one is there and of its type; more may come.
ValidVariables(schema, variables) ==
  \A x \in DOMAIN schema :
    x \in DOMAIN variables /\ MatchesType(variables[x], schema[x])

\* What a placeholder becomes: an unknown name stays as it was written.
Kept     == "{}"
Sub(x, variables) ==
  IF x \notin DOMAIN variables THEN Kept
  ELSE IF variables[x] = "None" THEN "" ELSE variables[x]

\* render_template, of a field that is not None; one pass, so that a value with
\* braces in it is text.
Render(field, variables) ==
  [text |-> field.text, subs |-> [x \in field.names |-> Sub(x, variables)]]

\* A rendered field that is the empty string.
IsEmpty(rendered) ==
  ~rendered.text /\ \A x \in DOMAIN rendered.subs : rendered.subs[x] = ""
=============================================================================
