----------------------------- MODULE MCCatalog -----------------------------
(* Instance of TemplateSend for TLC: three administration requests of any     *)
(* kind, two channels, two providers: a creation and two corrections, or      *)
(* three registrations; and one sender.  The second request writes its type   *)
(* in capitals, the third may ask for a type that is none.                    *)
EXTENDS TemplateSend

CONSTANTS a1, a2, a3, s1, resend, sendgrid

MCAdmin    == {a1, a2, a3}
MCProvider == {resend, sendgrid}
MCChannel  == {"email", "sms"}

Type(word, lower) == [word |-> word, lower |-> lower]
Field(text, names) == [text |-> text, names |-> names]

NoVariables == [x \in {} |-> Type("string", TRUE)]

MCSchemas ==
  [a \in MCAdmin |-> CASE a = a1 -> {[n |-> Type("string", TRUE)]}
                       [] a = a2 -> {[n |-> Type("integer", FALSE)]}
                       [] a = a3 -> {NoVariables, [n |-> Type("date", TRUE)]}]

MCFields ==
  [a \in MCAdmin |->
     CASE a = a1 -> [subject |-> Field(FALSE, {"n"}), html |-> Field(TRUE, {"n", "u"}),
                     text |-> NoField]
       [] a = a2 -> [subject |-> Field(TRUE, {}), html |-> NoField,
                     text |-> Field(FALSE, {"n"})]
       [] a = a3 -> [subject |-> NoField, html |-> Field(FALSE, {"u"}),
                     text |-> Field(FALSE, {"u", "n"})]]

MCVariables ==
  {[n |-> "str", u |-> "None"], [n |-> "int"], [n |-> "bool"], [n |-> ""], [u |-> "None"]}
=============================================================================
