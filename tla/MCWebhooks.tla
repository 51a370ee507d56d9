----------------------------- MODULE MCWebhooks -----------------------------
(* Instance of Tracking for TLC: two handlers that may hold any two events   *)
(* of a message, one raw type per way parse_event and _EVENT_TO_STATUS go;   *)
(* links to a listed domain's subdomain and to one that is not listed.       *)
EXTENDS Tracking

CONSTANTS m1, h1, h2

Types       == {"delivery_delayed", "bounced", "unknown"}
MCLinks     == {<<"shop", "example", "com">>, <<"notexample", "com">>}
MCAllowlist == {<<"example", "com">>}
=============================================================================
