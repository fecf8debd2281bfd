---------------------------- MODULE MCRequestLens ----------------------------
(***************************************************************************)
(* Instances of RequestLens for TLC.  A call is named for what it does;    *)
(* each configuration picks the calls and the requests it needs.           *)
(***************************************************************************)
EXTENDS RequestLens, TLC

\* "plain" has no body; "post" and the uploads carry one; "ws" asks for a
\* WebSocket; "ping" is a preflight; "lost" has a path no rule serves.  The
\* uploads are a set of model values, for requests that nothing tells apart.
CONSTANT Uploads

Alike == Permutations(Uploads)

MCPath == [q \in Requests |-> IF q = "lost" THEN <<"c">> ELSE <<"a", "b", "x">>]

MCHeaders == [q \in Requests |->
    IF q = "ws" THEN {"Connection", "Upgrade", "Accept-Encoding"} ELSE {"Accept-Encoding"}]

MCWithBody == Requests \cap ({"post"} \cup Uploads)

MCPreflights == Requests \cap {"ping"}

\* Two rules whose prefixes nest, the longer one answering preflights itself.
MCRulePrefixes == {<<"a">>, <<"a", "b">>, <<"api">>}

TwoRules == {[id |-> 1, prefix |-> <<"a">>, enabled |-> TRUE, local |-> FALSE],
             [id |-> 2, prefix |-> <<"a", "b">>, enabled |-> TRUE, local |-> TRUE]}

OneRule == {[id |-> 1, prefix |-> <<"a">>, enabled |-> TRUE, local |-> FALSE]}

\* "create" adds <<"a", "b">>, "grab" a rule for a route of the program, "put"
\* renames rule 1 to <<"a", "b">>, "edit" changes only its cors mode, "turnoff"
\* and "turnon" its enabled flag.
MCOp == [c \in Calls |->
    CASE c \in {"create", "grab"} -> "create"
      [] c \in {"put", "edit"} -> "update"
      [] c = "turnon" -> "enable"
      [] c = "turnoff" -> "disable"
      [] c \in {"delete", "delete2"} -> "delete"]

MCTarget == [c \in Calls |->
    CASE c \in {"create", "grab"} -> NoRule
      [] c = "delete2" -> 2
      [] OTHER -> 1]

MCPayload == [c \in Calls |->
    [prefix |-> CASE c \in {"create", "put"} -> <<"a", "b">>
                  [] c = "grab" -> <<"api">>
                  [] OTHER -> <<>>,
     enabled |-> {},
     local |-> IF c = "edit" THEN {TRUE} ELSE {}]]

=============================================================================
