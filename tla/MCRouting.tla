------------------------------ MODULE MCRouting ------------------------------
(* Instances of Routing for TLC, over the letters a and b.                 *)
EXTENDS Routing

MCChars == {"/", "a", "b", "h"}

Host == <<"h">>

\* What users type for a prefix and for a target path.
TypedPrefixes ==
    {<<"/", "/">>, <<"a">>, <<"/", "a", "/">>, <<"/", "a", "b">>, <<"a", "/", "b">>, <<"/", "b", "/">>,
     <<"a", "/", "/">>}

TypedTargets == {<<>>, <<"/", "b">>, <<"/", "b", "/">>}

TypedRules == [prefix: TypedPrefixes, host: {Host}, path: TypedTargets]

\* Two rules in every order of the list; UNIQUE(prefix) keeps prefixes apart.
MCRuleLists ==
    {rs \in [1..2 -> TypedRules] :
        NormalizePrefix(rs[1].prefix) # NormalizePrefix(rs[2].prefix)}

OneRuleLists == [1..1 -> TypedRules]

MCPaths == {Slash \o rest : rest \in UNION {[1..n -> {"/", "a", "b"}] : n \in 1..4}}

\* The target's host, one whose name continues it, another one, and none.
MCLocations ==
    {loc \in [host: {Host, <<"h", "a">>, <<"b">>, NoHost},
               path: {<<>>, Slash, <<"/", "a">>, <<"/", "b">>, <<"/", "b", "/">>,
                      <<"/", "a", "b">>, <<"/", "b", "a">>, <<"/", "b", "/", "b">>,
                      <<"/", "b", "/", "/", "a">>, <<"/", "b", "/", "a", "/">>}] :
        loc.host = NoHost => Rooted(loc.path)}

=============================================================================
