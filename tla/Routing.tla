------------------------------- MODULE Routing -------------------------------
(***************************************************************************)
(* How the proxy turns the path of a request into the URL it forwards to,  *)
(* and the Location of a redirect back into a URL on itself.  A client     *)
(* asks for a path, upstream may redirect it, the client follows.          *)
(*                                                                         *)
(* The code compares and cuts strings, and where a string is cut is what   *)
(* the properties are about; so a text is a sequence of characters, the    *)
(* slash and others.  Scheme and port belong to the text of the host.      *)
(***************************************************************************)
EXTENDS Integers, SequencesExt

CONSTANTS
    Chars,       \* the characters texts are made of
    RuleLists,   \* the rules the store may list: sequences of what users typed
    Paths,       \* the paths clients ask for
    Locations    \* the Location headers upstream servers answer with

NoHost == <<>>

-----------------------------------------------------------------------------
(* Strings *)

Slash == <<"/">>

HasSlash(text) == text # <<>> /\ Last(text) = "/"

TrimPrefix(text, p) == IF IsPrefix(p, text) THEN SubSeq(text, Len(p) + 1, Len(text)) ELSE text

TrimSlash(text) == IF HasSlash(text) THEN Front(text) ELSE text

\* strings.TrimRight(text, "/")
TrimSlashes(text) ==
    SubSeq(text, 1, Max({0} \cup {i \in 1..Len(text) : text[i] # "/"}))

-----------------------------------------------------------------------------
(* What buildRuleFromPayload makes of the fields a user typed *)

NormalizePrefix(typed) ==
    LET led == IF IsPrefix(Slash, typed) THEN typed ELSE Slash \o typed
    IN  IF typed = <<>> THEN typed
        ELSE IF HasSlash(led) THEN led ELSE led \o Slash

NormalizeTarget(typed) == IF typed = <<>> THEN Slash ELSE typed

Stored(rule) ==
    [rule EXCEPT !.prefix = NormalizePrefix(@), !.path = NormalizeTarget(@)]

\* Prefix and host are required, the path of a URL is empty or begins with a
\* slash, and prefixes are UNIQUE in the store.  The path of a request begins
\* with a slash, and so does that of a Location that names no host, as a client
\* completes it.
Rooted(text) == IsPrefix(Slash, text)

TypedRule == [prefix: Seq(Chars), host: Seq(Chars), path: Seq(Chars)]

ASSUME RoutingAssumption ==
    /\ "/" \in Chars
    /\ \A typed \in RuleLists :
          /\ typed \in Seq(TypedRule)
          /\ \A i \in DOMAIN typed :
                /\ typed[i].prefix # <<>>
                /\ typed[i].host # NoHost /\ ~HasSlash(typed[i].host)
                /\ typed[i].path = <<>> \/ Rooted(typed[i].path)
                /\ \A j \in DOMAIN typed :
                      NormalizePrefix(typed[i].prefix) = NormalizePrefix(typed[j].prefix) => i = j
    /\ Paths \subseteq {p \in Seq(Chars) : Rooted(p)}
    /\ Locations \subseteq [host: Seq(Chars), path: Seq(Chars)]
    /\ \A loc \in Locations : Rooted(loc.path) \/ (loc.path = <<>> /\ loc.host # NoHost)

VARIABLES
    rules,     \* the enabled rules in the order of ListRules
    at,        \* "client", "upstream", "redirected", or "nobody" if not forwarded
    path,      \* path of the current request
    hit,       \* position of the rule it matched, 0 for none
    url,       \* URL it was forwarded to
    location,  \* the Location upstream sent
    answer     \* the Location the client got

vars == <<rules, at, path, hit, url, location, answer>>

-----------------------------------------------------------------------------
(* matchRule *)

Serves(rule, p) ==
    \/ IsPrefix(rule.prefix, p)
    \/ TrimSlash(rule.prefix) # <<>> /\ p = TrimSlash(rule.prefix)

\* Mutant: the rules are scanned in the order of the list.
ScannedInListOrder(i, j) == i < j

\* The stable sort by length: rule i is scanned before rule j.
ScannedBefore(i, j) ==
    \/ Len(rules[i].prefix) > Len(rules[j].prefix)
    \/ Len(rules[i].prefix) = Len(rules[j].prefix) /\ i < j

MatchRule(p) ==
    LET serving == {i \in DOMAIN rules : Serves(rules[i], p)}
    IN  IF serving = {} THEN 0
        ELSE CHOOSE i \in serving : \A j \in serving \ {i} : ScannedBefore(i, j)

-----------------------------------------------------------------------------
(* buildTargetURL *)

\* Mutant: the two paths are simply put together.
JoinedAsTheyAre(a, b) == a \o b

SingleJoiningSlash(a, b) ==
    CASE HasSlash(a) /\ IsPrefix(Slash, b) -> a \o Tail(b)
      [] ~HasSlash(a) /\ ~IsPrefix(Slash, b) -> a \o Slash \o b
      [] OTHER -> a \o b

Remainder(rule, p) ==
    LET rest == TrimPrefix(p, rule.prefix)
    IN  IF rest = p THEN TrimPrefix(p, TrimSlash(rule.prefix)) ELSE rest

BuildTargetURL(rule, p) ==
    [host |-> rule.host, path |-> SingleJoiningSlash(rule.path, Remainder(rule, p))]

-----------------------------------------------------------------------------
(* rewriteLocationHeader *)

Text(u) == u.host \o u.path

TargetText(rule) == TrimSlashes(Text(rule))

\* Only an absolute URL whose text begins with the text of the target.
Rewrites(rule, loc) ==
    loc.host # NoHost /\ IsPrefix(TargetText(rule), TrimSlashes(Text(loc)))

\* Mutant: the path of the target stays in the rewritten path.
RewrittenKeepingBase(rule, loc) == TrimSlashes(rule.prefix) \o loc.path

\* What follows the proxy's own host in the rewritten Location.
RewrittenPath(rule, loc) ==
    TrimSlashes(rule.prefix) \o TrimPrefix(Text(loc), TargetText(rule))

\* The host of a rewritten Location is the proxy's own, and so is, for the
\* client, the host of a relative one.  But if what follows is not a path (the
\* prefix is all slashes, and the text of the target ends within a name) it is
\* read as a part of the host, which then is another.
RewriteLocation(rule, loc) ==
    LET rewritten == RewrittenPath(rule, loc)
    IN  IF ~Rewrites(rule, loc) THEN loc
        ELSE IF rewritten = <<>> \/ Rooted(rewritten)
             THEN [host |-> NoHost, path |-> rewritten]
             ELSE [host |-> rewritten, path |-> <<>>]

-----------------------------------------------------------------------------
(* The exchange *)

NoURL == [host |-> NoHost, path |-> <<>>]

Init ==
    /\ \E typed \in RuleLists : rules = [i \in DOMAIN typed |-> Stored(typed[i])]
    /\ path \in Paths
    /\ at = "client"
    /\ hit = 0
    /\ url = NoURL /\ location = NoURL /\ answer = NoURL

\* ServeHTTP finds the rule and forwards the request.
Forward ==
    /\ at = "client"
    /\ MatchRule(path) # 0
    /\ at' = "upstream"
    /\ hit' = MatchRule(path)
    /\ url' = BuildTargetURL(rules[MatchRule(path)], path)
    /\ UNCHANGED <<rules, path, location, answer>>

NotFound ==
    /\ at = "client"
    /\ MatchRule(path) = 0
    /\ at' = "nobody"
    /\ hit' = 0
    /\ UNCHANGED <<rules, path, url, location, answer>>

\* Upstream redirects; the rules modelled have rewrite_redirect_location on, as
\* is the default.
Redirect ==
    /\ at = "upstream"
    /\ \E loc \in Locations :
          /\ location' = loc
          /\ answer' = RewriteLocation(rules[hit], loc)
    /\ at' = "redirected"
    /\ UNCHANGED <<rules, path, hit, url>>

\* The client follows the Location if it leads to the proxy; to a URL without a
\* path it sends the path of a slash.
Follow ==
    /\ at = "redirected"
    /\ answer.host = NoHost
    /\ at' = "client"
    /\ path' = IF answer.path = <<>> THEN Slash ELSE answer.path
    /\ UNCHANGED <<rules, hit, url, location, answer>>

Next == Forward \/ NotFound \/ Redirect \/ Follow

Spec == Init /\ [][Next]_vars

-----------------------------------------------------------------------------
(* The reference: texts as sequences of segments *)

SlashesUpTo(text, i) == Cardinality({j \in 1..i : text[j] = "/"})

\* The position of the k-th slash.
SlashAt(text, k) == CHOOSE i \in DOMAIN text : text[i] = "/" /\ SlashesUpTo(text, i) = k

\* What stands between one slash and the next, of a text that begins and ends
\* with a slash as a prefix does.
Segments(text) ==
    [k \in 1..(SlashesUpTo(text, Len(text)) - 1) |->
        SubSeq(text, SlashAt(text, k) + 1, SlashAt(text, k + 1) - 1)]

Covers(rule, p) == IsPrefix(Segments(rule.prefix), Segments(p \o Slash))

AllSlashes(text) == \A i \in DOMAIN text : text[i] = "/"

\* Equal but for the number of slashes in one place, where none is as good as
\* some only at the end.
SamePlace(u, v) ==
    /\ u.host = v.host
    /\ \E i \in 0..Len(u.path) :
       \E j \in i..Len(u.path), k \in i..Len(v.path) :
          /\ SubSeq(u.path, 1, i) = SubSeq(v.path, 1, i)
          /\ AllSlashes(SubSeq(u.path, i + 1, j)) /\ AllSlashes(SubSeq(v.path, i + 1, k))
          /\ SubSeq(u.path, j + 1, Len(u.path)) = SubSeq(v.path, k + 1, Len(v.path))
          /\ (i < j /\ i < k) \/ j = Len(u.path)

\* u is the target of the rule or a path below it.
Under(u, rule) ==
    LET base == TrimSlashes(rule.path)
    IN  /\ u.host = rule.host
        /\ TrimSlashes(u.path) = base \/ IsPrefix(base \o Slash, u.path)

-----------------------------------------------------------------------------
(* Properties *)

\* matchRule compares characters and sorts by their number, yet it routes by
\* whole segments: the rule it picks covers the path with the most segments of
\* all, and a path is refused only when no rule covers it.
RoutesBySegments ==
    /\ at = "upstream" =>
          /\ Covers(rules[hit], path)
          /\ \A i \in DOMAIN rules : Covers(rules[i], path) =>
                Len(Segments(rules[i].prefix)) <= Len(Segments(rules[hit].prefix))
    /\ at = "nobody" => \A i \in DOMAIN rules : ~Covers(rules[i], path)

\* Whatever the slashes at the ends of prefix, target and path, a request is
\* forwarded to the target or below it, never to a sibling of it.
StaysUnderTarget == at = "upstream" => Under(url, rules[hit])

\* A prefix may end in two slashes; then one is cut off to match a path, and
\* both to rewrite a Location.
EndsInOneSlash(text) == HasSlash(text) /\ ~HasSlash(Front(text))

\* A client that follows a redirect to the target of its rule or below it gets
\* through to the very place upstream named, unless a rule with a longer
\* prefix takes the path over; it never runs into a 404 of the proxy.  That is
\* so for prefixes that end in one slash.
RedirectLeadsBack ==
    [][hit # 0 /\ location.host # NoHost /\ Under(location, rules[hit])
         /\ EndsInOneSlash(rules[hit].prefix) =>
          /\ ~NotFound
          /\ Forward => \/ hit' = hit /\ SamePlace(url', location)
                        \/ Len(rules[hit'].prefix) > Len(rules[hit].prefix)]_vars

\* PROJECT_DESIGN.md: redirects to third parties are not rewritten.
ThirdPartiesUntouched ==
    at = "redirected" /\ location.host # rules[hit].host => answer = location

=============================================================================
