------------------------------- MODULE Console -------------------------------
(***************************************************************************)
(* The logs view of the web console, web/assets/app.js: the list with its  *)
(* filter and its timer, and the panel with the details of one row.        *)
(* JavaScript runs one function at a time up to its next await; between    *)
(* the awaits the server changes, and answers arrive in any order.         *)
(***************************************************************************)
EXTENDS LogList

CONSTANTS
    ConsoleLimit,  \* the limit the console asks for: 100
    Slots,    \* bounds the list requests in flight
    Kinds,    \* request and response: the two bodies of a row
    MaxOpens  \* bounds the clicks on rows

VARIABLES
    (* the list *)
    filter,       \* what the select elements and the search field say
    autoRefresh,  \* the timer runs
    due,          \* a call of loadLogs is due: debounce, refresh, end of clearLogs
    flights,      \* requests for the list, by slot
    shown,        \* state.logs and the count above the table
    (* the details *)
    opens,        \* clicks on rows so far
    lookups,      \* ids whose details are asked for, with the answer once it is there
    panel,        \* the detail panel
    bodyLoads,    \* requests for bodies
    bodyCache     \* state.bodyCache: id, kind and body

listVars == <<filter, autoRefresh, due, flights, shown>>
detailVars == <<opens, lookups, panel, bodyLoads, bodyCache>>

Free == [pc |-> "free", filter |-> NoFilter, total |-> 0, items |-> {}]
Nothing == [total |-> 0, items |-> {}]

Loading == "loading"
Missing == "missing"

ASSUME ConsoleAssumption == Exchanges \cap {Loading, Missing} = {}

Box(of, kind) == [of |-> of, kind |-> kind]

\* A panel, and a request made from it, carry the click the panel comes from.
EmptyPanel ==
    [click |-> 0, open |-> FALSE, id |-> 0, exchange |-> Missing,
     box |-> [k \in Kinds |-> Box(Missing, k)]]

ConsoleInit ==
    /\ filter = NoFilter
    /\ autoRefresh = FALSE
    /\ due = TRUE
    /\ flights = [s \in Slots |-> Free]
    /\ shown = Nothing
    /\ opens = 0
    /\ lookups = {}
    /\ panel = EmptyPanel
    /\ bodyLoads = {}
    /\ bodyCache = {}

-----------------------------------------------------------------------------
(* The list *)

\* The page offers no filter by time or by category.
ConsoleFilters == {f \in Filters : f.category = Any /\ f.from = <<>> /\ f.to = <<>>}

\* A change of a filter element, or the refresh button with the filter as it is; debounce calls loadLogs 260 ms after the last.
ChooseFilter(f) ==
    /\ filter' = f
    /\ due' = TRUE
    /\ UNCHANGED <<autoRefresh, flights, shown, detailVars, tableVars>>

ToggleAutoRefresh ==
    /\ autoRefresh' = ~autoRefresh
    /\ UNCHANGED <<filter, due, flights, shown, detailVars, tableVars>>

\* clearLogs deletes every row and loads the list after that.
ClearLogs ==
    /\ DeleteLogs(<<>>, NoRule)
    /\ due' = TRUE
    /\ UNCHANGED <<filter, autoRefresh, flights, shown, detailVars>>

\* loadRules rebuilds the options of the filter by rule.  A rule that is gone is
\* no longer among them, and the select falls back to all rules.
RenderRuleOptions ==
    /\ filter.rule \notin alive \cup {NoRule}
    /\ filter' = [filter EXCEPT !.rule = NoRule]
    /\ UNCHANGED <<autoRefresh, due, flights, shown, detailVars, tableVars>>

\* loadLogs reads the filter elements and sends the request.
LoadLogs(s) ==
    /\ flights[s] = Free
    /\ flights' = [flights EXCEPT ![s] = [Free EXCEPT !.pc = "count", !.filter = filter]]

\* Mutant: the filter is read only when the list is loaded by hand.
AutoLoadUnfiltered(s) ==
    /\ autoRefresh
    /\ flights[s] = Free
    /\ flights' = [flights EXCEPT ![s] = [Free EXCEPT !.pc = "count"]]
    /\ UNCHANGED <<filter, autoRefresh, due, shown, detailVars, tableVars>>

\* setInterval(loadLogs, 2500)
AutoLoad(s) ==
    /\ autoRefresh
    /\ LoadLogs(s)
    /\ UNCHANGED <<filter, autoRefresh, due, shown, detailVars, tableVars>>

DueLoad(s) ==
    /\ due
    /\ LoadLogs(s)
    /\ due' = FALSE
    /\ UNCHANGED <<filter, autoRefresh, shown, detailVars, tableVars>>

\* The two statements of ListLogs in the server.
CountFor(s) ==
    /\ flights[s].pc = "count"
    /\ flights' = [flights EXCEPT ![s].pc = "page",
                                  ![s].total = Cardinality(Selected(flights[s].filter))]
    /\ UNCHANGED <<filter, autoRefresh, due, shown, detailVars, tableVars>>

PageFor(s) ==
    /\ flights[s].pc = "page"
    /\ flights' = [flights EXCEPT ![s].pc = "answer",
                                  ![s].items = RowIds(Window(flights[s].filter,
                                                                PageLimit(ConsoleLimit), 0))]
    /\ UNCHANGED <<filter, autoRefresh, due, shown, detailVars, tableVars>>

\* The answer arrives, whatever was shown and asked for since.
ListArrives(s) ==
    /\ flights[s].pc = "answer"
    /\ shown' = [total |-> flights[s].total, items |-> flights[s].items]
    /\ flights' = [flights EXCEPT ![s] = Free]
    /\ UNCHANGED <<filter, autoRefresh, due, detailVars, tableVars>>

\* The answer is lost or is an error; a toast says so and the list stays.
ListFails(s) ==
    /\ flights[s].pc = "answer"
    /\ flights' = [flights EXCEPT ![s] = Free]
    /\ UNCHANGED <<filter, autoRefresh, due, shown, detailVars, tableVars>>

ListNext ==
    \/ \E f \in ConsoleFilters : ChooseFilter(f)
    \/ ToggleAutoRefresh \/ ClearLogs \/ RenderRuleOptions
    \/ \E s \in Slots :
          AutoLoad(s) \/ DueLoad(s) \/ CountFor(s) \/ PageFor(s) \/ ListArrives(s) \/ ListFails(s)

-----------------------------------------------------------------------------
(* The details *)

Row(id) == {r \in table : r.id = id}

\* openLog, from a row of a list that may be out of date.
OpenLog(id) ==
    /\ opens < MaxOpens
    /\ opens' = opens + 1
    /\ lookups' = lookups \cup {[click |-> opens + 1, id |-> id, answer |-> Loading]}
    /\ UNCHANGED <<panel, bodyLoads, bodyCache, listVars, tableVars>>

\* GetLog in the server.
AnswerLookup(l) ==
    /\ l.answer = Loading
    /\ LET answer == IF Row(l.id) = {} THEN Missing ELSE (CHOOSE r \in Row(l.id) : TRUE).exchange
       IN lookups' = (lookups \ {l}) \cup {[l EXCEPT !.answer = answer]}
    /\ UNCHANGED <<opens, panel, bodyLoads, bodyCache, listVars, tableVars>>

\* What fetchBody has at once.
Cached(id, k) == {c \in bodyCache : c.id = id /\ c.kind = k}

\* The content of a box when its load begins, and the requests that go out.
BoxOf(id, k) ==
    IF Cached(id, k) = {} THEN Box(Loading, k) ELSE (CHOOSE c \in Cached(id, k) : TRUE).body

Fetches(click, id, kinds) ==
    {[click |-> click, id |-> id, kind |-> k, body |-> Box(Loading, k)] :
        k \in {m \in kinds : Cached(id, m) = {}}}

\* renderLogDetail builds the panel anew and loads both bodies into it.
RenderLogDetail(l) ==
    /\ l.answer \notin {Loading, Missing}
    /\ panel' = [click |-> l.click, open |-> TRUE, id |-> l.id, exchange |-> l.answer,
                 box |-> [k \in Kinds |-> BoxOf(l.id, k)]]
    /\ bodyLoads' = bodyLoads \cup Fetches(l.click, l.id, Kinds)
    /\ lookups' = lookups \ {l}
    /\ UNCHANGED <<opens, bodyCache, listVars, tableVars>>

LookupFails(l) ==
    /\ l.answer = Missing
    /\ lookups' = lookups \ {l}
    /\ UNCHANGED <<opens, panel, bodyLoads, bodyCache, listVars, tableVars>>

\* The button of a body in the panel.  It changes nothing if the body is there,
\* since the cache has it, and asks once more for the same if it is on its way.
ReloadBody(k) ==
    /\ panel.open /\ panel.box[k].of = Missing
    /\ panel' = [panel EXCEPT !.box[k] = BoxOf(panel.id, k)]
    /\ bodyLoads' = bodyLoads \cup Fetches(panel.click, panel.id, {k})
    /\ UNCHANGED <<opens, lookups, bodyCache, listVars, tableVars>>

\* GetBody in the server.
AnswerBody(b) ==
    /\ b.body.of = Loading
    /\ LET of == IF Row(b.id) = {} THEN Missing ELSE (CHOOSE r \in Row(b.id) : TRUE).exchange
       IN bodyLoads' = (bodyLoads \ {b}) \cup {[b EXCEPT !.body.of = of]}
    /\ UNCHANGED <<opens, lookups, panel, bodyCache, listVars, tableVars>>

\* Mutant: the box is looked up when the body is there.
InPanelNow(b) == panel.open

\* loadBody keeps the box it found before it waited for the body; the box of a
\* panel that has been closed or rebuilt is no longer on the page.
InPanel(b) == panel.open /\ panel.click = b.click

BodyArrives(b) ==
    /\ b.body.of # Loading
    /\ bodyLoads' = bodyLoads \ {b}
    /\ bodyCache' = bodyCache \cup (IF b.body.of = Missing THEN {}
                                    ELSE {[id |-> b.id, kind |-> b.kind, body |-> b.body]})
    /\ panel' = IF InPanel(b) THEN [panel EXCEPT !.box[b.kind] = b.body] ELSE panel
    /\ UNCHANGED <<opens, lookups, listVars, tableVars>>

CloseDetail ==
    /\ panel.open
    /\ panel' = [panel EXCEPT !.open = FALSE]
    /\ UNCHANGED <<opens, lookups, bodyLoads, bodyCache, listVars, tableVars>>

DetailNext ==
    \/ \E id \in 1..lastId : OpenLog(id)
    \/ \E l \in lookups : AnswerLookup(l) \/ RenderLogDetail(l) \/ LookupFails(l)
    \/ \E k \in Kinds : ReloadBody(k)
    \/ \E b \in bodyLoads : AnswerBody(b) \/ BodyArrives(b)
    \/ CloseDetail

-----------------------------------------------------------------------------
(* Properties *)

\* Whichever rows are opened, closed, deleted and written while bodies are on
\* their way, a body box holds the body of the exchange whose details are around
\* it, and of its own kind, or says that there is none yet or no more.
ShownBodyIsOfShownLog ==
    panel.open =>
        \A k \in Kinds :
            \/ panel.box[k].of \in {Loading, Missing}
            \/ panel.box[k] = Box(panel.exchange, k)

\* What the list shows when it agrees with the tables and the filter.
Current(f) ==
    [total |-> Cardinality(Selected(f)), items |-> RowIds(Window(f, PageLimit(ConsoleLimit), 0))]

\* Answers that overtake each other may leave an old list on the page, even one
\* of another filter.  With the timer on that mends itself: once the filter is
\* left alone the list comes to show what is selected, and keeps doing so.
AutoRefreshHeals ==
    \A f \in ConsoleFilters : <>[](autoRefresh /\ filter = f) => <>[](shown = Current(f))

=============================================================================
