# A verification development for RequestLens

RequestLens is an inspecting reverse proxy: one Go process that matches a
request by path prefix to a rule, forwards it to the rule's target, relays the
answer, and writes one row about the exchange to SQLite. A management API and a
web console edit the rules and read, filter and delete the rows. This directory
models that program in TLA+, checks the models with TLC and proves the main
properties of the core with TLAPS.

## Inventory

| Part | Source | State it keeps | Operations | What is hard |
| --- | --- | --- | --- | --- |
| Store | `internal/db/store.go` | `proxy_rules`, `http_logs`, one connection | one SQL statement each; the console holds the connection while it reads | constraints that refuse a write, ids after deletions, statements that wait for the connection, times compared as text, migrations |
| Rule API | `internal/api/handlers.go` | none between calls | create, update (read, merge, write, reread), enable, disable, delete | calls interleave between their statements; callers leave between write and reread |
| Log and SQL endpoints | `internal/api/handlers.go` | none | list, details, body, delete, schema, query | total and page are two statements; a console query delays all others |
| Proxy handler | `internal/proxy/handler.go` | per request: rule copy, captures, error, context | `ServeHTTP` from the rules to `insertLog` | disconnects at any point, rules deleted in flight, the choice of the context for the insert |
| Routing and redirects | `handler.go`, `handlers.go` | none | normalise, match, build the target URL, rewrite `Location` | where strings are cut; redirects that are followed and matched again |
| Body capture | `internal/proxy/capture.go` | counter, buffer, mark | `WriteObserved`, `Snapshot` | limits at chunk boundaries; two goroutines without a lock |
| Content inspection | `classify.go`, `handler.go` | none | classify, capture plan, read ahead or stream | overlapping classes, bodies held in memory |
| Upgraded connections | `handler.go` | two copiers, a channel | hijack, answer, copy both ways, close | early bytes, goroutines left behind |
| Headers | `internal/proxy/headers.go` | none | hop-by-hop, forwarded, redaction | headers deleted that somebody needs |
| Process | `cmd/requestlens/main.go`, `store.go` | server, signal context, the file's version | start, migrate, clean up, serve, shut down | crashes between two statements of a migration, exchanges in flight at shutdown |
| Management token | `main.go` | none | compare the token of a request | - |
| Web console | `web/assets/app.js` | list, filter, timer, open row, cache of bodies, token | asynchronous loads, sign-in | answers out of order, answers to requests that carried another token |
| Configuration, assets | `config.go`, `web/embed.go` | none | read, serve | - |

The parts meet in two places. Everything goes through the store: proxied
requests read the rules once, keep a copy and insert a row at the end; API calls
write rules in several statements; the console may keep the only connection. And
within one request three goroutines share state: the handler, the transport that
reads the request body through the capture, and net/http's reader of the
connection, which cancels the request's context when the client is gone.

What makes each part correct, in words:

- store: keys and foreign key always hold; ids are never handed out again;
- rule API: no call brings a deleted rule back, an error answer of a create
  leaves no unexplained rule behind;
- proxy handler: every exchange leaves one row, and when it does not there is a
  reason; a row never credits traffic to the wrong rule; a failure of the
  proxy is recorded; the handler comes to its end when the client goes, unless
  a write to it or a tunnel never does;
- routing: the most specific rule wins, the target is never left, a redirect
  leads back to the place upstream named;
- capture: the first bytes up to the limit, the exact size, the mark if and
  only if something is missing;
- tunnel: order and completeness of the bytes while it is open, nothing left
  running after it;
- process: whatever crashes and starts follow one another, a user's settings and
  the recorded rows stay, and a stop spares the exchanges it waits for;
- log endpoints: pages fit together and agree with the total unless the table
  changed in a way that explains the difference; times compared as texts are
  wrong by less than a second;
- console: what it shows belongs together and becomes current again; the gate
  is shut for a wrong token.

Above them stands one promise, `RequestLog`: an exchange comes to one outcome and
keeps it, its row is written in the step that records it, and a row that was
deleted does not come back.

`PROJECT.json` lists the hazards one by one with the properties that watch them,
and those no property watches yet.

## Modules

| Module | Models | Variables and actions in the code |
| --- | --- | --- |
| `Store` | the two tables and their statements | `rules`, `logs` are sets of rows, `ruleSeq` the AUTOINCREMENT sequence, `busy` the console's hold on the connection (`SetMaxOpenConns(1)`). One operator per statement, with the UNIQUE and FOREIGN KEY constraints as guards. |
| `RuleApi` | the calls of the rule API | `callPc` is the place between two statements: `start`, `write`, `reread`, `done`; `draft` is the struct the handler fills, `gone` the cancelled context of the call, `reply` the status code. |
| `ProxyHandler` | `ServeHTTP` | `pc` follows the function from `load` to `done`; `matched` is the id in the handler's copy of the rule; `watched` says whether net/http is reading the connection (it starts after the request body), `canceled` is `r.Context()`; `mode` is the context `insertLog` chose; `fate` is what became of the row. |
| `RequestLens` | requests, calls and log endpoints over one store | the composition, its specification, the invariants, action and liveness properties |
| `BodyCapture` | the promise of the capture | `WriteObserved` as one step |
| `SharedCapture` | the capture as two goroutines see it | each access to a field is a step; implements `BodyCapture` through `INSTANCE ... WITH` |
| `Inspection` | `ClassifyContent`, `CapturePlan`, `prepareRequestBodyForForward` over `BodyCapture` | a content type is the set of words the code looks for in it |
| `Routing` | `normalizePrefix`, `normalizeTarget`, `matchRule`, `buildTargetURL`, `rewriteLocationHeader` | texts are sequences of characters, since the code's cuts and comparisons of strings are what the properties are about; a client asks, is redirected and follows |
| `Tunnel` | `tunnelUpgradedConnection` | the handler, one copier per direction with a read and a write step, the channel of results |
| `RequestLog` | the promise of the log | which exchanges are open, recorded or dropped, and which have a row. Implemented by `RequestLens`, where requests, calls and deletions race, and by `Lifecycle`, where the process ends and starts. |
| `LogTime` | `RFC3339Nano`, SQLite's `datetime()` and the order of TEXT | an instant is a day, a second and hundredths; a text is a sequence of numbers that compare as its bytes do |
| `Lifecycle` | `main`, `Open`, `migrate`, `CleanupOldLogs`, `Shutdown` | the file (`tables`, `version`, `limit`, `rows`) survives, `phase` is where `main` stands; one action per statement of the start, a crash between any two |
| `LogList` | `InsertLog`, `buildLogWhere`, `ORDER BY`, the deletions, the detachment of rows | `table` with ids from AUTOINCREMENT; `Window` is `LIMIT ? OFFSET ?` |
| `LogReader` | `ListLogs` as its two statements | a client that reads page by page; the history says whether rows came or left |
| `Console` | `loadLogs`, its timer and filter, `openLog`, `loadBody`, `fetchBody` of `app.js` | each function up to its next `await` is an action; `flights`, `lookups`, `bodyLoads` are what is awaited |
| `Session` | `requireManagementToken`, `loginWithToken`, `bootstrapManagement`, `logout`, the 401 of `api` | `token`, the `gate` over the page, the `calls` in flight with the token they carry |
| `LogViews` | the composition of the clients with `LogList` | one client per behaviour, over a table that other clients and the proxy change |
| `CaptureProofs`, `SharedCaptureProofs`, `RequestLensProofs`, `LogTimeProofs`, `LifecycleProofs`, `LogViewsProofs`, `TunnelProofs`, `RoutingProofs` | theorems | see below |
| `MC...` | instances for TLC | values of the constants that a .cfg cannot express |

Definitions marked "Mutant" in comments are plausible bugs of the definition that
follows them. They are part of no specification; each serves to show that a
property of a run would notice the bug.

`RequestLens` extends `ProxyHandler` and `RuleApi`, and both extend `Store`:
they share its variables and take its statements into their own steps, so a
statement of the code that changes a table is never a separate step from the
handler that runs it. `LogViews` extends `LogReader`, `Console` and `Session` in
the same way over `LogList`. There are three views of `http_logs`: `Store` cares
which insert is refused and why, `LogList` in which order rows are listed,
`Lifecycle` which rows outlive a process. A row means the same in all three, the
exchange it records.

## Runs

| Run | Question | Bounds and why they are enough |
| --- | --- | --- |
| `inflight` | What do the rows say, and which may be missing? | Two requests with bodies, alike and so taken as symmetric, and one rule that is deleted while another is created. Two requests are the least to have one keep its rule and the other lose it; the id of the new rule is the one that might be handed out again. |
| `rule_calls` | What may racing calls do to the rules? | Seven calls for two prefixes and the ids 1 and 2: rename against create for one prefix, delete against update, enable and disable, a refused prefix. |
| `ending` | Does a handler end when its client goes and it is not held in a write or a tunnel, and does the log phase? | A request with a body (which may also be upgraded), a preflight, a rule deleted meanwhile, console queries at any time. |
| `snapshot` | What can a snapshot that races with a write contain? | Limits below, at and between the sums of the chunks; enough bytes for a write that fits, one that is cut and one that is dropped. |
| `inspect` | Does what is held and logged of a body follow the limit? | All settings of a rule, one content type for each combination of classes, bodies up to seven bytes against limits of none, one and four. |
| `routes` | Do matching, forwarding and redirects fit together? | All ordered pairs of rules from seven spellings of prefixes that nest, continue each other, are apart or end in two slashes, and three targets; all paths of two to five characters over `/`, `a`, `b`; redirects at, below, beside and outside the target, and one without a path. |
| `tunnel` | Do bytes keep their order and goroutines end? | Three messages per side: one early, one in hand, one on the wire. |
| `restarts` | What survives starts, crashes and stops? | One rule with the old default, no limit or another; two exchanges, so that one may end in time and the other not, or one be a row and the other in flight; five readings of the clock over three days against a retention of one day, so that a row may be too young, on the edge or too old. |
| `reading` | What can a client of the log endpoints see while the table changes? | Three exchanges, two of them within one second, where the order of texts is not that of the instants; pages of one or two rows, so that there is a next page; filters by rule, by category and by time; each kind of client for itself, see below. |
| `stripped_upgrade`, `undone_disable`, `third_party` | Does the code do what the design document says? | the smallest instance with the actors concerned |

Deadlock is checked in `restarts`. In the other models the requests, calls and
bytes are finite, or so are the clicks, and when all are served the system rests.

The bounds that are not in the code: `MaxSize` (bytes of a body) in the capture
modules, `MaxSent` (messages per side) in `Tunnel`, `Instants` (readings of the
clock) in `Lifecycle`, and of the console `Slots` (requests for the list in
flight), `CallSlots` (other requests in flight) and `MaxOpens` (clicks on rows);
everything else is bounded by the sets of requests, calls, rules, paths and
redirects. The retry of a page of rules, the number of disconnects, of console
queries, of crashes and starts, of answers lost and of changes of a filter are
not bounded. The least number for an answer to overtake another is two, which is
what the three bounds of the console are.

The clients of `reading` never share state but through the table, and what one
client does to it the others may do as well (`TableNext` has every statement).
So each behaviour has one of them, and as many exchanges in flight as its
questions need: three for the reader of pages, one for the list, whose rows
need only come and go, two for the details, whose ids must be mixed up, and none
for the visitor, whose requests do not depend on rows.

### Fairness

`FairSpec` of `RequestLens` assumes of each request:

- a handler whose context is cancelled takes its next step (weak) unless it is
  writing to the client or in a tunnel: the waits for the database, for upstream
  and for the log insert select on that context or on the 3 seconds of the
  detached one;
- a handler that comes back to read from upstream again and again after that sees
  a read fail (strong): the transport closes the connection when the context is
  cancelled, and what its buffers hold is soon read;
- the choice of the context is a plain statement (weak);
- the insert goes ahead if it may again and again (strong), because database/sql
  serves those who wait for the connection in turn.

`Write` and `Flush` in `copyAndFlush` and the copying of a tunnel do not look at
the context, and `main` sets no `WriteTimeout`. A client that closes its side,
which cancels the context, and then reads no more may hold its handler in one
write for ever. So nothing is assumed at `flush` and `tunnel`, and
`DisconnectEndsHandler` names the exception: each time the handler is there it
must get out. The reads of a relay are separate steps from its writes so that
the two differ in this. Nothing is assumed of clients, upstream servers, API
callers or the console. `DisconnectEndsHandler` holds even when a console query
never ends; there the 3 seconds do the work. `LogPhaseEnds` names its assumption
itself: the connection is free again and again.

`FairSpec` of `Tunnel` assumes that goroutines that can run do. A write is
among these steps: the code sets no deadline on writes, so a side that stays
connected and stops reading holds the tunnel open, and the liveness properties
say nothing of it.

`FairSpec` of `Lifecycle` assumes that the 10 seconds pass, that the store is closed
and that `main` returns: the timer of `Shutdown`, a deferred call and the end of a
function. Nothing is assumed of exchanges. The other steps of a start need no
fairness, since no property says that a start succeeds.

`FairSpec` of `LogViews` assumes that the timer of the list goes off, that the
server runs the two statements of a request, and (strong) that of the answers that
come, not all are lost. It is assumed for each slot, since a slot stands for any
request.

### What the documents say and the code does not

Each is a run that TLC must find violated, with the lines in `PROJECT.json`.

- `Upgrade` and `Connection` are deleted from every forwarded request, so no
  upstream is ever asked for a WebSocket.
- An edit that read the rule before it was disabled enables it again.
- A redirect to `http://host2` is taken for one to the target `http://host`.

Others were met while modelling and are not runs of their own; the models contain
them, and the properties that hold name them as their exceptions:

- A rule deleted while a request is in flight costs the request its row, since the
  insert names an id the foreign key refuses and the error is only printed; so
  does a client that leaves between the check of the context in `insertLog` and
  the insert. `doc/PROJECT_DESIGN.md:490` says that old logs stay when a rule is
  deleted. `LossIsExplained` names both as reasons.
- A client that closes its side and reads no more holds its handler in the write
  of the response, and its row is not there until that write ends
  (`DisconnectEndsHandler` excepts it).
- A request cut short by its client is logged without an error;
  `doc/PROJECT_DESIGN.md:782` asks for one. `FailureIsExplained` excepts it.
- A snapshot in the middle of a write may hold fewer bytes than its size says
  without the truncated mark (`QuietSnapshotIsExact` speaks of the others).
- Small request bodies are read before they are forwarded (`HeldIsBounded`).
- Relative `Location` headers are not rewritten (`RedirectLeadsBack` speaks of
  absolute ones).
- A prefix may be saved with two slashes at its end. To match a path one of them
  is cut off, to rewrite a `Location` both, so a redirect to the target may lead
  to a 404 of the proxy, and of a prefix of slashes only to another host
  (`RedirectLeadsBack` speaks of prefixes that end in one slash).
- `from`, `to` and `before` (`doc/PROJECT_DESIGN.md:543`, `:600`) are compared with
  `started_at` as texts: `before` 10:00:00Z also deletes what began at
  10:00:00.5Z. A time with an offset other than Z is compared by its local
  digits; the models give no such times. `TimesHoldToTheSecond` says what does hold.
- The retention deletes a row up to a day later than its time, as RFC3339 and
  `datetime()` differ in the character after the date (`OldRowsAreGone`). A failed
  clean-up is only printed.
- Details and lists of the console may belong to an earlier click or filter than
  the marked one; the list is mended by the timer (`AutoRefreshHeals`), the
  details are not.
- A wrong token lifts the gate until the next answer, because `loadHealth` catches
  the refusal, and stays in the browser's storage (`WrongTokenIsShut` says how it
  ends). A refusal of a request from before the sign-in shuts the gate
  (`RightTokenIsShutByOldAnswers`).
- Not in any model: `REQUESTLENS_MAX_LOG_ROWS` of `doc/PROJECT_DESIGN.md:393` does
  not exist in the code, and a second header line of `X-Forwarded-For` is lost
  where `:153` says the chain is kept.

## Proofs

All theorems hold for every value of the constants that satisfies the named
assumptions; TLC evaluates these in every run.

`RequestLensProofs` proves the safety properties of the composition from one
inductive invariant, `Inv`:

- `TypeOK`;
- `KeysInv`: the keys hold, and no id is above the sequence. Without the second
  part an insert might repeat an id;
- `DraftInv`: a row about to be written has a valid prefix;
- `LinkInv`: the rule a request was matched to exists or its deletion is on
  record in the history variable `orphaned`, and its id is not above the
  sequence. Without that a rule created later could take the id of a deleted
  one;
- `LogInv`: a row names no rule or the one of its request, and repeats the
  status and error the handler ended with;
- `FlowInv`: which status, error, context and fate go with which step.

`Invariance` shows `Spec => []Inv`; the proof has a lemma per part and per
group of actions, framed by lemmas that say what a step of a request or of a
call leaves alone. From it follow `TypeCorrect`, `RulesKeepKeys`,
`NoMisattribution`, `LossHasACause`, `FailuresAreExplained`, and the action
property `DeletedRulesStayDeleted`. `LogPromiseKept` shows that the composition
implements `RequestLog`, where the outcome of an exchange is read off the fate of
its insert and the journal is the set of requests with a row: the steps of calls
leave both alone, and an insert changes both together. That
`matchRule` returns a rule at all needs a longest matching prefix to exist;
`Largest` proves it from the well-foundedness of the naturals, since the
prefixes of a path are no longer than the path.
`CreateIsHonest` needs one more invariant on top of `Inv`: `CreateInv` says
that a call knows the id of a rule only once it has inserted one, and then an
id not above the sequence, so a rule that is gone stays gone for it.

`CaptureProofs` proves that the capture is exact for every limit and every
cutting of the body, and from it what `inspect` checks, for any content types:
the length that was announced is the true one, so what is read ahead fits the
limit (`LimitBoundsMemory`), and a text is never left out by the plan
(`TextIsKept`). `SharedCaptureProofs` proves that the writer with its
single steps implements it under the mapping in which a write counts from the
moment the buffer has grown, that no snapshot exceeds its bounds, and that one that meets
no write is exact: between its steps it agrees with the fields as they are
(`QuietOK`).

`TunnelProofs` proves `NothingLostOrReordered` for any number of messages. What
makes it inductive is `HandsInv`: a copier that is about to read holds nothing,
and one that reads from the connection or writes what it read has emptied the
buffer of the hijacked reader before.

`LifecycleProofs` proves all safety properties of `restarts` for any rules,
limits, retention, exchanges and readings of the clock, from an invariant with
these parts besides `TypeOK`:

- `VersionInv`: the version is 0 while the limits are migrated and 1 from the
  clean-up on;
- `LimitInv`: while the version is 0 no user has set the limit the migration
  looks for, because nothing is served before the version is recorded. That is
  why running the migration again after a crash is harmless, and the heart of
  `LimitsSurvive` and `MigrationComplete`;
- `ProcessInv`: only a process that is up has exchanges;
- `RowInv`: the row of a recorded exchange is missing only if it began more
  than the retention ago, counted in days, and what a clean-up has left is no
  older than that. The day is the right measure since `TextsCompareByDay` (in
  `LogTimeProofs`) shows that an RFC3339 text is before one of `datetime()`
  exactly if its day is: on the same day the T is after the blank
  (`ExpiredByDay`);
- `StopInv`: a shutdown that was not late left nothing running.

`PromiseOutlivesProcess` shows that the life of the process implements
`RequestLog`.

`LogTimeProofs` shows that texts of times are totally ordered and that the texts
of two instants in different seconds compare as the instants do
(`TextsCompareBySecond`). On it `LogViewsProofs` builds first what it needs of a
list: `ORDER BY started_at DESC, id DESC` is a total order of the rows, the
rows of a listing take its places without a gap (`PlacesAreTaken`), so a page has
as many rows as the total leaves it (`SizeOfPiece`), and inserting rows never
moves a row forward, deleting never moves one back (`PlacesGrow`).

`LogViewsProofs` proves all safety properties of `reading` for any exchanges,
filters, limits, tokens and numbers of requests in flight, by two invariants:

- `ListInv`, of the table and the reader of pages: up to the next offset nothing
  that stays was missed if no row left the list, and nothing that is still to
  come was shown if no row came; between the statements of an answer the total
  counted is the present one unless the list changed. `shrunk`, `grown` and
  `steady` are the history variables that record those changes;
- `PanelInv`, of the details: an id has meant one exchange ever since it was
  handed out (`KnownInv`), so whatever is known of
  an id, in flight, in the cache or on the panel, is known of one exchange; what
  comes from one click is about one id (`ClickInv`), and goes into the box of its
  kind (`KindInv`, `BoxInv`). So the details of an earlier click may replace those
  of a later one, but never does a body stand beside another exchange.

It begins with the two properties of the sign-in, proved from `SessionSpec`, the
visitor of `LogViews` by itself, and `SessionAlone` carries them over to the
composition: the invariant says that while the gate is open over a wrong token
an answer is on its way that will shut it, or be followed by a request that
carries it.

`RoutingProofs` proves the three properties of `routes` for texts of any length
over any characters and for any rules, paths and Locations. What is assumed of
these, `RoutingAssumption`, is what the code that stores and parses them sees to:
prefix and host are given and the host ends in no slash, the path of a target is
empty or begins with a slash, no two prefixes are stored alike, and a path that is
asked for begins with a slash. The invariant, `RouteInv`, says that the rule of a
request is the first of the scan to serve its path, that upstream's Location
reached the client as the proxy rewrites it, and that the client's next path is
the one it was sent to; the last two link a redirect to the request that follows.
The rest is about strings:

- `ServesIsCovers`: with a slash at its end a path begins with the prefix exactly
  if the segments of the path begin with those of the prefix. Where two strings
  that are enclosed by slashes agree, so do their segments (`PrefixHasSegments`);
  the other direction, `SegmentsTellPrefix`, goes segment by segment up to the first
  whose slash is not at the same place in both. Of two prefixes of one path the
  longer continues the shorter and has no fewer segments
  (`LongerHasMoreSegments`), so sorting by length is sorting by segments. This
  is also why `RequestLens` may take prefixes for sequences of segments.
- `JoinedBySlashes`: what `singleJoiningSlash` makes is the target without its last
  slashes, then some slashes, then what is left of the path. So no request
  leaves its target.
- `RewrittenAnswer`, `ServedAgain`, `ForwardedToThePlace`: a Location below the
  target is the target and a rest; rewritten it is the prefix without its slash
  and that rest, which the rule serves again and forwards to the target and the
  rest, but for the slashes between them.

Only model-checked: the liveness properties `DisconnectEndsHandler`,
`LogPhaseEnds`, `CopiersEnd`, `CloseEndsTunnel`, `StopCompletes` and
`AutoRefreshHeals`, since fairness and ENABLED are beyond the prover. Every other
property of a passing run is proved.

## Abstractions

- A status of 200 stands for every answer of upstream but 101.
- Bodies are counted, their bytes have no values. Headers are sets of names.
- Store errors are those the program can cause: a constraint, a cancelled
  context, the 3 seconds. Errors of the disk are left out. So is the answer 502
  for a target that cannot be parsed: `normalizeTarget` refuses such targets
  when a rule is saved.
- A row of the log stands for its request id, so two rows of one request would
  be told apart only by what they say; `insertLog` runs once per request.
- `SharedCapture` keeps the order in which each goroutine makes its accesses,
  as amd64 does for the writer's stores and for loads in the order of the
  program; the two loads the compiler may swap are left unordered. A weaker
  memory could show more.
- `Routing` leaves out queries, fragments and percent-encoding, and requests for a
  path that does not begin with a slash (`OPTIONS *`).
- A tunnel in `ProxyHandler` is one step to its end; `Tunnel` has the inside.

## Not modelled

- Headers: of `headers.go` the models have what is deleted and added on the way
  upstream, as sets of names. Redaction and the JSON of headers are formatting.
  Trailers are not modelled.
- The database file: whether its directory can be written, tried before it is
  opened; the columns of the schema; errors of the disk.
- The console's rule form, its SQL view, exports and clipboard: they send what a
  form says and show the answer. Nothing of the page's layout.
- Configuration, embedded files, start script and container: they hold no state
  of the running program. The values of the configuration are constants of the
  models.
