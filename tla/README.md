# AcademicSupportSystem: a TLA+ model

The repository (Go module `HelpStudent`, and a React frontend) is a campus service: students log in through
the university's OAuth provider, see the subjects they take, and chat with a FastGPT app for each subject;
managers maintain managers, apps and enrolments and upload spreadsheets. The Go side is built on a `core/`
library, much of it in the style of go-zero, of which the service uses a part.

This directory holds specifications of the parts whose behaviour depends on the order of steps: what is
cached and expires, what several requests do to one table, what goroutines hand to each other. TLC checks
them on small instances; TLAPS proves the theorems of the `*Proofs` modules for every value of the constants.

## 1. Inventory

| Part | State | Operations | Interacts with | What is hard | What makes it correct |
|---|---|---|---|---|---|
| memory cache `core/cache` | one map under an RWMutex, a ticker, a stop channel | Set, Setex, Get, GetString, Exists, Del, Expire, TTL, Keys, Incr/IncrBy, Flush, Len, Close; cleaner | login (marks) | lazy expiry: an entry may be expired and present; the cleaner runs between any two calls | callers cannot tell whether the cleaner ran; expired stays expired; memory is reclaimed |
| login and tokens `internal/app/users`, `core/auth` | marks in the cache; tables `users`, `user_binds`; JWTs in browsers | login, callback, refresh, person info | cache, provider, Postgres; upload of users | a callback is eight calls to three services, others run between them | a mark admits one callback; tokens name real users; one user per staff number, with its bind |
| upload of users `users/handler/upload.go` | `users`, `user_subjects` | upload a spreadsheet | login, student subjects | rows of users without a transaction; rows of subjects in one | never duplicates a user; a student's list is replaced, not lost |
| managers `internal/app/managers` | table `managers` | add, delete, list, import of enrolments | every handler asks IsManager | check, look-up and write are separate queries | somebody can always administer; no manager twice |
| FastGPT apps `fastgpt/handler/v1/app.go` | table `fastgpt_apps` | create, list, get, update, delete | chat, subjects | as above | names are unique; deleted apps stay deleted |
| student subjects `internal/app/subject` | tables `subjects` (deprecated), `user_subjects` | list, add, update, delete; subjects; links | users, apps, imports, uploads | read-modify-write with `Save`, soft deletion, row locks | a row names its own user; deletions are final; uploads are atomic; one name for one subject; links match both tables |
| streamed chat `fastgpt.go`, `core/middleware/sse` | one unbuffered channel, request context, response | send, receive, ping, time-out, write | FastGPT, browser, net/http | two goroutines, a browser that leaves, a response that ends | messages arrive whole and in order; both goroutines end |
| FastGPT client and proxied requests `fastgpt/service`, sixteen handlers | what a request carries: its app's key | find the app, forward, answer | apps, FastGPT | apps change under a request; 30 s clients, calls that arrive after they were given up | the key is one the app had; success means done once; every request is answered |
| listings `subject.go`, `app.go`, `managers.go` | none of their own | count, page | their tables | two statements for a page, pages while rows come and go | rows that stay are seen |
| map-reduce `core/mr` | channels, pool, cancel and done | Map, MapReduce, Finish, ForEach | – (library) | the densest concurrency of the repository: panics, cancellation, draining | no goroutine is left; one outcome; every item at most once |
| single flight, resource manager `core/syncx` | map of calls, map of resources | Do, DoEx; Get, Inject, Close | – (library) | a failing or panicking call with waiters | one call per key at a time; one resource per key |
| breaker `core/breaker`, window `core/collection` | ring of buckets, map of breakers, ring of errors | Allow, Do…, Add, Reduce | – (library) | lazy reset of buckets by elapsed time | the window counts what is recent |
| consistent hash `core/hash` | sorted ring of hashes, replica lists | Add…, Remove, Get | – (library) | nodes that share a hash, two locked sections in one call | ring and keys agree; values move only from and to the node that goes or comes |
| server `cmd/server`, `internal/app/*/init`, `core/kernel`, `core/healthz` | modules, HTTP server, health flag | start, load modules, stop | everything | server assigned in a goroutine, signals, a tracer that nobody starts | tables exist before they are used; an orderly end lets requests finish |
| shutdown listeners `core/systemx`, `core/threadx` | lists of listeners, wait groups | add, wait, notify | nothing calls them | notification while adding | who has waited has been called |
| logging sinks `core/logx` | sinks | write, stop | everything | queues of the SDK | nothing reads them |
| string matching `core/stringx` | Aho-Corasick trie | FindKeywords, Filter, Replace | – (library) | failure links | equals the naive search |
| frontend `frontend/src` | React state of chat and admin pages | choose chat, send, stream, log in | the API | answers that arrive after the page has changed | answers land in the chat they belong to |
| field mapping `core/mappingx` | none | Unmarshal | – (library) | tags that depend on other fields, inheritance, embedded structs | what is accepted keeps to the tags |
| drivers, generators, configuration | – | I/O, printing | – | – | section 7 |

Postgres, the provider, FastGPT, net/http and browsers are outside the repository. They appear as far as the
code depends on them: read committed statements, unique indexes (in which NULLs differ), row locks, a request
context that is cancelled when its handler returns.

## 2. Modules

| Module | Models | How state and actions correspond |
|---|---|---|
| `CacheItems` | `item`, `isExpired`, arithmetic of values | time left in ticks; `Gone` = past its deadline, `Never` = no deadline; numbers wrap at `Modulus` |
| `AbstractCache` | the promise of the cache | entries vanish at their deadline; no cleaner, no lazy expiry |
| `MemoryCache` | `core/cache/cache.go` | one action per method (each holds the lock throughout), `Tick` for clock and ticker, `deleteExpired` and `stopCleaner` for the goroutine; `ret` is what the caller saw |
| `Login` | callbacks, `CreateWithBind`, tokens, upload of users | one action per call to cache, provider or database; the cache is `AbstractCache`, instantiated over marks, so that what `MemoryCache` is shown to implement is what `Login` relies on |
| `Administration` | handlers of managers and of apps | every handler is authorise / look / write, one query each; one action per write |
| `Enrolment` | every writer of `user_subjects` | one action per statement; `Locked` is what an open transaction has deleted; `UpdateReads` … `UpdateSaves` keep the copy that `Save` writes back |
| `MapReduce` | `core/mr/mapreducer.go` | a program counter for each goroutine: caller, generator, dispatcher (`executeMappers`), one mapper per item, reducer; a rendezvous on an unbuffered channel is one action that moves two of them; `DispatchLoop` reads `failed`, `DispatchSelect` is the select that follows; `buffer` is the collector; what the functions of the caller do is open |
| `SSEStream` | `HandleStreamChatCompletion` and the goroutine of `sse.go` | handler and writer with a program counter each; `Receive` is the rendezvous on the channel; `After` lists what is written and flushed one after the other, each with its look at the context; context and response as net/http moves them |
| `ChatProxy` | the sixteen handlers of `fastgpt.go` that forward a request, `FastGPTClient`, the app's rows | one action per handler for its arrival, then the steps they share: `FindApp`, `Arrive`, `ReadFails`, `TimesOut`, `Reply`; `Late` is a call that was given up; `valid` records the keys the app has had since |
| `Subjects` | `AddSubject`, `UpdateSubject`, `DeleteSubject` | one action per statement; `rival` records that another writer took the name after the count |
| `StudentLinks` | `GetSubjectLink` | one action per query; `had`, `took`, `kept` record what was true meanwhile |
| `Listings` | the four lists of the admin pages | `Count` and `Find` are the two statements of a page, `Open` and the next page the client's; each list has its order, its default and its limit; `Pages` are the sets of rows that LIMIT and OFFSET may select when rows with one `created_at` come in any order |
| `EventWindow` | the promise of the rolling window | counts by interval; `Tick` drops the oldest |
| `RollingWindow` | `core/collection/rollingwindow.go` | `Pass` is the clock, `Add` an addition with its lazy reset, `Reduce` what a reader counts; `late` is the time between the two readings of the clock |
| `Breaker` | `googlebreaker.go`, `breaker.go`, on top of `EventWindow` | decision, reason and mark of a call are an action each |
| `BreakerRegistry` | `breakers.go` | the look-up under the read lock and the one under the write lock |
| `Server` | `cmd/server/server.go` with the hooks of the five apps | `tp` is the tracer, nil as the program is built; one action per hook and app, per statement of `run`, and per step of its two goroutines; requests as net/http and cmux move them |
| `ShutdownListeners` | `core/systemx/shutdown.go` | `CountListener` and `AddListener` are the two halves of `addListener`, `Run` a listener's goroutine; `Add` is what `sync.WaitGroup` does to its counter, below zero as well, and to those who wait |
| `Resources` | `resourcemanager.go` over `singleflight.go` | one action per section under a lock; a panic is an outcome; `locked` is a lock that an `Inject` after `Close` has kept; `ousted`, `late` and `injected` record what the manager lost |
| `ConsistentHash` | `core/hash/consistenthash.go` | `AddBegins` and `AddEnds` are the two locks of `AddWithReplicas`; keys, and the nodes at a point of the ring, are counted, not listed; `hashFunc` may give two nodes the same point; `robbed` records where a removal took keys of others |
| `KeywordTrie` | `node.go`, `trie.go`, `replacer.go` | a node is the word that leads to it; `build` and `find` climb failure links as the code does |
| `Mapping` | `core/mappingx` | tags are records, a valuer is the sequence of the maps it looks in; `processField` gives for each field and valuer an error, or the numbers that are set, each with its field and the indices that lead there |

`MC*` modules give TLC its instances: symmetry sets and small functions. `MCHandlers`, `MCBreaker`, `MCLifecycle` and
`MCToolkit` each put several small models that share no variable into one run: the variable `moving` says which
of them takes steps, and the others stay in one initial state, so that the run explores their sum and not their
product. A fairness condition of a model at rest asks for nothing, since its actions are not enabled there. The definitions named as mutants
(comment "Mutant") are forms a plausible bug would give to the definition that follows them; each makes one
property of a passing run fail, which is how the properties were tested. No specification uses them.

## 3. Runs

Passing:

| Run | Shows |
|---|---|
| `cache` | every sequence of calls over two keys is answered as by `AbstractCache`, whenever the cleaner runs, if `Expire` is called on live keys only; with a clock and a cleaner that run, expired entries are removed though nobody reads them |
| `login` | two callbacks and an upload over accounts that share staff numbers: tokens, binds and carried values name the right users; a user created by a login has exactly one bind; a consumed mark is refused |
| `administration` | two overlapping requests: the last manager is lost only to a manager who was himself deleted meanwhile; deleted apps stay as they were |
| `enrolment` | two overlapping uploads with failures and rollbacks beside one handler of single rows and an import: rows name the user of their staff number; no list becomes empty, even for a moment, because of an upload; only a stale `Save` revives a row |
| `stream` | the browser has a prefix of the stream, or, when the hour is over, whole messages of it and one `data: eof`; the writing goroutine ends; every offer is taken unless it has ended |
| `handlers` | the key a call carries is one that its app has had since the request came; a success was carried out exactly once, and no call more than once; every request is answered and a withdrawn key falls out of use; links are exact; complete readings of ordered lists miss no row that was there throughout and shares its stamp with no other, with the exceptions of section 6; subjects come by one name only through a race |
| `breaker` | calls are dropped only after failures in the window, and the reasons shown are the last ones; a breaker closes again; the ring counts what is young and forgets what is old, and implements `EventWindow`; one breaker per name |
| `lifecycle` | with and without a tracer: handlers find their tables; with one, an orderly end cuts off only requests that took longer than 5 s (without one, `StopAgent` ends the process, section 6); the process ends after its signal, and when it has no port; until there is a second notification, the wait group counts the listeners that are owed a call, and who waits for its listener is released |
| `toolkit` | one resource per key, and none that is open is lost but through `Inject` or by coming after `Close`; waiters come back from a panic, as long as no `Inject` after `Close` keeps the lock; the ring answers with members, two of which share a hash, and panics only after a removal has taken another's keys; between nodes that stay no value moves, except at a point that they share or after a race; every occurrence of every keyword is found; accepted maps keep to the tags |
| `mapreduce` | nothing is lost when the collector's end is seen, a cancelled call says so, no more mappers run than were asked for; the caller answers and no goroutine stays, except when a panic is told to nobody or a value is written after the caller has panicked |

Violated, each one property stating what a comment or a log line says (section 6): `stream_disconnect`,
`shutdown_untraced`.

The action properties (`LastManagerLostToDemoted`, `DeletedAppsStayDeleted`, `UploadNeverEmpties`,
`RevivedOnlyByStaleSave`, `WritersKeepTheRules`, `OthersStay`, `SearchIsRight`) say what one step may never do, in whatever state requests meet.

Type invariants are checked in a run each, or as the first conjunct of a safety invariant, and are theorems. `Mapping` and
`KeywordTrie` have none: their variables are an input and what one call makes of it. The largest runs (`cache`,
`mapreduce`, `handlers`, `toolkit`) take some three minutes each, the others less than two.

### Bounds

* Cache: two keys (methods act on one key or a set; two show that others are left alone), one text and the
  numbers modulo 2 (wrap-around happens at once), two ticks to a second (`TTL` truncates), times up to one
  second, the ticker every tick.
* Login: two callbacks, two marks, three accounts of which two share a staff number, two staff numbers, two
  ids. Two ids suffice because the indexes on staff numbers admit one user for each. A mark lives one tick:
  it may expire between any two calls.
* Administration: two requests, two staff numbers, two apps, two names, at most `MaxRows = 2` rows for one staff
  number (a second row is what two overlapping requests can leave).
* Enrolment: one handler of single rows and two uploads of one student's list; two students, two subjects (an
  update may rename), three rows. A row's id is never reused, so histories are as long as there are rows: three
  let both uploads replace a row. Larger sheets only repeat, in one statement, what happens to one student: an
  instance with one subject and sheets of both students was checked as well. The theorems hold for all sheets.
* Stream: three messages of three pieces: any piece of the first, a middle and the last may be cut off; the hour may
  end before, between and after them.
* Map-reduce: two items and one or two workers: mappers that overlap, that wait for a place in the pool, and
  that wait for a place in the collector. A mapper writes at most one value and a reducer at most three
  (`MaxOutputs`): the second makes the caller panic, and the third finds nobody. The generator's order of items is fixed, since nothing distinguishes them.

* Handlers: one proxied request over two apps, two keys and two shares (requests share nothing but the table);
  two writers, three subjects and two names (a rival, and a row to take the name from); two students, subjects
  and apps; four rows, two of which have one stamp, read in pages of one to three, with a default and a limit of two, so that a
  limit is exceeded.
* Breaker: a window of two intervals with up to two events each, and a protection of one call instead of five: the
  ratio is then above zero in several states and below in others. A ring of three buckets of two ticks, clocks up
  to one tick late, at most one interval lost: a ring that wraps, with spans from none to more than all. Two
  goroutines, two names, four breakers.
* Lifecycle: two requests for any two of the five apps, a tracer that is nil or made; three listeners, two
  notifications.
* Toolkit: three users, one key, two resources (keys do not meet); three nodes on three points, two with both
  replicas on one point, and two with a point in common, each point at most twice in the keys (`MaxCopies`), with one
  racing pair; tries of up to three words of up to three of two runes, texts of up to four, which
  hold every way in which two such words overlap; two fields, or a struct with another in it, and every tag against every
  value. Two levels are where inheritance has more than one map to look in; the theorem holds for any depth.

Request, row, mark and user identifiers are symmetry sets in `login`, `administration` and `enrolment`, where no
definition tells them apart and no liveness is checked. The other runs use no symmetry. Streams, map-reduces,
servers and all that is bounded (rows that are used up, one search, one `Unmarshal`) may stop, so their configurations
turn deadlock checking off.

### Fairness

* `MemoryCache`: weak fairness of the clock and of the two cases of the cleaner's `select`. Nothing makes
  anybody call a method.
* `SSEStream`: weak fairness of every step of the two goroutines and of net/http, strong fairness of `Receive`:
  Go's `select` picks among its ready cases at random, so a sender that is ready again and again, while the
  loop is away writing pings in between, is taken in the end. FastGPT's response is assumed to go on or end.
* `MapReduce`: weak fairness of each goroutine. The functions of the caller come to an end: they have only so many
  steps to take. Nothing makes the deadline pass, or anybody cancel or panic.
* `ChatProxy`: the database answers and the client's 30 s and 5 s run out. FastGPT may stay silent for ever.
* `Breaker`: time passes. Nothing makes anybody call.
* `Server`: the main goroutine and the two others are scheduled. Neither signals nor clients need come, and a handler
  may take for ever.
* `ShutdownListeners`: a notification that has begun calls everybody; nothing makes one begin.
* `Resources`: every goroutine runs on, and `create` returns or panics.
* The others have no fairness: they are checked for safety only, since a request may die at any step.

## 4. Theorems

All hold for every value of the constants that the modules' assumptions admit. The provers check every leaf.

| Theorem | States | Rests on |
|---|---|---|
| `MemoryCacheProofs!TypeCorrect` | the cache holds items, its cleaner is well formed | sums wrap within `Number` |
| `MemoryCacheProofs!CacheRefinement` | `ExpireOnlyLive => (Spec => Abs!Spec)`: the cache implements `AbstractCache` | the refinement mapping forgets expired entries (`ViewOfKey`, `ViewOfWrite`, `UnchangedView`); then each method maps to its abstract call, each step of the cleaner to a stutter (`StepRefines`) |
| `LoginProofs!LoginTypeCorrect` | tables, tokens, marks and requests keep their shape; a callback under way carries an account | – |
| `LoginProofs!TokensNameTheirUser` | without failing commits, every token that is out names a row of `users` with its staff number | `Matching`: what a callback carries between two queries matches rows that are never renumbered (`UsersKeepTheirNumber`) |
| `LoginProofs!BindsNameTheirStaff` | without failing commits, every bind names the user of the staff number its account reported | `Matching`, as above |
| `LoginProofs!ConsumedMarksStayRefused` | a deleted mark is never found again | consumed marks were issued, issued ones are not drawn again |
| `AdministrationProofs!AdministrationTypeCorrect` | rows are counted, apps and requests keep their shape | – |
| `AdministrationProofs!LastManagerLost` | the table is emptied only by somebody who is no manager any more | `ActsOnOthers`: a deletion that has passed its check is not aimed at its own sender |
| `AdministrationProofs!DeletedAppsStay` | a deleted app never changes | writes name apps that are live when written |
| `AdministrationProofs!OneByOneKeepsManagers` | when requests do not overlap, one manager remains and nobody is entered twice | the same invariant with at most one request under way |
| `EnrolmentProofs!EnrolmentTypeCorrect` | rows, handlers and uploads keep their shape | `Shape`, which adds that what a transaction has locked exists |
| `EnrolmentProofs!RowsKeepTheirUser` | a row that names a user names the user of its staff number | `Ownership`: so do the copies that handlers carry to their `Save` |
| `EnrolmentProofs!DeletionIsFinal` | a deleted row lives again only through a `Save` that had read it before | `Shape` |
| `EnrolmentProofs!UploadsLeaveNoGap` | no step of an upload empties the list of a student who had rows | `Locks`: what a transaction has locked stays the live row of a student of its sheet, and no other transaction has it; so a commit takes rows only from students to whom it gives new ones (`CommittedStudents`) |
| `LoginProofs!LoginsLeaveOneBind` | one user for a staff number, one bind for a user whom a login created, even if commits fail unseen | `BoundOnce`: a bind leads to a user that exists, so that an id which is given anew has no bind left |
| `HandlersProofs!SubjectWritersKeepTheRules` | two subjects come by one name only through writers that overlap; deleted ones stay | `SubjectsInv`: a writer that has counted and has no rival still finds nobody else with its name |
| `HandlersProofs!LinksStayExact` | links are those of subjects that were taken, of apps that were there, and complete where nothing moved | `HistoryKeepsUp` and `NamesAreTaken`: what the request holds between its two statements is part of its history |
| `HandlersProofs!ListsAreSound` | a reader of pages misses no row that was there throughout and ties with no other, and sees no such app twice, with the exceptions of section 6; for any stamps | `UnseenAreAhead`, `SeenAreBehind`: as long as pages fit together, the next begins behind every row that was listed and ties with no other, and not behind one that was not |
| `HandlersProofs!ServerServes` | `Spec => []RequestsAreServed`, with and without a tracer: handlers find their tables, and the end of the process cuts off only what outlasts the deadline, unless a signal came too early or `StopAgent` had no tracer | `ServerInv`: the main goroutine has passed the hooks of all apps before any request is under way (`TablesFollow`, `InOrder`), and a request under way is cut off only by force |
| `HandlersProofs!WaitersHaveBeenCalled` | until there is a second notification, the wait group is the number of the listeners that are owed a call, and whoever has waited has been called (the safety part of `WaitersAreCalled`) | `ListenersInv`: a notification only calls what has been appended and thus counted (`Appended`), and the first one calls nobody twice (`CalledOnce`) |
| `ChatProofs!StreamTypeCorrect` | both goroutines and the response keep their types, for streams of any length | – |
| `ChatProofs!BrowserGetsPrefix` | what the browser has is a prefix of the stream, after an hour followed by one `eof` behind whole messages | `StreamInv`: writer and handler are at most one message apart (`InStep`), and what was written matches the writer's place (`Matches`) |
| `ChatProofs!CallsUseAskedKeys` | the key of a call is one that its app has had since the request came | `FindersKnow`: every key the look-up may find is known as valid while it is awaited |
| `ChatProofs!SuccessIsDoneOnce` | a success was carried out exactly once, nothing twice | `OnCourse`: from where a request is follows how often it has acted and what it has been told, late calls included |
| `BreakerProofs!TheWindowCountsRight` | a reader counts nothing older than the window and leaves out nothing well within it | `AgesAreKnown`: the oldest and the newest event of a bucket, bounded by its distance from the current bucket and by the intervals lost between two readings of the clock; arithmetic of the ring (`Around`, `SlotsAre`) and of intervals (`TimeTakenOff`) |
| `BreakerProofs!TheRingKeepsThePromise` | `WindowSpec => Abstract!EventsSpec`: the ring that is reset lazily implements `EventWindow` | the refinement mapping in `RollingWindow`; time is a `Tick` or not seen (`PassIsATick`), an addition a `Record` (`AddIsARecord`), because what it resets is what the mapping takes for empty (`PlaceOf`) |
| `BreakerProofs!DropsAreExplained` | nothing is dropped without a failure in the window; the reasons shown are the last ones in order | `YoungerSucceeded`: intervals younger than the last failure hold successes only; `ReasonsComeFirst`; going back round the ring of reasons (`PlacesBack`) |
| `BreakerProofs!BreakersAreShared` | all that have got a breaker for one name share it, and with no other name | `RegistryInv`: a breaker that is registered or handed out has one name (`OneNameEach`) |
| `ToolkitProofs!EndIsComplete` | a reader that finds the collector closed has had every value, unless the call was disturbed | `CallInv`: goroutines end in order (`EndInOrder`), a value is on its way, in the collector or read (`NothingLost`), an item that was taken is mapped unless something intervenes (`AllTaken`) |
| `ToolkitProofs!CancelsAreReported` | a cancelled call does not say that there was no output | `CallInv`: what the caller may still answer, by where it is (`Answers`) |
| `ToolkitProofs!PoolIsRespected` | no more mappers than workers | `CallInv`: a dispatcher that is about to take an item has a free place (`PoolHolds`) |
| `ToolkitProofs!ResourcesAreSharedAndClosed` | one creation per key at a time, one resource for all who ask; what is open is the manager's to close, about to be, or lost through `Inject` or by coming after `Close` | `ResourcesInv`: who is at work owns the call of its key and every waiter has an owner (`CallsAreOwned`); who has missed the key or is about to store will not replace a resource, unless `Inject` or `Close` came (`HandlesAreKept`) |
| `ToolkitProofs!TheRingIsSound` | for any hashes, `Get` names members and panics only after a removal has taken another's keys; unless additions raced it finds one, and the later addition overwrites | `MembersStand`: entries belong to members; `NoKeyTooMany`, `NoKeyTooFew`: a point is in the keys at most as often as the ring has entries there while no additions have raced, and at least as often where nobody was robbed. The entries of a point are counted as a set of pairs of node and number (`Entries`) |
| `ToolkitProofs!OthersKeepTheirValues` | no value moves between two nodes that stay, except where both share the point, after a race, or after a removal took keys of others | the first key at or behind a hash is the same before and after, unless it came or went with the node that did (`LeastNatural`) |
| `ToolkitProofs!TheTagsAreHonoured` | for all types, maps and depths of nesting, what `Unmarshal` accepts keeps to ranges, dependences and embedded structs, and a struct that may be absent is filled from nothing | `Filled`: the outcome is what `processField` makes of the outermost fields. What is shown of a field is shown with that of the fields in it (`FieldInduction`): that every number keeps to its range (`ProcessKept`), and that an empty map fills what is not required (`FilledFromNothing`); dependences are compared before anything else (`ContextIsRight`), and an embedded struct that sets one number sets all it must (`EmbeddedSets`) |
| `ToolkitProofs!TheSearchIsRight` | for all keywords and texts, one pass finds every place of every keyword and nothing else; each round of `Replace` puts the longest keyword that begins next in order, and what replaces it | `LongestOfAppend`: the longest node at the end of a word and one more rune ends in the longest node at the end of the word; so `build` gives each node the longest other node at its end (`BuildIs`), `find` is always at the longest node at the end of what it has read (`VisitedIs`), and failures lead through all shorter ones (`ChainIs`). Then, for the replacer: what holds no beginning of a keyword stays (`GapStays`), and the first scope behind an index is the longest of the leftmost (`FirstIs`) |

The safety properties are not inductive: each speaks of tables, channels or answers, while a violation would be prepared
in what somebody remembers from an earlier step. The strengthenings therefore say what is remembered, or how far
two goroutines can be apart. TLC checked each on the run's instance before it was proved.
`TokensNameTheirUser` and `BindsNameTheirStaff` assume `CommitFails = FALSE`, `CacheRefinement` assumes `ExpireOnlyLive`,
without them TLC finds the statement violated, and section 6 says why. These three say
what the code guarantees as long as the flaw in question does not come into play. The others hold without hypotheses;
where the code has a flaw, the property itself names the case as an exception.

Some definitions have the form they have for the provers' sake: the totals of `Breaker` count pairs of an interval and a
number, where the code adds, because a sum over a set is a recursive definition; the slices of the consistent
hash are counts for each node; and the loops of the trie and of the replacer are recursive functions of their own
(`Climb`, `Follow`, `Written`), each over the nodes or places it may reach. Definitions that proofs expand choose with
`IF` or with disjuncts, never with a `CASE` of several arms: the SMT translation of tlapm 1.4.5 takes two `CASE` expressions
that begin with the same arm for one, even if later arms differ.

Lemmas that would need induction use instead that a set of numbers has a least element (`LeastNatural`), which follows
from the library's theorem on the order of the naturals. So do the recursive functions of `KeywordTrie`: a function
`f[x \in S] == e` is some solution of its equation, if there is one. For each, a solution is given, by the closed form
that the lemma states or, for `LeftmostLongest`, as the extension of a solution for the rest of the text (`SomeBecomes`);
and two solutions agree, because there is no shortest word, or last place, at which they differ. The functions of
`Mapping` are defined over fields: `MappingAssumption` lists these by how deep their structs go, as Go's finite types do, so
that a solution for the fields of one level extends to the next (`SomeProcess`). It also says that merging two maps that stand
in other maps gives a map of that kind, which holds of the maps of the language.

## 5. Only model-checked

Liveness (`ExpiredIsReclaimed`, `WriterStops`, `OfferIsTaken`, `CallerAnswers`, `NobodyIsLeft`, `RequestsEnd`,
`BreakerCloses`, `ProcessEnds`, `WaitersAreCalled`, `WaitersComeBack`) is out of the prover's reach; of `WaitersAreCalled`,
the part about safety is a theorem. Every safety property that the passing runs check is a theorem.

## 6. Where code and text disagree

Shown by a run:

| Run | Disagreement |
|---|---|
| `stream_disconnect` | when the writing goroutine has ended, the handler waits for ever on a channel nobody reads (fastgpt.go:137); the branch for a browser that has left (191) is not reached |
| `shutdown_untraced` | `StopAgent` (tracex/agent.go:49) calls a tracer that only `StartAgent` makes, and nothing calls that: every shutdown after a signal panics at server.go:197, before the log sinks and the HTTP server are shut down |

Met while modelling, each visible in a model as the exception a property makes or the form an action has:

* `Expire` (cache.go:184) does not ask whether the key has expired: a key that all other methods report as gone is
  given a new deadline (`ExpireOnlyLive` sets this apart).
* The mark is read (login.go:120) and deleted (124) in two calls, and the number of deleted keys is dropped: two
  callbacks with one mark both pass. `ConsumedMarkRefused` speaks of callbacks that come later.
* `CreateWithBind` updates the binds of a user that exists (dao/users.go:30); one that an upload created has none, so
  the update changes nothing and no bind is created. `LoginUserHasOneBind` speaks of users that a login created.
* The result of `Commit` (dao/users.go:54) is dropped; `CommitFails` sets this apart.
* `ON CONFLICT DO NOTHING` (subject/dao/subject.go:103) relies on an index that contains `deleted_at`, NULL in live
  rows: the conflict never arises, and a subject can be added twice.
* After an hour the browser gets `data: eof` (sse.go:185), which is no message of FastGPT's and no JSON; the handler still
  reads, and waits for ever on its next message. The second flaw is that of `stream_disconnect`.
* "Sent" is logged (fastgpt.go:198) when the goroutine has taken `[DONE]`, which it may never write.
* An overlapping pair of requests enters a manager twice, gives two apps one name, and two subjects one name, the
  transaction of `UpdateSubject` notwithstanding; two overlapping uploads leave both lists. There are no unique indexes
  over live rows.
* The subject of an import is checked before its rows are inserted; an app that is deleted in between leaves rows
  that `GetSubjectLink` leaves out.
* In `core/mr`, a mapper that panics after the reducer has written leaves the caller in its deferred loop for ever,
  as the exception in `CallerAnswers` says. A reducer that writes a second value makes the caller panic in that loop
  (mapreducer.go:153); if it writes once more, nobody reads it and `done` is not closed, so that the send (369) blocks for
  ever (`Unread`), and with it those who wait for the reducer.
* A limit above 100 is replaced without a word (app.go:67), and a client that goes on by its own limit skips apps; a
  deletion between two pages hides a row; lists without an order (subjects) may show anything.
* The rows that one statement inserts (subject/dao/subject.go:131 to 140) have one `created_at`, and lists are ordered by
  it alone (subject.go:298 to 301, fastgpt/dao/fastgpt.go:72): Postgres may put them in another order for each page, and
  a client may miss some and see others twice though nobody writes. `Alone` sets such rows apart.
* The head of an image is written before its body is read (fastgpt.go:84): an image that breaks off is a 200 with a
  day of caching.
* Of several apps with one share, `HandleOutLinkInit` takes the one with the lowest key; nothing keeps shares unique.
* "Not possible to have empty error window" (breaker.go:181): panics and nil errors that are not accepted open the
  breaker without a reason (`EmptyWindowIsSilent`). The reason of a refused promise is added as well as marked.
* `updateOffset` reads the clock twice (rollingwindow.go:81, 93); an interval that ends in between is not counted, and
  events stay for one more (`swallowed`).
* An error of `net.Listen` is only logged (server.go:158), health is set to true (186), and then the multiplexer
  panics. A signal before `signal.Notify` (190) ends the process at once, health or not; one that comes before the
  HTTP server is assigned panics at 211. The health service is never registered, and no module's `Stop` is called.
* A second notification of shutdown listeners counts calls again: `sync.WaitGroup` stores a counter below zero before it
  panics, the panic is recovered (systemx/shutdown.go:81), and whoever waits then (87) blocks for ever though nobody is
  owed a call, or, if one more listener has been counted by then, goes on at once without that one's call. `WaitedMeansCalled` and
  `CountsTheOwed` hold for one notification only. A waiter that has been woken panics if another listener is counted
  before it runs. A listener that registers another while it is called blocks on the lock that its notification holds. Nothing in the
  program adds listeners or calls `gracefulStop`.
* After a panic of its owner a waiter of `SingleFlight` gets nil and no error, which `GetResource` turns into a panic of
  the waiter. A creation that ends after `Close` panics and leaves its resource open, with nobody who has it
  (`late`). An `Inject` after `Close` panics too, and as it does not defer the unlocking (resourcemanager.go:72 to 76), the lock
  is held for ever: owners of calls block, and those who wait for them (`locked`). `Inject` over a key that has a resource
  drops that one without closing it (`ousted`).
* Two racing additions of one node (consistenthash.go:67) give it twice its replicas, and its removal leaves keys that
  lead to nothing: `Get` then finds no node. A replica is hashed as the node's name and its index
  without a separator (79, 137): replica 11 of `node1` is hashed as replica 1 of `node11`. A removal takes a key for each replica a
  node could have, whether it has it or not, and so takes keys of the other node (`robbed`): values move between nodes that
  stay, and when no key is left `Get` divides by zero (110) though the ring is not empty.
* A struct with an environment value is an error (unmarshaler.go:686), and so is one that is absent and has a default
  (799), although `structValueRequired` takes a default for enough (utils.go:207): `Refuses` sets this apart.
* An environment value for an int64 is read as a duration (unmarshaler.go:676), whose type cannot be set; in the model
  numbers are of other kinds.
* A field that depends on another loses its range and its inheritance when the other is there (fieldoptions.go:105);
  defaults are not checked against ranges or options. Entries that an inherited map adds are written to the map of
  the caller (valuer.go), which is left out.

## 7. Not modelled

* `core/store`, `core/logx`, configuration, commands and generators: drivers, wrappers and printing, whose behaviour
  does not depend on the order of steps, or depends on queues outside the repository. A reload of the configuration
  replaces it while others read it (config.go:34); what they may see is not defined by the code.
* `frontend/`: one browser. To the server it is a client that may ask for anything at any time, leave at any time, and
  read lists page by page; this is how the models take it.
* Parsing of spreadsheets, requests and struct tags: their results are inputs.
* In `Mapping`: slices, maps, durations, text unmarshallers, dotted keys, the caches. In `KeywordTrie`: masking.
* The helpers of `stringx`, `mathx`, `langx`, `errorx`, `iox` and the like, a few lines each and without state.
* Postgres, the provider, FastGPT, net/http and browsers beyond what section 1 says; the definitions that stand for
  them are marked external in `PROJECT.json`.

## 8. Plan

Done, in this order: the cache with its abstraction, login, administration, enrolment, streaming, map-reduce; then the
proxied requests, subjects, links and lists, the breaker over its window, the server and its listeners, and the
library: resources, ring, trie, mapping. Then the theorems: types and the first safety properties; the refinement of the
cache; every other safety property of the passing runs; and the safety of the shutdown listeners. What is left is a type
invariant of `Mapping` and of `KeywordTrie` as a theorem of its own; what they would say is proved on the way, in `Filled` and
`TypesAre`, and in `TrieData`.
