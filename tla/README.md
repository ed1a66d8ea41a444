# A TLA+ model of the Datorium Go client

`datorium-client-go` is a client library for DatoriumDB, a document database whose
collections are sharded over several servers.  An application holds one `Client` and
calls it from many goroutines.  The client keeps one cached *establishment document*
(who leads and who serves each shard slot, and the collection schemas), routes each
command with it, and refreshes it when a server answers `wrongMachine`.

The library holds no lock across a request and starts a goroutine of its own only to write
the body of an upload; what is hard about it is what several callers do to the shared cache
between one another's steps, what becomes of a POST whose answer never came, what the
goroutine of an upload does after its attempt was answered, what a download that breaks
leaves in the caller's writer, and what an application may do with an item it read long ago.
The modules here model that, TLC checks them on small instances, and TLAPS proves the main results for
every instance.

## 1. Inventory

| Part | Source | State | Operations | Hard behaviour | Correct when |
|---|---|---|---|---|---|
| Routed command and transport | `command.go`, `client.go` | none shared; per call: hop, try, body reader | `Patch`, `Delete`, `Read`, `Search`, through `executeRouted`, `postCommand`, `doJSON`, `doJSONOnce` | bounces, retries, lost and late answers, cancellation | executed at most once; the result tells the truth about execution; returns |
| Establishment cache | `establish.go`, `client.go` | the cached pointer | `Establish`, `ensureEstablished`, `establishmentBase`, `CachedEstablishment` | concurrent fetches stored in the order they finish | never nil again; a stale store does not make a command fail |
| Shard map validation | `establish.go`, `shard/shard.go` | two loops over 256 slots | `parseEstablishment`, `ValidateFullCoverage`, `AssignmentForSlot` | random map order, slot 0xFF | accepts exactly the partitions of the slots |
| Routing | `routing.go`, `search.go` | none | `routeDocument`, `routeSearch`, `pickReadMember`, `rewriteURL` | random map order, missing members and URLs | one route per command |
| Catalog | `collection.go`, `collection_client.go`, `admin.go` | the cache; a bound schema | `Establish` with collections, `Bind`, `Schema`, `EnsureCollection`, `EnsureSearch`, `DeleteSearch` | a request and a refresh that are not atomic; a cache read twice | what is reported is what the cache holds |
| Create and its verification | `create_verify.go`, `crud.go` | none | `Create`, `CreateDoc` | an unanswered create, then a read | success only for a document that exists |
| Version retry | `crud.go` | none | `PatchWithVersionRetry` | other writers between a read and a patch, twice | no update is lost |
| Reference resolution | `resolve.go`, `refs/refs.go` | the walk's `seen` and `out` | `ResolveRefsInSOT`, `ResolveDirectRef` | cycles, sharing, random order of the fields | each document once, within the depth |
| File upload | `files.go` | per attempt: a pipe and its goroutine; the caller's reader | `PutFile`, through `executeRoutedMultipart`, `doMultipartCommand`, `openUploadBody` | an upload bounced while its body is still written; a goroutine nobody waits for | what is stored is the file; the result tells the truth; the goroutines end |
| File download, listing | `files.go` | the caller's writer | `DownloadFile`, `DownloadFileRange`, `DownloadFileWithOptions`, `ListFiles`, `DeleteFile` | a copy that breaks after its prefix was written; another version after a bounce or a resumption; an ignored `Range`; an `OnResponse` that has passed a response on | a success wrote what its metadata describes; a resumed file is one version |
| Typed documents, patches | `collection_client.go`, `crud.go` | a number per binding; items and patches, kept by the application | `CreateDoc`, `GetDoc`, `CreatePatchFromChanges`, `CreatePatch`, `PatchDoc`, `DeleteDoc` | items and patches kept for long, or used with another binding; migrated documents; databases that are copies of each other; the version a write reports | an edit takes effect on what it was computed for |
| Envelope and errors | `envelope.go`, `errors.go` | none | `DecodeResult`, `appErrorFromResult` | | |
| Text and tools | `searchpath/`, `schema_formats.go`, `frontpage.go`, `internal/`, `cmd/` | none | | | |

How they interact: `Patch`, `Read`, ... ask the cache for a document (`ensureEstablished`,
which calls `Establish` on a nil cache), resolve a route in it (`routeDocument`,
`routeSearch`), and hand both to `executeRouted`.  That posts the command; on
`wrongMachine` it calls `Establish`, reads the cache **again**, and resolves again.
`Establish` fetches, parses (`parseEstablishment`, `ValidateFullCoverage`), validates the
declared catalog and stores.  `Bind` and the admin commands go through the same
`Establish` and the same cache.  `Create`, `PatchWithVersionRetry` and `ResolveRefsInSOT`
are sequences of routed commands.

The hazards of this code, each with its line and the properties that cover it, are listed
in `PROJECT.json` under `hazards`.

## 2. Modules

```
ShardRange ── ShardMap ── MCShardMap                    EstablishCache ── Catalog ── MCCatalog
     │            └────── ShardMapProofs                      │              └── CatalogProofs
  Routing ─────────────────────────────── RoutedCommand ──────┘
                                            │  │  └ implements CommandContract
                                            │  └─── RoutedCommandProofs
                                     MCRoutedCommand

DocumentWrites ─┬─ DocumentWritesProofs     FileTransfer ─┬─ FileUpload ─┬─ FileUploadProofs
                ├─ MCDocuments                            │              ├─ MCFiles
TypedDocuments ─┴─ TypedDocumentsProofs                   └─ FileDownload┴─ FileDownloadProofs
                                                 (FileUpload also implements CommandContract)
ResolveRefs ── ResolveRefsProofs
```

**ShardRange** — keys of the shard map, ranges, and `Partition`, the definition of a
valid map.  A key is the sequence of the slots it spells, so two keys can denote one range
("05" and "05-05") and a malformed one exists.

**Routing** — the route resolvers as operators on an establishment document.
`AssignmentForSlot` ranges over a Go map, so `AssignmentsFor` is the *set* of assignments
it may return and `Routes` the set of URLs.  `NoURL` stands for a resolver's error.
A document's CRC32 slot is abstracted to a slot carried by the command.

**ShardMap** — the end of `parseEstablishment` and the loops of `ValidateFullCoverage`,
step by step: `ParseKey`/`RefuseKey` walk the map in any order, `Mark` is the body of the
inner loop, `NextRange` the outer one, `Scan` the last loop; `Lookup` is
`AssignmentForSlot`, in any order each time.

**EstablishCache** — the cached pointer and a fetch in three steps of its caller (`Ask`,
`Served`, then `Store` or `Discard`).  Documents are numbered in order of publication;
`Store` writes whatever was fetched.

**RoutedCommand** — one call per caller from `Begin` to its return.  `pc` is the place in
the code: `establish` (inside `Establish`), `reread` (the cache is about to be read
again), `send` and `wait` (inside `doJSONOnce`, before and after the request is written),
`backoff` (`doJSON`'s timer).  `attempt` and `try` are the two loop counters.  `body` is
whether the `bytes.Reader` still holds the command: `postCommand` makes a reader for each
hop, `doJSON` reuses it for each try.  `wire` holds the POSTs that no server has served:
giving up on an answer does not remove one, so a late execution is a behaviour of the
model.  Servers enforce a document they have adopted (`adopted`), which lags behind the
published one (`live`).  What servers do is the module's assumption about them: they
accept what their document assigns to them, may refuse anything, may answer with an HTTP
error after or without executing, and find no command in an empty body.

**CommandContract** — the abstract specification of a call: success means executed, a refusal
means never executed, an error means unknown.  It does not count executions: `AtMostOnce` does.

**Catalog** — `Establish`, `Bind`, `Schema` and the three admin calls by several callers, over
`EstablishCache`; a document is reduced to the schema version of each collection and the set
of searches.  An admin call is a request that a server executes at some time, executed or not
when its answer is lost, and then the same `Establish` as everyone's; `Schema` is a request
and then a look at the cache, which it takes not to be nil (the outcome `"panic"` is what a
nil cache would be).  The ghost `applied` is the position at which a server executed the
caller's command, which is what "the cache shows it" is measured against.

**DocumentWrites** — `Create` and `PatchWithVersionRetry` on one document, built on commands
that keep `CommandContract`.  `log` is the sequence of writes that took effect, a version
is a position in it (the database never gives two writes one version), and reads may come
from a `replica` that lags.

**TypedDocuments** — the calls of a `CollectionClient` through several bindings: of a
collection, of two schema versions of it, of clients of two databases that hold the same ids.
`Descriptors` says what each binding was made of.  An item is what `itemFromResult` keeps
(binding, version, marker, original content), a patch what `CollectionPatch` keeps.  The
application may keep either for ever and edit it in any way; since `history` only grows and a
read may be served by a replica that lags, all that it can have kept is what it could read
now, and so `Items` and `Patches` are operators on `history` and not variables.  Which of them
a call may use is the code's decision: `RequireItem`, `RequireItemMeta`, `PatchDoc`'s own two
comparisons.  The database keeps the version and the marker; a patch computed for one content
and applied to another gives `Mixed`, which is what the checks are there to prevent.

**ResolveRefs** — the recursion of `ResolveRefsInSOT` with its stack made explicit.

**FileTransfer** — the constants of both transfers: the length of a file in chunks and the
budget of bounces.

**FileUpload** — `PutFile` and one goroutine for each attempt.  `pc` is where the call is
(`prepare`: the goroutine is started, the request not yet made and its token not yet fetched,
either of which may fail; `wait`: in `http.Client.Do`;
`reroute`: bounced).  `writer[a]` is where attempt `a`'s goroutine is: the command part,
`openUploadBody`, then `io.Copy` between a `Read` and a `Write`, then the last boundary.
`conn[a]` is the request as `net/http` sees it: the pipe is read while it is `open`, maybe
still while it is `released` (the response body is closed), and no more once it is `closed`.
`Reader(a)` is one shared reader for a seeker and one of its own with `Reopen`.  The module
assumes of a server that it answers once, at any time, stores only a body that came to its
end, and stores nothing that it bounces or refuses.

**FileDownload** — one caller that goes on downloading one file to one writer.  `stage` is
where the call is: `send`, `wait` (in `http.Client.Do`), `copy` (`io.Copy`, chunk by chunk),
`bounced` (inside `Establish` and the resolver).  A server may answer with any version of the
file, with the range or with the complete file, with an envelope under any status, or not at
all; `BreakCopy` is an error of the connection or of the writer anywhere in the body.  What
makes an answer a file (`IsFile`) and what makes it an error (`IsEnvelope`) are the code's two
tests.  The caller is either *plain*, with any range, or *resuming*: it asks for what its
writer lacks, and its `OnResponse` refuses what does not continue it (`docs/files.md:32`:
resumable reads, and a callback before the first byte is written).  `ListFiles` and `DeleteFile` are routed
commands, modelled by `RoutedCommand`.

**MCRoutedCommand**, **MCShardMap**, **MCCatalog**, **MCDocuments** and **MCFiles** hold the small
instances.  The last two each put two models that share nothing side by side: a behaviour is
one of the first or one of the second, and the other one stays in an initial state.

A definition named `XyzSomething` under the comment *Mutant of Xyz* is a plausible bug; it
is not part of the specification.  Each property has one that breaks it.

## 3. Runs

| Run | Checks | Instance |
|---|---|---|
| `routed_once` | `AtMostOnce`, `RoutesDeterministic`, types | 1 caller with every kind of command; 4 documents: every slot on one server, then overlapping ranges, then a move, then one with no read member; 2 bounces, 1 retry |
| `routed_contract` | `ImplementsContract`, `SettledNeverWrongMachine`, `Termination` | 2 callers, patch, the slot moves away and back, one member behind an unreachable URL that a rewrite by name fixes, 2 bounces, no transport retry |
| `shard_map` | `AcceptedIsPartition`, `RejectedIsNot`, `LookupStable`, `Decides` | every map of at most 3 keys over 3 slots, malformed keys and double spellings included |
| `catalog` | `EnsureVisibleUnlessRaced`, `BoundUnlessRaced`, `NeverNilAgain`, `Termination` | 3 callers with any of 7 calls, versions 0 to 2, 3 documents, two initial ones |
| `document_writes`, raw calls | `NoLostUpdate`, `MismatchMeansTwoRaces`, `CreateSuccessIsReal`, `Termination` | 2 callers, 2 writes or deletes by others, a lagging replica |
| `document_writes`, typed calls | `EditsLandWhole`, `MarkersAgree`, `StaleMeansRace`, types | 2 calls, 3 bindings of 2 schema versions and 2 databases, 2 contents, 2 writes or migrations by others |
| `file_upload`, uploads | `StoredIsFile`, `ImplementsContract`, `WritersEnd` | seeker or `Reopen`, 3 chunks, 1 bounce and so 2 attempts |
| `file_upload`, downloads | `SuccessIsWhole`, `ResumesOneVersion`, `RefusalsUnwritten`, `RangesSelect`, `CommitIsFinal`, `DownloadEnds` | 3 calls to one writer, 3 chunks, 2 versions, 9 ranges, 1 bounce |
| `resolve_refs` | `ReadOnce`, `DepthBounded`, `CompleteWhenDeep` | every graph over 3 documents, every depth to 3 |

Why the bounds are enough to see the interesting cases:

- *One caller* is enough for `AtMostOnce`: what executes a command twice is another POST of
  the same call, and other callers act on it only through the cache, which `Publish` and
  `Adopt` disturb as much as they do.  The theorem says it for every number; two callers are
  in `routed_contract`.
- *Two callers* are enough for one to overwrite the cache while the other is between its
  `Establish` and its second look at the cache; the catalog needs a *third*, since a stale
  fetch, an admin command and a `Bind` are three different calls.
- *Documents.*  With a move there and back, a caller can hold document 1, fetch 2 and be
  set back to 1 while 3 is live.  `SettledNeverWrongMachine` holds for two callers with a
  budget of 2 bounces and is violated with a budget of 1 (set `WmRetries = 1` in
  `routed_contract.cfg`): the other caller has one older fetch to store after the refresh,
  which costs one bounce.  Each further concurrent caller may cost one more; the theorem
  says that it costs no more than that, and needs as many bounces as there are calls.
- *Slots.*  Two slots give a document with one range and one with two; the loops of the
  validation need three for a gap in the middle, and are proved for every number.
- *One retry* is one more POST of the same call than its hop needs, so that one may be
  served late and another in time.
- *Two attempts* of an upload are what it takes to share a reader; *three chunks* let the
  goroutine of the first one take a chunk from the beginning, the middle or the end of the
  second's.  The theorem says it for every number of both.
- *Three downloads* let one break, one continue and one finish; *two versions* are what a
  writer can mix.  The nine ranges are the four forms with their edges: an empty suffix, a
  suffix longer than the file, a start beyond its end, an end beyond it, an end before the start.
- *Three callers of the catalog* are numbered, and only the sequences of calls in order are
  initial: the others are the same up to the callers' names.
- *Two typed calls* (numbered, like the contents; the run explores behaviours in which they
  first occur in order, the others are these up to names) are a write and one that uses the version it reported, or two patches of
  one item; *three bindings* are all the ways in which two can differ (the schema version, the
  database) with the third equal to each in the other respect; two writes by others are a
  creation and a migration.
- *`MaxOther = 2`*: two races are what one version retry cannot survive.
- `MaxPublished`, `MaxRival`, `MaxDownloads`, `MaxVersion`, `MaxOther`, `MaxSchema`, `MaxDepth` bound the environment;
  the retry budgets are the code's own.

Deadlock is not checked (`CHECK_DEADLOCK FALSE`) because every caller makes one call and
the servers eventually have nothing left to do.  That nothing gets stuck before that is
what `Termination` and `Decides` say.

**Fairness.**  `WF(Proceed(c))` for each call: a goroutine that runs is scheduled, the HTTP
client that `New` makes has a timeout (30 s), so that an exchange ends with an answer or
with `GiveUp`, and the backoff and the verify delay are timers.  No fairness is assumed of
servers, of publications, of replication or of callers beginning.  (A caller that supplies
an `http.Client` without a timeout, and a context without a deadline, gives this up.)
`Decides` needs only that the loop runs.  For an upload, `WF` also holds of the steps of a
goroutine that do not depend on anyone reading its pipe (`Advance`: a server that does not read
may hold up the others) and of `Hangup`: `net/http` documents that the transport closes the body of
every request it was given, errors included, and that closing is the pipe reader's end.
`WritersEnd` says that a goroutine ends unless it was `Abandoned`: its attempt ended before
`http.Client.Do` (`files.go:502`) took the pipe over, because no request can be made from the
base URL (`files.go:490`; the URLs of the establishment document are not validated) or because
the token source failed (`files.go:497`).  Nobody reads or closes the pipe then, and such a
goroutine waits for ever.  The property says that these two are the only ways to leave one
behind, and that a call leaves no more than one, that of its last attempt.  A download needs the same of its caller (`DownloadFairness`): it is
scheduled, and the client's timeout ends its waits, the copy of the body included, since
Go's timeout covers the body.

### What the violated runs show

Each of these runs checks one sentence of the repository against the code; the counterexample
is the shortest one TLC finds.

| Run | The repository says | The code does |
|---|---|---|
| `routed_retry_bytes` | retries keep the same bytes (`collection_client.go:132`, `tech-docs/ARCHITECTURE.md:51`) | `doJSON` hands the same reader to every try (`client.go:153`); the second POST is empty |
| `catalog_bound` | `Bind` validates the version, then compiles *the* schema (`collection_client.go:68`) | it validates what it fetched and compiles what the cache holds by then |
| `document_negative` | a negative verify delay disables the follow-up read (`client.go:60`) | it makes the read immediate |
| `file_upload_seeker` | with an `io.ReadSeeker` "retries can resend the same bytes" (`files.go:86`) | the next attempt seeks and reads the reader (`files.go:481`) that the goroutine of the bounced one may still be reading; chunks go missing and the upload succeeds |
| `resolve_depth` | direct references are resolved up to `maxDepth` (`resolve.go:23`) | a document first met at the last level is not walked when met again nearer, so the result depends on map order |

`AtMostOnce` and `routed_retry_bytes` belong together.  A try whose answer was lost may
have been executed; that the next try sends nothing is what keeps the client from executing
the command twice (the mutant `RetryRewound` rewinds the reader and does).  Rewinding the
reader would need the server's deduplication of `operationId`, which is outside this
repository and not assumed here.  It is also why `ImplementsContract` is claimed without
transport retries: with them, the refusal of the empty request may be reported for a
command that was executed.

Four more disagreements showed while modelling, and have no run of their own:

- `command.go:98` speaks of resolving "from a fresh establishment document"; `executeRouted`
  re-reads the shared cache (`command.go:132`), which may have been set back.
  `SettledNeverWrongMachine` says what remains true.
- `docs/client.md:130` says admin calls refresh the cache so that later `Bind` and routing
  see the new catalog; a slower `Establish` may set it back (`client.go:252`).
  `EnsureVisibleUnlessRaced` says what remains true.
- `docs/search.md:34` says that a search without segments may bounce "until it lands
  correctly"; its resolver names the same server each time (`search.go:59`).
- `admin.go:68` reports "admin command succeeded but establish refresh failed" without
  having looked at whether the command was accepted.

## 4. Proofs

The proofs hold for any sets of callers, servers and documents, any number of slots, and
any retry budgets, under the named assumptions of the modules (`CommandAssumption`,
`RoutingAssumption`, `MaxSlotAssumption`, `ShardMapsAssumption`, `CatalogAssumption`,
`DocumentAssumption`, `ResolveAssumption`, `TypedAssumption`, `TransferAssumption`,
`DownloadAssumption`), which TLC evaluates in the runs.  Two theorems have a hypothesis of
their own: `ContractImplemented` of `RoutedCommandProofs` is about `TrRetries = 0`, and
`SettledNeverWrongMachineCorrect` about no more calls than bounces.  The inductive
invariants were model-checked on small instances before they were proved.

**RoutedCommandProofs** (`TypeCorrect`, `AtMostOnceCorrect`, `ContractImplemented`,
`RoutesDeterministicCorrect`, `SettledNeverWrongMachineCorrect`).  `AtMostOnce` alone is not inductive: it says nothing of the
POSTs still on the wire.  The invariant adds `WireInv` (of one call, at most one unserved
POST has a body, and then nothing was executed yet) and `FlightInv` (while the reader holds
the body, or a new reader may still be made, the command is *untouched*: not executed and
not on the wire with a body).  A new reader is made after a bounce only, and a bounce is the
answer of a server that did not execute; that is the step where the argument needs the
model of the servers.  `CallShape` relates `pc` to the counters, for the types.  For
`ContractImplemented`, with `TrRetries = 0`, a further invariant ties an answer to what was
executed; each action is then a step of `CommandContract` or a stutter.
`RoutesDeterministic` follows from: a cached document passed `WellFormed`, a partition gives
a slot one range, and resolvers are functions of an assignment.

`SettledNeverWrongMachineCorrect` is a count.  Once the topology has settled (`Settled`, which
lasts), a document older than the last one can only be in the cache already or in the hands of
a call that fetched it before (`Holders`), and each of those caches it at most once.  So
`Stale(c)`, the hops of a call and the holders left, never exceeds the number of calls as long
as the call is not routed by the last document (`CalmInv`): a hop adds one, but after the
refresh the cache is out of date only if a holder has spent its document meanwhile.  When the
route is that of the last document, the server accepts (`ServeCalm`, with `TargetInv`: the POSTs
of one hop all go to one server).  A `wrongMachine` at the end of the budget therefore means
more calls than bounces.  `WrongMachineRetries` defaults to 3: with four concurrent calls on one
client, three of them slow to store what they fetched before a move, the fourth may report
`wrongMachine` for a topology that no longer changes.

**ShardMapProofs** (`TypeCorrect`, `AcceptedIsPartitionCorrect`, `RejectedIsNotCorrect`,
`LookupStableCorrect`).  The invariant says what the array `covered` means at each point of
the loops: a slot is marked iff exactly one range has reached it (`CoverInv`); while
scanning, everything below `i` is covered (`ScanInv`).  A slot met a second time is then
in two different ranges, which is why a refused map is no partition.

**DocumentWritesProofs** (`TypeCorrect`, `NoLostUpdateCorrect`, `MismatchMeansTwoRacesCorrect`,
`CreateSuccessIsRealCorrect`).  The version a patch names
is the version it was computed from (`DetailInv`); that, and the database's own comparison
of versions, makes `NoLostUpdate` inductive, late patches included.  What the calls report
needs an invariant about the order of things (`ReportInv`): where a call can be and when it has
a write under way (`PhaseInv`); that a patch that reports a mismatch wrote nothing itself
(`OwnInv`), so that the writes it lost to are others'; that each mismatch is a write since the
last read, one before the second read and one after it (`RaceInv`), hence two different
positions of `log`; and that the version a create found or was given is one the document had
since the call began (`CreateInv`).

**CatalogProofs** (`TypeCorrect`, `NeverNilAgainCorrect`, `EnsureVisibleCorrect`,
`BoundUnlessRacedCorrect`).  What an admin call did is in the document published for it and in
every later one, unless a later admin call of the same collection or search undid it
(`EffectInv`; versions only grow); its refresh gets a document at least as late, and unless the
call *raced*, so is everything that is cached or about to be from its store on (`FreshInv`).  The
two together are `EnsureVisibleUnlessRaced`, and they need each other's halves: `ReplyInv` ties
the answer a call returns after its refresh to the position at which it was applied.  The proof
showed that the undoing `searchDelete` is always one of the *same* search, which the property now
says.  `ValidatedInv` is `BoundUnlessRaced` one step earlier: between its store and its read of
the cache, a `Bind` that did not race has the document it validated.  `FetchInv` says that a
fetch that got an answer holds a published document, never 0: that is why `NeverNilAgain`.

**ResolveRefsProofs** (`TypeCorrect`, `ReadOnceCorrect`, `DepthBoundedCorrect`,
`CompleteWhenDeepCorrect`), for every graph of references.  A document is read exactly once when it is marked and never
before (`ReadsInv`); a call of `walk` at depth k walks only documents within k references
(`FramesInv`), and so reads none beyond `maxDepth`.  `NothingMissed` says that what a walked
document refers to was read or is still pending, unless the depth cut it off; the stack is no
deeper than the number of documents read, so with a `maxDepth` of at least the number of
documents nothing is cut off before everything is read.  The rest is about `Within`, the
documents within k references as a recursive function: `WithinEquation` shows that it is the
function its equation describes, `WithinMonotone` that it grows, `WithinClosed` that it contains
what is closed under references.  The inductions these need are not over an operator: a set of
naturals with a counterexample in it has a least element (`LeastElement`, from the
well-foundedness of `<`), and `Induction` is that fact for sets.

**TypedDocumentsProofs** (`TypeCorrect`, `EditsLandWholeCorrect`, `MarkersAgreeCorrect`).
Neither property is inductive, for a patch lands long after its checks.  The invariant adds
`RequestInv`: the command of a call is *based*, that is, the write whose version a patch names
is in the history of the place the patch is sent to, with the content and the marker that
the patch was computed for.  `RecordExtends` and `RecordStep` say that histories only
grow, so that a based command remains so whatever others write; `Identity` is what puts the
item's place and the patch's place together, and `RequireItemMeta` the markers.  When the
database finds the version current, the last write is that one.

`StaleMeansRaceCorrect` builds on that invariant: a call writes at most once (`AuthorInv`), a document is created only where there is none (`CreateInv`), and
what a call reports is its own write, or for a create a document that was found (`Own`,
`Reported`).  The interesting case is a create that found an older document after a transport
error and is executed later still: its entry may be the newer one that makes the version stale,
but a document can be created again only after somebody deleted the one that was found.

**FileDownloadProofs** (`TypeCorrect`, `SuccessIsWholeCorrect`, `ResumesOneVersionCorrect`,
`RefusalsUnwrittenCorrect`, `RangesSelectCorrect`, `CommitIsFinalCorrect`).  The invariant says
that until a call copies it has written nothing and not consulted `OnResponse` (`CallInv`), and
then that what it wrote is the beginning of the answered body (`CopyInv`).  For a resuming
caller one version accounts for the whole writer (`OneVersion`); `AcceptedContinues`, that a
partial answer to `bytes=n-` begins at `n` and goes to the end, is where the check of the status
is needed, and the chunk at the beginning of the writer where that of the version is.

**FileUploadProofs** (`TypeCorrect`, `StoredIsFileCorrect`, `ContractImplemented`).
`StoredIsFile` says nothing until a body has ended, so the invariant says what each goroutine
has sent so far: what it sent is the beginning of the file up to the position of its reader
(`SentInv`), which holds as long as it is *alone* on that reader (`AloneInv`): always with
`Reopen`, and with a seeker as long as no body was opened while another goroutine ran.
`CallInv` (every attempt but the last was bounced, later ones do not exist) and `AnswerInv`
(what an answer says of the database) carry the refinement of `CommandContract`.

Only model-checked: liveness (`Termination`, `Decides`, `WritersEnd`, `DownloadEnds`), which is
beyond the prover.  Every safety property of a passing run is a theorem.

## 5. Not modelled

- How a bounced upload or download is rerouted: it succeeds or fails, `RoutedCommand` models how.  Reads
  of the shared reader are atomic; a reader that is not safe for two goroutines may do worse.
- Downloads: `net/http` reports a body that ends before its announced length as an error of
  the copy; a server streams one version in one answer and honours a range as RFC 9110 says
  or ignores it; an error of the caller's own writer is reported as a transport error, as the
  code does; a range number too large for `ParseInt` and other malformed headers are left out.
- Typed documents: the diff and the schema check of a patch are `ojson`'s.  Every document
  has a `$` (the code skips the marker check of one without), a migration gives a document a
  new `#`, an item's exported `Meta` is read and not written by the application, and the
  version given to `DeleteDoc`, which checks no binding, is one of that document.
- `Health` and `Ready`: one GET each.
- JSON, envelopes, ULIDs, CRC32, path hashing, reference syntax: the models start from
  their outcome (an answer's code, a slot, a reference).  The diffs and schemas are the
  `ojson` library's.
- A negative `Config.TransportRetries`: the models take a natural number.  With a negative one
  every `Establish` fails on the empty answer, so that nothing is routed.
- An assignment whose base URL is only slashes, which `rewriteURL` trims to nothing.
- The server's deduplication by `operationId`: not assumed.
- Tokens, tools, the front page, tests.

## 6. Plan

1. Proofs: that the models of `RoutedCommand` with retries implement a weaker contract (what a
   refusal still means when a POST was sent again).
2. The transport's edges: the status and size checks of `doJSONOnce` as a function of the
   answer.
3. `DocumentWrites` and `TypedDocuments` over `CommandContract` by instantiation.
