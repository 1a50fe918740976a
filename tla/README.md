# TLA+ models of go-crud

go-crud turns a Go type and a repository into REST, RPC and GraphQL endpoints.
This directory holds TLA+ specifications of the parts of it whose correctness
depends on what happens in which order: the schema registry, the refresher that
regenerates GraphQL artifacts when the registry changes, the request pipeline
of a controller, list queries with their field policies, and two parts of the
relationships example: its subscriptions, from the event bus to the WebSocket,
and its data loaders. TLC checks
them on small instances (`tlc -config X.cfg MCX.tla`), TLAPS proves what is
said below for every instance (`tlapm XProofs.tla`). `PROJECT.json`
lists components, runs, faults, the source lines behind each definition,
findings, hazards and theorems.

## Inventory

What follows was read from the source. "Modelled" names the module.

| Part | State | Operations | Interacts with | Hard about it | Modelled |
|---|---|---|---|---|---|
| Schema registry, `schema_registry.go` | `entries`, `listeners`, one `RWMutex`, one instance per process | register an entry or a document, add a listener, list, get, export | controllers publish when routes are registered; listeners run inside `upsert`, under the write lock | order of notification, listeners that call back, cloning through JSON | `SchemaRegistry` |
| Refresher, `gql/refresh/refresh.go` | `running`, `pending`, `timer` under `mu`; a context | `Trigger`, `flush`, `run`, `finish` | listener of the registry; starts the generator | four kinds of goroutine, a timer that is Reset, cancellation tested outside the lock, reruns | `Refresher`, `RefreshContract` |
| Generator, `gql/internal/generator`, `metadata`, `writer` | files on disk | load schemas, merge them by name, write files, run gqlgen | reads the registry, is run by the refresher | reads late, in the order of a map; may fail half way through its files | `SchemaRefresh` |
| Templates, formatter, overlay, hooks of the generator | none | text from a document | generator | nothing a golden file does not show | no |
| Controller, `controller.go` | configuration only; a request is a goroutine | `Show`, `Index`, create, update and delete, single and bulk | guard, policy provider, service, repository, activity hooks | look up, then write; merge; errors at each of a dozen points; policies that change records in place | `Controller`; `Index` in `ListQuery` |
| Service layers, `service_factory.go`, `service.go` | none | the same operations, wrapped: field policy, scope guard, hooks, validation, virtual fields, repository | controller above, repository below | order of the layers, an After hook that fails after the write | `Controller` (the default composition) |
| RPC operations, `controller_ops.go`, `rpc/` | none | the controller's operations by message | service layers | the same, with ids and bodies decoded at other points | `Controller` (`ByMessage`) |
| Field policy, `field_policy.go` | none | resolve Allow, Deny, Mask; apply to a record, apply to a query | controller, service, query builder | two pieces of code that apply one policy; names in two spellings | `ListQuery`; its effect on writes, in `Controller` |
| Scope guard, `scope_guard.go`, `request_context.go` | values in a context | filters, actors | controller, service | empty filters | its effect, in `Controller` |
| Activity, `pkg/activity`, `notification.go` | none | emit to hooks | controller | which outcome emits what | which events a request emits, in `Controller` |
| Virtual fields, `virtual_fields.go`, `merge_virtual.go` | none | move values in and out of a map, merge maps | hooks, update | who runs the hooks; zero values; body against looked-up value; a merge that panics on some values | `Controller` |
| Query builder, pagination, `query*.go`, `pagination.go`, `pkg/go-query-bun` | caches per type | query string to criteria, normalise offset and page | controller | second query of `Index`, no snapshot, rounding | `ListQuery` (not the caches, not the SQL) |
| Relation descriptors, `relation_descriptor.go` | cache per type | build, invalidate | query builder | check-then-act on a `sync.Map` | no |
| Custom actions, adapters, errors, OpenAPI and admin metadata | none | formatting, configuration, routing | HTTP | nothing concurrent | no |
| `examples/relationships-gql`: event bus, resolvers, WebSocket | subscribers, channels, operations by id | publish, subscribe, close; start, stop, terminate | mutations publish, subscriptions listen, a connection carries them | close against unsubscribe, dropped events, ids used again, five goroutines per subscription | `EventBus`, `GraphQLSocket` |
| `examples/relationships-gql`: data loaders | a cache per relation, each under its mutex | load by key, fetch, store | fields of a query, resolved side by side; the services below | query between looking and storing, one loader below another, how long a loader lives | `DataLoader` |

## Modules

    RefreshContract       what a refresher promises                        (abstract)
    Refresher             gql/refresh, refines RefreshContract
    RefresherProofs       theorems about Refresher
    RegistryContract      what a schema registry promises                  (abstract)
    SchemaRegistry        schema_registry.go, refines RegistryContract
    SchemaRegistryProofs  theorems about SchemaRegistry
    SchemaRefresh         Refresher and SchemaRegistry composed, with generator and files
    SchemaRefreshProofs   theorems about SchemaRefresh
    ControllerContract    what a controller promises a repository's owner  (abstract)
    Controller            controller.go and controller_ops.go over the default service
                          layers, refines ControllerContract
    ControllerProofs      theorems about Controller
    ListQuery             Index, field_policy.go, pagination.go
    ListQueryProofs       theorems about ListQuery
    EventBus              the event bus of the example, and mutations that publish
    EventBusProofs        theorems about EventBus
    GraphQLSocket         a WebSocket connection and its subscriptions, refines EventBus
    GraphQLSocketProofs   theorems about GraphQLSocket
    DataLoader            the generated loaders of the example and the fields that use them
    DataLoaderProofs      theorems about DataLoader
    MC*                   the instances that TLC checks; they extend the theorems of their
                          component, so that TLC can check its inductive invariants too

Each component module has a section "Faults": copies of an action with one
plausible bug. They are part of no specification. For each property
`PROJECT.json` names one of them, and TLC finds the property violated when the
fault takes the place of the action.

### Refresher

A critical section of `r.mu` calls nothing that blocks, so it is one action;
the tests of the context before the lock are actions of their own
(`TriggerEnter`, `FlushEnter`, `RunEnter`), so that a cancellation or another
goroutine may come in between. `trig` says where each caller of `Trigger` is,
`pc` where each goroutine that runs `flush` or `run` is. `running` and `pending`
are the fields of the same names. `timer` is off, armed, or due: a timer that
has elapsed and whose function has not started may still be Reset. `flush`
turns into `run` in its own goroutine; in `finish`, `go r.run()` replaces the
goroutine that ends. `dirty` is a history variable: a change has been announced
by `Trigger`, and no generator has read the schemas since. The generator is
taken to read the schemas as the first thing it does, which is what `Generate`
does (`loadSchemas`, generator.go:76).

`RefreshContract` says the same without timers and flags: changes are
announced; runs, one at a time, read them; none starts after cancellation. The
refinement maps the set of active runs to the goroutines that are about to call
or are inside the generator.

### SchemaRegistry

`Upsert`, `Notify` (once per listener) and `UpsertReturns` are the critical
section of `upsert`: `writer` holds the lock in between. Reads call nothing
under the lock and are one action. `view` records, per listener, what it has
been told, starting from what the registry held when it was added. A document
in `Unencodable` is one that `json.Marshal` refuses: `Cloned` turns it into no
document, as `cloneSchemaDocument` does. A listener in `Reentrant` calls the
registry; inside `upsert` it waits for a lock of its own goroutine for ever.

`RegistryContract` says the same without lock and calls: entries are announced
one after another, each to every listener there is, once; nobody reads the
registry or begins to listen in the middle of that. The refinement maps the
listeners still to be told to the rest of the loop in `upsert` (`Behind`).

### SchemaRefresh

The composition instantiates both modules on shared variables and conjoins their
actions: the listener that `RegisterSchemaRefresh` adds is `Trigger`, so
`TriggerStart` and `TriggerEnd` happen while the publisher holds the
registry's lock, and a generator run reads the registry through `ListSchemas`
and may wait there for a publisher. Schemas are listed in the order of a
map and merged by name, the later entry winning (`SchemasIn`); what a run has
made of them is `output`. It then writes `Steps`, one file per step, each in
place (`WriteFile`; a file written once is left alone when it is there), and may
fail before any of them. `files` is what is on disk, `failed` whether the last
run was reported to `OnError`. Only `Generate` without a metadata file and
without a schema package reads this registry; the other two are not modelled.

### Controller

A request is a record: where it is (`pc`), operation, ids, decoded bodies, the
records looked up (`seen`, as stored), the records worked on (`recs`), the ids
whose record it changed (`wrote`), the events it emitted and the kind of its
response. Requests share only `store`. Between two repository calls a
request touches nothing shared, so that stretch is one action:

| Action | Code |
|---|---|
| `Accept`, `Refuse`, `Admit` | the route; `resolveGuardContext` and `resolveFieldPolicy` |
| `Decode`, `DecodeFails` | `uuid.Parse`, the deserializer, `decodeDeleteBatch` |
| `AdmitMessage`, `MalformedId` | the same for a message: bodies come decoded, an update parses its id late |
| `Read`, `ReadFails` | `svc.Show` through policy, guard and hooks, then the merge; the loop of `UpdateBatch` takes one `Read` per record |
| `ReadPanics` | the same, and a merge of maps that does not return |
| `Write`, `WriteFails` | the write service: guard, Before hooks, validation, repository |
| `AfterHookFails`, `Respond` | After hooks; activity; the policy on the response |

What host code decides is a parameter: the owners visible per operation
(`Visible`, scope filter and row filter together), the fields masked and denied
per operation, the bodies that can be decoded. Each host call may also fail,
whenever it is made. `Merge` is mergo's: a zero field counts as left out. A
policy changes a record in place; the repository hands out copies. A repository
call is atomic, bulk ones included; an insert needs a free id; an update writes
zero fields or not (`omitZero`), as the repository chooses; an update or delete
of a record that has gone either fails or changes nothing.

A virtual field is a field without a column; `Backing` gives the key of the map
that keeps its value. A key is modelled as a field of its own, alone in its map.
`BeforeSave` and `AfterLoad` are the hooks that `attachVirtualFieldHooks` adds to
single operations and to reads; `MergeMaps` is what an update does to maps after
the merge. By then mergo has copied every key of the looked-up map into the
body's, so every key that the record has is met in both. In a map that merges
"shallow" the body's value replaces the record's. Any other map merges "deep"
(`Deep`), and `deepMergeValue` first tests the record's value with `IsNil`, which
panics unless the value is one that may be nil: `Mergeable` are those, lists here;
strings, numbers and booleans are not. `MapsPanic` is that test. A request that
panics (`ReadPanics`) stays at `"panicked"`: the handler has no `recover`, so it
neither writes nor reports nor answers, and what its server makes of that is the
host's.

Assumptions about the host: `T` is a pointer type, a bulk request names a record
once, row and column filters test one field (`Owner`), a map has no other keys
than those of virtual fields. Left out: option lists, maps within maps, two
strategies over one map, `PreserveVirtualKeys` set to false, read or write
services other than the default.

`ControllerContract` is the same system as the owner of the repository sees it,
without guards, policies, hooks and bodies: a request asks (`Ask`), finds
records in scope one by one (`Find`), changes the repository once at most
(`Change`) and is answered (`Answer`). A change touches only records that the
request names; an update or a delete by id comes after all of them were found,
and does not bring back one that has gone meanwhile; an insert stores all of
its records over none that exists; and an answer of success follows all of that.

### ListQuery

One request to `Index`, and others that insert and delete (`Change`) between any
two of its statements: `ReadRows` and `CountRows` are the two statements of the
repository's `List`, which no transaction holds together. `Resolve`, `Allows`
and `Show` are `buildResolvedFieldPolicy`, `allowsField` with `maskFor`, and
what `applyFieldPolicyToRecord` does to a field; names are spelt as the policy
spells them, and `Lower` is what `normalizePolicyField` makes of a name.
`Queryable` is what the query builder takes from a policy, so that filters on
other fields are dropped. `NormalOffset`, `LastPage` and `PageNumber` are
`normalizePagination`; when the offset has moved, `QueryAgain` asks for rows
once more. `since` is a history variable, the contents of the repository
since the request was accepted. `IndexWith` is the case without limit, offset
and filters.

### EventBus and GraphQLSocket

`EventBus` is one topic. `Subscribe`, `Unsubscribe` (the goroutine that waits for
the context of a subscription) and `Close` hold the lock and are one action each.
`Publish` holds the read lock over its loop, so `PublishEnter`, `Send` and
`PublishReturns` interleave with those of other mutations; `Unread` keeps
writers out meanwhile. `Send` to a channel whose slot is taken drops the
event. `shut` counts how often a channel was closed; a send on a closed channel
and a second close set `panicked`, after which nothing else is asked. `Write`
stores a version of the entity before it is published, by resolvers such as
`UpdateAuthor`.

`GraphQLSocket` uses the bus through `INSTANCE`. Per connection there is a reader
(`init`, then `run`) and `closeOnCancel`; per operation the goroutine
that `subscribe` starts, the forwarder of the resolver, and the
bus's goroutine. `active` is the table of cancel functions by id; the ids
are chosen by the client. Messages are actions of the reader: `InitAccepted`,
`InitRefused`, `Start`, `Stop`, `Terminate`, `ReadFails`. gqlgen, which hands
events from the forwarder to the operation and ends a stream when its context is
done, is external.

### DataLoader

A loader has one cache per relation; `LoadMany` looks into it under the mutex,
queries what is missing without it, and takes it again to store. The module has
the three loaders that lead to authors. `Load` is what a field resolver calls,
with the one key of its object; `FetchPivotLinks`, `Lookup`, `FetchAuthorByID`,
`Store` and `StoreGroup` are the steps of `fetchTagAuthors` with the
`AuthorByID.LoadMany` it calls; a field that loads one author begins at `Lookup`.
`FetchPublishingHouseAuthors` asks for authors by id, as the code does.
gqlgen resolves fields in goroutines of their own, so the steps of `Field`s
interleave, with each other and with writes to the database. Any query may fail. A row is a
version, 0 when it is not there or not in the scope of the request; a group is
sorted by id, so the map from ids to versions says all of it. `Operation` is the set of
operations a loader serves: one for a request, several for a WebSocket
connection. `pastRows` and `pastLinks` are history variables: what the
database held since each operation began. No request moves an author to
another house, and links change at the hands of other users of the database.

## Runs

| Run | Instance | Shows |
|---|---|---|
| `refresher` | 2 callers, 3 goroutines, with and without debounce | one owner of the running flag; no lost trigger; quiet after cancel; refinement; every change is read, at once or after a pause |
| `registry` | 2 clients, 1 resource, 2 documents, a plain and a reentrant listener | refinement of `RegistryContract`; listeners and readers agree with the entries; calls return unless a reentrant listener is registered |
| `schema_refresh` | 2 publishers, 2 goroutines, 2 resources, one of them described by the documents of both, 3 files, one of them written once | when nothing is in flight, the last run has read the registry as it is, and the files are of one reading unless it failed |
| `schema_refresh_live` | 1 publisher, 2 goroutines, 1 resource, 2 documents, 1 file | no circular wait; artifacts catch up |
| `controller` | 2 requests of any kind, one by message, 2 ids, 3 bodies, 4 initial contents, a virtual field in a map that merges shallow and one in a map that merges deep | refinement of `ControllerContract`; lookups before writes, audit, merge, virtual fields, no mask in storage |
| `controller_merge` | as `controller` | violation: an update of a record whose map holds a string panics |
| `controller_mask` | the same with a mask on reads | violation: the mask is stored |
| `controller_audit` | as `controller` | violation: refused writes emit nothing |
| `controller_virtual` | as `controller` | violation: bulk writes lose virtual fields |
| `list_query` | 4 ids, one hidden by the guard, 3 fields, limits 0 to 2, 5 offsets from -1 to 5, 5 policies, 2 changes meanwhile | answers are true of their time, pages are filled, plain policies are kept |
| `graphql_socket` | 2 operations on 2 ids, 2 mutations, 2 versions | no panic before `Close`, events in order, close reaches operations, mutations do not wait, nothing left behind |
| `data_loader` | 1 request, 2 fields, 2 authors with 2 versions, 1 tag, 1 house | answers were so during the request |

**Bounds.** Two callers are enough for one to be between its test of the context
and the lock while the other acts. Three goroutines allow a run, a flush that
waits for the lock and a timer that fires once more; what is beyond three is
covered by the proofs, which fix no number. `Goroutine` is a bound on how many
are alive at once: a start waits for a free identity. Two documents of
one resource suffice to see a listener or a generator keep the older one. With
two requests every pair of operations meets at every point, `MaxBatch` = 2
includes the empty, the single and the partial bulk request, and two ids
with two owners allow one record to be in scope and another to be out, or to
move between the two requests.

One publisher, one goroutine and one file less than these would hide a case of
`schema_refresh`: an entry stored while a run waits for the lock, a run that
reads while another trigger is noted, a file kept beside files that change. The
two resources whose documents describe one name make the order of the listing
matter. `list_query` has pages that are full, short and empty, offsets below,
inside, at the end of and beyond the count, filters that a policy drops, and two
changes, enough for one before the count, one after it, or both between two
statements. In `graphql_socket` two operations may share an id or not; two
mutations with two versions fill the one slot of a channel and drop an event.
In `data_loader` two fields may miss the same key and overwrite each other, or one
may find what the other has stored; with two authors a tag's group is partly
cached and partly fetched, and authors are renamed, deleted, linked and
unlinked between any two steps.
Each virtual field of the controller runs is stored or missing in the initial
records and given or left out in the bodies. The one whose map merges deep may be
a list, which an update can merge, or a string, which it cannot; both are in the
initial records and in the bodies, so an update may panic over what was there or
over what the other request has stored.

The runs of the registry, the controller, list queries, the socket and the data
loader disable TLC's deadlock check: a reentrant listener really wedges the
registry, and a request, a connection or a field that is over does nothing more.
In the other runs every reachable state has a successor.

**Fairness.** Go schedules runnable goroutines and `sync.Mutex` is starvation free, so each
goroutine's next step and each caller's critical section are weakly fair; a
generator run is taken to return; a timer that is left alone elapses and its
function is started. `Reset` takes a due timer back to armed, so weak fairness
does not make it fire under an endless stream of changes: `DebouncedRefresh`
asks for the changes to pause, and holds no earlier. A goroutine that waits for
the registry's lock competes with others that take it again and again; `RWMutex`
serves a waiting writer before later readers and a waiting reader before the
next writer, hence strong fairness for taking that lock and for nothing else.
Nobody has to publish, list, trigger or cancel. The controller, list queries,
the socket and the data loader are checked without fairness: `MutationsNeverWait` and
`NothingLeftBehind` speak of what can be done in a state (`ENABLED`), the second
of states in which no goroutine can do anything.

**What the properties leave open.** Some of what this code does wrong no
document forbids, and the properties are stated beside it, not over it.
`CallsReturn` excuses a listener that calls back. `ArtifactsCatchUp` excuses a
failed last run, which nobody retries. `WritesWereInScope` is of the moment of the
lookup: a record that has moved out of scope since is written all the same.
`UpdateChangesOnlyItsBody` lets an update undo another one's change in a column
that its own body leaves out, back to what it has looked up and no further, and
counts a zero field as one that was left out. The hazards of `PROJECT.json` say
so one by one.

**Violations.** These four runs fail by design; `PROJECT.json` quotes the
documentation they contradict.

- `controller_merge`: with the default strategy ("deep", merge_virtual.go:47)
  `deepMergeValue` evaluates `dst.IsNil()` (:112) on the value the record has under
  a key, which panics for a string, a number or a boolean. The merge before
  (controller.go:1035, 1085) makes every key of the record one of the body too,
  whatever the request said. Such a record can be created, by a single create
  through its virtual field for one, and not be updated any more.
- `controller_mask`: `Update` looks the record up through the service, whose policy
  layer masks it as for a read, merges that copy with the body and
  writes the result. Fields that the body leaves out are stored masked.
- `controller_audit`: errors of the guard and of the policy provider are
  returned before any call of `emitActivityEvents`.
- `controller_virtual`: `attachVirtualFieldHooks` (controller.go:688) adds the
  hooks of single records only, so a bulk create or update leaves virtual
  fields out of the map that is stored.

Ten more configurations lie beside the listed runs. Four pass. They check
invariants that the theorems rest on and, where a theorem states a guard in the
place of `ENABLED`, that it is the guard of the actions it stands for:

- `MCSchemaRegistryGuards.cfg` (`MayMoveIsExact`), with a reentrant listener and a
  document that cannot be encoded;
- `MCSchemaRefreshLocks.cfg` (`MayGoOnIsExact`; 2.8 million states);
- `MCGraphQLSocketGuards.cfg` (`GuardsAreExact`; 4.1 million states);
- `MCDataLoaderShared.cfg` (`DInv`, `AnswersOfTheLoader`): two operations and one
  loader.

The other six fail, each on the property it names, because the code does:

- `MCSchemaRegistryNil.cfg` (`EntriesCarryDocument`; a document that cannot be
  encoded): `RegisterSchemaEntry` tests for an empty document
  (schema_registry.go:122) before it clones it (:126); the clone of a document
  that JSON cannot encode is nil. The entry is stored and announced without a
  document, and `true` is returned.
- `MCListQueryPolicy.cfg` (`PolicyIsKept`; policies with overlapping lists or
  capitals): with an allow list, `allowsField` (field_policy.go:122) does not
  look at the deny list, which the query builder does subtract; masks are stored
  under the field's name (:245) and looked up in lower case (:137), so that one
  on a name with capitals never applies. `list_query` has plain policies only,
  and the theorem about them says so.
- `MCControllerKeys.cfg` (`UpdateChangesOnlyItsBody`; bodies that may name a key
  of the map itself, `{"metadata": {"nick": ...}}`): the lookup of an update has
  set the record's virtual field from the map (virtual_fields.go:141), the merge
  copies it into the body, whose own virtual field is empty (controller.go:1035),
  and `BeforeSave` (virtual_fields.go:89) writes it over the key that the body
  named, after `mergeVirtualMaps` (merge_virtual.go:8) had let the body win. The
  update answers with success and keeps the old value. In `controller` bodies
  name virtual fields by their own names, and the theorem about them says so.
- `MCDataLoaderMany.cfg` (`HasManyIsFound`): the fetchers of has-one and has-many
  relations select targets by their own id (dataloader_gen.go:501, from
  context_builder.go:605), so a house whose authors were not loaded with it has
  none.
- `MCDataLoaderBatch.cfg` (`LookupsAreBatched`, 2 tags): `Load` passes its one
  key on at once; nothing collects the keys of fields that are resolved
  together.
- `MCDataLoaderSocket.cfg` (`AnswersOfTheirOperation`, 2 operations): a
  connection keeps one loader (cmd/server/main.go:126), and nothing empties its
  caches before the connection ends, so an answer may be older than its
  operation.

## Proofs

`RefresherProofs`, for any `Caller` and any non-empty `Goroutine`:

- `TypeCorrect`, `OneOwner`, `TriggersSurvive`: `Spec => []P` for `TypeOK`,
  `RunningHasOneOwner`, `NoLostTrigger`.
- `QuietAfterCancel`: the action property `NoRunAfterCancel`.
- `Refinement`: `Spec => Contract!CSpec`.

The inductive invariant `IInv` is `TypeOK`, `RunningHasOneOwner`,
`NoLostTrigger` and `AbortedByCancel`. `NoLostTrigger` alone is not inductive:
`finish(false)` clears `running` and leaves `pending`, which would drop a
change, and only `AbortedByCancel` (a run that gives up saw the context done)
says that it does not matter. `FinishIdle` also needs `RunningHasOneOwner`: the
goroutine that ends is the only one that could have been carrying `pending`. The
refinement needs it once more, for `StartRun` to find no other run active.

`ControllerProofs`, for any requests, ids, fields, scopes and policies that
satisfy `ControllerAssumption`:

- `TypeCorrect`: `Spec => []TypeOK`.
- `LookupBeforeWrite`: `Spec => []WritesWereInScope`.
- `ChangesReported`: `Spec => []WritesAreAudited`.
- `OnlyRefusalsAreSilent`: `Spec => []ToldOnce`.

Behind the first two is `CInv`, the types of the store and of each request
(`Typed`) and what a request has looked up at each point of its way (`Lookups`):
nothing before the first read, only records in scope ever, and one per id from
the last read on. It is inductive only with two facts about the handlers: a
read never reaches the write, and a read or a delete never decodes a body.
The next two rest on `Outcomes`, what an answered request has reported; `CInv` is
what makes it inductive. `ToldOnce` bounds the defect that
`controller_audit` shows: a create, update or delete that has been answered has
reported what became of it, in events of the outcome it was answered with and of
no other, or has been refused by guard or policy and then has read, decoded and
written nothing. No clause relates two requests: other
requests may change the store in between, and nothing that is proved depends
on it. All of this is of requests that get past the merge: one that panics has
written nothing and is not answered.

`SinglesKeepVirtuals` (`Spec => SinglesSaveVirtuals`) needs one more invariant,
`BodiesKept`: until it is written, the record a create or an update works on
agrees with the body wherever the body says something.

`UpdatesKeepOpenColumns` says what `UpdateChangesOnlyItsBody` says, of the columns
that no policy for reads hides (`Open`), under any policies; `UpdatesKeepColumns`
is that property itself, where policies for reads hide nothing. Both assume that
bodies name virtual fields by their own names (`NamesVirtuals`), as
`MCControllerKeys.cfg` shows they must. They rest on `UpdatesHydrated`: the record
an update works on is its body, merged, once the lookup has been made, with the
record that lookup saw, as it is shown to a read. From there the argument is
about one record: `ShownOfRow` and `UpdateOfColumn` follow a column through the
hooks, the policy, the merge and the repository. Whatever others have written
since the lookup, a column that the body leaves out ends with the value looked up
or with the one that is there.

`ListsMerge` (`OnlyLists`, then `Spec => []UpdatesMerge`) bounds the defect that
`controller_merge` shows: where bodies and repository bring nothing but lists to
the maps that merge deep (or all maps merge shallow, so that there are none), and
the policy for reads puts no mask there, no update ever panics. A value must not
get under such a key on any of its ways, by hydration, merge, hooks or
another request's write, which is `CleanInv`: stored records and the working
records that have yet to be written hold nothing else there.

`MasksReachOnlyMaskedFields` bounds the defect that `controller_mask` shows: a
mask is stored only in a field that the policy for reads masks, or through a
virtual field or a key that it masks (`Clear` are the other fields). It needs
the other half of `CleanInv`: the working records have no mask in these fields
either, up to the write. The response is masked after it, so what policies mask in
responses of writes never comes back. `MasksStayOut` (`[]MasksStayOutOfStorage`)
follows where the policy for reads masks nothing that it does not deny.

`Refinement` (`Spec => KeepsContract`): every handler, every failure and every
interleaving is a step of `ControllerContract` or a stutter. Besides `CInv` it
needs `Orderly`: a request is answered last, and an insert that has gone through
has stored every record it names.

`SchemaRegistryProofs`, for any clients, resources, documents and listeners:
`TypeCorrect`, `ListenersAgree` (`[]ListenersCurrent`) and `AnnouncedFirst`
(`VisibleAfterAnnounced`). `ListenersCurrent` says nothing while the lock is
held, so the inductive invariant `RIInv` adds `Announcing`: a listener that has
been called agrees with the registry, any other is still to be called and lacks
just the entry being announced. `Calls` gives that entry its type. `Refinement`
(`RSpec => KeepsContract`) needs `Once` besides: no listener is in the list, or
in the rest of the loop, twice, so that taking one off the loop is telling it.

`OnlyReentryStops` (`[]WaitsForTheHolder`) is the registry's freedom from
deadlock: a call that cannot go on waits for the client that has the lock, and
that one can, unless it is about to call a reentrant listener (`MCSchemaRegistry.cfg`
and `MCSchemaRegistryGuards.cfg` have one). `OnlyUnencodableAreLost` and
`EncodableAreKept` bound the defect that `MCSchemaRegistryNil.cfg` shows: an entry loses its
document only to a registration whose document cannot be encoded, so that
`EntriesCarryDocument` holds of a registry that is never given one.

`SchemaRefreshProofs`, for any publishers, goroutines, resources and files:
`UsesTheRegistry` and `UsesTheRefresher` show that the composition implements
both of its components, so that what is proved of each holds of it (`Below`), and
with it the promises of both (`KeepsBothContracts`).
`NothingMissed` (`[]RestIsCurrent`) rests on `Announced`: nothing runs before
the listener is there (`Quiet`), whoever is inside `Trigger` holds the registry's
lock (`Locked`), and what the last run has not read is either announced or still
on a publisher's list (`Caught`). `Locked` is where the two locks meet: without
it a run could read between the store and the mark, and the mark would be lost.
`OneGenerationOnDisk` (`[]FilesOfOneGeneration`) rests on `Produced`: a run has
written its own output to each file it has come past, and it is the only one
(`RunningHasOneOwner` of the refresher). `TypeCorrect` follows from both.
`LocksAreTakenInOrder` (`[]WaitsForAPublisher`) says that the two locks cannot lock
each other out: whoever cannot go on, a publisher or the goroutine of a run that
wants to list the schemas, waits for the publisher that holds the registry's
lock, and that one can go on, inside `Trigger` too. It needs `Reading`: the
goroutines of runs only read the registry, so they never hold its lock for
writing, and the timer's goroutine is there only with a debounce. Publishers and runs are different goroutines
(`GeneratorAssumption`), since a run is started with `go`.

`ListQueryProofs`, for any records, fields, filters, limits and offsets:
`TypeCorrect`, `AnswersTrue` (`[]AnswersFromItsTime`), `PagesFilled`
(`[]PageHasRows`), and `PlainPoliciesKept` (`[]PolicyIsKept`), which assumes that
every policy is `Plain`, as `MCListQueryPolicy.cfg` shows it must. `LIInv` says of each
point of the request for which moment the count and the rows it has are right,
and that a second query is made for the page where the count ends.

`EventBusProofs`, for any subscriptions and mutations and any number of versions:
`BusInvariant`, `NoPanicBeforeClose`, `ToldWhatWasStored`. `BIInv` says who may
hold the lock (`LockKept`), what a mutation that publishes has stored
(`HasWritten`), and what each channel and subscriber has been told (`Told`).

`GraphQLSocketProofs`, for any operations and ids: `UsesTheBus`, the refinement
of the bus; `NoPanicBeforeClose` and `ToldWhatWasStored`, which the connection
inherits by it; `ConnInvariant` and `CloseReaches` (`[]OrphansShareTheirId`). `WIInv`
needs to know that an operation alone on its id is in the table until it leaves
(`AloneIsListed`), and that a closed connection starts nothing more unless its
context is done (`ClosedServesNoMore`). `TypeCorrect` (`[]WTypeOK`) and
`NothingLeftAtRest` rest on `WGInv`, the types of the goroutines with two facts:
the table names each operation under its own id and only while it has not
ended (`Entries`); the bus knows no operation before it subscribes, and one that
has ended has its context done (`Phases`). `NothingLeftAtRest` is
`NothingLeftBehind` with the guards of the goroutines' steps written out
(`MayStep`) in the place of `ENABLED`. `PublishersGoOn` is `MutationsNeverWait` with
a witness in its place: `GoesOn` gives every variable its next value, as a function
of the state, and the theorem says that wherever a publisher is this is a step of
it. Where a channel is full, `GoesOn` leaves it alone and goes to the next; were
`Send` to wait for a free slot, that would be no step and the theorem would not
hold. `TheLockComesBack` (`[][WayGetsShorter]_wvars`)
adds that a publisher comes to its end: each of its own steps takes a subscriber
off its way or gives the lock back, and no step of another puts one on.

`DataLoaderProofs`, for any fields, authors, tags, houses and operations:
`TypeCorrect`; `NothingOlderThanTheLoader` (`[]AnswersOfTheLoader`), that every answer
was so at some moment since the first operation of its loader began, whatever share of a connection's
operations it serves; and `OneRequestOneTime` (`[]AnswersOfTheirOperation`), which
follows where the loader serves one operation, as `MCDataLoaderSocket.cfg` shows it
must. `DInv` says that the history keeps up with the database (`Followed`), that
the caches hold what has been so (`Cached`), and what each field knows at each of
its steps (`Knows`): which keys it asks for and why, and that the maps it has so
far answer for them. Both are said of the histories of all operations together
(`EverRow`, `EverLinks`), which only grow, so a step of one field cannot take from
another what it knows, and a new operation takes nothing from any.

Only model-checked: liveness (`ImmediateRefresh`, `DebouncedRefresh`,
`CallsReturn`, `PublishersReturn`, `ArtifactsCatchUp`) and the two properties
that use `ENABLED`, `MutationsNeverWait` and `NothingLeftBehind`, which TLAPS cannot
prove. `PublishersGoOn` proves the first by a witness and `NothingLeftAtRest` the
second with the guards written out, and so do `OnlyReentryStops` and
`LocksAreTakenInOrder` what deadlock checking finds on small instances; what TLC
adds is that these guards are exact.

## Not modelled

Most of the repository's lines keep no state and decide nothing that depends on
order, which is why the models stand for a small share of them:

- Generated code: the executable schema that gqlgen writes for the example
  (16,000 lines), its resolvers, which repeat for each entity those of an author,
  and the fourteen fetchers of its data loader that are copies of the three in
  `DataLoader`.
- Text generation: templates and their context, formatter, overlay, hooks, the
  OpenAPI document and admin metadata. They map a description to text, and
  golden files compare the text.
- The loader of metadata files and schema packages, which runs another process;
  the dry run; the command line.
- HTTP adapters, response and error formats, custom actions, options: sequential
  code that passes values on.
- SQL: what bun and the repository do with criteria is the assumption that the
  models make of them.

Left out of parts that are modelled:

- The caches of relation descriptors and query configuration. They are filled
  without a lock, but providers are registered in `initialize`
  (controller.go:182), before the controller has a route.
- Registered endpoints of `rpc/`, which look a name up and call the controller's
  operations; the operations are in `Controller`.
- Of merged maps: maps within maps, deletion by null, fields of one map with
  different strategies, map fields that are pointers. Option lists, a record
  named twice in one bulk request.
- An empty override in `ListQuery`'s property: when a policy leaves no field, the
  builder takes filters on all of them, and no text says what is meant.
- Queries and mutations over the socket, pings, and the forwarder that has read
  an event and waits for an operation that has gone (resolver_gen.go:1726); it
  stays for ever, and `NothingLeftBehind` leaves it out.
- In `DataLoader`: fields whose object carries the relation, which ask no
  loader, and the trimming of keys, which are ids.
- What the bus does after `Close`, which nothing in the example calls: a panic is
  then possible, and the properties say so. An operation whose id another has
  taken over is left out of `OrphansShareTheirId` in the same way.
- The order in which activity hooks hear of two requests, and which of several
  hooks fails.
