---------------------------- MODULE SchemaRegistry ----------------------------
(***************************************************************************)
(* The in-memory schema registry (schema_registry.go): OpenAPI documents   *)
(* by resource name behind one RWMutex, and listeners that are called for  *)
(* every stored entry while the write lock is still held.                  *)
(*                                                                         *)
(* An entry is its document; Plural and UpdatedAt travel with it. A        *)
(* resource name is one that strings.TrimSpace has trimmed; a blank name   *)
(* or an empty document makes RegisterSchemaEntry return before it touches *)
(* anything. A read (ListSchemas, GetSchema, ExportSchemas) calls nothing  *)
(* while it holds the read lock, so it is one step.                        *)
(***************************************************************************)
EXTENDS Sequences

CONSTANTS
    Client,        \* goroutines that use the registry
    Resource,      \* resource names
    Document,      \* non-empty documents
    Unencodable,   \* documents json.Marshal refuses
    Listener,      \* listener registrations
    Reentrant,     \* listeners that call the registry from their callback
    NoEntry,       \* the resource has no entry
    NilDocument,   \* the resource has an entry whose Document is nil
    NoClient       \* nobody holds the write lock

ASSUME RegistryAssumption ==
    /\ Unencodable \subseteq Document
    /\ Reentrant \subseteq Listener
    /\ {NoEntry, NilDocument} \cap Document = {}
    /\ NoEntry # NilDocument
    /\ NoClient \notin Client

VARIABLES
    entries,       \* sr.entries
    listeners,     \* sr.listeners
    writer,        \* the client inside mu.Lock ... mu.Unlock
    pc,            \* where each client is
    arg,           \* the resource and document each client registers
    todo,          \* the listeners upsert has still to call
    snapshot,      \* what the client's last ListSchemas returned
    view           \* history: the registry as each listener was told of it

rvars == <<entries, listeners, writer, pc, arg, todo, snapshot, view>>

Stored == Document \cup {NilDocument}
Entries == [Resource -> Stored \cup {NoEntry}]
Registered == {listeners[i] : i \in DOMAIN listeners}

\* cloneSchemaDocument: a round trip through JSON, nil when it fails.
Cloned(d) == IF d \in Unencodable THEN NilDocument ELSE d

\* The types, and the one thing a mutex must give: a client is past Lock
\* exactly while it is the writer.
RTypeOK ==
    /\ entries \in Entries
    /\ listeners \in Seq(Listener)
    /\ writer \in Client \cup {NoClient}
    /\ pc \in [Client -> {"idle", "upsert", "notify", "add"}]
    /\ arg \in [Client -> (Resource \X Document) \cup Listener \cup {NoEntry}]
    /\ todo \in [Client -> Seq(Listener)]
    /\ snapshot \in [Client -> Entries]
    /\ view \in [Listener -> Entries]
    /\ \A c \in Client : pc[c] = "notify" <=> writer = c

RInit ==
    /\ entries = [r \in Resource |-> NoEntry]
    /\ listeners = <<>>
    /\ writer = NoClient
    /\ pc = [c \in Client |-> "idle"]
    /\ arg = [c \in Client |-> NoEntry]
    /\ todo = [c \in Client |-> <<>>]
    /\ snapshot = [c \in Client |-> [r \in Resource |-> NoEntry]]
    /\ view = [l \in Listener |-> [r \in Resource |-> NoEntry]]

-----------------------------------------------------------------------------
(* Faults: an action with one plausible bug, named by PROJECT.json.        *)

\* upsert without Lock.
UpsertUnlocked(c) ==
    /\ pc[c] = "upsert"
    /\ writer' = c
    /\ entries' = [entries EXCEPT ![arg[c][1]] = Cloned(arg[c][2])]
    /\ todo' = [todo EXCEPT ![c] = listeners]
    /\ pc' = [pc EXCEPT ![c] = "notify"]
    /\ UNCHANGED <<listeners, arg, snapshot, view>>

\* upsert unlocks before it calls the listeners.
UpsertUnlocksEarly(c) ==
    /\ pc[c] = "upsert"
    /\ writer = NoClient
    /\ entries' = [entries EXCEPT ![arg[c][1]] = Cloned(arg[c][2])]
    /\ todo' = [todo EXCEPT ![c] = listeners]
    /\ pc' = [pc EXCEPT ![c] = "notify"]
    /\ UNCHANGED <<listeners, writer, arg, snapshot, view>>

\* addListener returns without Unlock.
AddListenerKeepsLock(c) ==
    /\ pc[c] = "add"
    /\ writer = NoClient
    /\ writer' = c
    /\ listeners' = Append(listeners, arg[c])
    /\ view' = [view EXCEPT ![arg[c]] = entries]
    /\ pc' = [pc EXCEPT ![c] = "idle"]
    /\ arg' = [arg EXCEPT ![c] = NoEntry]
    /\ UNCHANGED <<entries, todo, snapshot>>

\* addListener without Lock.
AddListenerUnlocked(c) ==
    /\ pc[c] = "add"
    /\ listeners' = Append(listeners, arg[c])
    /\ view' = [view EXCEPT ![arg[c]] = entries]
    /\ pc' = [pc EXCEPT ![c] = "idle"]
    /\ arg' = [arg EXCEPT ![c] = NoEntry]
    /\ UNCHANGED <<entries, writer, todo, snapshot>>

\* list reads without RLock.
ListSchemasUnlocked(c) ==
    /\ pc[c] = "idle"
    /\ snapshot' = [snapshot EXCEPT ![c] = entries]
    /\ UNCHANGED <<entries, listeners, writer, pc, arg, todo, view>>

-----------------------------------------------------------------------------
(* RegisterSchemaEntry, RegisterSchemaDocument, a controller's routes.     *)

\* The entry has passed validation; the caller asks for the write lock.
RegisterSchemaEntry(c, r, d) ==
    /\ pc[c] = "idle"
    /\ pc' = [pc EXCEPT ![c] = "upsert"]
    /\ arg' = [arg EXCEPT ![c] = <<r, d>>]
    /\ UNCHANGED <<entries, listeners, writer, todo, snapshot, view>>

\* The lock is granted and the entry stored; every listener is to be called.
Upsert(c) ==
    /\ pc[c] = "upsert"
    /\ writer = NoClient
    /\ writer' = c
    /\ entries' = [entries EXCEPT ![arg[c][1]] = Cloned(arg[c][2])]
    /\ todo' = [todo EXCEPT ![c] = listeners]
    /\ pc' = [pc EXCEPT ![c] = "notify"]
    /\ UNCHANGED <<listeners, arg, snapshot, view>>

\* One listener is called, with a clone, and returns. One that calls the
\* registry waits for the lock its own goroutine holds and never returns.
Notify(c) ==
    /\ pc[c] = "notify"
    /\ todo[c] # <<>>
    /\ Head(todo[c]) \notin Reentrant
    /\ view' = [view EXCEPT ![Head(todo[c])][arg[c][1]] = Cloned(arg[c][2])]
    /\ todo' = [todo EXCEPT ![c] = Tail(@)]
    /\ UNCHANGED <<entries, listeners, writer, pc, arg, snapshot>>

\* All listeners have returned: unlock and return to the caller.
UpsertReturns(c) ==
    /\ pc[c] = "notify"
    /\ todo[c] = <<>>
    /\ writer' = NoClient
    /\ pc' = [pc EXCEPT ![c] = "idle"]
    /\ arg' = [arg EXCEPT ![c] = NoEntry]
    /\ UNCHANGED <<entries, listeners, todo, snapshot, view>>

-----------------------------------------------------------------------------
(* RegisterSchemaListener. A nil listener is dropped before the lock.      *)

RegisterSchemaListener(c, l) ==
    /\ pc[c] = "idle"
    /\ l \notin Registered
    /\ \A b \in Client : arg[b] # l
    /\ pc' = [pc EXCEPT ![c] = "add"]
    /\ arg' = [arg EXCEPT ![c] = l]
    /\ UNCHANGED <<entries, listeners, writer, todo, snapshot, view>>

\* The new listener is told of later entries only: what is already in the
\* registry is its starting point.
AddListener(c) ==
    /\ pc[c] = "add"
    /\ writer = NoClient
    /\ listeners' = Append(listeners, arg[c])
    /\ view' = [view EXCEPT ![arg[c]] = entries]
    /\ pc' = [pc EXCEPT ![c] = "idle"]
    /\ arg' = [arg EXCEPT ![c] = NoEntry]
    /\ UNCHANGED <<entries, writer, todo, snapshot>>

-----------------------------------------------------------------------------
(* ListSchemas, and GetSchema and ExportSchemas, which read no more.       *)

ListSchemas(c) ==
    /\ pc[c] = "idle"
    /\ writer = NoClient
    /\ snapshot' = [snapshot EXCEPT ![c] = entries]
    /\ UNCHANGED <<entries, listeners, writer, pc, arg, todo, view>>

-----------------------------------------------------------------------------

InCall(c) == Upsert(c) \/ Notify(c) \/ UpsertReturns(c) \/ AddListener(c)

RNext ==
    \E c \in Client :
        \/ \E r \in Resource, d \in Document : RegisterSchemaEntry(c, r, d)
        \/ \E l \in Listener : RegisterSchemaListener(c, l)
        \/ ListSchemas(c)
        \/ InCall(c)

RSpec == RInit /\ [][RNext]_rvars

\* A waiting writer of a sync.RWMutex is served before later readers and, in
\* the mutex behind it, before later writers that would starve it: strong
\* fairness for the lock, weak fairness for the code that holds it.
RFairness ==
    \A c \in Client :
        /\ SF_rvars(Upsert(c))
        /\ SF_rvars(AddListener(c))
        /\ WF_rvars(Notify(c))
        /\ WF_rvars(UpsertReturns(c))

FairRSpec == RSpec /\ RFairness

-----------------------------------------------------------------------------
(* Properties.                                                             *)

\* Between two registrations every listener has been told exactly what the
\* registry holds, in the order it was stored: two publishers of one resource
\* cannot leave a listener with the document that lost (upsert calls the
\* listeners before it unlocks).
ListenersCurrent ==
    writer = NoClient => \A l \in Registered : view[l] = entries

\* Nobody reads a document from the registry before every listener has been
\* told of it.
VisibleAfterAnnounced ==
    [][\A c \in Client :
          snapshot'[c] # snapshot[c]
              => \A l \in Registered : view[l] = snapshot'[c]]_rvars

\* Those that the upsert in progress has still to call.
Behind ==
    {l \in Listener : \E c \in Client :
        pc[c] = "notify" /\ \E i \in DOMAIN todo[c] : todo[c][i] = l}

\* The registry keeps the promise of RegistryContract: whatever clients do side
\* by side, each entry is told once to each listener, with the registry as it
\* stands, before the next is stored, anybody reads or another listener joins.
Contract == INSTANCE RegistryContract
                WITH Reader <- Client, registry <- entries, audience <- Registered,
                     behind <- Behind, told <- view, read <- snapshot
KeepsContract == Contract!KSpec

\* Every call returns, unless a listener that calls back into the registry
\* has been registered: upsert then waits for itself.
CallsReturn ==
    \A c \in Client :
        pc[c] # "idle" ~> (pc[c] = "idle" \/ Registered \cap Reentrant # {})

\* README.md: "Each SchemaEntry carries the compiled OpenAPI document".
EntriesCarryDocument == \A r \in Resource : entries[r] # NilDocument

=============================================================================
