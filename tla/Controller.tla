------------------------------ MODULE Controller ------------------------------
(***************************************************************************)
(* The request pipeline of a CRUD controller (controller.go) over the      *)
(* service it builds by default (service_factory.go), and of the same      *)
(* operations called by message (controller_ops.go): field policy around   *)
(* scope guard around hooks around the repository.                         *)
(*                                                                         *)
(* Requests are served concurrently and share nothing but the repository.  *)
(* What a request does between two repository calls touches only itself,   *)
(* so each such stretch is one step. Guards, policies, hooks, validators   *)
(* and the repository are the host's: what they decide is a constant, and  *)
(* each may fail whenever it is called.                                    *)
(*                                                                         *)
(* A record is a function of its fields. A virtual field is one without a  *)
(* column, whose value is kept under a key of a map field: the key is a    *)
(* field here, alone in its map, and its value no map itself. List (Index) *)
(* is in ListQuery.                                                        *)
(***************************************************************************)
EXTENDS Naturals, Sequences

CONSTANTS
    Request,         \* requests, each served by a goroutine of its own
    ByMessage,       \* those that come through RPC (controller_ops.go)
    Id, Field,
    Owner,           \* the field that column filters and row filters test
    Value,           \* field values other than the zero value
    Zero,            \* a field's zero value
    Hidden,          \* what a policy's mask turns a value into
    NoRecord,
    Body,            \* records the deserializer may return
    Seed,            \* contents of the repository before the first request
    MaxBatch,        \* bound: records in a bulk request
    Visible,         \* [Op -> owners that pass the filters resolved for op]
    Masked, Denied,  \* [Op -> fields that the policy resolved for op hides]
    Backing,         \* [virtual fields -> the field that keeps the value]
    Deep,            \* virtual fields whose map is not merged "shallow"
    Mergeable        \* values under a key that a deep merge can replace: lists

Reads == {"read"}
Updates == {"update", "updateBatch"}
Deletes == {"delete", "deleteBatch"}
Creates == {"create", "createBatch"}
Bulk == {"createBatch", "updateBatch", "deleteBatch"}
Op == Reads \cup Creates \cup Updates \cup Deletes

\* The operations that look a record up, in scope, before they touch it.
Scoped == {"read", "update", "updateBatch", "delete"}

Record == [Field -> Value \cup {Zero, Hidden}]

Virtual == DOMAIN Backing
Keys == {Backing[v] : v \in Virtual}

\* A virtual field is tagged bun:"-": no row has it.
Row == {a \in Record : \A v \in Virtual : a[v] = Zero}
Stores == [Id -> Row \cup {NoRecord}]

ASSUME ControllerAssumption ==
    /\ ByMessage \subseteq Request
    /\ Owner \in Field
    /\ Zero \notin Value \cup {Hidden}
    /\ Hidden \notin Value
    /\ NoRecord \notin Record
    /\ Body \subseteq [Field -> Value \cup {Zero}]
    /\ Seed \subseteq [Id -> (Row \cap [Field -> Value \cup {Zero}]) \cup {NoRecord}]
    /\ Virtual \subseteq Field \ {Owner}
    /\ Backing \in [Virtual -> Field \ Virtual]
    /\ \A v, w \in Virtual : Backing[v] = Backing[w] => v = w
    /\ Deep \subseteq Virtual
    /\ Mergeable \subseteq Value \cup {Hidden}
    /\ MaxBatch \in Nat
    /\ Visible \in [Op -> SUBSET (Value \cup {Zero})]
    /\ Masked \in [Op -> SUBSET Field]
    /\ Denied \in [Op -> SUBSET Field]

VARIABLES
    store,           \* the repository
    req              \* the requests

cvars == <<store, req>>

\* A request: where it is, what it asks for, the decoded bodies, the records
\* it has read (as stored), the records it works on, the ids it has changed
\* (history), the activity events it emitted, and the kind of its response. A
\* handler that panics ends there: it neither reports nor answers.
Fresh == [pc |-> "idle", op |-> "read", ids |-> <<>>, bodies |-> <<>>, seen |-> <<>>,
          recs |-> <<>>, wrote |-> {}, events |-> <<>>, reply |-> "none"]

Points == {"idle", "guard", "decode", "read", "write", "after", "done", "panicked"}

RequestState ==
    [pc : Points, op : Op, ids : Seq(Id), bodies : Seq(Body),
     seen : Seq(Record), recs : Seq(Record), wrote : SUBSET Id,
     events : Seq({"success", "failed"}), reply : {"none", "ok", "error"}]

\* The types, and what the handlers' loops rely on: one working record for
\* every id of a create or an update, and no more reads than ids.
TypeOK ==
    /\ store \in Stores
    /\ req \in [Request -> RequestState]
    /\ \A r \in Request : Len(req[r].seen) <= Len(req[r].ids)
    /\ \A r \in Request :
          req[r].op \in Creates \cup Updates /\ req[r].pc \in {"read", "write", "after"}
              => DOMAIN req[r].recs = DOMAIN req[r].ids

Init ==
    /\ store \in Seed
    /\ req = [r \in Request |-> Fresh]

-----------------------------------------------------------------------------
(* Faults: a definition with one plausible bug, named by PROJECT.json.     *)

\* The body wins even where it says nothing.
MergeBodyOnly(record, existing) == record

\* A value that the map has already is not replaced.
BeforeSaveOnce(record) ==
    [f \in Field |->
        IF f \in Virtual THEN Zero
        ELSE IF \E v \in Virtual : Backing[v] = f /\ record[v] # Zero /\ record[f] = Zero
             THEN record[CHOOSE v \in Virtual : Backing[v] = f] ELSE record[f]]

\* The controller leaves its own criteria out of the lookup.
InScopeOfRead(op, record) == record[Owner] \in Visible["read"]

\* A bulk body that was decoded in part is taken for the whole.
DecodePart(r) ==
    /\ req[r].pc = "decode"
    /\ req[r].op \notin Deletes
    /\ \E n \in 0 .. Len(req[r].ids) : \E bodies \in [1 .. n -> Body] :
          req' = [req EXCEPT ![r].pc = "write", ![r].bodies = bodies, ![r].recs = bodies]
    /\ UNCHANGED store

\* An update of a record that is gone inserts it again.
WriteUpserts(r) ==
    /\ req[r].pc = "write"
    /\ LET ids == req[r].ids
           row(i) == IF req[r].op \in Deletes THEN NoRecord
                     ELSE [f \in Field |-> IF f \in Virtual THEN Zero ELSE req[r].recs[i][f]]
       IN  /\ store' = [id \in Id |-> IF \E i \in DOMAIN ids : ids[i] = id
                                     THEN row(CHOOSE i \in DOMAIN ids : ids[i] = id)
                                     ELSE store[id]]
           /\ req' = [req EXCEPT ![r].pc = "after", ![r].wrote = {ids[i] : i \in DOMAIN ids}]

\* The error of an After hook is returned without an event.
AfterHookFailsSilently(r) ==
    /\ req[r].pc = "after"
    /\ req[r].op \notin Reads
    /\ req' = [req EXCEPT ![r].pc = "done", ![r].reply = "error"]
    /\ UNCHANGED store

-----------------------------------------------------------------------------
(* The pieces of the pipeline.                                             *)

\* mergeRecordWithExisting: a field the body leaves zero is taken over.
Merge(record, existing) ==
    [f \in Field |-> IF record[f] = Zero THEN existing[f] ELSE record[f]]

\* mergeVirtualMaps, of maps that it can merge: a key of the body replaces that
\* of the record. A null in a body is one that was left out.
MergeMaps(record, existing) ==
    [f \in Field |-> IF f \in Keys /\ record[f] = Zero THEN existing[f] ELSE record[f]]

\* deepMergeValue asks whether the record's value is nil, which panics for a
\* string, a number or a boolean. Merge has copied every key the record has into
\* the body by then, so each of them is looked at.
MapsPanic(existing) == \E v \in Deep : existing[Backing[v]] \notin Mergeable \cup {Zero}

\* VirtualFieldHandler.BeforeSave: a virtual field that has a value moves into
\* the map and is cleared.
BeforeSave(record) ==
    [f \in Field |->
        IF f \in Virtual THEN Zero
        ELSE IF \E v \in Virtual : Backing[v] = f /\ record[v] # Zero
             THEN record[CHOOSE v \in Virtual : Backing[v] = f] ELSE record[f]]

\* AfterLoad: a virtual field takes the value the map has for it, if any; the
\* map keeps it too (PreserveVirtualKeys).
AfterLoad(record) ==
    [f \in Field |-> IF f \in Virtual /\ record[Backing[f]] # Zero
                     THEN record[Backing[f]] ELSE record[f]]

\* applyFieldPolicyToRecord changes the record it is given, in place.
Policed(op, record) ==
    [f \in Field |-> CASE f \in Denied[op] -> Zero
                       [] f \in Masked[op] \ Denied[op] -> Hidden
                       [] OTHER -> record[f]]

\* Fault: the policy is applied to the record before it is saved.
PreparedPoliced(op, record) == Policed(op, IF op \in Bulk THEN record ELSE BeforeSave(record))

\* What the hooks of an operation make of a record. Bulk hooks are others, and
\* attachVirtualFieldHooks adds none.
Prepared(op, record) == IF op \in Bulk THEN record ELSE BeforeSave(record)
Loaded(op, record) == IF op \in Bulk THEN record ELSE AfterLoad(record)

\* The columns of one record, and the fields without a column of another.
Columns(record, other) == [f \in Field |-> IF f \in Virtual THEN other[f] ELSE record[f]]
Blank == [f \in Field |-> Zero]

\* The pre-read is filtered by what is resolved for the operation, in the
\* controller, and by what the service resolves for a read.
InScope(op, record) == record[Owner] \in Visible[op] \cap Visible["read"]

\* buildActivityEvents: one event per record, or one that names none.
Events(kind, n) == [i \in 1 .. (IF n = 0 THEN 1 ELSE n) |-> kind]

\* The handler returns an error response and has emitted these events.
FailWith(r, events) ==
    req' = [req EXCEPT ![r].pc = "done", ![r].reply = "error", ![r].events = events]

\* A write that has passed guard and policy emits failed events first, one for
\* each of n records.
Fail(r, n) == FailWith(r, IF req[r].op \in Reads \/ req[r].pc = "guard"
                          THEN <<>> ELSE Events("failed", n))

\* The ids of a request. A bulk request may be empty and names a record once.
Targets(op) ==
    {ids \in UNION {[1 .. n -> Id] : n \in IF op \in Bulk THEN 0 .. MaxBatch ELSE {1}} :
        \A i, j \in DOMAIN ids : ids[i] = ids[j] => i = j}

\* What a write leaves in the repository. An update goes by id alone; whether
\* it writes fields that are zero is the repository's choice.
Written(r, id, i, omitZero) ==
    CASE req[r].op \in Deletes -> NoRecord
      [] req[r].op \in Creates -> Columns(Prepared(req[r].op, req[r].recs[i]), Blank)
      [] OTHER -> LET row == Columns(Prepared(req[r].op, req[r].recs[i]), Blank)
                  IN  IF omitZero THEN Merge(row, store[id]) ELSE row

\* The record as the service returns it: what the repository has read back into
\* the record it was given, after the After hooks.
Returned(r, i, row) ==
    Loaded(req[r].op, Columns(row, Prepared(req[r].op, req[r].recs[i])))

-----------------------------------------------------------------------------
(* Guard, policy and body.                                                 *)

Accept(r) ==
    /\ req[r].pc = "idle"
    /\ \E op \in Op : \E ids \in Targets(op) :
          req' = [req EXCEPT ![r].pc = "guard", ![r].op = op, ![r].ids = ids]
    /\ UNCHANGED store

\* resolveGuardContext or resolveFieldPolicy returns an error. A message that
\* cannot be decoded does not get as far as the guard, to the same effect.
Refuse(r) ==
    /\ req[r].pc = "guard"
    /\ Fail(r, 0)
    /\ UNCHANGED store

\* Reads, and a delete of one record, have no body.
Admit(r) ==
    /\ r \notin ByMessage
    /\ req[r].pc = "guard"
    /\ req' = [req EXCEPT ![r].pc = IF req[r].op \in {"read", "delete"}
                                    THEN "read" ELSE "decode"]
    /\ UNCHANGED store

\* The request has its bodies; of a bulk delete (recordsFromIDs) only ids count.
Take(r) ==
    \E bodies \in [DOMAIN req[r].ids -> Body] :
        req' = [req EXCEPT
                  ![r].pc = IF req[r].op \in Updates /\ req[r].ids # <<>> THEN "read" ELSE "write",
                  ![r].bodies = IF req[r].op \in Deletes THEN <<>> ELSE bodies,
                  ![r].recs = IF req[r].op \in Deletes THEN <<>> ELSE bodies]

\* The deserializer.
Decode(r) ==
    /\ req[r].pc = "decode"
    /\ Take(r)
    /\ UNCHANGED store

\* A malformed id or body. A bulk body may have been decoded in part.
DecodeFails(r) ==
    /\ req[r].pc = "decode"
    /\ \E n \in 0 .. Len(req[r].ids) : Fail(r, n)
    /\ UNCHANGED store

\* A message brings its records along.
AdmitMessage(r) ==
    /\ r \in ByMessage
    /\ req[r].pc = "guard"
    /\ IF req[r].op \in {"read", "delete"} THEN req' = [req EXCEPT ![r].pc = "read"] ELSE Take(r)
    /\ UNCHANGED store

\* The id of an update is parsed after guard and policy.
MalformedId(r) ==
    /\ r \in ByMessage
    /\ req[r].pc = "guard"
    /\ req[r].op = "update"
    /\ FailWith(r, Events("failed", 0))
    /\ UNCHANGED store

-----------------------------------------------------------------------------
(* svc.Show: the read itself, or the lookup before an update or a delete.  *)

\* The next record is found in scope; the service's own policy, resolved for
\* a read, is applied to what AfterRead hooks make of it, and an update merges
\* the body with the outcome.
Read(r) ==
    /\ req[r].pc = "read"
    /\ LET i == Len(req[r].seen) + 1
           found == store[req[r].ids[i]]
           shown == Policed("read", AfterLoad(found))
       IN  /\ found # NoRecord
           /\ InScope(req[r].op, found)
           /\ req[r].op \in Updates => ~MapsPanic(shown)
           /\ req' = [req EXCEPT
                ![r].seen = Append(@, found),
                ![r].recs = IF req[r].op \in Updates
                            THEN [req[r].recs EXCEPT ![i] = MergeMaps(Merge(@, shown), shown)]
                            ELSE <<shown>>,
                ![r].pc = IF i < Len(req[r].ids) THEN "read"
                          ELSE IF req[r].op \in Reads THEN "after" ELSE "write"]
    /\ UNCHANGED store

\* The maps of body and record cannot be merged: the goroutine of the request
\* unwinds, past the repository, the events and the response.
ReadPanics(r) ==
    /\ req[r].pc = "read"
    /\ req[r].op \in Updates
    /\ LET found == store[req[r].ids[Len(req[r].seen) + 1]]
       IN  /\ found # NoRecord
           /\ InScope(req[r].op, found)
           /\ MapsPanic(Policed("read", AfterLoad(found)))
           /\ req' = [req EXCEPT ![r].seen = Append(@, found), ![r].pc = "panicked"]
    /\ UNCHANGED store

\* No such record in scope, or a guard, a policy, an AfterRead hook, the
\* repository or the merge fails. One miss ends a bulk update.
ReadFails(r) ==
    /\ req[r].pc = "read"
    /\ Fail(r, Len(req[r].ids))
    /\ UNCHANGED store

-----------------------------------------------------------------------------
(* svc.Create, svc.Update, svc.Delete and their bulk forms.                *)

\* Guard, Before hooks and validation pass, and the repository writes: all
\* records or none. An insert needs free ids; an update or a delete of a
\* record that is gone changes nothing.
Write(r) ==
    /\ req[r].pc = "write"
    /\ LET ids == req[r].ids
           touched == {i \in DOMAIN ids : req[r].op \in Creates \/ store[ids[i]] # NoRecord}
       IN  /\ req[r].op \in Creates => \A i \in DOMAIN ids : store[ids[i]] = NoRecord
           /\ \E omitZero \in BOOLEAN :
                 LET new(i) == Written(r, ids[i], i, omitZero)
                 IN  /\ store' = [id \in Id |->
                            IF \E i \in touched : ids[i] = id
                            THEN new(CHOOSE i \in touched : ids[i] = id) ELSE store[id]]
                     /\ req' = [req EXCEPT
                            ![r].pc = "after",
                            ![r].wrote = {ids[i] : i \in touched},
                            ![r].recs = IF req[r].op \in Deletes THEN @
                                        ELSE [i \in DOMAIN ids |->
                                                 IF i \in touched THEN Returned(r, i, new(i))
                                                 ELSE @[i]]]

\* A service layer or the repository refuses.
WriteFails(r) ==
    /\ req[r].pc = "write"
    /\ Fail(r, Len(req[r].ids))
    /\ UNCHANGED store

\* An After hook fails: what has been written stays.
AfterHookFails(r) ==
    /\ req[r].pc = "after"
    /\ req[r].op \notin Reads
    /\ Fail(r, Len(req[r].ids))
    /\ UNCHANGED store

\* The events are emitted, then the policy resolved for the operation is
\* applied to the records, then they are sent.
Respond(r) ==
    /\ req[r].pc = "after"
    /\ req' = [req EXCEPT
         ![r].pc = "done", ![r].reply = "ok",
         ![r].events = IF req[r].op \in Reads THEN <<>>
                       ELSE Events("success", Len(req[r].ids)),
         ![r].recs = IF req[r].op \in Deletes THEN <<>>
                     ELSE [i \in DOMAIN @ |-> Policed(req[r].op, @[i])]]
    /\ UNCHANGED store

-----------------------------------------------------------------------------

Next ==
    \E r \in Request :
        \/ Accept(r) \/ Refuse(r) \/ Admit(r)
        \/ Decode(r) \/ DecodeFails(r) \/ AdmitMessage(r) \/ MalformedId(r)
        \/ Read(r) \/ ReadPanics(r) \/ ReadFails(r)
        \/ Write(r) \/ WriteFails(r)
        \/ AfterHookFails(r) \/ Respond(r)

Spec == Init /\ [][Next]_cvars

-----------------------------------------------------------------------------
(* Properties.                                                             *)

\* Whatever other requests do in between, and wherever a bulk update stops, a
\* record is updated or deleted by id only after the same request has read it
\* within the scope of the operation and of a read.
WritesWereInScope ==
    \A r \in Request : req[r].op \in Scoped /\ req[r].wrote # {} =>
        /\ Len(req[r].seen) = Len(req[r].ids)
        /\ \A i \in DOMAIN req[r].seen :
              req[r].seen[i][Owner] \in Visible[req[r].op] \cap Visible["read"]

\* The requests as ControllerContract sees them.
CallOf(q) == [op |-> IF q.pc = "idle" THEN "none" ELSE q.op, ids |-> q.ids]
Calls == [r \in Request |-> CallOf(req[r])]
LookedUp == [r \in Request |-> req[r].seen]
Wrote == [r \in Request |-> req[r].wrote]
Replies == [r \in Request |-> req[r].reply]

\* The controller keeps the promise of ControllerContract, whatever requests do
\* side by side and wherever one of them fails.
Contract == INSTANCE ControllerContract WITH
    call <- Calls, found <- LookedUp, changed <- Wrote, reply <- Replies
KeepsContract == Contract!KSpec

\* What a body wants in a column: a map's key can be addressed by the virtual
\* field that it keeps.
Wanted(body, f) ==
    IF \E v \in Virtual : Backing[v] = f /\ body[v] # Zero
    THEN body[CHOOSE v \in Virtual : Backing[v] = f] ELSE body[f]

\* What an update makes of these columns. A bulk update may leave out virtual
\* fields.
UpdatesKeep(columns) ==
    \A r \in Request : req[r].op \in Updates =>
        \A i \in DOMAIN req[r].ids : req[r].ids[i] \in req'[r].wrote \ req[r].wrote =>
            LET id == req[r].ids[i]
                wanted(f) == Wanted(req[r].bodies[i], f)
                kept(f) == store'[id][f] \in {req[r].seen[i][f], store[id][f]}
            IN  \A f \in columns :
                    \/ IF wanted(f) = Zero THEN kept(f) ELSE store'[id][f] = wanted(f)
                    \/ req[r].op \in Bulk /\ f \in Keys /\ kept(f)

\* An update writes what its body says, and in a column that the body leaves out
\* (or leaves zero, which mergo cannot tell from it) nothing but what the request
\* has looked up or what is there: another request that wrote in between may be
\* undone in such a column, back to the lookup and no further. Hydration, merge,
\* policy, hooks and repository together.
UpdateChangesOnlyItsBody == [][UpdatesKeep(Field \ Virtual)]_cvars

\* A write by one of these operations keeps what its body says of virtual fields.
KeepsVirtuals(ops) ==
    \A r \in Request : req[r].op \in ops =>
        \A i \in DOMAIN req[r].ids : req[r].ids[i] \in req'[r].wrote \ req[r].wrote =>
            \A v \in Virtual : req[r].bodies[i][v] # Zero =>
                store'[req[r].ids[i]][Backing[v]] = req[r].bodies[i][v]

\* A single create, or a single update that gets past the merge, puts the virtual
\* fields of its body into the map, whatever the record had there, whatever
\* policies hide and whatever the repository does with zero fields.
SinglesSaveVirtuals == [][KeepsVirtuals({"create", "update"})]_cvars

\* README.md: "the `VirtualFieldHandler` automatically moves values between the
\* struct field and the map on save/load".
VirtualsAreSaved == [][KeepsVirtuals(Creates \cup Updates)]_cvars

\* Every answer that reports a success, and every change to the repository, comes
\* with one event per record (or one, of a bulk request of none), of the kind of
\* the response: a hook that fails after the write does not hide it.
WritesAreAudited ==
    \A r \in Request :
        req[r].pc = "done" /\ req[r].op \notin Reads /\ (req[r].reply = "ok" \/ req[r].wrote # {})
            => req[r].events = Events(IF req[r].reply = "ok" THEN "success" ELSE "failed",
                                      Len(req[r].ids))

\* README.md: Mask runs "without mutating the record in storage".
MasksStayOutOfStorage ==
    \A id \in Id : store[id] # NoRecord => \A f \in Field : store[id][f] # Hidden

\* merge_virtual.go: "mergeVirtualMaps merges map-backed virtual sources", whatever
\* the strategy and whatever the maps hold: an update that finds its records goes on.
UpdatesMerge == \A r \in Request : req[r].pc # "panicked"

\* README.md: "structured activity for every CRUD success/failure".
EveryOutcomeIsAudited ==
    \A r \in Request : req[r].pc = "done" /\ req[r].op \notin Reads => req[r].events # <<>>

=============================================================================
