------------------------------- MODULE ListQuery -------------------------------
(***************************************************************************)
(* A list request (Index in controller.go): the field policy is resolved   *)
(* (field_policy.go), filters on fields it leaves out are dropped (query.go *)
(* and pkg/go-query-bun), the repository is asked for rows and a count, the *)
(* offset is normalised (pagination.go) and, where it has moved, the       *)
(* repository is asked again.                                              *)
(*                                                                         *)
(* Other requests insert and delete records all the while. The repository  *)
(* counts and reads rows in two statements, with no common snapshot.       *)
(* Records do not change while they exist, and are listed by id; `_search',*)
(* order, select and include are dropped or kept like filters and are left *)
(* out. IndexWith (controller_ops.go) is the case without filters, limit   *)
(* and offset: there is nothing to normalise and no second query.          *)
(***************************************************************************)
EXTENDS Integers, FiniteSets

CONSTANTS
    Id,              \* of records; rows are listed by id
    Name,            \* names of fields, as a policy or a query may spell them
    Field,           \* those that are JSON names of T's fields
    Lower,           \* [Name -> Name]: the name in lower case, trimmed
    Meets,           \* [Field -> ids whose value is what a filter asks for]
    Scope,           \* ids that the guard's column filters let through
    Policy,          \* policies the provider may answer with
    Filters,         \* sets of names that a query may filter by
    Limits, Offsets, \* values of `limit' and `offset' in a query
    MaxChanges       \* bound: inserts and deletes

PolicyShape == [allow : SUBSET Name, deny : SUBSET Name, mask : SUBSET Name, rows : SUBSET Id]

\* Two fields do not differ in case only; a negative limit is left to bun.
ASSUME ListAssumption ==
    /\ Id \subseteq Nat /\ IsFiniteSet(Id)
    /\ Field \subseteq Name
    /\ Lower \in [Name -> Name]
    /\ \A n \in Name : Lower[Lower[n]] = Lower[n]
    /\ \A f, g \in Field : Lower[f] = Lower[g] => f = g
    /\ Meets \in [Field -> SUBSET Id]
    /\ Scope \subseteq Id
    /\ Policy \subseteq PolicyShape
    /\ Filters \subseteq SUBSET Name
    /\ Limits \subseteq Nat /\ Offsets \subseteq Int
    /\ MaxChanges \in Nat

VARIABLES
    present,         \* ids of the records in the repository
    changes,         \* how often that has changed
    pc,              \* where the request is
    limit, filters, policy,   \* what it asks for, and what applies to it
    todo,            \* statements of the current query that are still to run
    rows, count, offset, page,
    shown,           \* [Field -> how the rows of the answer show it]
    since            \* history: contents of the repository during the request

requestVars == <<pc, limit, filters, policy, todo, rows, count, offset, page, shown>>
lvars == <<present, changes, requestVars, since>>

-----------------------------------------------------------------------------
Keys(names) == {Lower[n] : n \in names}

(* Faults: a definition with one plausible bug, named by PROJECT.json.     *)

\* The names of a policy are taken as they are spelt.
ListedVerbatim(names) == names \cap Keys(Field)

\* A page that ends with the last row is taken to be followed by another.
LastPageRoundedUp(l, n) == (n \div l) * l

\* A negative offset is passed on.
NormalOffsetUnclamped(l, o, n) ==
    IF n > 0 /\ o >= n THEN IF l > 0 THEN ((n - 1) \div l) * l ELSE 0 ELSE o

-----------------------------------------------------------------------------
(* Field policies.                                                         *)

\* normalizePolicyList: names T has no field for are dropped.
Listed(names) == Keys(names) \cap Keys(Field)

\* buildResolvedFieldPolicy: the fields a query may use, none meaning no
\* override; the lists; the masks, under the field's own name.
Resolve(p) ==
    LET allow == Listed(p.allow)
        deny == Listed(p.deny)
    IN  [override |-> IF allow = {} /\ deny = {}
                      THEN {}
                      ELSE {f \in Field : /\ allow # {} => Lower[f] \in allow
                                          /\ Lower[f] \notin deny},
         allow |-> allow,
         deny |-> deny,
         maskers |-> {f \in Field : Lower[f] \in Keys(p.mask)}]

\* queryBunConfig: an empty override stands for all fields.
Queryable(d) == IF d.override = {} THEN Field ELSE d.override

\* allowsField: the deny list is consulted only without an allow list.
Allows(d, f) == IF d.allow # {} THEN Lower[f] \in d.allow ELSE Lower[f] \notin d.deny

\* applyFieldPolicyStruct, on the value of a field. The service and then the
\* controller apply it; the second time changes nothing here.
Show(d, f) ==
    CASE ~Allows(d, f) -> "zero"
      [] Allows(d, f) /\ Lower[f] \in d.maskers -> "masked"
      [] OTHER -> "value"

-----------------------------------------------------------------------------
(* Queries.                                                                *)

\* The rows all criteria let through: filters, guard, row filter.
Matching(ids, fs, p) == {i \in ids \cap Scope \cap p.rows : \A f \in fs : i \in Meets[f]}

\* LIMIT and OFFSET, which bun leaves out unless they are positive.
Page(ids, l, o) ==
    {i \in ids : LET before == Cardinality({j \in ids : j < i})
                 IN  before >= o /\ (l > 0 => before < (IF o > 0 THEN o ELSE 0) + l)}

\* normalizePagination: the offset, and the number of the page it is on.
LastPage(l, n) == (((n + l - 1) \div l) - 1) * l
NormalOffset(l, o, n) ==
    CASE n <= 0 \/ o < 0 -> 0
      [] n > 0 /\ o >= n -> IF l > 0 THEN LastPage(l, n) ELSE 0
      [] OTHER -> o
PageNumber(l, o, n) == IF n > 0 /\ l > 0 THEN (o \div l) + 1 ELSE 1

Applied == filters \cap Queryable(Resolve(policy))
Moved == count > 0 /\ NormalOffset(limit, offset, count) # offset

-----------------------------------------------------------------------------
(* Fault: as below, with one plausible bug, named by PROJECT.json.         *)

\* The second query is made from the pagination alone.
ReadRowsUnfiltered ==
    /\ pc \in {"query", "again"}
    /\ "rows" \in todo
    /\ rows' = Page(IF pc = "query" THEN Matching(present, Applied, policy) ELSE present,
                    limit, offset)
    /\ todo' = todo \ {"rows"}
    /\ UNCHANGED <<present, changes, since, pc, limit, filters, policy, count, offset, page, shown>>

-----------------------------------------------------------------------------
(* The repository under the hands of others.                               *)

Change ==
    /\ changes < MaxChanges
    /\ changes' = changes + 1
    /\ \E i \in Id : present' = IF i \in present THEN present \ {i} ELSE present \cup {i}
    /\ since' = since \cup {present'}
    /\ UNCHANGED requestVars

-----------------------------------------------------------------------------
(* The request.                                                            *)

LInit ==
    /\ present \in SUBSET Id
    /\ changes = 0
    /\ pc = "idle"
    /\ limit = 0 /\ offset = 0
    /\ filters = {}
    /\ policy = [allow |-> {}, deny |-> {}, mask |-> {}, rows |-> Id]
    /\ todo = {} /\ rows = {} /\ count = 0 /\ page = 1
    /\ shown = [f \in Field |-> "zero"]
    /\ since = {present}

\* Guard, policy provider and query builder have agreed to the request.
Accept ==
    /\ pc = "idle"
    /\ limit' \in Limits
    /\ offset' \in Offsets
    /\ filters' \in Filters
    /\ policy' \in Policy
    /\ pc' = "query"
    /\ todo' = {"rows", "count"}
    /\ since' = {present}
    /\ UNCHANGED <<present, changes, rows, count, page, shown>>

\* One of them refuses it.
Refuse ==
    /\ pc = "idle"
    /\ pc' = "failed"
    /\ UNCHANGED <<present, changes, since, limit, filters, policy, todo, rows, count, offset,
                   page, shown>>

\* svc.Index: the rows.
ReadRows ==
    /\ pc \in {"query", "again"}
    /\ "rows" \in todo
    /\ rows' = Page(Matching(present, Applied, policy), limit, offset)
    /\ todo' = todo \ {"rows"}
    /\ UNCHANGED <<present, changes, since, pc, limit, filters, policy, count, offset, page, shown>>

\* svc.Index: the count, without LIMIT and OFFSET. That of the second query is dropped.
CountRows ==
    /\ pc = "query"
    /\ "count" \in todo
    /\ count' = Cardinality(Matching(present, Applied, policy))
    /\ todo' = todo \ {"count"}
    /\ UNCHANGED <<present, changes, since, pc, limit, filters, policy, rows, offset, page, shown>>

\* The repository or an AfterList hook fails.
QueryFails ==
    /\ pc \in {"query", "again"}
    /\ pc' = "failed"
    /\ UNCHANGED <<present, changes, since, limit, filters, policy, todo, rows, count, offset,
                   page, shown>>

\* The offset lies outside of what there is: ask for the page that is there.
QueryAgain ==
    /\ pc = "query"
    /\ todo = {}
    /\ Moved
    /\ offset' = NormalOffset(limit, offset, count)
    /\ pc' = "again"
    /\ todo' = {"rows"}
    /\ UNCHANGED <<present, changes, since, limit, filters, policy, rows, count, page, shown>>

\* Policy on the rows, pagination into the answer.
Respond ==
    /\ pc \in {"query", "again"}
    /\ todo = {}
    /\ pc = "query" => ~Moved
    /\ pc' = "answered"
    /\ offset' = NormalOffset(limit, offset, count)
    /\ page' = PageNumber(limit, offset', count)
    /\ shown' = [f \in Field |-> Show(Resolve(policy), f)]
    /\ UNCHANGED <<present, changes, since, limit, filters, policy, todo, rows, count>>

LNext ==
    \/ Accept \/ Refuse
    \/ ReadRows \/ CountRows \/ QueryFails
    \/ QueryAgain \/ Respond
    \/ Change

LSpec == LInit /\ [][LNext]_lvars

-----------------------------------------------------------------------------
(* Properties.                                                             *)

\* What the variables hold. The offset sent to the database in a second
\* query, or in an answer, is never negative.
LTypeOK ==
    /\ present \subseteq Id
    /\ changes \in 0 .. MaxChanges
    /\ pc \in {"idle", "query", "again", "answered", "failed"}
    /\ limit \in Nat
    /\ filters \subseteq Name
    /\ policy \in PolicyShape
    /\ todo \subseteq {"rows", "count"}
    /\ rows \subseteq Id
    /\ count \in Nat
    /\ offset \in Int /\ (pc \in {"again", "answered"} => offset >= 0)
    /\ page \in Nat \ {0}
    /\ shown \in [Field -> {"zero", "masked", "value"}]
    /\ since \subseteq SUBSET Id

\* What a policy says of a field, whatever the spelling.
Names(names, f) == \E n \in names : Lower[n] = Lower[f]

\* The fields a policy leaves: those of the allow list, or all where it names
\* none, without those of the deny list.
Permitted(p) ==
    {f \in Field : /\ (\E g \in Field : Names(p.allow, g)) => Names(p.allow, f)
                   /\ ~Names(p.deny, f)}

\* The filters that count: all on permitted fields, and no other, "the query
\* builder drops disallowed fields automatically" (README.md).
Wanted(ids) == Matching(ids, filters \cap Permitted(policy), policy)

\* An answer tells of the repository during the request: its count and its
\* rows are each right for some moment of it, the rows for the offset that is
\* reported (when the count was nought that is only reset, and the rows are
\* those of the first query). A policy that leaves no field is left out: Index then
\* takes filters on all of them.
AnswersFromItsTime ==
    pc = "answered" /\ Permitted(policy) # {} =>
        /\ \E ids \in since : count = Cardinality(Wanted(ids))
        /\ count > 0 => \E ids \in since : rows = Page(Wanted(ids), limit, offset)
        /\ count = 0 => \E ids \in since : rows \subseteq Wanted(ids)

\* The answer is on a page that its count allows: offset and page number agree,
\* and there are rows unless some have gone during the request.
PageHasRows ==
    pc = "answered" =>
        /\ count > 0 => offset \in 0 .. count - 1
        /\ count = 0 => offset = 0
        /\ limit > 0 => (page - 1) * limit <= offset /\ offset < page * limit
        /\ since = {present} /\ count > 0 => rows # {}

\* "Deny removes the listed JSON field names from the response/queryable set"
\* (field_policy.go), and a mask "runs before the response is serialized"
\* (README.md): no answer has the value of a field that its policy denies or masks.
PolicyIsKept ==
    pc = "answered" /\ rows # {} =>
        \A f \in Field : Names(policy.deny, f) \/ Names(policy.mask, f) => shown[f] # "value"

=============================================================================
