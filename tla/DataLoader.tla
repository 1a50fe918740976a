----------------------------- MODULE DataLoader -----------------------------
(***************************************************************************)
(* The generated data loader of the relationships example, and the fields  *)
(* that read through it at the same time.                                  *)
(*                                                                         *)
(* Every relation has its loader, and every loader is one of two generic   *)
(* kinds. This module has the three that lead to authors: AuthorByID, an   *)
(* entityLoader (an author by key); TagAuthors, a groupLoader over a pivot *)
(* table, which goes on to AuthorByID; PublishingHouseAuthors, a           *)
(* groupLoader over a column of the target. The others are copies under    *)
(* other names.                                                            *)
(*                                                                         *)
(* LoadMany holds the mutex of its cache twice, to look and to store, and  *)
(* queries in between without it: each is a step. A field brings one key,  *)
(* the only call the resolvers make (Load); the inner LoadMany brings      *)
(* many. A field whose object carries the relation does not get here.      *)
(*                                                                         *)
(* A record is its id and a version; a row that the scope of the request   *)
(* leaves out is a row that is not there. A group is sorted by id, so it   *)
(* is the map from its ids to its records.                                 *)
(***************************************************************************)
EXTENDS Naturals, FiniteSets

CONSTANTS
    Author, Tag, House,  \* ids, all different
    Field,               \* fields of a query that are resolved side by side
    Operation,           \* operations that share the loader
    NoKey,
    MaxVersion           \* bound: versions of a row

ASSUME LoaderAssumption ==
    /\ Author \cap Tag = {} /\ Author \cap House = {} /\ Tag \cap House = {}
    /\ NoKey \notin Author \cup Tag \cup House
    /\ MaxVersion \in Nat \ {0}

VARIABLES
    row,         \* the authors: the version of each row, 0 when there is none
    links,       \* author_tags: the authors of each tag
    publisher,   \* authors.publisher_id
    authors,     \* AuthorByID.cache
    groups,      \* TagAuthors.cache and PublishingHouseAuthors.cache
    running,     \* operations that have begun
    operation,   \* the operation each field belongs to
    pc, key,     \* where each field is, and the key it loads
    asked,       \* the keys of its call of AuthorByID.LoadMany
    result,      \* the map LoadMany builds for it, its answer in the end
    fetched,     \* what its query returned
    pastRows,    \* history: what each row was since each operation began
    pastLinks    \* history: the authors each tag had since then

database == <<row, links, publisher>>
caches == <<authors, groups>>
calls == <<pc, key, asked, result, fetched>>
history == <<running, operation, pastRows, pastLinks>>
dvars == <<database, caches, calls, history>>

Key == Author \cup Tag \cup House
Version == 1..MaxVersion
Records == UNION {[A -> Version] : A \in SUBSET Author}

\* The types, and the key that each place of a field allows.
DTypeOK ==
    /\ row \in [Author -> 0..MaxVersion]
    /\ links \in [Tag -> SUBSET Author]
    /\ publisher \in [Author -> House]
    /\ authors \in Records
    /\ DOMAIN groups \subseteq Tag \cup House
    /\ \A k \in DOMAIN groups : groups[k] \in Records
    /\ running \subseteq Operation
    /\ operation \in [Field -> Operation]
    /\ pc \in [Field -> {"idle", "links", "lookup", "rows", "store", "byId",
                         "group", "done", "failed"}]
    /\ key \in [Field -> Key \cup {NoKey}]
    /\ \A f \in Field :
          /\ pc[f] = "links" => key[f] \in Tag
          /\ pc[f] = "byId" => key[f] \in House
          /\ pc[f] \in {"lookup", "rows", "store"} => key[f] \in Author \cup Tag
          /\ pc[f] = "group" => key[f] \in Tag \cup House
          /\ pc[f] = "done" => key[f] \in Key
    /\ asked \in [Field -> SUBSET Author]
    /\ result \in [Field -> Records]
    /\ fetched \in [Field -> Records]
    /\ pastRows \in [Operation -> [Author -> SUBSET (0..MaxVersion)]]
    /\ pastLinks \in [Operation -> [Tag -> SUBSET SUBSET Author]]

\* Go maps: the part of one with keys in S, and one written over another.
Part(m, S) == [k \in DOMAIN m \cap S |-> m[k]]
Over(m, n) == [k \in DOMAIN m \cup DOMAIN n |->
                  IF k \in DOMAIN m THEN m[k] ELSE n[k]]
Nothing == [a \in {} |-> 0]

DInit ==
    /\ row \in [Author -> 0..1]
    /\ links \in [Tag -> SUBSET Author]
    /\ publisher \in [Author -> House]
    /\ authors = Nothing /\ groups = Nothing
    /\ running = {}
    /\ operation \in [Field -> Operation]
    /\ pc = [f \in Field |-> "idle"]
    /\ key = [f \in Field |-> NoKey]
    /\ asked = [f \in Field |-> {}]
    /\ result = [f \in Field |-> Nothing]
    /\ fetched = [f \in Field |-> Nothing]
    /\ pastRows = [o \in Operation |-> [a \in Author |-> {}]]
    /\ pastLinks = [o \in Operation |-> [t \in Tag |-> {}]]

-----------------------------------------------------------------------------
(* The database and the operations around the loader.                      *)

\* Other requests write to the database while this loader lives.
Write(r, l) ==
    /\ row' = r /\ links' = l
    /\ pastRows' = [o \in Operation |-> [a \in Author |->
          pastRows[o][a] \cup IF o \in running THEN {r[a]} ELSE {}]]
    /\ pastLinks' = [o \in Operation |-> [t \in Tag |->
          pastLinks[o][t] \cup IF o \in running THEN {l[t]} ELSE {}]]
    /\ UNCHANGED <<publisher, caches, calls, running, operation>>

\* updateAuthor or deleteAuthor, and a change to the pivot table.
WriteAuthor(a) ==
    /\ row[a] # 0
    /\ \E v \in {0, row[a] + 1} :
          v <= MaxVersion /\ Write([row EXCEPT ![a] = v], links)
WriteLinks(t, A) == A # links[t] /\ Write(row, [links EXCEPT ![t] = A])

\* A request begins, or a client starts an operation on its connection.
Begin(o) ==
    /\ o \notin running
    /\ running' = running \cup {o}
    /\ pastRows' = [pastRows EXCEPT ![o] = [a \in Author |-> {row[a]}]]
    /\ pastLinks' = [pastLinks EXCEPT ![o] = [t \in Tag |-> {links[t]}]]
    /\ UNCHANGED <<database, caches, calls, operation>>

-----------------------------------------------------------------------------
(* A field.                                                                *)

Goto(f, l) == pc' = [pc EXCEPT ![f] = l]

\* Where AuthorByID.LoadMany returns to.
AfterAuthors(f) == IF key[f] \in Tag THEN "group" ELSE "done"

(* Faults: an action with one plausible bug, named by PROJECT.json.        *)

\* LoadMany remembers the keys it has found nothing for.
StoresAbsent(f) ==
    /\ pc[f] = "store"
    /\ result' = [result EXCEPT ![f] = Over(fetched[f], result[f])]
    /\ authors' = Over(result'[f], Over(authors, [a \in asked[f] |-> 0]))
    /\ Goto(f, AfterAuthors(f))
    /\ UNCHANGED <<database, groups, key, asked, fetched, history>>

\* A query that fails counts as one that found nothing.
SwallowsError(f) ==
    /\ pc[f] \in {"links", "rows", "byId"}
    /\ Goto(f, IF pc[f] = "rows" THEN "store" ELSE "group")
    /\ UNCHANGED <<database, caches, key, asked, result, fetched, history>>

(* The steps of a field.                                                   *)

\* The resolvers' loader.X.Load(ctx, key). A groupLoader looks into its
\* cache at once; an entityLoader does so in Lookup.
Load(f, k) ==
    /\ pc[f] = "idle" /\ operation[f] \in running
    /\ key' = [key EXCEPT ![f] = k]
    /\ \/ /\ k \in DOMAIN groups
          /\ Goto(f, "done")
          /\ result' = [result EXCEPT ![f] = groups[k]]
          /\ UNCHANGED asked
       \/ /\ k \in Tag \ DOMAIN groups
          /\ Goto(f, "links")
          /\ UNCHANGED <<asked, result>>
       \/ /\ k \in House \ DOMAIN groups
          /\ Goto(f, "byId")
          /\ UNCHANGED <<asked, result>>
       \/ /\ k \in Author
          /\ Goto(f, "lookup")
          /\ asked' = [asked EXCEPT ![f] = {k}]
          /\ UNCHANGED result
    /\ UNCHANGED <<database, caches, fetched, history>>

\* fetchTagAuthors asks the pivot table for the authors of its tag.
FetchPivotLinks(f) ==
    /\ pc[f] = "links"
    /\ Goto(f, "lookup")
    /\ asked' = [asked EXCEPT ![f] = links[key[f]]]
    /\ UNCHANGED <<database, caches, key, result, fetched, history>>

\* AuthorByID.LoadMany, the first time it has the mutex.
Lookup(f) ==
    /\ pc[f] = "lookup"
    /\ result' = [result EXCEPT ![f] = Part(authors, asked[f])]
    /\ Goto(f, IF asked[f] \subseteq DOMAIN authors THEN AfterAuthors(f) ELSE "rows")
    /\ UNCHANGED <<database, caches, key, asked, fetched, history>>

\* The rows with an id in S.
Rows(S) == [a \in {b \in Author \cap S : row[b] # 0} |-> row[a]]

\* fetchAuthorByID asks for the keys that were not in the cache.
FetchAuthorByID(f) ==
    /\ pc[f] = "rows"
    /\ fetched' = [fetched EXCEPT ![f] = Rows(asked[f] \ DOMAIN result[f])]
    /\ Goto(f, "store")
    /\ UNCHANGED <<database, caches, key, asked, result, history>>

\* AuthorByID.LoadMany, the second time it has the mutex.
Store(f) ==
    /\ pc[f] = "store"
    /\ authors' = Over(fetched[f], authors)
    /\ result' = [result EXCEPT ![f] = Over(fetched[f], result[f])]
    /\ Goto(f, AfterAuthors(f))
    /\ UNCHANGED <<database, groups, key, asked, fetched, history>>

\* fetchPublishingHouseAuthors asks for authors by id, and groups what it
\* gets by id: a group is the record whose id is its key.
FetchPublishingHouseAuthors(f) ==
    /\ pc[f] = "byId"
    /\ result' = [result EXCEPT ![f] = Rows({key[f]})]
    /\ Goto(f, "group")
    /\ UNCHANGED <<database, caches, key, asked, fetched, history>>

\* The second critical section of a groupLoader: an empty group is stored.
StoreGroup(f) ==
    /\ pc[f] = "group"
    /\ groups' = Over([k \in {key[f]} |-> result[f]], groups)
    /\ Goto(f, "done")
    /\ UNCHANGED <<database, authors, key, asked, result, fetched, history>>

\* A query fails; nothing has been stored on the way.
Fail(f) ==
    /\ pc[f] \in {"links", "rows", "byId"}
    /\ Goto(f, "failed")
    /\ UNCHANGED <<database, caches, key, asked, result, fetched, history>>

FieldStep(f) ==
    \/ \E k \in Key : Load(f, k)
    \/ FetchPivotLinks(f)
    \/ Lookup(f)
    \/ FetchAuthorByID(f)
    \/ Store(f)
    \/ FetchPublishingHouseAuthors(f)
    \/ StoreGroup(f)
    \/ Fail(f)

DNext ==
    \/ \E a \in Author : WriteAuthor(a)
    \/ \E t \in Tag, A \in SUBSET Author : WriteLinks(t, A)
    \/ \E o \in Operation : Begin(o)
    \/ \E f \in Field : FieldStep(f)

DSpec == DInit /\ [][DNext]_dvars

-----------------------------------------------------------------------------
(* Properties.                                                             *)

\* m answers for the authors in A, each as it was at some time in "past";
\* an author is left out only if it was not there at some time.
Answers(m, A, past) ==
    /\ DOMAIN m \subseteq A
    /\ \A a \in A : IF a \in DOMAIN m THEN m[a] \in past[a] ELSE 0 \in past[a]

\* What a field gets, from its own query or from what another left in the
\* caches, was so while the operation it belongs to was running: no author
\* of its tag is missing that was always there, no failed query has become
\* an empty answer, no record is older than the operation. (LoadMany, both;
\* fetchTagAuthors. A loader of one request only: internal/loader.)
AnswersOfTheirOperation ==
    \A f \in Field : pc[f] = "done" =>
        LET rows == pastRows[operation[f]]
        IN  /\ key[f] \in Author => Answers(result[f], {key[f]}, rows)
            /\ key[f] \in Tag =>
                  \E A \in pastLinks[operation[f]][key[f]] : Answers(result[f], A, rows)

\* What the example's queries expect of a has-many relation: a field of a
\* publishing house answers with the authors that name the house.
HasManyIsFound ==
    \A f \in Field : pc[f] = "done" /\ key[f] \in House =>
        \A a \in Author :
            publisher[a] = key[f] /\ 0 \notin pastRows[operation[f]][a]
                => a \in DOMAIN result[f]

\* What the comment on Loader says: fields of one operation that look for
\* the same relation at the same time share a query.
LookupsAreBatched ==
    \A f, g \in Field :
        /\ operation[f] = operation[g]
        /\ pc[f] = "links" /\ pc[g] = "links"
        => f = g

=============================================================================
