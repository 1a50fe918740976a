-------------------------- MODULE DataLoaderProofs --------------------------
(***************************************************************************)
(* What fields get from a loader, for any fields, authors, tags, houses    *)
(* and operations: one that serves a single request, and one that lives as *)
(* long as a WebSocket connection.                                         *)
(***************************************************************************)
EXTENDS DataLoader, TLAPS

-----------------------------------------------------------------------------
(* Maps.                                                                   *)

LEMMA RecordsAre ==
    ASSUME NEW m
    PROVE  m \in Records <=> \E A \in SUBSET Author : m \in [A -> Version]
BY DEF Records

LEMMA NothingIsRecords == Nothing \in Records /\ DOMAIN Nothing = {}
<1>1. Nothing \in [{} -> Version] /\ DOMAIN Nothing = {}
  BY DEF Nothing
<1> QED
  BY <1>1, RecordsAre

LEMMA PartIsRecords ==
    ASSUME NEW m \in Records, NEW S
    PROVE  Part(m, S) \in Records /\ DOMAIN Part(m, S) = DOMAIN m \cap S
<1>1. PICK A \in SUBSET Author : m \in [A -> Version]
  BY RecordsAre
<1>2. Part(m, S) \in [A \cap S -> Version] /\ A \cap S \in SUBSET Author
  BY <1>1 DEF Part
<1> QED
  BY <1>1, <1>2, RecordsAre DEF Part

LEMMA OverIsRecords ==
    ASSUME NEW m \in Records, NEW n \in Records
    PROVE  /\ Over(m, n) \in Records
           /\ DOMAIN Over(m, n) = DOMAIN m \cup DOMAIN n
<1>1. PICK A \in SUBSET Author : m \in [A -> Version]
  BY RecordsAre
<1>2. PICK B \in SUBSET Author : n \in [B -> Version]
  BY RecordsAre
<1>3. Over(m, n) \in [A \cup B -> Version] /\ A \cup B \in SUBSET Author
  BY <1>1, <1>2 DEF Over
<1> QED
  BY <1>1, <1>2, <1>3, RecordsAre DEF Over

LEMMA RowsAreRecords ==
    ASSUME DTypeOK, NEW S
    PROVE  Rows(S) \in Records
<1> DEFINE A == {b \in Author \cap S : row[b] # 0}
<1>1. Rows(S) \in [A -> Version] /\ A \in SUBSET Author
  BY LoaderAssumption DEF Rows, DTypeOK, Version
<1> QED
  BY <1>1, RecordsAre

-----------------------------------------------------------------------------
(* Types.                                                                  *)

\* The loader keeps its types: its caches hold records of authors, never an
\* entry for an author that was not found.
THEOREM TypeCorrect == DSpec => []DTypeOK
<1>1. DInit => DTypeOK
  <2> SUFFICES ASSUME DInit PROVE DTypeOK
    OBVIOUS
  <2>1. 0..1 \subseteq 0..MaxVersion
    BY LoaderAssumption
  <2>2. row \in [Author -> 0..MaxVersion]
    BY <2>1 DEF DInit
  <2>3. /\ groups = Nothing => DOMAIN groups = {}
        /\ authors \in Records /\ groups = Nothing
        /\ result \in [Field -> Records] /\ fetched \in [Field -> Records]
    BY NothingIsRecords DEF DInit
  <2> QED
    BY <2>2, <2>3 DEF DInit, DTypeOK
<1>2. DTypeOK /\ [DNext]_dvars => DTypeOK'
  <2> SUFFICES ASSUME DTypeOK, [DNext]_dvars PROVE DTypeOK'
    OBVIOUS
  <2> USE DEF database, caches, calls, history
  <2>1. ASSUME NEW a \in Author, WriteAuthor(a) PROVE DTypeOK'
    <3>1. PICK v \in {0, row[a] + 1} :
              v <= MaxVersion /\ Write([row EXCEPT ![a] = v], links)
      BY <2>1 DEF WriteAuthor
    <3>2. v \in 0..MaxVersion
      BY <3>1, LoaderAssumption DEF DTypeOK
    <3> QED
      BY <3>1, <3>2 DEF Write, DTypeOK
  <2>2. ASSUME NEW t \in Tag, NEW A \in SUBSET Author, WriteLinks(t, A)
        PROVE  DTypeOK'
    BY <2>2 DEF WriteLinks, Write, DTypeOK
  <2>3. ASSUME NEW o \in Operation, Begin(o) PROVE DTypeOK'
    BY <2>3 DEF Begin, DTypeOK
  <2>4. ASSUME NEW f \in Field, FieldStep(f) PROVE DTypeOK'
    <3>1. ASSUME NEW k \in Key, Load(f, k) PROVE DTypeOK'
      <4>0. asked' \in [Field -> SUBSET Author]
        <5>1. \/ asked' = asked
              \/ k \in Author /\ asked' = [asked EXCEPT ![f] = {k}]
          BY <3>1 DEF Load
        <5>2. k \in Author => {k} \in SUBSET Author
          OBVIOUS
        <5> QED
          BY <5>1, <5>2 DEF DTypeOK
      <4>1. result' \in [Field -> Records]
        <5>1. CASE k \in DOMAIN groups /\ result' = [result EXCEPT ![f] = groups[k]]
          BY <5>1 DEF DTypeOK
        <5>2. CASE UNCHANGED result
          BY <5>2 DEF DTypeOK
        <5> QED
          BY <3>1, <5>1, <5>2 DEF Load
      <4>2. PICK l \in {"done", "links", "byId", "lookup"} :
              /\ pc' = [pc EXCEPT ![f] = l]
              /\ l = "links" => k \in Tag
              /\ l = "byId" => k \in House
              /\ l = "lookup" => k \in Author
        BY <3>1 DEF Load, Goto
      <4>3. /\ key' = [key EXCEPT ![f] = k]
            /\ UNCHANGED <<database, caches, fetched, history>>
        BY <3>1 DEF Load
      <4>4. /\ pc' \in [Field -> {"idle", "links", "lookup", "rows", "store", "byId",
                                  "group", "done", "failed"}]
            /\ key' \in [Field -> Key \cup {NoKey}]
        BY <4>2, <4>3 DEF DTypeOK
      <4>5. ASSUME NEW g \in Field
            PROVE  /\ pc'[g] = "links" => key'[g] \in Tag
                   /\ pc'[g] = "byId" => key'[g] \in House
                   /\ pc'[g] \in {"lookup", "rows", "store"} => key'[g] \in Author \cup Tag
                   /\ pc'[g] = "group" => key'[g] \in Tag \cup House
                   /\ pc'[g] = "done" => key'[g] \in Key
        <5>1. CASE g = f
          BY <4>2, <4>3, <5>1 DEF DTypeOK
        <5>2. CASE g # f
          BY <4>2, <4>3, <5>2 DEF DTypeOK
        <5> QED
          BY <5>1, <5>2
      <4> QED
        BY <4>0, <4>1, <4>3, <4>4, <4>5 DEF DTypeOK
    <3>2. CASE FetchPivotLinks(f)
      <4>1. links[key[f]] \in SUBSET Author
        BY <3>2 DEF FetchPivotLinks, DTypeOK
      <4> QED
        BY <3>2, <4>1 DEF FetchPivotLinks, Goto, DTypeOK
    <3>3. CASE Lookup(f)
      <4>1. Part(authors, asked[f]) \in Records
        BY PartIsRecords DEF DTypeOK
      <4> QED
        BY <3>3, <4>1 DEF Lookup, Goto, AfterAuthors, DTypeOK, Key
    <3>4. CASE FetchAuthorByID(f)
      <4>1. Rows(asked[f] \ DOMAIN result[f]) \in Records
        BY RowsAreRecords
      <4> QED
        BY <3>4, <4>1 DEF FetchAuthorByID, Goto, DTypeOK
    <3>5. CASE Store(f)
      <4>1. /\ Over(fetched[f], authors) \in Records
            /\ Over(fetched[f], result[f]) \in Records
        BY OverIsRecords DEF DTypeOK
      <4> QED
        BY <3>5, <4>1 DEF Store, Goto, AfterAuthors, DTypeOK, Key
    <3>6. CASE FetchPublishingHouseAuthors(f)
      <4>1. Rows({key[f]}) \in Records
        BY RowsAreRecords
      <4> QED
        BY <3>6, <4>1 DEF FetchPublishingHouseAuthors, Goto, DTypeOK
    <3>7. CASE StoreGroup(f)
      <4>1. /\ DOMAIN groups' = {key[f]} \cup DOMAIN groups
            /\ \A k \in DOMAIN groups' :
                  groups'[k] = IF k = key[f] THEN result[f] ELSE groups[k]
        BY <3>7 DEF StoreGroup, Over
      <4>2. /\ key[f] \in Tag \cup House
            /\ result[f] \in Records
        BY <3>7 DEF StoreGroup, DTypeOK
      <4>3. /\ DOMAIN groups' \subseteq Tag \cup House
            /\ \A k \in DOMAIN groups' : groups'[k] \in Records
        BY <4>1, <4>2 DEF DTypeOK
      <4> QED
        BY <3>7, <4>2, <4>3 DEF StoreGroup, Goto, DTypeOK, Key
    <3>8. CASE Fail(f)
      BY <3>8 DEF Fail, Goto, DTypeOK
    <3> QED
      BY <2>4, <3>1, <3>2, <3>3, <3>4, <3>5, <3>6, <3>7, <3>8 DEF FieldStep
  <2>5. CASE UNCHANGED dvars
    BY <2>5 DEF dvars, DTypeOK
  <2> QED
    BY <2>1, <2>2, <2>3, <2>4, <2>5 DEF DNext
<1> QED
  BY <1>1, <1>2, PTL DEF DSpec

-----------------------------------------------------------------------------
(* Answers.                                                                *)

\* What rows and links have been since the first operation of the loader began.
EverRow == [a \in Author |-> UNION {pastRows[o][a] : o \in Operation}]
EverLinks == [t \in Tag |-> UNION {pastLinks[o][t] : o \in Operation}]

\* What a field at each place knows, by the history of the loader.
Knows(f) ==
    LET rows == EverRow
        sets == EverLinks
        Asks == \/ key[f] \in Author /\ asked[f] = {key[f]}
                \/ key[f] \in Tag /\ asked[f] \in sets[key[f]]
    IN  /\ pc[f] # "idle" => operation[f] \in running
        /\ pc[f] \in {"lookup", "rows", "store"} => Asks
        /\ pc[f] = "rows" => /\ DOMAIN result[f] \subseteq asked[f]
                             /\ \A a \in DOMAIN result[f] : result[f][a] \in rows[a]
        /\ pc[f] = "store" => Answers(Over(fetched[f], result[f]), asked[f], rows)
        /\ pc[f] = "store" =>
              \A a \in DOMAIN fetched[f] : fetched[f][a] \in rows[a]
        /\ pc[f] = "done" /\ key[f] \in Author => Answers(result[f], {key[f]}, rows)
        /\ pc[f] \in {"group", "done"} /\ key[f] \in Tag =>
              \E A \in sets[key[f]] : Answers(result[f], A, rows)

\* What the caches hold was so since the first operation began.
Cached ==
    /\ \A a \in DOMAIN authors : authors[a] \in EverRow[a]
    /\ \A t \in DOMAIN groups \cap Tag :
          \E A \in EverLinks[t] : Answers(groups[t], A, EverRow)

\* The history starts with the operation and keeps up with the database.
Followed(o) ==
    /\ o \in running => /\ \A a \in Author : row[a] \in pastRows[o][a]
                        /\ \A t \in Tag : links[t] \in pastLinks[o][t]
    /\ o \notin running => /\ \A a \in Author : pastRows[o][a] = {}
                           /\ \A t \in Tag : pastLinks[o][t] = {}

DInv ==
    /\ \A o \in Operation : Followed(o)
    /\ Cached
    /\ \A f \in Field : Knows(f)

\* The history of a running operation only grows.
Grown ==
    \A o \in Operation :
        /\ \A a \in Author : pastRows[o][a] \subseteq pastRows'[o][a]
        /\ \A t \in Tag : pastLinks[o][t] \subseteq pastLinks'[o][t]

\* So does that of the loader, and each running operation is part of it.
LEMMA EverGrows ==
    ASSUME Grown
    PROVE  /\ \A a \in Author : EverRow[a] \subseteq EverRow'[a]
           /\ \A t \in Tag : EverLinks[t] \subseteq EverLinks'[t]
BY DEF Grown, EverRow, EverLinks

LEMMA EverFollows ==
    ASSUME NEW o \in Operation, o \in running, Followed(o)
    PROVE  /\ \A a \in Author : row[a] \in EverRow[a]
           /\ \A t \in Tag : links[t] \in EverLinks[t]
BY DEF Followed, EverRow, EverLinks

LEMMA EverTyped ==
    ASSUME DTypeOK
    PROVE  EverLinks \in [Tag -> SUBSET SUBSET Author]
<1> SUFFICES ASSUME NEW t \in Tag
             PROVE  UNION {pastLinks[o][t] : o \in Operation} \subseteq SUBSET Author
  BY DEF EverLinks
<1>1. \A o \in Operation : pastLinks[o][t] \subseteq SUBSET Author
  BY DEF DTypeOK
<1> QED
  BY <1>1

LEMMA AnswersGrow ==
    ASSUME NEW m, NEW A \in SUBSET Author, NEW p, NEW r,
           \A a \in Author : p[a] \subseteq r[a], Answers(m, A, p)
    PROVE  Answers(m, A, r)
BY DEF Answers

\* A step that leaves a field alone leaves it what it knows.
LEMMA StillKnows ==
    ASSUME DTypeOK, Grown, UNCHANGED operation, running \subseteq running',
           NEW f \in Field, Knows(f),
           pc'[f] = pc[f], key'[f] = key[f], asked'[f] = asked[f],
           result'[f] = result[f], fetched'[f] = fetched[f]
    PROVE  Knows(f)'
<1> DEFINE o == operation[f]
           rows == EverRow
           sets == EverLinks
<1>1. /\ o \in Operation /\ operation'[f] = o
      /\ \A a \in Author : rows[a] \subseteq rows'[a]
      /\ \A t \in Tag : sets[t] \subseteq sets'[t]
  BY EverGrows DEF DTypeOK
<1>2. asked[f] \in SUBSET Author /\ \A t \in Tag : sets[t] \subseteq SUBSET Author
  BY EverTyped DEF DTypeOK
<1> HIDE DEF rows, sets
<1>3. pc[f] = "store" => Answers(Over(fetched[f], result[f]), asked[f], rows)'
  <2> SUFFICES ASSUME pc[f] = "store"
      PROVE  Answers(Over(fetched[f], result[f]), asked[f], rows')
    BY <1>1 DEF Over
  <2>1. Answers(Over(fetched[f], result[f]), asked[f], rows)
    BY DEF Knows, rows, sets
  <2> QED
    BY <1>1, <1>2, <2>1, AnswersGrow
<1>4. pc[f] = "done" /\ key[f] \in Author => Answers(result[f], {key[f]}, rows')
  <2> SUFFICES ASSUME pc[f] = "done", key[f] \in Author
      PROVE  Answers(result[f], {key[f]}, rows')
    OBVIOUS
  <2>1. Answers(result[f], {key[f]}, rows) /\ {key[f]} \in SUBSET Author
    BY DEF Knows, rows, sets
  <2> QED
    BY <1>1, <2>1, AnswersGrow
<1>5. pc[f] \in {"group", "done"} /\ key[f] \in Tag =>
        \E A \in sets'[key[f]] : Answers(result[f], A, rows')
  <2> SUFFICES ASSUME pc[f] \in {"group", "done"}, key[f] \in Tag
      PROVE  \E A \in sets'[key[f]] : Answers(result[f], A, rows')
    OBVIOUS
  <2>1. PICK A \in sets[key[f]] : Answers(result[f], A, rows)
    BY DEF Knows, rows, sets
  <2>2. A \in SUBSET Author /\ A \in sets'[key[f]]
    BY <1>1, <1>2
  <2>3. Answers(result[f], A, rows')
    BY <1>1, <2>1, <2>2, AnswersGrow
  <2> QED
    BY <2>2, <2>3
<1>6. /\ pc[f] # "idle" => o \in running'
      /\ pc[f] \in {"lookup", "rows", "store"} =>
            \/ key[f] \in Author /\ asked[f] = {key[f]}
            \/ key[f] \in Tag /\ asked[f] \in sets'[key[f]]
  BY <1>1 DEF Knows, rows, sets
<1>7. pc[f] = "rows" => /\ DOMAIN result[f] \subseteq asked[f]
                        /\ \A a \in DOMAIN result[f] : result[f][a] \in rows'[a]
  BY <1>1, <1>2 DEF Knows, rows, sets
<1>8. pc[f] = "store" => \A a \in DOMAIN fetched[f] : fetched[f][a] \in rows'[a]
  <2>1. DOMAIN fetched[f] \subseteq Author
    BY RecordsAre DEF DTypeOK
  <2> QED
    BY <1>1, <2>1 DEF Knows, rows, sets
<1> QED
  BY <1>1, <1>3, <1>4, <1>5, <1>6, <1>7, <1>8 DEF Knows, rows, sets

\* Every step keeps the history in step with the database, and only adds.
LEMMA Follows ==
    ASSUME DTypeOK, \A o \in Operation : Followed(o), [DNext]_dvars
    PROVE  /\ Grown /\ UNCHANGED operation /\ running \subseteq running'
           /\ \A o \in Operation : Followed(o)'
<1> USE DEF database, caches, calls, history
<1>1. ASSUME NEW r \in [Author -> Nat], NEW l \in [Tag -> SUBSET Author], Write(r, l)
      PROVE  /\ Grown /\ UNCHANGED operation /\ running \subseteq running'
             /\ \A o \in Operation : Followed(o)'
  BY <1>1 DEF Write, Grown, Followed
<1>2. ASSUME NEW a \in Author, WriteAuthor(a)
      PROVE  \E r \in [Author -> Nat] : Write(r, links)
  <2>1. PICK v \in {0, row[a] + 1} : Write([row EXCEPT ![a] = v], links)
    BY <1>2 DEF WriteAuthor
  <2>2. row \in [Author -> Nat] /\ v \in Nat
    BY <2>1, LoaderAssumption DEF DTypeOK
  <2> QED
    BY <2>1, <2>2
<1>3. ASSUME NEW t \in Tag, NEW A \in SUBSET Author, WriteLinks(t, A)
      PROVE  \E l \in [Tag -> SUBSET Author] : Write(row, l)
  BY <1>3 DEF WriteLinks, DTypeOK
<1>4. row \in [Author -> Nat] /\ links \in [Tag -> SUBSET Author]
  BY LoaderAssumption DEF DTypeOK
<1>5. ASSUME NEW o \in Operation, Begin(o)
      PROVE  /\ Grown /\ UNCHANGED operation /\ running \subseteq running'
             /\ \A p \in Operation : Followed(p)'
  BY <1>5 DEF Begin, Grown, Followed, DTypeOK
<1>6. ASSUME NEW f \in Field, FieldStep(f)
      PROVE  UNCHANGED <<database, history>>
  BY <1>6 DEF FieldStep, Load, FetchPivotLinks, Lookup, FetchAuthorByID, Store,
              FetchPublishingHouseAuthors, StoreGroup, Fail
<1>7. ASSUME UNCHANGED <<database, history>>
      PROVE  /\ Grown /\ UNCHANGED operation /\ running \subseteq running'
             /\ \A o \in Operation : Followed(o)'
  BY <1>7 DEF Grown, Followed
<1>8. CASE UNCHANGED dvars
  BY <1>7, <1>8 DEF dvars
<1> QED
  BY <1>1, <1>2, <1>3, <1>4, <1>5, <1>6, <1>7, <1>8 DEF DNext

\* Caches that no step writes to keep holding what was so.
LEMMA StillCached ==
    ASSUME DTypeOK, Grown, Cached, UNCHANGED groups,
           authors \in Records
    PROVE  /\ \A a \in DOMAIN authors : authors[a] \in EverRow'[a]
           /\ \A t \in DOMAIN groups \cap Tag :
                 \E A \in EverLinks'[t] : Answers(groups[t], A, EverRow')
<1>1. \A a \in Author : EverRow[a] \subseteq EverRow'[a]
  BY EverGrows
<1>2. DOMAIN authors \subseteq Author
  BY RecordsAre
<1>3. ASSUME NEW t \in DOMAIN groups \cap Tag
      PROVE  \E A \in EverLinks'[t] : Answers(groups[t], A, EverRow')
  <2>1. PICK A \in EverLinks[t] : Answers(groups[t], A, EverRow)
    BY DEF Cached
  <2>2. A \in EverLinks'[t] /\ A \in SUBSET Author
    BY EverGrows, EverTyped
  <2>3. Answers(groups[t], A, EverRow')
    BY <1>1, <2>1, <2>2, AnswersGrow
  <2> QED
    BY <2>2, <2>3
<1> QED
  BY <1>1, <1>2, <1>3 DEF Cached

\* What a field gets from the database is so at that time.
LEMMA RowsAnswer ==
    ASSUME DTypeOK, NEW o \in running, o \in Operation, Followed(o),
           NEW S \in SUBSET Author
    PROVE  /\ DOMAIN Rows(S) \subseteq S
           /\ \A a \in DOMAIN Rows(S) : Rows(S)[a] \in EverRow[a]
           /\ \A a \in S \ DOMAIN Rows(S) : 0 \in EverRow[a]
<1>1. DOMAIN Rows(S) = {b \in Author \cap S : row[b] # 0}
  BY DEF Rows
<1>2. \A a \in DOMAIN Rows(S) : Rows(S)[a] = row[a]
  BY DEF Rows
<1> QED
  BY <1>1, <1>2, EverFollows

\* The step of a field.
LEMMA FieldStepKeeps ==
    ASSUME DTypeOK, DTypeOK', DInv, NEW f \in Field, FieldStep(f)
    PROVE  Cached' /\ Knows(f)'
<1> USE DEF database, caches, calls, history
<1> DEFINE o == operation[f]
           rows == EverRow
           sets == EverLinks
<1>0. /\ o \in Operation /\ Followed(o) /\ Cached /\ Knows(f)
      /\ UNCHANGED <<row, links, running, operation, pastRows, pastLinks>>
  BY DEF DInv, DTypeOK, FieldStep, Load, FetchPivotLinks, Lookup, FetchAuthorByID,
         Store, FetchPublishingHouseAuthors, StoreGroup, Fail
<1>1. /\ o \in Operation /\ Followed(o) /\ Cached /\ Knows(f)
      /\ UNCHANGED <<row, links, running, operation>>
      /\ EverRow' = EverRow /\ EverLinks' = EverLinks
  BY <1>0 DEF EverRow, EverLinks
<1>2. Cached' \/ ~(authors' = authors /\ groups' = groups)
  BY <1>1 DEF Cached, Answers
<1>3. /\ DOMAIN authors \subseteq Author /\ DOMAIN result[f] \subseteq Author
      /\ DOMAIN fetched[f] \subseteq Author
      /\ result \in [Field -> Records] /\ fetched \in [Field -> Records]
      /\ DOMAIN pc = Field /\ key \in [Field -> Key \cup {NoKey}]
      /\ asked \in [Field -> SUBSET Author]
      /\ sets \in [Tag -> SUBSET SUBSET Author]
  <2>1. /\ authors \in Records /\ result[f] \in Records /\ fetched[f] \in Records
        /\ result \in [Field -> Records] /\ fetched \in [Field -> Records]
        /\ key \in [Field -> Key \cup {NoKey}] /\ DOMAIN pc = Field
        /\ asked \in [Field -> SUBSET Author]
        /\ sets \in [Tag -> SUBSET SUBSET Author]
    BY <1>1, EverTyped DEF DTypeOK
  <2> QED
    BY <2>1, RecordsAre
<1>4. ASSUME NEW k \in Key, Load(f, k) PROVE Knows(f)'
  <2>1. o \in running /\ key'[f] = k
    BY <1>3, <1>4 DEF Load
  <2>2. CASE /\ k \in DOMAIN groups /\ pc'[f] = "done" /\ result'[f] = groups[k]
    <3>1. k \notin Author
      BY <2>2, LoaderAssumption DEF DTypeOK
    <3>2. k \in Tag => \E A \in sets[k] : Answers(groups[k], A, rows)
      BY <1>1, <2>2 DEF Cached
    <3> QED
      BY <1>1, <2>1, <2>2, <3>1, <3>2 DEF Knows
  <2>3. CASE pc'[f] \in {"links", "byId"}
    BY <1>1, <2>1, <2>3 DEF Knows
  <2>4. CASE k \in Author /\ pc'[f] = "lookup" /\ asked'[f] = {k}
    BY <1>1, <2>1, <2>4 DEF Knows
  <2> QED
    BY <1>3, <1>4, <2>2, <2>3, <2>4 DEF Load, Goto
<1>5. ASSUME FetchPivotLinks(f) PROVE Knows(f)'
  <2>1. /\ pc'[f] = "lookup" /\ asked'[f] = links[key[f]] /\ key' = key
        /\ key[f] \in Tag /\ o \in running
    BY <1>1, <1>3, <1>5 DEF FetchPivotLinks, Goto, DTypeOK, Knows
  <2>2. asked'[f] \in sets[key[f]]
    BY <1>1, <2>1, EverFollows
  <2> QED
    BY <1>1, <2>1, <2>2 DEF Knows
<1>6. ASSUME Lookup(f) PROVE Knows(f)'
  <2>1. /\ pc[f] = "lookup" /\ key' = key /\ asked' = asked /\ fetched' = fetched
        /\ result'[f] = Part(authors, asked[f])
        /\ pc'[f] = IF asked[f] \subseteq DOMAIN authors
                      THEN AfterAuthors(f) ELSE "rows"
    BY <1>3, <1>6 DEF Lookup, Goto
  <2>2. /\ DOMAIN result'[f] = DOMAIN authors \cap asked[f]
        /\ \A a \in DOMAIN result'[f] : result'[f][a] \in rows[a]
    BY <1>1, <2>1 DEF Part, Cached
  <2>3. /\ o \in running
        /\ \/ key[f] \in Author /\ asked[f] = {key[f]}
           \/ key[f] \in Tag /\ asked[f] \in sets[key[f]]
    BY <1>1, <2>1 DEF Knows
  <2>4. CASE asked[f] \subseteq DOMAIN authors
    <3>1. Answers(result'[f], asked[f], rows)
      BY <2>2, <2>4 DEF Answers
    <3> QED
      BY <1>1, <2>1, <2>3, <2>4, <3>1, LoaderAssumption DEF Knows, AfterAuthors
  <2>5. CASE ~(asked[f] \subseteq DOMAIN authors)
    BY <1>1, <2>1, <2>2, <2>3, <2>5 DEF Knows
  <2> QED
    BY <2>4, <2>5
<1>7. ASSUME FetchAuthorByID(f) PROVE Knows(f)'
  <2> DEFINE S == asked[f] \ DOMAIN result[f]
  <2>1. /\ pc[f] = "rows" /\ key' = key /\ asked' = asked /\ result' = result
        /\ fetched'[f] = Rows(S) /\ pc'[f] = "store"
    BY <1>3, <1>7 DEF FetchAuthorByID, Goto
  <2>2. /\ o \in running /\ DOMAIN result[f] \subseteq asked[f]
        /\ \A a \in DOMAIN result[f] : result[f][a] \in rows[a]
        /\ \/ key[f] \in Author /\ asked[f] = {key[f]}
           \/ key[f] \in Tag /\ asked[f] \in sets[key[f]]
    BY <1>1, <2>1 DEF Knows
  <2>3. /\ DOMAIN Rows(S) \subseteq S
        /\ \A a \in DOMAIN Rows(S) : Rows(S)[a] \in rows[a]
        /\ \A a \in S \ DOMAIN Rows(S) : 0 \in rows[a]
    BY <1>1, <1>3, <2>2, RowsAnswer
  <2>4. Answers(Over(Rows(S), result[f]), asked[f], rows)
    BY <2>2, <2>3 DEF Answers, Over
  <2> QED
    BY <1>1, <2>1, <2>2, <2>3, <2>4 DEF Knows
<1>8. CASE Store(f)
  <2>1. /\ pc[f] = "store" /\ key' = key /\ asked' = asked /\ groups' = groups
        /\ result'[f] = Over(fetched[f], result[f]) /\ pc'[f] = AfterAuthors(f)
        /\ authors' = Over(fetched[f], authors)
    BY <1>3, <1>8 DEF Store, Goto
  <2>2. /\ o \in running /\ Answers(result'[f], asked[f], rows)
        /\ \A a \in DOMAIN fetched[f] : fetched[f][a] \in rows[a]
        /\ \/ key[f] \in Author /\ asked[f] = {key[f]}
           \/ key[f] \in Tag /\ asked[f] \in sets[key[f]]
    BY <1>1, <2>1 DEF Knows
  <2>3. \A a \in DOMAIN authors' : authors'[a] \in rows[a]
    BY <1>1, <2>1, <2>2 DEF Over, Cached
  <2>4. Cached'
    BY <1>1, <2>1, <2>3 DEF Cached, Answers
  <2>5. Knows(f)'
    BY <1>1, <2>1, <2>2, LoaderAssumption DEF Knows, AfterAuthors
  <2> QED
    BY <1>1, <2>4, <2>5
<1>9. ASSUME FetchPublishingHouseAuthors(f) PROVE Knows(f)'
  <2>1. /\ pc[f] = "byId" /\ key' = key /\ pc'[f] = "group" /\ o \in running
        /\ key[f] \in House
    BY <1>1, <1>3, <1>9 DEF FetchPublishingHouseAuthors, Goto, DTypeOK, Knows
  <2> QED
    BY <1>1, <2>1, LoaderAssumption DEF Knows
<1>10. CASE StoreGroup(f)
  <2>1. /\ pc[f] = "group" /\ key' = key /\ result' = result /\ pc'[f] = "done"
        /\ authors' = authors
        /\ groups' = Over([k \in {key[f]} |-> result[f]], groups)
    BY <1>3, <1>10 DEF StoreGroup, Goto
  <2>2. /\ o \in running /\ key[f] \in Tag \cup House
        /\ key[f] \in Tag => \E A \in sets[key[f]] : Answers(result[f], A, rows)
    BY <1>1, <2>1 DEF Knows, DTypeOK
  <2>3. \A t \in DOMAIN groups' \cap Tag :
            \E A \in sets[t] : Answers(groups'[t], A, rows)
    BY <1>1, <2>1, <2>2 DEF Over, Cached
  <2>4. Cached'
    BY <1>1, <2>1, <2>3 DEF Cached, Answers
  <2>5. Knows(f)'
    BY <1>1, <2>1, <2>2, LoaderAssumption DEF Knows
  <2> QED
    BY <1>1, <2>4, <2>5
<1>11. ASSUME Fail(f) PROVE Knows(f)'
  <2>1. pc'[f] = "failed" /\ o \in running
    BY <1>1, <1>3, <1>11 DEF Fail, Goto, Knows
  <2> QED
    BY <1>1, <2>1 DEF Knows
<1>12. ~Store(f) /\ ~StoreGroup(f) => authors' = authors /\ groups' = groups
  BY DEF FieldStep, Load, FetchPivotLinks, Lookup, FetchAuthorByID,
         FetchPublishingHouseAuthors, Fail
<1> QED
  BY <1>2, <1>4, <1>5, <1>6, <1>7, <1>8, <1>9, <1>10, <1>11, <1>12 DEF FieldStep

LEMMA Invariant == DSpec => []DInv
<1>1. DInit => DInv
  BY NothingIsRecords DEF DInit, DInv, Followed, Cached, Knows
<1>2. DTypeOK /\ DTypeOK' /\ DInv /\ [DNext]_dvars => DInv'
  <2> SUFFICES ASSUME DTypeOK, DTypeOK', DInv, [DNext]_dvars PROVE DInv'
    OBVIOUS
  <2>1. /\ Grown /\ UNCHANGED operation /\ running \subseteq running'
        /\ \A o \in Operation : Followed(o)'
    BY Follows DEF DInv
  <2>2. ASSUME NEW f \in Field, FieldStep(f) PROVE DInv'
    <3>1. Cached' /\ Knows(f)'
      BY <2>2, FieldStepKeeps
    <3>2. ASSUME NEW g \in Field, g # f
          PROVE  /\ pc'[g] = pc[g] /\ key'[g] = key[g] /\ asked'[g] = asked[g]
                 /\ result'[g] = result[g] /\ fetched'[g] = fetched[g]
      BY <2>2, <3>2 DEF FieldStep, Load, FetchPivotLinks, Lookup, FetchAuthorByID, Store,
                 FetchPublishingHouseAuthors, StoreGroup, Fail, Goto, DTypeOK
    <3>3. ASSUME NEW g \in Field, g # f PROVE Knows(g)'
      BY <2>1, <3>2, <3>3, StillKnows DEF DInv
    <3> QED
      BY <2>1, <3>1, <3>3 DEF DInv
  <2>3. ASSUME UNCHANGED <<caches, calls>> PROVE DInv'
    <3>1. Cached'
      BY <2>1, <2>3, StillCached DEF DInv, DTypeOK, Cached, Answers, caches
    <3>2. \A f \in Field : Knows(f)'
      BY <2>1, <2>3, StillKnows DEF DInv, calls
    <3> QED
      BY <2>1, <3>1, <3>2 DEF DInv
  <2> QED
    BY <2>2, <2>3 DEF DNext, WriteAuthor, WriteLinks, Write, Begin, dvars
<1> QED
  BY <1>1, <1>2, TypeCorrect, PTL DEF DSpec

\* What a field gets from a loader was so since the loader's first operation
\* began, whichever operation it belongs to and whoever has filled the caches.
AnswersOfTheLoader ==
    \A f \in Field : pc[f] = "done" =>
        /\ key[f] \in Author => Answers(result[f], {key[f]}, EverRow)
        /\ key[f] \in Tag =>
              \E A \in EverLinks[key[f]] : Answers(result[f], A, EverRow)

\* A loader that a WebSocket connection keeps for all its operations invents
\* nothing and mixes up no keys: what it answers can be older than the operation
\* that asks, but not older than the loader, for any number of operations.
THEOREM NothingOlderThanTheLoader == DSpec => []AnswersOfTheLoader
<1>1. DInv => AnswersOfTheLoader
  BY DEF DInv, Knows, AnswersOfTheLoader
<1> QED
  BY <1>1, Invariant, PTL

\* A loader that serves one operation answers every field with what was so
\* while the operation was running, whatever else is resolved beside it and
\* whoever writes to the database. (LoadMany; internal/loader Middleware.)
THEOREM OneRequestOneTime ==
    ASSUME \A o, p \in Operation : o = p
    PROVE  DSpec => []AnswersOfTheirOperation
<1>1. DTypeOK /\ AnswersOfTheLoader => AnswersOfTheirOperation
  <2> SUFFICES ASSUME DTypeOK, AnswersOfTheLoader, NEW f \in Field, pc[f] = "done"
               PROVE  LET rows == pastRows[operation[f]]
                      IN  /\ key[f] \in Author => Answers(result[f], {key[f]}, rows)
                          /\ key[f] \in Tag =>
                                \E A \in pastLinks[operation[f]][key[f]] :
                                    Answers(result[f], A, rows)
    BY DEF AnswersOfTheirOperation
  <2> DEFINE o == operation[f]
  <2>1. Operation = {o}
    BY DEF DTypeOK
  <2>2. /\ \A a \in Author : EverRow[a] = pastRows[o][a]
        /\ \A t \in Tag : EverLinks[t] = pastLinks[o][t]
    BY <2>1 DEF EverRow, EverLinks
  <2>3. \A A \in SUBSET Author :
            Answers(result[f], A, EverRow) => Answers(result[f], A, pastRows[o])
    BY <2>2 DEF Answers
  <2>4. key[f] \in Author => Answers(result[f], {key[f]}, pastRows[o])
    <3>1. key[f] \in Author => {key[f]} \in SUBSET Author
      OBVIOUS
    <3> QED
      BY <2>3, <3>1 DEF AnswersOfTheLoader
  <2>5. key[f] \in Tag =>
            \E A \in pastLinks[o][key[f]] : Answers(result[f], A, pastRows[o])
    <3> SUFFICES ASSUME key[f] \in Tag
                 PROVE  \E A \in pastLinks[o][key[f]] : Answers(result[f], A, pastRows[o])
      OBVIOUS
    <3>1. PICK A \in EverLinks[key[f]] : Answers(result[f], A, EverRow)
      BY DEF AnswersOfTheLoader
    <3>2. A \in pastLinks[o][key[f]] /\ A \in SUBSET Author
      BY <2>2, <3>1, EverTyped
    <3> QED
      BY <2>3, <3>1, <3>2
  <2> QED
    BY <2>4, <2>5
<1> QED
  BY <1>1, NothingOlderThanTheLoader, TypeCorrect, PTL

=============================================================================
