---------------------------- MODULE ListQueryProofs ----------------------------
(***************************************************************************)
(* Theorems about ListQuery, for any records, fields, policies, guards,    *)
(* limits and offsets that satisfy ListAssumption.                         *)
(***************************************************************************)
EXTENDS ListQuery, FiniteSetTheorems, WellFoundedInduction, TLAPS

-----------------------------------------------------------------------------
(* Pagination.                                                             *)

\* normalizePagination answers an offset within the count, or none, and a page
\* number that holds it; doing it again changes nothing.
LEMMA Normal ==
    ASSUME NEW l \in Nat, NEW o \in Int, NEW n \in Nat
    PROVE  /\ NormalOffset(l, o, n) \in Nat
           /\ n > 0 => NormalOffset(l, o, n) < n
           /\ n = 0 => NormalOffset(l, o, n) = 0
           /\ NormalOffset(l, NormalOffset(l, o, n), n) = NormalOffset(l, o, n)
<1>1. CASE n > 0 /\ o >= n /\ l > 0
  <2>. DEFINE q == (n + l - 1) \div l
  <2>1. q \in Nat /\ q * l <= n + l - 1 /\ n + l - 1 < (q + 1) * l
    BY <1>1, Z3
  <2>. HIDE DEF q
  <2>2. (q - 1) * l = q * l - l /\ (q + 1) * l = q * l + l
    BY <2>1
  <2>3. q # 0
    BY <2>1, <1>1
  <2>4. (q - 1) * l \in Nat /\ (q - 1) * l < n
    BY <2>1, <2>2, <2>3
  <2>5. NormalOffset(l, o, n) = (q - 1) * l
    BY <1>1 DEF NormalOffset, LastPage, q
  <2> QED BY <2>4, <2>5, <1>1 DEF NormalOffset
<1>2. CASE ~(n > 0 /\ o >= n /\ l > 0)
  BY <1>2 DEF NormalOffset
<1> QED BY <1>1, <1>2

LEMMA Numbered ==
    ASSUME NEW l \in Nat, NEW o \in Nat, NEW n \in Nat, n = 0 => o = 0
    PROVE  /\ PageNumber(l, o, n) \in Nat \ {0}
           /\ l > 0 => /\ (PageNumber(l, o, n) - 1) * l <= o
                       /\ o < PageNumber(l, o, n) * l
<1>1. CASE n > 0 /\ l > 0
  <2>. DEFINE q == o \div l
  <2>1. q \in Nat /\ q * l <= o /\ o < (q + 1) * l
    BY <1>1, Z3
  <2>2. PageNumber(l, o, n) = q + 1
    BY <1>1 DEF PageNumber
  <2>. HIDE DEF q
  <2> QED BY <2>1, <2>2
<1>2. CASE ~(n > 0 /\ l > 0)
  BY <1>2 DEF PageNumber
<1> QED BY <1>1, <1>2

-----------------------------------------------------------------------------
(* Rows of a page.                                                         *)

LEMMA Smallest ==
    ASSUME NEW S, S \subseteq Nat, S # {}
    PROVE  \E x \in S : \A y \in S : x <= y
<1>. DEFINE R == {ss \in Nat \X Nat : ss[1] < ss[2]}
<1>1. IsWellFoundedOn(R, Nat)
  BY NatLessThanWellFounded, Zenon DEF OpToRel
<1>2. \A x, y \in S : y < x => <<y, x>> \in R
  OBVIOUS
<1>. HIDE DEF R
<1>3. PICK x \in S : \A y \in S : <<y, x>> \notin R
  BY <1>1, WFMin
<1>4. \A y \in S : ~(y < x)
  BY <1>2, <1>3
<1> QED BY <1>4

LEMMA Largest ==
    ASSUME NEW S, S \subseteq Nat, S # {}, NEW b \in Nat, \A y \in S : y <= b
    PROVE  \E x \in S : \A y \in S : y <= x
<1>. DEFINE D == {d \in Nat : \E y \in S : d = b - y}
<1>1. \A y \in S : b - y \in D
  OBVIOUS
<1>2. D \subseteq Nat /\ D # {}
  BY <1>1
<1>3. PICK d \in D : \A e \in D : d <= e
  BY <1>2, Smallest
<1>4. PICK x \in S : d = b - x
  OBVIOUS
<1>5. ASSUME NEW y \in S PROVE y <= x
  <2>1. b - x <= b - y
    BY <1>1, <1>3, <1>4
  <2>2. x \in Nat /\ y \in Nat
    OBVIOUS
  <2> QED BY <2>1, <2>2
<1> QED BY <1>5

Before(S, i) == {j \in S : j < i}

\* Among n rows one has k rows before it, for each k below n.
LEMMA Ranked ==
    ASSUME NEW S, S \subseteq Nat, IsFiniteSet(S), NEW k \in Nat, k < Cardinality(S)
    PROVE  \E i \in S : Cardinality(Before(S, i)) = k
<1>a. \A x \in S : x \in Nat
  OBVIOUS
<1>b. \A x \in S : \A y \in Before(S, x) : y \in S /\ y \in Nat /\ y < x /\ y <= x /\ y # x
  <2>. TAKE x \in S
  <2>. TAKE y \in Before(S, x)
  <2>1. y \in S /\ y < x
    BY DEF Before
  <2> QED BY <2>1, <1>a
<1>1. \A i \in S : IsFiniteSet(Before(S, i)) /\ Cardinality(Before(S, i)) \in Nat
  BY FS_Subset, FS_CardinalityType DEF Before
<1>. DEFINE Late == {i \in S : Cardinality(Before(S, i)) >= k}
<1>2. Late # {}
  <2>1. SUFFICES ASSUME \A i \in S : Cardinality(Before(S, i)) < k
                 PROVE  FALSE
    BY <1>1
  <2>2. k > 0
    <3>1. S # {}
      BY FS_EmptySet
    <3>2. PICK i \in S : TRUE
      BY <3>1
    <3> QED BY <1>1, <2>1, <3>2
  <2>3. IsFiniteSet(0 .. k - 1) /\ Cardinality(0 .. k - 1) = k
    BY <2>2, FS_Interval
  <2>. DEFINE f == [i \in S |-> Cardinality(Before(S, i))]
  <2>4. f \in [S -> 0 .. k - 1]
    BY <1>1, <2>1
  <2>5. PICK i, j \in S : i # j /\ f[i] = f[j]
    <3>. HIDE DEF f
    <3>1. Cardinality(0 .. k - 1) < Cardinality(S)
      BY <2>3
    <3> QED BY <2>3, <2>4, <3>1, FS_PigeonHole
  <2>6. ASSUME NEW u \in S, NEW v \in S, u < v PROVE f[u] < f[v]
    <3>0. \A x \in Before(S, u) : x \in Before(S, v)
      BY <1>a, <2>6 DEF Before
    <3>1. Before(S, u) \cup {u} \subseteq Before(S, v) /\ u \notin Before(S, u)
      <4>1. u \in Before(S, v)
        BY <2>6 DEF Before
      <4> QED BY <3>0, <4>1, <1>b
    <3>2. Cardinality(Before(S, u) \cup {u}) = Cardinality(Before(S, u)) + 1
          /\ IsFiniteSet(Before(S, u) \cup {u})
      BY <3>1, <1>1, FS_AddElement
    <3>3. Cardinality(Before(S, u) \cup {u}) <= Cardinality(Before(S, v))
      BY <3>1, <1>1, FS_Subset
    <3> QED BY <3>2, <3>3, <1>1
  <2>7. i < j \/ j < i
    BY <2>5
  <2>8. f[i] \in Nat /\ f[j] \in Nat
    BY <1>1
  <2> QED BY <2>5, <2>6, <2>7, <2>8
<1>3. PICK i \in Late : \A j \in Late : i <= j
  BY <1>2, Smallest
<1>4. CASE Before(S, i) = {}
  BY <1>3, <1>4, FS_EmptySet
<1>5. CASE Before(S, i) # {}
  <2>. i \in Nat /\ i \in S
    OBVIOUS
  <2>1. Before(S, i) \subseteq Nat /\ \A y \in Before(S, i) : y <= i
    BY <1>b
  <2>2. PICK m \in Before(S, i) : \A y \in Before(S, i) : y <= m
    BY <2>1, <1>5, Largest
  <2>3. m \in S /\ m < i /\ m \notin Before(S, m)
    BY <2>2 DEF Before
  <2>4. Cardinality(Before(S, m)) < k
    BY <2>3, <1>1, <1>3
  <2>5. Before(S, i) = Before(S, m) \cup {m}
    <3>1. ASSUME NEW y \in Before(S, i) PROVE y \in Before(S, m) \cup {m}
      BY <2>2, <2>3 DEF Before
    <3>2. ASSUME NEW y \in Before(S, m) PROVE y \in Before(S, i)
      <4>1. y \in Nat /\ m \in Nat /\ y < m /\ m < i /\ y \in S
        BY <2>3 DEF Before
      <4> QED BY <4>1 DEF Before
    <3> QED BY <2>2, <3>1, <3>2
  <2>6. Cardinality(Before(S, i)) = Cardinality(Before(S, m)) + 1
    BY <2>3, <2>5, <1>1, FS_AddElement
  <2> QED BY <2>3, <2>4, <2>6, <1>1, <1>3
<1> QED BY <1>4, <1>5

\* A page that starts below the count has a row.
LEMMA PageNotEmpty ==
    ASSUME NEW S, S \subseteq Nat, IsFiniteSet(S), NEW l \in Nat, NEW o \in Nat,
           o < Cardinality(S)
    PROVE  Page(S, l, o) # {}
<1>1. PICK i \in S : Cardinality(Before(S, i)) = o
  BY Ranked
<1>2. i \in Page(S, l, o)
  BY <1>1 DEF Page, Before
<1> QED BY <1>2

-----------------------------------------------------------------------------
(* Policies.                                                               *)

\* What a resolved policy leaves for queries is what the policy permits,
\* unless that is nothing.
LEMMA ResolvedPermits ==
    ASSUME NEW p \in PolicyShape, Permitted(p) # {}
    PROVE  Queryable(Resolve(p)) = Permitted(p)
<1>. USE ListAssumption DEF PolicyShape
<1>1. \A f \in Field : /\ Lower[f] \in Listed(p.allow) <=> Names(p.allow, f)
                       /\ Lower[f] \in Listed(p.deny) <=> Names(p.deny, f)
  BY DEF Listed, Keys, Names
<1>2. Listed(p.allow) # {} <=> \E g \in Field : Names(p.allow, g)
  BY DEF Listed, Keys, Names
<1>3. Listed(p.deny) # {} <=> \E g \in Field : Names(p.deny, g)
  BY DEF Listed, Keys, Names
<1>4. CASE Listed(p.allow) = {} /\ Listed(p.deny) = {}
  BY <1>1, <1>2, <1>3, <1>4 DEF Queryable, Resolve, Permitted
<1>5. CASE ~(Listed(p.allow) = {} /\ Listed(p.deny) = {})
  <2>1. Resolve(p).override = Permitted(p)
    BY <1>1, <1>2, <1>5 DEF Resolve, Permitted
  <2> QED BY <2>1 DEF Queryable
<1> QED BY <1>4, <1>5

\* Lists that do not overlap, and masks on names in lower case only.
Plain(p) ==
    \A f \in Field : /\ ~(Names(p.allow, f) /\ Names(p.deny, f))
                     /\ Names(p.mask, f) => Lower[f] = f

LEMMA PlainPolicyIsKept ==
    ASSUME NEW p \in PolicyShape, Plain(p),
           NEW f \in Field, Names(p.deny, f) \/ Names(p.mask, f)
    PROVE  Show(Resolve(p), f) # "value"
<1>. USE ListAssumption DEF PolicyShape
<1>1. /\ Lower[f] \in Listed(p.allow) <=> Names(p.allow, f)
      /\ Lower[f] \in Listed(p.deny) <=> Names(p.deny, f)
  BY DEF Listed, Keys, Names
<1>2. CASE Names(p.deny, f)
  <2>1. ~Allows(Resolve(p), f)
    BY <1>1, <1>2 DEF Plain, Allows, Resolve
  <2> QED BY <2>1 DEF Show
<1>3. CASE Names(p.mask, f)
  <2>1. Lower[f] = f /\ Lower[f] \in Keys(p.mask)
    BY <1>3 DEF Plain, Keys, Names
  <2>2. Lower[f] \in Resolve(p).maskers
    BY <2>1 DEF Resolve
  <2> QED BY <2>2 DEF Show
<1> QED BY <1>2, <1>3

-----------------------------------------------------------------------------
(* The inductive invariant.                                                *)

Asked(ids) == Matching(ids, Applied, policy)

\* The repository as it is counts among what the request may have met.
Current == present \in since

\* A count that was read was right at its time,
CountTrue ==
    pc \in {"again", "answered"} \/ (pc = "query" /\ "count" \notin todo) =>
        \E ids \in since : count = Cardinality(Asked(ids))

\* and so were the rows, for the offset they were read with.
RowsTrue ==
    pc \in {"query", "again"} /\ "rows" \notin todo =>
        \E ids \in since : rows = Page(Asked(ids), limit, offset)

\* The second query is for a page that the count allows.
SecondQuery ==
    pc = "again" => /\ todo \subseteq {"rows"}
                    /\ count > 0
                    /\ offset = NormalOffset(limit, offset, count)

\* An answer is made of them.
AnswerMade ==
    pc = "answered" =>
        /\ offset = NormalOffset(limit, offset, count)
        /\ page = PageNumber(limit, offset, count)
        /\ \A f \in Field : shown[f] = Show(Resolve(policy), f)
        /\ count > 0 => \E ids \in since : rows = Page(Asked(ids), limit, offset)
        /\ count = 0 => \E ids \in since : rows \subseteq Asked(ids)

PolicyProvided == pc \in {"query", "again", "answered"} => policy \in Policy

LIInv == LTypeOK /\ Current /\ CountTrue /\ RowsTrue /\ SecondQuery /\ AnswerMade /\ PolicyProvided

LEMMA Subsets ==
    ASSUME NEW ids \in SUBSET Id, NEW fs, NEW p, NEW l, NEW o
    PROVE  /\ Matching(ids, fs, p) \subseteq Id
           /\ Matching(ids, fs, p) \subseteq Nat
           /\ IsFiniteSet(Matching(ids, fs, p))
           /\ Cardinality(Matching(ids, fs, p)) \in Nat
           /\ Page(Matching(ids, fs, p), l, o) \subseteq Matching(ids, fs, p)
<1>1. Matching(ids, fs, p) \subseteq Id
  BY DEF Matching
<1>2. IsFiniteSet(Matching(ids, fs, p)) /\ Matching(ids, fs, p) \subseteq Nat
  BY <1>1, ListAssumption, FS_Subset
<1> QED BY <1>1, <1>2, FS_CardinalityType DEF Page

LEMMA InvInit == LInit => LIInv
<1>. SUFFICES ASSUME LInit PROVE LIInv
  OBVIOUS
<1>1. LTypeOK
  BY ListAssumption DEF LInit, LTypeOK, PolicyShape
<1> QED BY <1>1 DEF LInit, LIInv, Current, CountTrue, RowsTrue, SecondQuery, AnswerMade,
               PolicyProvided

LEMMA InvNext == LIInv /\ [LNext]_lvars => LIInv'
<1>. SUFFICES ASSUME LIInv, [LNext]_lvars PROVE LIInv'
  OBVIOUS
<1>. USE DEF LIInv
<1>1. ASSUME UNCHANGED <<filters, policy>> PROVE \A ids : Asked(ids)' = Asked(ids)
  BY <1>1 DEF Asked, Applied
<1>2. CASE Accept
  <2>1. LTypeOK'
    BY <1>2, ListAssumption DEF Accept, LTypeOK
  <2> QED BY <1>2, <2>1 DEF Accept, Current, CountTrue, RowsTrue, SecondQuery, AnswerMade,
                PolicyProvided
<1>3. CASE Refuse \/ QueryFails
  <2>1. LTypeOK'
    BY <1>3 DEF Refuse, QueryFails, LTypeOK
  <2> QED BY <1>3, <2>1 DEF Refuse, QueryFails, Current, CountTrue, RowsTrue, SecondQuery,
                AnswerMade, PolicyProvided
<1>4. CASE ReadRows
  <2>1. rows' = Page(Asked(present), limit, offset)
    BY <1>4 DEF ReadRows, Asked
  <2>2. rows' \subseteq Id
    BY <2>1, Subsets DEF LTypeOK, Asked
  <2>3. LTypeOK'
    BY <1>4, <2>2 DEF ReadRows, LTypeOK
  <2>4. RowsTrue'
    BY <1>1, <1>4, <2>1 DEF ReadRows, RowsTrue, Current
  <2>5. CountTrue'
    BY <1>1, <1>4 DEF ReadRows, CountTrue
  <2> QED BY <1>4, <2>3, <2>4, <2>5 DEF ReadRows, Current, SecondQuery, AnswerMade, PolicyProvided
<1>5. CASE CountRows
  <2>1. count' = Cardinality(Asked(present))
    BY <1>5 DEF CountRows, Asked
  <2>2. count' \in Nat
    BY <2>1, Subsets DEF LTypeOK, Asked
  <2>3. LTypeOK'
    BY <1>5, <2>2 DEF CountRows, LTypeOK
  <2>4. CountTrue'
    BY <1>1, <1>5, <2>1 DEF CountRows, CountTrue, Current
  <2>5. RowsTrue'
    BY <1>1, <1>5 DEF CountRows, RowsTrue
  <2> QED BY <1>5, <2>3, <2>4, <2>5 DEF CountRows, Current, SecondQuery, AnswerMade, PolicyProvided
<1>6. CASE QueryAgain
  <2>1. /\ offset' \in Nat
        /\ offset' = NormalOffset(limit, offset', count)
    BY <1>6, Normal DEF QueryAgain, LTypeOK
  <2>2. LTypeOK'
    BY <1>6, <2>1 DEF QueryAgain, LTypeOK
  <2>3. CountTrue'
    BY <1>1, <1>6 DEF QueryAgain, CountTrue
  <2>4. SecondQuery'
    BY <1>6, <2>1 DEF QueryAgain, SecondQuery, Moved
  <2> QED BY <1>6, <2>2, <2>3, <2>4 DEF QueryAgain, Current, RowsTrue, AnswerMade, PolicyProvided
<1>7. CASE Respond
  <2>1. /\ offset' \in Nat
        /\ offset' = NormalOffset(limit, offset', count)
        /\ count = 0 => offset' = 0
    BY <1>7, Normal DEF Respond, LTypeOK
  <2>2. page' = PageNumber(limit, offset', count) /\ page' \in Nat \ {0}
    BY <1>7, <2>1, Numbered DEF Respond, LTypeOK
  <2>3. \A f \in Field : Show(Resolve(policy), f) \in {"zero", "masked", "value"}
    BY DEF Show
  <2>4. LTypeOK'
    BY <1>7, <2>1, <2>2, <2>3 DEF Respond, LTypeOK
  <2>5. CountTrue'
    BY <1>1, <1>7 DEF Respond, CountTrue
  <2>6. PICK ids \in since : rows = Page(Asked(ids), limit, offset)
    BY <1>7 DEF Respond, RowsTrue
  <2>7. count > 0 => offset' = offset
    BY <1>7 DEF Respond, Moved, SecondQuery
  <2>8. rows \subseteq Asked(ids)
    BY <2>6, Subsets DEF LTypeOK, Asked
  <2>9. AnswerMade'
    <3>1. count > 0 => rows = Page(Asked(ids), limit, offset')
      BY <2>6, <2>7
    <3> QED BY <1>1, <1>7, <2>1, <2>2, <2>8, <3>1 DEF Respond, AnswerMade
  <2> QED BY <1>7, <2>4, <2>5, <2>9 DEF Respond, Current, RowsTrue, SecondQuery, PolicyProvided
<1>8. CASE Change
  <2>1. LTypeOK'
    <3>1. changes' \in 0 .. MaxChanges
      BY <1>8, ListAssumption DEF Change, LTypeOK
    <3>2. present' \subseteq Id
      BY <1>8 DEF Change, LTypeOK
    <3> QED BY <1>8, <3>1, <3>2 DEF Change, LTypeOK, requestVars
  <2>2. since \subseteq since'
    BY <1>8 DEF Change
  <2>3. CountTrue' /\ RowsTrue' /\ AnswerMade'
    BY <1>1, <1>8, <2>2 DEF Change, requestVars, CountTrue, RowsTrue, AnswerMade
  <2> QED BY <1>8, <2>1, <2>3 DEF Change, requestVars, Current, SecondQuery, PolicyProvided
<1>9. CASE UNCHANGED lvars
  <2>1. CountTrue' /\ RowsTrue' /\ AnswerMade'
    BY <1>1, <1>9 DEF lvars, requestVars, CountTrue, RowsTrue, AnswerMade
  <2> QED BY <1>9, <2>1 DEF lvars, requestVars, LTypeOK, Current, SecondQuery, PolicyProvided
<1> QED BY <1>2, <1>3, <1>4, <1>5, <1>6, <1>7, <1>8, <1>9 DEF LNext

-----------------------------------------------------------------------------
(* Theorems.                                                               *)

LEMMA Invariant == LSpec => []LIInv
<1>1. LInit => LIInv
  BY InvInit
<1>2. LIInv /\ [LNext]_lvars => LIInv'
  BY InvNext
<1> QED BY <1>1, <1>2, PTL DEF LSpec

\* The request's variables keep their types, and no negative offset is sent in
\* a second query or an answer (normalizePagination).
THEOREM TypeCorrect == LSpec => []LTypeOK
<1>1. LIInv => LTypeOK
  BY DEF LIInv
<1> QED BY <1>1, Invariant, PTL

\* Index answers with a count and a page that the repository had during the
\* request, for the filters its policy permits, whatever comes and goes.
THEOREM AnswersTrue == LSpec => []AnswersFromItsTime
<1>1. LIInv => AnswersFromItsTime
  <2>. SUFFICES ASSUME LIInv, pc = "answered", Permitted(policy) # {}
                PROVE  /\ \E ids \in since : count = Cardinality(Wanted(ids))
                       /\ count > 0 => \E ids \in since : rows = Page(Wanted(ids), limit, offset)
                       /\ count = 0 => \E ids \in since : rows \subseteq Wanted(ids)
    BY DEF AnswersFromItsTime
  <2>1. Queryable(Resolve(policy)) = Permitted(policy)
    BY ResolvedPermits DEF LIInv, LTypeOK
  <2>2. \A ids : Asked(ids) = Wanted(ids)
    BY <2>1 DEF Asked, Applied, Wanted
  <2> QED BY <2>2 DEF LIInv, CountTrue, AnswerMade
<1> QED BY <1>1, Invariant, PTL

\* The offset and the page that Index reports are within the count it reports,
\* and the page is not empty unless records have gone meanwhile.
THEOREM PagesFilled == LSpec => []PageHasRows
<1>1. LIInv => PageHasRows
  <2>. SUFFICES ASSUME LIInv, pc = "answered" PROVE PageHasRows
    BY DEF PageHasRows
  <2>1. limit \in Nat /\ count \in Nat /\ offset \in Nat
    BY DEF LIInv, LTypeOK
  <2>2. offset = NormalOffset(limit, offset, count) /\ page = PageNumber(limit, offset, count)
    BY DEF LIInv, AnswerMade
  <2>3. (count > 0 => offset < count) /\ (count = 0 => offset = 0)
    BY <2>1, <2>2, Normal
  <2>4. limit > 0 => (page - 1) * limit <= offset /\ offset < page * limit
    BY <2>1, <2>2, <2>3, Numbered
  <2>5. ASSUME since = {present}, count > 0 PROVE rows # {}
    <3>1. count = Cardinality(Asked(present)) /\ rows = Page(Asked(present), limit, offset)
      BY <2>5 DEF LIInv, CountTrue, AnswerMade
    <3>2. Asked(present) \subseteq Nat /\ IsFiniteSet(Asked(present))
      BY Subsets DEF LIInv, LTypeOK, Asked
    <3> QED BY <2>1, <2>3, <2>5, <3>1, <3>2, PageNotEmpty
  <2> QED BY <2>1, <2>3, <2>4, <2>5 DEF PageHasRows
<1> QED BY <1>1, Invariant, PTL

\* A policy is kept in every answer if its lists do not overlap and it masks no
\* field whose name has capitals (allowsField, maskFor).
THEOREM PlainPoliciesKept ==
    ASSUME \A p \in Policy : Plain(p)
    PROVE  LSpec => []PolicyIsKept
<1>1. LIInv => PolicyIsKept
  <2>. SUFFICES ASSUME LIInv, pc = "answered", NEW f \in Field,
                       Names(policy.deny, f) \/ Names(policy.mask, f)
                PROVE  shown[f] # "value"
    BY DEF PolicyIsKept
  <2>1. shown[f] = Show(Resolve(policy), f)
    BY DEF LIInv, AnswerMade
  <2>2. Plain(policy)
    BY DEF LIInv, PolicyProvided
  <2> QED BY <2>1, <2>2, PlainPolicyIsKept DEF LIInv, LTypeOK
<1> QED BY <1>1, Invariant, PTL

=============================================================================
