--------------------------- MODULE ControllerProofs ---------------------------
(***************************************************************************)
(* What holds of the request pipeline for any requests, records, scopes    *)
(* and policies: type correctness, that a record is changed by id only     *)
(* after it has been looked up in scope, that every change is reported as  *)
(* it was answered, what an update that gets past the merge does to        *)
(* columns and virtual fields, which maps get past it, where masks can get *)
(* to, and that the pipeline implements ControllerContract.                *)
(***************************************************************************)
EXTENDS Controller, TLAPS

(* What a request q has looked up at each point of its way. *)
Lookups(q) ==
    /\ q.pc \in {"idle", "guard", "decode"} => q.seen = <<>>
    /\ q.pc \in {"idle", "guard", "decode", "read", "write"} => q.wrote = {}
    /\ q.pc # "idle" /\ q.op \notin Bulk => Len(q.ids) = 1
    /\ q.pc = "decode" => q.op \notin {"read", "delete"}
    /\ q.pc = "read" => q.op \in Reads \cup Scoped /\ Len(q.seen) < Len(q.ids)
    /\ q.pc = "write" \/ q.wrote # {} => q.op \notin Reads
    /\ q.op \in Scoped /\ (q.pc \in {"write", "after"} \/ q.wrote # {})
          => Len(q.seen) = Len(q.ids)
    /\ q.op \in Scoped => \A i \in DOMAIN q.seen :
          q.seen[i][Owner] \in Visible[q.op] \cap Visible["read"]

(* What TypeOK says of one request. *)
Typed(q) ==
    /\ q \in RequestState
    /\ Len(q.seen) <= Len(q.ids)
    /\ q.op \in Creates \cup Updates /\ q.pc \in {"read", "write", "after"}
          => DOMAIN q.recs = DOMAIN q.ids

(* The inductive invariant: nothing relates two requests to one another. *)
RequestsOK ==
    /\ req \in [Request -> RequestState]
    /\ \A r \in Request : Typed(req[r]) /\ Lookups(req[r])

CInv == store \in Stores /\ RequestsOK

USE DEF Op, Reads, Creates, Updates, Deletes, Bulk, Scoped, Points

-----------------------------------------------------------------------------

(* A step of one request may leave the others out of sight. *)
LEMMA OneRequest ==
    ASSUME RequestsOK, NEW r \in Request, NEW q, Typed(q), Lookups(q),
           req' = [req EXCEPT ![r] = q]
    PROVE  RequestsOK' /\ req'[r] = q
<1>1. req' \in [Request -> RequestState]
  BY DEF RequestsOK, Typed
<1>2. ASSUME NEW s \in Request PROVE Typed(req'[s]) /\ Lookups(req'[s])
  BY DEF RequestsOK
<1>3. req'[r] = q
  BY DEF RequestsOK
<1> QED
  BY <1>1, <1>2, <1>3 DEF RequestsOK, Typed, Lookups

(* A handler that fails keeps what the request has looked up and written. *)
LEMMA FailStep ==
    ASSUME RequestsOK, NEW r \in Request, NEW es \in Seq({"success", "failed"}),
           FailWith(r, es), req[r].pc # "idle"
    PROVE  RequestsOK'
<1> DEFINE q == [req[r] EXCEPT !.pc = "done", !.reply = "error", !.events = es]
<1>2. req[r] \in RequestState /\ Typed(req[r]) /\ Lookups(req[r])
  BY DEF RequestsOK
<1>3. q \in RequestState
  BY <1>2 DEF RequestState
<1>4. /\ q.pc = "done" /\ q.op = req[r].op /\ q.ids = req[r].ids
      /\ q.seen = req[r].seen /\ q.wrote = req[r].wrote
  BY <1>2 DEF RequestState
<1> HIDE DEF q
<1>5. Typed(q) /\ Lookups(q)
  BY <1>2, <1>3, <1>4 DEF Typed, Lookups
<1>6. req' = [req EXCEPT ![r] = q]
  BY <1>2 DEF FailWith, RequestsOK, q
<1> QED
  BY <1>5, <1>6, OneRequest

(* What a failure of n records emits. *)
LEMMA FailedEvents ==
    ASSUME NEW n \in Nat
    PROVE  Events("failed", n) \in Seq({"success", "failed"})
BY DEF Events

(* Records stay records under a merge, under hooks and under a policy. *)
LEMMA PiecesTyped ==
    /\ Body \subseteq Record
    /\ \A a, b \in Record : Merge(a, b) \in Record /\ MergeMaps(a, b) \in Record
    /\ \A op \in Op, a \in Record : Policed(op, a) \in Record
    /\ \A a \in Record : AfterLoad(a) \in Record
    /\ \A op \in Op, a \in Record : Prepared(op, a) \in Record /\ Loaded(op, a) \in Record
    /\ NoRecord \notin Record
<1>1. Body \subseteq Record
  BY ControllerAssumption DEF Record
<1>2. ASSUME NEW a \in Record, NEW b \in Record
      PROVE  Merge(a, b) \in Record /\ MergeMaps(a, b) \in Record
  BY DEF Merge, MergeMaps, Record
<1>3. ASSUME NEW op \in Op, NEW a \in Record PROVE Policed(op, a) \in Record
  BY DEF Policed, Record
<1>4. ASSUME NEW a \in Record PROVE AfterLoad(a) \in Record
  BY ControllerAssumption DEF AfterLoad, Record
<1>5. ASSUME NEW a \in Record PROVE BeforeSave(a) \in Record
  <2>1. ASSUME NEW f \in Field, \E v \in Virtual : Backing[v] = f /\ a[v] # Zero
        PROVE  a[CHOOSE v \in Virtual : Backing[v] = f] \in Value \cup {Zero, Hidden}
    <3>1. (CHOOSE v \in Virtual : Backing[v] = f) \in Field
      BY <2>1, ControllerAssumption
    <3> QED
      BY <3>1 DEF Record
  <2> QED
    BY <2>1 DEF BeforeSave, Record
<1> QED
  BY <1>1, <1>2, <1>3, <1>4, <1>5, ControllerAssumption DEF Prepared, Loaded

(* A row has no virtual field, of a new record or one that is merged. *)
LEMMA RowsTyped ==
    /\ Row \subseteq Record
    /\ \A a \in Record : Columns(a, Blank) \in Row
    /\ \A a, b \in Row : Merge(a, b) \in Row
    /\ \A a, b \in Record : Columns(a, b) \in Record
<1>1. Virtual \subseteq Field
  BY ControllerAssumption
<1>2. ASSUME NEW a \in Record PROVE Columns(a, Blank) \in Row
  BY <1>1 DEF Columns, Blank, Row, Record
<1>3. ASSUME NEW a \in Row, NEW b \in Row PROVE Merge(a, b) \in Row
  BY <1>1, PiecesTyped DEF Merge, Row
<1>4. ASSUME NEW a \in Record, NEW b \in Record PROVE Columns(a, b) \in Record
  BY DEF Columns, Record
<1> QED
  BY <1>2, <1>3, <1>4 DEF Row

(* The ids of a request: a sequence, of one id unless the operation is bulk. *)
LEMMA TargetsTyped ==
    ASSUME NEW op \in Op, NEW ids \in Targets(op)
    PROVE  ids \in Seq(Id) /\ (op \notin Bulk => Len(ids) = 1)
<1>1. PICK n \in IF op \in Bulk THEN 0 .. MaxBatch ELSE {1} : ids \in [1 .. n -> Id]
  BY DEF Targets
<1>2. n \in Nat
  BY <1>1, ControllerAssumption
<1>3. ids \in Seq(Id) /\ Len(ids) = n
  BY <1>1, <1>2
<1> QED
  BY <1>1, <1>3

-----------------------------------------------------------------------------

(* A request is accepted, with ids that fit its operation. *)
LEMMA AcceptStep ==
    ASSUME RequestsOK, NEW r \in Request, Accept(r)
    PROVE  RequestsOK' /\ req'[r].pc # "done"
<1>1. req[r] \in RequestState /\ Typed(req[r]) /\ Lookups(req[r])
  BY DEF RequestsOK
<1>2a. PICK op \in Op : \E ids \in Targets(op) :
        req' = [req EXCEPT ![r].pc = "guard", ![r].op = op, ![r].ids = ids]
  BY DEF Accept
<1>2. PICK ids \in Targets(op) :
        req' = [req EXCEPT ![r].pc = "guard", ![r].op = op, ![r].ids = ids]
  BY <1>2a
<1>3. ids \in Seq(Id) /\ (op \notin Bulk => Len(ids) = 1)
  BY TargetsTyped
<1> DEFINE q == [req[r] EXCEPT !.pc = "guard", !.op = op, !.ids = ids]
<1>4. q \in RequestState
  BY <1>1, <1>3 DEF RequestState
<1>5. /\ q.pc = "guard" /\ q.op = op /\ q.ids = ids
      /\ q.seen = req[r].seen /\ q.wrote = req[r].wrote
  BY <1>1 DEF RequestState
<1>6. req' = [req EXCEPT ![r] = q]
  BY <1>1, <1>2 DEF RequestsOK
<1> HIDE DEF q
<1>7. Typed(q) /\ Lookups(q)
  BY <1>1, <1>3, <1>4, <1>5 DEF Typed, Lookups, Accept
<1> QED
  BY <1>5, <1>6, <1>7, OneRequest

(* Guard and policy have let the request pass; nothing has been looked up. *)
LEMMA AdmitStep ==
    ASSUME RequestsOK, NEW r \in Request, Admit(r)
    PROVE  RequestsOK' /\ req'[r].pc # "done"
<1>1. req[r] \in RequestState /\ Typed(req[r]) /\ Lookups(req[r])
  BY DEF RequestsOK
<1> DEFINE next == IF req[r].op \in {"read", "delete"} THEN "read" ELSE "decode"
           q == [req[r] EXCEPT !.pc = next]
<1>2. q \in RequestState
  BY <1>1 DEF RequestState
<1>3. /\ q.pc = next /\ q.op = req[r].op /\ q.ids = req[r].ids
      /\ q.seen = req[r].seen /\ q.wrote = req[r].wrote
  BY <1>1 DEF RequestState
<1>4. req' = [req EXCEPT ![r] = q]
  BY <1>1 DEF RequestsOK, Admit
<1>5. /\ req[r].pc = "guard" /\ req[r].seen = <<>> /\ req[r].wrote = {}
      /\ next = "read" => Len(req[r].ids) = 1
      /\ next = "decode" => req[r].op \notin {"read", "delete"}
      /\ next = "read" => req[r].op \in {"read", "delete"}
      /\ next \in {"read", "decode"}
  BY <1>1 DEF Admit, Lookups
<1> HIDE DEF q, next
<1>6. Len(<<>>) = 0
  OBVIOUS
<1>7. Typed(q)
  BY <1>1, <1>2, <1>3, <1>5 DEF Typed
<1>8. Lookups(q)
  <2>1. q.wrote = {} /\ q.seen = <<>> /\ q.pc \in {"read", "decode"}
    BY <1>3, <1>5
  <2>2. q.op \notin Bulk => Len(q.ids) = 1
    BY <1>1, <1>3, <1>5 DEF Lookups
  <2>3. ASSUME q.pc = "read"
        PROVE  q.op \in Reads \cup Scoped /\ Len(q.seen) < Len(q.ids)
    <3>1. q.op \in {"read", "delete"} /\ Len(q.ids) = 1
      BY <1>3, <1>5, <2>3
    <3>2. Len(q.seen) = 0
      BY <1>6, <2>1
    <3> QED
      BY <3>1, <3>2
  <2>4. q.pc = "decode" => q.op \notin {"read", "delete"}
    BY <1>3, <1>5
  <2> QED
    BY <2>1, <2>2, <2>3, <2>4 DEF Lookups
<1> QED
  BY <1>3, <1>5, <1>4, <1>7, <1>8, OneRequest

(* The request has its bodies: one body and one working record per id. *)
LEMMA TakeStep ==
    ASSUME RequestsOK, NEW r \in Request, Take(r), req[r].pc \in {"guard", "decode"},
           req[r].op \notin {"read", "delete"}
    PROVE  /\ RequestsOK'
           /\ req'[r].pc \in {"read", "write"} /\ req'[r].wrote = req[r].wrote
           /\ req'[r].op = req[r].op
           /\ req[r].op \notin Deletes => req'[r].recs = req'[r].bodies
<1>1. req[r] \in RequestState /\ Typed(req[r]) /\ Lookups(req[r])
  BY DEF RequestsOK
<1> DEFINE next == IF req[r].op \in Updates /\ req[r].ids # <<>> THEN "read" ELSE "write"
           got(bodies) == IF req[r].op \in Deletes THEN <<>> ELSE bodies
<1>2. PICK bodies \in [DOMAIN req[r].ids -> Body] :
        req' = [req EXCEPT ![r].pc = next, ![r].bodies = got(bodies), ![r].recs = got(bodies)]
  BY DEF Take
<1>3. req[r].ids \in Seq(Id) /\ req[r].op \in Op
  BY <1>1 DEF RequestState
<1>4. bodies \in Seq(Body) /\ bodies \in Seq(Record)
  <2>1. DOMAIN req[r].ids = 1 .. Len(req[r].ids) /\ Len(req[r].ids) \in Nat
    BY <1>3
  <2> QED
    BY <1>2, <2>1, PiecesTyped
<1> DEFINE g == got(bodies)
           q == [req[r] EXCEPT !.pc = next, !.bodies = g, !.recs = g]
<1>5. g \in Seq(Body) /\ g \in Seq(Record) /\ next \in {"read", "write"}
  BY <1>4
<1>6. req' = [req EXCEPT ![r] = q]
  BY <1>1, <1>2 DEF RequestsOK
<1>7. req[r].op \in Creates \cup Updates => DOMAIN g = DOMAIN req[r].ids
  BY <1>2
<1>8. next = "read" => req[r].op \in Updates /\ req[r].ids # <<>>
  OBVIOUS
<1>9. req[r].op \in Scoped /\ next = "write" => req[r].ids = <<>>
  OBVIOUS
<1> HIDE DEF g, next
<1>10. q \in RequestState
  BY <1>1, <1>5 DEF RequestState
<1>11. /\ q.pc = next /\ q.op = req[r].op /\ q.ids = req[r].ids
      /\ q.seen = req[r].seen /\ q.wrote = req[r].wrote
      /\ q.recs = g /\ q.bodies = g
  BY <1>1 DEF RequestState
<1> HIDE DEF q
<1>12. req[r].seen = <<>> /\ req[r].wrote = {}
  BY <1>1 DEF Lookups
<1>13. Typed(q)
  BY <1>3, <1>5, <1>7, <1>10, <1>11, <1>12 DEF Typed
<1>14. Len(req[r].ids) \in Nat /\ (Len(req[r].ids) = 0 <=> req[r].ids = <<>>)
  BY <1>3
<1>15. Lookups(q)
  BY <1>1, <1>3, <1>5, <1>8, <1>9, <1>11, <1>12, <1>14 DEF Lookups
<1>16. RequestsOK' /\ req'[r] = q
  BY <1>6, <1>13, <1>15, OneRequest
<1> QED
  BY <1>5, <1>11, <1>16

(* The body is decoded. *)
LEMMA DecodeStep ==
    ASSUME RequestsOK, NEW r \in Request, Decode(r)
    PROVE  RequestsOK' /\ req'[r].pc # "done"
<1>1. req[r].pc = "decode" /\ req[r].op \notin {"read", "delete"} /\ Take(r)
  BY DEF RequestsOK, Lookups, Decode
<1> QED
  BY <1>1, TakeStep

(* Guard and policy have let a message pass, with the records it brings. *)
LEMMA AdmitMessageStep ==
    ASSUME RequestsOK, NEW r \in Request, AdmitMessage(r)
    PROVE  /\ RequestsOK'
           /\ req'[r].pc \in {"read", "write"} /\ req'[r].wrote = req[r].wrote
           /\ req'[r].op = req[r].op
           /\ req[r].op \notin Reads \cup Deletes => req'[r].recs = req'[r].bodies
<1>1. CASE req[r].op \notin {"read", "delete"}
  BY <1>1, TakeStep DEF AdmitMessage
<1>2. CASE req[r].op \in {"read", "delete"}
  <2>1. req[r] \in RequestState /\ Typed(req[r]) /\ Lookups(req[r])
    BY DEF RequestsOK
  <2> DEFINE q == [req[r] EXCEPT !.pc = "read"]
  <2>2. q \in RequestState
    BY <2>1 DEF RequestState
  <2>3. /\ q.pc = "read" /\ q.op = req[r].op /\ q.ids = req[r].ids
        /\ q.seen = req[r].seen /\ q.wrote = req[r].wrote
    BY <2>1 DEF RequestState
  <2>4. req' = [req EXCEPT ![r] = q]
    BY <1>2, <2>1 DEF RequestsOK, AdmitMessage
  <2>5. req[r].pc = "guard" /\ req[r].seen = <<>> /\ req[r].wrote = {} /\ Len(req[r].ids) = 1
    BY <1>2, <2>1 DEF AdmitMessage, Lookups
  <2> HIDE DEF q
  <2>6. Len(<<>>) = 0
    OBVIOUS
  <2>7. Typed(q) /\ Lookups(q)
    BY <1>2, <2>1, <2>2, <2>3, <2>5, <2>6 DEF Typed, Lookups
  <2>8. RequestsOK' /\ req'[r] = q
    BY <2>4, <2>7, OneRequest
  <2> QED
    BY <1>2, <2>3, <2>8
<1> QED
  BY <1>1, <1>2

-----------------------------------------------------------------------------

(* A lookup that is in scope, one more for the request. *)
LEMMA ReadStep ==
    ASSUME store \in Stores, RequestsOK, NEW r \in Request, Read(r)
    PROVE  RequestsOK' /\ req'[r].pc # "done"
<1>1. req[r] \in RequestState /\ Typed(req[r]) /\ Lookups(req[r])
  BY DEF RequestsOK
<1>2. /\ req[r].ids \in Seq(Id) /\ req[r].seen \in Seq(Record)
      /\ req[r].recs \in Seq(Record) /\ req[r].op \in Op
  BY <1>1 DEF RequestState
<1>3. /\ req[r].pc = "read" /\ Len(req[r].seen) < Len(req[r].ids)
      /\ req[r].op \in Reads \cup Scoped /\ req[r].wrote = {}
  BY <1>1 DEF Read, Lookups
<1> DEFINE i == Len(req[r].seen) + 1
           found == store[req[r].ids[i]]
           shown == Policed("read", AfterLoad(found))
           seen == Append(req[r].seen, found)
           recs == IF req[r].op \in Updates
                   THEN [req[r].recs EXCEPT ![i] = MergeMaps(Merge(@, shown), shown)] ELSE <<shown>>
           next == IF i < Len(req[r].ids) THEN "read"
                   ELSE IF req[r].op \in Reads THEN "after" ELSE "write"
           q == [req[r] EXCEPT !.seen = seen, !.recs = recs, !.pc = next]
<1>4. i \in 1 .. Len(req[r].ids) /\ req[r].ids[i] \in Id
  BY <1>2, <1>3
<1>5. found \in Record /\ shown \in Record /\ InScope(req[r].op, found)
  BY <1>2, <1>4, PiecesTyped, RowsTyped DEF Read, Stores
<1>6. req' = [req EXCEPT ![r] = q]
  <2>1. req' = [req EXCEPT ![r].seen = seen, ![r].recs = recs, ![r].pc = next]
    BY DEF Read
  <2> HIDE DEF seen, recs, next
  <2> QED
    BY <1>1, <2>1 DEF RequestsOK
<1>7. seen \in Seq(Record) /\ Len(seen) = i
  BY <1>2, <1>5
<1>8. \A j \in DOMAIN seen : \/ j \in DOMAIN req[r].seen /\ seen[j] = req[r].seen[j]
                            \/ seen[j] = found
  BY <1>2, <1>5
<1>9. req[r].op \in Updates => DOMAIN req[r].recs = DOMAIN req[r].ids
  BY <1>1, <1>3 DEF Typed
<1>10. recs \in Seq(Record) /\ (req[r].op \in Updates => DOMAIN recs = DOMAIN req[r].ids)
  <2>1. CASE req[r].op \in Updates
    <3>1. i \in DOMAIN req[r].recs
      BY <1>2, <1>4, <1>9, <2>1
    <3>2. MergeMaps(Merge(req[r].recs[i], shown), shown) \in Record
      BY <1>2, <1>5, <3>1, PiecesTyped
    <3>3. recs = [req[r].recs EXCEPT ![i] = MergeMaps(Merge(@, shown), shown)]
      BY <2>1
    <3> HIDE DEF recs, shown, found, i
    <3> QED
      BY <1>2, <1>9, <2>1, <3>1, <3>2, <3>3
  <2>2. CASE req[r].op \notin Updates
    BY <1>5, <2>2
  <2> QED
    BY <2>1, <2>2
<1>11. /\ next \in {"read", "write", "after"}
       /\ next = "read" => i < Len(req[r].ids)
       /\ next # "read" => i = Len(req[r].ids)
       /\ next = "write" => req[r].op \notin Reads
       /\ i \in Nat /\ i <= Len(req[r].ids)
  BY <1>2, <1>4
<1> HIDE DEF recs, seen, next
<1>12. q \in RequestState
  BY <1>1, <1>7, <1>10, <1>11 DEF RequestState
<1>13. /\ q.pc = next /\ q.op = req[r].op /\ q.ids = req[r].ids
       /\ q.seen = seen /\ q.wrote = req[r].wrote /\ q.recs = recs
  BY <1>1 DEF RequestState
<1> HIDE DEF q
<1>14. Typed(q)
  BY <1>3, <1>7, <1>10, <1>11, <1>12, <1>13 DEF Typed
<1>15. \A j \in DOMAIN seen : req[r].op \in Scoped =>
          seen[j][Owner] \in Visible[req[r].op] \cap Visible["read"]
  BY <1>1, <1>5, <1>8 DEF InScope, Lookups
<1> HIDE DEF i
<1>16. Lookups(q)
  BY <1>1, <1>3, <1>7, <1>11, <1>13, <1>15 DEF Lookups
<1> QED
  BY <1>11, <1>13, <1>6, <1>14, <1>16, OneRequest

(* A merge that panics comes after a lookup in scope, and ends the request with
   what it has so far. *)
LEMMA PanicStep ==
    ASSUME store \in Stores, RequestsOK, NEW r \in Request, ReadPanics(r)
    PROVE  LET found == store[req[r].ids[Len(req[r].seen) + 1]]
           IN  /\ RequestsOK' /\ UNCHANGED store
               /\ found \in Row /\ InScope(req[r].op, found)
               /\ req[r].pc = "read" /\ req'[r].pc = "panicked"
               /\ req'[r].seen = Append(req[r].seen, found)
               /\ req'[r].op = req[r].op /\ req'[r].ids = req[r].ids
               /\ req'[r].bodies = req[r].bodies /\ req'[r].recs = req[r].recs
               /\ req'[r].wrote = req[r].wrote /\ req'[r].events = req[r].events
               /\ req'[r].reply = req[r].reply
<1>1. req[r] \in RequestState /\ Typed(req[r]) /\ Lookups(req[r])
  BY DEF RequestsOK
<1>2. req[r].ids \in Seq(Id) /\ req[r].seen \in Seq(Record)
  BY <1>1 DEF RequestState
<1>3. /\ req[r].pc = "read" /\ Len(req[r].seen) < Len(req[r].ids)
      /\ req[r].op \in Updates /\ req[r].wrote = {}
  BY <1>1 DEF ReadPanics, Lookups
<1> DEFINE i == Len(req[r].seen) + 1
           found == store[req[r].ids[i]]
           seen == Append(req[r].seen, found)
           q == [req[r] EXCEPT !.seen = seen, !.pc = "panicked"]
<1>4. i \in 1 .. Len(req[r].ids) /\ req[r].ids[i] \in Id
  BY <1>2, <1>3
<1>5. found \in Row /\ found \in Record /\ InScope(req[r].op, found) /\ UNCHANGED store
  BY <1>2, <1>4, RowsTyped DEF ReadPanics, Stores
<1>6. req' = [req EXCEPT ![r] = q]
  <2>1. req' = [req EXCEPT ![r].seen = seen, ![r].pc = "panicked"]
    BY DEF ReadPanics
  <2> HIDE DEF seen
  <2> QED
    BY <1>1, <2>1 DEF RequestsOK
<1>7. seen \in Seq(Record) /\ Len(seen) = i /\ i <= Len(req[r].ids)
  BY <1>2, <1>4, <1>5
<1>8. \A j \in DOMAIN seen : \/ j \in DOMAIN req[r].seen /\ seen[j] = req[r].seen[j]
                            \/ seen[j] = found
  BY <1>2, <1>5
<1>9. \A j \in DOMAIN seen : req[r].op \in Scoped =>
          seen[j][Owner] \in Visible[req[r].op] \cap Visible["read"]
  BY <1>1, <1>5, <1>8 DEF InScope, Lookups
<1> HIDE DEF seen, i
<1>10. q \in RequestState
  BY <1>1, <1>7 DEF RequestState
<1>11. /\ q.pc = "panicked" /\ q.op = req[r].op /\ q.ids = req[r].ids /\ q.seen = seen
       /\ q.bodies = req[r].bodies /\ q.recs = req[r].recs /\ q.wrote = req[r].wrote
       /\ q.events = req[r].events /\ q.reply = req[r].reply
  BY <1>1 DEF RequestState
<1> HIDE DEF q, found
<1>12. Typed(q)
  BY <1>7, <1>10, <1>11 DEF Typed
<1>13. Lookups(q)
  BY <1>1, <1>3, <1>9, <1>11 DEF Lookups
<1>14. RequestsOK' /\ req'[r] = q
  BY <1>6, <1>12, <1>13, OneRequest
<1> QED
  BY <1>3, <1>5, <1>11, <1>14 DEF found, seen, i

-----------------------------------------------------------------------------

(* What a write puts in the place of a record it touches. *)
LEMMA WrittenTyped ==
    ASSUME store \in Stores, RequestsOK, NEW r \in Request, req[r].pc = "write",
           NEW i \in DOMAIN req[r].ids, NEW omitZero \in BOOLEAN,
           req[r].op \in Creates \/ store[req[r].ids[i]] # NoRecord
    PROVE  LET w == Written(r, req[r].ids[i], i, omitZero)
           IN  /\ w \in Row \cup {NoRecord}
               /\ req[r].op \notin Deletes => w \in Row
<1>1. req[r] \in RequestState /\ Typed(req[r]) /\ Lookups(req[r])
  BY DEF RequestsOK
<1>2. req[r].ids \in Seq(Id) /\ req[r].recs \in Seq(Record) /\ req[r].op \in Op
  BY <1>1 DEF RequestState
<1>3. req[r].ids[i] \in Id
  BY <1>2
<1>4. CASE req[r].op \in Deletes
  BY <1>4 DEF Written
<1>5. CASE req[r].op \in Creates
  <2>1. req[r].recs[i] \in Record
    BY <1>1, <1>2, <1>5 DEF Typed
  <2>2. Columns(Prepared(req[r].op, req[r].recs[i]), Blank) \in Row
    BY <1>2, <2>1, PiecesTyped, RowsTyped
  <2> QED
    BY <1>5, <2>2 DEF Written
<1>6. CASE req[r].op \in Updates
  <2>1. req[r].recs[i] \in Record
    BY <1>1, <1>2, <1>6 DEF Typed
  <2>2. store[req[r].ids[i]] \in Row
    BY <1>3, <1>6 DEF Stores
  <2>3. Columns(Prepared(req[r].op, req[r].recs[i]), Blank) \in Row
    BY <1>2, <2>1, PiecesTyped, RowsTyped
  <2> QED
    BY <1>6, <2>2, <2>3, RowsTyped DEF Written
<1>7. req[r].op \notin Reads
  BY <1>1 DEF Lookups
<1> QED
  BY <1>2, <1>4, <1>5, <1>6, <1>7

(* A write changes whole records, and keeps one working record per id. *)
LEMMA WriteStep ==
    ASSUME store \in Stores, RequestsOK, NEW r \in Request, Write(r)
    PROVE  store' \in Stores /\ RequestsOK' /\ req'[r].pc # "done"
<1>1. req[r] \in RequestState /\ Typed(req[r]) /\ Lookups(req[r])
  BY DEF RequestsOK
<1>2. /\ req[r].ids \in Seq(Id) /\ req[r].recs \in Seq(Record)
      /\ req[r].op \in Op /\ req[r].pc = "write"
  BY <1>1 DEF RequestState, Write
<1> DEFINE ids == req[r].ids
           touched == {i \in DOMAIN ids : req[r].op \in Creates \/ store[ids[i]] # NoRecord}
           new(i, o) == Written(r, ids[i], i, o)
           kept(o) == [i \in DOMAIN ids |->
                         IF i \in touched THEN Returned(r, i, new(i, o)) ELSE req[r].recs[i]]
           recs(o) == IF req[r].op \in Deletes THEN req[r].recs ELSE kept(o)
           wrote == {ids[i] : i \in touched}
<1>3. PICK o \in BOOLEAN :
        /\ store' = [id \in Id |-> IF \E i \in touched : ids[i] = id
                       THEN new(CHOOSE i \in touched : ids[i] = id, o) ELSE store[id]]
        /\ req' = [req EXCEPT ![r].pc = "after", ![r].wrote = wrote, ![r].recs = recs(o)]
  BY DEF Write
<1>4. \A i \in touched : /\ new(i, o) \in Row \cup {NoRecord}
                         /\ req[r].op \notin Deletes => new(i, o) \in Row
  BY <1>2, WrittenTyped
<1>5. wrote \in SUBSET Id
  BY <1>2
<1>6. req[r].op \notin Deletes =>
        DOMAIN req[r].recs = DOMAIN ids /\ req[r].op \notin Reads
  BY <1>1, <1>2 DEF Typed, Lookups
<1>7. /\ recs(o) \in Seq(Record)
      /\ req[r].op \notin Deletes => DOMAIN recs(o) = DOMAIN ids
  <2>1. CASE req[r].op \in Deletes
    BY <1>2, <2>1
  <2>2. CASE req[r].op \notin Deletes
    <3>1. \A i \in DOMAIN ids : req[r].recs[i] \in Record
      BY <1>2, <1>6, <2>2
    <3>2. DOMAIN ids = 1 .. Len(ids) /\ Len(ids) \in Nat
      BY <1>2
    <3>3. touched \subseteq DOMAIN ids
      OBVIOUS
    <3> HIDE DEF new, touched
    <3>4. \A i \in touched : Returned(r, i, new(i, o)) \in Record
      BY <1>2, <1>4, <2>2, <3>1, <3>3, PiecesTyped, RowsTyped DEF Returned
    <3> HIDE DEF ids
    <3>5. kept(o) \in [1 .. Len(ids) -> Record]
      BY <2>2, <3>1, <3>2, <3>4
    <3> HIDE DEF kept
    <3> QED
      BY <2>2, <3>2, <3>5
  <2> QED
    BY <2>1, <2>2
<1> HIDE DEF new, touched
<1>8. store' \in Stores
  <2>1. ASSUME NEW id \in Id PROVE store'[id] \in Row \cup {NoRecord}
    BY <1>3, <1>4 DEF Stores
  <2> QED
    BY <1>3, <2>1 DEF Stores
<1> HIDE DEF recs, wrote
<1> DEFINE q == [req[r] EXCEPT !.pc = "after", !.wrote = wrote, !.recs = recs(o)]
<1>9. q \in RequestState
  BY <1>1, <1>5, <1>7 DEF RequestState
<1>10. /\ q.pc = "after" /\ q.op = req[r].op /\ q.ids = req[r].ids
       /\ q.seen = req[r].seen /\ q.wrote = wrote /\ q.recs = recs(o)
  BY <1>1 DEF RequestState
<1>11. req' = [req EXCEPT ![r] = q]
  BY <1>1, <1>3 DEF RequestsOK
<1> HIDE DEF q
<1>12. Typed(q)
  BY <1>1, <1>7, <1>9, <1>10 DEF Typed
<1>13. Lookups(q)
  BY <1>1, <1>2, <1>10 DEF Lookups
<1> QED
  BY <1>10, <1>8, <1>11, <1>12, <1>13, OneRequest

(* The answer: a policed record for each working record. *)
LEMMA RespondStep ==
    ASSUME RequestsOK, NEW r \in Request, Respond(r)
    PROVE  RequestsOK'
<1>1. req[r] \in RequestState /\ Typed(req[r]) /\ Lookups(req[r])
  BY DEF RequestsOK
<1>2. /\ req[r].ids \in Seq(Id) /\ req[r].recs \in Seq(Record)
      /\ req[r].op \in Op /\ req[r].pc = "after"
  BY <1>1 DEF RequestState, Respond
<1> DEFINE es == IF req[r].op \in Reads THEN <<>> ELSE Events("success", Len(req[r].ids))
           sent == [i \in DOMAIN req[r].recs |-> Policed(req[r].op, req[r].recs[i])]
           recs == IF req[r].op \in Deletes THEN <<>> ELSE sent
           q == [req[r] EXCEPT !.pc = "done", !.reply = "ok", !.events = es, !.recs = recs]
<1>3. req' = [req EXCEPT ![r].pc = "done", ![r].reply = "ok", ![r].events = es, ![r].recs = recs]
  BY DEF Respond
<1>4. es \in Seq({"success", "failed"})
  BY <1>2 DEF Events
<1>5. recs \in Seq(Record)
  BY <1>2, PiecesTyped
<1> HIDE DEF es, recs
<1>6. q \in RequestState
  BY <1>1, <1>4, <1>5 DEF RequestState
<1>7. /\ q.pc = "done" /\ q.op = req[r].op /\ q.ids = req[r].ids
      /\ q.seen = req[r].seen /\ q.wrote = req[r].wrote
  BY <1>1 DEF RequestState
<1>8. req' = [req EXCEPT ![r] = q]
  BY <1>1, <1>3 DEF RequestsOK
<1> HIDE DEF q
<1>9. Typed(q) /\ Lookups(q)
  BY <1>1, <1>2, <1>6, <1>7 DEF Typed, Lookups
<1> QED
  BY <1>8, <1>9, OneRequest

(* Every way to fail comes to FailWith. *)
Failure(r) ==
    \/ Refuse(r) \/ DecodeFails(r) \/ MalformedId(r) \/ ReadFails(r) \/ WriteFails(r)
    \/ AfterHookFails(r)

LEMMA FailuresStep ==
    ASSUME RequestsOK, NEW r \in Request, Failure(r)
    PROVE  \E es \in Seq({"success", "failed"}) : FailWith(r, es) /\ req[r].pc # "idle"
<1>1. req[r].ids \in Seq(Id) /\ Len(req[r].ids) \in Nat
  BY DEF RequestsOK, RequestState
<1>2. ASSUME NEW n \in Nat, Fail(r, n), req[r].pc # "idle"
      PROVE  \E es \in Seq({"success", "failed"}) : FailWith(r, es) /\ req[r].pc # "idle"
  <2> DEFINE es == IF req[r].op \in Reads \/ req[r].pc = "guard"
                   THEN <<>> ELSE Events("failed", n)
  <2>1. es \in Seq({"success", "failed"})
    BY FailedEvents
  <2> QED
    BY <1>2, <2>1 DEF Fail
<1>3. CASE Refuse(r)
  BY <1>2, <1>3 DEF Refuse
<1>4. CASE DecodeFails(r)
  <2>1. PICK n \in 0 .. Len(req[r].ids) : Fail(r, n)
    BY <1>4 DEF DecodeFails
  <2> QED
    BY <1>1, <1>2, <1>4, <2>1 DEF DecodeFails
<1>5. CASE MalformedId(r)
  BY <1>5, FailedEvents DEF MalformedId
<1>6. CASE ReadFails(r) \/ WriteFails(r) \/ AfterHookFails(r)
  BY <1>1, <1>2, <1>6 DEF ReadFails, WriteFails, AfterHookFails
<1> QED
  BY <1>3, <1>4, <1>5, <1>6 DEF Failure


(* The steps of a request. *)
Step(r) ==
    \/ Accept(r) \/ Admit(r) \/ Decode(r) \/ AdmitMessage(r)
    \/ Read(r) \/ ReadPanics(r) \/ Write(r) \/ Respond(r) \/ Failure(r)

LEMMA NextSteps == Next => \E r \in Request : Step(r)
BY DEF Next, Step, Failure

(* A request touches no other. *)
LEMMA OneActs ==
    ASSUME RequestsOK, NEW r \in Request, Step(r), NEW s \in Request, s # r
    PROVE  req'[s] = req[s]
<1>1. CASE Accept(r)
  BY <1>1 DEF RequestsOK, Accept
<1>2. CASE Admit(r) \/ Respond(r)
  BY <1>2 DEF RequestsOK, Admit, Respond
<1>3. CASE Decode(r) \/ AdmitMessage(r)
  BY <1>3 DEF RequestsOK, Decode, AdmitMessage, Take
<1>4. CASE Read(r) \/ ReadPanics(r)
  BY <1>4 DEF RequestsOK, Read, ReadPanics
<1>5. CASE Write(r)
  BY <1>5 DEF RequestsOK, Write
<1>6. CASE Failure(r)
  BY <1>6, FailuresStep DEF RequestsOK, FailWith
<1> QED
  BY <1>1, <1>2, <1>3, <1>4, <1>5, <1>6 DEF Step

-----------------------------------------------------------------------------

(* The invariant is inductive. *)
LEMMA CInvInductive == Spec => []CInv
<1>1. Init => CInv
  <2> SUFFICES ASSUME Init PROVE CInv
    OBVIOUS
  <2>1. store \in Stores
    BY ControllerAssumption DEF Init, Stores, Record
  <2>2. Fresh \in RequestState
    BY DEF Fresh, RequestState
  <2>3. Typed(Fresh) /\ Lookups(Fresh)
    BY <2>2 DEF Fresh, Typed, Lookups
  <2> QED
    BY <2>1, <2>2, <2>3 DEF Init, CInv, RequestsOK
<1>2. CInv /\ [Next]_cvars => CInv'
  <2> SUFFICES ASSUME CInv, [Next]_cvars PROVE CInv'
    OBVIOUS
  <2>1. CASE UNCHANGED cvars
    BY <2>1 DEF cvars, CInv, RequestsOK
  <2>2. ASSUME NEW r \in Request, Accept(r) \/ Admit(r) \/ Decode(r) \/ AdmitMessage(r)
        PROVE  CInv'
    <3>1. RequestsOK'
      BY <2>2, AcceptStep, AdmitStep, DecodeStep, AdmitMessageStep DEF CInv
    <3>2. UNCHANGED store
      BY <2>2 DEF Accept, Admit, Decode, AdmitMessage
    <3> QED
      BY <3>1, <3>2 DEF CInv
  <2>3. ASSUME NEW r \in Request, Read(r) \/ ReadPanics(r) PROVE CInv'
    BY <2>3, ReadStep, PanicStep DEF CInv, Read
  <2>4. ASSUME NEW r \in Request, Write(r) PROVE CInv'
    BY <2>4, WriteStep DEF CInv
  <2>5. ASSUME NEW r \in Request, Respond(r) PROVE CInv'
    BY <2>5, RespondStep DEF CInv, Respond
  <2>6. ASSUME NEW r \in Request, Failure(r) PROVE CInv'
    <3>1. RequestsOK'
      <4>1. PICK es \in Seq({"success", "failed"}) : FailWith(r, es) /\ req[r].pc # "idle"
        BY <2>6, FailuresStep DEF CInv
      <4> QED
        BY <4>1, FailStep DEF CInv
    <3>2. UNCHANGED store
      BY <2>6 DEF Failure, Refuse, DecodeFails, MalformedId, ReadFails, WriteFails,
                  AfterHookFails
    <3> QED
      BY <3>1, <3>2 DEF CInv
  <2> QED
    BY <2>1, <2>2, <2>3, <2>4, <2>5, <2>6 DEF Next, Failure
<1> QED
  BY <1>1, <1>2, PTL DEF Spec

(* The repository holds records and the requests keep their types, with one
   working record per id of a create or an update. *)
THEOREM TypeCorrect == Spec => []TypeOK
<1>1. CInv => TypeOK
  BY DEF CInv, RequestsOK, Typed, TypeOK
<1> QED
  BY <1>1, CInvInductive, PTL

(* Update, UpdateBatch and Delete change a record by id only after svc.Show
   has found each record of the request within scope. *)
THEOREM LookupBeforeWrite == Spec => []WritesWereInScope
<1>1. CInv => WritesWereInScope
  BY DEF CInv, RequestsOK, Lookups, WritesWereInScope
<1> QED
  BY <1>1, CInvInductive, PTL

-----------------------------------------------------------------------------

(* What a request q that has been answered has reported. *)
Reported(q) ==
    q.pc = "done" /\ q.op \notin Reads /\ (q.reply = "ok" \/ q.wrote # {}) =>
        q.events = Events(IF q.reply = "ok" THEN "success" ELSE "failed", Len(q.ids))

Outcomes == \A r \in Request : Reported(req[r])

(* A step that does not end its request changes no outcome. *)
LEMMA UnderWay ==
    ASSUME store \in Stores, RequestsOK, Outcomes, NEW r \in Request,
           \/ Accept(r) \/ Admit(r) \/ Decode(r) \/ AdmitMessage(r)
           \/ Read(r) \/ ReadPanics(r) \/ Write(r)
    PROVE  Outcomes'
<1>1. \A s \in Request : s # r => req'[s] = req[s]
  BY DEF RequestsOK, Accept, Admit, Decode, AdmitMessage, Take, Read, ReadPanics, Write
<1>2. req'[r].pc # "done"
  BY AcceptStep, AdmitStep, DecodeStep, AdmitMessageStep, ReadStep, PanicStep, WriteStep
<1> QED
  BY <1>1, <1>2 DEF Outcomes, Reported

(* A failure is reported, once per record where something has been written. *)
LEMMA FailureReported ==
    ASSUME RequestsOK, Outcomes, NEW r \in Request, Failure(r)
    PROVE  Outcomes'
<1>1. req[r] \in RequestState /\ Lookups(req[r])
  BY DEF RequestsOK
<1>2. req[r].wrote # {} => Fail(r, Len(req[r].ids)) /\ req[r].op \notin Reads /\ req[r].pc = "after"
  BY <1>1 DEF Lookups, Failure, Refuse, DecodeFails, MalformedId, ReadFails, WriteFails,
              AfterHookFails
<1>3. PICK es \in Seq({"success", "failed"}) : FailWith(r, es)
  BY FailuresStep
<1>4. \A s \in Request : s # r => req'[s] = req[s]
  BY <1>3 DEF RequestsOK, FailWith
<1>5. /\ req'[r].reply = "error" /\ req'[r].wrote = req[r].wrote
      /\ req'[r].ids = req[r].ids
  BY <1>1, <1>3 DEF RequestsOK, RequestState, FailWith
<1>6. req[r].wrote # {} => req'[r].events = Events("failed", Len(req[r].ids))
  BY <1>1, <1>2 DEF RequestsOK, RequestState, Fail, FailWith
<1> QED
  BY <1>4, <1>5, <1>6 DEF Outcomes, Reported

(* An answer is reported as a success. *)
LEMMA AnswerReported ==
    ASSUME RequestsOK, Outcomes, NEW r \in Request, Respond(r)
    PROVE  Outcomes'
<1>1. req[r] \in RequestState /\ Lookups(req[r])
  BY DEF RequestsOK
<1>3. \A s \in Request : s # r => req'[s] = req[s]
  BY DEF RequestsOK, Respond
<1>4. /\ req'[r].reply = "ok" /\ req'[r].wrote = req[r].wrote
      /\ req'[r].ids = req[r].ids /\ req'[r].op = req[r].op
  BY <1>1 DEF RequestsOK, RequestState, Respond
<1>5. req[r].op \notin Reads => req'[r].events = Events("success", Len(req[r].ids))
  BY <1>1 DEF RequestsOK, RequestState, Respond
<1>6. Reported(req'[r])
  BY <1>1, <1>4, <1>5 DEF Reported, Lookups
<1> QED
  BY <1>3, <1>6 DEF Outcomes

(* Every outcome stays reported. *)
LEMMA OutcomesInductive == Spec => []Outcomes
<1>1. Init => Outcomes
  <2> SUFFICES ASSUME Init, NEW r \in Request PROVE req[r].pc # "done"
    BY DEF Outcomes, Reported
  <2> QED
    BY DEF Init, Fresh
<1>2. CInv /\ Outcomes /\ [Next]_cvars => Outcomes'
  <2> SUFFICES ASSUME CInv, Outcomes, [Next]_cvars PROVE Outcomes'
    OBVIOUS
  <2>1. CASE UNCHANGED cvars
    BY <2>1 DEF cvars, Outcomes
  <2>2. CASE Next
    BY <2>2, UnderWay, FailureReported, AnswerReported DEF Next, Failure, CInv
  <2> QED
    BY <2>1, <2>2
<1> QED
  BY <1>1, <1>2, CInvInductive, PTL DEF Spec

(* Every success, and every change to the repository, is reported by one event
   per record, of the kind of the response, After hooks that fail included. *)
THEOREM ChangesReported == Spec => []WritesAreAudited
<1>1. Outcomes => WritesAreAudited
  BY DEF Outcomes, Reported, WritesAreAudited
<1> QED
  BY <1>1, OutcomesInductive, PTL

-----------------------------------------------------------------------------

(* Until it is written, the working record of a create or an update agrees
   with the body wherever the body says something. *)
Agrees(q) ==
    q.op \in Creates \cup Updates /\ q.pc \in {"read", "write"} =>
        \A i \in DOMAIN q.ids, f \in Field :
            q.bodies[i][f] # Zero => q.recs[i][f] = q.bodies[i][f]

BodiesKept == \A r \in Request : Agrees(req[r])

(* A merge keeps every field that is not zero. *)
LEMMA MergeKeeps ==
    ASSUME NEW a, NEW b, NEW f \in Field, a[f] # Zero
    PROVE  MergeMaps(Merge(a, b), b)[f] = a[f]
BY DEF Merge, MergeMaps

(* A lookup merges one working record and leaves the others. *)
LEMMA ReadAgrees ==
    ASSUME RequestsOK, NEW r \in Request, Read(r), Agrees(req[r])
    PROVE  Agrees(req'[r])
<1>1. req[r] \in RequestState /\ Typed(req[r]) /\ Lookups(req[r])
  BY DEF RequestsOK
<1> DEFINE i == Len(req[r].seen) + 1
           shown == Policed("read", AfterLoad(store[req[r].ids[i]]))
           recs == [req[r].recs EXCEPT ![i] = MergeMaps(Merge(@, shown), shown)]
<1>2. /\ req'[r].op = req[r].op /\ req'[r].ids = req[r].ids
      /\ req'[r].bodies = req[r].bodies
      /\ req[r].op \in Updates => req'[r].recs = recs
  BY <1>1 DEF RequestsOK, RequestState, Read
<1>3. req[r].op \notin Creates /\ req[r].pc = "read"
  BY <1>1 DEF Lookups, Read
<1> HIDE DEF recs
<1> SUFFICES ASSUME req[r].op \in Updates,
                    NEW j \in DOMAIN req[r].ids, NEW f \in Field, req[r].bodies[j][f] # Zero
             PROVE  recs[j][f] = req[r].bodies[j][f]
  BY <1>2, <1>3 DEF Agrees
<1>4. req[r].recs[j][f] = req[r].bodies[j][f]
  BY <1>3 DEF Agrees
<1>5. j \in DOMAIN req[r].recs
  BY <1>1, <1>3 DEF Typed
<1> USE DEF recs
<1> HIDE DEF shown, i
<1>6. CASE j = i
  BY <1>4, <1>5, <1>6, MergeKeeps
<1>7. CASE j # i
  BY <1>4, <1>5, <1>7
<1> QED
  BY <1>6, <1>7

(* What a write changes of its request, and of each record it touches. *)
LEMMA WriteShape ==
    ASSUME RequestsOK, NEW r \in Request, Write(r)
    PROVE  LET ids == req[r].ids
               touched == {i \in DOMAIN ids : req[r].op \in Creates \/ store[ids[i]] # NoRecord}
           IN  /\ req'[r].pc = "after" /\ req'[r].ids = ids /\ req'[r].seen = req[r].seen
               /\ req'[r].op = req[r].op /\ req'[r].reply = req[r].reply
               /\ req'[r].events = req[r].events
               /\ req'[r].wrote = {ids[i] : i \in touched}
               /\ \E o \in BOOLEAN : store' = [id \in Id |->
                     IF \E i \in touched : ids[i] = id
                     THEN Written(r, ids[CHOOSE i \in touched : ids[i] = id],
                                  CHOOSE i \in touched : ids[i] = id, o)
                     ELSE store[id]]
<1> DEFINE ids == req[r].ids
           touched == {i \in DOMAIN ids : req[r].op \in Creates \/ store[ids[i]] # NoRecord}
           new(i, o) == Written(r, ids[i], i, o)
           kept(o) == [i \in DOMAIN ids |->
                         IF i \in touched THEN Returned(r, i, new(i, o)) ELSE req[r].recs[i]]
           recs(o) == IF req[r].op \in Deletes THEN req[r].recs ELSE kept(o)
           wrote == {ids[i] : i \in touched}
<1>1. PICK o \in BOOLEAN :
        /\ store' = [id \in Id |-> IF \E i \in touched : ids[i] = id
                       THEN new(CHOOSE i \in touched : ids[i] = id, o) ELSE store[id]]
        /\ req' = [req EXCEPT ![r].pc = "after", ![r].wrote = wrote, ![r].recs = recs(o)]
  BY DEF Write
<1> HIDE DEF recs, wrote
<1>2. /\ req'[r].pc = "after" /\ req'[r].wrote = wrote
      /\ req'[r].ids = req[r].ids /\ req'[r].seen = req[r].seen
      /\ req'[r].op = req[r].op /\ req'[r].reply = req[r].reply
      /\ req'[r].events = req[r].events
  BY <1>1 DEF RequestsOK, RequestState
<1> QED
  BY <1>1, <1>2 DEF wrote

(* A request names each record once. *)
Distinct(q) == \A i, j \in DOMAIN q.ids : q.ids[i] = q.ids[j] => i = j

(* Every record that a write touches becomes what the write makes of it. *)
LEMMA WriteLands ==
    ASSUME RequestsOK, NEW r \in Request, Write(r), Distinct(req[r])
    PROVE  LET ids == req[r].ids
               touched == {i \in DOMAIN ids : req[r].op \in Creates \/ store[ids[i]] # NoRecord}
           IN  /\ req'[r].wrote = {ids[i] : i \in touched}
               /\ \E o \in BOOLEAN : \A i \in touched :
                     store'[ids[i]] = Written(r, ids[i], i, o)
<1> DEFINE ids == req[r].ids
           touched == {i \in DOMAIN ids : req[r].op \in Creates \/ store[ids[i]] # NoRecord}
<1>1. /\ ids \in Seq(Id) /\ touched \subseteq DOMAIN ids
      /\ \A i, j \in touched : ids[i] = ids[j] => i = j
  BY DEF RequestsOK, RequestState, Distinct
<1>2. PICK o \in BOOLEAN :
        /\ store' = [id \in Id |-> IF \E i \in touched : ids[i] = id
             THEN Written(r, ids[CHOOSE i \in touched : ids[i] = id],
                          CHOOSE i \in touched : ids[i] = id, o)
             ELSE store[id]]
        /\ req'[r].wrote = {ids[i] : i \in touched}
  BY WriteShape
<1> HIDE DEF ids, touched
<1>3. ASSUME NEW i \in touched PROVE store'[ids[i]] = Written(r, ids[i], i, o)
  <2>1. (CHOOSE j \in touched : ids[j] = ids[i]) = i
    BY <1>1
  <2>2. ids[i] \in Id
    BY <1>1
  <2> QED
    BY <1>2, <2>1, <2>2
<1> QED
  BY <1>2, <1>3 DEF ids, touched

(* No other step changes the repository on behalf of a request. *)
LEMMA OnlyWriteWrites ==
    ASSUME CInv, Next, NEW r \in Request, req'[r].wrote # req[r].wrote
    PROVE  Write(r)
<1>1. req[r] \in RequestState /\ Typed(req[r]) /\ Lookups(req[r]) /\ RequestsOK
  BY DEF CInv, RequestsOK
<1>2. PICK s \in Request : Step(s)
  BY NextSteps
<1>3. s = r
  BY <1>1, <1>2, OneActs
<1>4. CASE Accept(r)
  <2>1. PICK op \in Op : \E ids \in Targets(op) :
          req' = [req EXCEPT ![r].pc = "guard", ![r].op = op, ![r].ids = ids]
    BY <1>4 DEF Accept
  <2> QED
    BY <1>1, <2>1 DEF RequestsOK, RequestState
<1>5. CASE Admit(r)
  BY <1>1, <1>5 DEF RequestsOK, RequestState, Admit
<1>6. CASE Decode(r)
  <2>1. req[r].pc = "decode" /\ req[r].op \notin {"read", "delete"} /\ Take(r)
    BY <1>1, <1>6 DEF Lookups, Decode
  <2> QED
    BY <1>1, <2>1, TakeStep
<1>7. CASE AdmitMessage(r)
  BY <1>1, <1>7, AdmitMessageStep
<1>8. CASE Read(r) \/ ReadPanics(r)
  <2>1. ASSUME Read(r) PROVE req'[r].wrote = req[r].wrote
    BY <1>1, <2>1 DEF RequestsOK, RequestState, Read
  <2>2. ASSUME ReadPanics(r) PROVE req'[r].wrote = req[r].wrote
    BY <2>2, PanicStep DEF CInv
  <2> QED
    BY <1>8, <2>1, <2>2
<1>9. CASE Respond(r)
  BY <1>1, <1>9 DEF RequestsOK, RequestState, Respond
<1>10. CASE Failure(r)
  <2>1. PICK es \in Seq({"success", "failed"}) : FailWith(r, es)
    BY <1>1, <1>10, FailuresStep
  <2> QED
    BY <1>1, <2>1 DEF RequestsOK, RequestState, FailWith
<1> QED
  BY <1>2, <1>3, <1>4, <1>5, <1>6, <1>7, <1>8, <1>9, <1>10 DEF Step

(* The agreement is inductive. *)
LEMMA BodiesInductive == Spec => []BodiesKept
<1>1. Init => BodiesKept
  BY DEF Init, Fresh, BodiesKept, Agrees
<1>2. CInv /\ BodiesKept /\ [Next]_cvars => BodiesKept'
  <2> SUFFICES ASSUME CInv, BodiesKept, [Next]_cvars PROVE BodiesKept'
    OBVIOUS
  <2>1. CASE UNCHANGED cvars
    BY <2>1 DEF cvars, BodiesKept
  <2>2. ASSUME NEW r \in Request, NEW q,
               req' = [req EXCEPT ![r] = q], Agrees(q)
        PROVE  BodiesKept'
    BY <2>2 DEF BodiesKept, CInv, RequestsOK
  <2>3. ASSUME NEW r \in Request, Decode(r) \/ AdmitMessage(r) PROVE BodiesKept'
    <3>1. \A s \in Request : s # r => req'[s] = req[s]
      BY <2>3 DEF CInv, RequestsOK, Decode, AdmitMessage, Take
    <3>2. /\ req'[r].op = req[r].op
          /\ req[r].op \in Creates \cup Updates => req'[r].recs = req'[r].bodies
      <4>1. CASE Decode(r)
        <5>1. req[r].pc = "decode" /\ req[r].op \notin {"read", "delete"} /\ Take(r)
          BY <4>1 DEF CInv, RequestsOK, Lookups, Decode
        <5> QED
          BY <5>1, TakeStep DEF CInv
      <4>2. CASE AdmitMessage(r)
        BY <4>2, AdmitMessageStep DEF CInv
      <4> QED
        BY <2>3, <4>1, <4>2
    <3> QED
      BY <3>1, <3>2 DEF BodiesKept, Agrees
  <2>4. ASSUME NEW r \in Request, Read(r) PROVE BodiesKept'
    <3>1. \A s \in Request : s # r => req'[s] = req[s]
      BY <2>4 DEF CInv, RequestsOK, Read
    <3>2. Agrees(req'[r])
      BY <2>4, ReadAgrees DEF CInv, BodiesKept
    <3> QED
      BY <3>1, <3>2 DEF BodiesKept
  <2>5. ASSUME NEW r \in Request,
               \/ Accept(r) \/ Admit(r) \/ ReadPanics(r)
               \/ Write(r) \/ Respond(r) \/ Failure(r)
        PROVE  BodiesKept'
    <3>1. req[r] \in RequestState /\ Lookups(req[r])
      BY DEF CInv, RequestsOK
    <3>2. \A s \in Request : s # r => req'[s] = req[s]
      BY <2>5, FailuresStep
      DEF CInv, RequestsOK, Accept, Admit, ReadPanics, Write, Respond, FailWith
    <3>3. ASSUME Accept(r) PROVE Agrees(req'[r])
      BY <3>1, <3>3 DEF CInv, RequestsOK, RequestState, Accept, Agrees
    <3>4. ASSUME Admit(r) PROVE Agrees(req'[r])
      BY <3>1, <3>4 DEF CInv, RequestsOK, RequestState, Admit, Agrees
    <3>5. ASSUME Write(r) PROVE Agrees(req'[r])
      <4>1. req'[r].pc = "after"
        BY <3>5, WriteShape DEF CInv
      <4> QED
        BY <4>1 DEF Agrees
    <3>6. ASSUME Respond(r) PROVE Agrees(req'[r])
      <4>1. req'[r].pc = "done"
        BY <3>1, <3>6 DEF CInv, RequestsOK, RequestState, Respond
      <4> QED
        BY <4>1 DEF Agrees
    <3>7. ASSUME Failure(r) PROVE Agrees(req'[r])
      <4>1. PICK es \in Seq({"success", "failed"}) : FailWith(r, es)
        BY <3>7, FailuresStep DEF CInv
      <4>2. req'[r].pc = "done"
        BY <3>1, <4>1 DEF CInv, RequestsOK, RequestState, FailWith
      <4> QED
        BY <4>2 DEF Agrees
    <3>8. ASSUME ReadPanics(r) PROVE Agrees(req'[r])
      BY <3>8, PanicStep DEF CInv, Agrees
    <3>9. Agrees(req'[r])
      BY <2>5, <3>3, <3>4, <3>5, <3>6, <3>7, <3>8
    <3> QED
      BY <3>2, <3>9 DEF BodiesKept
  <2> QED
    BY <2>1, <2>3, <2>4, <2>5 DEF Next, Failure
<1> QED
  BY <1>1, <1>2, CInvInductive, PTL DEF Spec

(* A row that is written has the virtual fields of its working record. *)
LEMMA RowKeepsVirtuals ==
    ASSUME NEW r \in Request, NEW id, NEW i, NEW omitZero \in BOOLEAN,
           req[r].op \in {"create", "update"},
           NEW v \in Virtual, req[r].recs[i][v] # Zero
    PROVE  Written(r, id, i, omitZero)[Backing[v]] = req[r].recs[i][v]
<1>1. /\ v \in Field /\ Backing[v] \in Field \ Virtual
      /\ \A w \in Virtual : Backing[w] = Backing[v] => w = v
  BY ControllerAssumption
<1> DEFINE row == Columns(BeforeSave(req[r].recs[i]), Blank)
<1>2. BeforeSave(req[r].recs[i])[Backing[v]] = req[r].recs[i][v]
  <2>1. (CHOOSE w \in Virtual : Backing[w] = Backing[v]) = v
    BY <1>1
  <2> QED
    BY <1>1, <2>1 DEF BeforeSave
<1>3. row[Backing[v]] = req[r].recs[i][v]
  BY <1>1, <1>2 DEF Columns
<1>4. Merge(row, store[id])[Backing[v]] = req[r].recs[i][v]
  BY <1>1, <1>3 DEF Merge
<1>5. Prepared(req[r].op, req[r].recs[i]) = BeforeSave(req[r].recs[i])
  BY DEF Prepared
<1> HIDE DEF row
<1>6. Written(r, id, i, omitZero) \in {row, Merge(row, store[id])}
  BY <1>5 DEF Written, row
<1> QED
  BY <1>3, <1>4, <1>6

(* Create, and Update where it gets past the merge, run BeforeSave over whatever
   merge, policies and the repository make of the record: the map gets the
   virtual fields of the body. *)
THEOREM SinglesKeepVirtuals == Spec => SinglesSaveVirtuals
<1>1. CInv /\ BodiesKept /\ [Next]_cvars => [KeepsVirtuals({"create", "update"})]_cvars
  <2> SUFFICES ASSUME CInv, BodiesKept, Next, NEW r \in Request,
                      req[r].op \in {"create", "update"},
                      NEW i \in DOMAIN req[r].ids,
                      req[r].ids[i] \in req'[r].wrote \ req[r].wrote,
                      NEW v \in Virtual, req[r].bodies[i][v] # Zero
               PROVE  store'[req[r].ids[i]][Backing[v]] = req[r].bodies[i][v]
    BY DEF KeepsVirtuals, cvars
  <2>1. req[r] \in RequestState /\ Typed(req[r]) /\ Lookups(req[r])
    BY DEF CInv, RequestsOK
  <2>2. Write(r)
    BY OnlyWriteWrites
  <2>3. req[r].ids \in Seq(Id) /\ Len(req[r].ids) = 1
    BY <2>1, <2>2 DEF RequestState, Lookups, Write
  <2>4. Distinct(req[r])
    BY <2>3 DEF Distinct
  <2>5. PICK omitZero \in BOOLEAN :
          store'[req[r].ids[i]] = Written(r, req[r].ids[i], i, omitZero)
    <3> DEFINE ids == req[r].ids
               touched == {j \in DOMAIN ids : req[r].op \in Creates \/ store[ids[j]] # NoRecord}
    <3>1. PICK omitZero \in BOOLEAN :
            \A j \in touched : store'[ids[j]] = Written(r, ids[j], j, omitZero)
      BY <2>2, <2>4, WriteLands DEF CInv
    <3>2. ids[i] \in {ids[j] : j \in touched}
      BY <2>2, <2>4, WriteLands DEF CInv
    <3>3. i \in touched
      BY <2>4, <3>2 DEF Distinct
    <3> QED
      BY <3>1, <3>3
  <2>6. req[r].recs[i][v] = req[r].bodies[i][v]
    <3>1. v \in Field /\ req[r].pc = "write"
      BY <2>2, ControllerAssumption DEF Write
    <3> QED
      BY <3>1 DEF BodiesKept, Agrees
  <2> QED
    BY <2>5, <2>6, RowKeepsVirtuals
<1> QED
  BY <1>1, CInvInductive, BodiesInductive, PTL DEF Spec, SinglesSaveVirtuals

-----------------------------------------------------------------------------

(* What svc.Show returns of a row. *)
Shown(row) == Policed("read", AfterLoad(row))

(* The working record of an update that is under way: the body, merged with
   the record once that has been read. *)
Hydrated(q) ==
    /\ Distinct(q)
    /\ \A i \in DOMAIN q.seen : q.seen[i] \in Row
    /\ q.op \in Updates /\ q.pc \in {"read", "write"} =>
          \A i \in DOMAIN q.ids :
              /\ q.bodies[i] \in Body
              /\ q.recs[i] = IF i <= Len(q.seen)
                             THEN MergeMaps(Merge(q.bodies[i], Shown(q.seen[i])),
                                            Shown(q.seen[i]))
                             ELSE q.bodies[i]

UpdatesHydrated == \A r \in Request : Hydrated(req[r])

(* A request begins with ids that differ. *)
LEMMA AcceptHydrates ==
    ASSUME RequestsOK, NEW r \in Request, Accept(r), Hydrated(req[r])
    PROVE  Hydrated(req'[r])
<1>1. req[r] \in RequestState
  BY DEF RequestsOK
<1>2. PICK op \in Op : \E ids \in Targets(op) :
        req' = [req EXCEPT ![r].pc = "guard", ![r].op = op, ![r].ids = ids]
  BY DEF Accept
<1>3. PICK ids \in Targets(op) :
        req' = [req EXCEPT ![r].pc = "guard", ![r].op = op, ![r].ids = ids]
  BY <1>2
<1>4. /\ req'[r].pc = "guard" /\ req'[r].ids = ids /\ req'[r].seen = req[r].seen
  BY <1>1, <1>3 DEF RequestsOK, RequestState
<1>5. \A i, j \in DOMAIN ids : ids[i] = ids[j] => i = j
  BY DEF Targets
<1> QED
  BY <1>4, <1>5 DEF Hydrated, Distinct

(* The bodies come in before anything has been read. *)
LEMMA TakeHydrates ==
    ASSUME RequestsOK, NEW r \in Request, Take(r), req[r].pc \in {"guard", "decode"},
           Hydrated(req[r])
    PROVE  Hydrated(req'[r])
<1>1. req[r] \in RequestState /\ Lookups(req[r])
  BY DEF RequestsOK
<1>2. PICK bodies \in [DOMAIN req[r].ids -> Body] :
        req' = [req EXCEPT
                  ![r].pc = IF req[r].op \in Updates /\ req[r].ids # <<>> THEN "read" ELSE "write",
                  ![r].bodies = IF req[r].op \in Deletes THEN <<>> ELSE bodies,
                  ![r].recs = IF req[r].op \in Deletes THEN <<>> ELSE bodies]
  BY DEF Take
<1>3. /\ req'[r].ids = req[r].ids /\ req'[r].op = req[r].op /\ req'[r].seen = req[r].seen
      /\ req[r].op \in Updates => req'[r].bodies = bodies /\ req'[r].recs = bodies
  BY <1>1, <1>2 DEF RequestsOK, RequestState
<1>4. req[r].seen = <<>> /\ req[r].ids \in Seq(Id) /\ Len(<<>>) = 0
  BY <1>1 DEF Lookups, RequestState
<1>5. \A i \in DOMAIN req[r].ids : ~(i <= Len(req[r].seen)) /\ bodies[i] \in Body
  BY <1>2, <1>4
<1> QED
  BY <1>3, <1>5 DEF Hydrated, Distinct

(* A lookup merges the working record it is about. *)
LEMMA ReadHydrates ==
    ASSUME store \in Stores, RequestsOK, NEW r \in Request, Read(r), Hydrated(req[r])
    PROVE  Hydrated(req'[r])
<1>1. req[r] \in RequestState /\ Typed(req[r]) /\ Lookups(req[r])
  BY DEF RequestsOK
<1>2. /\ req[r].ids \in Seq(Id) /\ req[r].seen \in Seq(Record) /\ req[r].pc = "read"
      /\ Len(req[r].seen) < Len(req[r].ids)
  BY <1>1 DEF RequestState, Lookups, Read
<1> DEFINE n == Len(req[r].seen) + 1
           found == store[req[r].ids[n]]
           recs == [req[r].recs EXCEPT ![n] = MergeMaps(Merge(@, Shown(found)), Shown(found))]
<1>3. n \in 1 .. Len(req[r].ids) /\ found \in Row
  <2>1. n \in 1 .. Len(req[r].ids) /\ req[r].ids[n] \in Id
    BY <1>2
  <2> QED
    BY <2>1 DEF Stores, Read
<1>4. /\ req'[r].op = req[r].op /\ req'[r].ids = req[r].ids
      /\ req'[r].bodies = req[r].bodies
      /\ req'[r].seen = Append(req[r].seen, found)
      /\ req[r].op \in Updates => req'[r].recs = recs
  BY <1>1 DEF RequestsOK, RequestState, Read, Shown
<1> HIDE DEF found
<1>5. /\ DOMAIN req'[r].seen = 1 .. n /\ Len(req'[r].seen) = n /\ n \in Nat
      /\ req'[r].seen[n] = found
      /\ \A i \in 1 .. n : i # n => i \in DOMAIN req[r].seen /\ req'[r].seen[i] = req[r].seen[i]
      /\ \A i \in DOMAIN req[r].ids : /\ i # n => (i <= n <=> i <= Len(req[r].seen))
                                     /\ i \in Nat /\ (i <= n => i \in 1 .. n)
  <2>1. /\ DOMAIN req'[r].seen = 1 .. n /\ Len(req'[r].seen) = n /\ n \in Nat
        /\ req'[r].seen[n] = found
    BY <1>2, <1>4
  <2>2. \A i \in 1 .. n : i # n => i \in DOMAIN req[r].seen /\ req'[r].seen[i] = req[r].seen[i]
    BY <1>2, <1>4
  <2>3. \A i \in DOMAIN req[r].ids : /\ i # n => (i <= n <=> i <= Len(req[r].seen))
                                    /\ i \in Nat /\ (i <= n => i \in 1 .. n)
    BY <1>2
  <2> QED
    BY <2>1, <2>2, <2>3
<1>6. \A i \in DOMAIN req'[r].seen : req'[r].seen[i] \in Row
  BY <1>3, <1>5 DEF Hydrated
<1>7. ASSUME req[r].op \in Updates, NEW i \in DOMAIN req[r].ids
      PROVE  /\ req[r].bodies[i] \in Body
             /\ recs[i] = IF i <= n
                          THEN MergeMaps(Merge(req[r].bodies[i], Shown(req'[r].seen[i])),
                                         Shown(req'[r].seen[i]))
                          ELSE req[r].bodies[i]
  <2>1. /\ req[r].bodies[i] \in Body
        /\ req[r].recs[i] = IF i <= Len(req[r].seen)
                            THEN MergeMaps(Merge(req[r].bodies[i], Shown(req[r].seen[i])),
                                           Shown(req[r].seen[i]))
                            ELSE req[r].bodies[i]
    BY <1>2, <1>7 DEF Hydrated
  <2>2. i \in DOMAIN req[r].recs
    BY <1>1, <1>2, <1>7 DEF Typed
  <2>3. CASE i = n
    <3>1. req[r].recs[i] = req[r].bodies[i]
      BY <1>2, <2>1, <2>3
    <3>2. recs[i] = MergeMaps(Merge(req[r].recs[i], Shown(found)), Shown(found))
      BY <2>2, <2>3
    <3>3. i <= n /\ req'[r].seen[i] = found
      BY <1>5, <2>3
    <3> QED
      BY <2>1, <3>1, <3>2, <3>3
  <2>4. CASE i # n
    <3>1. recs[i] = req[r].recs[i]
      BY <2>2, <2>4
    <3>2. (i <= n <=> i <= Len(req[r].seen)) /\ (i <= n => req'[r].seen[i] = req[r].seen[i])
      BY <1>5, <2>4
    <3> QED
      BY <2>1, <3>1, <3>2
  <2> QED
    BY <2>3, <2>4
<1>8. Distinct(req'[r])
  BY <1>4 DEF Hydrated, Distinct
<1> HIDE DEF recs, n
<1> QED
  BY <1>4, <1>5, <1>6, <1>7, <1>8 DEF Hydrated

(* A merge that panics leaves no working record to look at. *)
LEMMA PanicHydrates ==
    ASSUME store \in Stores, RequestsOK, NEW r \in Request, ReadPanics(r), Hydrated(req[r])
    PROVE  Hydrated(req'[r])
<1> DEFINE found == store[req[r].ids[Len(req[r].seen) + 1]]
<1>1. req[r].seen \in Seq(Record) /\ found \in Row /\ req'[r].seen = Append(req[r].seen, found)
  BY PanicStep DEF RequestsOK, RequestState
<1> HIDE DEF found
<1>2. \A i \in DOMAIN req'[r].seen : \/ i \in DOMAIN req[r].seen /\ req'[r].seen[i] = req[r].seen[i]
                                    \/ req'[r].seen[i] = found
  BY <1>1
<1>3. \A i \in DOMAIN req'[r].seen : req'[r].seen[i] \in Row
  BY <1>1, <1>2 DEF Hydrated
<1>4. req'[r].pc = "panicked" /\ Distinct(req'[r])
  BY PanicStep DEF Hydrated, Distinct
<1> QED
  BY <1>3, <1>4 DEF Hydrated

(* The other steps leave the ids and what has been read, and no working record
   is looked at any more once it is written. *)
LEMMA HydratedInductive == Spec => []UpdatesHydrated
<1>1. Init => UpdatesHydrated
  <2>1. Fresh.ids = <<>> /\ Fresh.seen = <<>> /\ Fresh.pc = "idle" /\ DOMAIN <<>> = {}
    BY DEF Fresh
  <2>2. Hydrated(Fresh)
    BY <2>1 DEF Hydrated, Distinct
  <2> QED
    BY <2>2 DEF Init, UpdatesHydrated
<1>2. CInv /\ UpdatesHydrated /\ [Next]_cvars => UpdatesHydrated'
  <2> SUFFICES ASSUME CInv, UpdatesHydrated, [Next]_cvars PROVE UpdatesHydrated'
    OBVIOUS
  <2>1. CASE UNCHANGED cvars
    BY <2>1 DEF cvars, UpdatesHydrated
  <2>2. ASSUME NEW r \in Request, Step(r) PROVE Hydrated(req'[r])
    <3>1. req[r] \in RequestState /\ Typed(req[r]) /\ Lookups(req[r]) /\ Hydrated(req[r])
      BY DEF CInv, RequestsOK, UpdatesHydrated
    <3>2. CASE Accept(r)
      BY <3>1, <3>2, AcceptHydrates DEF CInv
    <3>3. CASE Decode(r)
      <4>1. Take(r) /\ req[r].pc \in {"guard", "decode"}
        BY <3>3 DEF Decode
      <4> QED
        BY <3>1, <4>1, TakeHydrates DEF CInv
    <3>4. CASE ReadPanics(r)
      BY <3>1, <3>4, PanicHydrates DEF CInv
    <3>5. CASE Read(r)
      BY <3>1, <3>5, ReadHydrates DEF CInv
    <3>6. CASE Admit(r)
      <4>1. /\ req'[r].op = req[r].op /\ req'[r].ids = req[r].ids /\ req'[r].seen = req[r].seen
            /\ req'[r].op \in Updates => req'[r].pc = "decode"
        BY <3>1, <3>6 DEF CInv, RequestsOK, RequestState, Admit
      <4> QED
        BY <3>1, <4>1 DEF Hydrated, Distinct
    <3>7. CASE AdmitMessage(r)
      <4>1. CASE req[r].op \in {"read", "delete"}
        <5>1. /\ req'[r].op = req[r].op /\ req'[r].ids = req[r].ids
              /\ req'[r].seen = req[r].seen
          BY <3>1, <3>7, <4>1 DEF CInv, RequestsOK, RequestState, AdmitMessage
        <5> QED
          BY <3>1, <4>1, <5>1 DEF Hydrated, Distinct
      <4>2. CASE req[r].op \notin {"read", "delete"}
        <5>1. Take(r) /\ req[r].pc \in {"guard", "decode"}
          BY <3>7, <4>2 DEF AdmitMessage
        <5> QED
          BY <3>1, <5>1, TakeHydrates DEF CInv
      <4> QED
        BY <4>1, <4>2
    <3>8. CASE Write(r)
      <4>1. req'[r].pc = "after" /\ req'[r].ids = req[r].ids /\ req'[r].seen = req[r].seen
        BY <3>8, WriteShape DEF CInv
      <4> QED
        BY <3>1, <4>1 DEF Hydrated, Distinct
    <3>9. CASE Respond(r)
      <4>1. req'[r].pc = "done" /\ req'[r].ids = req[r].ids /\ req'[r].seen = req[r].seen
        BY <3>1, <3>9 DEF CInv, RequestsOK, RequestState, Respond
      <4> QED
        BY <3>1, <4>1 DEF Hydrated, Distinct
    <3>10. CASE Failure(r)
      <4>1. PICK es \in Seq({"success", "failed"}) : FailWith(r, es)
        BY <3>10, FailuresStep DEF CInv
      <4>2. req'[r].pc = "done" /\ req'[r].ids = req[r].ids /\ req'[r].seen = req[r].seen
        BY <3>1, <4>1 DEF CInv, RequestsOK, RequestState, FailWith
      <4> QED
        BY <3>1, <4>2 DEF Hydrated, Distinct
    <3> QED
      BY <2>2, <3>2, <3>3, <3>4, <3>5, <3>6, <3>7, <3>8, <3>9, <3>10 DEF Step
  <2>3. CASE Next
    <3>1. PICK r \in Request : Step(r)
      BY <2>3, NextSteps
    <3>2. \A s \in Request : s # r => req'[s] = req[s]
      BY <3>1, OneActs DEF CInv
    <3> QED
      BY <2>2, <3>1, <3>2 DEF UpdatesHydrated
  <2> QED
    BY <2>1, <2>3
<1> QED
  BY <1>1, <1>2, CInvInductive, PTL DEF Spec

(* The columns whose value the policy for reads does not hide, nor that of
   their virtual field. *)
Hides(f) == f \in Masked["read"] \cup Denied["read"]
Open == {f \in Field \ Virtual : ~Hides(f) /\ \A v \in Virtual : Backing[v] = f => ~Hides(v)}

(* Bodies leave the keys of virtual fields to these fields. *)
NamesVirtuals == \A b \in Body, f \in Keys : b[f] = Zero

(* A row keeps a virtual field under its key, and svc.Show returns both. *)
LEMMA ShownOfRow ==
    ASSUME NEW a \in Row, NEW f \in Open
    PROVE  /\ Shown(a)[f] = a[f]
           /\ \A v \in Virtual : Backing[v] = f => Shown(a)[v] = a[f]
<1>1. f \in Field \ Virtual /\ ~Hides(f)
  BY DEF Open
<1>2. \A g \in Field : ~Hides(g) => Shown(a)[g] = AfterLoad(a)[g]
  BY DEF Shown, Policed, Hides
<1>3. AfterLoad(a)[f] = a[f]
  BY <1>1 DEF AfterLoad
<1>4. ASSUME NEW v \in Virtual, Backing[v] = f PROVE Shown(a)[v] = a[f]
  <2>1. v \in Field /\ ~Hides(v)
    BY <1>4, ControllerAssumption DEF Open
  <2>2. a[v] = Zero
    BY DEF Row
  <2>3. AfterLoad(a)[v] = a[f]
    BY <1>4, <2>1, <2>2 DEF AfterLoad
  <2> QED
    BY <1>2, <2>1, <2>3
<1> QED
  BY <1>1, <1>2, <1>3, <1>4

(* Merge, hooks and repository together: what an update writes in a column
   that the policy for reads leaves open, for a body, the row it was merged with
   and the one that it meets. *)
LEMMA UpdateOfColumn ==
    ASSUME NamesVirtuals, NEW a \in Row, NEW c \in Row, NEW b \in Body, NEW f \in Open,
           NEW op \in Updates, NEW omitZero \in BOOLEAN
    PROVE  LET row == Columns(Prepared(op, MergeMaps(Merge(b, Shown(a)), Shown(a))), Blank)
               new == IF omitZero THEN Merge(row, c) ELSE row
           IN  \/ IF Wanted(b, f) = Zero THEN new[f] \in {a[f], c[f]}
                  ELSE new[f] = Wanted(b, f)
               \/ op \in Bulk /\ f \in Keys /\ new[f] \in {a[f], c[f]}
<1> DEFINE m == MergeMaps(Merge(b, Shown(a)), Shown(a))
           row == Columns(Prepared(op, m), Blank)
           new == IF omitZero THEN Merge(row, c) ELSE row
<1> SUFFICES \/ IF Wanted(b, f) = Zero THEN new[f] \in {a[f], c[f]}
                ELSE new[f] = Wanted(b, f)
             \/ op \in Bulk /\ f \in Keys /\ new[f] \in {a[f], c[f]}
  OBVIOUS
<1>1. f \in Field \ Virtual /\ Virtual \subseteq Field
  BY ControllerAssumption DEF Open
<1>2. \A g \in Field : m[g] = IF b[g] # Zero THEN b[g] ELSE Shown(a)[g]
  BY DEF Merge, MergeMaps
<1>3. row[f] = Prepared(op, m)[f]
  BY <1>1 DEF Columns
<1>4. new[f] = IF omitZero /\ row[f] = Zero THEN c[f] ELSE row[f]
  BY <1>1 DEF Merge
<1> HIDE DEF m, row, new
<1>5. CASE f \notin Keys
  <2>1. Wanted(b, f) = b[f]
    BY <1>5 DEF Wanted, Keys
  <2>2. Prepared(op, m)[f] = m[f]
    BY <1>1, <1>5 DEF Prepared, BeforeSave, Keys
  <2>3. m[f] = IF b[f] # Zero THEN b[f] ELSE a[f]
    BY <1>1, <1>2, ShownOfRow
  <2> QED
    BY <1>3, <1>4, <2>1, <2>2, <2>3
<1>6. CASE f \in Keys
  <2>1. PICK v \in Virtual : Backing[v] = f
    BY <1>6 DEF Keys
  <2>2. \A w \in Virtual : Backing[w] = f => w = v
    BY <2>1, ControllerAssumption
  <2>3. b[f] = Zero
    BY <1>6 DEF NamesVirtuals
  <2>4. Wanted(b, f) = b[v]
    <3>1. CASE b[v] = Zero
      BY <2>2, <2>3, <3>1 DEF Wanted
    <3>2. CASE b[v] # Zero
      <4>1. (CHOOSE w \in Virtual : Backing[w] = f /\ b[w] # Zero) = v
        BY <2>1, <2>2, <3>2
      <4>2. (CHOOSE w \in Virtual : Backing[w] = f) = v
        BY <2>1, <2>2
      <4> QED
        BY <2>1, <3>2, <4>2 DEF Wanted
    <3> QED
      BY <3>1, <3>2
  <2>5. m[f] = a[f] /\ m[v] = IF b[v] # Zero THEN b[v] ELSE a[f]
    BY <1>1, <1>2, <2>1, <2>3, ShownOfRow
  <2>6. CASE op \in Bulk
    <3>1. row[f] = a[f]
      BY <1>3, <2>5, <2>6 DEF Prepared
    <3> QED
      BY <1>4, <1>6, <2>6, <3>1
  <2>7. CASE op \notin Bulk
    <3>1. row[f] = BeforeSave(m)[f]
      BY <1>3, <2>7 DEF Prepared
    <3>2. BeforeSave(m)[f] = IF m[v] # Zero THEN m[v] ELSE m[f]
      <4>1. (CHOOSE w \in Virtual : Backing[w] = f) = v
        BY <2>1, <2>2
      <4> QED
        BY <1>1, <2>1, <2>2, <4>1 DEF BeforeSave
    <3>3. row[f] = IF b[v] # Zero THEN b[v] ELSE a[f]
      BY <2>5, <3>1, <3>2
    <3> QED
      BY <1>4, <2>4, <3>3
  <2> QED
    BY <2>6, <2>7
<1> QED
  BY <1>5, <1>6

(* A write of an update, as the repository has it. *)
LEMMA UpdateWrites ==
    ASSUME CInv, UpdatesHydrated, NamesVirtuals, NEW r \in Request, Write(r),
           req[r].op \in Updates, NEW i \in DOMAIN req[r].ids,
           req[r].ids[i] \in req'[r].wrote, NEW f \in Open
    PROVE  LET id == req[r].ids[i]
               wanted == Wanted(req[r].bodies[i], f)
               kept == store'[id][f] \in {req[r].seen[i][f], store[id][f]}
           IN  \/ IF wanted = Zero THEN kept ELSE store'[id][f] = wanted
               \/ req[r].op \in Bulk /\ f \in Keys /\ kept
<1> DEFINE ids == req[r].ids
           id == ids[i]
           a == req[r].seen[i]
           b == req[r].bodies[i]
           touched == {j \in DOMAIN ids : req[r].op \in Creates \/ store[ids[j]] # NoRecord}
<1>1. /\ req[r] \in RequestState /\ Lookups(req[r]) /\ Hydrated(req[r]) /\ req[r].pc = "write"
      /\ store \in Stores
  BY DEF CInv, RequestsOK, UpdatesHydrated, Write
<1>2. Len(req[r].seen) = Len(req[r].ids)
  BY <1>1 DEF Lookups
<1>3. i \in DOMAIN req[r].seen /\ i <= Len(req[r].seen) /\ id \in Id
  BY <1>1, <1>2 DEF RequestState
<1>4. a \in Row /\ b \in Body
  BY <1>1, <1>3 DEF Hydrated
<1>5. req[r].recs[i] = MergeMaps(Merge(b, Shown(a)), Shown(a))
  BY <1>1, <1>3 DEF Hydrated
<1>6. Distinct(req[r])
  BY <1>1 DEF Hydrated
<1>7. PICK o \in BOOLEAN :
        /\ req'[r].wrote = {ids[j] : j \in touched}
        /\ \A j \in touched : store'[ids[j]] = Written(r, ids[j], j, o)
  BY <1>6, WriteLands DEF CInv
<1>8. i \in touched
  BY <1>6, <1>7 DEF Distinct
<1>9. store[id] \in Row
  BY <1>1, <1>3, <1>8 DEF Stores
<1> DEFINE row == Columns(Prepared(req[r].op, MergeMaps(Merge(b, Shown(a)), Shown(a))), Blank)
<1>10. store'[id] = IF o THEN Merge(row, store[id]) ELSE row
  BY <1>5, <1>7, <1>8 DEF Written
<1> HIDE DEF touched
<1> QED
  BY <1>4, <1>9, <1>10, UpdateOfColumn

(* An Update or UpdateBatch that gets past the merge changes what its bodies say
   and nothing else in the columns that the policy for reads leaves open, but
   for what the request has looked up, whatever the policies are and whoever
   wrote in between. *)
THEOREM UpdatesKeepOpenColumns ==
    ASSUME NamesVirtuals
    PROVE  Spec => [][UpdatesKeep(Open)]_cvars
<1>1. CInv /\ UpdatesHydrated /\ [Next]_cvars => [UpdatesKeep(Open)]_cvars
  <2> SUFFICES ASSUME CInv, UpdatesHydrated, Next, NEW r \in Request,
                      req[r].op \in Updates, NEW i \in DOMAIN req[r].ids,
                      req[r].ids[i] \in req'[r].wrote \ req[r].wrote, NEW f \in Open
               PROVE  LET id == req[r].ids[i]
                          wanted == Wanted(req[r].bodies[i], f)
                          kept == store'[id][f] \in {req[r].seen[i][f], store[id][f]}
                      IN  \/ IF wanted = Zero THEN kept ELSE store'[id][f] = wanted
                          \/ req[r].op \in Bulk /\ f \in Keys /\ kept
    BY DEF UpdatesKeep
  <2>1. Write(r)
    BY OnlyWriteWrites
  <2> QED
    BY <2>1, UpdateWrites
<1> QED
  BY <1>1, CInvInductive, HydratedInductive, PTL DEF Spec

(* Under policies that hide nothing from reads that is every column. *)
THEOREM UpdatesKeepColumns ==
    ASSUME NamesVirtuals, Masked["read"] \cup Denied["read"] = {}
    PROVE  Spec => UpdateChangesOnlyItsBody
<1>1. Open = Field \ Virtual
  BY DEF Open, Hides
<1>2. [UpdatesKeep(Open)]_cvars => [UpdatesKeep(Field \ Virtual)]_cvars
  BY <1>1
<1> QED
  BY <1>2, UpdatesKeepOpenColumns, PTL DEF UpdateChangesOnlyItsBody

-----------------------------------------------------------------------------
(* Masks in storage, and maps that merge.                                  *)

(* The fields whose value svc.Show masks neither in a column nor in the virtual
   field that is kept there. *)
Masks(f) == f \in Masked["read"] \ Denied["read"]
Clear == {f \in Field : /\ ~Masks(f)
                        /\ f \in Virtual => ~Masks(Backing[f])
                        /\ \A v \in Virtual : Backing[v] = f => ~Masks(v)}

Plain(a) == \A f \in Clear : a[f] # Hidden

(* The virtual fields whose maps merge deep, with their keys, and the records
   that keep nothing there but what deepMergeValue can replace. *)
DeepFields == Deep \cup {Backing[v] : v \in Deep}
Listed(a) == \A f \in DeepFields : a[f] \in Mergeable \cup {Zero}

(* Nobody brings anything else: no body, no record of the repository as it was
   found, no mask of the policy for reads. *)
OnlyLists ==
    /\ \A b \in Body : Listed(b)
    /\ \A seed \in Seed : \A id \in Id : seed[id] # NoRecord => Listed(seed[id])
    /\ \A f \in DeepFields : Masks(f) => Hidden \in Mergeable

Clean(a) == Plain(a) /\ (OnlyLists => Listed(a))

StoreIsClean == \A id \in Id : store[id] # NoRecord => Clean(store[id])

(* Nor do working records that have yet to be written hold anything else. *)
WorkIsClean ==
    \A r \in Request : req[r].pc \notin {"after", "done"} =>
        \A i \in DOMAIN req[r].recs : Clean(req[r].recs[i])

CleanInv == StoreIsClean /\ WorkIsClean

(* No mask reaches the repository in a field that is clear. *)
ClearStayReal == \A id \in Id : store[id] # NoRecord => Plain(store[id])

(* Merge, hooks and the policy for reads mask no field that is clear. *)
LEMMA PiecesPlain ==
    /\ \A b \in Body : Plain(b)
    /\ \A a, b \in Record : Plain(a) /\ Plain(b) => Plain(Merge(a, b)) /\ Plain(MergeMaps(a, b))
    /\ \A a \in Record : Plain(a) => /\ Plain(Policed("read", AfterLoad(a)))
                                     /\ \A op \in Op : Plain(Columns(Prepared(op, a), Blank))
<1>1. ASSUME NEW b \in Body PROVE Plain(b)
  <2>1. b \in [Field -> Value \cup {Zero}]
    BY ControllerAssumption
  <2> QED
    BY <2>1, ControllerAssumption DEF Plain, Clear
<1>2. ASSUME NEW a \in Record, NEW b \in Record, Plain(a), Plain(b)
      PROVE  Plain(Merge(a, b)) /\ Plain(MergeMaps(a, b))
  BY <1>2 DEF Plain, Clear, Merge, MergeMaps
<1>3. ASSUME NEW a \in Record, Plain(a)
      PROVE  Plain(Policed("read", AfterLoad(a)))
  <2> SUFFICES ASSUME NEW f \in Clear
               PROVE  Policed("read", AfterLoad(a))[f] # Hidden
    BY DEF Plain
  <2>1. f \in Field /\ ~Masks(f) /\ Zero # Hidden
    BY ControllerAssumption DEF Clear
  <2>2. AfterLoad(a)[f] # Hidden
    <3>1. CASE f \in Virtual
      <4>1. /\ Backing[f] \in Field \ Virtual
            /\ \A v \in Virtual : Backing[v] = Backing[f] => v = f
        BY <3>1, ControllerAssumption
      <4>2. Backing[f] \in Clear
        BY <2>1, <3>1, <4>1 DEF Clear
      <4> QED
        BY <1>3, <2>1, <4>2 DEF AfterLoad, Plain
    <3>2. CASE f \notin Virtual
      BY <1>3, <2>1, <3>2 DEF AfterLoad, Plain
    <3> QED
      BY <3>1, <3>2
  <2> QED
    BY <2>1, <2>2 DEF Policed, Masks
<1>4. ASSUME NEW a \in Record, Plain(a) PROVE Plain(BeforeSave(a))
  <2> SUFFICES ASSUME NEW f \in Clear PROVE BeforeSave(a)[f] # Hidden
    BY DEF Plain
  <2>1. f \in Field /\ Zero # Hidden /\ a[f] # Hidden
    BY <1>4, ControllerAssumption DEF Clear, Plain
  <2>2. CASE f \notin Virtual /\ \E v \in Virtual : Backing[v] = f /\ a[v] # Zero
    <3> DEFINE v == CHOOSE v \in Virtual : Backing[v] = f
    <3>1. v \in Virtual /\ Backing[v] = f
      BY <2>2
    <3>2. v \in Clear
      <4>1. v \in Field /\ \A w \in Virtual : Backing[w] # v
        BY <3>1, ControllerAssumption
      <4> QED
        BY <3>1, <4>1 DEF Clear
    <3> QED
      BY <1>4, <2>1, <2>2, <3>2 DEF BeforeSave, Plain
  <2>3. CASE f \in Virtual \/ ~\E v \in Virtual : Backing[v] = f /\ a[v] # Zero
    BY <2>1, <2>3 DEF BeforeSave
  <2> QED
    BY <2>2, <2>3
<1>5. ASSUME NEW a \in Record, Plain(a), NEW op \in Op
      PROVE  Plain(Columns(Prepared(op, a), Blank))
  <2>1. Plain(Prepared(op, a)) /\ Zero # Hidden
    BY <1>4, <1>5, ControllerAssumption DEF Prepared
  <2> QED
    BY <2>1 DEF Plain, Clear, Columns, Blank
<1> QED
  BY <1>1, <1>2, <1>3, <1>5

(* They bring nothing but lists where there are but lists. *)
LEMMA PiecesListed ==
    ASSUME OnlyLists
    PROVE  /\ \A b \in Body : Listed(b)
           /\ \A a, b \in Record :
                 Listed(a) /\ Listed(b) => Listed(Merge(a, b)) /\ Listed(MergeMaps(a, b))
           /\ \A a \in Record : Listed(a) =>
                 /\ Listed(Policed("read", AfterLoad(a)))
                 /\ \A op \in Op : Listed(Columns(Prepared(op, a), Blank))
<1>1. /\ Deep \subseteq Virtual /\ DeepFields \subseteq Field
      /\ \A v \in Deep : v \in DeepFields /\ Backing[v] \in DeepFields
      /\ \A f \in DeepFields : f \in Virtual => f \in Deep
      /\ \A v \in Virtual : Backing[v] \in DeepFields => v \in Deep
  BY ControllerAssumption DEF DeepFields
<1>2. \A b \in Body : Listed(b)
  BY DEF OnlyLists
<1>3. ASSUME NEW a \in Record, NEW b \in Record, Listed(a), Listed(b)
      PROVE  Listed(Merge(a, b)) /\ Listed(MergeMaps(a, b))
  BY <1>1, <1>3 DEF Listed, Merge, MergeMaps
<1>4. ASSUME NEW a \in Record, Listed(a) PROVE Listed(Policed("read", AfterLoad(a)))
  <2> SUFFICES ASSUME NEW f \in DeepFields
               PROVE  Policed("read", AfterLoad(a))[f] \in Mergeable \cup {Zero}
    BY DEF Listed
  <2>1. f \in Field
    BY <1>1
  <2>2. AfterLoad(a)[f] \in Mergeable \cup {Zero}
    <3>1. f \in Virtual => Backing[f] \in DeepFields
      BY <1>1
    <3> QED
      BY <1>4, <2>1, <3>1 DEF AfterLoad, Listed
  <2>3. Masks(f) => Hidden \in Mergeable
    BY DEF OnlyLists
  <2> QED
    BY <2>1, <2>2, <2>3 DEF Policed, Masks
<1>5. ASSUME NEW a \in Record, Listed(a) PROVE Listed(BeforeSave(a))
  <2> SUFFICES ASSUME NEW f \in DeepFields PROVE BeforeSave(a)[f] \in Mergeable \cup {Zero}
    BY DEF Listed
  <2>1. f \in Field /\ a[f] \in Mergeable \cup {Zero}
    BY <1>1, <1>5 DEF Listed
  <2>2. CASE f \notin Virtual /\ \E v \in Virtual : Backing[v] = f /\ a[v] # Zero
    <3> DEFINE v == CHOOSE v \in Virtual : Backing[v] = f
    <3>1. v \in Virtual /\ Backing[v] = f
      BY <2>2
    <3>2. v \in DeepFields
      BY <1>1, <3>1
    <3>3. a[v] \in Mergeable \cup {Zero}
      BY <1>5, <3>2 DEF Listed
    <3>4. BeforeSave(a)[f] = a[v]
      BY <2>1, <2>2 DEF BeforeSave
    <3> QED
      BY <3>3, <3>4
  <2>3. CASE f \in Virtual \/ ~\E v \in Virtual : Backing[v] = f /\ a[v] # Zero
    BY <2>1, <2>3 DEF BeforeSave
  <2> QED
    BY <2>2, <2>3
<1>6. ASSUME NEW a \in Record, Listed(a), NEW op \in Op
      PROVE  Listed(Columns(Prepared(op, a), Blank))
  <2>1. Listed(Prepared(op, a))
    BY <1>5, <1>6 DEF Prepared
  <2> QED
    BY <1>1, <2>1 DEF Listed, Columns, Blank
<1> QED
  BY <1>2, <1>3, <1>4, <1>6

LEMMA PiecesClean ==
    /\ \A b \in Body : Clean(b)
    /\ \A a, b \in Record : Clean(a) /\ Clean(b) => Clean(Merge(a, b)) /\ Clean(MergeMaps(a, b))
    /\ \A a \in Record : Clean(a) => /\ Clean(Policed("read", AfterLoad(a)))
                                     /\ \A op \in Op : Clean(Columns(Prepared(op, a), Blank))
<1>1. CASE OnlyLists
  BY <1>1, PiecesPlain, PiecesListed DEF Clean
<1>2. CASE ~OnlyLists
  BY <1>2, PiecesPlain DEF Clean
<1> QED
  BY <1>1, <1>2

(* The bodies are clean. *)
LEMMA TakeClean ==
    ASSUME RequestsOK, NEW r \in Request, Take(r)
    PROVE  \A i \in DOMAIN req'[r].recs : Clean(req'[r].recs[i])
<1>1. PICK bodies \in [DOMAIN req[r].ids -> Body] :
        req' = [req EXCEPT
                  ![r].pc = IF req[r].op \in Updates /\ req[r].ids # <<>> THEN "read" ELSE "write",
                  ![r].bodies = IF req[r].op \in Deletes THEN <<>> ELSE bodies,
                  ![r].recs = IF req[r].op \in Deletes THEN <<>> ELSE bodies]
  BY DEF Take
<1>2. req'[r].recs = IF req[r].op \in Deletes THEN <<>> ELSE bodies
  BY <1>1 DEF RequestsOK, RequestState
<1>3. DOMAIN <<>> = {}
  OBVIOUS
<1> QED
  BY <1>1, <1>2, <1>3, PiecesClean

(* svc.Show hands on what is clean in the repository. *)
LEMMA ReadClean ==
    ASSUME CInv, CleanInv, NEW r \in Request, Read(r)
    PROVE  \A i \in DOMAIN req'[r].recs : Clean(req'[r].recs[i])
<1>1. /\ req[r] \in RequestState /\ Lookups(req[r]) /\ req[r].pc = "read"
      /\ store \in Stores /\ RequestsOK
  BY DEF CInv, RequestsOK, Read
<1> DEFINE i == Len(req[r].seen) + 1
           found == store[req[r].ids[i]]
           shown == Policed("read", AfterLoad(found))
           merged == [req[r].recs EXCEPT ![i] = MergeMaps(Merge(@, shown), shown)]
           recs == IF req[r].op \in Updates THEN merged ELSE <<shown>>
<1>2. req[r].ids[i] \in Id
  BY <1>1 DEF RequestState, Lookups
<1>3. found \in Record /\ found # NoRecord
  BY <1>1, <1>2, RowsTyped DEF Stores, Read
<1>4. Clean(shown) /\ shown \in Record
  BY <1>2, <1>3, PiecesClean, PiecesTyped DEF CleanInv, StoreIsClean
<1>5. req'[r].recs = recs
  <2>1. PICK pc, seen : req' = [req EXCEPT ![r].seen = seen, ![r].recs = recs, ![r].pc = pc]
    BY DEF Read
  <2> HIDE DEF recs
  <2> QED
    BY <1>1, <2>1 DEF RequestsOK, RequestState
<1>6. ASSUME NEW j \in DOMAIN req[r].recs PROVE Clean(merged[j])
  <2>1. req[r].recs[j] \in Record /\ Clean(req[r].recs[j])
    BY <1>1 DEF RequestState, CleanInv, WorkIsClean
  <2>2. Merge(req[r].recs[j], shown) \in Record
    BY <1>4, <2>1, PiecesTyped
  <2>3. Clean(MergeMaps(Merge(req[r].recs[j], shown), shown))
    BY <1>4, <2>1, <2>2, PiecesClean
  <2>4. merged[j] \in {req[r].recs[j], MergeMaps(Merge(req[r].recs[j], shown), shown)}
    OBVIOUS
  <2> QED
    BY <2>1, <2>3, <2>4
<1>7. DOMAIN merged = DOMAIN req[r].recs /\ DOMAIN <<shown>> = {1} /\ <<shown>>[1] = shown
  OBVIOUS
<1> HIDE DEF merged, shown
<1> QED
  BY <1>4, <1>5, <1>6, <1>7

(* What a write puts into the repository is as clean as what it was given. *)
LEMMA WriteClean ==
    ASSUME CInv, CleanInv, NEW r \in Request, Write(r)
    PROVE  StoreIsClean'
<1>1. /\ req[r] \in RequestState /\ Typed(req[r]) /\ Lookups(req[r]) /\ req[r].pc = "write"
      /\ RequestsOK /\ store \in Stores
  BY DEF CInv, RequestsOK, Write
<1> DEFINE ids == req[r].ids
           touched == {i \in DOMAIN ids : req[r].op \in Creates \/ store[ids[i]] # NoRecord}
<1>2. PICK o \in BOOLEAN :
        store' = [id \in Id |-> IF \E i \in touched : ids[i] = id
             THEN Written(r, ids[CHOOSE i \in touched : ids[i] = id],
                          CHOOSE i \in touched : ids[i] = id, o)
             ELSE store[id]]
  BY <1>1, WriteShape
<1>3. ASSUME NEW i \in touched, Written(r, ids[i], i, o) # NoRecord
      PROVE  Clean(Written(r, ids[i], i, o))
  <2> DEFINE row == Columns(Prepared(req[r].op, req[r].recs[i]), Blank)
  <2>1. req[r].op \in Creates \cup Updates
    <3>1. req[r].op \in Op \ Reads
      BY <1>1 DEF RequestState, Lookups
    <3>2. req[r].op \notin Deletes
      BY <1>3 DEF Written
    <3> QED
      BY <3>1, <3>2
  <2>2. i \in DOMAIN req[r].recs /\ ids[i] \in Id
    BY <1>1, <2>1 DEF Typed, RequestState
  <2>3. req[r].recs[i] \in Record /\ Clean(req[r].recs[i])
    BY <1>1, <2>2 DEF RequestState, CleanInv, WorkIsClean
  <2>4. row \in Record /\ Clean(row)
    BY <2>1, <2>3, PiecesClean, PiecesTyped, RowsTyped
  <2> HIDE DEF row
  <2>5. CASE req[r].op \in Creates
    BY <2>4, <2>5 DEF Written, row
  <2>6. CASE req[r].op \in Updates
    <3>1. store[ids[i]] # NoRecord
      BY <2>6
    <3>2. store[ids[i]] \in Record /\ Clean(store[ids[i]])
      BY <1>1, <2>2, <3>1, RowsTyped DEF Stores, CleanInv, StoreIsClean
    <3>3. Written(r, ids[i], i, o) \in {row, Merge(row, store[ids[i]])}
      BY <2>6 DEF Written, row
    <3> QED
      BY <2>4, <3>2, <3>3, PiecesClean
  <2> QED
    BY <2>1, <2>5, <2>6
<1> SUFFICES ASSUME NEW id \in Id, store'[id] # NoRecord PROVE Clean(store'[id])
  BY DEF StoreIsClean, Clean, Plain, Listed
<1>4. CASE \E i \in touched : ids[i] = id
  <2> DEFINE k == CHOOSE i \in touched : ids[i] = id
  <2>1. k \in touched
    BY <1>4
  <2>2. store'[id] = Written(r, ids[k], k, o)
    BY <1>2, <1>4
  <2> HIDE DEF k
  <2> QED
    BY <1>3, <2>1, <2>2
<1>5. CASE ~\E i \in touched : ids[i] = id
  BY <1>2, <1>5 DEF CleanInv, StoreIsClean
<1> QED
  BY <1>4, <1>5

LEMMA CleanInductive == Spec => []CleanInv
<1>1. Init => CleanInv
  <2>1. Fresh.recs = <<>> /\ DOMAIN <<>> = {}
    BY DEF Fresh
  <2>2. ASSUME NEW a \in [Field -> Value \cup {Zero}] PROVE Plain(a)
    BY ControllerAssumption DEF Plain, Clear
  <2>3. ASSUME NEW seed \in Seed, NEW id \in Id, seed[id] # NoRecord PROVE Clean(seed[id])
    <3>1. seed \in [Id -> (Row \cap [Field -> Value \cup {Zero}]) \cup {NoRecord}]
      BY ControllerAssumption
    <3>2. seed[id] \in [Field -> Value \cup {Zero}]
      BY <2>3, <3>1
    <3>3. OnlyLists => Listed(seed[id])
      BY <2>3 DEF OnlyLists
    <3> QED
      BY <2>2, <3>2, <3>3 DEF Clean
  <2> QED
    BY <2>1, <2>3 DEF Init, CleanInv, StoreIsClean, WorkIsClean
<1>2. CInv /\ CleanInv /\ [Next]_cvars => CleanInv'
  <2> SUFFICES ASSUME CInv, CleanInv, [Next]_cvars PROVE CleanInv'
    OBVIOUS
  <2>1. CASE UNCHANGED cvars
    BY <2>1 DEF cvars, CleanInv, StoreIsClean, WorkIsClean, Clean, Plain, Listed
  <2>2. CASE Next
    <3>1. PICK r \in Request : Step(r)
      BY <2>2, NextSteps
    <3>2. \A s \in Request : s # r => req'[s] = req[s]
      BY <3>1, OneActs DEF CInv
    <3>3. req[r] \in RequestState /\ Typed(req[r]) /\ Lookups(req[r]) /\ RequestsOK
      BY DEF CInv, RequestsOK
    <3>4. StoreIsClean'
      <4>1. CASE Write(r)
        BY <4>1, WriteClean
      <4>2. CASE ~Write(r)
        <5>1. UNCHANGED store
          BY <3>1, <4>2 DEF Step, Accept, Admit, Decode, AdmitMessage, Read, ReadPanics,
                            Respond, Failure, Refuse, DecodeFails, MalformedId, ReadFails,
                            WriteFails, AfterHookFails
        <5> QED
          BY <5>1 DEF CleanInv, StoreIsClean, Clean, Plain, Listed
      <4> QED
        BY <4>1, <4>2
    <3>5. req'[r].pc \notin {"after", "done"} =>
             \A i \in DOMAIN req'[r].recs : Clean(req'[r].recs[i])
      <4>1. ASSUME Take(r) PROVE \A i \in DOMAIN req'[r].recs : Clean(req'[r].recs[i])
        BY <4>1, TakeClean DEF CInv
      <4>2. ASSUME req'[r].recs = req[r].recs, req[r].pc \notin {"after", "done"}
            PROVE  \A i \in DOMAIN req'[r].recs : Clean(req'[r].recs[i])
        BY <4>2 DEF CleanInv, WorkIsClean
      <4>3. CASE Accept(r)
        <5>1. PICK op \in Op : \E ids \in Targets(op) :
                req' = [req EXCEPT ![r].pc = "guard", ![r].op = op, ![r].ids = ids]
          BY <4>3 DEF Accept
        <5>2. req'[r].recs = req[r].recs /\ req[r].pc = "idle"
          BY <3>3, <4>3, <5>1 DEF RequestsOK, RequestState, Accept
        <5> QED
          BY <4>2, <5>2
      <4>4. CASE Admit(r)
        <5>1. req'[r].recs = req[r].recs /\ req[r].pc = "guard"
          BY <3>3, <4>4 DEF RequestsOK, RequestState, Admit
        <5> QED
          BY <4>2, <5>1
      <4>5. CASE Decode(r)
        BY <4>1, <4>5 DEF Decode
      <4>6. CASE AdmitMessage(r)
        <5>1. CASE req[r].op \in {"read", "delete"}
          <6>1. req'[r].recs = req[r].recs /\ req[r].pc = "guard"
            BY <3>3, <4>6, <5>1 DEF RequestsOK, RequestState, AdmitMessage
          <6> QED
            BY <4>2, <6>1
        <5>2. CASE req[r].op \notin {"read", "delete"}
          BY <4>1, <4>6, <5>2 DEF AdmitMessage
        <5> QED
          BY <5>1, <5>2
      <4>7. CASE Read(r)
        BY <4>7, ReadClean
      <4>8. CASE Write(r)
        <5>1. req'[r].pc = "after"
          BY <3>3, <4>8, WriteShape
        <5> QED
          BY <5>1
      <4>9. CASE Respond(r)
        BY <3>3, <4>9 DEF RequestsOK, RequestState, Respond
      <4>10. CASE Failure(r)
        <5>1. PICK es \in Seq({"success", "failed"}) : FailWith(r, es)
          BY <3>3, <4>10, FailuresStep
        <5> QED
          BY <3>3, <5>1 DEF RequestsOK, RequestState, FailWith
      <4>11. CASE ReadPanics(r)
        <5>1. req'[r].recs = req[r].recs /\ req[r].pc = "read"
          BY <4>11, PanicStep DEF CInv
        <5> QED
          BY <4>2, <5>1
      <4> QED
        BY <3>1, <4>3, <4>4, <4>5, <4>6, <4>7, <4>8, <4>9, <4>10, <4>11 DEF Step
    <3>6. WorkIsClean'
      <4> SUFFICES ASSUME NEW s \in Request, req'[s].pc \notin {"after", "done"}
                   PROVE  \A i \in DOMAIN req'[s].recs : Clean(req'[s].recs[i])
        BY DEF WorkIsClean, Clean, Plain, Listed
      <4>1. CASE s = r
        BY <3>5, <4>1
      <4>2. CASE s # r
        BY <3>2, <4>2 DEF CleanInv, WorkIsClean
      <4> QED
        BY <4>1, <4>2
    <3> QED
      BY <3>4, <3>6 DEF CleanInv
  <2> QED
    BY <2>1, <2>2
<1> QED
  BY <1>1, <1>2, CInvInductive, PTL DEF Spec

(* The pre-read of an update merges masks into what is written, but only in
   the fields that the policy for reads masks: no other one ever holds one. *)
THEOREM MasksReachOnlyMaskedFields == Spec => []ClearStayReal
<1>1. CleanInv => ClearStayReal
  BY DEF CleanInv, StoreIsClean, Clean, ClearStayReal
<1> QED
  BY <1>1, CleanInductive, PTL

(* Under a policy for reads that masks nothing, whatever those for writes mask
   in their responses, storage never holds a mask. *)
THEOREM MasksStayOut ==
    ASSUME Masked["read"] \subseteq Denied["read"]
    PROVE  Spec => []MasksStayOutOfStorage
<1>1. Clear = Field
  BY DEF Clear, Masks
<1>2. ClearStayReal => MasksStayOutOfStorage
  BY <1>1 DEF ClearStayReal, Plain, MasksStayOutOfStorage
<1> QED
  BY <1>2, MasksReachOnlyMaskedFields, PTL

(* Only a merge panics. *)
LEMMA OnlyMergesPanic ==
    ASSUME RequestsOK, NEW r \in Request, Step(r), ~ReadPanics(r)
    PROVE  req'[r].pc # "panicked"
<1>1. req[r] \in RequestState
  BY DEF RequestsOK
<1>2. CASE Accept(r)
  <2>1. PICK op \in Op : \E ids \in Targets(op) :
          req' = [req EXCEPT ![r].pc = "guard", ![r].op = op, ![r].ids = ids]
    BY <1>2 DEF Accept
  <2> QED
    BY <1>1, <2>1 DEF RequestsOK, RequestState
<1>3. CASE Admit(r)
  BY <1>1, <1>3 DEF RequestsOK, RequestState, Admit
<1>4. CASE Take(r)
  <2>1. PICK pc \in {"read", "write"} : \E bodies, recs :
          req' = [req EXCEPT ![r].pc = pc, ![r].bodies = bodies, ![r].recs = recs]
    BY <1>4 DEF Take
  <2> QED
    BY <1>1, <2>1 DEF RequestsOK, RequestState
<1>5. CASE AdmitMessage(r) /\ ~Take(r)
  BY <1>1, <1>5 DEF RequestsOK, RequestState, AdmitMessage
<1>6. CASE Read(r)
  BY <1>1, <1>6 DEF RequestsOK, RequestState, Read
<1>7. CASE Write(r)
  BY <1>7, WriteShape
<1>8. CASE Respond(r)
  BY <1>1, <1>8 DEF RequestsOK, RequestState, Respond
<1>9. CASE Failure(r)
  <2>1. PICK es \in Seq({"success", "failed"}) : FailWith(r, es)
    BY <1>9, FailuresStep
  <2> QED
    BY <1>1, <2>1 DEF RequestsOK, RequestState, FailWith
<1> QED
  BY <1>2, <1>3, <1>4, <1>5, <1>6, <1>7, <1>8, <1>9 DEF Step, Decode

\* It panics over a record of the repository.
LEMMA PanicFinds ==
    ASSUME RequestsOK, NEW r \in Request, ReadPanics(r)
    PROVE  \E id \in Id : /\ store[id] # NoRecord
                         /\ MapsPanic(Policed("read", AfterLoad(store[id])))
<1> DEFINE i == Len(req[r].seen) + 1
<1>1. req[r] \in RequestState /\ Lookups(req[r]) /\ req[r].pc = "read"
  BY DEF RequestsOK, ReadPanics
<1>2. /\ req[r].ids \in Seq(Id) /\ Len(req[r].seen) \in Nat
      /\ Len(req[r].seen) < Len(req[r].ids)
  BY <1>1 DEF RequestState, Lookups
<1>3. req[r].ids[i] \in Id
  BY <1>2
<1>4. /\ store[req[r].ids[i]] # NoRecord
      /\ MapsPanic(Policed("read", AfterLoad(store[req[r].ids[i]])))
  BY Zenon DEF ReadPanics
<1> QED
  BY <1>3, <1>4, Zenon

(* Which maps mergeVirtualMaps can merge: as long as bodies and repository bring
   nothing but lists to the maps that merge deep, and the policy for reads no
   mask, it never meets anything else there, wherever hooks, merges and writes
   have moved it, and no update panics. Every map that merges "shallow" is such
   a map. *)
THEOREM ListsMerge ==
    ASSUME OnlyLists
    PROVE  Spec => []UpdatesMerge
<1>1. Init => UpdatesMerge
  <2>1. Fresh.pc # "panicked"
    BY DEF Fresh
  <2>2. Init => \A r \in Request : req[r] = Fresh
    BY DEF Init
  <2> QED
    BY <2>1, <2>2, Zenon DEF UpdatesMerge
<1>2. CInv /\ CleanInv /\ UpdatesMerge /\ [Next]_cvars => UpdatesMerge'
  <2> SUFFICES ASSUME CInv, CleanInv, UpdatesMerge, [Next]_cvars PROVE UpdatesMerge'
    OBVIOUS
  <2>1. CASE UNCHANGED cvars
    BY <2>1 DEF cvars, UpdatesMerge
  <2>2. ASSUME NEW r \in Request, ReadPanics(r) PROVE FALSE
    <3>1. PICK id \in Id : /\ store[id] # NoRecord
                           /\ MapsPanic(Policed("read", AfterLoad(store[id])))
      BY <2>2, PanicFinds DEF CInv
    <3>2. store[id] \in Row /\ Listed(store[id])
      BY <3>1, RowsTyped DEF CInv, Stores, CleanInv, StoreIsClean, Clean
    <3> DEFINE shown == Policed("read", AfterLoad(store[id]))
    <3>3. Listed(shown)
      BY <3>2, PiecesListed, RowsTyped
    <3> HIDE DEF shown
    <3> QED
      BY <3>1, <3>3 DEF MapsPanic, Listed, DeepFields, shown
  <2>3. CASE Next
    <3>1. PICK r \in Request : Step(r)
      BY <2>3, NextSteps
    <3>2. req'[r].pc # "panicked"
      BY <2>2, <3>1, OnlyMergesPanic DEF CInv
    <3>3. \A s \in Request : s # r => req'[s] = req[s]
      BY <3>1, OneActs DEF CInv
    <3> QED
      BY <3>2, <3>3 DEF UpdatesMerge
  <2> QED
    BY <2>1, <2>3
<1> QED
  BY <1>1, <1>2, CInvInductive, CleanInductive, PTL DEF Spec

-----------------------------------------------------------------------------
(* What EveryOutcomeIsAudited leaves: the outcomes that nobody is told of.  *)

(* A request that guard or policy has refused before it did anything. *)
Refused(q) ==
    /\ q.pc = "done" /\ q.reply = "error" /\ q.events = <<>>
    /\ q.bodies = <<>> /\ q.seen = <<>> /\ q.recs = <<>> /\ q.wrote = {}

(* A request emits its events when it is answered, of the kind of the answer,
   or it has been refused, or it was a read. *)
Told(q) ==
    /\ q.pc \in {"idle", "guard"} => q.bodies = <<>> /\ q.recs = <<>>
    /\ q.pc # "done" => q.events = <<>>
    /\ q.pc = "done" =>
          \/ q.op \in Reads /\ q.events = <<>>
          \/ Refused(q)
          \/ /\ q.op \notin Reads
             /\ \E n \in 0 .. Len(q.ids) :
                   q.events = Events(IF q.reply = "ok" THEN "success" ELSE "failed", n)

ToldOnce == \A r \in Request : Told(req[r])

(* A request that goes on tells nothing. *)
LEMMA GoingOnIsSilent ==
    ASSUME store \in Stores, RequestsOK, ToldOnce, NEW r \in Request,
           \/ Accept(r) \/ Admit(r) \/ Decode(r) \/ AdmitMessage(r)
           \/ Read(r) \/ ReadPanics(r) \/ Write(r)
    PROVE  Told(req'[r])
<1>1. req[r] \in RequestState /\ Told(req[r]) /\ req[r].pc # "done"
  BY DEF RequestsOK, ToldOnce, Accept, Admit, Decode, AdmitMessage, Read, ReadPanics, Write
<1>2. req'[r].pc # "done"
  BY AcceptStep, AdmitStep, DecodeStep, AdmitMessageStep, ReadStep, PanicStep, WriteStep
<1>3. CASE Accept(r)
  <2>1. PICK op \in Op : \E ids \in Targets(op) :
          req' = [req EXCEPT ![r].pc = "guard", ![r].op = op, ![r].ids = ids]
    BY <1>3 DEF Accept
  <2>2. PICK ids \in Targets(op) :
          req' = [req EXCEPT ![r].pc = "guard", ![r].op = op, ![r].ids = ids]
    BY <2>1
  <2>3. /\ req'[r].events = req[r].events /\ req'[r].pc = "guard"
        /\ req'[r].bodies = req[r].bodies /\ req'[r].recs = req[r].recs
    BY <1>1, <2>2 DEF RequestsOK, RequestState
  <2>4. req[r].pc = "idle"
    BY <1>3 DEF Accept
  <2> QED
    BY <1>1, <2>3, <2>4 DEF Told
<1>4. CASE Admit(r)
  BY <1>1, <1>2, <1>4 DEF RequestsOK, RequestState, Admit, Told
<1>5. ASSUME Take(r) PROVE Told(req'[r])
  <2>1. PICK pc \in {"read", "write"} : \E bodies, recs :
          req' = [req EXCEPT ![r].pc = pc, ![r].bodies = bodies, ![r].recs = recs]
    BY <1>5 DEF Take
  <2>2. req'[r].pc = pc /\ req'[r].events = req[r].events
    BY <1>1, <2>1 DEF RequestsOK, RequestState
  <2> QED
    BY <1>1, <2>2 DEF Told
<1>6. CASE AdmitMessage(r) /\ ~Take(r)
  BY <1>1, <1>2, <1>6 DEF RequestsOK, RequestState, AdmitMessage, Told
<1>7. CASE Read(r)
  <2>1. req'[r].events = req[r].events
    BY <1>1, <1>7 DEF RequestsOK, RequestState, Read
  <2>2. req'[r].pc \in {"read", "after", "write"}
    BY <1>1, <1>7 DEF RequestsOK, RequestState, Read
  <2> QED
    BY <1>1, <2>1, <2>2 DEF Told
<1>8. CASE Write(r)
  BY <1>1, <1>8, WriteShape DEF Told
<1>9. CASE ReadPanics(r)
  <2>1. req'[r].events = req[r].events /\ req'[r].pc = "panicked"
    BY <1>9, PanicStep
  <2> QED
    BY <1>1, <2>1 DEF Told
<1> QED
  BY <1>3, <1>4, <1>5, <1>6, <1>7, <1>8, <1>9 DEF Decode

(* A failure is silent only where guard or policy refuse, or for a read. *)
LEMMA FailureIsTold ==
    ASSUME RequestsOK, ToldOnce, NEW r \in Request, Failure(r)
    PROVE  Told(req'[r])
<1>1. req[r] \in RequestState /\ Told(req[r]) /\ Lookups(req[r])
  BY DEF RequestsOK, ToldOnce
<1>2. req[r].ids \in Seq(Id) /\ Len(req[r].ids) \in Nat
  BY <1>1 DEF RequestState
<1>3. ASSUME NEW es, FailWith(r, es)
      PROVE  /\ req'[r].pc = "done" /\ req'[r].reply = "error" /\ req'[r].events = es
             /\ req'[r].op = req[r].op /\ req'[r].ids = req[r].ids
             /\ req'[r].bodies = req[r].bodies /\ req'[r].seen = req[r].seen
             /\ req'[r].recs = req[r].recs /\ req'[r].wrote = req[r].wrote
  BY <1>1, <1>3 DEF RequestsOK, RequestState, FailWith
<1>4. ASSUME NEW n \in 0 .. Len(req[r].ids), req[r].op \notin Reads,
             FailWith(r, Events("failed", n))
      PROVE  Told(req'[r])
  BY <1>3, <1>4 DEF Told
<1>5. ASSUME req[r].op \in Reads, FailWith(r, <<>>) PROVE Told(req'[r])
  BY <1>3, <1>5 DEF Told
<1>6. CASE Refuse(r)
  <2>1. req[r].pc = "guard" /\ FailWith(r, <<>>)
    BY <1>6 DEF Refuse, Fail
  <2>2. /\ req[r].bodies = <<>> /\ req[r].recs = <<>>
        /\ req[r].seen = <<>> /\ req[r].wrote = {}
    BY <1>1, <2>1 DEF Told, Lookups
  <2>3. Refused(req'[r])
    BY <1>3, <2>1, <2>2 DEF Refused
  <2> QED
    BY <1>3, <2>1, <2>3 DEF Told
<1>7. CASE MalformedId(r)
  <2>1. req[r].op = "update" /\ FailWith(r, Events("failed", 0))
    BY <1>7 DEF MalformedId
  <2> QED
    BY <1>2, <1>4, <2>1
<1>8. CASE DecodeFails(r) \/ ReadFails(r) \/ WriteFails(r) \/ AfterHookFails(r)
  <2>1. PICK n \in 0 .. Len(req[r].ids) : Fail(r, n) /\ req[r].pc # "guard"
    BY <1>2, <1>8 DEF DecodeFails, ReadFails, WriteFails, AfterHookFails
  <2> QED
    BY <1>4, <1>5, <2>1 DEF Fail
<1> QED
  BY <1>6, <1>7, <1>8 DEF Failure

LEMMA AnswerIsTold ==
    ASSUME RequestsOK, ToldOnce, NEW r \in Request, Respond(r)
    PROVE  Told(req'[r])
<1>1. req[r] \in RequestState /\ req[r].ids \in Seq(Id) /\ Len(req[r].ids) \in Nat
  BY DEF RequestsOK, RequestState
<1>2. /\ req'[r].pc = "done" /\ req'[r].reply = "ok"
      /\ req'[r].op = req[r].op /\ req'[r].ids = req[r].ids
      /\ req'[r].events = IF req[r].op \in Reads THEN <<>>
                          ELSE Events("success", Len(req[r].ids))
  BY <1>1 DEF RequestsOK, RequestState, Respond
<1> QED
  BY <1>1, <1>2 DEF Told

(* What emitActivityEvents is called for: each create, update and delete is
   told when it is answered and as what it was answered, unless guard or policy
   have refused it; and one that is not told has read, decoded and written
   nothing. A request that panics is not answered. *)
THEOREM OnlyRefusalsAreSilent == Spec => []ToldOnce
<1>1. Init => ToldOnce
  <2>1. Told(Fresh)
    BY DEF Fresh, Told
  <2> QED
    BY <2>1 DEF Init, ToldOnce
<1>2. CInv /\ ToldOnce /\ [Next]_cvars => ToldOnce'
  <2> SUFFICES ASSUME CInv, ToldOnce, [Next]_cvars PROVE ToldOnce'
    OBVIOUS
  <2>1. CASE UNCHANGED cvars
    BY <2>1 DEF cvars, ToldOnce
  <2>2. ASSUME NEW r \in Request, Step(r) PROVE ToldOnce'
    <3>1. Told(req'[r])
      BY <2>2, GoingOnIsSilent, FailureIsTold, AnswerIsTold DEF Step, CInv
    <3>2. \A s \in Request : s # r => req'[s] = req[s]
      BY <2>2, OneActs DEF CInv
    <3> QED
      BY <3>1, <3>2 DEF ToldOnce
  <2> QED
    BY <2>1, <2>2, NextSteps
<1> QED
  BY <1>1, <1>2, CInvInductive, PTL DEF Spec

-----------------------------------------------------------------------------
(* The promise of ControllerContract.                                      *)

(* A request is answered last, and an insert that has gone through has stored
   every record it names. *)
InOrder(q) ==
    /\ q.pc # "done" => q.reply = "none"
    /\ q.pc = "after" /\ q.op \in Creates => q.wrote = {q.ids[i] : i \in DOMAIN q.ids}

Orderly == \A r \in Request : InOrder(req[r])

(* What the contract sees of a step is what it does to its own request. *)
LEMMA Views ==
    ASSUME RequestsOK, NEW r \in Request, Step(r)
    PROVE  /\ Calls' = [Calls EXCEPT ![r] = CallOf(req'[r])]
           /\ LookedUp' = [LookedUp EXCEPT ![r] = req'[r].seen]
           /\ Wrote' = [Wrote EXCEPT ![r] = req'[r].wrote]
           /\ Replies' = [Replies EXCEPT ![r] = req'[r].reply]
<1>1. \A s \in Request : s # r => req'[s] = req[s]
  BY OneActs
<1>2. Calls' = [s \in Request |-> CallOf(req'[s])]
  BY DEF Calls, CallOf
<1> QED
  BY <1>1, <1>2 DEF Calls, LookedUp, Wrote, Replies

(* Where a step leaves a part of its request alone, the contract sees none. *)
LEMMA Unseen ==
    ASSUME RequestsOK, NEW r \in Request, Step(r)
    PROVE  /\ CallOf(req'[r]) = CallOf(req[r]) => Calls' = Calls
           /\ req'[r].seen = req[r].seen => LookedUp' = LookedUp
           /\ req'[r].wrote = req[r].wrote => Wrote' = Wrote
           /\ req'[r].reply = req[r].reply => Replies' = Replies
<1>1. CallOf(req'[r]) = CallOf(req[r]) => Calls' = Calls
  BY Views DEF Calls
<1>2. req'[r].seen = req[r].seen => LookedUp' = LookedUp
  BY Views DEF LookedUp
<1>3. req'[r].wrote = req[r].wrote => Wrote' = Wrote
  BY Views DEF Wrote
<1>4. req'[r].reply = req[r].reply => Replies' = Replies
  BY Views DEF Replies
<1> QED
  BY <1>1, <1>2, <1>3, <1>4

(* A step that looks nothing up, writes nothing and does not answer is not seen
   by the contract. *)
LEMMA QuietSteps ==
    ASSUME RequestsOK, Orderly, NEW r \in Request, Admit(r) \/ Decode(r) \/ AdmitMessage(r)
    PROVE  UNCHANGED <<store, Calls, LookedUp, Wrote, Replies>> /\ InOrder(req'[r])
<1>1. req[r] \in RequestState /\ req[r].pc \in {"guard", "decode"} /\ req[r].reply = "none"
  BY DEF RequestsOK, Orderly, InOrder, Admit, Decode, AdmitMessage
<1>2. /\ req'[r].op = req[r].op /\ req'[r].ids = req[r].ids /\ req'[r].seen = req[r].seen
      /\ req'[r].wrote = req[r].wrote /\ req'[r].reply = req[r].reply
      /\ req'[r].pc \in {"read", "decode", "write"}
  <2>1. CASE Admit(r)
    BY <1>1, <2>1 DEF RequestsOK, RequestState, Admit
  <2>2. CASE Take(r)
    BY <1>1, <2>2 DEF RequestsOK, RequestState, Take
  <2>3. CASE AdmitMessage(r) /\ ~Take(r)
    BY <1>1, <2>3 DEF RequestsOK, RequestState, AdmitMessage
  <2> QED
    BY <2>1, <2>2, <2>3 DEF Decode
<1>3. CallOf(req'[r]) = CallOf(req[r])
  BY <1>1, <1>2 DEF CallOf
<1>4. UNCHANGED store
  BY DEF Admit, Decode, AdmitMessage
<1>5. Step(r)
  BY DEF Step
<1> QED
  BY <1>1, <1>2, <1>3, <1>4, <1>5, Unseen DEF InOrder

(* A request that comes in asks. *)
LEMMA AcceptAsks ==
    ASSUME RequestsOK, Orderly, NEW r \in Request, Accept(r)
    PROVE  Contract!Ask(r) /\ InOrder(req'[r])
<1>1. req[r] \in RequestState /\ req[r].pc = "idle" /\ req[r].reply = "none"
  BY DEF RequestsOK, Orderly, InOrder, Accept
<1>2. PICK op \in Op : \E ids \in Targets(op) :
        req' = [req EXCEPT ![r].pc = "guard", ![r].op = op, ![r].ids = ids]
  BY DEF Accept
<1>3. PICK ids \in Targets(op) :
        req' = [req EXCEPT ![r].pc = "guard", ![r].op = op, ![r].ids = ids]
  BY <1>2
<1>4. /\ req'[r].pc = "guard" /\ req'[r].op = op /\ req'[r].ids = ids
      /\ req'[r].seen = req[r].seen /\ req'[r].wrote = req[r].wrote
      /\ req'[r].reply = req[r].reply
  BY <1>1, <1>3 DEF RequestsOK, RequestState
<1>5. Step(r) /\ UNCHANGED store
  BY DEF Step, Accept
<1>6. CallOf(req'[r]) \in [op : Op, ids : Seq(Id)]
  BY <1>4, TargetsTyped DEF CallOf
<1>7. Calls[r].op = "none"
  BY <1>1 DEF Calls, CallOf
<1>8. Calls' = [Calls EXCEPT ![r] = CallOf(req'[r])] /\ Calls'[r] = CallOf(req'[r])
  BY <1>5, Views DEF Calls
<1>9. UNCHANGED <<LookedUp, Wrote, Replies>>
  BY <1>4, <1>5, Unseen
<1> QED
  BY <1>1, <1>4, <1>5, <1>6, <1>7, <1>8, <1>9 DEF Contract!Ask, InOrder

(* A lookup finds the next record in scope, whatever becomes of the merge. *)
LEMMA ReadFinds ==
    ASSUME store \in Stores, RequestsOK, Orderly, NEW r \in Request, Read(r) \/ ReadPanics(r)
    PROVE  Contract!Find(r) /\ InOrder(req'[r])
<1>1. /\ req[r] \in RequestState /\ Lookups(req[r]) /\ req[r].pc = "read"
      /\ req[r].reply = "none"
  BY DEF RequestsOK, Orderly, InOrder, Read, ReadPanics
<1>2. req[r].op \in Scoped /\ Len(req[r].seen) < Len(req[r].ids)
  BY <1>1 DEF Lookups
<1> DEFINE found == store[req[r].ids[Len(req[r].seen) + 1]]
<1>3. /\ found # NoRecord /\ InScope(req[r].op, found)
      /\ req'[r].seen = Append(req[r].seen, found)
      /\ req'[r].op = req[r].op /\ req'[r].ids = req[r].ids
      /\ req'[r].wrote = req[r].wrote /\ req'[r].reply = req[r].reply
      /\ req'[r].pc \in {"read", "after", "write", "panicked"}
      /\ req'[r].pc = "after" => req[r].op \in Reads
  <2>1. CASE Read(r)
    BY <1>1, <2>1 DEF RequestsOK, RequestState, Read
  <2>2. CASE ReadPanics(r)
    <3>1. found # NoRecord
      BY <2>2 DEF ReadPanics
    <3> QED
      BY <2>2, <3>1, PanicStep
  <2> QED
    BY <2>1, <2>2
<1>4. Step(r) /\ UNCHANGED store
  BY DEF Step, Read, ReadPanics
<1>5. CallOf(req'[r]) = CallOf(req[r])
  BY <1>1, <1>3 DEF CallOf
<1>6. UNCHANGED <<Calls, Wrote, Replies>>
  BY <1>3, <1>4, <1>5, Unseen
<1>7. Calls[r].op = req[r].op /\ Calls[r].ids = req[r].ids /\ LookedUp[r] = req[r].seen
  BY <1>1 DEF Calls, CallOf, LookedUp
<1>8. LookedUp' = [LookedUp EXCEPT ![r] = Append(LookedUp[r], found)]
  BY <1>3, <1>4, <1>7, Views
<1> QED
  BY <1>1, <1>2, <1>3, <1>4, <1>6, <1>7, <1>8 DEF Contract!Find, InScope, InOrder

(* A write changes the records it names, after all of them have been found. *)
LEMMA WriteChanges ==
    ASSUME store \in Stores, RequestsOK, Orderly, NEW r \in Request, Write(r)
    PROVE  Contract!Change(r) /\ InOrder(req'[r])
<1> DEFINE ids == req[r].ids
           touched == {i \in DOMAIN ids : req[r].op \in Creates \/ store[ids[i]] # NoRecord}
           S == {ids[i] : i \in touched}
<1>1. /\ req[r] \in RequestState /\ Lookups(req[r]) /\ req[r].pc = "write"
      /\ req[r].reply = "none" /\ req[r].wrote = {} /\ req[r].op \notin Reads
      /\ ids \in Seq(Id) /\ req[r].op \in Op
      /\ req[r].op \in Scoped => Len(req[r].seen) = Len(req[r].ids)
  BY DEF RequestsOK, RequestState, Orderly, InOrder, Lookups, Write
<1>2. /\ Calls[r].op = req[r].op /\ Calls[r].ids = ids
      /\ LookedUp[r] = req[r].seen /\ Wrote[r] = {} /\ Replies[r] = "none"
  BY <1>1 DEF Calls, CallOf, LookedUp, Wrote, Replies
<1>3. /\ req'[r].pc = "after" /\ req'[r].ids = ids /\ req'[r].seen = req[r].seen
      /\ req'[r].op = req[r].op /\ req'[r].reply = req[r].reply /\ req'[r].wrote = S
  BY WriteShape
<1>4. PICK o \in BOOLEAN : store' = [id \in Id |->
        IF \E i \in touched : ids[i] = id
        THEN Written(r, ids[CHOOSE i \in touched : ids[i] = id],
                     CHOOSE i \in touched : ids[i] = id, o)
        ELSE store[id]]
  BY WriteShape
<1>5. Step(r)
  BY DEF Step
<1>6. UNCHANGED <<Calls, LookedUp, Replies>>
  <2>1. CallOf(req'[r]) = CallOf(req[r])
    BY <1>1, <1>3 DEF CallOf
  <2> QED
    BY <1>3, <1>5, <2>1, Unseen
<1>7. Wrote' = [Wrote EXCEPT ![r] = S]
  BY <1>3, <1>5, Views
<1>8. store' \in [Id -> Row \cup {NoRecord}]
  BY WriteStep DEF Stores
<1>9. S \subseteq Id /\ Contract!Named(r) = {ids[i] : i \in DOMAIN ids}
  BY <1>1, <1>2 DEF Contract!Named
<1>10. Contract!Existing(r) = {id \in {ids[i] : i \in DOMAIN ids} : store[id] # NoRecord}
  BY <1>9 DEF Contract!Existing
<1>11. \A id \in Id \ S : store'[id] = store[id]
  BY <1>4
<1>12. ASSUME NEW id \in S
       PROVE  store'[id] = NoRecord <=> req[r].op \in Deletes
  <2> DEFINE i == CHOOSE i \in touched : ids[i] = id
  <2>1. i \in touched /\ ids[i] = id
    OBVIOUS
  <2>2. id \in Id /\ i \in DOMAIN ids
    BY <1>9, <2>1
  <2>3. store'[id] = Written(r, ids[i], i, o)
    BY <1>4, <2>1, <2>2
  <2>4. req[r].op \notin Deletes => Written(r, ids[i], i, o) \in Row
    BY <1>1, <2>1, <2>2, WrittenTyped
  <2>5. req[r].op \in Deletes => Written(r, ids[i], i, o) = NoRecord
    BY DEF Written
  <2>6. NoRecord \notin Row
    BY PiecesTyped, RowsTyped
  <2> QED
    BY <2>3, <2>4, <2>5, <2>6
<1>13. CASE req[r].op \in Creates
  <2>1. \A i \in DOMAIN ids : store[ids[i]] = NoRecord
    BY <1>13 DEF Write
  <2>2. S = Contract!Named(r) /\ Contract!Existing(r) = {}
    BY <1>9, <1>10, <1>13, <2>1
  <2>3. \A id \in S : store'[id] # NoRecord
    BY <1>12, <1>13
  <2>4. Contract!Change(r)
    BY <1>1, <1>2, <1>6, <1>7, <1>8, <1>11, <1>13, <2>2, <2>3
    DEF Contract!Change, Contract!AllFound
  <2> QED
    BY <1>1, <1>3, <1>9, <2>2, <2>4 DEF InOrder
<1>14. CASE req[r].op \notin Creates
  <2>1. S = Contract!Existing(r)
    BY <1>10, <1>14
  <2>2. \/ req[r].op \in Updates /\ \A id \in S : store'[id] # NoRecord
        \/ req[r].op \in Deletes /\ \A id \in S : store'[id] = NoRecord
    BY <1>1, <1>12, <1>14
  <2>3. Contract!Change(r)
    BY <1>1, <1>2, <1>6, <1>7, <1>8, <1>11, <2>1, <2>2
    DEF Contract!Change, Contract!AllFound
  <2> QED
    BY <1>1, <1>3, <1>14, <2>3 DEF InOrder
<1> QED
  BY <1>13, <1>14

(* A failure answers, whatever has been written. *)
LEMMA FailureAnswers ==
    ASSUME RequestsOK, Orderly, NEW r \in Request, Failure(r)
    PROVE  Contract!Answer(r, "error") /\ InOrder(req'[r])
<1>1. PICK es \in Seq({"success", "failed"}) : FailWith(r, es) /\ req[r].pc # "idle"
  BY FailuresStep
<1>2. req[r] \in RequestState /\ req[r].pc # "done"
  BY DEF RequestsOK, Failure, Refuse, DecodeFails, MalformedId, ReadFails, WriteFails,
         AfterHookFails
<1>3. req[r].reply = "none"
  BY <1>2 DEF Orderly, InOrder
<1>4. /\ req'[r].pc = "done" /\ req'[r].op = req[r].op /\ req'[r].ids = req[r].ids
      /\ req'[r].seen = req[r].seen /\ req'[r].wrote = req[r].wrote
      /\ req'[r].reply = "error"
  BY <1>1, <1>2 DEF RequestsOK, RequestState, FailWith
<1>5. Step(r) /\ UNCHANGED store
  BY DEF Step, Failure, Refuse, DecodeFails, MalformedId, ReadFails, WriteFails,
         AfterHookFails
<1>6. UNCHANGED <<Calls, LookedUp, Wrote>> /\ Replies' = [Replies EXCEPT ![r] = "error"]
  <2>1. CallOf(req'[r]) = CallOf(req[r])
    BY <1>1, <1>4 DEF CallOf
  <2> QED
    BY <1>4, <1>5, <2>1, Unseen, Views
<1>7. Calls[r].op = req[r].op /\ req[r].op # "none" /\ Replies[r] = "none"
  BY <1>1, <1>2, <1>3 DEF Calls, CallOf, Replies, RequestState
<1> QED
  BY <1>4, <1>5, <1>6, <1>7 DEF Contract!Answer, InOrder

(* A success answers when every lookup and every insert has gone through. *)
LEMMA RespondAnswers ==
    ASSUME RequestsOK, Orderly, NEW r \in Request, Respond(r)
    PROVE  Contract!Answer(r, "ok") /\ InOrder(req'[r])
<1>1. /\ req[r] \in RequestState /\ req[r].pc = "after" /\ req[r].reply = "none"
      /\ req[r].op \in Creates => req[r].wrote = {req[r].ids[i] : i \in DOMAIN req[r].ids}
      /\ req[r].op \in Scoped => Len(req[r].seen) = Len(req[r].ids)
  BY DEF RequestsOK, Lookups, Orderly, InOrder, Respond
<1>2. /\ req'[r].pc = "done" /\ req'[r].op = req[r].op /\ req'[r].ids = req[r].ids
      /\ req'[r].seen = req[r].seen /\ req'[r].wrote = req[r].wrote
      /\ req'[r].reply = "ok"
  BY <1>1 DEF RequestsOK, RequestState, Respond
<1>3. Step(r) /\ UNCHANGED store
  BY DEF Step, Respond
<1>4. UNCHANGED <<Calls, LookedUp, Wrote>> /\ Replies' = [Replies EXCEPT ![r] = "ok"]
  <2>1. CallOf(req'[r]) = CallOf(req[r])
    BY <1>1, <1>2 DEF CallOf
  <2> QED
    BY <1>2, <1>3, <2>1, Unseen, Views
<1>5. /\ Calls[r].op = req[r].op /\ Calls[r].ids = req[r].ids /\ req[r].op # "none"
      /\ LookedUp[r] = req[r].seen /\ Wrote[r] = req[r].wrote /\ Replies[r] = "none"
  BY <1>1 DEF Calls, CallOf, LookedUp, Wrote, Replies, RequestState
<1>6. Contract!AllFound(r)
  BY <1>1, <1>5 DEF Contract!AllFound
<1>7. Calls[r].op \in Creates => Wrote[r] = Contract!Named(r)
  BY <1>1, <1>5 DEF Contract!Named
<1> QED
  BY <1>2, <1>3, <1>4, <1>5, <1>6, <1>7 DEF Contract!Answer, InOrder

(* Each step is one of the contract's, or one that the contract does not see. *)
LEMMA StepsKeep ==
    ASSUME store \in Stores, RequestsOK, Orderly, Next
    PROVE  [Contract!KNext]_Contract!kvars /\ Orderly'
<1>1. PICK r \in Request : Step(r)
  BY NextSteps
<1>2. [Contract!KNext]_Contract!kvars /\ InOrder(req'[r])
  <2>1. CASE Accept(r)
    BY <2>1, AcceptAsks DEF Contract!KNext
  <2>2. CASE Admit(r) \/ Decode(r) \/ AdmitMessage(r)
    BY <2>2, QuietSteps DEF Contract!kvars
  <2>3. CASE Read(r) \/ ReadPanics(r)
    BY <2>3, ReadFinds DEF Contract!KNext
  <2>4. CASE Write(r)
    BY <2>4, WriteChanges DEF Contract!KNext
  <2>5. CASE Respond(r)
    BY <2>5, RespondAnswers DEF Contract!KNext
  <2>6. CASE Failure(r)
    BY <2>6, FailureAnswers DEF Contract!KNext
  <2> QED
    BY <1>1, <2>1, <2>2, <2>3, <2>4, <2>5, <2>6 DEF Step
<1>3. \A s \in Request : s # r => req'[s] = req[s]
  BY <1>1, OneActs
<1> QED
  BY <1>2, <1>3 DEF Orderly, InOrder

(* The controller keeps the promise of ControllerContract: every handler, every
   failure and every interleaving of requests is a step of it or a stutter. *)
THEOREM Refinement == Spec => KeepsContract
<1>1. Init => Contract!KInit /\ Orderly
  <2> SUFFICES ASSUME Init PROVE Contract!KInit /\ Orderly
    OBVIOUS
  <2>1. store \in [Id -> Row \cup {NoRecord}]
    BY ControllerAssumption DEF Init, Record
  <2>2. \A r \in Request : CallOf(req[r]) = [op |-> "none", ids |-> <<>>]
    BY DEF Init, Fresh, CallOf
  <2>3. \A r \in Request : InOrder(req[r])
    BY DEF Init, Fresh, InOrder
  <2> QED
    BY <2>1, <2>2, <2>3
    DEF Init, Fresh, Contract!KInit, Calls, LookedUp, Wrote, Replies, Orderly
<1>2. CInv /\ Orderly /\ [Next]_cvars => [Contract!KNext]_Contract!kvars /\ Orderly'
  <2>1. CInv /\ Orderly /\ Next => [Contract!KNext]_Contract!kvars /\ Orderly'
    BY StepsKeep DEF CInv
  <2>2. Orderly /\ UNCHANGED cvars => UNCHANGED Contract!kvars /\ Orderly'
    BY DEF cvars, Contract!kvars, Orderly, InOrder, Calls, CallOf, LookedUp, Wrote, Replies
  <2> QED
    BY <2>1, <2>2
<1> QED
  BY <1>1, <1>2, CInvInductive, PTL DEF Spec, KeepsContract, Contract!KSpec

=============================================================================
