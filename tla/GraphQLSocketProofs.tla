-------------------------- MODULE GraphQLSocketProofs --------------------------
(***************************************************************************)
(* Theorems about GraphQLSocket, for any operations, ids and mutations:    *)
(* the connection uses the bus as EventBus has it, so what is proved of    *)
(* the bus holds here, and what close reaches.                             *)
(***************************************************************************)
EXTENDS GraphQLSocket, TLAPS

BusProofs == INSTANCE EventBusProofs WITH Stream <- Op

\* An operation that is the only one of its id is in the table until it leaves.
AloneIsListed ==
    \A o \in Op :
        /\ opc[o] \notin {"new", "ended"}
        /\ \A p \in Op \ {o} : Started(p) => id[p] # id[o]
        => active[id[o]] = o

\* A connection that is closed serves no more, unless its context is done,
\* and that context is every operation's.
ClosedServesNoMore ==
    /\ connClosed => reader = "gone" \/ ctxDone
    /\ ctxDone => \A o \in Op : Started(o) => o \in done

ConnTypeOK ==
    /\ active \in [Id -> Op \cup {NoOp}]
    /\ opc \in [Op -> {"new", "started", "streaming", "completing", "completed", "ended"}]
    /\ id \in [Op -> Id]
    /\ done \subseteq Op

WIInv == ConnTypeOK /\ AloneIsListed /\ ClosedServesNoMore /\ OrphansShareTheirId

-----------------------------------------------------------------------------
(* What a step does to the bus.                                            *)

\* Cancelling contexts adds to those that are done and changes nothing else.
LEMMA Cancels ==
    ASSUME NEW S, Bus!ContextsDone(S)
    PROVE  done' = done \cup S /\ closed' = closed
BY DEF Bus!ContextsDone

\* The connection only cancels contexts of operations.
LEMMA ConnectionStep ==
    ASSUME ConnTypeOK,
           \/ InitAccepted \/ InitRefused \/ Terminate \/ ReadFails
           \/ \E i \in Id : Stop(i)
           \/ \E o \in Op : Start(o)
           \/ ConnectionDone \/ CloseOnCancel
           \/ \E o \in Op : Leave(o)
    PROVE  UNCHANGED eventVars \/ \E S \in SUBSET Op : Bus!ContextsDone(S)
<1>1. CloseConnection => UNCHANGED eventVars \/ \E S \in SUBSET Op : Bus!ContextsDone(S)
  <2>1. {o \in Op : \E i \in Id : active[i] = o} \in SUBSET Op
    OBVIOUS
  <2> QED
    BY <2>1 DEF CloseConnection
<1>2. CASE InitAccepted \/ ReadFails
  BY <1>2 DEF InitAccepted, ReadFails
<1>3. CASE InitRefused \/ Terminate \/ CloseOnCancel
  BY <1>1, <1>3 DEF InitRefused, Terminate, CloseOnCancel
<1>4. CASE \E i \in Id : Stop(i)
  <2>1. PICK i \in Id : Stop(i)
    BY <1>4
  <2>2. {active[i]} \in SUBSET Op /\ Bus!ContextsDone({active[i]})
    BY <2>1 DEF Stop, ConnTypeOK
  <2> QED
    BY <2>2
<1>5. CASE \E o \in Op : Start(o)
  <2>1. PICK o \in Op : Start(o)
    BY <1>5
  <2>2. (IF ctxDone THEN {o} ELSE {}) \in SUBSET Op
    OBVIOUS
  <2> QED
    BY <2>1, <2>2 DEF Start
<1>6. CASE ConnectionDone
  <2>1. {o \in Op : Started(o)} \in SUBSET Op
    OBVIOUS
  <2> QED
    BY <1>6, <2>1 DEF ConnectionDone
<1>7. CASE \E o \in Op : Leave(o)
  <2>1. PICK o \in Op : Leave(o)
    BY <1>7
  <2> QED
    BY <2>1 DEF Leave
<1> QED
  BY <1>2, <1>3, <1>4, <1>5, <1>6, <1>7

\* A step of the connection is a step of the bus, or none.
LEMMA BusStep == ConnTypeOK /\ [WNext]_wvars => [Bus!BNext]_(Bus!bvars)
<1> SUFFICES ASSUME ConnTypeOK, [WNext]_wvars PROVE [Bus!BNext]_(Bus!bvars)
  OBVIOUS
<1>1. UNCHANGED eventVars => UNCHANGED Bus!bvars
  BY DEF eventVars, Bus!bvars, Bus!busVars, Bus!mutVars
<1>2. CASE UNCHANGED wvars
  BY <1>1, <1>2 DEF wvars
<1>3. CASE WNext
  <2>1. ~panicked
    BY <1>3 DEF WNext
  <2>2. CASE \/ InitAccepted \/ InitRefused \/ Terminate \/ ReadFails
             \/ \E i \in Id : Stop(i)
             \/ \E o \in Op : Start(o)
             \/ ConnectionDone \/ CloseOnCancel
             \/ \E o \in Op : Leave(o)
    BY <1>1, <2>1, <2>2, ConnectionStep DEF Bus!BNext
  <2>3. ASSUME NEW o \in Op, Dispatch(o)
        PROVE  Bus!Subscribe(o) \/ UNCHANGED eventVars
    BY <2>3 DEF Dispatch
  <2>4. ASSUME NEW o \in Op, StreamEnds(o) \/ Complete(o) \/ ForwarderEnds(o) \/ Deliver(o)
        PROVE  UNCHANGED eventVars
    BY <2>4 DEF StreamEnds, Complete, ForwarderEnds, Deliver
  <2>5. ASSUME NEW o \in Op, TakeEvent(o) \/ Unsubscribe(o)
        PROVE  Bus!Receive(o) \/ Bus!Unsubscribe(o)
    BY <2>5 DEF TakeEvent, Unsubscribe
  <2>6. CASE \E o \in Op : OperationStep(o)
    BY <1>1, <2>1, <2>2, <2>3, <2>4, <2>5, <2>6 DEF OperationStep, Bus!BNext
  <2>7. CASE CloseBus
    BY <2>1, <2>7 DEF CloseBus, Bus!BNext
  <2>8. CASE \E m \in Mutator : Write(m) \/ MutatorStep(m)
    BY <2>1, <2>8 DEF Write, MutatorStep, Bus!BNext
  <2> QED
    BY <1>3, <2>2, <2>6, <2>7, <2>8 DEF WNext, Goroutines
<1> QED
  BY <1>2, <1>3

-----------------------------------------------------------------------------
(* What close reaches.                                                     *)

LEMMA ConnInit == WInit => WIInv
<1> SUFFICES ASSUME WInit PROVE WIInv
  OBVIOUS
<1>1. done = {}
  BY DEF WInit, Bus!BInit
<1> QED
  BY <1>1 DEF WInit, WIInv, ConnTypeOK, AloneIsListed, ClosedServesNoMore,
              OrphansShareTheirId, Started, Live

\* A context that is done stays so, and the bus alone ends none.
LEMMA DoneSoFar ==
    ASSUME ConnTypeOK, WNext
    PROVE  done \subseteq done' /\ done' \subseteq Op
<1>1. (\E S \in SUBSET Op : Bus!ContextsDone(S)) => done \subseteq done' /\ done' \subseteq Op
  BY Cancels DEF ConnTypeOK
<1>2. UNCHANGED eventVars => done' = done
  BY DEF eventVars
<1>3. \A o \in Op : Bus!Subscribe(o) \/ Bus!Receive(o) \/ Bus!Unsubscribe(o) => done' = done
  BY DEF Bus!Subscribe, Bus!Receive, Bus!Unsubscribe
<1>4. Bus!Close => done' = done
  BY DEF Bus!Close
<1>5. \A m \in Mutator : Bus!Write(m) \/ Bus!MutatorStep(m) => done' = done
  BY DEF Bus!Write, Bus!MutatorStep, Bus!PublishEnter, Bus!Send, Bus!PublishReturns, Bus!busVars
<1>6. CASE \/ InitAccepted \/ InitRefused \/ Terminate \/ ReadFails
           \/ \E i \in Id : Stop(i)
           \/ \E o \in Op : Start(o)
           \/ ConnectionDone \/ CloseOnCancel
           \/ \E o \in Op : Leave(o)
  BY <1>1, <1>2, <1>6, ConnectionStep DEF ConnTypeOK
<1>7. CASE \E o \in Op : OperationStep(o)
  BY <1>2, <1>3, <1>6, <1>7 DEF ConnTypeOK, OperationStep, Dispatch, StreamEnds, Complete,
                                TakeEvent, ForwarderEnds, Deliver, Unsubscribe
<1>8. CASE CloseBus \/ \E m \in Mutator : Write(m) \/ MutatorStep(m)
  BY <1>4, <1>5, <1>8 DEF ConnTypeOK, CloseBus, Write, MutatorStep
<1> QED
  BY <1>6, <1>7, <1>8 DEF WNext, Goroutines

\* A step that closes the connection cancels every operation of the table.
LEMMA ClosingReaches ==
    ASSUME WIInv, CloseConnection, UNCHANGED <<active, opVars>>
    PROVE  OrphansShareTheirId'
<1>1. CASE connClosed
  BY <1>1 DEF WIInv, OrphansShareTheirId, CloseConnection, Live, Started, opVars, eventVars
<1>2. CASE ~connClosed
  <2>1. \A o \in Op : (\E i \in Id : active[i] = o) => o \in done'
    BY <1>2, Cancels DEF CloseConnection
  <2>2. \A o \in Op : Live(o) /\ o \notin done' => active[id[o]] # o
    BY <2>1 DEF WIInv, ConnTypeOK
  <2>3. \A o \in Op : Live(o) /\ o \notin done' =>
            \E p \in Op \ {o} : Started(p) /\ id[p] = id[o]
    BY <2>2 DEF WIInv, AloneIsListed, Live
  <2> QED
    BY <2>3 DEF OrphansShareTheirId, Live, Started, opVars
<1> QED
  BY <1>1, <1>2

\* Steps after which the table, the ids and what has started are as before and
\* nothing has come to life.
LEMMA SteadyHolds ==
    ASSUME WIInv, ConnTypeOK', done \subseteq done',
           UNCHANGED <<active, id, ctxDone, connClosed>>,
           reader' = "serving" => reader # "gone",
           \A o \in Op : /\ Started(o)' <=> Started(o)
                         /\ Live(o)' => Live(o)
                         /\ opc'[o] = "ended" <=> opc[o] = "ended",
           reader' = reader \/ reader' = "gone" \/ reader = "init"
    PROVE  WIInv'
<1>1. AloneIsListed'
  BY DEF WIInv, AloneIsListed, Started
<1>2. ClosedServesNoMore'
  BY DEF WIInv, ClosedServesNoMore
<1>3. OrphansShareTheirId'
  BY DEF WIInv, OrphansShareTheirId
<1> QED
  BY <1>1, <1>2, <1>3 DEF WIInv

LEMMA ConnNext == WIInv /\ [WNext]_wvars => WIInv'
<1> SUFFICES ASSUME WIInv, [WNext]_wvars PROVE WIInv'
  OBVIOUS
<1>1. CASE UNCHANGED wvars
  BY <1>1 DEF wvars, eventVars, connVars, opVars, WIInv, ConnTypeOK, AloneIsListed,
              ClosedServesNoMore, OrphansShareTheirId, Started, Live
<1>2. CASE WNext
  <2>1. done \subseteq done' /\ done' \subseteq Op
    BY <1>2, DoneSoFar DEF WIInv
  <2>2. CASE InitRefused \/ Terminate \/ CloseOnCancel
    <3>1. /\ UNCHANGED <<active, ctxDone, opVars>>
          /\ reader' = reader \/ reader' = "gone"
          /\ \/ CloseConnection /\ (reader' = "gone" \/ ctxDone)
             \/ UNCHANGED <<connClosed, eventVars>>
      BY <2>2 DEF InitRefused, Terminate, CloseOnCancel
    <3>2. ConnTypeOK' /\ AloneIsListed'
      BY <2>1, <3>1 DEF WIInv, ConnTypeOK, AloneIsListed, Started, opVars
    <3>3. ClosedServesNoMore'
      BY <2>1, <3>1 DEF WIInv, ClosedServesNoMore, Started, opVars, CloseConnection
    <3>4. OrphansShareTheirId'
      <4>1. CASE CloseConnection
        BY <3>1, <4>1, ClosingReaches
      <4>2. CASE UNCHANGED <<connClosed, eventVars>>
        BY <3>1, <4>2 DEF WIInv, OrphansShareTheirId, Live, Started, opVars, eventVars
      <4> QED
        BY <3>1, <4>1, <4>2
    <3> QED
      BY <3>2, <3>3, <3>4 DEF WIInv
  <2>3. CASE InitAccepted \/ ReadFails \/ (\E i \in Id : Stop(i)) \/ CloseBus
             \/ \E m \in Mutator : Write(m) \/ MutatorStep(m)
    <3>1. /\ UNCHANGED <<active, ctxDone, connClosed, opVars>>
          /\ reader' = reader \/ reader' = "gone" \/ reader = "init"
      BY <2>3 DEF InitAccepted, ReadFails, Stop, CloseBus, Write, MutatorStep, connVars
    <3> QED
      BY <2>1, <3>1, SteadyHolds DEF WIInv, ConnTypeOK, Started, Live, opVars
  <2>4. ASSUME NEW o \in Op,
               Dispatch(o) \/ StreamEnds(o) \/ Complete(o)
               \/ TakeEvent(o) \/ ForwarderEnds(o) \/ Deliver(o) \/ Unsubscribe(o)
        PROVE  WIInv'
    <3>1. /\ UNCHANGED <<connVars, id>>
          /\ \/ opc' = opc
             \/ /\ opc[o] \in {"started", "streaming", "completing"}
                /\ \E x \in {"streaming", "completing", "completed"} :
                      opc' = [opc EXCEPT ![o] = x]
      BY <2>4 DEF Dispatch, StreamEnds, Complete, TakeEvent, ForwarderEnds, Deliver, Unsubscribe,
                  opVars
    <3>2. ConnTypeOK'
      BY <2>1, <3>1 DEF WIInv, ConnTypeOK, connVars
    <3>3. \A p \in Op : /\ Started(p)' <=> Started(p)
                        /\ Live(p)' => Live(p)
                        /\ opc'[p] = "ended" <=> opc[p] = "ended"
      BY <3>1 DEF WIInv, ConnTypeOK, Started, Live
    <3> QED
      BY <2>1, <3>1, <3>2, <3>3, SteadyHolds DEF connVars
  <2>5. ASSUME NEW o \in Op, Start(o)
        PROVE  WIInv'
    <3>1. /\ opc[o] = "new" /\ opc' = [opc EXCEPT ![o] = "started"]
          /\ active' = [active EXCEPT ![id[o]] = o]
          /\ reader = "serving" /\ UNCHANGED <<reader, ctxDone, connClosed, id>>
          /\ ctxDone => o \in done'
      BY <2>5, Cancels DEF Start
    <3>2. ConnTypeOK'
      BY <2>1, <3>1 DEF WIInv, ConnTypeOK
    <3>3. Started(o)' /\ \A p \in Op \ {o} : /\ Started(p)' <=> Started(p)
                                            /\ opc'[p] = opc[p]
      BY <3>1 DEF WIInv, ConnTypeOK, Started
    <3>4. AloneIsListed'
      BY <3>1, <3>3 DEF WIInv, ConnTypeOK, AloneIsListed, Started
    <3>5. ClosedServesNoMore'
      BY <2>1, <3>1, <3>3 DEF WIInv, ClosedServesNoMore
    <3>6. OrphansShareTheirId'
      <4> SUFFICES ASSUME connClosed, NEW p \in Op, Live(p)', p \notin done'
                   PROVE  \E q \in Op \ {p} : Started(q)' /\ id[q] = id[p]
        BY <3>1 DEF OrphansShareTheirId
      <4>1. p # o
        BY <3>1 DEF WIInv, ClosedServesNoMore
      <4>2. Live(p) /\ p \notin done
        BY <2>1, <3>3, <4>1 DEF Live
      <4> QED
        BY <3>3, <4>2 DEF WIInv, OrphansShareTheirId
    <3> QED
      BY <3>2, <3>4, <3>5, <3>6 DEF WIInv
  <2>6. ASSUME NEW o \in Op, Leave(o)
        PROVE  WIInv'
    <3>1. /\ opc[o] = "completed" /\ opc' = [opc EXCEPT ![o] = "ended"]
          /\ active' = [active EXCEPT ![id[o]] = NoOp]
          /\ UNCHANGED <<reader, ctxDone, connClosed, id>>
      BY <2>6 DEF Leave
    <3>2. ConnTypeOK'
      BY <2>1, <3>1 DEF WIInv, ConnTypeOK
    <3>3. \A p \in Op : /\ Started(p)' <=> Started(p)
                        /\ Live(p)' => Live(p)
                        /\ p # o => opc'[p] = opc[p]
      BY <3>1 DEF WIInv, ConnTypeOK, Started, Live
    <3>4. AloneIsListed'
      <4> SUFFICES ASSUME NEW p \in Op, opc'[p] \notin {"new", "ended"},
                          \A q \in Op \ {p} : Started(q) => id[q] # id[p]
                   PROVE  active'[id[p]] = p
        BY <3>1, <3>3 DEF AloneIsListed
      <4>1. p # o /\ Started(o)
        BY <3>1 DEF WIInv, ConnTypeOK, Started
      <4>2. id[o] # id[p]
        BY <4>1
      <4> QED
        BY <3>1, <3>3, <4>1, <4>2 DEF WIInv, ConnTypeOK, AloneIsListed
    <3>5. ClosedServesNoMore'
      BY <2>1, <3>1, <3>3 DEF WIInv, ClosedServesNoMore
    <3>6. OrphansShareTheirId'
      BY <2>1, <3>1, <3>3 DEF WIInv, OrphansShareTheirId
    <3> QED
      BY <3>2, <3>4, <3>5, <3>6 DEF WIInv
  <2>7. CASE ConnectionDone
    <3>1. /\ UNCHANGED <<reader, connClosed, active, opVars>>
          /\ ctxDone' = TRUE
          /\ \A o \in Op : Started(o) => o \in done'
      BY <2>7, Cancels DEF ConnectionDone
    <3> QED
      BY <2>1, <3>1 DEF WIInv, ConnTypeOK, AloneIsListed, ClosedServesNoMore,
                        OrphansShareTheirId, Started, Live, opVars
  <2> QED
    BY <1>2, <2>2, <2>3, <2>4, <2>5, <2>6, <2>7 DEF WNext, Goroutines, OperationStep
<1> QED
  BY <1>1, <1>2

-----------------------------------------------------------------------------
(* Theorems.                                                               *)

\* The messages of a client and the ends of operations keep the table of the
\* connection, the operations and their goroutines together.
THEOREM ConnInvariant == WSpec => []WIInv
BY ConnInit, ConnNext, PTL DEF WSpec

\* A closed connection leaves no operation behind that had its id to itself,
\* for any number of operations and any use of ids.
THEOREM CloseReaches == WSpec => []OrphansShareTheirId
<1>1. WIInv => OrphansShareTheirId
  BY DEF WIInv
<1> QED
  BY ConnInvariant, <1>1, PTL

\* The connection and its operations use the bus as EventBus describes it.
THEOREM UsesTheBus == WSpec => Bus!BSpec
<1>1. WInit => Bus!BInit
  BY DEF WInit
<1>2. WIInv /\ [WNext]_wvars => [Bus!BNext]_(Bus!bvars)
  BY BusStep DEF WIInv
<1> QED
  BY ConnInvariant, <1>1, <1>2, PTL DEF WSpec, Bus!BSpec

\* EventBusProofs speaks of the same bus.
LEMMA SameBus ==
    /\ Bus!BInit => BusProofs!BInit
    /\ [Bus!BNext]_(Bus!bvars) => [BusProofs!BNext]_(BusProofs!bvars)
<1>1. Bus!BInit => BusProofs!BInit
  BY DEF Bus!BInit, BusProofs!BInit
<1>2. [Bus!BNext]_(Bus!bvars) => [BusProofs!BNext]_(BusProofs!bvars)
  BY DEF
      Bus!BNext, Bus!Subscribe, Bus!Unsubscribe, Bus!Receive, Bus!ContextsDone, Bus!Close,
      Bus!Write, Bus!MutatorStep, Bus!PublishEnter, Bus!Send, Bus!PublishReturns,
      Bus!Unread, Bus!Shut, Bus!bvars, Bus!busVars, Bus!mutVars,
      BusProofs!BNext, BusProofs!Subscribe, BusProofs!Unsubscribe, BusProofs!Receive,
      BusProofs!ContextsDone, BusProofs!Close, BusProofs!Write, BusProofs!MutatorStep,
      BusProofs!PublishEnter, BusProofs!Send, BusProofs!PublishReturns, BusProofs!Unread,
      BusProofs!Shut, BusProofs!bvars, BusProofs!busVars, BusProofs!mutVars
<1> QED
  BY <1>1, <1>2

LEMMA OwnBus == WSpec => BusProofs!BSpec
BY SameBus, UsesTheBus, PTL DEF Bus!BSpec, BusProofs!BSpec

\* Whatever operations and connection do, Publish sends on no closed channel and
\* no channel is closed twice until Close.
THEOREM NoPanicBeforeClose == WSpec => []PanicsOnlyAfterClose
<1>1. BusProofs!BSpec => []BusProofs!PanicsOnlyAfterClose
  BY SocketAssumption, BusProofs!NoPanicBeforeClose
<1>2. BusProofs!PanicsOnlyAfterClose <=> PanicsOnlyAfterClose
  BY DEF BusProofs!PanicsOnlyAfterClose, PanicsOnlyAfterClose, Bus!PanicsOnlyAfterClose
<1> QED
  BY <1>1, <1>2, OwnBus, PTL

\* Clients are told what mutations have stored, and in the order of each.
THEOREM ToldWhatWasStored == WSpec => []EventsWereStored
<1>1. BusProofs!BSpec => []BusProofs!EventsWereStored
  BY SocketAssumption, BusProofs!ToldWhatWasStored
<1>2. BusProofs!EventsWereStored <=> EventsWereStored
  BY DEF BusProofs!EventsWereStored, EventsWereStored, Bus!EventsWereStored
<1> QED
  BY <1>1, <1>2, OwnBus, PTL

-----------------------------------------------------------------------------
(* The table, the goroutines and the bus together.                         *)

\* An entry of the table is of its id, and of an operation that is under way.
Entries ==
    \A i \in Id : active[i] # NoOp => /\ opc[active[i]] \notin {"new", "ended"}
                                      /\ id[active[i]] = i

\* An operation is unknown to the bus before it subscribes, and its context is
\* done when it ends.
Phases ==
    \A o \in Op : /\ opc[o] \in {"new", "started"} => o \notin watching /\ shut[o] = 0
                  /\ opc[o] = "ended" => o \in done

GoroutineTypeOK ==
    /\ reader \in {"init", "serving", "gone"}
    /\ watcher \in {"none", "waiting", "ended"}
    /\ ctxDone \in BOOLEAN /\ connClosed \in BOOLEAN
    /\ forwarder \in [Op -> {"none", "select", "sending", "ended"}]

WGInv == Bus!BTypeOK /\ ConnTypeOK /\ GoroutineTypeOK /\ Entries /\ Phases

LEMMA GoroutinesInit == WInit => GoroutineTypeOK /\ Entries /\ Phases
<1> SUFFICES ASSUME WInit PROVE GoroutineTypeOK /\ Entries /\ Phases
  OBVIOUS
<1>1. GoroutineTypeOK
  BY DEF WInit, GoroutineTypeOK
<1>2. Entries
  BY DEF WInit, Entries
<1>3. Phases
  BY DEF WInit, Bus!BInit, Phases
<1> QED
  BY <1>1, <1>2, <1>3

\* What the actions of the bus do to the goroutines that wait for a context and
\* to the channels that are closed.
LEMMA BusKeeps ==
    /\ UNCHANGED eventVars => UNCHANGED <<watching, shut, done>>
    /\ \A S : Bus!ContextsDone(S) => UNCHANGED <<watching, shut>> /\ done' = done \cup S
    /\ \A o \in Op : Bus!Receive(o) => UNCHANGED <<watching, shut, done>>
    /\ \A o \in Op : Bus!Subscribe(o) =>
          watching' = watching \cup {o} /\ UNCHANGED <<shut, done>>
    /\ \A o \in Op : Bus!Unsubscribe(o) =>
          /\ o \in watching /\ watching' = watching \ {o} /\ done' = done
          /\ \A p \in Op : p # o => shut'[p] = shut[p]
    /\ \A m \in Mutator : Bus!Write(m) \/ Bus!MutatorStep(m) =>
          UNCHANGED <<watching, shut, done>>
    /\ Bus!Close => /\ UNCHANGED <<watching, done>>
                    /\ \A p \in Op : p \notin subs => shut'[p] = shut[p]
<1>1. UNCHANGED eventVars => UNCHANGED <<watching, shut, done>>
  BY DEF eventVars
<1>2. \A S : Bus!ContextsDone(S) => UNCHANGED <<watching, shut>> /\ done' = done \cup S
  BY DEF Bus!ContextsDone
<1>3. ASSUME NEW o \in Op
      PROVE  /\ Bus!Receive(o) => UNCHANGED <<watching, shut, done>>
             /\ Bus!Subscribe(o) => watching' = watching \cup {o} /\ UNCHANGED <<shut, done>>
             /\ Bus!Unsubscribe(o) =>
                   /\ o \in watching /\ watching' = watching \ {o} /\ done' = done
                   /\ \A p \in Op : p # o => shut'[p] = shut[p]
  BY DEF Bus!Receive, Bus!Subscribe, Bus!Unsubscribe, Bus!Shut
<1>4. \A m \in Mutator : Bus!Write(m) \/ Bus!MutatorStep(m) => UNCHANGED <<watching, shut, done>>
  BY DEF Bus!Write, Bus!MutatorStep, Bus!PublishEnter, Bus!Send, Bus!PublishReturns, Bus!busVars
<1>5. Bus!Close => /\ UNCHANGED <<watching, done>>
                   /\ \A p \in Op : p \notin subs => shut'[p] = shut[p]
  BY DEF Bus!Close, Bus!Shut
<1> QED
  BY <1>1, <1>2, <1>3, <1>4, <1>5

LEMMA CloseKeeps == CloseConnection => UNCHANGED <<watching, shut>> /\ connClosed' = TRUE
BY BusKeeps DEF CloseConnection

\* Steps that leave the table and the operations alone.
LEMMA CalmHolds ==
    ASSUME WGInv, GoroutineTypeOK', done \subseteq done', UNCHANGED <<active, opc, id>>,
           watching' \subseteq watching,
           \A o \in Op : o \notin watching => shut'[o] = shut[o]
    PROVE  Entries' /\ Phases'
<1>1. Entries'
  BY DEF WGInv, Entries
<1>2. Phases'
  BY DEF WGInv, Phases
<1> QED
  BY <1>1, <1>2

LEMMA GoroutinesNext ==
    ASSUME WGInv, WNext
    PROVE  GoroutineTypeOK' /\ Entries' /\ Phases'
<1>1. done \subseteq done'
  BY DoneSoFar DEF WGInv
<1>2. /\ GoroutineTypeOK /\ ConnTypeOK /\ Entries /\ Phases
      /\ subs \subseteq watching
  BY DEF WGInv, Bus!BTypeOK
<1>3. CASE \/ InitAccepted \/ InitRefused \/ Terminate \/ ReadFails
           \/ \E i \in Id : Stop(i)
           \/ ConnectionDone \/ CloseOnCancel
  <2>1. UNCHANGED <<active, opVars, watching, shut>>
    <3>1. CASE InitAccepted \/ ReadFails
      BY <3>1, BusKeeps DEF InitAccepted, ReadFails
    <3>2. CASE InitRefused \/ Terminate \/ CloseOnCancel
      BY <3>2, BusKeeps, CloseKeeps DEF InitRefused, Terminate, CloseOnCancel
    <3>3. CASE (\E i \in Id : Stop(i)) \/ ConnectionDone
      BY <3>3, BusKeeps DEF Stop, ConnectionDone, connVars
    <3> QED
      BY <1>3, <3>1, <3>2, <3>3
  <2>2. GoroutineTypeOK'
    BY <1>2, <1>3, <2>1, CloseKeeps DEF GoroutineTypeOK, InitAccepted, InitRefused, Terminate,
       ReadFails, Stop, ConnectionDone, CloseOnCancel, connVars, opVars
  <2> QED
    BY <1>1, <2>1, <2>2, CalmHolds DEF opVars
<1>4. CASE CloseBus \/ \E m \in Mutator : Write(m) \/ MutatorStep(m)
  <2>1. /\ UNCHANGED <<connVars, opVars, watching>>
        /\ \A o \in Op : o \notin watching => shut'[o] = shut[o]
    BY <1>2, <1>4, BusKeeps DEF CloseBus, Write, MutatorStep
  <2>2. GoroutineTypeOK'
    BY <1>2, <2>1 DEF GoroutineTypeOK, connVars, opVars
  <2> QED
    BY <1>1, <2>1, <2>2, CalmHolds DEF connVars, opVars
<1>5. ASSUME NEW o \in Op, Start(o)
      PROVE  GoroutineTypeOK' /\ Entries' /\ Phases'
  <2>1. /\ opc[o] = "new" /\ opc' = [opc EXCEPT ![o] = "started"]
        /\ active' = [active EXCEPT ![id[o]] = o]
        /\ UNCHANGED <<reader, watcher, ctxDone, connClosed, id, forwarder, watching, shut>>
    BY <1>5, BusKeeps DEF Start
  <2>2. opc'[o] = "started" /\ \A p \in Op : p # o => opc'[p] = opc[p]
    BY <1>2, <2>1 DEF ConnTypeOK
  <2>3. Phases'
    BY <1>1, <1>2, <2>1, <2>2 DEF Phases
  <2>4. ASSUME NEW i \in Id, active'[i] # NoOp
        PROVE  opc'[active'[i]] \notin {"new", "ended"} /\ id'[active'[i]] = i
    <3>1. CASE i = id[o]
      BY <1>2, <2>1, <2>2, <3>1 DEF ConnTypeOK
    <3>2. CASE i # id[o]
      <4>1. active'[i] = active[i] /\ active[i] \in Op
        BY <1>2, <2>1, <2>4, <3>2 DEF ConnTypeOK
      <4>2. opc[active[i]] \notin {"new", "ended"} /\ id[active[i]] = i
        BY <1>2, <2>4, <4>1 DEF Entries
      <4> QED
        BY <2>1, <2>2, <4>1, <4>2
    <3> QED
      BY <3>1, <3>2
  <2>5. GoroutineTypeOK'
    BY <1>2, <2>1 DEF GoroutineTypeOK
  <2> QED
    BY <2>3, <2>4, <2>5 DEF Entries
<1>6. ASSUME NEW o \in Op, Leave(o)
      PROVE  GoroutineTypeOK' /\ Entries' /\ Phases'
  <2>1. /\ opc[o] = "completed" /\ opc' = [opc EXCEPT ![o] = "ended"]
        /\ active' = [active EXCEPT ![id[o]] = NoOp]
        /\ done' = done \cup {o}
        /\ UNCHANGED <<reader, watcher, ctxDone, connClosed, id, forwarder, watching, shut>>
    BY <1>6, BusKeeps DEF Leave
  <2>2. opc'[o] = "ended" /\ \A p \in Op : p # o => opc'[p] = opc[p]
    BY <1>2, <2>1 DEF ConnTypeOK
  <2>3. Phases'
    BY <1>2, <2>1, <2>2 DEF Phases
  <2>4. ASSUME NEW i \in Id, active'[i] # NoOp
        PROVE  opc'[active'[i]] \notin {"new", "ended"} /\ id'[active'[i]] = i
    <3>1. i # id[o] /\ active'[i] = active[i] /\ active[i] \in Op
      BY <1>2, <2>1, <2>4 DEF ConnTypeOK
    <3>2. opc[active[i]] \notin {"new", "ended"} /\ id[active[i]] = i
      BY <1>2, <2>4, <3>1 DEF Entries
    <3>3. active[i] # o
      BY <3>1, <3>2
    <3> QED
      BY <2>1, <2>2, <3>1, <3>2, <3>3
  <2>5. GoroutineTypeOK'
    BY <1>2, <2>1 DEF GoroutineTypeOK
  <2> QED
    BY <2>3, <2>4, <2>5 DEF Entries
<1>7. ASSUME NEW o \in Op, TakeEvent(o) \/ ForwarderEnds(o) \/ Deliver(o) \/ Unsubscribe(o)
      PROVE  GoroutineTypeOK' /\ Entries' /\ Phases'
  <2>1. /\ UNCHANGED <<connVars, opc, id>>
        /\ forwarder' = forwarder \/ \E x \in {"sending", "ended", "select"} :
                                        forwarder' = [forwarder EXCEPT ![o] = x]
    BY <1>7 DEF TakeEvent, ForwarderEnds, Deliver, Unsubscribe, opVars
  <2>2. /\ watching' \subseteq watching
        /\ \A p \in Op : p \notin watching => shut'[p] = shut[p]
    BY <1>7, BusKeeps DEF TakeEvent, ForwarderEnds, Deliver, Unsubscribe
  <2>3. GoroutineTypeOK'
    BY <1>2, <2>1 DEF GoroutineTypeOK, connVars
  <2> QED
    BY <1>1, <2>1, <2>2, <2>3, CalmHolds DEF connVars
<1>8. ASSUME NEW o \in Op, Dispatch(o) \/ StreamEnds(o) \/ Complete(o)
      PROVE  GoroutineTypeOK' /\ Entries' /\ Phases'
  <2>1. /\ UNCHANGED <<connVars, id, shut>>
        /\ forwarder' = forwarder \/ forwarder' = [forwarder EXCEPT ![o] = "select"]
        /\ watching' \subseteq watching \cup {o}
    BY <1>8, BusKeeps DEF Dispatch, StreamEnds, Complete
  <2>2. PICK x \in {"streaming", "completing", "completed"} : opc' = [opc EXCEPT ![o] = x]
    BY <1>8 DEF Dispatch, StreamEnds, Complete
  <2>3. opc[o] \notin {"new", "ended"}
    BY <1>8 DEF Dispatch, StreamEnds, Complete
  <2>4. opc'[o] = x /\ \A p \in Op : p # o => opc'[p] = opc[p]
    BY <1>2, <2>2 DEF ConnTypeOK
  <2>5. Phases'
    BY <1>1, <1>2, <2>1, <2>4 DEF Phases
  <2>6. Entries'
    BY <1>2, <2>1, <2>3, <2>4 DEF ConnTypeOK, Entries, connVars
  <2>7. GoroutineTypeOK'
    BY <1>2, <2>1 DEF GoroutineTypeOK, connVars
  <2> QED
    BY <2>5, <2>6, <2>7
<1> QED
  BY <1>3, <1>4, <1>5, <1>6, <1>7, <1>8 DEF WNext, Goroutines, OperationStep

\* The types of the bus are those that EventBusProofs shows.
LEMMA BusTyped == WSpec => []Bus!BTypeOK
<1>1. BusProofs!BSpec => []BusProofs!BIInv
  BY SocketAssumption, BusProofs!BusInvariant
<1>2. BusProofs!BIInv => Bus!BTypeOK
  BY DEF BusProofs!BIInv, BusProofs!BTypeOK, BusProofs!Event, Bus!BTypeOK, Bus!Event
<1> QED
  BY <1>1, <1>2, OwnBus, PTL

\* Each goroutine is where the table, the bus and the others say it may be.
THEOREM GoroutineInvariant == WSpec => []WGInv
<1>1. WInit => GoroutineTypeOK /\ Entries /\ Phases
  BY GoroutinesInit
<1>2. /\ Bus!BTypeOK /\ WIInv /\ GoroutineTypeOK /\ Entries /\ Phases /\ [WNext]_wvars
      => (GoroutineTypeOK /\ Entries /\ Phases)'
  <2> SUFFICES ASSUME Bus!BTypeOK, WIInv, GoroutineTypeOK, Entries, Phases, [WNext]_wvars
               PROVE  GoroutineTypeOK' /\ Entries' /\ Phases'
    OBVIOUS
  <2>1. CASE UNCHANGED wvars
    BY <2>1 DEF wvars, eventVars, connVars, opVars, GoroutineTypeOK, Entries, Phases
  <2>2. CASE WNext
    BY <2>2, GoroutinesNext DEF WGInv, WIInv
  <2> QED
    BY <2>1, <2>2
<1>3. Bus!BTypeOK /\ WIInv /\ GoroutineTypeOK /\ Entries /\ Phases => WGInv
  BY DEF WGInv, WIInv
<1> QED
  BY <1>1, <1>2, <1>3, BusTyped, ConnInvariant, PTL DEF WSpec

\* Connection, operations, forwarders and bus have their types, and the table
\* of the connection names only operations that are under way: Stop and close
\* never meet one that has ended.
THEOREM TypeCorrect == WSpec => []WTypeOK
<1>1. WGInv => WTypeOK
  BY DEF WGInv, WTypeOK, ConnTypeOK, GoroutineTypeOK, Entries
<1> QED
  BY <1>1, GoroutineInvariant, PTL

-----------------------------------------------------------------------------
(* What is left behind. ENABLED is out of the provers' reach, so here are the *)
(* guards of the steps that goroutines take on their own; TLC checks          *)
(* GuardsAreExact on a small instance.                                        *)

MayPublish(m) ==
    \/ mpc[m] = "written"
    \/ mpc[m] = "publish" /\ (targets[m] = {} \/ \E o \in Op : o \in targets[m])

MaySubscribe(o) ==
    /\ opc[o] = "started"
    /\ closed \/ (Bus!Unread /\ o \notin watching /\ shut[o] = 0)

MayForward(o) ==
    \/ forwarder[o] = "select" /\ (channel[o] # <<>> \/ o \in done \/ shut[o] > 0)
    \/ forwarder[o] = "sending" /\ opc[o] = "streaming"

MayFinish(o) ==
    \/ opc[o] = "streaming" /\ (o \in done \/ forwarder[o] = "ended")
    \/ opc[o] \in {"completing", "completed"}

MayUnsubscribe(o) == Bus!Unread /\ o \in watching /\ o \in done

MayStep ==
    \/ watcher = "waiting" /\ (reader = "gone" \/ ctxDone)
    \/ \E m \in Mutator : MayPublish(m)
    \/ \E o \in Op : MaySubscribe(o) \/ MayForward(o) \/ MayFinish(o) \/ MayUnsubscribe(o)

GuardsAreExact ==
    ~panicked => /\ MayStep <=> ENABLED Goroutines
                 /\ \A m \in Mutator : MayPublish(m) <=> ENABLED MutatorStep(m)

RestLeavesNothing == ~panicked /\ ~MayStep => OverIsGone

\* Where a publisher is, the guard of one of its steps holds.
PublisherMayGoOn == \A m \in Mutator : mpc[m] # "idle" => MayPublish(m)

\* Nobody lengthens the way of a publisher: while it holds the lock for reading
\* its subscribers only become fewer, and it gives the lock back after the last.
WayGetsShorter ==
    \A m \in Mutator :
        mpc[m] = "publish" =>
            /\ targets'[m] \subseteq targets[m]
            /\ mpc'[m] # "publish" => mpc'[m] = "idle" /\ targets[m] = {}
            /\ MutatorStep(m) => mpc'[m] = "idle" \/ targets'[m] # targets[m]

LEMMA PublisherGoesOn == WGInv => PublisherMayGoOn
<1> SUFFICES ASSUME WGInv, NEW m \in Mutator, mpc[m] # "idle" PROVE MayPublish(m)
  BY DEF PublisherMayGoOn
<1>1. mpc[m] \in {"idle", "written", "publish"} /\ targets[m] \subseteq Op
  BY DEF WGInv, Bus!BTypeOK
<1> QED
  BY <1>1 DEF MayPublish

(* MutationsNeverWait without ENABLED: the next step of a publisher, written   *)
(* out. GoesOn gives every variable one value, a function of the state, so     *)
(* from each state there is exactly one such step.                             *)

\* What becomes of the bus: m visits some channel it has yet to visit, any one,
\* and leaves that full or empty as it is unless it can put its event there;
\* without one it returns.
GoesOn(m) ==
    LET s == CHOOSE o \in Op : o \in targets[m]
        sends == mpc[m] = "publish" /\ targets[m] # {}
    IN  /\ mpc' = [mpc EXCEPT ![m] = CASE sends -> "publish"
                                        [] mpc[m] = "written" /\ ~closed -> "publish"
                                        [] OTHER -> "idle"]
        /\ targets' = [targets EXCEPT ![m] = CASE sends -> @ \ {s}
                                                [] mpc[m] = "written" /\ ~closed -> subs
                                                [] OTHER -> @]
        /\ channel' = [channel EXCEPT ![s] = IF sends /\ @ = <<>>
                                               THEN <<[by |-> m, version |-> version[m]]>>
                                               ELSE @]
        /\ panicked' = (panicked \/ (sends /\ shut[s] > 0))
        /\ UNCHANGED <<subs, closed, done, watching, shut, stored, version, received>>
        /\ UNCHANGED <<connVars, opVars>>

\* A mutation waits for nobody on its way through Publish, neither a subscriber
\* that does not read nor one that leaves, for any number of both: wherever it
\* is, GoesOn is a step of it. The send has a default case; one that waited for
\* a free slot would not take this step where the channel is full.
THEOREM PublishersGoOn ==
    ASSUME WGInv, NEW m \in Mutator, mpc[m] # "idle", GoesOn(m)
    PROVE  MutatorStep(m)
<1> DEFINE s == CHOOSE o \in Op : o \in targets[m]
<1> USE DEF GoesOn
<1>1. /\ mpc \in [Mutator -> {"idle", "written", "publish"}]
      /\ targets \in [Mutator -> SUBSET Op]
      /\ channel = [o \in Op |-> channel[o]]
      /\ panicked \in BOOLEAN
  BY DEF WGInv, Bus!BTypeOK
<1>2. CASE mpc[m] = "written"
  <2>1. Bus!PublishEnter(m)
    BY <1>1, <1>2 DEF Bus!PublishEnter, Bus!busVars
  <2> QED
    BY <2>1 DEF MutatorStep, Bus!MutatorStep
<1>3. CASE mpc[m] = "publish" /\ targets[m] = {}
  <2>1. Bus!PublishReturns(m)
    BY <1>1, <1>3 DEF Bus!PublishReturns, Bus!busVars
  <2> QED
    BY <2>1 DEF MutatorStep, Bus!MutatorStep
<1>4. CASE mpc[m] = "publish" /\ targets[m] # {}
  <2>1. s \in Op /\ s \in targets[m]
    BY <1>1, <1>4
  <2>2. Bus!Send(m, s)
    BY <1>1, <1>4, <2>1 DEF Bus!Send
  <2> QED
    BY <2>1, <2>2 DEF MutatorStep, Bus!MutatorStep
<1> QED
  BY <1>1, <1>2, <1>3, <1>4

\* What publishers are at is theirs alone: only their own steps change it.
LEMMA PublishersKeep ==
    ASSUME ConnTypeOK, WNext, NEW m \in Mutator
    PROVE  \/ UNCHANGED <<mpc, targets>>
           \/ \E n \in Mutator : Bus!Write(n) \/ Bus!MutatorStep(n)
<1>1. UNCHANGED eventVars => UNCHANGED <<mpc, targets>>
  BY DEF eventVars
<1>2. \A S : Bus!ContextsDone(S) => UNCHANGED <<mpc, targets>>
  BY DEF Bus!ContextsDone, Bus!mutVars
<1>3. \A o \in Op : Bus!Subscribe(o) \/ Bus!Receive(o) \/ Bus!Unsubscribe(o)
                   => UNCHANGED <<mpc, targets>>
  BY DEF Bus!Subscribe, Bus!Receive, Bus!Unsubscribe, Bus!mutVars
<1>4. Bus!Close => UNCHANGED <<mpc, targets>>
  BY DEF Bus!Close, Bus!mutVars
<1>5. CASE \/ InitAccepted \/ InitRefused \/ Terminate \/ ReadFails
           \/ \E i \in Id : Stop(i)
           \/ \E o \in Op : Start(o)
           \/ ConnectionDone \/ CloseOnCancel
           \/ \E o \in Op : Leave(o)
  BY <1>1, <1>2, <1>5, ConnectionStep
<1>6. CASE \E o \in Op : OperationStep(o)
  BY <1>1, <1>3, <1>5, <1>6 DEF OperationStep, Dispatch, StreamEnds, Complete, TakeEvent,
                                ForwarderEnds, Deliver, Unsubscribe
<1>7. CASE CloseBus \/ \E n \in Mutator : Write(n) \/ MutatorStep(n)
  BY <1>4, <1>7 DEF CloseBus, Write, MutatorStep
<1> QED
  BY <1>5, <1>6, <1>7 DEF WNext, Goroutines

\* The read lock of Publish comes back: no step of a subscription, a connection
\* or another mutation adds to what its holder has still to do, and each step of
\* the holder takes a subscriber off or returns.
THEOREM TheLockComesBack == WSpec => [][WayGetsShorter]_wvars
<1>1. Bus!BTypeOK /\ ConnTypeOK /\ [WNext]_wvars => [WayGetsShorter]_wvars
  <2> SUFFICES ASSUME Bus!BTypeOK, ConnTypeOK, WNext, NEW m \in Mutator, mpc[m] = "publish"
               PROVE  /\ targets'[m] \subseteq targets[m]
                      /\ mpc'[m] # "publish" => mpc'[m] = "idle" /\ targets[m] = {}
                      /\ MutatorStep(m) => mpc'[m] = "idle" \/ targets'[m] # targets[m]
    BY DEF WayGetsShorter
  <2> USE DEF Bus!BTypeOK
  <2>1. ASSUME Bus!MutatorStep(m)
        PROVE  \/ targets'[m] = targets[m] /\ targets[m] = {} /\ mpc'[m] = "idle"
               \/ /\ targets'[m] \subseteq targets[m] /\ targets'[m] # targets[m]
                  /\ mpc'[m] = "publish"
    <3>1. ~Bus!PublishEnter(m)
      BY DEF Bus!PublishEnter
    <3>2. CASE Bus!PublishReturns(m)
      BY <3>2 DEF Bus!PublishReturns
    <3>3. ASSUME NEW o \in Op, Bus!Send(m, o)
          PROVE  targets'[m] = targets[m] \ {o} /\ o \in targets[m] /\ mpc'[m] = "publish"
      BY <3>3 DEF Bus!Send
    <3> QED
      BY <2>1, <3>1, <3>2, <3>3 DEF Bus!MutatorStep
  <2>2. ASSUME NEW n \in Mutator, n # m, Bus!Write(n) \/ Bus!MutatorStep(n)
        PROVE  targets'[m] = targets[m] /\ mpc'[m] = mpc[m]
    <3>1. CASE Bus!Write(n)
      BY <2>2, <3>1 DEF Bus!Write
    <3>2. CASE Bus!PublishEnter(n) \/ Bus!PublishReturns(n)
      BY <2>2, <3>2 DEF Bus!PublishEnter, Bus!PublishReturns
    <3>3. CASE \E o \in Op : Bus!Send(n, o)
      BY <2>2, <3>3 DEF Bus!Send
    <3> QED
      BY <2>2, <3>1, <3>2, <3>3 DEF Bus!MutatorStep
  <2>3. ~Bus!Write(m)
    BY DEF Bus!Write
  <2>4. MutatorStep(m) => Bus!MutatorStep(m)
    BY DEF MutatorStep
  <2>5. CASE Bus!MutatorStep(m)
    BY <2>1, <2>5
  <2>6. CASE ~Bus!MutatorStep(m)
    <3>1. targets'[m] = targets[m] /\ mpc'[m] = mpc[m]
      BY <2>2, <2>3, <2>6, PublishersKeep
    <3> QED
      BY <2>4, <2>6, <3>1
  <2> QED
    BY <2>5, <2>6
<1> QED
  BY <1>1, BusTyped, ConnInvariant, PTL DEF WSpec, WIInv

\* Where nobody may step no publisher holds the lock.
LEMMA PublishersMayStep ==
    ASSUME WGInv, ~MayStep
    PROVE  (\A m \in Mutator : mpc[m] = "idle") /\ Bus!Unread
<1>1. \A m \in Mutator : mpc[m] = "idle"
  BY PublisherGoesOn DEF PublisherMayGoOn, MayStep
<1> QED
  BY <1>1 DEF Bus!Unread

\* Where no goroutine may step, an operation that is over has come to its end,
\* has left the bus and the table, and keeps no forwarder that could still end:
\* for any number of operations, mutations and uses of an id.
THEOREM NothingLeftAtRest == WSpec => []RestLeavesNothing
<1>1. WGInv => RestLeavesNothing
  <2> SUFFICES ASSUME WGInv, ~MayStep, NEW o \in Op,
                      opc[o] = "ended" \/ (Started(o) /\ o \in done)
               PROVE  Gone(o)
    BY DEF RestLeavesNothing, OverIsGone
  <2>1. Bus!Unread
    BY PublishersMayStep
  <2>2. ~MaySubscribe(o) /\ ~MayForward(o) /\ ~MayFinish(o) /\ ~MayUnsubscribe(o)
    BY DEF MayStep
  <2>3. o \in done
    BY DEF WGInv, Phases
  <2>4. opc[o] = "ended"
    <3>1. opc[o] \in {"started", "streaming", "completing", "completed", "ended"}
      BY DEF WGInv, ConnTypeOK, Started
    <3>2. opc[o] # "started"
      BY <2>1, <2>2 DEF MaySubscribe, WGInv, Phases
    <3> QED
      BY <2>2, <2>3, <3>1, <3>2 DEF MayFinish
  <2>5. o \notin watching
    BY <2>1, <2>2, <2>3 DEF MayUnsubscribe
  <2>6. \A i \in Id : active[i] # o
    BY <2>4, SocketAssumption DEF WGInv, Entries
  <2>7. forwarder[o] \in {"none", "ended", "sending"}
    BY <2>2, <2>3 DEF MayForward, WGInv, GoroutineTypeOK
  <2> QED
    BY <2>4, <2>5, <2>6, <2>7 DEF Gone
<1> QED
  BY <1>1, GoroutineInvariant, PTL

=============================================================================
