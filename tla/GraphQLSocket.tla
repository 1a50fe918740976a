---------------------------- MODULE GraphQLSocket ----------------------------
(***************************************************************************)
(* A WebSocket connection with the subscriptions it serves, on top of the  *)
(* event bus.                                                              *)
(*                                                                         *)
(* The reader (Handler: init, then run) answers the client's messages one  *)
(* after another. A start message registers the cancel function of a new   *)
(* operation under the client's id and leaves the rest to a goroutine,     *)
(* which subscribes to the bus; a forwarder of the resolver moves events   *)
(* from the bus to it over a channel without a buffer. closeOnCancel waits *)
(* for run to end. c.mu is held for one step at a time.                    *)
(*                                                                         *)
(* The ids are the client's: it may use one again whenever it likes.       *)
(* Queries over the socket, which end by themselves, the payloads of       *)
(* messages, and pings and pongs, which change nothing but a read deadline *)
(* that the repository never sets, are not here.                           *)
(***************************************************************************)
EXTENDS Naturals, Sequences, FiniteSets

CONSTANTS
    Op,         \* operations the client starts; each subscribes once
    Id,         \* ids the client gives them
    NoOp,
    Mutator,    \* as in EventBus
    MaxVersion

ASSUME SocketAssumption == NoOp \notin Op /\ MaxVersion \in Nat

VARIABLES
    subs, closed, done, watching, channel, shut, panicked,   \* EventBus
    stored, mpc, version, targets, received,
    reader,         \* the goroutine of Handler
    watcher,        \* closeOnCancel
    ctxDone,        \* the context of the connection, which the host provides
    connClosed,     \* wsConnection.closed
    active,         \* wsConnection.active
    opc,            \* the goroutine of each operation
    id,             \* the id the client gives each operation, when it starts it
    forwarder       \* the goroutine of the resolver's subscription

Bus == INSTANCE EventBus WITH Stream <- Op

eventVars == <<subs, closed, done, watching, channel, shut, panicked,
               stored, mpc, version, targets, received>>
connVars == <<reader, watcher, ctxDone, connClosed, active>>
opVars == <<opc, id, forwarder>>
wvars == <<eventVars, connVars, opVars>>

WTypeOK ==
    /\ Bus!BTypeOK
    /\ reader \in {"init", "serving", "gone"}
    /\ watcher \in {"none", "waiting", "ended"}
    /\ ctxDone \in BOOLEAN /\ connClosed \in BOOLEAN
    /\ active \in [Id -> Op \cup {NoOp}]
    /\ opc \in [Op -> {"new", "started", "streaming", "completing", "completed", "ended"}]
    /\ id \in [Op -> Id]
    /\ forwarder \in [Op -> {"none", "select", "sending", "ended"}]
    \* the table names operations that have not ended
    /\ \A i \in Id : active[i] # NoOp => opc[active[i]] \notin {"new", "ended"}

WInit ==
    /\ Bus!BInit
    /\ reader = "init" /\ watcher = "none"
    /\ ctxDone = FALSE /\ connClosed = FALSE
    /\ active = [i \in Id |-> NoOp]
    /\ opc = [o \in Op |-> "new"]
    /\ id \in [Op -> Id]
    /\ forwarder = [o \in Op |-> "none"]

Started(o) == opc[o] # "new"
Live(o) == opc[o] \in {"started", "streaming", "completing"}

-----------------------------------------------------------------------------
(* Faults: an action with one plausible bug, named by PROJECT.json.        *)

\* close leaves the operations to the context of the connection.
CloseLeavesOperations ==
    /\ connClosed' = TRUE
    /\ UNCHANGED eventVars

\* The table keeps the operation that has ended.
LeaveKeepsEntry(o) ==
    /\ opc[o] = "completed"
    /\ opc' = [opc EXCEPT ![o] = "ended"]
    /\ Bus!ContextsDone({o})
    /\ UNCHANGED <<connVars, id, forwarder>>

-----------------------------------------------------------------------------
(* The reader.                                                             *)

\* close: the first call cancels every operation of the table.
CloseConnection ==
    /\ connClosed' = TRUE
    /\ IF connClosed
         THEN UNCHANGED eventVars
         ELSE Bus!ContextsDone({o \in Op : \E i \in Id : active[i] = o})

\* The connection is acknowledged and run starts its goroutines.
InitAccepted ==
    /\ reader = "init"
    /\ reader' = "serving"
    /\ watcher' = "waiting"
    /\ UNCHANGED <<eventVars, ctxDone, connClosed, active, opVars>>

\* Most refusals close the connection; a payload that is no object does not.
InitRefused ==
    /\ reader = "init"
    /\ reader' = "gone"
    /\ CloseConnection \/ UNCHANGED <<connClosed, eventVars>>
    /\ UNCHANGED <<watcher, ctxDone, active, opVars>>

\* A start message that names an operation; of two with one id the table
\* knows the later one.
Start(o) ==
    /\ reader = "serving"
    /\ opc[o] = "new"
    /\ opc' = [opc EXCEPT ![o] = "started"]
    /\ active' = [active EXCEPT ![id[o]] = o]
    /\ Bus!ContextsDone(IF ctxDone THEN {o} ELSE {})
    /\ UNCHANGED <<reader, watcher, ctxDone, connClosed, id, forwarder>>

Stop(i) ==
    /\ reader = "serving"
    /\ active[i] # NoOp
    /\ Bus!ContextsDone({active[i]})
    /\ UNCHANGED <<connVars, opVars>>

\* A terminate message, or one that is not expected.
Terminate ==
    /\ reader = "serving"
    /\ CloseConnection
    /\ reader' = "gone"
    /\ UNCHANGED <<watcher, ctxDone, active, opVars>>

\* The client has gone, or the deadline has passed.
ReadFails ==
    /\ reader = "serving"
    /\ reader' = "gone"
    /\ UNCHANGED <<eventVars, watcher, ctxDone, connClosed, active, opVars>>

-----------------------------------------------------------------------------
(* The other goroutines of the connection.                                 *)

\* The context of run is done when run returns or the connection's is.
CloseOnCancel ==
    /\ watcher = "waiting"
    /\ reader = "gone" \/ ctxDone
    /\ watcher' = "ended"
    /\ CloseConnection
    /\ UNCHANGED <<reader, ctxDone, active, opVars>>

\* Every operation's context derives from the connection's.
ConnectionDone ==
    /\ ~ctxDone
    /\ ctxDone' = TRUE
    /\ Bus!ContextsDone({o \in Op : Started(o)})
    /\ UNCHANGED <<reader, watcher, connClosed, active, opVars>>

-----------------------------------------------------------------------------
(* The goroutines of an operation.                                         *)

\* The resolver subscribes; a closed bus is an error response.
Dispatch(o) ==
    /\ opc[o] = "started"
    /\ IF closed
         THEN /\ opc' = [opc EXCEPT ![o] = "completing"]
              /\ UNCHANGED <<eventVars, forwarder>>
         ELSE /\ opc' = [opc EXCEPT ![o] = "streaming"]
              /\ forwarder' = [forwarder EXCEPT ![o] = "select"]
              /\ Bus!Subscribe(o)
    /\ UNCHANGED <<connVars, id>>

\* The forwarder has an event and waits for the operation to take it, with
\* no look at the context any more.
TakeEvent(o) ==
    /\ forwarder[o] = "select"
    /\ Bus!Receive(o)
    /\ forwarder' = [forwarder EXCEPT ![o] = "sending"]
    /\ UNCHANGED <<connVars, opc, id>>

ForwarderEnds(o) ==
    /\ forwarder[o] = "select"
    /\ o \in done \/ (channel[o] = <<>> /\ shut[o] > 0)
    /\ forwarder' = [forwarder EXCEPT ![o] = "ended"]
    /\ UNCHANGED <<eventVars, connVars, opc, id>>

\* The operation takes the event and writes it to the client.
Deliver(o) ==
    /\ opc[o] = "streaming"
    /\ forwarder[o] = "sending"
    /\ forwarder' = [forwarder EXCEPT ![o] = "select"]
    /\ UNCHANGED <<eventVars, connVars, opc, id>>

StreamEnds(o) ==
    /\ opc[o] = "streaming"
    /\ o \in done \/ forwarder[o] = "ended"
    /\ opc' = [opc EXCEPT ![o] = "completing"]
    /\ UNCHANGED <<eventVars, connVars, id, forwarder>>

\* complete, or error, is on its way to the client, which may use the id again.
Complete(o) ==
    /\ opc[o] = "completing"
    /\ opc' = [opc EXCEPT ![o] = "completed"]
    /\ UNCHANGED <<eventVars, connVars, id, forwarder>>

\* The entry goes by the id, whichever operation it is of.
Leave(o) ==
    /\ opc[o] = "completed"
    /\ opc' = [opc EXCEPT ![o] = "ended"]
    /\ active' = [active EXCEPT ![id[o]] = NoOp]
    /\ Bus!ContextsDone({o})
    /\ UNCHANGED <<reader, watcher, ctxDone, connClosed, id, forwarder>>

-----------------------------------------------------------------------------
(* The bus on its own.                                                     *)

Unsubscribe(o) == Bus!Unsubscribe(o) /\ UNCHANGED <<connVars, opVars>>
CloseBus == Bus!Close /\ UNCHANGED <<connVars, opVars>>
Write(m) == Bus!Write(m) /\ UNCHANGED <<connVars, opVars>>
MutatorStep(m) == Bus!MutatorStep(m) /\ UNCHANGED <<connVars, opVars>>

OperationStep(o) ==
    \/ Dispatch(o) \/ StreamEnds(o) \/ Complete(o) \/ Leave(o)
    \/ TakeEvent(o) \/ ForwarderEnds(o) \/ Deliver(o)
    \/ Unsubscribe(o)

\* What goroutines do that need nothing from outside.
Goroutines ==
    \/ CloseOnCancel
    \/ \E o \in Op : OperationStep(o)
    \/ \E m \in Mutator : MutatorStep(m)

WNext ==
    /\ ~panicked
    /\ \/ InitAccepted \/ InitRefused \/ Terminate \/ ReadFails
       \/ \E i \in Id : Stop(i)
       \/ \E o \in Op : Start(o)
       \/ ConnectionDone
       \/ CloseBus
       \/ \E m \in Mutator : Write(m)
       \/ Goroutines

WSpec == WInit /\ [][WNext]_wvars

-----------------------------------------------------------------------------
(* Properties.                                                             *)

\* The bus's own properties hold under the connections that use it.
PanicsOnlyAfterClose == Bus!PanicsOnlyAfterClose
EventsWereStored == Bus!EventsWereStored

\* A connection that is closed has cancelled its operations, except where
\* the client has used an id twice. The table knows one operation for an id,
\* and the first to end takes the entry of the other with it, even when the
\* client has waited for complete before it used the id again: neither stop
\* nor close reaches the one left.
OrphansShareTheirId ==
    connClosed => \A o \in Op :
        Live(o) /\ o \notin done => \E p \in Op \ {o} : Started(p) /\ id[p] = id[o]

\* A mutation never waits for a subscriber, whatever the channels hold.
MutationsNeverWait ==
    \A m \in Mutator : mpc[m] # "idle" => ENABLED MutatorStep(m)

\* Of an operation that is gone nothing is left in the table, the bus and its
\* goroutines, except a forwarder that holds an event nobody takes any more.
Gone(o) ==
    /\ opc[o] = "ended"
    /\ o \notin watching
    /\ \A i \in Id : active[i] # o
    /\ forwarder[o] \in {"none", "ended", "sending"}

OverIsGone == \A o \in Op : opc[o] = "ended" \/ (Started(o) /\ o \in done) => Gone(o)

\* Once every goroutine has done what it can, an operation that has ended, or
\* whose context is done, is gone.
NothingLeftBehind == ~panicked /\ ~ENABLED Goroutines => OverIsGone

=============================================================================
