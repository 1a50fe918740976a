------------------------------- MODULE EventBus -------------------------------
(***************************************************************************)
(* The in-memory event bus of the relationships example and the mutations  *)
(* that publish to it, for one topic (topics share nothing but the lock).  *)
(*                                                                         *)
(* A subscription is a channel with one slot. Publish holds the read lock  *)
(* over its loop, so several mutations may publish at once, each to the    *)
(* channels in an order of its own; a channel whose slot is taken is       *)
(* skipped. Subscribe, the goroutine that waits for the subscription's     *)
(* context, and Close each take the write lock once.                       *)
(***************************************************************************)
EXTENDS Naturals, Sequences, FiniteSets

CONSTANTS
    Stream,     \* calls of Subscribe, each with a channel of its own
    Mutator,    \* requests that change the entity and publish it
    MaxVersion  \* bound: changes of the entity

VARIABLES
    subs,       \* the channels subscribed to the topic
    closed,     \* Close has run
    done,       \* the contexts of the subscriptions that are done
    watching,   \* the subscriptions whose goroutine waits for its context
    channel,    \* what each channel holds
    shut,       \* how often each channel has been closed
    panicked,   \* a send on a closed channel, or a second close, ends the program
    stored,     \* the version of the entity in the database
    mpc,        \* where each mutation is
    version,    \* the version each mutation has written
    targets,    \* the channels the loop of its Publish has yet to visit
    received    \* history: the events each subscriber has taken

busVars == <<subs, closed, done, watching, channel, shut, panicked>>
mutVars == <<stored, mpc, version, targets>>
bvars == <<busVars, mutVars, received>>

Event == [by : Mutator, version : 1 .. MaxVersion]

BTypeOK ==
    /\ subs \subseteq watching
    /\ watching \subseteq Stream
    /\ closed \in BOOLEAN
    /\ done \subseteq Stream
    /\ channel \in [Stream -> {<<>>} \cup {<<e>> : e \in Event}]
    /\ shut \in [Stream -> 0 .. 2]
    /\ panicked \in BOOLEAN
    /\ stored \in 0 .. MaxVersion
    /\ mpc \in [Mutator -> {"idle", "written", "publish"}]
    /\ version \in [Mutator -> 0 .. stored]
    /\ targets \in [Mutator -> SUBSET Stream]
    /\ received \in [Stream -> Seq(Event)]

BInit ==
    /\ subs = {} /\ closed = FALSE
    /\ done = {} /\ watching = {}
    /\ channel = [s \in Stream |-> <<>>]
    /\ shut = [s \in Stream |-> 0]
    /\ panicked = FALSE
    /\ stored = 0
    /\ mpc = [m \in Mutator |-> "idle"]
    /\ version = [m \in Mutator |-> 0]
    /\ targets = [m \in Mutator |-> {}]
    /\ received = [s \in Stream |-> <<>>]

\* Nobody holds the read lock; a section under the write lock is one step.
Unread == \A m \in Mutator : mpc[m] # "publish"

\* close(ch) for the channels S.
Shut(S) ==
    /\ shut' = [s \in Stream |-> IF s \in S /\ shut[s] < 2 THEN shut[s] + 1 ELSE shut[s]]
    /\ panicked' = (panicked \/ \E s \in S : shut[s] > 0)

-----------------------------------------------------------------------------
(* Faults: an action with one plausible bug, named by PROJECT.json.        *)

\* The goroutine of a subscription does not take the lock.
UnsubscribeUnlocked(s) ==
    /\ s \in watching \cap done
    /\ watching' = watching \ {s}
    /\ subs' = subs \ {s}
    /\ Shut({s})
    /\ UNCHANGED <<closed, done, channel, mutVars, received>>

\* The mutation goes on when the service has returned an error.
WriteUnchecked(m) ==
    /\ mpc[m] = "idle"
    /\ stored < MaxVersion
    /\ stored' \in {stored, stored + 1}
    /\ version' = [version EXCEPT ![m] = stored + 1]
    /\ mpc' = [mpc EXCEPT ![m] = "written"]
    /\ UNCHANGED <<busVars, targets, received>>

\* Publish sends without a default case: it waits for a free slot.
SendWaits(m, s) ==
    /\ mpc[m] = "publish"
    /\ s \in targets[m]
    /\ channel[s] = <<>>
    /\ targets' = [targets EXCEPT ![m] = @ \ {s}]
    /\ channel' = [channel EXCEPT ![s] = <<[by |-> m, version |-> version[m]]>>]
    /\ panicked' = (panicked \/ shut[s] > 0)
    /\ UNCHANGED <<subs, closed, done, watching, shut, stored, mpc, version, received>>

-----------------------------------------------------------------------------
(* Subscriptions.                                                          *)

\* The context may be done already; the goroutine sees to that later.
Subscribe(s) ==
    /\ Unread
    /\ ~closed
    /\ s \notin watching /\ shut[s] = 0
    /\ subs' = subs \cup {s}
    /\ watching' = watching \cup {s}
    /\ UNCHANGED <<closed, done, channel, shut, panicked, mutVars, received>>

ContextsDone(S) ==
    /\ done' = done \cup S
    /\ UNCHANGED <<subs, closed, watching, channel, shut, panicked, mutVars, received>>

\* The goroutine of a subscription closes the channel, whoever else has done so.
Unsubscribe(s) ==
    /\ Unread
    /\ s \in watching \cap done
    /\ watching' = watching \ {s}
    /\ subs' = subs \ {s}
    /\ Shut({s})
    /\ UNCHANGED <<closed, done, channel, mutVars, received>>

\* The subscriber takes the event its channel holds.
Receive(s) ==
    /\ channel[s] # <<>>
    /\ channel' = [channel EXCEPT ![s] = <<>>]
    /\ received' = [received EXCEPT ![s] = @ \o channel[s]]
    /\ UNCHANGED <<subs, closed, done, watching, shut, panicked, mutVars>>

Close ==
    /\ Unread
    /\ ~closed
    /\ closed' = TRUE
    /\ Shut(subs)
    /\ subs' = {}
    /\ UNCHANGED <<done, watching, channel, mutVars, received>>

-----------------------------------------------------------------------------
(* Mutations: the write, and then the event.                               *)

\* A write the service refuses ends the mutation: nothing is published.
Write(m) ==
    /\ mpc[m] = "idle"
    /\ stored < MaxVersion
    /\ stored' = stored + 1
    /\ version' = [version EXCEPT ![m] = stored + 1]
    /\ mpc' = [mpc EXCEPT ![m] = "written"]
    /\ UNCHANGED <<busVars, targets, received>>

\* A closed bus is an error of the mutation, which is stored all the same.
PublishEnter(m) ==
    /\ mpc[m] = "written"
    /\ IF closed
         THEN mpc' = [mpc EXCEPT ![m] = "idle"] /\ UNCHANGED targets
         ELSE /\ mpc' = [mpc EXCEPT ![m] = "publish"]
              /\ targets' = [targets EXCEPT ![m] = subs]
    /\ UNCHANGED <<busVars, stored, version, received>>

Send(m, s) ==
    /\ mpc[m] = "publish"
    /\ s \in targets[m]
    /\ targets' = [targets EXCEPT ![m] = @ \ {s}]
    /\ panicked' = (panicked \/ shut[s] > 0)
    /\ channel' = [channel EXCEPT ![s] =
                      IF @ = <<>> THEN <<[by |-> m, version |-> version[m]]>> ELSE @]
    /\ UNCHANGED <<subs, closed, done, watching, shut, stored, mpc, version, received>>

PublishReturns(m) ==
    /\ mpc[m] = "publish"
    /\ targets[m] = {}
    /\ mpc' = [mpc EXCEPT ![m] = "idle"]
    /\ UNCHANGED <<busVars, stored, version, targets, received>>

-----------------------------------------------------------------------------

MutatorStep(m) ==
    PublishEnter(m) \/ (\E s \in Stream : Send(m, s)) \/ PublishReturns(m)

BNext ==
    /\ ~panicked
    /\ \/ \E s \in Stream : Subscribe(s) \/ Unsubscribe(s) \/ Receive(s)
       \/ \E S \in SUBSET Stream : ContextsDone(S)
       \/ Close
       \/ \E m \in Mutator : Write(m) \/ MutatorStep(m)

BSpec == BInit /\ [][BNext]_bvars

-----------------------------------------------------------------------------
(* Properties.                                                             *)

\* Publish never sends on a closed channel and no channel is closed twice,
\* unless Close has run. (After Close the goroutine of every subscription it
\* found closes that channel again.)
PanicsOnlyAfterClose == panicked => closed

\* What subscribers are told has happened: an event names a version the
\* database has had, and a mutation is received once and in the order of the
\* mutations of its request. (Not in the order of the database: two mutations
\* publish in either order, and to two subscribers in different orders.)
EventsWereStored ==
    \A s \in Stream :
        LET events == received[s] \o channel[s]
        IN  /\ \A i \in DOMAIN events : events[i].version <= stored
            /\ \A i, j \in DOMAIN events :
                  i < j /\ events[i].by = events[j].by => events[i].version < events[j].version

=============================================================================
