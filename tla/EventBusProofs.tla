---------------------------- MODULE EventBusProofs ----------------------------
(***************************************************************************)
(* Theorems about EventBus, for any subscriptions and mutations and any    *)
(* number of versions.                                                     *)
(***************************************************************************)
EXTENDS EventBus, TLAPS

Events(s) == received[s] \o channel[s]

\* A channel is closed once, under the lock that takes it out of subs, and
\* what a Publish has yet to visit is still subscribed, until Close.
LockKept ==
    /\ ~closed => ~panicked /\ subs = watching
    /\ \A s \in subs : shut[s] = 0
    /\ \A m \in Mutator :
          /\ mpc[m] = "publish" => ~closed /\ targets[m] \subseteq subs
          /\ mpc[m] # "publish" => targets[m] = {}

\* The events of a mutation are no later than its version, and earlier for
\* a subscriber it has yet to tell of it.
Told ==
    \A s \in Stream : \A i \in DOMAIN Events(s) : \A m \in Mutator :
        Events(s)[i].by = m =>
            /\ Events(s)[i].version <= version[m]
            /\ mpc[m] = "written" \/ s \in targets[m] => Events(s)[i].version < version[m]

\* A mutation under way has written.
HasWritten == \A m \in Mutator : mpc[m] # "idle" => version[m] # 0

BIInv == MaxVersion \in Nat /\ BTypeOK /\ LockKept /\ HasWritten /\ Told /\ EventsWereStored

-----------------------------------------------------------------------------

\* An event that is taken moves from the channel to what was received; one
\* that is sent comes after everything.
LEMMA EventSequence ==
    ASSUME NEW r \in Seq(Event), NEW e \in Event
    PROVE  /\ r \o <<>> = r
           /\ r \o <<e>> = Append(r, e)
           /\ Append(r, e) \o <<>> = Append(r, e)
           /\ r \o <<>> \in Seq(Event) /\ Append(r, e) \in Seq(Event)
OBVIOUS

\* The events of a stream are a sequence of events.
LEMMA EventsType ==
    ASSUME BTypeOK, NEW s \in Stream
    PROVE  /\ Events(s) \in Seq(Event)
           /\ DOMAIN Events(s) = 1 .. Len(Events(s)) /\ Len(Events(s)) \in Nat
           /\ \A i \in DOMAIN Events(s) :
                 /\ Events(s)[i] \in Event
                 /\ Events(s)[i].by \in Mutator /\ Events(s)[i].version \in Nat
<1>1. received[s] \in Seq(Event) /\ channel[s] \in Seq(Event)
  <2>1. channel[s] \in {<<>>} \cup {<<e>> : e \in Event} /\ received[s] \in Seq(Event)
    BY DEF BTypeOK
  <2>2. CASE channel[s] = <<>>
    BY <2>1, <2>2
  <2>3. CASE channel[s] # <<>>
    <3>1. PICK e \in Event : channel[s] = <<e>>
      BY <2>1, <2>3
    <3>2. <<e>> \in Seq(Event)
      OBVIOUS
    <3> QED
      BY <2>1, <3>1, <3>2
  <2> QED
    BY <2>2, <2>3
<1>2. Events(s) \in Seq(Event)
  BY <1>1 DEF Events
<1>3. \A e \in Event : e.by \in Mutator /\ e.version \in Nat
  BY DEF Event
<1> QED
  BY <1>2, <1>3

\* A step that leaves the events, the versions and the loops alone, or only
\* ends a loop, keeps what is said about events.
LEMMA SameEvents ==
    ASSUME BIInv, BTypeOK',
           stored' = stored, version' = version,
           \A s \in Stream : Events(s)' = Events(s),
           \A m \in Mutator : /\ mpc'[m] = "written" => mpc[m] = "written"
                              /\ targets'[m] # targets[m] => mpc[m] = "written"
    PROVE  Told' /\ EventsWereStored'
<1>1. \A s \in Stream, m \in Mutator :
          mpc'[m] = "written" \/ s \in targets'[m] => mpc[m] = "written" \/ s \in targets[m]
  OBVIOUS
<1>2. Told'
  BY <1>1 DEF BIInv, Told
<1>3. EventsWereStored'
  BY DEF BIInv, EventsWereStored, Events
<1> QED
  BY <1>2, <1>3

-----------------------------------------------------------------------------
(* The steps.                                                              *)

LEMMA InitHolds ==
    ASSUME MaxVersion \in Nat, BInit
    PROVE  BIInv
<1>1. BTypeOK
  <2>1. stored \in 0 .. MaxVersion /\ version \in [Mutator -> 0 .. stored]
    BY DEF BInit
  <2>2. received \in [Stream -> Seq(Event)] /\ shut \in [Stream -> 0 .. 2]
    BY DEF BInit
  <2>3. channel \in [Stream -> {<<>>} \cup {<<e>> : e \in Event}]
    BY DEF BInit
  <2> QED
    BY <2>1, <2>2, <2>3 DEF BInit, BTypeOK
<1>2. \A s \in Stream : DOMAIN Events(s) = {}
  BY DEF BInit, Events
<1>3. Told /\ EventsWereStored
  BY <1>2 DEF Told, EventsWereStored, Events
<1> QED
  BY <1>1, <1>3 DEF BInit, BIInv, LockKept, HasWritten

\* The write lock is taken while nobody publishes: subscribing, the end of a
\* context, unsubscribing and Close leave the events and the mutations alone.
LEMMA LockedHolds ==
    ASSUME BIInv,
           \/ \E s \in Stream : Subscribe(s) \/ Unsubscribe(s)
           \/ \E S \in SUBSET Stream : ContextsDone(S)
           \/ Close
    PROVE  BIInv'
<1>1. UNCHANGED <<mutVars, received, channel>>
  BY DEF Subscribe, Unsubscribe, ContextsDone, Close, mutVars
<1>2. BTypeOK'
  <2>1. /\ subs' \subseteq watching' /\ watching' \subseteq Stream
        /\ closed' \in BOOLEAN /\ done' \subseteq Stream
    BY DEF BIInv, BTypeOK, Subscribe, Unsubscribe, ContextsDone, Close
  <2>2. shut' \in [Stream -> 0 .. 2] /\ panicked' \in BOOLEAN
    <3>1. \A s \in Stream : shut[s] \in 0 .. 2 /\ (shut[s] < 2 => shut[s] + 1 \in 0 .. 2)
      BY DEF BIInv, BTypeOK
    <3>2. ASSUME NEW S, Shut(S) PROVE shut' \in [Stream -> 0 .. 2] /\ panicked' \in BOOLEAN
      BY <3>1, <3>2 DEF Shut, BIInv, BTypeOK
    <3>3. (\E S : Shut(S)) \/ (shut' = shut /\ panicked' = panicked)
      BY DEF Subscribe, Unsubscribe, ContextsDone, Close
    <3> QED
      BY <3>2, <3>3 DEF BIInv, BTypeOK
  <2> QED
    BY <1>1, <2>1, <2>2 DEF BIInv, BTypeOK, mutVars
<1>3. LockKept'
  <2>1. CASE \E s \in Stream : Subscribe(s)
    BY <1>1, <2>1 DEF BIInv, BTypeOK, LockKept, Subscribe, Unread, mutVars
  <2>2. CASE \E s \in Stream : Unsubscribe(s)
    BY <1>1, <2>2 DEF BIInv, BTypeOK, LockKept, Unsubscribe, Unread, Shut, mutVars
  <2>3. CASE \E S \in SUBSET Stream : ContextsDone(S)
    BY <1>1, <2>3 DEF BIInv, LockKept, ContextsDone, mutVars
  <2>4. CASE Close
    BY <1>1, <2>4 DEF BIInv, BTypeOK, LockKept, Close, Unread, Shut, mutVars
  <2> QED
    BY <2>1, <2>2, <2>3, <2>4
<1>4. HasWritten'
  BY <1>1 DEF BIInv, HasWritten, mutVars
<1>5. Told' /\ EventsWereStored'
  BY <1>1, <1>2, SameEvents DEF mutVars, Events
<1> QED
  BY <1>2, <1>3, <1>4, <1>5 DEF BIInv

LEMMA ReceiveHolds ==
    ASSUME BIInv, NEW s \in Stream, Receive(s)
    PROVE  BIInv'
<1>1. received \in [Stream -> Seq(Event)]
  BY DEF BIInv, BTypeOK
<1>2. PICK e \in Event : channel[s] = <<e>>
  BY DEF BIInv, BTypeOK, Receive
<1>3. /\ channel' = [channel EXCEPT ![s] = <<>>]
      /\ received' = [received EXCEPT ![s] = Append(@, e)]
      /\ UNCHANGED <<subs, closed, done, watching, shut, panicked, stored, mpc, version, targets>>
  BY <1>1, <1>2, EventSequence DEF Receive, mutVars
<1>4. BTypeOK'
  BY <1>1, <1>3 DEF BIInv, BTypeOK
<1>5. \A t \in Stream : Events(t)' = Events(t)
  <2> SUFFICES ASSUME NEW t \in Stream PROVE Events(t)' = Events(t)
    OBVIOUS
  <2>1. CASE t = s
    <3>1. received'[s] = Append(received[s], e) /\ channel'[s] = <<>>
      BY <1>1, <1>3 DEF BIInv, BTypeOK
    <3>2. Append(received[s], e) \o <<>> = received[s] \o <<e>>
      BY <1>1, EventSequence
    <3> QED
      BY <1>2, <2>1, <3>1, <3>2 DEF Events
  <2>2. CASE t # s
    BY <1>1, <1>3, <2>2 DEF BIInv, BTypeOK, Events
  <2> QED
    BY <2>1, <2>2
<1>6. Told' /\ EventsWereStored'
  BY <1>3, <1>4, <1>5, SameEvents
<1>7. LockKept' /\ HasWritten'
  BY <1>3 DEF BIInv, LockKept, HasWritten
<1> QED
  BY <1>4, <1>6, <1>7 DEF BIInv

\* A mutation that has written names a version above all that was told.
LEMMA WriteHolds ==
    ASSUME BIInv, NEW m \in Mutator, Write(m)
    PROVE  BIInv'
<1>1. /\ stored \in Nat /\ stored' = stored + 1
      /\ version' = [version EXCEPT ![m] = stored + 1]
      /\ version \in [Mutator -> Nat] /\ version[m] <= stored
      /\ mpc[m] = "idle" /\ mpc' = [mpc EXCEPT ![m] = "written"]
      /\ UNCHANGED <<busVars, targets, received>>
  BY DEF Write, BIInv, BTypeOK
<1>2. BTypeOK'
  BY DEF BIInv, BTypeOK, Write, busVars
<1>3. LockKept' /\ HasWritten'
  BY <1>1 DEF BIInv, BTypeOK, LockKept, HasWritten, busVars
<1>4. \A s \in Stream : Events(s)' = Events(s)
  BY <1>1 DEF Events, busVars
<1>5. \A s \in Stream : \A i \in DOMAIN Events(s) :
          Events(s)[i].version \in Nat /\ Events(s)[i].version <= stored
  BY EventsType DEF BIInv, EventsWereStored, Events
<1>6. Told'
  <2> SUFFICES ASSUME NEW s \in Stream, NEW i \in DOMAIN Events(s), NEW n \in Mutator,
                      Events(s)[i].by = n
               PROVE  /\ Events(s)[i].version <= version'[n]
                      /\ mpc'[n] = "written" \/ s \in targets'[n]
                            => Events(s)[i].version < version'[n]
    BY <1>4 DEF Told
  <2>1. CASE n = m
    BY <1>1, <1>5, <2>1
  <2>2. CASE n # m
    BY <1>1, <2>2 DEF BIInv, BTypeOK, Told
  <2> QED
    BY <2>1, <2>2
<1>7. EventsWereStored'
  <2>1. \A s \in Stream : \A i \in DOMAIN Events(s) : Events(s)[i].version <= stored'
    BY <1>1, <1>5
  <2> QED
    BY <1>4, <2>1 DEF BIInv, EventsWereStored, Events
<1> QED
  BY <1>2, <1>3, <1>6, <1>7 DEF BIInv

\* The loop of Publish begins or ends.
LEMMA PublishHolds ==
    ASSUME BIInv, NEW m \in Mutator, PublishEnter(m) \/ PublishReturns(m)
    PROVE  BIInv'
<1>1. UNCHANGED <<busVars, stored, version, received>>
  BY DEF PublishEnter, PublishReturns
<1>2. BTypeOK'
  BY <1>1 DEF BIInv, BTypeOK, PublishEnter, PublishReturns, busVars
<1>3. LockKept'
  BY <1>1 DEF BIInv, BTypeOK, LockKept, PublishEnter, PublishReturns, busVars
<1>4. HasWritten'
  BY <1>1 DEF BIInv, BTypeOK, HasWritten, PublishEnter, PublishReturns
<1>5. \A n \in Mutator : /\ mpc'[n] = "written" => mpc[n] = "written"
                         /\ targets'[n] # targets[n] => mpc[n] = "written"
  BY DEF BIInv, BTypeOK, PublishEnter, PublishReturns
<1>6. \A s \in Stream : Events(s)' = Events(s)
  BY <1>1 DEF Events, busVars
<1>7. Told' /\ EventsWereStored'
  BY <1>1, <1>2, <1>5, <1>6, SameEvents
<1> QED
  BY <1>2, <1>3, <1>4, <1>7 DEF BIInv

\* An event that is sent comes after everything the subscriber was told by
\* the mutation; one that is dropped changes nothing for anybody.
LEMMA SendHolds ==
    ASSUME BIInv, NEW m \in Mutator, NEW s \in Stream, Send(m, s)
    PROVE  BIInv'
<1> DEFINE e == [by |-> m, version |-> version[m]]
<1>1. /\ mpc[m] = "publish" /\ s \in targets[m]
      /\ targets' = [targets EXCEPT ![m] = @ \ {s}]
      /\ panicked' = (panicked \/ shut[s] > 0)
      /\ channel' = [channel EXCEPT ![s] = IF @ = <<>> THEN <<e>> ELSE @]
      /\ UNCHANGED <<subs, closed, done, watching, shut, stored, mpc, version, received>>
  BY DEF Send
<1>2. /\ e \in Event /\ e.by = m /\ e.version = version[m]
      /\ version[m] \in Nat /\ version[m] <= stored
  <2>1. version[m] \in 0 .. stored /\ stored \in 0 .. MaxVersion /\ version[m] # 0
    BY <1>1 DEF BIInv, BTypeOK, HasWritten
  <2>2. version[m] \in 1 .. MaxVersion /\ version[m] \in Nat /\ version[m] <= stored
    BY <2>1 DEF BIInv
  <2> QED
    BY <2>2 DEF Event
<1>3. shut[s] = 0
  BY <1>1 DEF BIInv, LockKept
<1> HIDE DEF e
<1>4. BTypeOK'
  <2>1. channel' \in [Stream -> {<<>>} \cup {<<x>> : x \in Event}]
    BY <1>1, <1>2 DEF BIInv, BTypeOK
  <2>2. targets' \in [Mutator -> SUBSET Stream] /\ panicked' \in BOOLEAN
    BY <1>1 DEF BIInv, BTypeOK
  <2> QED
    BY <1>1, <2>1, <2>2 DEF BIInv, BTypeOK
<1>5. LockKept' /\ HasWritten'
  BY <1>1, <1>3 DEF BIInv, BTypeOK, LockKept, HasWritten
<1>6. \A t \in Stream : t # s \/ channel[s] # <<>> => Events(t)' = Events(t)
  BY <1>1 DEF BIInv, BTypeOK, Events
<1>7. channel[s] = <<>> =>
         /\ Events(s) = received[s] /\ Events(s)' = Append(received[s], e)
         /\ received[s] \in Seq(Event)
  BY <1>1, <1>2, EventSequence DEF BIInv, BTypeOK, Events
\* what the subscriber was told before is below the version of this mutation
<1>8. \A t \in Stream, n \in Mutator : t \in targets'[n] => t \in targets[n] /\ ~(t = s /\ n = m)
  BY <1>1 DEF BIInv, BTypeOK
<1>9. ASSUME NEW t \in Stream, NEW i \in DOMAIN Events(t)'
      PROVE  \/ i \in DOMAIN Events(t) /\ Events(t)'[i] = Events(t)[i]
             \/ /\ t = s /\ Events(t)'[i] = e
                /\ \A j \in DOMAIN Events(s)' : j < i => j \in DOMAIN Events(s)
                /\ \A j \in DOMAIN Events(s)' : j <= i
  <2>1. CASE t # s \/ channel[s] # <<>>
    BY <1>6, <1>9, <2>1
  <2>2. CASE t = s /\ channel[s] = <<>>
    BY <1>7, <1>9, <2>2
  <2> QED
    BY <2>1, <2>2
<1>10. Told'
  <2> SUFFICES ASSUME NEW t \in Stream, NEW i \in DOMAIN Events(t)', NEW n \in Mutator,
                      Events(t)'[i].by = n
               PROVE  /\ Events(t)'[i].version <= version[n]
                      /\ mpc[n] = "written" \/ t \in targets'[n]
                            => Events(t)'[i].version < version[n]
    BY <1>1 DEF Told
  <2>1. CASE i \in DOMAIN Events(t) /\ Events(t)'[i] = Events(t)[i]
    BY <1>8, <2>1 DEF BIInv, Told
  <2>2. CASE t = s /\ Events(t)'[i] = e
    BY <1>1, <1>2, <1>8, <2>2
  <2> QED
    BY <1>9, <2>1, <2>2
<1>11. EventsWereStored'
  <2>1. \A t \in Stream : \A i \in DOMAIN Events(t)' : Events(t)'[i].version <= stored
    BY <1>2, <1>9 DEF BIInv, EventsWereStored, Events
  <2>2. ASSUME NEW t \in Stream, NEW i \in DOMAIN Events(t)', NEW j \in DOMAIN Events(t)',
               i < j, Events(t)'[i].by = Events(t)'[j].by
        PROVE  Events(t)'[i].version < Events(t)'[j].version
    <3>1. CASE t # s \/ channel[s] # <<>>
      BY <1>6, <2>2, <3>1 DEF BIInv, EventsWereStored, Events
    <3>2. CASE t = s /\ channel[s] = <<>>
      <4>1. /\ Len(received[s]) \in Nat
            /\ DOMAIN Events(s) = 1 .. Len(received[s])
            /\ DOMAIN Events(s)' = 1 .. Len(received[s]) + 1
            /\ Events(s)'[Len(received[s]) + 1] = e
            /\ \A k \in DOMAIN Events(s) : Events(s)'[k] = Events(s)[k]
        BY <1>7, <1>2, <3>2
      <4>2. i \in DOMAIN Events(s) /\ Events(s)'[i] = Events(s)[i]
        BY <2>2, <3>2, <4>1
      <4>3. CASE j \in DOMAIN Events(s)
        BY <2>2, <3>2, <4>1, <4>2, <4>3 DEF BIInv, EventsWereStored, Events
      <4>4. CASE j = Len(received[s]) + 1
        BY <1>1, <1>2, <2>2, <3>2, <4>1, <4>2, <4>4 DEF BIInv, Told
      <4> QED
        BY <2>2, <3>2, <4>1, <4>3, <4>4
    <3> QED
      BY <3>1, <3>2
  <2>3. stored' = stored
    BY <1>1
  <2> HIDE DEF e
  <2> QED
    BY <2>1, <2>2, <2>3, Zenon DEF EventsWereStored, Events
<1> QED
  BY <1>4, <1>5, <1>10, <1>11 DEF BIInv

LEMMA NextHolds == BIInv /\ [BNext]_bvars => BIInv'
<1> SUFFICES ASSUME BIInv, [BNext]_bvars PROVE BIInv'
  OBVIOUS
<1>1. CASE \/ \E s \in Stream : Subscribe(s) \/ Unsubscribe(s)
           \/ \E S \in SUBSET Stream : ContextsDone(S)
           \/ Close
  BY <1>1, LockedHolds
<1>2. CASE \E s \in Stream : Receive(s)
  BY <1>2, ReceiveHolds
<1>3. CASE \E m \in Mutator : Write(m)
  BY <1>3, WriteHolds
<1>4. CASE \E m \in Mutator : MutatorStep(m)
  BY <1>4, PublishHolds, SendHolds DEF MutatorStep
<1>5. CASE UNCHANGED bvars
  <2>1. BTypeOK' /\ LockKept' /\ HasWritten'
    BY <1>5 DEF BIInv, BTypeOK, LockKept, HasWritten, Event, bvars, busVars, mutVars
  <2>2. UNCHANGED <<stored, mpc, version, targets>> /\ \A s \in Stream : Events(s)' = Events(s)
    BY <1>5 DEF Events, bvars, busVars, mutVars
  <2>3. Told' /\ EventsWereStored'
    BY <2>1, <2>2, SameEvents
  <2> QED
    BY <2>1, <2>3 DEF BIInv
<1> QED
  BY <1>1, <1>2, <1>3, <1>4, <1>5 DEF BNext

-----------------------------------------------------------------------------
(* Theorems.                                                               *)

\* Subscribe, Unsubscribe, Publish and Close keep the tables of the bus together:
\* what is subscribed is watched, open and not shut.
THEOREM BusInvariant ==
    ASSUME MaxVersion \in Nat
    PROVE  BSpec => []BIInv
<1>1. BInit => BIInv
  BY InitHolds
<1> QED
  BY <1>1, NextHolds, PTL DEF BSpec

\* Publish sends on no closed channel and Unsubscribe closes none a second
\* time, for any number of subscriptions and mutations, until Close.
THEOREM NoPanicBeforeClose ==
    ASSUME MaxVersion \in Nat
    PROVE  BSpec => []PanicsOnlyAfterClose
<1>1. BIInv => PanicsOnlyAfterClose
  BY DEF BIInv, LockKept, PanicsOnlyAfterClose
<1> QED
  BY BusInvariant, <1>1, PTL

\* What subscribers are told was stored before, and in the order of each
\* mutating request.
THEOREM ToldWhatWasStored ==
    ASSUME MaxVersion \in Nat
    PROVE  BSpec => []EventsWereStored
<1>1. BIInv => EventsWereStored
  BY DEF BIInv
<1> QED
  BY BusInvariant, <1>1, PTL

=============================================================================
