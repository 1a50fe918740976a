-------------------------- MODULE SchemaRefreshProofs --------------------------
(***************************************************************************)
(* Theorems about SchemaRefresh, for any publishers, goroutines, resources *)
(* and files: each component is used as its own module describes it, so    *)
(* what is proved of the two holds here; and what is on disk when nothing  *)
(* is in flight.                                                           *)
(***************************************************************************)
EXTENDS SchemaRefresh, TLAPS

RegistryProofs == INSTANCE SchemaRegistryProofs
    WITH Client <- Publisher \cup Goroutine, Listener <- {Refresh},
         Reentrant <- {}, Unencodable <- {}, pc <- cpc

RefresherProofs == INSTANCE RefresherProofs WITH Caller <- Publisher, pc <- gpc

-----------------------------------------------------------------------------
(* What a step does to the two components.                                 *)

LEMMA RegistryStep == [SNext]_svars => [Registry!RNext]_(Registry!rvars)
<1> SUFFICES ASSUME [SNext]_svars PROVE [Registry!RNext]_(Registry!rvars)
  OBVIOUS
<1>1. UNCHANGED registryVars => UNCHANGED Registry!rvars
  BY DEF registryVars, Registry!rvars
<1>2. CASE UNCHANGED svars
  BY <1>1, <1>2 DEF svars
<1>3. ASSUME NEW c \in Publisher, Publish(c) PROVE Registry!RNext
  BY <1>3 DEF Publish, Registry!RNext
<1>4. ASSUME NEW c \in Publisher, RegisterSchemaRefresh(c) PROVE Registry!RNext
  BY <1>4 DEF RegisterSchemaRefresh, Registry!RNext
<1>5. ASSUME NEW c \in Publisher, PublisherStep(c)
      PROVE  Registry!RNext \/ UNCHANGED registryVars
  BY <1>5 DEF PublisherStep, TakeLock, TriggerStart, TriggerEnd, ReleaseLock,
              Registry!RNext, Registry!InCall
<1>6. CASE Schedule
  BY <1>1, <1>6 DEF Schedule
<1>7. ASSUME NEW g \in Goroutine, GoroutineStep(g)
      PROVE  Registry!RNext \/ UNCHANGED registryVars
  BY <1>7 DEF GoroutineStep, Step, LoadSchemas, WriteFile, GenerateSucceeds, GenerateFails,
              Registry!RNext
<1> QED
  BY <1>1, <1>2, <1>3, <1>4, <1>5, <1>6, <1>7 DEF SNext

LEMMA RefresherStep == [SNext]_svars => [Refresher!Next]_(Refresher!vars)
<1> SUFFICES ASSUME [SNext]_svars PROVE [Refresher!Next]_(Refresher!vars)
  OBVIOUS
<1>1. UNCHANGED refresherVars => UNCHANGED Refresher!vars
  BY DEF refresherVars, Refresher!vars
<1>2. CASE UNCHANGED svars
  BY <1>1, <1>2 DEF svars
<1>3. ASSUME NEW c \in Publisher, Publish(c) \/ RegisterSchemaRefresh(c) \/ PublisherStep(c)
      PROVE  Refresher!Next \/ UNCHANGED refresherVars
  BY <1>3 DEF Publish, RegisterSchemaRefresh, PublisherStep, TakeLock, TriggerStart,
              TriggerEnd, ReleaseLock, Refresher!Next
<1>4. CASE Schedule
  BY <1>4 DEF Schedule, Refresher!Next
<1>5. ASSUME NEW g \in Goroutine, GoroutineStep(g)
      PROVE  Refresher!Next \/ UNCHANGED refresherVars
  BY <1>5 DEF GoroutineStep, Step, LoadSchemas, WriteFile, GenerateSucceeds, GenerateFails,
              Refresher!Next, Refresher!GoroutineStep
<1> QED
  BY <1>1, <1>2, <1>3, <1>4, <1>5 DEF SNext

\* The publishers, Trigger and the generator use the registry as SchemaRegistry
\* describes it.
THEOREM UsesTheRegistry == SSpec => Registry!RSpec
<1>1. SInit => Registry!RInit
  BY DEF SInit
<1> QED
  BY <1>1, RegistryStep, PTL DEF SSpec, Registry!RSpec

\* Called under the lock of the registry, Trigger is still the one of Refresher,
\* and so is what it starts.
THEOREM UsesTheRefresher == SSpec => Refresher!Spec
<1>1. SInit => Refresher!Init
  BY DEF SInit
<1> QED
  BY <1>1, RefresherStep, PTL DEF SSpec, Refresher!Spec

-----------------------------------------------------------------------------
(* What the components' own theorems say here.                             *)

LEMMA SameRegistry == Registry!RSpec => RegistryProofs!RSpec
<1>1. Registry!RInit => RegistryProofs!RInit
  BY DEF Registry!RInit, RegistryProofs!RInit
<1>2. [Registry!RNext]_(Registry!rvars) => [RegistryProofs!RNext]_(RegistryProofs!rvars)
  BY DEF
      Registry!RNext, Registry!rvars, Registry!InCall, Registry!RegisterSchemaEntry,
      Registry!RegisterSchemaListener, Registry!Registered, Registry!Upsert, Registry!Notify,
      Registry!UpsertReturns, Registry!AddListener, Registry!ListSchemas, Registry!Cloned,
      RegistryProofs!RNext, RegistryProofs!rvars, RegistryProofs!InCall,
      RegistryProofs!RegisterSchemaEntry, RegistryProofs!RegisterSchemaListener,
      RegistryProofs!Registered, RegistryProofs!Upsert, RegistryProofs!Notify,
      RegistryProofs!UpsertReturns, RegistryProofs!AddListener, RegistryProofs!ListSchemas,
      RegistryProofs!Cloned
<1> QED
  BY <1>1, <1>2, PTL DEF Registry!RSpec, RegistryProofs!RSpec

LEMMA RegistryTypes == SSpec => []Registry!RTypeOK
<1>1. RegistryProofs!RSpec => []RegistryProofs!RTypeOK
  BY GeneratorAssumption, RegistryProofs!TypeCorrect DEF RegistryProofs!RegistryAssumption
<1>2. RegistryProofs!RTypeOK => Registry!RTypeOK
  BY DEF RegistryProofs!RTypeOK, Registry!RTypeOK, RegistryProofs!Entries, Registry!Entries,
         RegistryProofs!Stored, Registry!Stored
<1> QED
  BY <1>1, <1>2, SameRegistry, UsesTheRegistry, PTL

LEMMA SameRefresher == Refresher!Spec => RefresherProofs!Spec
<1>1. Refresher!Init => RefresherProofs!Init
  BY DEF Refresher!Init, RefresherProofs!Init
<1>2. [Refresher!Next]_(Refresher!vars) => [RefresherProofs!Next]_(RefresherProofs!vars)
  BY DEF
      Refresher!Next, Refresher!vars, Refresher!Cancel, Refresher!TriggerEnter,
      Refresher!TriggerLocked, Refresher!TriggerDebounced, Refresher!TriggerPending,
      Refresher!TriggerRun, Refresher!TimerElapses, Refresher!TimerFires,
      Refresher!GoroutineStep, Refresher!FlushEnter, Refresher!FlushPending,
      Refresher!FlushRun, Refresher!RunEnter, Refresher!GeneratorReads,
      Refresher!GeneratorReturns, Refresher!FinishAgain, Refresher!FinishIdle,
      RefresherProofs!Next, RefresherProofs!vars, RefresherProofs!Cancel,
      RefresherProofs!TriggerEnter, RefresherProofs!TriggerLocked,
      RefresherProofs!TriggerDebounced, RefresherProofs!TriggerPending,
      RefresherProofs!TriggerRun, RefresherProofs!TimerElapses, RefresherProofs!TimerFires,
      RefresherProofs!GoroutineStep, RefresherProofs!FlushEnter,
      RefresherProofs!FlushPending, RefresherProofs!FlushRun, RefresherProofs!RunEnter,
      RefresherProofs!GeneratorReads, RefresherProofs!GeneratorReturns,
      RefresherProofs!FinishAgain, RefresherProofs!FinishIdle
<1> QED
  BY <1>1, <1>2, PTL DEF Refresher!Spec, RefresherProofs!Spec

LEMMA RefresherHolds ==
    SSpec => [](Refresher!TypeOK /\ Refresher!RunningHasOneOwner /\ Refresher!NoLostTrigger)
<1>1. RefresherProofs!Spec =>
        [](RefresherProofs!TypeOK /\ RefresherProofs!RunningHasOneOwner
           /\ RefresherProofs!NoLostTrigger)
  BY GeneratorAssumption, RefresherProofs!TypeCorrect, RefresherProofs!OneOwner,
     RefresherProofs!TriggersSurvive, PTL DEF RefresherProofs!RefresherAssumption
<1>2. RefresherProofs!TypeOK => Refresher!TypeOK
  BY DEF RefresherProofs!TypeOK, Refresher!TypeOK, RefresherProofs!RunPoints,
         Refresher!RunPoints
<1>3. RefresherProofs!RunningHasOneOwner => Refresher!RunningHasOneOwner
  BY DEF RefresherProofs!RunningHasOneOwner, Refresher!RunningHasOneOwner,
         RefresherProofs!Owners, Refresher!Owners, RefresherProofs!RunPoints,
         Refresher!RunPoints
<1>4. RefresherProofs!NoLostTrigger => Refresher!NoLostTrigger
  BY DEF RefresherProofs!NoLostTrigger, Refresher!NoLostTrigger,
         RefresherProofs!WakeupInFlight, Refresher!WakeupInFlight
<1> QED
  BY <1>1, <1>2, <1>3, <1>4, SameRefresher, UsesTheRefresher, PTL

\* Registry, refresher and generator together keep the promise of either: an
\* entry is announced to Trigger before anybody can read it, and the runs that
\* this starts come one at a time and end with the context.
THEOREM KeepsBothContracts ==
    SSpec => RegistryProofs!KeepsContract /\ RefresherProofs!ImplementsContract
<1>1. RegistryProofs!RSpec => RegistryProofs!KeepsContract
  BY GeneratorAssumption, RegistryProofs!Refinement DEF RegistryProofs!RegistryAssumption
<1>2. RefresherProofs!Spec => RefresherProofs!ImplementsContract
  BY GeneratorAssumption, RefresherProofs!Refinement DEF RefresherProofs!RefresherAssumption
<1> QED
  BY <1>1, <1>2, SameRegistry, SameRefresher, UsesTheRegistry, UsesTheRefresher, PTL

\* What the two components bring.
Below ==
    /\ Registry!RTypeOK
    /\ Refresher!TypeOK
    /\ Refresher!RunningHasOneOwner
    /\ Refresher!NoLostTrigger

LEMMA BelowHolds == SSpec => []Below
BY RegistryTypes, RefresherHolds, PTL DEF Below

-----------------------------------------------------------------------------
(* What has been announced.                                                *)

\* Without the listener nothing is ever started.
Quiet ==
    listeners = <<>> =>
        /\ lastRead = NotGenerated
        /\ timer = "off"
        /\ \A c \in Publisher : trig[c] = "idle" /\ todo[c] = <<>>
        /\ \A g \in Goroutine : gpc[g] = "none"

\* Whoever is inside Trigger holds the registry's lock, so nothing has been read
\* since it came in.
Locked == \A c \in Publisher : trig[c] # "idle" => writer = c /\ todo[c] # <<>> /\ dirty

\* What the last run has not read is announced, or about to be.
Caught ==
    \/ lastRead \in {entries, NotGenerated}
    \/ dirty
    \/ \E c \in Publisher : cpc[c] = "notify" /\ todo[c] # <<>>

Announced == Quiet /\ Locked /\ Caught

LEMMA AnnouncedInit == SInit => Announced
BY DEF SInit, Registry!RInit, Refresher!Init, Announced, Quiet, Locked, Caught

\* Steps that touch neither the registry nor the history.
LEMMA SteadyAnnounced ==
    ASSUME Below, Announced, UNCHANGED <<entries, listeners, writer, todo, lastRead>>,
           dirty' = dirty, trig' = trig,
           \A c \in Publisher : cpc[c] = "notify" /\ todo[c] # <<>> => cpc'[c] = "notify",
           listeners = <<>> => timer' = "off" /\ \A g \in Goroutine : gpc'[g] = "none"
    PROVE  Announced'
<1>1. Quiet' /\ Locked'
  BY DEF Announced, Quiet, Locked
<1>2. Caught'
  BY DEF Announced, Caught
<1> QED
  BY <1>1, <1>2 DEF Announced

\* An entry is stored with its listeners still to be called; a listener is added.
LEMMA TakeLockAnnounced ==
    ASSUME Below, Announced, NEW c \in Publisher, TakeLock(c)
    PROVE  Announced'
<1> USE DEF Below, Registry!RTypeOK
<1>1. /\ UNCHANGED <<timer, trig, gpc, dirty, lastRead>>
      /\ writer = NoClient
      /\ \A b \in Publisher : trig[b] = "idle"
  BY GeneratorAssumption DEF TakeLock, refresherVars, outputVars, Announced, Locked,
     Registry!Upsert, Registry!AddListener
<1>2. CASE Registry!Upsert(c)
  <2>1. /\ UNCHANGED listeners
        /\ todo'[c] = listeners /\ cpc'[c] = "notify"
        /\ \A b \in Publisher \ {c} : todo'[b] = todo[b]
    BY <1>2 DEF Registry!Upsert
  <2>2. Quiet' /\ Locked'
    BY <1>1, <2>1 DEF Announced, Quiet, Locked
  <2>3. Caught'
    BY <1>1, <2>1 DEF Announced, Quiet, Caught
  <2> QED
    BY <2>2, <2>3 DEF Announced
<1>3. CASE Registry!AddListener(c)
  <2>1. listeners' # <<>> /\ UNCHANGED <<entries, writer, todo>>
    <3>1. listeners \in Seq({Refresh, arg[c]})
      OBVIOUS
    <3>2. listeners' = Append(listeners, arg[c]) /\ arg[c] \in {Refresh, arg[c]}
      BY <1>3 DEF Registry!AddListener
    <3>3. Append(listeners, arg[c]) # <<>>
      BY <3>1, <3>2
    <3> QED
      BY <1>3, <3>2, <3>3 DEF Registry!AddListener
  <2>2. \A b \in Publisher : cpc[b] = "notify" => cpc'[b] = "notify"
    BY <1>3 DEF Registry!AddListener
  <2>3. Quiet' /\ Locked' /\ Caught'
    BY <1>1, <2>1, <2>2 DEF Announced, Quiet, Locked, Caught
  <2> QED
    BY <2>3 DEF Announced
<1> QED
  BY <1>2, <1>3 DEF TakeLock

\* The change that Trigger was called for is noted before Trigger looks.
LEMMA TriggerAnnounced ==
    ASSUME Below, Below', Announced, NEW c \in Publisher, TriggerStart(c) \/ TriggerEnd(c)
    PROVE  Announced'
<1> USE DEF Below, Registry!RTypeOK, Refresher!TypeOK
<1>1. /\ UNCHANGED <<entries, listeners, writer, cpc, lastRead>>
      /\ todo[c] # <<>> /\ cpc[c] = "notify" /\ writer = c
      /\ \A b \in Publisher \ {c} : todo'[b] = todo[b]
  BY DEF TriggerStart, TriggerEnd, Registry!Notify, registryVars, outputVars
<1>2. listeners # <<>>
  BY <1>1 DEF Announced, Quiet
<1>3. /\ dirty'
      /\ \A b \in Publisher \ {c} : trig'[b] = trig[b]
      /\ trig'[c] # "idle" => todo'[c] = todo[c]
  <2>1. CASE TriggerStart(c)
    BY <2>1 DEF TriggerStart, Refresher!TriggerEnter, registryVars
  <2>2. CASE TriggerEnd(c)
    <3>1. trig[c] = "lock" /\ trig' = [trig EXCEPT ![c] = "idle"] /\ dirty' = dirty
      BY <2>2 DEF TriggerEnd, Refresher!TriggerLocked, Refresher!TriggerDebounced,
                  Refresher!TriggerPending, Refresher!TriggerRun
    <3> QED
      BY <3>1 DEF Announced, Locked
  <2> QED
    BY <2>1, <2>2
<1>4. Quiet' /\ Locked' /\ Caught'
  BY <1>1, <1>2, <1>3 DEF Announced, Quiet, Locked, Caught
<1> QED
  BY <1>4 DEF Announced

\* A run that reads the registry has all there is, and nobody is inside Trigger.
LEMMA LoadSchemasAnnounced ==
    ASSUME Below, Announced, NEW g \in Goroutine, LoadSchemas(g)
    PROVE  Announced'
<1>1. /\ UNCHANGED <<entries, listeners, writer, trig, todo, timer>>
      /\ lastRead' = entries /\ writer = NoClient /\ gpc[g] = "call"
  BY DEF LoadSchemas, Refresher!GeneratorReads, Registry!ListSchemas
<1>2. listeners # <<>>
  BY <1>1 DEF Announced, Quiet
<1>3. Quiet' /\ Locked' /\ Caught'
  BY <1>1, <1>2, GeneratorAssumption DEF Announced, Quiet, Locked, Caught
<1> QED
  BY <1>3 DEF Announced

LEMMA AnnouncedStep ==
    ASSUME Below, Below', Announced, [SNext]_svars
    PROVE  Announced'
<1> USE DEF Below, Registry!RTypeOK, Refresher!TypeOK
<1>1. CASE UNCHANGED svars
  BY <1>1, SteadyAnnounced DEF svars, registryVars, refresherVars, outputVars, Announced, Quiet
<1>2. ASSUME NEW c \in Publisher, Publish(c) \/ RegisterSchemaRefresh(c) \/ ReleaseLock(c)
      PROVE  Announced'
  <2>1. /\ UNCHANGED <<entries, listeners, todo, refresherVars, lastRead>>
        /\ \A b \in Publisher : cpc[b] = "notify" /\ todo[b] # <<>> => cpc'[b] = "notify"
    BY <1>2 DEF Publish, RegisterSchemaRefresh, ReleaseLock, outputVars,
       Registry!RegisterSchemaEntry, Registry!RegisterSchemaListener, Registry!UpsertReturns
  <2>2. writer' = writer \/ (writer = c /\ todo[c] = <<>>)
    BY <1>2 DEF Publish, RegisterSchemaRefresh, ReleaseLock,
       Registry!RegisterSchemaEntry, Registry!RegisterSchemaListener, Registry!UpsertReturns
  <2>3. Quiet' /\ Caught'
    BY <2>1 DEF Announced, Quiet, Caught, refresherVars
  <2>4. Locked'
    BY <2>1, <2>2 DEF Announced, Locked, refresherVars
  <2> QED
    BY <2>3, <2>4 DEF Announced
<1>3. ASSUME NEW c \in Publisher, PublisherStep(c) PROVE Announced'
  BY <1>2, <1>3, TakeLockAnnounced, TriggerAnnounced DEF PublisherStep
<1>4. CASE Schedule
  <2>1. /\ UNCHANGED <<registryVars, outputVars, dirty, trig>>
        /\ listeners = <<>> => timer' = "off" /\ \A g \in Goroutine : gpc'[g] = "none"
    BY <1>4 DEF Schedule, Refresher!Cancel, Refresher!TimerElapses, Refresher!TimerFires,
       Announced, Quiet
  <2> QED
    BY <2>1, SteadyAnnounced DEF registryVars, outputVars
<1>5. ASSUME NEW g \in Goroutine, Step(g) PROVE Announced'
  <2>1. /\ UNCHANGED <<registryVars, outputVars, dirty, trig, timer>>
        /\ gpc[g] # "none"
    BY <1>5 DEF Step, Refresher!FlushEnter, Refresher!FlushPending, Refresher!FlushRun,
       Refresher!RunEnter, Refresher!FinishAgain, Refresher!FinishIdle
  <2>2. listeners # <<>>
    BY <2>1 DEF Announced, Quiet
  <2> QED
    BY <2>1, <2>2, SteadyAnnounced DEF registryVars, outputVars
<1>6. ASSUME NEW g \in Goroutine, WriteFile(g) \/ GenerateSucceeds(g) \/ GenerateFails(g)
      PROVE  Announced'
  <2>1. /\ UNCHANGED <<registryVars, lastRead, dirty, trig, timer>>
        /\ gpc[g] = "generate"
    BY <1>6 DEF WriteFile, GenerateSucceeds, GenerateFails, Refresher!GeneratorReturns,
       refresherVars
  <2>2. listeners # <<>>
    BY <2>1 DEF Announced, Quiet
  <2> QED
    BY <2>1, <2>2, SteadyAnnounced DEF registryVars
<1> QED
  BY <1>1, <1>2, <1>3, <1>4, <1>5, <1>6, LoadSchemasAnnounced DEF SNext, GoroutineStep

\* At rest the last run has read the registry as it is, for any number of
\* publishers, resources and runs.
THEOREM NothingMissed == SSpec => []RestIsCurrent
<1>1. Below /\ Announced => RestIsCurrent
  <2> SUFFICES ASSUME Below, Announced, AtRest
               PROVE  ~dirty /\ lastRead \in {entries, NotGenerated}
    BY DEF RestIsCurrent
  <2>1. \A c \in Publisher : cpc[c] # "notify" /\ trig[c] # "lock"
    BY GeneratorAssumption DEF Below, Announced, Locked, AtRest, Registry!RTypeOK
  <2>2. ~running
    BY DEF Below, AtRest, Refresher!RunningHasOneOwner, Refresher!Owners, Refresher!RunPoints
  <2>3. ~dirty
    BY <2>1, <2>2 DEF Below, AtRest, Refresher!NoLostTrigger, Refresher!WakeupInFlight
  <2> QED
    BY <2>1, <2>3 DEF Announced, Caught
<1>2. Below /\ Below' /\ Announced /\ [SNext]_svars => Announced'
  BY AnnouncedStep
<1> QED
  BY <1>1, <1>2, AnnouncedInit, BelowHolds, PTL DEF SSpec

-----------------------------------------------------------------------------
(* What has been written.                                                  *)

\* The files that every run writes.
Regenerated == File \ Custom

\* The types of what the generator adds.
Histories ==
    /\ lastRead \in Readings
    /\ output = [g \in Goroutine |-> output[g]]
    /\ step \in [Goroutine -> 0 .. Len(Steps)]
    /\ files = [f \in File |-> files[f]]
    /\ failed \in BOOLEAN
    /\ \A f \in File : files[f] # NotGenerated => files[f] \in Generations(files[f].from)

\* A run has one output, of the last reading, and has written it to every
\* file it has come past.
Writing ==
    \A g \in Goroutine :
        /\ gpc[g] = "generate" <=> output[g] # NotGenerated
        /\ gpc[g] # "generate" => step[g] = 0
        /\ gpc[g] = "generate" =>
              /\ output[g] \in Generations(lastRead)
              /\ \A i \in 1 .. step[g] : Steps[i] \in Regenerated => files[Steps[i]] = output[g]

\* What a run that has succeeded leaves behind.
Written ==
    /\ \A g \in Goroutine : gpc[g] # "generate"
    /\ ~failed
    /\ lastRead # NotGenerated
    => \E s \in Generations(lastRead) : \A f \in Regenerated : files[f] = s

Produced == Histories /\ Writing /\ Written

LEMMA ProducedInit == SInit => Produced
<1> SUFFICES ASSUME SInit PROVE Produced
  OBVIOUS
<1>1. Len(Steps) \in Nat
  BY GeneratorAssumption
<1>2. Histories
  <2>1. step \in [Goroutine -> 0 .. Len(Steps)]
    BY <1>1 DEF SInit
  <2>2. \A f \in File : files[f] = NotGenerated
    BY DEF SInit
  <2>3. /\ output = [g \in Goroutine |-> output[g]]
        /\ files = [f \in File |-> files[f]]
    BY DEF SInit
  <2> QED
    BY <2>1, <2>2, <2>3 DEF SInit, Histories, Readings
<1>3. Writing
  BY DEF SInit, Refresher!Init, Writing
<1>4. Written
  BY DEF SInit, Written
<1> QED
  BY <1>2, <1>3, <1>4 DEF Produced

\* One run at a time.
LEMMA OneGenerates ==
    ASSUME Below, NEW g \in Goroutine, NEW h \in Goroutine,
           gpc[g] \in {"call", "generate"}, gpc[h] \in {"call", "generate"}
    PROVE  g = h
BY DEF Below, Refresher!RunningHasOneOwner, Refresher!Owners, Refresher!RunPoints

\* Steps between which no run begins or ends its writing.
LEMMA SteadyProduced ==
    ASSUME Produced, UNCHANGED outputVars,
           \A g \in Goroutine : gpc'[g] = "generate" <=> gpc[g] = "generate"
    PROVE  Produced'
BY DEF Produced, Histories, Writing, Written, outputVars

\* A run that has read starts with no file written.
LEMMA LoadSchemasProduced ==
    ASSUME Below, Produced, NEW g \in Goroutine, LoadSchemas(g)
    PROVE  Produced'
<1>1. /\ gpc[g] = "call" /\ gpc' = [gpc EXCEPT ![g] = "generate"]
      /\ lastRead' = entries /\ UNCHANGED <<step, files, failed>>
      /\ entries \in Registry!Entries
  BY DEF LoadSchemas, Refresher!GeneratorReads, Below, Registry!RTypeOK
<1>2. PICK s \in Generations(entries) : output' = [output EXCEPT ![g] = s]
  BY <1>1 DEF LoadSchemas
<1>3. s # NotGenerated
  BY <1>1, <1>2, GenerationAssumption
<1>4. Histories'
  BY <1>1, <1>2 DEF Produced, Histories, Readings
<1>5. /\ gpc'[g] = "generate" /\ \A h \in Goroutine : h # g => gpc'[h] = gpc[h]
      /\ step[g] = 0
  BY <1>1 DEF Below, Refresher!TypeOK, Produced, Writing
<1>6. Writing'
  <2> SUFFICES ASSUME NEW h \in Goroutine
               PROVE  /\ gpc'[h] = "generate" <=> output'[h] # NotGenerated
                      /\ gpc'[h] # "generate" => step'[h] = 0
                      /\ gpc'[h] = "generate" =>
                            /\ output'[h] \in Generations(lastRead')
                            /\ \A i \in 1 .. step'[h] :
                                  Steps[i] \in Regenerated => files'[Steps[i]] = output'[h]
    BY DEF Writing, Regenerated
  <2>1. CASE h = g
    BY <1>1, <1>2, <1>3, <1>5, <2>1 DEF Produced, Histories
  <2>2. CASE h # g
    <3>1. gpc'[h] = gpc[h] /\ output'[h] = output[h] /\ gpc[h] # "generate"
      BY <1>1, <1>2, <1>5, <2>2, OneGenerates DEF Produced, Histories
    <3> QED
      BY <1>1, <3>1 DEF Produced, Writing
  <2> QED
    BY <2>1, <2>2
<1>7. Written'
  BY <1>1, <1>5 DEF Written
<1> QED
  BY <1>4, <1>6, <1>7 DEF Produced

\* The next file is of the run's own output, and nobody else writes.
LEMMA WriteFileProduced ==
    ASSUME Below, Produced, NEW g \in Goroutine, WriteFile(g)
    PROVE  Produced'
<1> DEFINE i == step[g] + 1
           f == Steps[i]
<1>1. /\ gpc[g] = "generate" /\ UNCHANGED <<gpc, lastRead, output, failed>>
      /\ step[g] \in Nat /\ Len(Steps) \in Nat /\ step[g] < Len(Steps)
      /\ step' = [step EXCEPT ![g] = i]
      /\ f \in File
      /\ output[g] \in Generations(lastRead)
  BY GeneratorAssumption DEF WriteFile, refresherVars, Produced, Histories, Writing, File
<1>2. /\ \A e \in File \ {f} : files'[e] = files[e]
      /\ f \in Regenerated => files'[f] = output[g]
      /\ files'[f] \in {files[f], output[g]}
      /\ files' = [e \in File |-> files'[e]]
  BY <1>1 DEF WriteFile, Produced, Histories, Regenerated
<1>3. output[g].from = lastRead
  BY <1>1 DEF Generations
<1>4. Histories'
  <2>1. step' \in [Goroutine -> 0 .. Len(Steps)]
    BY <1>1 DEF Produced, Histories
  <2>2. \A e \in File : files'[e] # NotGenerated => files'[e] \in Generations(files'[e].from)
    BY <1>1, <1>2, <1>3 DEF Produced, Histories
  <2> QED
    BY <1>1, <1>2, <2>1, <2>2 DEF Produced, Histories,
                                  File, Readings
<1>5. Writing'
  <2>1. \A h \in Goroutine : h # g => gpc[h] # "generate" /\ step'[h] = step[h]
    BY <1>1, OneGenerates DEF Produced, Histories
  <2>2. step'[g] = i
    BY <1>1 DEF Produced, Histories
  <2>3. \A j \in 1 .. i : j = i \/ j \in 1 .. step[g]
    BY <1>1
  <2>4. \A j \in 1 .. i : Steps[j] \in Regenerated => files'[Steps[j]] = output[g]
    BY <1>1, <1>2, <2>3 DEF Produced, Writing, Regenerated
  <2>5. ASSUME NEW h \in Goroutine
        PROVE  /\ gpc[h] = "generate" <=> output[h] # NotGenerated
               /\ gpc[h] # "generate" => step'[h] = 0
               /\ gpc[h] = "generate" =>
                     /\ output[h] \in Generations(lastRead)
                     /\ \A j \in 1 .. step'[h] :
                           Steps[j] \in Regenerated => files'[Steps[j]] = output[h]
    <3>1. CASE h = g
      BY <1>1, <2>2, <2>4, <3>1 DEF Produced, Writing
    <3>2. CASE h # g
      BY <2>1, <3>2 DEF Produced, Writing
    <3> QED
      BY <3>1, <3>2
  <2> QED
    BY <1>1, <2>5 DEF Writing, Regenerated
<1>6. Written'
  BY <1>1 DEF Written
<1> QED
  BY <1>4, <1>5, <1>6 DEF Produced

\* A run that succeeds has come past every file.
LEMMA EndProduced ==
    ASSUME Below, Produced, NEW g \in Goroutine, GenerateSucceeds(g) \/ GenerateFails(g)
    PROVE  Produced'
<1>1. /\ gpc[g] = "generate"
      /\ output' = [output EXCEPT ![g] = NotGenerated] /\ step' = [step EXCEPT ![g] = 0]
      /\ UNCHANGED <<lastRead, files>>
      /\ failed' \in BOOLEAN
      /\ ~failed' => step[g] = Len(Steps)
  BY DEF GenerateSucceeds, GenerateFails, Refresher!GeneratorReturns
<1>2. gpc'[g] = "finish" /\ \A h \in Goroutine : h # g => gpc'[h] = gpc[h]
  BY DEF GenerateSucceeds, GenerateFails, Refresher!GeneratorReturns, Below, Refresher!TypeOK
<1>3. Len(Steps) \in Nat
  BY GeneratorAssumption
<1>4. Histories'
  <2>1. step' \in [Goroutine -> 0 .. Len(Steps)]
    BY <1>1, <1>3 DEF Produced, Histories
  <2>2. output' = [h \in Goroutine |-> output'[h]]
    BY <1>1 DEF Produced, Histories
  <2> QED
    BY <1>1, <2>1, <2>2
       DEF Produced, Histories, Readings, File
<1>5. Writing'
  <2>1. ASSUME NEW h \in Goroutine
        PROVE  /\ gpc'[h] = "generate" <=> output'[h] # NotGenerated
               /\ gpc'[h] # "generate" => step'[h] = 0
               /\ gpc'[h] = "generate" =>
                     /\ output'[h] \in Generations(lastRead)
                     /\ \A j \in 1 .. step'[h] :
                           Steps[j] \in Regenerated => files[Steps[j]] = output'[h]
    <3>1. CASE h = g
      BY <1>1, <1>2, <3>1 DEF Produced, Histories
    <3>2. CASE h # g
      BY <1>1, <1>2, <3>2 DEF Produced, Histories, Writing
    <3> QED
      BY <3>1, <3>2
  <2> QED
    BY <1>1, <2>1 DEF Writing, Regenerated
<1>6. Written'
  <2>1. CASE failed'
    BY <2>1 DEF Written
  <2>2. CASE ~failed'
    <3>1. \A e \in Regenerated : files[e] = output[g]
      BY <1>1, <1>3, <2>2, GeneratorAssumption DEF Produced, Writing, Regenerated, File
    <3>2. output[g] \in Generations(lastRead)
      BY <1>1 DEF Produced, Writing
    <3>3. \E s \in Generations(lastRead) : \A e \in Regenerated : files[e] = s
      BY <3>1, <3>2
    <3> QED
      BY <1>1, <3>3 DEF Written, Regenerated
  <2> QED
    BY <2>1, <2>2
<1> QED
  BY <1>4, <1>5, <1>6 DEF Produced

LEMMA ProducedStep ==
    ASSUME Below, Produced, [SNext]_svars
    PROVE  Produced'
<1> USE DEF Below, Refresher!TypeOK
<1>1. CASE UNCHANGED svars
  BY <1>1, SteadyProduced DEF svars, refresherVars
<1>2. ASSUME NEW c \in Publisher, Publish(c) \/ RegisterSchemaRefresh(c) \/ PublisherStep(c)
      PROVE  Produced'
  <2>1. /\ UNCHANGED outputVars
        /\ \A g \in Goroutine : gpc'[g] = "generate" <=> gpc[g] = "generate"
    BY <1>2 DEF Publish, RegisterSchemaRefresh, PublisherStep, TakeLock, TriggerStart,
       TriggerEnd, ReleaseLock, refresherVars, Refresher!TriggerEnter,
       Refresher!TriggerLocked, Refresher!TriggerDebounced, Refresher!TriggerPending,
       Refresher!TriggerRun
  <2> QED
    BY <2>1, SteadyProduced
<1>3. CASE Schedule
  <2>1. /\ UNCHANGED outputVars
        /\ \A g \in Goroutine : gpc'[g] = "generate" <=> gpc[g] = "generate"
    BY <1>3 DEF Schedule, Refresher!Cancel, Refresher!TimerElapses, Refresher!TimerFires
  <2> QED
    BY <2>1, SteadyProduced
<1>4. ASSUME NEW g \in Goroutine, Step(g) PROVE Produced'
  <2>1. /\ UNCHANGED outputVars
        /\ \A h \in Goroutine : gpc'[h] = "generate" <=> gpc[h] = "generate"
    BY <1>4 DEF Step, Refresher!FlushEnter, Refresher!FlushPending, Refresher!FlushRun,
       Refresher!RunEnter, Refresher!FinishAgain, Refresher!FinishIdle
  <2> QED
    BY <2>1, SteadyProduced
<1> QED
  BY <1>1, <1>2, <1>3, <1>4, LoadSchemasProduced, WriteFileProduced, EndProduced
     DEF SNext, GoroutineStep

LEMMA ProducedHolds == SSpec => []Produced
<1>1. Below /\ Produced /\ [SNext]_svars => Produced'
  BY ProducedStep
<1> QED
  BY <1>1, ProducedInit, BelowHolds, PTL DEF SSpec

\* At rest the regenerated files are of one generation, made from the last
\* reading, unless the run that read last has failed: for any files in any order.
THEOREM OneGenerationOnDisk == SSpec => []FilesOfOneGeneration
<1>1. Produced => FilesOfOneGeneration
  BY DEF Produced, Written, Regenerated, FilesOfOneGeneration, AtRest
<1> QED
  BY <1>1, ProducedHolds, PTL

\* The types, and that Trigger runs only inside the upsert that called it.
THEOREM TypeCorrect == SSpec => []STypeOK
<1>1. Below /\ Announced /\ Produced => STypeOK
  BY DEF Below, Announced, Locked, Produced, Histories, Writing, STypeOK
<1>2. Below /\ Below' /\ Announced /\ [SNext]_svars => Announced'
  BY AnnouncedStep
<1> QED
  BY <1>1, <1>2, AnnouncedInit, BelowHolds, ProducedHolds, PTL DEF SSpec

-----------------------------------------------------------------------------
(* The two locks (gql/refresh/refresh.go:54). ENABLED is beyond the provers: *)
(* MayGoOn writes down the guards of a publisher's and a goroutine's steps,  *)
(* and TLC compares them.                                                    *)

\* Upsert and RegisterSchemaListener wait for a free lock; under it the listener
\* is called, enters Trigger and finds its way out of it; then the lock is freed.
PublisherMayGoOn(c) ==
    \/ cpc[c] \in {"upsert", "add"} /\ writer = NoClient
    \/ cpc[c] = "notify" /\ todo[c] = <<>>
    \/ /\ cpc[c] = "notify" /\ todo[c] # <<>>
       /\ \/ trig[c] = "idle"
          \/ debounced \/ running \/ \E g \in Goroutine : gpc[g] = "none"

\* Nothing but the registry's lock ever stops a goroutine of the refresher.
GoroutineMayGoOn(g) ==
    gpc[g] # "none" /\ (gpc[g] = "call" => writer = NoClient /\ cpc[g] = "idle")

MayGoOnIsExact ==
    /\ \A c \in Publisher : PublisherMayGoOn(c) <=> ENABLED PublisherStep(c)
    /\ \A g \in Goroutine : GoroutineMayGoOn(g) <=> ENABLED GoroutineStep(g)

\* Who cannot go on waits for a publisher that holds the registry's lock and can.
WaitsForAPublisher ==
    LET holderGoesOn == writer \in Publisher /\ PublisherMayGoOn(writer)
    IN  /\ \A c \in Publisher : cpc[c] # "idle" => PublisherMayGoOn(c) \/ holderGoesOn
        /\ \A g \in Goroutine : gpc[g] # "none" => GoroutineMayGoOn(g) \/ holderGoesOn

\* The generator only reads the registry, and without debounce there is no flush.
Reading ==
    /\ \A g \in Goroutine : cpc[g] = "idle"
    /\ \A g \in Goroutine : gpc[g] \in {"flush", "lock"} => debounced

LEMMA ReadingStep ==
    ASSUME Below, Reading, [SNext]_svars
    PROVE  Reading'
<1> USE DEF Below, Registry!RTypeOK, Refresher!TypeOK, Reading
<1>1. CASE UNCHANGED svars
  BY <1>1 DEF svars, registryVars, refresherVars
<1>2. ASSUME NEW c \in Publisher, Publish(c) \/ RegisterSchemaRefresh(c) \/ PublisherStep(c)
      PROVE  Reading'
  <2>1. c \notin Goroutine
    BY GeneratorAssumption
  <2>2. \A g \in Goroutine : cpc'[g] = cpc[g]
    BY <1>2, <2>1 DEF Publish, RegisterSchemaRefresh, PublisherStep, TakeLock, TriggerStart,
       TriggerEnd, ReleaseLock, Registry!RegisterSchemaEntry, Registry!RegisterSchemaListener,
       Registry!Upsert, Registry!AddListener, Registry!Notify, Registry!UpsertReturns,
       registryVars
  <2>3. /\ debounced' = debounced
        /\ \A g \in Goroutine : gpc'[g] \in {gpc[g], "run"}
    BY <1>2 DEF Publish, RegisterSchemaRefresh, PublisherStep, TakeLock, TriggerStart,
       TriggerEnd, ReleaseLock, refresherVars, Refresher!TriggerEnter,
       Refresher!TriggerLocked, Refresher!TriggerDebounced, Refresher!TriggerPending,
       Refresher!TriggerRun
  <2> QED
    BY <2>2, <2>3
<1>3. CASE Schedule
  BY <1>3 DEF Schedule, registryVars, Refresher!Cancel, Refresher!TimerElapses,
     Refresher!TimerFires
<1>4. ASSUME NEW g \in Goroutine, GoroutineStep(g) PROVE Reading'
  <2>1. cpc' = cpc
    BY <1>4 DEF GoroutineStep, Step, LoadSchemas, WriteFile, GenerateSucceeds, GenerateFails,
       Registry!ListSchemas, registryVars
  <2>2. /\ debounced' = debounced
        /\ \A h \in Goroutine : gpc'[h] \in {"flush", "lock"} => gpc[h] \in {"flush", "lock"}
    BY <1>4 DEF GoroutineStep, Step, LoadSchemas, WriteFile, GenerateSucceeds, GenerateFails,
       Refresher!FlushEnter, Refresher!FlushPending, Refresher!FlushRun, Refresher!RunEnter,
       Refresher!GeneratorReads, Refresher!GeneratorReturns, Refresher!FinishAgain,
       Refresher!FinishIdle, refresherVars
  <2> QED
    BY <2>1, <2>2
<1> QED
  BY <1>1, <1>2, <1>3, <1>4 DEF SNext

\* Trigger under the registry's lock, and a generator that asks for that lock from
\* a goroutine of its own, never wait for each other: whatever waits, waits for a
\* publisher that is not waiting, for any publishers and any runs.
THEOREM LocksAreTakenInOrder == SSpec => []WaitsForAPublisher
<1>1. SInit => Reading
  BY DEF SInit, Registry!RInit, Refresher!Init, Reading
<1>2. Below /\ Reading => WaitsForAPublisher
  <2> SUFFICES ASSUME Below, Reading PROVE WaitsForAPublisher
    OBVIOUS
  <2> USE DEF Below, Registry!RTypeOK, Refresher!TypeOK
  <2>1. ASSUME NEW c \in Publisher, cpc[c] = "notify" PROVE PublisherMayGoOn(c)
    <3>1. debounced \/ running \/ \E g \in Goroutine : gpc[g] = "none"
      BY GeneratorAssumption DEF Reading, Refresher!RunningHasOneOwner, Refresher!Owners,
         Refresher!RunPoints
    <3>2. trig[c] \in {"idle", "lock"}
      OBVIOUS
    <3> QED
      BY <2>1, <3>1, <3>2 DEF PublisherMayGoOn
  <2>2. writer = NoClient \/ (writer \in Publisher /\ PublisherMayGoOn(writer))
    <3>1. CASE writer \in Publisher \cup Goroutine
      <4>1. cpc[writer] = "notify"
        BY <3>1
      <4>2. writer \in Publisher
        BY <3>1, <4>1 DEF Reading
      <4> QED
        BY <2>1, <4>1, <4>2
    <3> QED
      BY <3>1
  <2>3. ASSUME NEW c \in Publisher, cpc[c] # "idle", writer = NoClient
        PROVE  PublisherMayGoOn(c)
    <3>1. cpc[c] \in {"upsert", "notify", "add"}
      BY <2>3
    <3> QED
      BY <2>1, <2>3, <3>1 DEF PublisherMayGoOn
  <2>4. ASSUME NEW g \in Goroutine, gpc[g] # "none", writer = NoClient
        PROVE  GoroutineMayGoOn(g)
    BY <2>4 DEF Reading, GoroutineMayGoOn
  <2> QED
    BY <2>2, <2>3, <2>4 DEF WaitsForAPublisher
<1> QED
  BY <1>1, <1>2, ReadingStep, BelowHolds, PTL DEF SSpec

=============================================================================
